\* The shell: 20 lines, two aliases, pipelines whose left-hand program writes up
\* to three lines through a pipe that holds two.
SPECIFICATION Spec
CONSTANTS
  Blank = Blank
  NULL = NULL
  Lines <- AllLines
  MAX_NR_TOKENS = 32
  MaxTokens = 195
  MaxAliases = 2
  Programs = {"ls", "cat"}
  Readers = {"cat"}
  Capacity = 2
  MaxLines = 3
  Directories = {"dir"}
  Home = "home"
\* The session ends: exit, the end of the input, or a crash.
CHECK_DEADLOCK FALSE
INVARIANTS
  TypeOK
  TranslatedByAge
  NamesDistinct
  RunawayIsSelfMade
  NothingLeftBehind
  ReportsItsOwn
PROPERTIES
  ReaderGetsAll
  ShellComesBack
