\* The aliases of the example in README.md in either order, and one defined by another.
SPECIFICATION Spec
CONSTANTS
  Blank = Blank
  NULL = NULL
  Lines <- ReadmeLines
  MAX_NR_TOKENS = 32
  MaxTokens = 8
  MaxAliases = 3
  Programs = {"echo"}
  Readers = {}
  Capacity = 1
  MaxLines = 0
  Directories = {}
  Home = "home"
CHECK_DEADLOCK FALSE
INVARIANT NoSecondTranslation
