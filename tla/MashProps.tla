----------------------------- MODULE MashProps -----------------------------
(* What the shell of OS-PA1 promises. *)
EXTENDS Mash

Words == Items \ {Blank}
Commands == {a.command : a \in ToSet(stack)}

\* The variables have the types of the C program, as far as the model keeps them.
TypeOK ==
  /\ pc \in {"prompt", "run", "scan", "decide", "pipe", "forkLeft", "closeWrite",
             "forkRight", "closeRead", "waitLeft", "waitRight", "fork", "wait",
             "back", "done", "died", "crashed", "runaway", "full"}
  /\ stack \in Seq([name : Words, command : Seq(Items)])
  /\ Len(stack) <= MaxAliases
  /\ typed \in Seq(Words) /\ tokens \in Seq(Words)
  /\ pos \in 1 .. Len(stack) + 1
  /\ i \in 1 .. Len(tokens) + 2
  /\ array \in {"main", "exact", "short"}
  /\ state \in [Child -> {"none", "dup", "close", "exec", "running", "zombie"}]
  /\ prog \in [Child -> Words \cup {NULL}]
  /\ code \in [Child -> {0, 1}]
  /\ fd \in [Child \cup {"shell"} -> SUBSET End]
  /\ noPid \subseteq Child
  /\ todo \in 0 .. MaxLines
  /\ wrote \in 0 .. MaxLines
  /\ buf \in 0 .. Capacity
  /\ got \in 0 .. MaxLines
  /\ ret \in {1, -1}
  /\ cwd \in Directories \cup {Home}

-----------------------------------------------------------------------------
(* Translation *)

\* Every word of ws replaced by the text of alias a where it is a's name.
Pass(ws, a) ==
  LET out[k \in 0 .. Len(ws)] ==
        IF k = 0 THEN <<>>
        ELSE out[k - 1] \o (IF ws[k] = a.name THEN parse_command(a.command) ELSE <<ws[k]>>)
  IN  out[Len(ws)]

\* The line when the k newest of the aliases have had their pass, for each k.
Stages(line, aliases) ==
  LET after[k \in 0 .. Len(aliases)] ==
        IF k = 0 THEN line ELSE Pass(after[k - 1], aliases[k])
  IN  after

\* However the loops of run_command() go about it, with the index running over
\* tokens that change under it, the outcome is one replacement of every word
\* for each alias, from the newest to the oldest.  An alias without a text is
\* the exception: the word behind it moves to its place and is passed over.
TranslatedByAge ==
  pc = "decide" /\ <<>> \notin Commands => tokens = Stages(typed, stack)[Len(stack)]

Newest(w) == {k \in DOMAIN stack : stack[k].name = w /\
                \A j \in 1 .. k - 1 : stack[j].name # w}

Once(w) == IF Newest(w) = {} THEN <<w>>
           ELSE parse_command(stack[CHOOSE k \in Newest(w) : TRUE].command)

\* README.md of OS-PA1: a word that came out of an alias is not translated
\* again.  The code keeps this only for words whose alias is newer than the one
\* they came out of.
NoSecondTranslation ==
  pc = "decide" => tokens = FlattenSeq([k \in DOMAIN typed |-> Once(typed[k])])

Entangled == \E a, b \in ToSet(stack) : b.name \in ToSet(a.command)

\* The words of an alias command are translated too, so a word that has an
\* alias cannot be given a second one: as long as no text mentions the name of
\* an alias, and none is empty, the names are distinct.
NamesDistinct ==
  ~Entangled /\ <<>> \notin Commands =>
    \A j, k \in DOMAIN stack : stack[j].name = stack[k].name => j = k

\* A translation that never comes to an end is the fault of an alias whose text
\* has the alias's own name behind its first word, and of no other.
RunawayIsSelfMade ==
  pc = "runaway" => stack[pos].name \in ToSet(Tail(parse_command(stack[pos].command)))

\* The most words in the text of an alias that a command of l words defines, or
\* one if it has none.
TextOf(l) == IF l > 3 THEN l - 2 ELSE 1

\* The bounds leave room for every translation that ends: b[n] words are enough
\* for a command that n aliases have translated, none of which makes itself.
Room(b) ==
  /\ b[0] >= 1
  /\ \A line \in Lines : Len(parse_command(line)) <= b[0]
  /\ \A n \in 1 .. MaxAliases : b[n - 1] * TextOf(b[n - 1]) <= b[n]
  /\ b[MaxAliases] <= MaxTokens

RoomSuffices == \E b \in [0 .. MaxAliases -> Nat] : Room(b)

\* Why RunawayIsSelfMade holds.  The words the pass that is on has still to
\* replace:
ToReplace == {k \in DOMAIN tokens : i <= k /\ tokens[k] = stack[pos].name}

\* the alias looked for has its own name in its text, behind the first word:
SelfMade ==
  LET text == parse_command(stack[pos].command)
  IN  \E k \in 2 .. Len(text) : text[k] = stack[pos].name

\* and the room that the command needs, if the alias does not make itself, until
\* its last replacement and in the passes to come.
TextsFit(b) ==
  \A k \in 1 .. Len(stack) :
    Len(parse_command(stack[k].command)) <= TextOf(b[Len(stack) - k])

PassFits(b) ==
  LET rest == Len(stack) - pos
  IN  (Len(tokens) + Cardinality(ToReplace) * (TextOf(b[rest]) - 1)) * b[rest]
        <= b[0] * b[Len(stack)]

RoomInv(b) ==
  /\ TextsFit(b)
  /\ pc = "run" => Len(tokens) <= b[0]
  /\ pc = "scan" => (SelfMade /\ ToReplace # {}) \/ PassFits(b)
  /\ pc = "decide" => Len(tokens) <= b[Len(stack)]
  /\ RunawayIsSelfMade

-----------------------------------------------------------------------------
(* Processes *)

\* Whenever the shell asks for a line, no process of the last command is left,
\* running or unreaped, and no end of its pipe is open, whichever calls failed.
NothingLeftBehind ==
  pc \in {"prompt", "done"} => Existing = {} /\ \A p \in DOMAIN fd : fd[p] = {}

\* A program that reads its input to the end has, when it ends, read every line
\* the left-hand program had to write, and the latter is past its last line.
ReaderDone ==
  state["right"] = "running" /\ ReadsPipe("right") /\ state'["right"] # "running"

ReaderGetsAll ==
  [][ReaderDone => got = wrote /\ todo = 0 /\ state["left"] \notin {"exec", "running"}]_vars

\* The result of a simple command is the exit status of the very process that
\* was forked for it.
ReportsItsOwn == pc = "back" /\ prog["only"] # NULL => (ret = 1 <=> code["only"] = 0)

\* Every command comes to an end, with a prompt or with the shell: no process
\* waits forever for a line, for room in the pipe, or for a child.
ShellComesBack == pc = "run" ~> pc = "prompt" \/ Ended
=============================================================================
