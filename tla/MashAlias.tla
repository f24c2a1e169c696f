----------------------------- MODULE MashAlias -----------------------------
(***************************************************************************)
(* The shell of OS-PA1, first half: reading a line (main() of mash.c and   *)
(* parser.c) and the translation of aliases that run_command() of pa1.c    *)
(* does before it looks at the command.  Indices start at 1.               *)
(***************************************************************************)
EXTENDS Integers, SequencesExt

CONSTANTS
  Blank,         \* white space between words
  Lines,         \* the lines the user may type: sequences of words and Blank
  MAX_NR_TOKENS, \* parser.h
  MaxTokens,     \* bound: how far the model follows a growing command
  MaxAliases     \* bound: how many aliases the model keeps

VARIABLES
  pc,      \* what the shell does next
  stack,   \* the aliases, the newest first
  typed,   \* the words of the line typed
  tokens,  \* the words of the command, as translated so far
  pos,     \* the alias looked for
  i,       \* the token it is compared with
  array    \* where tokens live: "main" (the array of main()), "exact" (one of
           \* just nr_tokens entries), "short" (one with an entry never set)

reading == <<stack, typed, tokens, pos, i, array>>

\* The words of a command, in order: the strtok() loop.
parse_command(command) ==
  LET words[k \in 0 .. Len(command)] ==
        IF k = 0 THEN <<>>
        ELSE IF command[k] = Blank THEN words[k - 1]
        ELSE Append(words[k - 1], command[k])
  IN  words[Len(command)]

\* What may stand in a line.
Items == {Blank} \cup UNION {ToSet(line) : line \in Lines}

ASSUME MashAliasAssumption ==
  /\ Lines \subseteq Seq(Items)
  /\ \A line \in Lines : Len(parse_command(line)) < MAX_NR_TOKENS
  /\ MaxTokens \in Nat
  /\ MaxAliases \in Nat

\* The text of an alias: the strcat() loop, with a blank between two words.
Joined(ws) ==
  [k \in 1 .. 2 * Len(ws) - 1 |-> IF k % 2 = 1 THEN ws[(k + 1) \div 2] ELSE Blank]

\* ws with its k-th word replaced by the words new.
Expanded(ws, k, new) == SubSeq(ws, 1, k - 1) \o new \o SubSeq(ws, k + 1, Len(ws))

-----------------------------------------------------------------------------
(* main(): a line of blanks is read and forgotten *)

ReadLine ==
  /\ pc = "prompt"
  /\ \E line \in Lines :
       /\ tokens' = parse_command(line)
       /\ pc' = IF tokens' = <<>> THEN "prompt" ELSE "run"
  /\ typed' = tokens'
  /\ UNCHANGED <<stack, pos, i, array>>

EndOfInput ==
  /\ pc = "prompt"
  /\ pc' = "done"
  /\ UNCHANGED reading

-----------------------------------------------------------------------------
(* run_command(): exit, then one pass over the tokens for each alias *)

Exit ==
  /\ pc = "run"
  /\ tokens[1] = "exit"
  /\ pc' = "done"
  /\ UNCHANGED reading

\* Mutant: the token index is not set back for the next alias.
KeepIndex == i

\* Mutant: an alias command is not translated.
SparesAliases == IF tokens[1] = "alias" THEN Len(tokens) + 1 ELSE 1

FirstIndex == 1

Begin ==
  /\ pc = "run"
  /\ tokens[1] # "exit"
  /\ IF stack = <<>>
     THEN pc' = "decide" /\ UNCHANGED <<pos, i>>
     ELSE pc' = "scan" /\ pos' = 1 /\ i' = FirstIndex
  /\ UNCHANGED <<stack, typed, tokens, array>>

InTokens == i <= Len(tokens)

SkipToken ==
  /\ pc = "scan"
  /\ InTokens
  /\ tokens[i] # stack[pos].name
  /\ i' = i + 1
  /\ UNCHANGED <<pc, stack, typed, tokens, pos, array>>

\* Mutant: the pass goes on from the first of the words put in.
NextIsFirst == i

\* Where the pass goes on after a replacement.
NextIndex == i + 1

ReplaceToken ==
  /\ pc = "scan"
  /\ InTokens
  /\ tokens[i] = stack[pos].name
  /\ tokens' = Expanded(tokens, i, parse_command(stack[pos].command))
  /\ i' = NextIndex
  /\ array' = "exact"
  /\ pc' = IF Len(tokens') > MaxTokens THEN "runaway" ELSE "scan"
  /\ UNCHANGED <<stack, typed, pos>>

NextAlias ==
  /\ pc = "scan"
  /\ ~InTokens
  /\ pos < Len(stack)
  /\ pos' = pos + 1
  /\ i' = FirstIndex
  /\ UNCHANGED <<pc, stack, typed, tokens, array>>

\* tokens[i] = NULL: in an array of exactly nr_tokens entries this is one entry
\* behind it, and two when the last token was replaced by nothing.
EndScan ==
  /\ pc = "scan"
  /\ ~InTokens
  /\ pos = Len(stack)
  /\ pc' = "decide"
  /\ array' = IF array # "main" /\ i > Len(tokens) + 1 THEN "short" ELSE array
  /\ UNCHANGED <<stack, typed, tokens, pos, i>>

Translate == SkipToken \/ ReplaceToken \/ NextAlias \/ EndScan

-----------------------------------------------------------------------------
(* The alias builtin *)

list_add(entry) == <<entry>> \o stack

Define ==
  IF Len(stack) < MaxAliases
  THEN /\ stack' = list_add([name |-> tokens[2],
                             command |-> Joined(SubSeq(tokens, 3, Len(tokens)))])
       /\ pc' = "back"
  ELSE pc' = "full" /\ UNCHANGED stack

\* The array that ended up one word short may have done harm to the heap; it
\* shows when memory is next freed, or never.
Return ==
  /\ pc = "back"
  /\ pc' \in IF array = "main" THEN {"prompt"} ELSE {"prompt", "crashed"}
  /\ typed' = <<>>
  /\ tokens' = <<>>
  /\ pos' = 1
  /\ i' = 1
  /\ array' = "main"
  /\ UNCHANGED stack
=============================================================================
