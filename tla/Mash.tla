-------------------------------- MODULE Mash --------------------------------
(***************************************************************************)
(* The shell of OS-PA1: a line is read, translated (MashAlias) and then    *)
(* carried out by the shell itself or by processes it starts (MashPipe).   *)
(***************************************************************************)
EXTENDS MashPipe

CONSTANTS
  Directories,  \* the names chdir() accepts, beside the home directory
  Home          \* $HOME

VARIABLE cwd    \* the working directory of the shell

vars == <<pc, reading, children, pipe, ret, cwd>>

Init ==
  /\ pc = "prompt"
  /\ stack = <<>>
  /\ typed = <<>>
  /\ tokens = <<>>
  /\ pos = 1
  /\ i = 1
  /\ array = "main"
  /\ state = [c \in Child |-> "none"]
  /\ prog = [c \in Child |-> NULL]
  /\ code = [c \in Child |-> 0]
  /\ fd = [p \in Child \cup {"shell"} |-> {}]
  /\ noPid = {}
  /\ todo = 0
  /\ wrote = 0
  /\ buf = 0
  /\ got = 0
  /\ ret = 1
  /\ cwd = Home

-----------------------------------------------------------------------------
(* run_command(), from the translated tokens to the process or the builtin *)

\* The aliases left nothing of the command: tokens[0] is NULL, or was never set,
\* and then what it points to may be readable, and is no command.
Nothing ==
  /\ pc = "decide"
  /\ tokens = <<>>
  /\ pc' \in IF array = "short" THEN {"crashed", "back"} ELSE {"crashed"}
  /\ ret' \in {1, -1}
  /\ UNCHANGED <<reading, children, pipe, cwd>>

Is(name) == tokens # <<>> /\ tokens[1] = name

\* Mutant: a failure is reported as 0, which ends the shell.
FailureEnds == 0

Failure == -1

\* cd is looked at first, with or without a pipeline.
ChangeDirectory ==
  /\ pc = "decide"
  /\ Is("cd")
  /\ Len(tokens) = 1 => array # "short"
  /\ pc' = "back"
  /\ LET dir == IF Len(tokens) = 1 \/ tokens[2] = "~" THEN Home ELSE tokens[2]
     IN  IF dir \in Directories \cup {Home}
         THEN cwd' = dir /\ ret' = 1
         ELSE ret' = Failure /\ UNCHANGED cwd
  /\ UNCHANGED <<reading, children, pipe>>

\* tokens[1] was never set: NULL, unreadable, or no directory.
ChangeSomewhere ==
  /\ pc = "decide"
  /\ tokens = <<"cd">>
  /\ array = "short"
  /\ \/ pc' = "back" /\ cwd' = Home /\ ret' = 1
     \/ pc' \in {"back", "crashed"} /\ ret' = Failure /\ UNCHANGED cwd
  /\ UNCHANGED <<reading, children, pipe>>

IsAlias == Is("alias") /\ ~Piped

DefineAlias ==
  /\ pc = "decide"
  /\ IsAlias
  /\ Len(tokens) > 1
  /\ Define
  /\ ret' = 1
  /\ UNCHANGED <<typed, tokens, pos, i, array, children, pipe, cwd>>

ListAliases ==
  /\ pc = "decide"
  /\ IsAlias
  /\ Len(tokens) = 1
  /\ pc' = "back"
  /\ ret' = 1
  /\ UNCHANGED <<reading, children, pipe, cwd>>

StartPrograms ==
  /\ pc = "decide"
  /\ tokens # <<>> /\ ~Is("cd") /\ ~IsAlias
  /\ pc' = IF Piped THEN "pipe" ELSE "fork"
  /\ UNCHANGED <<reading, children, pipe, ret, cwd>>

Decide ==
  Nothing \/ ChangeDirectory \/ ChangeSomewhere \/ DefineAlias \/ ListAliases \/ StartPrograms

\* The locals of run_command() go with it.
Back ==
  /\ Return
  /\ prog' = [c \in Child |-> NULL]
  /\ code' = [c \in Child |-> 0]
  /\ noPid' = {}
  /\ todo' = 0
  /\ wrote' = 0
  /\ buf' = 0
  /\ got' = 0
  /\ UNCHANGED <<state, fd, ret, cwd>>

Shell ==
  \/ (Exit \/ Begin \/ Translate) /\ UNCHANGED <<children, pipe, ret, cwd>>
  \/ Decide
  \/ Launch /\ UNCHANGED cwd
  \/ Back

User == (ReadLine \/ EndOfInput) /\ UNCHANGED <<children, pipe, ret, cwd>>

\* The session is over, or beyond the bounds of the model.
Ended == pc \in {"done", "died", "crashed", "runaway", "full"}

Next ==
  \/ User
  \/ Shell
  \/ \E c \in Child : ChildStep(c) /\ UNCHANGED cwd

\* The kernel runs every process that can run, and programs end.
Fairness ==
  /\ WF_vars(Shell)
  /\ \A c \in Child : WF_vars(ChildStep(c) /\ UNCHANGED cwd)

Spec == Init /\ [][Next]_vars /\ Fairness
=============================================================================
