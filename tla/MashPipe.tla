------------------------------ MODULE MashPipe ------------------------------
(***************************************************************************)
(* The shell of OS-PA1, second half: the processes run_command() starts,   *)
(* one for a simple command and two for a pipeline, who has which end of   *)
(* the pipe open, and the waits.  The kernel side is modelled from its     *)
(* use: a read sees the end of the input when nobody can write any more, a *)
(* write without a reader kills, a full pipe blocks.                       *)
(***************************************************************************)
EXTENDS MashAlias

CONSTANTS
  Programs,  \* the names execvp() finds
  Readers,   \* those that read their input to its end
  Capacity,  \* lines a pipe holds
  MaxLines,  \* bound: lines the left program writes
  NULL

ASSUME MashPipeAssumption ==
  /\ Readers \subseteq Programs
  /\ NULL \notin Programs
  /\ Capacity \in Nat \ {0}
  /\ MaxLines \in Nat

Child == {"left", "right", "only"}
End == {"read", "write", "stdin", "stdout"}  \* pipefd[0], pipefd[1], and their
                                             \* copies at the standard streams
VARIABLES
  state,   \* of the children: "none", "dup", "close", "exec", "running", "zombie"
  prog,    \* the name each is to execute
  code,    \* its exit status
  fd,      \* the ends of the pipe each process has open
  noPid,   \* the children whose fork() returned -1
  todo,    \* lines the left program has still to write
  wrote,   \* lines it has written
  buf,     \* lines in the pipe
  got,     \* lines the right program has read
  ret      \* what run_command() returns

children == <<state, prog, code, noPid>>
pipe == <<fd, todo, wrote, buf, got>>

Existing == {c \in Child : state[c] # "none"}
HasWriter == \E p \in Child \cup {"shell"} : fd[p] \cap {"write", "stdout"} # {}
HasReader == \E p \in Child \cup {"shell"} : fd[p] \cap {"read", "stdin"} # {}

\* pipe_loc: the last "|".
LastBar(ws) == {k \in DOMAIN ws : ws[k] = "|" /\ "|" \notin ToSet(SubSeq(ws, k + 1, Len(ws)))}

Piped == "|" \in ToSet(tokens)

LeftProgram == IF tokens[1] = "|" /\ 1 \in LastBar(tokens) THEN NULL ELSE tokens[1]

RightProgram ==
  LET k == CHOOSE k \in LastBar(tokens) : TRUE
  IN  IF k = Len(tokens) THEN NULL ELSE tokens[k + 1]

-----------------------------------------------------------------------------
(* The shell *)

CreatePipe ==
  /\ pc = "pipe"
  /\ \/ pc' = "forkLeft" /\ fd' = [fd EXCEPT !["shell"] = {"read", "write"}]
     \/ pc' = "died" /\ UNCHANGED fd    \* pipe() fails: exit(1)
  /\ UNCHANGED <<reading, children, todo, wrote, buf, got, ret>>

\* fork(): the child has the parent's open ends, or there is no child.
Fork(c, program, first) ==
  \/ /\ state' = [state EXCEPT ![c] = first]
     /\ prog' = [prog EXCEPT ![c] = program]
     /\ fd' = [fd EXCEPT ![c] = fd["shell"]]
     /\ UNCHANGED noPid
  \/ /\ noPid' = noPid \cup {c}
     /\ UNCHANGED <<state, prog, fd>>

ForkLeft ==
  /\ pc = "forkLeft"
  /\ pc' = "closeWrite"
  /\ Fork("left", LeftProgram, "dup")
  /\ UNCHANGED <<reading, code, todo, wrote, buf, got, ret>>

Close(p, end) == fd' = [fd EXCEPT ![p] = @ \ {end}]

\* Mutant: the end the shell has of the pipe stays open.
LeaveOpen(end) == UNCHANGED fd

ShellCloses(end) == Close("shell", end)

CloseWrite ==
  /\ pc = "closeWrite"
  /\ pc' = "forkRight"
  /\ ShellCloses("write")
  /\ UNCHANGED <<reading, children, todo, wrote, buf, got, ret>>

ForkRight ==
  /\ pc = "forkRight"
  /\ pc' = "closeRead"
  /\ Fork("right", RightProgram, "dup")
  /\ UNCHANGED <<reading, code, todo, wrote, buf, got, ret>>

CloseRead ==
  /\ pc = "closeRead"
  /\ pc' = "waitLeft"
  /\ Close("shell", "read")
  /\ UNCHANGED <<reading, children, todo, wrote, buf, got, ret>>

Reap(c) == state' = [state EXCEPT ![c] = "none"]

\* waitpid(): for the child, or for any child if its pid is -1; it returns at
\* once when there is none.
WaitPid(c) ==
  LET awaited == Existing \cap (IF c \in noPid THEN Child ELSE {c})
  IN  \/ \E z \in awaited : state[z] = "zombie" /\ Reap(z)
      \/ awaited = {} /\ UNCHANGED state

WaitLeft ==
  /\ pc = "waitLeft"
  /\ WaitPid("left")
  /\ pc' = "waitRight"
  /\ UNCHANGED <<reading, prog, code, noPid, pipe, ret>>

\* Mutant: the shell does not wait for the right-hand process.
DontWait == UNCHANGED state

AwaitRight == WaitPid("right")

WaitRight ==
  /\ pc = "waitRight"
  /\ AwaitRight
  /\ pc' = "back"
  /\ ret' = 1
  /\ UNCHANGED <<reading, prog, code, noPid, pipe>>

ForkOnly ==
  /\ pc = "fork"
  /\ pc' = "wait"
  /\ Fork("only", tokens[1], "exec")
  /\ UNCHANGED <<reading, code, todo, wrote, buf, got, ret>>

Result(status) == IF status = 0 THEN 1 ELSE -1

\* wait(): when fork() failed there is nobody to wait for, and the status that
\* decides the result was never set.
WaitOnly ==
  /\ pc = "wait"
  /\ \/ \E c \in Existing : state[c] = "zombie" /\ Reap(c) /\ ret' = Result(code[c])
     \/ Existing = {} /\ ret' \in {1, -1} /\ UNCHANGED state
  /\ pc' = "back"
  /\ UNCHANGED <<reading, prog, code, noPid, pipe>>

Launch ==
  \/ CreatePipe \/ ForkLeft \/ CloseWrite \/ ForkRight \/ CloseRead
  \/ WaitLeft \/ WaitRight \/ ForkOnly \/ WaitOnly

-----------------------------------------------------------------------------
(* The children *)

Ends(c, status) ==
  /\ state' = [state EXCEPT ![c] = "zombie"]
  /\ code' = [code EXCEPT ![c] = status]
  /\ fd' = [fd EXCEPT ![c] = {}]

Stream(c) == IF c = "left" THEN "stdout" ELSE "stdin"

\* Mutant: the left-hand process keeps its standard output.
DupRight(c) == fd' = IF c = "left" THEN fd ELSE [fd EXCEPT ![c] = @ \cup {Stream(c)}]

dup2(c) == fd' = [fd EXCEPT ![c] = @ \cup {Stream(c)}]

Redirect(c) ==
  /\ state[c] = "dup"
  /\ state' = [state EXCEPT ![c] = "close"]
  /\ dup2(c)
  /\ UNCHANGED <<pc, reading, prog, code, noPid, todo, wrote, buf, got, ret>>

\* The other end; the right-hand process has none, as it was forked after the
\* shell had closed it.
CloseOther(c) ==
  /\ state[c] = "close"
  /\ state' = [state EXCEPT ![c] = "exec"]
  /\ Close(c, IF c = "left" THEN "read" ELSE "write")
  /\ UNCHANGED <<pc, reading, prog, code, noPid, todo, wrote, buf, got, ret>>

ExecWorks(c) ==
  /\ state[c] = "exec"
  /\ prog[c] \in Programs
  /\ state' = [state EXCEPT ![c] = "running"]
  /\ IF c = "left" THEN todo' \in 0 .. MaxLines ELSE UNCHANGED todo
  /\ UNCHANGED <<pc, reading, prog, code, noPid, fd, wrote, buf, got, ret>>

\* No such program, no name at all, or arguments that do not end.
ExecFails(c) ==
  /\ state[c] = "exec"
  /\ prog[c] \notin Programs \/ (array = "short" /\ c # "left")
  /\ Ends(c, 1)
  /\ UNCHANGED <<pc, reading, prog, noPid, todo, wrote, buf, got, ret>>

Write ==
  /\ state["left"] = "running"
  /\ todo > 0
  /\ "stdout" \in fd["left"] => HasReader /\ buf < Capacity
  /\ todo' = todo - 1
  /\ wrote' = wrote + 1
  /\ buf' = IF "stdout" \in fd["left"] THEN buf + 1 ELSE buf
  /\ UNCHANGED <<pc, reading, children, fd, got, ret>>

Killed ==  \* SIGPIPE
  /\ state["left"] = "running"
  /\ todo > 0
  /\ "stdout" \in fd["left"]
  /\ ~HasReader
  /\ Ends("left", 1)
  /\ UNCHANGED <<pc, reading, prog, noPid, todo, wrote, buf, got, ret>>

ReadsPipe(c) == prog[c] \in Readers /\ "stdin" \in fd[c]

Consume ==
  /\ state["right"] = "running"
  /\ ReadsPipe("right")
  /\ buf > 0
  /\ buf' = buf - 1
  /\ got' = got + 1
  /\ UNCHANGED <<pc, reading, children, fd, todo, wrote, ret>>

\* A program ends when it has written all it has to and, if it reads its input
\* to the end, has come to the end.
Finish(c) ==
  /\ state[c] = "running"
  /\ c = "left" => todo = 0
  /\ ReadsPipe(c) => buf = 0 /\ ~HasWriter
  /\ \E status \in {0, 1} : Ends(c, status)
  /\ UNCHANGED <<pc, reading, prog, noPid, todo, wrote, buf, got, ret>>

ChildStep(c) ==
  \/ Redirect(c) \/ CloseOther(c) \/ ExecWorks(c) \/ ExecFails(c)
  \/ Finish(c)
  \/ c = "left" /\ (Write \/ Killed)
  \/ c = "right" /\ Consume
=============================================================================
