----------------------------- MODULE MashProofs -----------------------------
(***************************************************************************)
(* The shell, whatever is typed, whichever calls fail, whatever a pipe     *)
(* holds and however much is written.  First the processes of a command    *)
(* line: the half of the shell that reads and translates starts none and   *)
(* leaves the pipe alone.  Then the words: their types, the names of the   *)
(* aliases, and what the translation makes of a line.                      *)
(***************************************************************************)
EXTENDS MashProps, ListLemmas, FiniteSetTheorems

Alive(c) == state[c] \notin {"none", "zombie"}

\* Where no command has been started, or none any longer.
Idle == {"prompt", "run", "scan", "decide", "pipe", "fork",
         "done", "died", "crashed", "runaway", "full"}

ProcessTypes ==
  /\ state \in [Child -> {"none", "dup", "close", "exec", "running", "zombie"}]
  /\ code \in [Child -> {0, 1}]
  /\ fd \in [Child \cup {"shell"} -> SUBSET End]
  /\ DOMAIN prog = Child /\ prog = [c \in Child |-> prog[c]]
  /\ noPid \subseteq Child
  /\ todo \in Nat /\ wrote \in Nat /\ buf \in Nat /\ got \in Nat

\* Who is there at which point of run_command(): a process awaited exists, or
\* its fork() returned -1.
Attendance ==
  /\ pc \in Idle \cup {"forkLeft"} =>
       /\ Existing = {} /\ noPid = {}
       /\ todo = 0 /\ wrote = 0 /\ buf = 0 /\ got = 0
  /\ pc \in {"closeWrite", "forkRight"} =>
       /\ Existing \subseteq {"left"}
       /\ noPid \subseteq {"left"}
       /\ "left" \in Existing <=> "left" \notin noPid
  /\ pc \in {"closeRead", "waitLeft"} =>
       /\ Existing \subseteq {"left", "right"}
       /\ \A c \in {"left", "right"} : c \in Existing <=> c \notin noPid
  /\ pc = "waitRight" =>
       /\ Existing \subseteq {"right"}
       /\ "right" \in noPid => Existing = {}
  /\ pc = "wait" =>
       /\ Existing \subseteq {"only"}
       /\ "only" \in Existing <=> "only" \notin noPid
  /\ pc = "back" => Existing = {}

\* Who has the pipe open.
Descriptors ==
  /\ fd["shell"] = CASE pc \in {"forkLeft", "closeWrite"} -> {"read", "write"}
                     [] pc \in {"forkRight", "closeRead"} -> {"read"}
                     [] OTHER -> {}
  /\ \A c \in Child : ~Alive(c) => fd[c] = {}
  /\ state["left"] \in {"close", "exec", "running"} => "stdout" \in fd["left"]
  /\ state["right"] = "dup" => "read" \in fd["right"]
  /\ state["right"] \in {"close", "exec", "running"} => "stdin" \in fd["right"]

\* What ReportsItsOwn needs.
OnlyChild ==
  prog["only"] # NULL =>
    \/ pc = "wait" /\ "only" \notin noPid
    \/ pc = "back" /\ (ret = 1 <=> code["only"] = 0)

\* Lines are in the pipe or have been read; a writer that ended early, or was
\* killed, has left nobody who reads.
Delivery ==
  /\ wrote = got + buf
  /\ state["left"] \in {"dup", "close", "exec"} => todo = 0
  /\ todo > 0 /\ state["left"] # "running" =>
       ~Alive("right") /\ pc \notin {"closeWrite", "forkRight"}

MashInv == ProcessTypes /\ Attendance /\ Descriptors /\ OnlyChild /\ Delivery

LEMMA InitMashInv ==
  ASSUME Init
  PROVE  MashInv
BY MashPipeAssumption DEF Init, MashInv, ProcessTypes, Attendance, Descriptors, OnlyChild, Delivery,
     Existing, Alive, Child, End, Idle

\* The half that reads, translates and decides.
LEMMA WordsKeepInv ==
  ASSUME MashInv, UNCHANGED <<children, pipe>>,
         pc \in Idle, pc' \in Idle \cup {"back"}
  PROVE  MashInv'
  <1>1. ProcessTypes'
    BY DEF MashInv, ProcessTypes, children, pipe
  <1>2. Attendance'
    BY DEF MashInv, Attendance, Existing, children, pipe, Idle
  <1>3. Descriptors'
    BY DEF MashInv, Descriptors, Alive, children, pipe, Idle
  <1>4. OnlyChild'
    BY DEF MashInv, OnlyChild, children, pipe, Idle
  <1>5. Delivery'
    BY DEF MashInv, Delivery, Alive, children, pipe, Idle
  <1> QED
    BY <1>1, <1>2, <1>3, <1>4, <1>5 DEF MashInv

\* run_command() returns; what it knew of the processes goes with it.
LEMMA BackKeepsInv ==
  ASSUME MashInv, Back
  PROVE  MashInv'
  <1> USE DEF Back, Return
  <1>1. ProcessTypes'
    BY DEF MashInv, ProcessTypes, Child
  <1>2. Attendance'
    BY DEF MashInv, Attendance, Existing, Idle
  <1>3. Descriptors'
    BY DEF MashInv, Descriptors, Alive
  <1>4. OnlyChild'
    BY DEF OnlyChild, Child
  <1>5. Delivery'
    BY DEF Delivery
  <1> QED
    BY <1>1, <1>2, <1>3, <1>4, <1>5 DEF MashInv

LEMMA CreatePipeKeepsInv ==
  ASSUME MashInv, CreatePipe
  PROVE  MashInv'
  <1> USE DEF CreatePipe, children, reading
  <1>1. ProcessTypes'
    BY DEF MashInv, ProcessTypes, End
  <1>2. Attendance'
    BY DEF MashInv, Attendance, Existing, Idle
  <1>3. Descriptors'
    BY DEF MashInv, ProcessTypes, Descriptors, Alive, Child
  <1>4. OnlyChild'
    BY DEF MashInv, OnlyChild
  <1>5. Delivery'
    BY DEF MashInv, Attendance, Delivery, Alive, Idle
  <1> QED
    BY <1>1, <1>2, <1>3, <1>4, <1>5 DEF MashInv

LEMMA ForkKeepsTypes ==
  ASSUME MashInv, NEW c \in Child, NEW program, NEW first \in {"dup", "exec"},
         Fork(c, program, first), UNCHANGED <<code, todo, wrote, buf, got>>
  PROVE  ProcessTypes'
BY DEF MashInv, ProcessTypes, Fork, Child, End

LEMMA ForkLeftKeepsInv ==
  ASSUME MashInv, ForkLeft
  PROVE  MashInv'
  <1> USE DEF ForkLeft, reading
  <1>1. ProcessTypes'
    BY ForkKeepsTypes DEF Child
  <1>2. Attendance'
    BY <1>1 DEF MashInv, ProcessTypes, Attendance, Existing, Idle, Fork, Child
  <1>3. Descriptors'
    BY DEF MashInv, ProcessTypes, Attendance, Descriptors, Alive, Existing, Idle, Fork, Child
  <1>4. OnlyChild'
    BY DEF MashInv, ProcessTypes, OnlyChild, Fork, Child
  <1>5. Delivery'
    BY DEF MashInv, ProcessTypes, Attendance, Delivery, Alive, Existing, Idle, Fork, Child
  <1> QED
    BY <1>1, <1>2, <1>3, <1>4, <1>5 DEF MashInv

LEMMA CloseWriteKeepsInv ==
  ASSUME MashInv, CloseWrite
  PROVE  MashInv'
  <1> USE DEF CloseWrite, ShellCloses, Close, reading, children
  <1>1. ProcessTypes'
    BY DEF MashInv, ProcessTypes, End
  <1>2. Attendance'
    BY DEF MashInv, Attendance, Existing, Idle
  <1>3. Descriptors'
    BY DEF MashInv, ProcessTypes, Descriptors, Alive, Child
  <1>4. OnlyChild'
    BY DEF MashInv, OnlyChild
  <1>5. Delivery'
    BY DEF MashInv, Delivery, Alive
  <1> QED
    BY <1>1, <1>2, <1>3, <1>4, <1>5 DEF MashInv

LEMMA ForkRightKeepsInv ==
  ASSUME MashInv, ForkRight
  PROVE  MashInv'
  <1> USE DEF ForkRight, reading
  <1>1. ProcessTypes'
    BY ForkKeepsTypes DEF Child
  <1>2. Attendance'
    BY <1>1 DEF MashInv, ProcessTypes, Attendance, Existing, Idle, Fork, Child
  <1>3. Descriptors'
    BY DEF MashInv, ProcessTypes, Attendance, Descriptors, Alive, Existing, Idle, Fork, Child
  <1>4. OnlyChild'
    BY DEF MashInv, ProcessTypes, OnlyChild, Fork, Child
  <1>5. Delivery'
    BY DEF MashInv, ProcessTypes, Delivery, Alive, Fork, Child
  <1> QED
    BY <1>1, <1>2, <1>3, <1>4, <1>5 DEF MashInv

LEMMA CloseReadKeepsInv ==
  ASSUME MashInv, CloseRead
  PROVE  MashInv'
  <1> USE DEF CloseRead, Close, reading, children
  <1>1. ProcessTypes'
    BY DEF MashInv, ProcessTypes, End
  <1>2. Attendance'
    BY DEF MashInv, Attendance, Existing, Idle
  <1>3. Descriptors'
    BY DEF MashInv, ProcessTypes, Descriptors, Alive, Child
  <1>4. OnlyChild'
    BY DEF MashInv, OnlyChild
  <1>5. Delivery'
    BY DEF MashInv, Delivery, Alive
  <1> QED
    BY <1>1, <1>2, <1>3, <1>4, <1>5 DEF MashInv

\* A wait takes at most a zombie away, and what it waits for is gone after it.
LEMMA WaitPidResult ==
  ASSUME MashInv, NEW c \in Child, WaitPid(c)
  PROVE  /\ state' \in [Child -> {"none", "dup", "close", "exec", "running", "zombie"}]
         /\ Existing' \subseteq Existing
         /\ c \notin noPid => c \notin Existing'
         /\ c \in noPid => \E z : Existing' = Existing \ {z} /\ (Existing = {} \/ z \in Existing)
         /\ \A z \in Child : state'[z] = state[z] \/ (state[z] = "zombie" /\ state'[z] = "none")
  <1> DEFINE awaited == Existing \cap (IF c \in noPid THEN Child ELSE {c})
  <1>0. state \in [Child -> {"none", "dup", "close", "exec", "running", "zombie"}]
    BY DEF MashInv, ProcessTypes
  <1>1. ASSUME NEW z \in awaited, state[z] = "zombie", Reap(z)
        PROVE  /\ state' = [state EXCEPT ![z] = "none"] /\ z \in Child
               /\ Existing' = Existing \ {z}
    BY <1>0, <1>1 DEF Reap, Existing
  <1>2. CASE awaited = {} /\ UNCHANGED state
    BY <1>0, <1>2 DEF Existing
  <1>3. CASE \E z \in awaited : state[z] = "zombie" /\ Reap(z)
    <2>1. PICK z \in awaited : state[z] = "zombie" /\ Reap(z)
      BY <1>3
    <2>2. /\ state' = [state EXCEPT ![z] = "none"] /\ z \in Child
          /\ Existing' = Existing \ {z}
      BY <1>1, <2>1
    <2> QED
      BY <1>0, <2>1, <2>2
  <1> QED
    BY <1>2, <1>3 DEF WaitPid

\* What the waits leave alone.
LEMMA ReapingKeepsRest ==
  ASSUME MashInv, UNCHANGED <<prog, code, noPid, pipe>>,
         state' \in [Child -> {"none", "dup", "close", "exec", "running", "zombie"}],
         \A z \in Child : state'[z] = state[z] \/ (state[z] = "zombie" /\ state'[z] = "none"),
         pc \in {"waitLeft", "waitRight", "wait"}, pc' \in {"waitRight", "back"}
  PROVE  ProcessTypes' /\ Descriptors' /\ Delivery'
  <1>1. ProcessTypes'
    BY DEF MashInv, ProcessTypes, pipe
  <1>2. Descriptors'
    BY DEF MashInv, ProcessTypes, Descriptors, Alive, Child, pipe
  <1>3. Delivery'
    BY DEF MashInv, ProcessTypes, Delivery, Alive, Child, pipe
  <1> QED
    BY <1>1, <1>2, <1>3

LEMMA WaitLeftKeepsInv ==
  ASSUME MashInv, WaitLeft
  PROVE  MashInv'
  <1> "left" \in Child
    BY DEF Child
  <1>1. /\ state' \in [Child -> {"none", "dup", "close", "exec", "running", "zombie"}]
        /\ Existing' \subseteq Existing
        /\ "left" \notin noPid => "left" \notin Existing'
        /\ "left" \in noPid => \E z : Existing' = Existing \ {z} /\ (Existing = {} \/ z \in Existing)
        /\ \A z \in Child : state'[z] = state[z] \/ (state[z] = "zombie" /\ state'[z] = "none")
    BY WaitPidResult DEF WaitLeft
  <1>2. ProcessTypes' /\ Descriptors' /\ Delivery'
    BY <1>1, ReapingKeepsRest DEF WaitLeft
  <1>3. Attendance'
    <2>1. Existing \subseteq {"left", "right"} /\ \A c \in {"left", "right"} : c \in Existing <=> c \notin noPid
      BY DEF MashInv, Attendance, WaitLeft
    <2>2. Existing' \subseteq {"right"} /\ ("right" \in noPid => Existing' = {})
      BY <1>1, <2>1
    <2> QED
      BY <2>2 DEF Attendance, WaitLeft, Idle
  <1>4. OnlyChild'
    BY DEF MashInv, OnlyChild, WaitLeft
  <1> QED
    BY <1>2, <1>3, <1>4 DEF MashInv

LEMMA WaitRightKeepsInv ==
  ASSUME MashInv, WaitRight
  PROVE  MashInv'
  <1> "right" \in Child
    BY DEF Child
  <1>1. /\ state' \in [Child -> {"none", "dup", "close", "exec", "running", "zombie"}]
        /\ Existing' \subseteq Existing
        /\ "right" \notin noPid => "right" \notin Existing'
        /\ \A z \in Child : state'[z] = state[z] \/ (state[z] = "zombie" /\ state'[z] = "none")
    BY WaitPidResult DEF WaitRight, AwaitRight
  <1>2. ProcessTypes' /\ Descriptors' /\ Delivery'
    BY <1>1, ReapingKeepsRest DEF WaitRight
  <1>3. Attendance'
    <2>1. Existing \subseteq {"right"} /\ ("right" \in noPid => Existing = {})
      BY DEF MashInv, Attendance, WaitRight
    <2>2. Existing' = {}
      BY <1>1, <2>1
    <2> QED
      BY <2>2 DEF Attendance, WaitRight, Idle
  <1>4. OnlyChild'
    BY DEF MashInv, OnlyChild, WaitRight
  <1> QED
    BY <1>2, <1>3, <1>4 DEF MashInv

LEMMA ForkOnlyKeepsInv ==
  ASSUME MashInv, ForkOnly
  PROVE  MashInv'
  <1> USE DEF ForkOnly, reading
  <1>1. ProcessTypes'
    BY ForkKeepsTypes DEF Child
  <1>2. Attendance'
    BY <1>1 DEF MashInv, ProcessTypes, Attendance, Existing, Idle, Fork, Child
  <1>3. Descriptors'
    BY DEF MashInv, ProcessTypes, Attendance, Descriptors, Alive, Existing, Idle, Fork, Child
  <1>4. OnlyChild'
    BY DEF MashInv, ProcessTypes, Attendance, OnlyChild, Fork, Child, Idle
  <1>5. Delivery'
    BY DEF MashInv, ProcessTypes, Delivery, Alive, Fork, Child
  <1> QED
    BY <1>1, <1>2, <1>3, <1>4, <1>5 DEF MashInv

LEMMA WaitOnlyKeepsInv ==
  ASSUME MashInv, WaitOnly
  PROVE  MashInv'
  <1>0. /\ state \in [Child -> {"none", "dup", "close", "exec", "running", "zombie"}]
        /\ code \in [Child -> {0, 1}]
        /\ pc = "wait" /\ pc' = "back"
        /\ Existing \subseteq {"only"}
        /\ "only" \in Existing <=> "only" \notin noPid
        /\ UNCHANGED <<prog, code, noPid, pipe>>
    BY DEF MashInv, ProcessTypes, Attendance, WaitOnly
  <1>1. /\ state' \in [Child -> {"none", "dup", "close", "exec", "running", "zombie"}]
        /\ \A z \in Child : state'[z] = state[z] \/ (state[z] = "zombie" /\ state'[z] = "none")
        /\ Existing' = {}
        /\ "only" \in Existing => ret' = Result(code["only"])
    <2>1. CASE Existing = {} /\ UNCHANGED state
      BY <1>0, <2>1 DEF Existing
    <2>2. CASE \E c \in Existing : state[c] = "zombie" /\ Reap(c) /\ ret' = Result(code[c])
      <3>1. /\ "only" \in Existing /\ Existing = {"only"} /\ "only" \in Child
            /\ state["only"] = "zombie" /\ Reap("only") /\ ret' = Result(code["only"])
        BY <1>0, <2>2 DEF Child
      <3>2. state' = [state EXCEPT !["only"] = "none"]
        BY <3>1 DEF Reap
      <3>3. Existing' = {}
        BY <1>0, <3>1, <3>2 DEF Existing
      <3> QED
        BY <1>0, <3>1, <3>2, <3>3
    <2> QED
      BY <2>1, <2>2 DEF WaitOnly
  <1>2. ProcessTypes' /\ Descriptors' /\ Delivery'
    BY <1>0, <1>1, ReapingKeepsRest
  <1>3. Attendance'
    BY <1>0, <1>1 DEF Attendance, Idle
  <1>4. OnlyChild'
    <2>1. prog["only"] # NULL => "only" \in Existing
      BY <1>0 DEF MashInv, OnlyChild
    <2>2. Result(code["only"]) = 1 <=> code["only"] = 0
      BY <1>0 DEF Result
    <2> QED
      BY <1>0, <1>1, <2>1, <2>2 DEF OnlyChild
  <1> QED
    BY <1>2, <1>3, <1>4 DEF MashInv

-----------------------------------------------------------------------------
(* The children *)

\* What no step of a process changes.
ShellAside == UNCHANGED <<pc, prog, noPid, ret>>

\* A process that lives on is one of those there are.
LEMMA LivingKeepAttendance ==
  ASSUME MashInv, ShellAside, NEW c \in Existing,
         NEW s \in {"dup", "close", "exec", "running", "zombie"}, state' = [state EXCEPT ![c] = s],
         pc \notin Idle \cup {"forkLeft"}
  PROVE  Attendance'
  <1>1. state \in [Child -> {"none", "dup", "close", "exec", "running", "zombie"}]
    BY DEF MashInv, ProcessTypes
  <1>2. Existing' = Existing
    BY <1>1 DEF Existing
  <1> QED
    BY <1>2 DEF MashInv, Attendance, ShellAside

LEMMA SomebodyThere ==
  ASSUME MashInv, NEW c \in Existing
  PROVE  pc \notin Idle \cup {"forkLeft", "back"}
BY DEF MashInv, Attendance

LEMMA RedirectKeepsInv ==
  ASSUME MashInv, NEW c \in Child, Redirect(c)
  PROVE  MashInv'
  <1> USE DEF Redirect, dup2, Stream
  <1>0. c \in Existing /\ ShellAside /\ pc \notin Idle \cup {"forkLeft", "back"}
    BY SomebodyThere DEF Existing, ShellAside
  <1>1. ProcessTypes'
    BY DEF MashInv, ProcessTypes, Child, End
  <1>2. Attendance'
    BY <1>0, LivingKeepAttendance
  <1>3. Descriptors'
    BY DEF MashInv, ProcessTypes, Descriptors, Alive, Child
  <1>4. OnlyChild'
    BY DEF MashInv, OnlyChild
  <1>5. Delivery'
    BY DEF MashInv, ProcessTypes, Delivery, Alive, Child
  <1> QED
    BY <1>1, <1>2, <1>3, <1>4, <1>5 DEF MashInv

LEMMA CloseOtherKeepsInv ==
  ASSUME MashInv, NEW c \in Child, CloseOther(c)
  PROVE  MashInv'
  <1> USE DEF CloseOther, Close
  <1>0. c \in Existing /\ ShellAside /\ pc \notin Idle \cup {"forkLeft", "back"}
    BY SomebodyThere DEF Existing, ShellAside
  <1>1. ProcessTypes'
    BY DEF MashInv, ProcessTypes, Child, End
  <1>2. Attendance'
    BY <1>0, LivingKeepAttendance
  <1>3. Descriptors'
    BY DEF MashInv, ProcessTypes, Descriptors, Alive, Child
  <1>4. OnlyChild'
    BY DEF MashInv, OnlyChild
  <1>5. Delivery'
    BY DEF MashInv, ProcessTypes, Delivery, Alive, Child
  <1> QED
    BY <1>1, <1>2, <1>3, <1>4, <1>5 DEF MashInv

LEMMA ExecWorksKeepsInv ==
  ASSUME MashInv, NEW c \in Child, ExecWorks(c)
  PROVE  MashInv'
  <1> USE DEF ExecWorks
  <1>0. c \in Existing /\ ShellAside /\ pc \notin Idle \cup {"forkLeft", "back"}
    BY SomebodyThere DEF Existing, ShellAside
  <1>1. ProcessTypes'
    BY MashPipeAssumption DEF MashInv, ProcessTypes, Child
  <1>2. Attendance'
    BY <1>0, LivingKeepAttendance
  <1>3. Descriptors'
    BY DEF MashInv, ProcessTypes, Descriptors, Alive, Child
  <1>4. OnlyChild'
    BY DEF MashInv, OnlyChild
  <1>5. Delivery'
    BY DEF MashInv, ProcessTypes, Delivery, Alive, Child
  <1> QED
    BY <1>1, <1>2, <1>3, <1>4, <1>5 DEF MashInv

\* Whatever ends a process, provided that nobody is left to read what it had
\* still to write.
LEMMA EndsKeepsInv ==
  ASSUME MashInv, NEW c \in Child, NEW status \in {0, 1}, Ends(c, status),
         Alive(c), UNCHANGED <<pc, prog, noPid, ret, todo, wrote, buf, got>>,
         c = "left" /\ todo > 0 => ~Alive("right") /\ pc \notin {"closeWrite", "forkRight"}
  PROVE  MashInv'
  <1> USE DEF Ends
  <1>0. c \in Existing /\ ShellAside /\ pc \notin Idle \cup {"forkLeft", "back"}
    BY SomebodyThere DEF Existing, ShellAside, Alive
  <1>1. ProcessTypes'
    BY DEF MashInv, ProcessTypes, Child
  <1>2. Attendance'
    BY <1>0, LivingKeepAttendance
  <1>3. Descriptors'
    BY DEF MashInv, ProcessTypes, Descriptors, Alive, Child
  <1>4. OnlyChild'
    BY <1>0 DEF MashInv, OnlyChild
  <1>5. Delivery'
    BY DEF MashInv, ProcessTypes, Delivery, Alive, Child
  <1> QED
    BY <1>1, <1>2, <1>3, <1>4, <1>5 DEF MashInv

LEMMA ExecFailsKeepsInv ==
  ASSUME MashInv, NEW c \in Child, ExecFails(c)
  PROVE  MashInv'
  <1>1. Alive(c)
    BY DEF ExecFails, Alive
  <1>2. c = "left" => todo = 0
    BY DEF ExecFails, MashInv, Delivery
  <1> QED
    BY <1>1, <1>2, EndsKeepsInv DEF ExecFails

LEMMA FinishKeepsInv ==
  ASSUME MashInv, NEW c \in Child, Finish(c)
  PROVE  MashInv'
  <1>1. Alive(c) /\ (c = "left" => todo = 0)
    BY DEF Finish, Alive
  <1>2. PICK status \in {0, 1} : Ends(c, status)
    BY DEF Finish
  <1> QED
    BY <1>1, <1>2, EndsKeepsInv DEF Finish

\* SIGPIPE: there is no reader, and none to come.
LEMMA KilledKeepsInv ==
  ASSUME MashInv, Killed
  PROVE  MashInv'
  <1>1. fd["shell"] \cap {"read", "stdin"} = {} /\ fd["right"] \cap {"read", "stdin"} = {}
    BY DEF Killed, HasReader, Child
  <1>2. ~Alive("right")
    BY <1>1 DEF MashInv, ProcessTypes, Descriptors, Alive, Child
  <1>3. pc \notin {"closeWrite", "forkRight"}
    BY <1>1 DEF MashInv, Descriptors
  <1>4. Alive("left") /\ "left" \in Child
    BY DEF Killed, Alive, Child
  <1> QED
    BY <1>2, <1>3, <1>4, EndsKeepsInv DEF Killed

LEMMA WriteKeepsInv ==
  ASSUME MashInv, Write
  PROVE  MashInv'
  <1> USE DEF Write, children
  <1>0. "left" \in Existing /\ pc \notin Idle \cup {"forkLeft", "back"}
    BY SomebodyThere DEF Existing, Child
  <1>1. ProcessTypes'
    BY DEF MashInv, ProcessTypes
  <1>2. Attendance'
    BY <1>0 DEF MashInv, Attendance, Existing
  <1>3. Descriptors'
    BY DEF MashInv, Descriptors, Alive
  <1>4. OnlyChild'
    BY DEF MashInv, OnlyChild
  <1>5. Delivery'
    BY DEF MashInv, ProcessTypes, Descriptors, Delivery, Alive
  <1> QED
    BY <1>1, <1>2, <1>3, <1>4, <1>5 DEF MashInv

LEMMA ConsumeKeepsInv ==
  ASSUME MashInv, Consume
  PROVE  MashInv'
  <1> USE DEF Consume, children
  <1>0. "right" \in Existing /\ pc \notin Idle \cup {"forkLeft", "back"}
    BY SomebodyThere DEF Existing, Child
  <1>1. ProcessTypes'
    BY DEF MashInv, ProcessTypes
  <1>2. Attendance'
    BY <1>0 DEF MashInv, Attendance, Existing
  <1>3. Descriptors'
    BY DEF MashInv, Descriptors, Alive
  <1>4. OnlyChild'
    BY DEF MashInv, OnlyChild
  <1>5. Delivery'
    BY DEF MashInv, ProcessTypes, Delivery, Alive
  <1> QED
    BY <1>1, <1>2, <1>3, <1>4, <1>5 DEF MashInv

-----------------------------------------------------------------------------
(* Every step *)

LEMMA WordSteps ==
  ASSUME User \/ Decide \/ ((Exit \/ Begin \/ Translate) /\ UNCHANGED <<children, pipe, ret, cwd>>)
  PROVE  pc \in Idle /\ pc' \in Idle \cup {"back"} /\ UNCHANGED <<children, pipe>>
  <1>1. CASE User
    BY <1>1 DEF User, ReadLine, EndOfInput, Idle
  <1>2. CASE Decide
    BY <1>2 DEF Decide, Nothing, ChangeDirectory, ChangeSomewhere, DefineAlias, Define, ListAliases,
         StartPrograms, Idle
  <1>3. CASE (Exit \/ Begin \/ Translate) /\ UNCHANGED <<children, pipe, ret, cwd>>
    <2>1. pc \in Idle /\ pc' \in Idle
      BY <1>3 DEF Exit, Begin, Translate, SkipToken, ReplaceToken, NextAlias, EndScan, Idle
    <2> QED
      BY <1>3, <2>1
  <1> QED
    BY <1>1, <1>2, <1>3

LEMMA NextKeepsInv ==
  ASSUME MashInv, [Next]_vars
  PROVE  MashInv'
  <1>1. CASE User \/ Decide \/ ((Exit \/ Begin \/ Translate) /\ UNCHANGED <<children, pipe, ret, cwd>>)
    BY <1>1, WordSteps, WordsKeepInv
  <1>2. CASE Launch
    BY <1>2, CreatePipeKeepsInv, ForkLeftKeepsInv, CloseWriteKeepsInv, ForkRightKeepsInv,
       CloseReadKeepsInv, WaitLeftKeepsInv, WaitRightKeepsInv, ForkOnlyKeepsInv, WaitOnlyKeepsInv
       DEF Launch
  <1>3. CASE Back
    BY <1>3, BackKeepsInv
  <1>4. ASSUME NEW c \in Child, ChildStep(c)
        PROVE  MashInv'
    BY <1>4, RedirectKeepsInv, CloseOtherKeepsInv, ExecWorksKeepsInv, ExecFailsKeepsInv,
       FinishKeepsInv, KilledKeepsInv, WriteKeepsInv, ConsumeKeepsInv DEF ChildStep
  <1>5. CASE UNCHANGED vars
    <2>1. UNCHANGED <<pc, children, pipe, ret>>
      BY <1>5 DEF vars
    <2>2. ProcessTypes'
      BY <2>1 DEF MashInv, ProcessTypes, children, pipe
    <2>3. Attendance'
      BY <2>1 DEF MashInv, Attendance, Existing, children, pipe
    <2>4. Descriptors'
      BY <2>1 DEF MashInv, Descriptors, Alive, children, pipe
    <2>5. OnlyChild'
      BY <2>1 DEF MashInv, OnlyChild, children, pipe
    <2>6. Delivery'
      BY <2>1 DEF MashInv, Delivery, Alive, children, pipe
    <2> QED
      BY <2>2, <2>3, <2>4, <2>5, <2>6 DEF MashInv
  <1> QED
    BY <1>1, <1>2, <1>3, <1>4, <1>5 DEF Next, Shell

LEMMA MashInvariant ==
  Spec => []MashInv
PROOF
  <1>1. Init => MashInv
    BY InitMashInv
  <1>2. MashInv /\ [Next]_vars => MashInv'
    BY NextKeepsInv
  <1> QED
    BY <1>1, <1>2, PTL DEF Spec

LEMMA InvImpliesNothingLeft ==
  MashInv => NothingLeftBehind
BY DEF MashInv, ProcessTypes, Attendance, Descriptors, NothingLeftBehind, Existing, Alive, Idle

LEMMA InvImpliesReportsItsOwn ==
  MashInv => ReportsItsOwn
BY DEF MashInv, OnlyChild, ReportsItsOwn

\* The only steps in which a running process stops running are those that end it.
LEMMA OnlyFinishEndsReader ==
  ASSUME MashInv, Next, state["right"] = "running", state'["right"] # "running"
  PROVE  Finish("right")
  <1>0. /\ state \in [Child -> {"none", "dup", "close", "exec", "running", "zombie"}]
        /\ "right" \in Existing
    BY DEF MashInv, ProcessTypes, Existing, Child
  <1>1. ~User /\ ~Decide /\ ~((Exit \/ Begin \/ Translate) /\ UNCHANGED <<children, pipe, ret, cwd>>)
    BY WordSteps DEF children
  <1>2. ~Back
    BY DEF Back
  <1>3. ~Launch
    <2>1. ~CreatePipe /\ ~CloseWrite /\ ~CloseRead
      BY DEF CreatePipe, CloseWrite, CloseRead, children
    <2>2. ~ForkLeft /\ ~ForkRight /\ ~ForkOnly
      BY <1>0 DEF ForkLeft, ForkRight, ForkOnly, Fork, MashInv, Attendance, Child
    <2>3. ~WaitLeft /\ ~WaitRight
      BY <1>0, WaitPidResult DEF WaitLeft, WaitRight, AwaitRight, Child
    <2>4. ~WaitOnly
      BY <1>0 DEF WaitOnly, Reap, MashInv, Attendance, Child
    <2> QED
      BY <2>1, <2>2, <2>3, <2>4 DEF Launch
  <1>4. ASSUME NEW c \in Child, ChildStep(c)
        PROVE  Finish("right")
    <2>0. ASSUME NEW d \in Child, d # "right", NEW s, state' = [state EXCEPT ![d] = s]
          PROVE  FALSE
      <3>1. state'["right"] = state["right"]
        BY <1>0, <2>0 DEF Child
      <3> QED
        BY <3>1
    <2>1. ~Redirect(c) /\ ~CloseOther(c) /\ ~ExecWorks(c) /\ ~ExecFails(c)
      <3>1. ASSUME state[c] # "running", NEW s, state' = [state EXCEPT ![c] = s]
            PROVE  FALSE
        <4>1. c # "right"
          BY <3>1
        <4> QED
          BY <2>0, <3>1, <4>1
      <3>2. ~Redirect(c)
        BY <3>1 DEF Redirect
      <3>3. ~CloseOther(c)
        BY <3>1 DEF CloseOther
      <3>4. ~ExecWorks(c)
        BY <3>1 DEF ExecWorks
      <3>5. ~ExecFails(c)
        BY <3>1 DEF ExecFails, Ends
      <3> QED
        BY <3>2, <3>3, <3>4, <3>5
    <2>2. ~Write /\ ~Consume /\ ~Killed
      <3>1. ~Write /\ ~Consume
        <4>1. state' # state
          OBVIOUS
        <4> QED
          BY <4>1 DEF Write, Consume, children
      <3>2. ~Killed
        BY <2>0 DEF Killed, Ends, Child
      <3> QED
        BY <3>1, <3>2
    <2>3. Finish(c) => c = "right"
      BY <2>0 DEF Finish, Ends
    <2> QED
      BY <1>4, <2>1, <2>2, <2>3 DEF ChildStep
  <1> QED
    BY <1>1, <1>2, <1>3, <1>4 DEF Next, Shell

LEMMA ReaderStep ==
  ASSUME MashInv, [Next]_vars, ReaderDone
  PROVE  got = wrote /\ todo = 0 /\ state["left"] \notin {"exec", "running"}
  <1>1. /\ state["right"] = "running" /\ ReadsPipe("right") /\ state'["right"] # "running"
    BY DEF ReaderDone
  <1>2. Next
    BY <1>1 DEF vars, children
  <1>3. buf = 0 /\ ~HasWriter
    BY <1>1, <1>2, OnlyFinishEndsReader DEF Finish
  <1>4. "stdout" \notin fd["left"]
    BY <1>3 DEF HasWriter, Child
  <1>5. state["left"] \notin {"exec", "running"}
    BY <1>4 DEF MashInv, Descriptors
  <1> QED
    BY <1>1, <1>3, <1>5 DEF MashInv, ProcessTypes, Delivery, Alive

\* When the shell asks for the next line, or ends, nothing of the last one is
\* left, whichever of pipe(), fork() and execvp() failed and in whatever order
\* the processes ended: no process, no zombie, no open end of a pipe.
THEOREM CleanPrompt ==
  Spec => []NothingLeftBehind
BY MashInvariant, InvImpliesNothingLeft, PTL

\* The result of a simple command is that of the process started for it.
THEOREM OwnResult ==
  Spec => []ReportsItsOwn
BY MashInvariant, InvImpliesReportsItsOwn, PTL

\* Whoever reads a pipeline to its end has got all that was written, and all
\* that was to be written, however little a pipe holds.
THEOREM PipelineDelivers ==
  Spec => ReaderGetsAll
PROOF
  <1>1. MashInv /\ [Next]_vars =>
          [ReaderDone => got = wrote /\ todo = 0 /\ state["left"] \notin {"exec", "running"}]_vars
    BY ReaderStep
  <1> QED
    BY <1>1, MashInvariant, PTL DEF Spec, ReaderGetsAll

-----------------------------------------------------------------------------
(* Words and commands *)

\* The loop of parse_command() as an equation.
IsWords(g, c) ==
  g = [k \in 0 .. Len(c) |->
         IF k = 0 THEN <<>> ELSE IF c[k] = Blank THEN g[k - 1] ELSE Append(g[k - 1], c[k])]

\* The loop, round by round.
LEMMA ParseIs ==
  ASSUME NEW c \in Seq(Items)
  PROVE  \E g : /\ parse_command(c) = g[Len(c)] /\ g[0] = <<>>
                /\ \A k \in 1 .. Len(c) :
                     g[k] = IF c[k] = Blank THEN g[k - 1] ELSE Append(g[k - 1], c[k])
<1> DEFINE n == Len(c)
           g == CHOOSE h : IsWords(h, c)
<1>1. parse_command(c) = g[n]
  BY Zenon DEF parse_command, IsWords
<1>2. n \in Nat /\ \A k \in 1 .. n : c[k] \in Items
  BY LenProperties, ElementOfSeq
<1>3. \E h : IsWords(h, c)
  <2> DEFINE W == Seq(Words)
             F == [k \in 1 .. n |-> [x \in W |-> IF c[k] = Blank THEN x ELSE Append(x, c[k])]]
  <2>1. \A k \in 1 .. n, x \in W : (IF c[k] = Blank THEN x ELSE Append(x, c[k])) \in W
    BY <1>2 DEF Words
  <2>2. F \in [1 .. n -> [W -> W]] /\ <<>> \in W
    BY <2>1
  <2>3. \A k \in 1 .. n, x \in W : F[k][x] = IF c[k] = Blank THEN x ELSE Append(x, c[k])
    OBVIOUS
  <2> HIDE DEF F, W
  <2>4. PICK h : Rounds(h, n, F, W, <<>>)
    BY <1>2, <2>2, ListLoopExists
  <2>5. ASSUME NEW k \in 0 .. n
        PROVE  h[k] = IF k = 0 THEN <<>> ELSE IF c[k] = Blank THEN h[k - 1] ELSE Append(h[k - 1], c[k])
    <3>1. CASE k = 0
      BY <2>4, <3>1 DEF Rounds
    <3>2. CASE k # 0
      <4>1. k \in 1 .. n /\ k - 1 \in 0 .. n
        BY <1>2, <3>2
      <4>2. h[k - 1] \in W /\ h[k] = F[k][h[k - 1]]
        BY <2>4, <4>1 DEF Rounds
      <4> QED BY <2>3, <3>2, <4>1, <4>2
    <3> QED BY <3>1, <3>2
  <2>6. IsWords(h, c)
    BY <2>4, <2>5 DEF Rounds, IsWords
  <2> QED BY <2>6
<1>4. IsWords(g, c)
  BY <1>3
<1> HIDE DEF g, n
<1>5. g[0] = <<>>
  BY <1>2, <1>4 DEF IsWords, n
<1>6. ASSUME NEW k \in 1 .. n
      PROVE  g[k] = IF c[k] = Blank THEN g[k - 1] ELSE Append(g[k - 1], c[k])
  <2>1. k \in 0 .. Len(c) /\ k # 0
    BY <1>2 DEF n
  <2> QED BY <1>4, <2>1 DEF IsWords
<1> QED BY <1>1, <1>5, <1>6 DEF n

\* strtok() leaves the words of a command, all of them and nothing else.
LEMMA ParseFacts ==
  ASSUME NEW c \in Seq(Items)
  PROVE  /\ parse_command(c) \in Seq(Words)
         /\ ToSet(parse_command(c)) = ToSet(c) \ {Blank}
<1> DEFINE n == Len(c)
<1>1. n \in Nat /\ \A k \in 1 .. n : c[k] \in Items
  BY LenProperties, ElementOfSeq
<1>2. PICK g : /\ parse_command(c) = g[n] /\ g[0] = <<>>
               /\ \A k \in 1 .. n :
                    g[k] = IF c[k] = Blank THEN g[k - 1] ELSE Append(g[k - 1], c[k])
  BY ParseIs
<1> HIDE DEF n
<1> DEFINE Good(k) == /\ g[k] \in Seq(Words)
                      /\ \A x : x \in ToSet(g[k]) <=> x # Blank /\ \E j \in 1 .. k : c[j] = x
           T == {k \in Nat : k <= n => Good(k)}
<1>3. 0 \in T
  <2>1. ToSet(<<>>) = {} /\ <<>> \in Seq(Words)
    BY DEF ToSet
  <2>2. \A j \in 1 .. 0 : FALSE
    OBVIOUS
  <2>3. Good(0)
    BY <1>2, <2>1, <2>2
  <2> HIDE DEF Good
  <2> QED BY <2>3
<1>4. ASSUME NEW k \in Nat, k \in T PROVE k + 1 \in T
  <2> SUFFICES ASSUME k + 1 <= n PROVE Good(k + 1)
    OBVIOUS
  <2>1. Good(k)
    BY <1>1, <1>4
  <2>2. k + 1 \in 1 .. n /\ (k + 1) - 1 = k
    BY <1>1
  <2>3. g[k + 1] = IF c[k + 1] = Blank THEN g[k] ELSE Append(g[k], c[k + 1])
    BY <1>2, <2>2
  <2>4. \A x : (\E j \in 1 .. k + 1 : c[j] = x) <=> (\E j \in 1 .. k : c[j] = x) \/ c[k + 1] = x
    OBVIOUS
  <2>5. CASE c[k + 1] = Blank
    BY <2>1, <2>3, <2>4, <2>5
  <2>6. CASE c[k + 1] # Blank
    <3>1. c[k + 1] \in Words
      BY <1>1, <2>2, <2>6 DEF Words
    <3>2. /\ g[k + 1] \in Seq(Words)
          /\ ToSet(g[k + 1]) = ToSet(g[k]) \cup {c[k + 1]}
      BY <2>1, <2>3, <2>6, <3>1, AppendFacts
    <3> QED BY <2>1, <2>4, <2>6, <3>2
  <2> QED BY <2>5, <2>6
<1> HIDE DEF T, Good
<1>5. n \in T
  BY <1>1, <1>3, <1>4, SetInduction
<1>6. /\ g[n] \in Seq(Words)
       /\ \A x : x \in ToSet(g[n]) <=> x # Blank /\ \E j \in 1 .. n : c[j] = x
  BY <1>1, <1>5 DEF T, Good
<1>7. \A x : x \in ToSet(c) <=> \E j \in 1 .. n : c[j] = x
  BY Members DEF n
<1> QED BY <1>2, <1>6, <1>7

\* strcat() puts the words of an alias together, with the first one in front.
LEMMA JoinedFacts ==
  ASSUME NEW ws \in Seq(Words)
  PROVE  /\ Joined(ws) \in Seq(Items)
         /\ Joined(ws) = <<>> \/ Joined(ws)[1] # Blank
<1> DEFINE n == Len(ws)
           m == 2 * n - 1
<1>1. n \in Nat /\ \A k \in 1 .. n : ws[k] \in Words
  BY LenProperties, ElementOfSeq
<1>2. CASE n = 0
  <2> DEFINE J == Joined(ws)
  <2>1. 1 .. m = 1 .. 0
    BY <1>2
  <2>2. J \in [1 .. 0 -> Items]
    BY <2>1 DEF Joined
  <2> HIDE DEF J
  <2>3. J \in Seq(Items) /\ Len(J) = 0
    BY <2>2
  <2>4. J = <<>>
    BY <2>3, EmptySeq
  <2> QED BY <2>3, <2>4 DEF J
<1>3. CASE n # 0
  <2> HIDE DEF n
  <2>1. m \in Nat /\ 1 \in 1 .. m
    BY <1>1, <1>3
  <2>2. \A k \in 1 .. m : k % 2 = 1 => (k + 1) \div 2 \in 1 .. n
    BY <1>1
  <2>3. Joined(ws) = [k \in 1 .. m |-> IF k % 2 = 1 THEN ws[(k + 1) \div 2] ELSE Blank]
    BY DEF Joined, n
  <2> DEFINE J == Joined(ws)
  <2> HIDE DEF m, J
  <2>4. \A k \in 1 .. m : (IF k % 2 = 1 THEN ws[(k + 1) \div 2] ELSE Blank) \in Items
    BY <1>1, <2>2 DEF Words, Items
  <2>5. J \in [1 .. m -> Items]
    BY <2>3, <2>4 DEF J
  <2>6. J \in Seq(Items)
    BY <2>1, <2>5
  <2>7. J[1] = ws[1]
    <3>1. 1 % 2 = 1 /\ (1 + 1) \div 2 = 1
      OBVIOUS
    <3> QED BY <2>1, <2>3, <3>1 DEF J
  <2>8. ws[1] \in Words
    BY <1>1, <1>3
  <2> QED BY <2>6, <2>7, <2>8 DEF J, Words
<1> QED BY <1>2, <1>3

\* Where the words E come from: they are ws with new for the k-th word.
InPlace(E, ws, k, new) ==
  \A j \in 1 .. Len(E) :
    \/ j < k /\ E[j] = ws[j]
    \/ j - (k - 1) \in 1 .. Len(new) /\ E[j] = new[j - (k - 1)]
    \/ j - Len(new) + 1 \in k + 1 .. Len(ws) /\ E[j] = ws[j - Len(new) + 1]

LEMMA ExpandedFacts ==
  ASSUME NEW S, NEW ws \in Seq(S), NEW k \in 1 .. Len(ws), NEW new \in Seq(S),
         NEW E, E = Expanded(ws, k, new)
  PROVE  /\ E \in Seq(S) /\ Len(E) = Len(ws) - 1 + Len(new)
         /\ InPlace(E, ws, k, new)
<1> DEFINE n == Len(ws)
           l == Len(new)
           a == SubSeq(ws, 1, k - 1)
           b == SubSeq(ws, k + 1, n)
           d == a \o new
<1>1. n \in Nat /\ l \in Nat /\ \A j \in 1 .. n : ws[j] \in S
  BY LenProperties, ElementOfSeq
<1>2. a \in Seq(S) /\ Len(a) = k - 1 /\ \A j \in 1 .. k - 1 : a[j] = ws[j]
  BY <1>1, SubSeqProperties
<1>3. b \in Seq(S) /\ Len(b) = n - k /\ \A j \in 1 .. n - k : b[j] = ws[k + j]
  BY <1>1, SubSeqProperties
<1>4. E = d \o b
  BY DEF Expanded
<1> HIDE DEF a, b, n
<1>5. /\ d \in Seq(S) /\ Len(d) = k - 1 + l
      /\ \A j \in 1 .. k - 1 + l : d[j] = IF j <= k - 1 THEN a[j] ELSE new[j - (k - 1)]
  <2>1. /\ d \in Seq(S) /\ Len(d) = Len(a) + Len(new)
        /\ \A j \in 1 .. Len(a) + Len(new) :
             d[j] = IF j <= Len(a) THEN a[j] ELSE new[j - Len(a)]
    BY <1>2, ConcatProperties
  <2> HIDE DEF d
  <2> QED BY <1>2, <2>1
<1> HIDE DEF d
<1>6. /\ E \in Seq(S) /\ Len(E) = (k - 1 + l) + (n - k)
      /\ \A j \in 1 .. (k - 1 + l) + (n - k) :
           E[j] = IF j <= k - 1 + l THEN d[j] ELSE b[j - (k - 1 + l)]
  <2>1. /\ d \o b \in Seq(S) /\ Len(d \o b) = Len(d) + Len(b)
        /\ \A j \in 1 .. Len(d) + Len(b) :
             (d \o b)[j] = IF j <= Len(d) THEN d[j] ELSE b[j - Len(d)]
    BY <1>3, <1>5, ConcatProperties
  <2> QED BY <1>3, <1>4, <1>5, <2>1
<1> HIDE DEF l
<1>7. Len(E) = n - 1 + l
  BY <1>1, <1>6
<1>8. ASSUME NEW j \in 1 .. Len(E)
      PROVE  \/ j < k /\ E[j] = ws[j]
             \/ j - (k - 1) \in 1 .. l /\ E[j] = new[j - (k - 1)]
             \/ j - l + 1 \in k + 1 .. n /\ E[j] = ws[j - l + 1]
  <2>0. k \in 1 .. n /\ j \in 1 .. n - 1 + l /\ j \in 1 .. (k - 1 + l) + (n - k)
    BY <1>1, <1>6, <1>7 DEF n
  <2>1. CASE j <= k - 1
    <3>1. j <= k - 1 + l /\ j \in 1 .. k - 1 + l /\ j \in 1 .. k - 1 /\ j < k
      BY <1>1, <2>0, <2>1
    <3> QED BY <1>2, <1>5, <1>6, <2>0, <2>1, <3>1
  <2>2. CASE ~(j <= k - 1) /\ j <= k - 1 + l
    <3>1. j \in 1 .. k - 1 + l /\ j - (k - 1) \in 1 .. l
      BY <1>1, <2>0, <2>2
    <3> QED BY <1>5, <1>6, <2>0, <2>2, <3>1
  <2>3. CASE ~(j <= k - 1 + l)
    <3> DEFINE q == j - (k - 1 + l)
    <3>1. q \in 1 .. n - k /\ k + q = j - l + 1 /\ j - l + 1 \in k + 1 .. n
      BY <1>1, <2>0, <2>3
    <3> HIDE DEF q
    <3>2. E[j] = b[q]
      BY <1>6, <2>0, <2>3 DEF q
    <3> QED BY <1>3, <3>1, <3>2
  <2> QED BY <2>1, <2>2, <2>3
<1> QED BY <1>6, <1>7, <1>8 DEF n, l, InPlace

\* The types of the half that handles words.
WordTypes ==
  /\ pc \in {"prompt", "run", "scan", "decide", "pipe", "forkLeft", "closeWrite",
             "forkRight", "closeRead", "waitLeft", "waitRight", "fork", "wait",
             "back", "done", "died", "crashed", "runaway", "full"}
  /\ stack \in Seq([name : Words, command : Seq(Items)])
  /\ Len(stack) <= MaxAliases
  /\ typed \in Seq(Words) /\ tokens \in Seq(Words)
  /\ array \in {"main", "exact", "short"}
  /\ prog \in [Child -> Words \cup {NULL}]
  /\ ret \in {1, -1}
  /\ cwd \in Directories \cup {Home}

\* Where the loops of run_command() stand, and that there is a word where the
\* code takes the first one or the one behind the bar.
Places ==
  /\ pos \in 1 .. Len(stack) + 1
  /\ i \in 1 .. Len(tokens) + 2
  /\ pc = "prompt" => pos = 1 /\ i = 1
  /\ pc = "scan" => pos <= Len(stack)
  /\ pc \in {"run", "pipe", "forkLeft", "closeWrite", "forkRight", "fork"} => tokens # <<>>
  /\ pc \in {"pipe", "forkLeft", "closeWrite", "forkRight"} => Piped

\* How much goes through the pipe.
Amounts ==
  /\ wrote + todo <= MaxLines
  /\ state["left"] \in {"dup", "close", "exec"} => wrote = 0
  /\ buf <= Capacity

\* The inductive invariant of the type invariant.
ShellInv == MashInv /\ WordTypes /\ Places /\ Amounts

LEMMA InitShellInv ==
  ASSUME Init
  PROVE  ShellInv
  <1>1. MashInv
    BY InitMashInv
  <1>2. WordTypes
    BY MashAliasAssumption DEF Init, WordTypes, Child
  <1>3. Places
    BY DEF Init, Places
  <1>4. Amounts
    BY MashPipeAssumption DEF Init, Amounts, Child
  <1> QED BY <1>1, <1>2, <1>3, <1>4 DEF ShellInv

\* The bar that the command is cut at.
LEMMA LastBarExists ==
  ASSUME NEW S, NEW ws \in Seq(S), "|" \in ToSet(ws)
  PROVE  /\ LastBar(ws) # {}
         /\ LastBar(ws) \subseteq 1 .. Len(ws)
  <1> DEFINE n == Len(ws)
             Bars == {k \in 1 .. n : ws[k] = "|"}
             D == {n - k : k \in Bars}
  <1>1. n \in Nat /\ DOMAIN ws = 1 .. n /\ \A j \in 1 .. n : ws[j] \in S
    BY LenProperties, ElementOfSeq
  <1>2. Bars # {}
    BY Members
  <1>3. D \subseteq Nat /\ D # {}
    BY <1>1, <1>2
  <1>4. PICK d \in D : \A e \in D : d <= e
    BY <1>3, LeastExists
  <1>5. PICK k \in Bars : d = n - k
    BY <1>4
  <1>6. \A j \in Bars : j <= k
    <2> TAKE j \in Bars
    <2>1. n - k <= n - j
      BY <1>4, <1>5
    <2> QED BY <1>1, <2>1
  <1> DEFINE b == SubSeq(ws, k + 1, n)
  <1>7. b \in Seq(S) /\ Len(b) = n - k /\ \A j \in 1 .. n - k : b[j] = ws[k + j]
    <2>1. k \in 1 .. n
      OBVIOUS
    <2> HIDE DEF n, Bars, D
    <2>2. k + 1 \in Int /\ n \in Int /\ \A j \in k + 1 .. n : ws[j] \in S
      BY <1>1, <2>1
    <2>3. /\ b \in Seq(S) /\ Len(b) = IF k + 1 <= n THEN n - (k + 1) + 1 ELSE 0
          /\ \A j \in 1 .. n - (k + 1) + 1 : b[j] = ws[k + 1 + j - 1]
      BY <2>2, SubSeqProperties
    <2> HIDE DEF b
    <2>4. Len(b) = n - k
      BY <1>1, <2>1, <2>3
    <2>5. \A j \in 1 .. n - k : j \in 1 .. n - (k + 1) + 1 /\ k + 1 + j - 1 = k + j
      BY <1>1, <2>1
    <2> QED BY <2>3, <2>4, <2>5
  <1>8. "|" \notin ToSet(b)
    <2> SUFFICES ASSUME "|" \in ToSet(b) PROVE FALSE
      OBVIOUS
    <2> HIDE DEF b, n
    <2>1. PICK j \in 1 .. Len(b) : b[j] = "|"
      BY <1>7, Members
    <2>2. k + j \in 1 .. n /\ ws[k + j] = "|" /\ k + j > k
      BY <1>1, <1>7, <2>1
    <2> QED BY <1>1, <1>6, <2>2
  <1>9. k \in LastBar(ws)
    BY <1>1, <1>8 DEF LastBar
  <1> QED BY <1>1, <1>9 DEF LastBar

\* What a process is to execute is a word of the command, or nothing.
LEMMA ProgramsAreWords ==
  ASSUME WordTypes, Places, tokens # <<>>
  PROVE  /\ tokens[1] \in Words
         /\ LeftProgram \in Words \cup {NULL}
         /\ Piped => RightProgram \in Words \cup {NULL}
  <1>1. tokens \in Seq(Words) /\ Len(tokens) \in Nat /\ \A k \in 1 .. Len(tokens) : tokens[k] \in Words
    BY LenProperties, ElementOfSeq DEF WordTypes
  <1>2. 1 \in 1 .. Len(tokens)
    BY <1>1, EmptySeq
  <1>3. tokens[1] \in Words
    BY <1>1, <1>2
  <1>4. LeftProgram \in Words \cup {NULL}
    BY <1>3 DEF LeftProgram
  <1>5. ASSUME Piped PROVE RightProgram \in Words \cup {NULL}
    <2> DEFINE k == CHOOSE k \in LastBar(tokens) : TRUE
    <2>1. LastBar(tokens) # {} /\ LastBar(tokens) \subseteq 1 .. Len(tokens)
      BY <1>1, <1>5, LastBarExists DEF Piped
    <2>2. k \in 1 .. Len(tokens)
      BY <2>1
    <2>3. RightProgram = IF k = Len(tokens) THEN NULL ELSE tokens[k + 1]
      BY DEF RightProgram
    <2> HIDE DEF k
    <2>4. CASE k = Len(tokens)
      BY <2>3, <2>4
    <2>5. CASE k # Len(tokens)
      <3>1. k + 1 \in 1 .. Len(tokens)
        BY <1>1, <2>2, <2>5
      <3> QED BY <1>1, <2>3, <2>5, <3>1
    <2> QED BY <2>4, <2>5
  <1> QED BY <1>3, <1>4, <1>5

-----------------------------------------------------------------------------
(* Steps that leave the words alone *)

LEMMA TakesNoWords ==
  ASSUME ShellInv, UNCHANGED <<reading, cwd>>, prog' \in [Child -> Words \cup {NULL}],
         ret' \in {1, -1},
         pc' \in {"prompt", "run", "scan", "decide", "pipe", "forkLeft", "closeWrite",
             "forkRight", "closeRead", "waitLeft", "waitRight", "fork", "wait",
             "back", "done", "died", "crashed", "runaway", "full"},
         pc' \notin {"prompt", "scan"} \/ pc' = pc,
         pc' \in {"run", "pipe", "forkLeft", "closeWrite", "forkRight", "fork"} => tokens # <<>>,
         pc' \in {"pipe", "forkLeft", "closeWrite", "forkRight"} => Piped
  PROVE  WordTypes' /\ Places'
  <1>1. WordTypes'
    BY DEF ShellInv, WordTypes, reading
  <1>2. Places'
    BY DEF ShellInv, Places, reading, Piped
  <1> QED BY <1>1, <1>2

LEMMA LaunchKeepsWords ==
  ASSUME ShellInv, Launch, UNCHANGED cwd
  PROVE  WordTypes' /\ Places'
  <1>0. /\ prog \in [Child -> Words \cup {NULL}] /\ ret \in {1, -1}
        /\ pc \in {"run", "pipe", "forkLeft", "closeWrite", "forkRight", "fork"} => tokens # <<>>
        /\ pc \in {"pipe", "forkLeft", "closeWrite", "forkRight"} => Piped
        /\ "left" \in Child /\ "right" \in Child /\ "only" \in Child
    BY DEF ShellInv, WordTypes, Places, Child
  <1>1. ASSUME NEW c \in Child, NEW w \in Words \cup {NULL}, NEW s, Fork(c, w, s)
        PROVE  prog' \in [Child -> Words \cup {NULL}]
    BY <1>0, <1>1 DEF Fork
  <1>2. CASE CreatePipe
    BY <1>0, <1>2, TakesNoWords DEF CreatePipe, children
  <1>3. CASE ForkLeft
    <2>1. prog' \in [Child -> Words \cup {NULL}]
      BY <1>0, <1>1, <1>3, ProgramsAreWords DEF ForkLeft, ShellInv
    <2> QED BY <1>0, <1>3, <2>1, TakesNoWords DEF ForkLeft
  <1>4. CASE CloseWrite
    BY <1>0, <1>4, TakesNoWords DEF CloseWrite, children
  <1>5. CASE ForkRight
    <2>1. prog' \in [Child -> Words \cup {NULL}]
      BY <1>0, <1>1, <1>5, ProgramsAreWords DEF ForkRight, ShellInv
    <2> QED BY <1>0, <1>5, <2>1, TakesNoWords DEF ForkRight
  <1>6. CASE CloseRead
    BY <1>0, <1>6, TakesNoWords DEF CloseRead, children
  <1>7. CASE WaitLeft
    BY <1>0, <1>7, TakesNoWords DEF WaitLeft
  <1>8. CASE WaitRight
    BY <1>0, <1>8, TakesNoWords DEF WaitRight
  <1>9. CASE ForkOnly
    <2>1. prog' \in [Child -> Words \cup {NULL}]
      BY <1>0, <1>1, <1>9, ProgramsAreWords DEF ForkOnly, ShellInv
    <2> QED BY <1>0, <1>9, <2>1, TakesNoWords DEF ForkOnly
  <1>10. CASE WaitOnly
    <2>1. ret' \in {1, -1}
      BY <1>10 DEF WaitOnly, Result
    <2> QED BY <1>0, <1>10, <2>1, TakesNoWords DEF WaitOnly
  <1> QED BY <1>2, <1>3, <1>4, <1>5, <1>6, <1>7, <1>8, <1>9, <1>10 DEF Launch

LEMMA ChildKeepsWords ==
  ASSUME ShellInv, NEW c \in Child, ChildStep(c), UNCHANGED cwd
  PROVE  WordTypes' /\ Places'
  <1>1. UNCHANGED <<pc, reading, prog, ret>>
    BY DEF ChildStep, Redirect, CloseOther, ExecWorks, ExecFails, Finish, Write, Killed,
         Consume, children
  <1>2. prog \in [Child -> Words \cup {NULL}] /\ ret \in {1, -1}
    BY DEF ShellInv, WordTypes
  <1>3. /\ pc \in {"run", "pipe", "forkLeft", "closeWrite", "forkRight", "fork"} => tokens # <<>>
        /\ pc \in {"pipe", "forkLeft", "closeWrite", "forkRight"} => Piped
    BY DEF ShellInv, Places
  <1> QED BY <1>1, <1>2, <1>3, TakesNoWords DEF ShellInv, WordTypes

-----------------------------------------------------------------------------
(* Reading and translating *)

LEMMA WordsOfLine ==
  ASSUME NEW line \in Lines
  PROVE  parse_command(line) \in Seq(Words)
BY MashAliasAssumption, ParseFacts

LEMMA UserKeepsWords ==
  ASSUME ShellInv, User
  PROVE  WordTypes' /\ Places'
  <1>0. UNCHANGED <<prog, ret, cwd>>
    BY DEF User, children
  <1>1. CASE ReadLine
    <2>1. PICK line \in Lines : /\ tokens' = parse_command(line)
                                /\ pc' = IF tokens' = <<>> THEN "prompt" ELSE "run"
      BY <1>1 DEF ReadLine
    <2>2. tokens' \in Seq(Words) /\ typed' \in Seq(Words)
      BY <1>1, <2>1, WordsOfLine DEF ReadLine
    <2>3. pos = 1 /\ i = 1 /\ UNCHANGED <<stack, pos, i, array>> /\ Len(stack) \in Nat /\ Len(tokens') \in Nat
      BY <1>1, <2>2, LenProperties DEF ReadLine, ShellInv, Places, WordTypes
    <2>4. WordTypes'
      BY <1>0, <2>1, <2>2, <2>3 DEF ShellInv, WordTypes
    <2>5. Places'
      BY <2>1, <2>3 DEF Places
    <2> QED BY <2>4, <2>5
  <1>2. CASE EndOfInput
    BY <1>0, <1>2, TakesNoWords DEF EndOfInput, ShellInv, WordTypes
  <1> QED BY <1>1, <1>2 DEF User

\* Bodies of aliases are made of words and blanks.
LEMMA AliasFacts ==
  ASSUME WordTypes, NEW k \in 1 .. Len(stack)
  PROVE  /\ stack[k].name \in Words
         /\ stack[k].command \in Seq(Items)
         /\ parse_command(stack[k].command) \in Seq(Words)
         /\ ToSet(parse_command(stack[k].command)) = ToSet(stack[k].command) \ {Blank}
  <1>1. stack[k] \in [name : Words, command : Seq(Items)]
    BY ElementOfSeq DEF WordTypes
  <1>2. stack[k].name \in Words /\ stack[k].command \in Seq(Items)
    BY <1>1
  <1> QED BY <1>2, ParseFacts

LEMMA TranslateKeepsWords ==
  ASSUME ShellInv, Exit \/ Begin \/ Translate, UNCHANGED <<children, pipe, ret, cwd>>
  PROVE  WordTypes' /\ Places'
  <1>0. /\ UNCHANGED <<prog, ret, cwd>> /\ WordTypes /\ Places
        /\ Len(stack) \in Nat /\ Len(tokens) \in Nat
    BY LenProperties DEF children, ShellInv, WordTypes
  <1>1. CASE Exit
    BY <1>0, <1>1, TakesNoWords DEF Exit, WordTypes
  <1>2. CASE Begin
    <2>1. WordTypes'
      BY <1>0, <1>2 DEF Begin, WordTypes
    <2>2. stack # <<>> => Len(stack) >= 1
      BY <1>0, EmptySeq DEF WordTypes
    <2>3. Places'
      BY <1>0, <1>2, <2>2 DEF Begin, FirstIndex, Places
    <2> QED BY <2>1, <2>3
  <1>3. CASE SkipToken
    <2>1. WordTypes'
      BY <1>0, <1>3 DEF SkipToken, WordTypes
    <2>2. Places'
      BY <1>0, <1>3 DEF SkipToken, Places, InTokens
    <2> QED BY <2>1, <2>2
  <1>4. CASE ReplaceToken
    <2>1. pos \in 1 .. Len(stack) /\ i \in 1 .. Len(tokens) /\ pc = "scan"
      BY <1>0, <1>4 DEF ReplaceToken, InTokens, Places
    <2> DEFINE new == parse_command(stack[pos].command)
    <2>2. new \in Seq(Words) /\ Len(new) \in Nat
      BY <1>0, <2>1, AliasFacts, LenProperties
    <2>3. tokens' = Expanded(tokens, i, new)
      BY <1>4 DEF ReplaceToken
    <2> HIDE DEF new
    <2>4. tokens' \in Seq(Words) /\ Len(tokens') = Len(tokens) - 1 + Len(new)
      <3>1. tokens \in Seq(Words) /\ i \in 1 .. Len(tokens)
        BY <1>0, <2>1 DEF WordTypes
      <3> QED BY <2>2, <2>3, <3>1, ExpandedFacts
    <2>5. WordTypes'
      BY <1>0, <1>4, <2>4 DEF ReplaceToken, WordTypes
    <2>6. Places'
      BY <1>0, <1>4, <2>1, <2>2, <2>4 DEF ReplaceToken, NextIndex, Places
    <2> QED BY <2>5, <2>6
  <1>5. CASE NextAlias
    <2>1. WordTypes'
      BY <1>0, <1>5 DEF NextAlias, WordTypes
    <2>2. Places'
      BY <1>0, <1>5 DEF NextAlias, Places, FirstIndex
    <2> QED BY <2>1, <2>2
  <1>6. CASE EndScan
    <2>1. WordTypes'
      BY <1>0, <1>6 DEF EndScan, WordTypes
    <2>2. Places'
      BY <1>0, <1>6 DEF EndScan, Places
    <2> QED BY <2>1, <2>2
  <1> QED BY <1>1, <1>2, <1>3, <1>4, <1>5, <1>6 DEF Translate

\* The alias defined takes its name and its text from the words of the command.
LEMMA DefineFacts ==
  ASSUME WordTypes, Len(tokens) > 1, Define, pc' # "full"
  PROVE  /\ stack' = <<[name |-> tokens[2], command |-> Joined(SubSeq(tokens, 3, Len(tokens)))]>> \o stack
         /\ tokens[2] \in Words
         /\ SubSeq(tokens, 3, Len(tokens)) \in Seq(Words)
         /\ Joined(SubSeq(tokens, 3, Len(tokens))) \in Seq(Items)
         /\ stack' \in Seq([name : Words, command : Seq(Items)])
         /\ Len(stack') = Len(stack) + 1
         /\ Len(stack) < MaxAliases
  <1> DEFINE A == [name : Words, command : Seq(Items)]
             n == Len(tokens)
             text == SubSeq(tokens, 3, n)
             a == [name |-> tokens[2], command |-> Joined(text)]
             t == <<a>>
  <1>1. n \in Nat /\ \A k \in 1 .. n : tokens[k] \in Words
    BY LenProperties, ElementOfSeq DEF WordTypes
  <1>2. tokens[2] \in Words
    BY <1>1
  <1>3. text \in Seq(Words)
    <2>1. \A k \in 3 .. n : tokens[k] \in Words
      BY <1>1
    <2> QED BY <1>1, <2>1, SubSeqProperties DEF WordTypes
  <1>4. Joined(text) \in Seq(Items)
    BY <1>3, JoinedFacts
  <1>5. a \in A
    BY <1>2, <1>4
  <1>6. stack' = t \o stack /\ Len(stack) < MaxAliases
    BY DEF Define, list_add
  <1>7. t \in Seq(A) /\ Len(t) = 1
    BY <1>5
  <1>8. stack \in Seq(A)
    BY DEF WordTypes
  <1> HIDE DEF t, A, a
  <1>9. stack' \in Seq(A) /\ Len(stack') = 1 + Len(stack) /\ Len(stack) \in Nat
    BY <1>6, <1>7, <1>8, ConcatProperties, LenProperties
  <1>10. Len(stack') = Len(stack) + 1
    BY <1>9
  <1> QED BY <1>2, <1>3, <1>4, <1>6, <1>9, <1>10 DEF A, t, a

LEMMA DecideKeepsWords ==
  ASSUME ShellInv, Decide
  PROVE  WordTypes' /\ Places'
  <1>0. /\ WordTypes /\ Places /\ prog \in [Child -> Words \cup {NULL}] /\ ret \in {1, -1}
        /\ Len(stack) \in Nat /\ Len(tokens) \in Nat
    BY LenProperties DEF ShellInv, WordTypes
  <1>1. CASE Nothing
    BY <1>0, <1>1, TakesNoWords DEF Nothing, children
  <1>2. CASE ChangeDirectory \/ ChangeSomewhere
    <2>1. /\ UNCHANGED <<reading, prog>> /\ pc' \in {"back", "crashed"}
          /\ ret' \in {1, -1} /\ cwd' \in Directories \cup {Home}
      BY <1>0, <1>2 DEF ChangeDirectory, ChangeSomewhere, children, Failure, WordTypes
    <2>2. WordTypes'
      BY <1>0, <2>1 DEF WordTypes, reading
    <2>3. Places'
      BY <1>0, <2>1 DEF Places, reading
    <2> QED BY <2>2, <2>3
  <1>3. CASE DefineAlias
    <2>0. UNCHANGED <<typed, tokens, pos, i, array, prog, cwd>> /\ ret' = 1 /\ Define /\ Len(tokens) > 1
      BY <1>3 DEF DefineAlias, children
    <2>1. CASE pc' = "full"
      <3>1. UNCHANGED stack
        BY <2>0, <2>1 DEF Define
      <3>2. WordTypes'
        BY <1>0, <2>0, <2>1, <3>1 DEF WordTypes
      <3>3. Places'
        BY <1>0, <2>0, <2>1, <3>1 DEF Places
      <3> QED BY <3>2, <3>3
    <2>2. CASE pc' # "full"
      <3>1. pc' = "back"
        BY <2>0, <2>2 DEF Define
      <3>2. /\ stack' \in Seq([name : Words, command : Seq(Items)])
            /\ Len(stack') = Len(stack) + 1 /\ Len(stack) < MaxAliases
        BY <1>0, <2>0, <2>2, DefineFacts
      <3>3. Len(stack') <= MaxAliases
        BY <1>0, <3>2, MashAliasAssumption
      <3>4. WordTypes'
        BY <1>0, <2>0, <3>1, <3>2, <3>3 DEF WordTypes
      <3>5. Places'
        BY <1>0, <2>0, <3>1, <3>2 DEF Places
      <3> QED BY <3>4, <3>5
    <2> QED BY <2>1, <2>2
  <1>4. CASE ListAliases
    BY <1>0, <1>4, TakesNoWords DEF ListAliases, children, WordTypes
  <1>5. CASE StartPrograms
    BY <1>0, <1>5, TakesNoWords DEF StartPrograms, children, WordTypes
  <1> QED BY <1>1, <1>2, <1>3, <1>4, <1>5 DEF Decide

LEMMA BackKeepsWords ==
  ASSUME ShellInv, Back
  PROVE  WordTypes' /\ Places'
  <1>1. Len(stack) \in Nat
    BY LenProperties DEF ShellInv, WordTypes
  <1>2. WordTypes'
    BY DEF Back, Return, ShellInv, WordTypes
  <1>3. Places'
    BY <1>1 DEF Back, Return, Places
  <1> QED BY <1>2, <1>3

-----------------------------------------------------------------------------
(* What goes through the pipe *)

LEMMA ShellKeepsAmounts ==
  ASSUME ShellInv, User \/ Shell
  PROVE  Amounts'
  <1>0. Amounts /\ state \in [Child -> {"none", "dup", "close", "exec", "running", "zombie"}]
        /\ "left" \in Child /\ MashInv
    BY DEF ShellInv, MashInv, ProcessTypes, Child
  <1>1. CASE UNCHANGED <<todo, wrote, buf>> /\ (state'["left"] = state["left"] \/ state'["left"] = "none")
    BY <1>0, <1>1 DEF Amounts
  <1>2. CASE User \/ Decide \/ ((Exit \/ Begin \/ Translate) /\ UNCHANGED <<children, pipe, ret, cwd>>)
    <2>1. UNCHANGED <<children, pipe>>
      BY <1>2, WordSteps
    <2> QED BY <1>1, <2>1 DEF children, pipe
  <1>3. CASE Back
    BY <1>3, MashPipeAssumption DEF Back, Amounts
  <1>4. CASE CreatePipe \/ CloseWrite \/ CloseRead
    BY <1>1, <1>4 DEF CreatePipe, CloseWrite, CloseRead, children
  <1>5. CASE ForkLeft
    <2>1. UNCHANGED <<todo, wrote, buf>> /\ wrote = 0
      BY <1>0, <1>5 DEF ForkLeft, MashInv, Attendance
    <2> QED BY <1>0, <2>1 DEF Amounts
  <1>6. CASE ForkRight \/ ForkOnly
    <2>1. UNCHANGED <<todo, wrote, buf>>
      BY <1>6 DEF ForkRight, ForkOnly
    <2>2. state'["left"] = state["left"]
      BY <1>0, <1>6 DEF ForkRight, ForkOnly, Fork, Child
    <2> QED BY <1>1, <2>1, <2>2
  <1>7. CASE WaitLeft \/ WaitRight
    <2>1. UNCHANGED <<todo, wrote, buf>>
      BY <1>7 DEF WaitLeft, WaitRight, pipe
    <2>2. state'["left"] = state["left"] \/ state'["left"] = "none"
      BY <1>0, <1>7, WaitPidResult DEF WaitLeft, WaitRight, AwaitRight, Child
    <2> QED BY <1>1, <2>1, <2>2
  <1>8. CASE WaitOnly
    <2>1. UNCHANGED <<todo, wrote, buf>>
      BY <1>8 DEF WaitOnly, pipe
    <2>2. state'["left"] = state["left"] \/ state'["left"] = "none"
      BY <1>0, <1>8 DEF WaitOnly, Reap, Existing
    <2> QED BY <1>1, <2>1, <2>2
  <1> QED BY <1>2, <1>3, <1>4, <1>5, <1>6, <1>7, <1>8 DEF Shell, Launch

LEMMA ChildKeepsAmounts ==
  ASSUME ShellInv, NEW c \in Child, ChildStep(c)
  PROVE  Amounts'
  <1>0. /\ Amounts /\ state \in [Child -> {"none", "dup", "close", "exec", "running", "zombie"}]
        /\ "left" \in Child
        /\ todo \in Nat /\ wrote \in Nat /\ buf \in Nat
        /\ state["left"] \in {"close", "exec", "running"} => "stdout" \in fd["left"]
    BY DEF ShellInv, MashInv, ProcessTypes, Descriptors, Child
  <1>1. ASSUME UNCHANGED <<todo, wrote, buf>>,
               state'["left"] \in {"dup", "close", "exec"} => state["left"] \in {"dup", "close", "exec"}
        PROVE  Amounts'
    BY <1>0, <1>1 DEF Amounts
  <1>2. CASE Redirect(c)
    BY <1>0, <1>1, <1>2 DEF Redirect
  <1>3. CASE CloseOther(c)
    BY <1>0, <1>1, <1>3 DEF CloseOther
  <1>4. CASE ExecWorks(c)
    <2>1. CASE c = "left"
      <3>1. /\ todo' \in 0 .. MaxLines /\ UNCHANGED <<wrote, buf>> /\ wrote = 0
            /\ state'["left"] = "running"
        BY <1>0, <1>4, <2>1 DEF ExecWorks, Amounts
      <3> QED BY <1>0, <3>1, MashPipeAssumption DEF Amounts
    <2>2. CASE c # "left"
      <3>1. UNCHANGED <<todo, wrote, buf>> /\ state'["left"] = state["left"]
        BY <1>0, <1>4, <2>2 DEF ExecWorks
      <3> QED BY <1>1, <3>1
    <2> QED BY <2>1, <2>2
  <1>5. CASE ExecFails(c) \/ Finish(c) \/ Killed
    <2>1. UNCHANGED <<todo, wrote, buf>>
      BY <1>5 DEF ExecFails, Finish, Killed
    <2>2. state'["left"] = state["left"] \/ state'["left"] = "zombie"
      BY <1>0, <1>5 DEF ExecFails, Finish, Killed, Ends
    <2> QED BY <1>1, <2>1, <2>2
  <1>6. CASE Write
    <2>1. /\ todo > 0 /\ todo' = todo - 1 /\ wrote' = wrote + 1 /\ buf' = buf + 1 /\ buf < Capacity
          /\ state["left"] = "running" /\ UNCHANGED state
      BY <1>0, <1>6 DEF Write, children
    <2> QED BY <1>0, <2>1, MashPipeAssumption DEF Amounts
  <1>7. CASE Consume
    <2>1. /\ buf > 0 /\ buf' = buf - 1 /\ UNCHANGED <<todo, wrote, state>>
      BY <1>7 DEF Consume, children
    <2> QED BY <1>0, <2>1, MashPipeAssumption DEF Amounts
  <1> QED BY <1>2, <1>3, <1>4, <1>5, <1>6, <1>7 DEF ChildStep

LEMMA NextKeepsShellInv ==
  ASSUME ShellInv, [Next]_vars
  PROVE  ShellInv'
  <1>1. MashInv'
    BY NextKeepsInv DEF ShellInv
  <1>2. WordTypes' /\ Places' /\ Amounts'
    <2>1. CASE User
      BY <2>1, UserKeepsWords, ShellKeepsAmounts
    <2>2. CASE (Exit \/ Begin \/ Translate) /\ UNCHANGED <<children, pipe, ret, cwd>>
      BY <2>2, TranslateKeepsWords, ShellKeepsAmounts DEF Shell
    <2>3. CASE Decide
      BY <2>3, DecideKeepsWords, ShellKeepsAmounts DEF Shell
    <2>4. CASE Launch /\ UNCHANGED cwd
      BY <2>4, LaunchKeepsWords, ShellKeepsAmounts DEF Shell
    <2>5. CASE Back
      BY <2>5, BackKeepsWords, ShellKeepsAmounts DEF Shell
    <2>6. CASE \E c \in Child : ChildStep(c) /\ UNCHANGED cwd
      BY <2>6, ChildKeepsWords, ChildKeepsAmounts
    <2>7. CASE UNCHANGED vars
      <3>1. WordTypes'
        BY <2>7 DEF vars, reading, children, ShellInv, WordTypes
      <3>2. Places'
        BY <2>7 DEF vars, reading, ShellInv, Places, Piped
      <3>3. Amounts'
        BY <2>7 DEF vars, children, pipe, ShellInv, Amounts
      <3> QED BY <3>1, <3>2, <3>3
    <2> QED BY <2>1, <2>2, <2>3, <2>4, <2>5, <2>6, <2>7 DEF Next, Shell
  <1> QED BY <1>1, <1>2 DEF ShellInv

LEMMA ShellInvariant ==
  Spec => []ShellInv
PROOF
  <1>1. Init => ShellInv
    BY InitShellInv
  <1>2. ShellInv /\ [Next]_vars => ShellInv'
    BY NextKeepsShellInv
  <1> QED BY <1>1, <1>2, PTL DEF Spec

LEMMA ShellInvImpliesTypes ==
  ASSUME ShellInv
  PROVE  TypeOK
  <1>1. /\ state \in [Child -> {"none", "dup", "close", "exec", "running", "zombie"}]
        /\ code \in [Child -> {0, 1}]
        /\ fd \in [Child \cup {"shell"} -> SUBSET End]
        /\ noPid \subseteq Child
        /\ todo \in Nat /\ wrote \in Nat /\ buf \in Nat /\ got \in Nat
        /\ wrote = got + buf
    BY DEF ShellInv, MashInv, ProcessTypes, Delivery
  <1>2. todo \in 0 .. MaxLines /\ wrote \in 0 .. MaxLines /\ buf \in 0 .. Capacity /\ got \in 0 .. MaxLines
    BY <1>1, MashPipeAssumption DEF ShellInv, Amounts
  <1> QED BY <1>1, <1>2 DEF ShellInv, WordTypes, Places, TypeOK

\* Whatever is typed, whatever the aliases stand for, and whichever calls fail,
\* the variables keep their types: the words of a command are words somebody
\* typed, the index over tokens never gets further than one place behind the
\* NULL, what a process is to execute is a word of the command or nothing, and
\* the pipe never holds more than fits.
THEOREM TypeCorrect ==
  Spec => []TypeOK
BY ShellInvariant, ShellInvImpliesTypes, PTL

-----------------------------------------------------------------------------
(* Names of aliases *)

\* No text of an alias is empty, and none has the name of an alias in it.
Plain == ~Entangled /\ <<>> \notin Commands

\* Every text begins with a word.
TextsStart ==
  \A k \in 1 .. Len(stack) : stack[k].command = <<>> \/ stack[k].command[1] # Blank

\* No name is given twice.
Distinct ==
  \A j, k \in 1 .. Len(stack) : stack[j].name = stack[k].name => j = k

\* A name that is still to be found in the command is that of an alias whose
\* turn is still to come, or belongs to the pass that is on, and is ahead of it.
NamesAhead ==
  \A k \in 1 .. Len(tokens), p \in 1 .. Len(stack) :
    tokens[k] = stack[p].name => p >= pos /\ (p = pos => k >= i)

\* None is to be found any longer.
NoNames ==
  \A k \in 1 .. Len(tokens), p \in 1 .. Len(stack) : tokens[k] # stack[p].name

\* What NamesDistinct needs.
NamesInv ==
  /\ TextsStart
  /\ Plain => Distinct
  /\ Plain /\ pc = "scan" => NamesAhead
  /\ Plain /\ pc = "decide" => NoNames

LEMMA StackMembers ==
  ASSUME WordTypes
  PROVE  /\ Len(stack) \in Nat /\ DOMAIN stack = 1 .. Len(stack)
         /\ Len(tokens) \in Nat
         /\ \A a : a \in ToSet(stack) <=> \E k \in 1 .. Len(stack) : stack[k] = a
BY LenProperties, Members DEF WordTypes

\* The same by positions.
SpelledOut ==
  /\ \A j, k \in 1 .. Len(stack) : stack[k].name \notin ToSet(stack[j].command)
  /\ \A j \in 1 .. Len(stack) : stack[j].command # <<>>

LEMMA PlainFacts ==
  ASSUME WordTypes
  PROVE  Plain <=> SpelledOut
  <1>1. \A a : a \in ToSet(stack) <=> \E k \in 1 .. Len(stack) : stack[k] = a
    BY StackMembers
  <1>2. Entangled <=> \E j, k \in 1 .. Len(stack) : stack[k].name \in ToSet(stack[j].command)
    BY <1>1 DEF Entangled
  <1>3. <<>> \in Commands <=> \E j \in 1 .. Len(stack) : stack[j].command = <<>>
    BY <1>1 DEF Commands
  <1> QED BY <1>2, <1>3 DEF Plain, SpelledOut

LEMMA PlainNext ==
  WordTypes' => (Plain' <=> SpelledOut')
  <1>1. WordTypes => (Plain <=> SpelledOut)
    BY PlainFacts
  <1> QED BY <1>1, PTL

\* The text of an alias that is not empty has a first word.
LEMMA TextNotEmpty ==
  ASSUME WordTypes, TextsStart, NEW k \in 1 .. Len(stack), stack[k].command # <<>>
  PROVE  Len(parse_command(stack[k].command)) \in Nat \ {0}
  <1> DEFINE c == stack[k].command
             w == parse_command(c)
  <1>1. c \in Seq(Items) /\ w \in Seq(Words) /\ ToSet(w) = ToSet(c) \ {Blank}
    BY AliasFacts
  <1>2. c # <<>> /\ c[1] # Blank
    BY DEF TextsStart
  <1> HIDE DEF c, w
  <1>3. 1 \in 1 .. Len(c)
    BY <1>1, <1>2, EmptySeq, LenProperties
  <1>4. c[1] \in ToSet(c)
    BY <1>1, <1>3, Members
  <1>5. ToSet(w) # {}
    BY <1>1, <1>2, <1>4
  <1>6. w # <<>>
    BY <1>1, <1>5, Members
  <1> QED BY <1>1, <1>6, EmptySeq, LenProperties DEF w, c

LEMMA InitNamesInv ==
  ASSUME Init
  PROVE  NamesInv
  <1>1. stack = <<>> /\ pc = "prompt" /\ Len(stack) = 0
    BY DEF Init
  <1> QED BY <1>1 DEF NamesInv, TextsStart, Distinct

\* Everything outside the translation, and the reading of a line.
LEMMA SameStackKeepsNames ==
  ASSUME NamesInv, UNCHANGED stack, pc' \notin {"scan", "decide"}
  PROVE  NamesInv'
BY DEF NamesInv, TextsStart, Distinct, Plain, Entangled, Commands

LEMMA TranslateKeepsNames ==
  ASSUME ShellInv, NamesInv, Begin \/ Translate
  PROVE  NamesInv'
  <1>0. /\ WordTypes /\ Places /\ UNCHANGED stack /\ TextsStart
        /\ Len(stack) \in Nat /\ Len(tokens) \in Nat
    BY StackMembers DEF ShellInv, NamesInv, Begin, Translate, SkipToken, ReplaceToken, NextAlias,
       EndScan
  <1>1. TextsStart' /\ (Plain' => Distinct') /\ (Plain' <=> Plain)
    BY <1>0 DEF NamesInv, TextsStart, Distinct, Plain, Entangled, Commands
  <1>2. ASSUME Plain
        PROVE  (pc' = "scan" => NamesAhead') /\ (pc' = "decide" => NoNames')
    <2>1. CASE Begin
      <3>1. CASE stack = <<>>
        <4>1. Len(stack) = 0 /\ pc' = "decide"
          BY <2>1, <3>1 DEF Begin
        <4> QED BY <1>0, <4>1 DEF NoNames
      <3>2. CASE stack # <<>>
        <4>1. pos' = 1 /\ i' = 1 /\ pc' = "scan" /\ UNCHANGED <<tokens, stack>>
          BY <2>1, <3>2 DEF Begin, FirstIndex
        <4> QED BY <4>1 DEF NamesAhead
      <3> QED BY <3>1, <3>2
    <2>2. CASE SkipToken
      <3>1. /\ NamesAhead /\ pc' = "scan" /\ UNCHANGED <<tokens, stack, pos>>
            /\ i' = i + 1 /\ tokens[i] # stack[pos].name
        BY <1>2, <2>2 DEF SkipToken, NamesInv
      <3>2. i \in Nat
        BY <1>0 DEF Places
      <3> QED BY <3>1, <3>2 DEF NamesAhead
    <2>3. CASE ReplaceToken
      <3> DEFINE text == parse_command(stack[pos].command)
                 l == Len(text)
      <3>1. pos \in 1 .. Len(stack) /\ i \in 1 .. Len(tokens) /\ pc = "scan"
        BY <1>0, <2>3 DEF ReplaceToken, InTokens, Places
      <3>2. NamesAhead
        BY <1>2, <3>1 DEF NamesInv
      <3>3. /\ UNCHANGED <<stack, pos>> /\ i' = i + 1 /\ pc' # "decide"
            /\ tokens' = Expanded(tokens, i, text) /\ tokens[i] = stack[pos].name
        BY <2>3 DEF ReplaceToken, NextIndex
      <3>4. l \in Nat \ {0} /\ text \in Seq(Words)
        BY <1>0, <1>2, <3>1, PlainFacts, TextNotEmpty, AliasFacts DEF SpelledOut
      <3>5. \A q \in 1 .. l, p \in 1 .. Len(stack) : text[q] # stack[p].name
        <4> TAKE q \in 1 .. l, p \in 1 .. Len(stack)
        <4>1. text[q] \in ToSet(text)
          BY <3>4, Members
        <4>2. ToSet(text) \subseteq ToSet(stack[pos].command)
          BY <1>0, <3>1, AliasFacts
        <4> QED BY <1>0, <1>2, <3>1, <4>1, <4>2, PlainFacts DEF SpelledOut
      <3> HIDE DEF text, l
      <3>6. /\ Len(tokens') = Len(tokens) - 1 + Len(text)
            /\ \A j \in 1 .. Len(tokens') :
                 \/ j < i /\ tokens'[j] = tokens[j]
                 \/ j - (i - 1) \in 1 .. Len(text) /\ tokens'[j] = text[j - (i - 1)]
                 \/ /\ j - Len(text) + 1 \in i + 1 .. Len(tokens)
                    /\ tokens'[j] = tokens[j - Len(text) + 1]
        <4>1. tokens \in Seq(Words) /\ text \in Seq(Words) /\ i \in 1 .. Len(tokens)
          BY <1>0, <3>1, <3>4 DEF WordTypes
        <4>2. Len(tokens') = Len(tokens) - 1 + Len(text) /\ InPlace(tokens', tokens, i, text)
          BY <3>3, <4>1, ExpandedFacts
        <4> QED BY <4>2 DEF InPlace
      <3>7. ASSUME NEW k \in 1 .. Len(tokens'), NEW p \in 1 .. Len(stack),
                   tokens'[k] = stack[p].name
            PROVE  p >= pos /\ (p = pos => k >= i + 1)
        <4>0. k \in Nat /\ l = Len(text) /\ l >= 1 /\ l \in Nat /\ i \in Nat
          BY <1>0, <3>1, <3>4, <3>6 DEF l
        <4>1. CASE k < i /\ tokens'[k] = tokens[k]
          <5>1. k \in 1 .. Len(tokens)
            BY <1>0, <3>1, <4>0, <4>1
          <5>2. p >= pos /\ (p = pos => k >= i)
            BY <3>2, <3>7, <4>1, <5>1 DEF NamesAhead
          <5> QED BY <4>0, <4>1, <5>2
        <4>2. ~(k - (i - 1) \in 1 .. l /\ tokens'[k] = text[k - (i - 1)])
          BY <3>5, <3>7
        <4>3. CASE k - l + 1 \in i + 1 .. Len(tokens) /\ tokens'[k] = tokens[k - l + 1]
          <5> DEFINE q == k - l + 1
          <5>1. q \in 1 .. Len(tokens) /\ k >= q /\ q >= i + 1
            BY <1>0, <3>1, <4>0, <4>3
          <5> HIDE DEF q
          <5>2. tokens[q] = stack[p].name
            BY <3>7, <4>3 DEF q
          <5>3. p >= pos
            BY <3>2, <5>1, <5>2 DEF NamesAhead
          <5> QED BY <4>0, <5>1, <5>3
        <4> QED BY <3>6, <4>0, <4>1, <4>2, <4>3
      <3> QED BY <3>3, <3>7 DEF NamesAhead
    <2>4. CASE NextAlias
      <3>1. /\ NamesAhead /\ pc' = "scan" /\ UNCHANGED <<tokens, stack>>
            /\ i' = 1 /\ pos' = pos + 1 /\ i > Len(tokens)
        BY <1>0, <1>2, <2>4 DEF NextAlias, NamesInv, FirstIndex, InTokens, Places
      <3>2. i \in Nat /\ pos \in Nat
        BY <1>0 DEF Places
      <3> QED BY <1>0, <3>1, <3>2 DEF NamesAhead
    <2>5. CASE EndScan
      <3>1. /\ NamesAhead /\ pc' = "decide" /\ UNCHANGED <<tokens, stack>>
            /\ pos = Len(stack) /\ i > Len(tokens)
        BY <1>0, <1>2, <2>5 DEF EndScan, NamesInv, InTokens, Places
      <3>2. i \in Nat /\ pos \in Nat
        BY <1>0 DEF Places
      <3> QED BY <1>0, <3>1, <3>2 DEF NamesAhead, NoNames
    <2> QED BY <2>1, <2>2, <2>3, <2>4, <2>5 DEF Translate
  <1> QED BY <1>1, <1>2 DEF NamesInv

\* A name that is given now was no name before, or the pass for its alias would
\* have replaced it.
LEMMA DefineKeepsNames ==
  ASSUME ShellInv, NamesInv, DefineAlias
  PROVE  NamesInv'
  <1>0. /\ WordTypes /\ WordTypes' /\ TextsStart /\ pc = "decide" /\ Len(tokens) > 1 /\ Define
        /\ Len(stack) \in Nat /\ Len(tokens) \in Nat
    <2>1. WordTypes'
      BY DecideKeepsWords DEF Decide
    <2> QED BY <2>1, StackMembers DEF ShellInv, NamesInv, DefineAlias
  <1>1. CASE pc' = "full"
    BY <1>0, <1>1, SameStackKeepsNames DEF Define
  <1>2. CASE pc' # "full"
    <2> DEFINE text == SubSeq(tokens, 3, Len(tokens))
               a == [name |-> tokens[2], command |-> Joined(text)]
    <2>1. /\ stack' = <<a>> \o stack /\ text \in Seq(Words) /\ pc' = "back"
          /\ Len(stack') = Len(stack) + 1
      <3>1. pc' = "back"
        BY <1>0, <1>2 DEF Define
      <3> QED BY <1>0, <1>2, <3>1, DefineFacts
    <2>2. a.command = <<>> \/ a.command[1] # Blank
      BY <2>1, JoinedFacts
    <2>3. a.name = tokens[2]
      OBVIOUS
    <2>4. /\ stack'[1] = a
          /\ \A k \in 1 .. Len(stack) : stack'[k + 1] = stack[k]
      <3> DEFINE t == <<a>>
                 A == [name : Words, command : Seq(Items)]
      <3>1. t \in Seq({a}) /\ Len(t) = 1 /\ t[1] = a
        OBVIOUS
      <3>2. t \in Seq(A) /\ stack \in Seq(A)
        <4>1. a \in A
          BY <1>0, <1>2, DefineFacts
        <4> QED BY <1>0, <4>1 DEF WordTypes
      <3> HIDE DEF a
      <3>3. stack' = t \o stack
        BY <2>1
      <3> HIDE DEF t, A
      <3>4. \A k \in 1 .. Len(t) + Len(stack) :
               stack'[k] = IF k <= Len(t) THEN t[k] ELSE stack[k - Len(t)]
        BY <3>2, <3>3, ConcatProperties
      <3> QED BY <1>0, <3>1, <3>4
    <2> HIDE DEF a
    <2>5. ASSUME NEW k \in 1 .. Len(stack')
          PROVE  \/ k = 1 /\ stack'[k] = a
                 \/ k - 1 \in 1 .. Len(stack) /\ stack'[k] = stack[k - 1]
      <3>1. CASE k = 1
        BY <2>4, <3>1
      <3>2. CASE k # 1
        <4>1. k - 1 \in 1 .. Len(stack) /\ (k - 1) + 1 = k
          BY <1>0, <2>1, <3>2
        <4> QED BY <2>4, <4>1
      <3> QED BY <3>1, <3>2
    <2>6. TextsStart'
      <3> SUFFICES ASSUME NEW k \in 1 .. Len(stack')
                   PROVE  stack'[k].command = <<>> \/ stack'[k].command[1] # Blank
        BY DEF TextsStart
      <3> QED BY <1>0, <2>2, <2>5 DEF TextsStart
    <2>7. ASSUME Plain' PROVE Distinct'
      <3>1. /\ \A j, k \in 1 .. Len(stack') : stack'[k].name \notin ToSet(stack'[j].command)
            /\ \A j \in 1 .. Len(stack') : stack'[j].command # <<>>
        BY <1>0, <2>7, PlainNext DEF SpelledOut
      <3>2. \A k \in 1 .. Len(stack) : k + 1 \in 1 .. Len(stack')
        BY <1>0, <2>1
      <3>3. Plain
        <4>1. \A j, k \in 1 .. Len(stack) : stack[k].name \notin ToSet(stack[j].command)
          BY <2>4, <3>1, <3>2
        <4>2. \A j \in 1 .. Len(stack) : stack[j].command # <<>>
          BY <2>4, <3>1, <3>2
        <4> QED BY <1>0, <4>1, <4>2, PlainFacts DEF SpelledOut
      <3>4. Distinct /\ NoNames
        BY <1>0, <3>3 DEF NamesInv
      <3>5. 2 \in 1 .. Len(tokens)
        BY <1>0
      <3>6. \A k \in 1 .. Len(stack) : a.name # stack[k].name
        BY <2>3, <3>4, <3>5 DEF NoNames
      <3>7. ASSUME NEW j \in 1 .. Len(stack'), NEW k \in 1 .. Len(stack'),
                   stack'[j].name = stack'[k].name
            PROVE  j = k
        <4>1. CASE j = 1 /\ stack'[j] = a
          BY <2>5, <3>6, <3>7, <4>1
        <4>2. CASE j - 1 \in 1 .. Len(stack) /\ stack'[j] = stack[j - 1]
          <5>1. ~(k = 1 /\ stack'[k] = a)
            BY <3>6, <3>7, <4>2
          <5>2. k - 1 \in 1 .. Len(stack) /\ stack'[k] = stack[k - 1]
            BY <2>5, <5>1
          <5>3. j - 1 = k - 1
            BY <3>4, <3>7, <4>2, <5>2 DEF Distinct
          <5> QED BY <2>1, <5>3, <1>0
        <4> QED BY <2>5, <4>1, <4>2
      <3> QED BY <3>7 DEF Distinct
    <2> QED BY <2>1, <2>6, <2>7 DEF NamesInv
  <1> QED BY <1>1, <1>2

LEMMA NextKeepsNames ==
  ASSUME ShellInv, NamesInv, [Next]_vars
  PROVE  NamesInv'
  <1>1. CASE User
    <2>1. UNCHANGED stack /\ pc' \notin {"scan", "decide"}
      BY <1>1 DEF User, ReadLine, EndOfInput, reading
    <2> QED BY <2>1, SameStackKeepsNames
  <1>2. CASE (Exit \/ Begin \/ Translate) /\ UNCHANGED <<children, pipe, ret, cwd>>
    <2>1. CASE Exit
      <3>1. UNCHANGED stack /\ pc' \notin {"scan", "decide"}
        BY <2>1 DEF Exit, reading
      <3> QED BY <3>1, SameStackKeepsNames
    <2> QED BY <1>2, <2>1, TranslateKeepsNames
  <1>3. CASE Decide
    <2>1. CASE DefineAlias
      BY <2>1, DefineKeepsNames
    <2>2. CASE ~DefineAlias
      <3>1. UNCHANGED stack /\ pc' \notin {"scan", "decide"}
        BY <1>3, <2>2 DEF Decide, Nothing, ChangeDirectory, ChangeSomewhere, ListAliases,
           StartPrograms, reading
      <3> QED BY <3>1, SameStackKeepsNames
    <2> QED BY <2>1, <2>2
  <1>4. CASE Launch
    <2>1. UNCHANGED stack /\ pc' \notin {"scan", "decide"}
      BY <1>4 DEF Launch, CreatePipe, ForkLeft, CloseWrite, ForkRight, CloseRead, WaitLeft,
         WaitRight, ForkOnly, WaitOnly, reading
    <2> QED BY <2>1, SameStackKeepsNames
  <1>5. CASE Back
    <2>1. UNCHANGED stack /\ pc' \notin {"scan", "decide"}
      BY <1>5 DEF Back, Return
    <2> QED BY <2>1, SameStackKeepsNames
  <1>6. CASE UNCHANGED <<pc, reading>>
    BY <1>6 DEF reading, NamesInv, TextsStart, Distinct, Plain, Entangled, Commands, NamesAhead,
       NoNames
  <1>7. CASE UNCHANGED vars
    BY <1>6, <1>7 DEF vars
  <1>8. ASSUME NEW c \in Child, ChildStep(c)
        PROVE  NamesInv'
    <2>1. UNCHANGED <<pc, reading>>
      BY <1>8 DEF ChildStep, Redirect, CloseOther, ExecWorks, ExecFails, Finish, Write, Killed,
         Consume
    <2> QED BY <1>6, <2>1
  <1> QED BY <1>1, <1>2, <1>3, <1>4, <1>5, <1>7, <1>8 DEF Next, Shell

LEMMA NamesInvariant ==
  Spec => []NamesInv
PROOF
  <1>1. Init => NamesInv
    BY InitNamesInv
  <1>2. ShellInv /\ NamesInv /\ [Next]_vars => NamesInv'
    BY NextKeepsNames
  <1> QED BY <1>1, <1>2, ShellInvariant, PTL DEF Spec

LEMMA NamesInvImpliesDistinct ==
  ASSUME ShellInv, NamesInv
  PROVE  NamesDistinct
  <1>1. DOMAIN stack = 1 .. Len(stack)
    BY StackMembers DEF ShellInv
  <1> QED BY <1>1 DEF NamesInv, Distinct, Plain, NamesDistinct

\* The words of an alias command are translated like those of any other, so as
\* long as no text is empty or mentions the name of an alias, no name is ever
\* given twice: the second time, it would not reach the list of aliases.
THEOREM NoNameTwice ==
  Spec => []NamesDistinct
BY ShellInvariant, NamesInvariant, NamesInvImpliesDistinct, PTL

-----------------------------------------------------------------------------
(* The outcome of the translation *)

\* What a pass for alias a makes of one word.
Replacement(w, a) == IF w = a.name THEN parse_command(a.command) ELSE <<w>>

\* The loop over the words as an equation.
IsPass(out, ws, a) ==
  out = [k \in 0 .. Len(ws) |->
           IF k = 0 THEN <<>>
           ELSE out[k - 1] \o (IF ws[k] = a.name THEN parse_command(a.command) ELSE <<ws[k]>>)]

\* What a pass has made of the first k of the words, for each k.
PassTo(ws, a) == CHOOSE out : IsPass(out, ws, a)

\* And what it says of each word.
WordByWord(out, ws, a) ==
  /\ out[0] = <<>>
  /\ \A k \in 0 .. Len(ws) : out[k] \in Seq(Words)
  /\ \A k \in 1 .. Len(ws) : out[k] = out[k - 1] \o Replacement(ws[k], a)

LEMMA PassFacts ==
  ASSUME NEW ws \in Seq(Words), NEW a \in [name : Words, command : Seq(Items)],
         NEW out, out = PassTo(ws, a)
  PROVE  /\ Pass(ws, a) = out[Len(ws)] /\ Pass(ws, a) \in Seq(Words)
         /\ WordByWord(out, ws, a)
<1> DEFINE n == Len(ws)
           W == Seq(Words)
<1>1. n \in Nat /\ \A k \in 1 .. n : ws[k] \in Words
  BY LenProperties, ElementOfSeq
<1>2. Pass(ws, a) = out[n]
  BY Zenon DEF Pass, PassTo, IsPass
<1>3. a.command \in Seq(Items)
  OBVIOUS
<1>4. \A k \in 1 .. n : Replacement(ws[k], a) \in W
  <2> TAKE k \in 1 .. n
  <2>1. parse_command(a.command) \in W
    BY <1>3, ParseFacts
  <2>2. <<ws[k]>> \in W
    BY <1>1
  <2> QED BY <2>1, <2>2 DEF Replacement
<1>5. \E g : IsPass(g, ws, a)
  <2> DEFINE F == [k \in 1 .. n |-> [x \in W |-> x \o Replacement(ws[k], a)]]
  <2>1. \A k \in 1 .. n, x \in W : x \o Replacement(ws[k], a) \in W
    BY <1>4, ConcatProperties
  <2>2. F \in [1 .. n -> [W -> W]] /\ <<>> \in W
    BY <2>1
  <2>3. \A k \in 1 .. n, x \in W : F[k][x] = x \o Replacement(ws[k], a)
    OBVIOUS
  <2> HIDE DEF F, W
  <2>4. PICK h : Rounds(h, n, F, W, <<>>)
    BY <1>1, <2>2, ListLoopExists
  <2>5. ASSUME NEW k \in 0 .. n
        PROVE  h[k] = IF k = 0 THEN <<>> ELSE h[k - 1] \o Replacement(ws[k], a)
    <3>1. CASE k = 0
      BY <2>4, <3>1 DEF Rounds
    <3>2. CASE k # 0
      <4>1. k \in 1 .. n /\ k - 1 \in 0 .. n
        BY <1>1, <3>2
      <4>2. h[k - 1] \in W /\ h[k] = F[k][h[k - 1]]
        BY <2>4, <4>1 DEF Rounds
      <4> QED BY <2>3, <3>2, <4>1, <4>2
    <3> QED BY <3>1, <3>2
  <2>6. h = [k \in 0 .. n |-> IF k = 0 THEN <<>> ELSE h[k - 1] \o Replacement(ws[k], a)]
    BY <2>4, <2>5 DEF Rounds
  <2>7. IsPass(h, ws, a)
    BY <2>6 DEF IsPass, Replacement
  <2> QED BY <2>7
<1>6. IsPass(out, ws, a)
  BY <1>5 DEF PassTo
<1> HIDE DEF n, W
<1>7. out[0] = <<>>
  BY <1>1, <1>6 DEF IsPass, n
<1>8. ASSUME NEW k \in 1 .. n
      PROVE  out[k] = out[k - 1] \o Replacement(ws[k], a)
  <2>1. k \in 0 .. Len(ws) /\ k # 0
    BY <1>1 DEF n
  <2> QED BY <1>6, <2>1 DEF IsPass, Replacement
<1> DEFINE T == {k \in Nat : k <= n => out[k] \in W}
<1>9. 0 \in T
  <2>1. <<>> \in W
    BY DEF W
  <2>2. out[0] \in W
    BY <1>7, <2>1
  <2> HIDE DEF W
  <2> QED BY <2>2
<1>10. ASSUME NEW k \in Nat, k \in T PROVE k + 1 \in T
  <2> SUFFICES ASSUME k + 1 <= n PROVE out[k + 1] \in W
    OBVIOUS
  <2>1. k + 1 \in 1 .. n /\ (k + 1) - 1 = k /\ out[k] \in W
    BY <1>1, <1>10
  <2>2. out[k + 1] = out[k] \o Replacement(ws[k + 1], a)
    BY <1>8, <2>1
  <2> QED BY <1>4, <2>1, <2>2, ConcatProperties DEF W
<1> HIDE DEF T
<1>11. \A k \in 0 .. n : out[k] \in W
  <2>1. Nat \subseteq T
    BY <1>9, <1>10, SetInduction
  <2> QED BY <1>1, <2>1 DEF T
<1>12. n \in 0 .. n
  BY <1>1
<1> QED BY <1>2, <1>7, <1>8, <1>11, <1>12 DEF n, W, WordByWord

\* The loop over the aliases as an equation, and what it says of each of them.
IsStages(after, line, aliases) ==
  after = [k \in 0 .. Len(aliases) |->
             IF k = 0 THEN line ELSE Pass(after[k - 1], aliases[k])]

AliasByAlias(after, line, aliases) ==
  /\ after[0] = line
  /\ \A k \in 0 .. Len(aliases) : after[k] \in Seq(Words)
  /\ \A k \in 1 .. Len(aliases) : after[k] = Pass(after[k - 1], aliases[k])

LEMMA StagesFacts ==
  ASSUME NEW line \in Seq(Words), NEW aliases \in Seq([name : Words, command : Seq(Items)]),
         NEW after, after = Stages(line, aliases)
  PROVE  AliasByAlias(after, line, aliases)
<1> DEFINE n == Len(aliases)
           W == Seq(Words)
           A == [name : Words, command : Seq(Items)]
<1>1. n \in Nat /\ \A k \in 1 .. n : aliases[k] \in A
  BY LenProperties, ElementOfSeq
<1>2. after = CHOOSE g : IsStages(g, line, aliases)
  BY Zenon DEF Stages, IsStages
<1>3. \A k \in 1 .. n, x \in W : Pass(x, aliases[k]) \in W
  <2> TAKE k \in 1 .. n, x \in W
  <2>1. aliases[k] \in A
    BY <1>1
  <2> QED BY <2>1, PassFacts
<1>4. \E g : IsStages(g, line, aliases)
  <2> DEFINE F == [k \in 1 .. n |-> [x \in W |-> Pass(x, aliases[k])]]
  <2>1. F \in [1 .. n -> [W -> W]] /\ line \in W
    BY <1>3
  <2>2. \A k \in 1 .. n, x \in W : F[k][x] = Pass(x, aliases[k])
    OBVIOUS
  <2> HIDE DEF F, W, A
  <2>3. PICK h : Rounds(h, n, F, W, line)
    BY <1>1, <2>1, ListLoopExists
  <2>4. ASSUME NEW k \in 0 .. n
        PROVE  h[k] = IF k = 0 THEN line ELSE Pass(h[k - 1], aliases[k])
    <3>1. CASE k = 0
      BY <2>3, <3>1 DEF Rounds
    <3>2. CASE k # 0
      <4>1. k \in 1 .. n /\ k - 1 \in 0 .. n
        BY <1>1, <3>2
      <4>2. h[k - 1] \in W /\ h[k] = F[k][h[k - 1]]
        BY <2>3, <4>1 DEF Rounds
      <4> QED BY <2>2, <3>2, <4>1, <4>2
    <3> QED BY <3>1, <3>2
  <2>5. IsStages(h, line, aliases)
    BY <2>3, <2>4 DEF Rounds, IsStages
  <2> QED BY <2>5
<1>5. IsStages(after, line, aliases)
  BY <1>2, <1>4
<1> HIDE DEF n, W, A
<1>6. after[0] = line
  BY <1>1, <1>5 DEF IsStages, n
<1>7. ASSUME NEW k \in 1 .. n
      PROVE  after[k] = Pass(after[k - 1], aliases[k])
  <2>1. k \in 0 .. Len(aliases) /\ k # 0
    BY <1>1 DEF n
  <2> QED BY <1>5, <2>1 DEF IsStages
<1> DEFINE T == {k \in Nat : k <= n => after[k] \in W}
<1>8. 0 \in T
  BY <1>6 DEF W
<1>9. ASSUME NEW k \in Nat, k \in T PROVE k + 1 \in T
  <2> SUFFICES ASSUME k + 1 <= n PROVE after[k + 1] \in W
    OBVIOUS
  <2>1. k + 1 \in 1 .. n /\ (k + 1) - 1 = k /\ after[k] \in W
    BY <1>1, <1>9
  <2>2. after[k + 1] = Pass(after[k], aliases[k + 1])
    BY <1>7, <2>1
  <2> QED BY <1>3, <2>1, <2>2
<1> HIDE DEF T
<1>10. \A k \in 0 .. n : after[k] \in W
  <2>1. Nat \subseteq T
    BY <1>8, <1>9, SetInduction
  <2> QED BY <1>1, <2>1 DEF T
<1> QED BY <1>6, <1>7, <1>10 DEF n, W, AliasByAlias

\* The line when the aliases before the present one have had their pass, the
\* present alias, and what its pass makes of the line, word by word.
Former == Stages(typed, stack)[pos - 1]
Present == stack[pos]
Text == parse_command(Present.command)
Made == PassTo(Former, Present)

\* The words ws are what the first j words became, and behind that the others.
Shape(ws, j) ==
  /\ Len(ws) = Len(Made[j]) + (Len(Former) - j)
  /\ \A k \in 1 .. Len(Made[j]) : ws[k] = Made[j][k]
  /\ \A k \in j + 1 .. Len(Former) : ws[Len(Made[j]) + (k - j)] = Former[k]

\* The pass has done the first j words: the index is not past the place of the
\* next one, and none between it and there has the name of the alias.
DoneTo(j) ==
  /\ Shape(tokens, j)
  /\ i <= Len(Made[j]) + 1
  /\ \A k \in i .. Len(Made[j]) : tokens[k] # Present.name

\* Or it has put its own name in, ahead of the index, and will never end.
Doomed ==
  /\ \E q \in 2 .. Len(Text) : Text[q] = Present.name
  /\ \E k \in i .. Len(tokens) : tokens[k] = Present.name

\* The condition of TranslatedByAge.
NoEmptyText == <<>> \notin Commands

\* All that is known of the pass that is on.
LEMMA ScanFacts ==
  ASSUME WordTypes, Places, pc = "scan"
  PROVE  /\ pos \in 1 .. Len(stack) /\ Len(stack) \in Nat
         /\ i \in Nat \ {0} /\ tokens \in Seq(Words) /\ Len(tokens) \in Nat
         /\ Present \in [name : Words, command : Seq(Items)] /\ Present.name \in Words
         /\ Text \in Seq(Words) /\ Len(Text) \in Nat
         /\ Former \in Seq(Words) /\ Len(Former) \in Nat
         /\ Made[0] = <<>>
         /\ \A k \in 0 .. Len(Former) : Made[k] \in Seq(Words) /\ Len(Made[k]) \in Nat
         /\ \A k \in 1 .. Len(Former) : Made[k] = Made[k - 1] \o Replacement(Former[k], Present)
         /\ Stages(typed, stack)[pos] = Made[Len(Former)]
  <1>1. /\ pos \in 1 .. Len(stack) /\ Len(stack) \in Nat
        /\ i \in Nat \ {0} /\ tokens \in Seq(Words) /\ Len(tokens) \in Nat
        /\ typed \in Seq(Words) /\ stack \in Seq([name : Words, command : Seq(Items)])
    BY StackMembers DEF WordTypes, Places
  <1>2. Present \in [name : Words, command : Seq(Items)]
    BY <1>1, ElementOfSeq DEF Present
  <1>3. Present.name \in Words
    BY <1>2
  <1>4. Text \in Seq(Words)
    BY <1>1, AliasFacts DEF Text, Present
  <1>5. /\ Stages(typed, stack)[pos - 1] \in Seq(Words)
        /\ Stages(typed, stack)[pos] = Pass(Stages(typed, stack)[pos - 1], stack[pos])
    <2>1. AliasByAlias(Stages(typed, stack), typed, stack)
      BY <1>1, StagesFacts
    <2>2. pos - 1 \in 0 .. Len(stack)
      BY <1>1
    <2> QED BY <1>1, <2>1, <2>2 DEF AliasByAlias
  <1>6. Former \in Seq(Words) /\ Stages(typed, stack)[pos] = Pass(Former, Present)
    BY <1>5 DEF Former, Present
  <1>7. /\ Pass(Former, Present) = Made[Len(Former)]
        /\ Made[0] = <<>>
        /\ \A k \in 0 .. Len(Former) : Made[k] \in Seq(Words)
        /\ \A k \in 1 .. Len(Former) : Made[k] = Made[k - 1] \o Replacement(Former[k], Present)
    <2>1. Former \in Seq(Words) /\ Present \in [name : Words, command : Seq(Items)]
      BY <1>2, <1>6
    <2>2. Pass(Former, Present) = Made[Len(Former)] /\ WordByWord(Made, Former, Present)
      BY <2>1, PassFacts DEF Made
    <2> QED BY <2>2 DEF WordByWord
  <1>8. \A k \in 0 .. Len(Former) : Len(Made[k]) \in Nat
    BY <1>7, LenProperties
  <1>9. Len(Text) \in Nat /\ Len(Former) \in Nat
    BY <1>4, <1>6, LenProperties
  <1> QED BY <1>1, <1>2, <1>3, <1>4, <1>6, <1>7, <1>8, <1>9

\* A pass that begins has done no word.
LEMMA PassBegins ==
  ASSUME WordTypes, Places, pc = "scan", i = 1, tokens = Former
  PROVE  0 \in 0 .. Len(Former) /\ DoneTo(0)
  <1>1. Made[0] = <<>> /\ Len(Former) \in Nat /\ Len(Made[0]) = 0
    BY ScanFacts
  <1>2. \A k \in 0 + 1 .. Len(Former) : tokens[0 + (k - 0)] = Former[k]
    <2> TAKE k \in 0 + 1 .. Len(Former)
    <2>1. 0 + (k - 0) = k
      OBVIOUS
    <2> QED BY <2>1
  <1>3. \A k \in 1 .. 0 : FALSE
    OBVIOUS
  <1> QED BY <1>1, <1>2, <1>3 DEF DoneTo, Shape

\* A pass that has come to its end has done every word.
LEMMA PassEnds ==
  ASSUME WordTypes, Places, pc = "scan", ~InTokens,
         Doomed \/ \E j \in 0 .. Len(Former) : DoneTo(j)
  PROVE  tokens = Stages(typed, stack)[pos]
  <1> DEFINE n == Len(Former)
  <1>0. /\ i \in Nat \ {0} /\ tokens \in Seq(Words) /\ Len(tokens) \in Nat /\ n \in Nat
        /\ \A k \in 0 .. n : Made[k] \in Seq(Words) /\ Len(Made[k]) \in Nat
        /\ Stages(typed, stack)[pos] = Made[n]
    BY ScanFacts
  <1>1. i > Len(tokens)
    BY <1>0 DEF InTokens
  <1>2. ~Doomed
    BY <1>0, <1>1 DEF Doomed
  <1>3. PICK j \in 0 .. n : DoneTo(j)
    BY <1>2
  <1>4. /\ Len(tokens) = Len(Made[j]) + (n - j)
        /\ i <= Len(Made[j]) + 1
        /\ \A k \in 1 .. Len(Made[j]) : tokens[k] = Made[j][k]
    BY <1>3 DEF DoneTo, Shape
  <1> HIDE DEF n
  <1>5. j = n
    BY <1>0, <1>1, <1>4
  <1>6. Len(tokens) = Len(Made[n])
    BY <1>0, <1>4, <1>5
  <1>7. \A k \in 1 .. Len(tokens) : tokens[k] = Made[n][k]
    BY <1>4, <1>5, <1>6
  <1>8. Made[n] \in Seq(Words)
    BY <1>0
  <1>9. tokens = Made[n]
    BY <1>0, <1>6, <1>7, <1>8, SeqEqual
  <1> QED BY <1>0, <1>9

\* The words b are a and, behind them, new.
OneMore(b, a, new) ==
  /\ Len(b) = Len(a) + Len(new)
  /\ \A k \in 1 .. Len(a) : b[k] = a[k]
  /\ \A k \in 1 .. Len(new) : b[Len(a) + k] = new[k]

\* One word of the former line done.
LEMMA WordDone ==
  ASSUME WordTypes, Places, pc = "scan", NEW j \in 1 .. Len(Former), NEW R,
         R = Replacement(Former[j], Present)
  PROVE  /\ R \in Seq(Words)
         /\ OneMore(Made[j], Made[j - 1], R)
  <1> DEFINE a == Made[j - 1]
             b == Made[j]
             p == Len(a)
             q == Len(R)
  <1>0. /\ Former \in Seq(Words) /\ Len(Former) \in Nat /\ Text \in Seq(Words)
        /\ \A k \in 0 .. Len(Former) : Made[k] \in Seq(Words) /\ Len(Made[k]) \in Nat
        /\ \A k \in 1 .. Len(Former) : Made[k] = Made[k - 1] \o Replacement(Former[k], Present)
    BY ScanFacts
  <1>1. Former[j] \in Words
    BY <1>0, ElementOfSeq
  <1>2. R \in Seq(Words)
    <2>1. <<Former[j]>> \in Seq(Words)
      BY <1>1
    <2> QED BY <1>0, <2>1 DEF Replacement, Text
  <1>3. a \in Seq(Words) /\ p \in Nat
    <2>1. j - 1 \in 0 .. Len(Former)
      BY <1>0
    <2> QED BY <1>0, <2>1
  <1>4. b = a \o R
    BY <1>0
  <1> HIDE DEF a, b
  <1>5. /\ Len(a \o R) = Len(a) + Len(R)
        /\ \A k \in 1 .. Len(a) + Len(R) :
             (a \o R)[k] = IF k <= Len(a) THEN a[k] ELSE R[k - Len(a)]
    BY <1>2, <1>3, ConcatProperties
  <1>6. Len(b) = p + q /\ \A k \in 1 .. p + q : b[k] = IF k <= p THEN a[k] ELSE R[k - p]
    BY <1>4, <1>5
  <1>7. q \in Nat
    BY <1>2, LenProperties
  <1> HIDE DEF p, q
  <1>8. ASSUME NEW k \in 1 .. p PROVE b[k] = a[k]
    <2>1. k \in 1 .. p + q /\ k <= p
      BY <1>3, <1>7
    <2> QED BY <1>6, <2>1
  <1>9. ASSUME NEW k \in 1 .. q PROVE b[p + k] = R[k]
    <2> DEFINE m == p + k
    <2>1. m \in 1 .. p + q /\ ~(m <= p) /\ m - p = k
      BY <1>3, <1>7
    <2> HIDE DEF m
    <2>2. b[m] = R[m - p]
      BY <1>6, <2>1
    <2> QED BY <2>1, <2>2 DEF m
  <1>10. OneMore(b, a, R)
    BY <1>6, <1>8, <1>9 DEF OneMore, p, q
  <1> QED BY <1>2, <1>10 DEF a, b

\* The words ws are the tokens with new in the place of the i-th.
Swapped(ws, new) ==
  /\ Len(ws) = Len(tokens) - 1 + Len(new)
  /\ \A k \in 1 .. i - 1 : ws[k] = tokens[k]
  /\ \A k \in 1 .. Len(new) : ws[i - 1 + k] = new[k]
  /\ \A k \in i + 1 .. Len(tokens) : ws[k + Len(new) - 1] = tokens[k]

\* When the index comes to the next word of the former line, and that is passed
\* over or replaced, one word more is done.
LEMMA NextWord ==
  ASSUME WordTypes, Places, pc = "scan", NEW j \in 0 .. Len(Former), DoneTo(j),
         NEW j1, j1 = j + 1,
         i = Len(Made[j]) + 1, InTokens,
         NEW new, new = Replacement(tokens[i], Present), NEW ws, Swapped(ws, new)
  PROVE  /\ j1 \in 0 .. Len(Former)
         /\ Shape(ws, j1)
         /\ OneMore(Made[j1], Made[j], new)
         /\ new \in Seq(Words)
  <1> DEFINE n == Len(Former)
             p == Len(Made[j])
             q == Len(new)
             m == Len(tokens)
  <1>1. /\ n \in Nat /\ m \in Nat /\ p \in Nat /\ i = p + 1 /\ i <= m
        /\ m = p + (n - j) /\ j \in 0 .. n
        /\ \A k \in 1 .. p : tokens[k] = Made[j][k]
        /\ \A k \in j + 1 .. n : tokens[p + (k - j)] = Former[k]
    BY ScanFacts DEF DoneTo, Shape, InTokens
  <1>2. j1 \in 1 .. n /\ j1 - 1 = j /\ j1 = j + 1
    BY <1>1
  <1>3. tokens[i] = Former[j1]
    <2>1. j1 \in j + 1 .. n /\ p + (j1 - j) = i
      BY <1>1, <1>2
    <2> QED BY <1>1, <2>1
  <1>4. /\ new \in Seq(Words)
        /\ Len(Made[j1]) = p + q
        /\ \A k \in 1 .. p : Made[j1][k] = Made[j][k]
        /\ \A k \in 1 .. q : Made[j1][p + k] = new[k]
    <2>1. new = Replacement(Former[j1], Present)
      BY <1>3
    <2>2. new \in Seq(Words) /\ OneMore(Made[j1], Made[j1 - 1], new)
      BY <1>2, <2>1, WordDone
    <2>3. OneMore(Made[j1], Made[j], new)
      BY <1>2, <2>2
    <2> QED BY <2>2, <2>3 DEF OneMore
  <1>5. q \in Nat
    BY <1>4, LenProperties
  <1>6. /\ Len(ws) = m - 1 + q
        /\ \A k \in 1 .. i - 1 : ws[k] = tokens[k]
        /\ \A k \in 1 .. q : ws[i - 1 + k] = new[k]
        /\ \A k \in i + 1 .. m : ws[k + q - 1] = tokens[k]
    BY DEF Swapped
  <1> HIDE DEF n, p, q, m
  <1>7. i - 1 = p
    BY <1>1
  <1>8. Len(ws) = Len(Made[j1]) + (n - j1)
    BY <1>1, <1>2, <1>4, <1>5, <1>6
  <1>9. \A k \in 1 .. q : ws[p + k] = new[k]
    BY <1>6, <1>7
  <1>10. ASSUME NEW k \in 1 .. Len(Made[j1]) PROVE ws[k] = Made[j1][k]
    <2>1. CASE k <= p
      <3>1. k \in 1 .. p /\ k \in 1 .. i - 1
        BY <1>1, <1>7, <2>1
      <3> QED BY <1>1, <1>4, <1>6, <3>1
    <2>2. CASE ~(k <= p)
      <3> DEFINE d == k - p
      <3>1. d \in 1 .. q /\ k = p + d
        BY <1>1, <1>4, <1>5, <2>2
      <3> HIDE DEF d
      <3> QED BY <1>4, <1>9, <3>1
    <2> QED BY <2>1, <2>2
  <1>11. ASSUME NEW k \in j1 + 1 .. n PROVE ws[Len(Made[j1]) + (k - j1)] = Former[k]
    <2> DEFINE r == p + (k - j)
               x == Len(Made[j1]) + (k - j1)
    <2>1. k \in j + 1 .. n /\ r \in i + 1 .. m /\ x = r + q - 1
      BY <1>1, <1>2, <1>4, <1>5
    <2>2. tokens[r] = Former[k]
      BY <1>1, <2>1
    <2> HIDE DEF r, x
    <2>3. ws[x] = tokens[r]
      BY <1>6, <2>1
    <2> QED BY <2>2, <2>3 DEF x
  <1>12. Shape(ws, j1)
    BY <1>8, <1>10, <1>11 DEF Shape, n
  <1>13. j1 \in 0 .. n
    BY <1>1, <1>2
  <1>14. OneMore(Made[j1], Made[j], new)
    BY <1>4 DEF OneMore, p, q
  <1> QED BY <1>4, <1>12, <1>13, <1>14 DEF n

\* How far the pass has come.
PassOn == Doomed \/ \E j \in 0 .. Len(Former) : DoneTo(j)

\* What a pass is about does not change in its course.
LEMMA SamePass ==
  ASSUME UNCHANGED <<typed, stack, pos>>
  PROVE  UNCHANGED <<Former, Present, Text, Made>>
  <1>1. UNCHANGED <<Former, Present>>
    BY DEF Former, Present
  <1> QED BY <1>1 DEF Text, Made

LEMMA SkipKeepsPass ==
  ASSUME WordTypes, Places, SkipToken, PassOn
  PROVE  PassOn'
  <1> DEFINE n == Len(Former)
  <1>0. /\ pc = "scan" /\ InTokens /\ tokens[i] # Present.name /\ i' = i + 1
        /\ UNCHANGED <<typed, stack, pos, tokens>>
    BY DEF SkipToken, Present
  <1>1. UNCHANGED <<Former, Present, Text, Made>>
    BY <1>0, SamePass
  <1>2. /\ i \in Nat \ {0} /\ Len(tokens) \in Nat /\ i <= Len(tokens) /\ n \in Nat
        /\ \A k \in 0 .. n : Len(Made[k]) \in Nat
    BY <1>0, ScanFacts DEF InTokens
  <1>3. CASE Doomed
    <2>1. PICK k \in i .. Len(tokens) : tokens[k] = Present.name
      BY <1>3 DEF Doomed
    <2>2. k \in i + 1 .. Len(tokens)
      BY <1>0, <1>2, <2>1
    <2>3. Doomed'
      BY <1>0, <1>1, <1>3, <2>1, <2>2 DEF Doomed
    <2> QED BY <2>3 DEF PassOn
  <1>4. ASSUME NEW j \in 0 .. n, DoneTo(j)
        PROVE  PassOn'
    <2>0. Len(Made[j]) \in Nat /\ i <= Len(Made[j]) + 1
      BY <1>2, <1>4 DEF DoneTo
    <2>1. CASE i <= Len(Made[j])
      <3>1. DoneTo(j)'
        <4>1. Shape(tokens, j)'
          BY <1>0, <1>1, <1>4 DEF DoneTo, Shape
        <4>2. i' <= Len(Made'[j]) + 1
          BY <1>0, <1>1, <1>2, <2>0, <2>1
        <4>3. \A k \in i' .. Len(Made'[j]) : tokens'[k] # Present'.name
          BY <1>0, <1>1, <1>2, <1>4, <2>0 DEF DoneTo
        <4> QED BY <4>1, <4>2, <4>3 DEF DoneTo
      <3> QED BY <1>1, <3>1 DEF PassOn
    <2>2. CASE i = Len(Made[j]) + 1
      <3> DEFINE new == <<tokens[i]>>
      <3>1. new = Replacement(tokens[i], Present) /\ Len(new) = 1 /\ new[1] = tokens[i]
        BY <1>0 DEF Replacement
      <3> HIDE DEF new
      <3>2. Swapped(tokens, new)
        <4>1. Len(tokens) = Len(tokens) - 1 + Len(new)
          BY <1>2, <3>1
        <4>2. \A k \in 1 .. Len(new) : tokens[i - 1 + k] = new[k]
          BY <1>2, <3>1
        <4>3. \A k \in i + 1 .. Len(tokens) : tokens[k + Len(new) - 1] = tokens[k]
          BY <1>2, <3>1
        <4> QED BY <4>1, <4>2, <4>3 DEF Swapped
      <3> DEFINE j1 == j + 1
      <3>0. j1 = j + 1
        OBVIOUS
      <3> HIDE DEF j1
      <3>3. j1 \in 0 .. Len(Former) /\ Shape(tokens, j1) /\ OneMore(Made[j1], Made[j], new)
        BY <1>0, <1>4, <2>2, <3>0, <3>1, <3>2, NextWord
      <3>4. Len(Made[j1]) = Len(Made[j]) + 1
        BY <3>1, <3>3 DEF OneMore
      <3>5. DoneTo(j1)'
        <4>1. Shape(tokens, j1)'
          BY <1>0, <1>1, <3>3 DEF Shape
        <4>2. i' = Len(Made'[j1]) + 1
          BY <1>0, <1>1, <2>2, <3>4
        <4>3. Len(Made'[j1]) \in Nat
          BY <1>1, <1>2, <3>3
        <4> QED BY <4>1, <4>2, <4>3 DEF DoneTo
      <3> QED BY <1>1, <3>3, <3>5 DEF PassOn
    <2> QED BY <1>2, <2>0, <2>1, <2>2
  <1> QED BY <1>3, <1>4 DEF PassOn

LEMMA ReplaceKeepsPass ==
  ASSUME WordTypes, Places, ReplaceToken, PassOn, Text # <<>>
  PROVE  PassOn'
  <1> DEFINE n == Len(Former)
             l == Len(Text)
             m == Len(tokens)
  <1>0. /\ pc = "scan" /\ InTokens /\ tokens[i] = Present.name /\ i' = i + 1
        /\ UNCHANGED <<typed, stack, pos>> /\ tokens' = Expanded(tokens, i, Text)
    BY DEF ReplaceToken, Present, Text, NextIndex
  <1>1. UNCHANGED <<Former, Present, Text, Made>>
    BY <1>0, SamePass
  <1>2. /\ i \in Nat \ {0} /\ m \in Nat /\ i <= m /\ i \in 1 .. m /\ n \in Nat
        /\ tokens \in Seq(Words)
        /\ Text \in Seq(Words) /\ l \in Nat /\ l # 0
        /\ \A k \in 0 .. n : Len(Made[k]) \in Nat
    <2>1. /\ i \in Nat \ {0} /\ m \in Nat /\ i <= m /\ n \in Nat
          /\ tokens \in Seq(Words)
          /\ Text \in Seq(Words) /\ l \in Nat
          /\ \A k \in 0 .. n : Len(Made[k]) \in Nat
      BY <1>0, ScanFacts DEF InTokens
    <2>2. l # 0
      BY <2>1, EmptySeq
    <2> QED BY <2>1, <2>2
  <1>3. /\ Len(tokens') = Len(tokens) - 1 + Len(Text)
        /\ InPlace(tokens', tokens, i, Text)
    <2>1. tokens \in Seq(Words) /\ Text \in Seq(Words) /\ i \in 1 .. Len(tokens)
      BY <1>2
    <2> QED BY <1>0, <2>1, ExpandedFacts
  <1> DEFINE E == tokens'
  <1>4. /\ Len(E) = m - 1 + l
        /\ \A j \in 1 .. Len(E) :
                    \/ j < i /\ E[j] = tokens[j]
                    \/ j - (i - 1) \in 1 .. l /\ E[j] = Text[j - (i - 1)]
                    \/ j - l + 1 \in i + 1 .. m /\ E[j] = tokens[j - l + 1]
    BY <1>0, <1>3 DEF InPlace
  <1> HIDE DEF E
  <1>5. Swapped(E, Text)
    <2>0. i \in 1 .. m /\ m \in Nat /\ l \in Nat /\ l # 0 /\ Len(E) = m - 1 + l
      BY <1>2, <1>4
    <2> HIDE DEF m, l
    <2>1. ASSUME NEW k \in 1 .. i - 1 PROVE E[k] = tokens[k]
      <3>1. k \in 1 .. Len(E) /\ ~(k - (i - 1) \in 1 .. l) /\ ~(k - l + 1 \in i + 1 .. m)
        BY <2>0
      <3> QED BY <1>4, <3>1
    <2>2. ASSUME NEW k \in 1 .. l PROVE E[i - 1 + k] = Text[k]
      <3> DEFINE x == i - 1 + k
      <3>1. x \in 1 .. Len(E) /\ ~(x < i) /\ x - (i - 1) = k /\ ~(x - l + 1 \in i + 1 .. m)
        BY <2>0
      <3> HIDE DEF x
      <3> QED BY <1>4, <3>1 DEF x
    <2>3. ASSUME NEW k \in i + 1 .. m PROVE E[k + l - 1] = tokens[k]
      <3> DEFINE x == k + l - 1
      <3>1. x \in 1 .. Len(E) /\ ~(x < i) /\ ~(x - (i - 1) \in 1 .. l) /\ x - l + 1 = k
        BY <2>0
      <3> HIDE DEF x
      <3> QED BY <1>4, <3>1 DEF x
    <2> QED BY <2>0, <2>1, <2>2, <2>3 DEF Swapped, m, l
  <1>6. Text = Replacement(tokens[i], Present)
    BY <1>0 DEF Replacement, Text
  <1>7. CASE Doomed
    <2>1. PICK q \in 2 .. l : Text[q] = Present.name
      BY <1>7 DEF Doomed
    <2> DEFINE x == i - 1 + q
    <2>2. q \in 1 .. l /\ x \in i + 1 .. Len(E)
      BY <1>2, <1>4, <2>1
    <2>3. E[x] = Present.name
      BY <1>5, <2>1, <2>2 DEF Swapped
    <2> HIDE DEF x
    <2>4. Doomed'
      BY <1>0, <1>1, <1>7, <2>2, <2>3 DEF Doomed, E
    <2> QED BY <2>4 DEF PassOn
  <1>8. ASSUME NEW j \in 0 .. n, DoneTo(j)
        PROVE  PassOn'
    <2> DEFINE p == Len(Made[j])
    <2>0. /\ p \in Nat /\ i <= p + 1
          /\ \A k \in i .. p : tokens[k] # Present.name
      BY <1>2, <1>8 DEF DoneTo
    <2>1. i = p + 1
      <3>1. ~(i \in i .. p)
        BY <1>0, <2>0
      <3> QED BY <1>2, <2>0, <3>1
    <2> DEFINE j1 == j + 1
    <2>a. j1 = j + 1
      OBVIOUS
    <2> HIDE DEF j1
    <2>b. j1 \in 0 .. Len(Former) /\ Shape(E, j1) /\ OneMore(Made[j1], Made[j], Text)
      BY <1>0, <1>5, <1>6, <1>8, <2>1, <2>a, NextWord
    <2>2. /\ j1 \in 0 .. Len(Former)
          /\ Shape(E, j1)
          /\ Len(Made[j1]) = p + l
          /\ \A k \in 1 .. l : E[p + k] = Text[k]
      <3>1. Len(Made[j1]) = p + l
        BY <2>b DEF OneMore
      <3>2. \A k \in 1 .. l : E[i - 1 + k] = Text[k]
        BY <1>5 DEF Swapped
      <3> QED BY <2>0, <2>1, <2>b, <3>1, <3>2
    <2> HIDE DEF p
    <2>3. Shape(tokens, j1)'
      BY <1>1, <2>2 DEF Shape, E
    <2>4. CASE \E q \in 2 .. l : Text[q] = Present.name
      <3>1. PICK q \in 2 .. l : Text[q] = Present.name
        BY <2>4
      <3> DEFINE x == p + q
      <3>2. q \in 1 .. l /\ x \in i + 1 .. Len(E)
        BY <1>2, <1>4, <2>0, <2>1, <3>1
      <3>3. E[x] = Present.name
        BY <2>2, <3>1, <3>2
      <3> HIDE DEF x
      <3>4. Doomed'
        BY <1>0, <1>1, <2>4, <3>2, <3>3 DEF Doomed, E
      <3> QED BY <3>4 DEF PassOn
    <2>5. CASE ~\E q \in 2 .. l : Text[q] = Present.name
      <3>1. i' <= Len(Made'[j1]) + 1
        BY <1>0, <1>1, <1>2, <2>0, <2>1, <2>2
      <3>2. ASSUME NEW k \in i' .. Len(Made'[j1]) PROVE E[k] # Present'.name
        <4> DEFINE q == k - p
        <4>1. q \in 2 .. l /\ q \in 1 .. l /\ k = p + q
          BY <1>0, <1>1, <1>2, <2>0, <2>1, <2>2
        <4> HIDE DEF q
        <4>2. E[k] = Text[q]
          BY <2>2, <4>1
        <4> QED BY <1>1, <2>5, <4>1, <4>2
      <3>3. DoneTo(j1)'
        BY <2>3, <3>1, <3>2 DEF DoneTo, E
      <3> QED BY <1>1, <2>2, <3>3 DEF PassOn
    <2> QED BY <2>4, <2>5
  <1> QED BY <1>7, <1>8 DEF PassOn

\* The translation at each point of its way.
StagesInv ==
  /\ pc = "run" => tokens = typed
  /\ NoEmptyText /\ pc = "scan" => PassOn
  /\ NoEmptyText /\ pc = "decide" => tokens = Stages(typed, stack)[Len(stack)]

LEMMA InitStagesInv ==
  ASSUME Init
  PROVE  StagesInv
BY DEF Init, StagesInv

\* With one of the aliases to come, a pass begins.
PassReady == WordTypes /\ Places /\ pc = "scan" /\ i = 1 /\ tokens = Former

LEMMA PassBeginsNext ==
  PassReady' => PassOn'
  <1>1. PassReady => PassOn
    BY PassBegins DEF PassReady, PassOn
  <1> QED BY <1>1, PTL

LEMMA BeginKeepsStages ==
  ASSUME ShellInv, StagesInv, Begin, WordTypes', Places'
  PROVE  StagesInv'
  <1>0. /\ WordTypes /\ pc = "run" /\ tokens = typed /\ UNCHANGED <<typed, tokens, stack>>
        /\ typed \in Seq(Words) /\ stack \in Seq([name : Words, command : Seq(Items)])
        /\ Len(stack) \in Nat
    BY StackMembers DEF ShellInv, WordTypes, StagesInv, Begin
  <1>1. Stages(typed, stack)[0] = typed
    <2>1. AliasByAlias(Stages(typed, stack), typed, stack)
      BY <1>0, StagesFacts
    <2> QED BY <2>1 DEF AliasByAlias
  <1>2. CASE stack = <<>>
    <2>1. Len(stack) = 0 /\ pc' = "decide"
      BY <1>2 DEF Begin
    <2> QED BY <1>0, <1>1, <2>1 DEF StagesInv
  <1>3. CASE stack # <<>>
    <2>1. pc' = "scan" /\ pos' = 1 /\ i' = 1
      BY <1>3 DEF Begin, FirstIndex
    <2>2. Former' = Stages(typed, stack)[0]
      BY <1>0, <2>1 DEF Former
    <2>3. PassOn'
      BY <1>0, <1>1, <2>1, <2>2, PassBeginsNext DEF PassReady
    <2> QED BY <2>1, <2>3 DEF StagesInv
  <1> QED BY <1>2, <1>3

LEMMA TranslateKeepsStages ==
  ASSUME ShellInv, NamesInv, StagesInv, Translate, WordTypes', Places'
  PROVE  StagesInv'
  <1>0. /\ WordTypes /\ Places /\ pc = "scan" /\ UNCHANGED <<typed, stack>> /\ pc' # "run"
        /\ Len(stack) \in Nat
        /\ NoEmptyText => PassOn
    BY StackMembers DEF ShellInv, StagesInv, Translate, SkipToken, ReplaceToken, NextAlias, EndScan
  <1>1. NoEmptyText' <=> NoEmptyText
    BY <1>0 DEF NoEmptyText, Commands
  <1>2. ASSUME NoEmptyText
        PROVE  /\ pc' = "scan" => PassOn'
               /\ pc' = "decide" => tokens' = Stages(typed', stack')[Len(stack')]
    <2>1. CASE SkipToken
      BY <1>0, <1>2, <2>1, SkipKeepsPass DEF SkipToken
    <2>2. CASE ReplaceToken
      <3>1. pos \in 1 .. Len(stack)
        BY <1>0, ScanFacts
      <3>2. stack[pos].command # <<>>
        <4>1. stack[pos] \in ToSet(stack)
          BY <1>0, <3>1, StackMembers
        <4> QED BY <1>2, <4>1 DEF NoEmptyText, Commands
      <3>3. Len(Text) # 0
        BY <1>0, <3>1, <3>2, TextNotEmpty DEF NamesInv, Text, Present
      <3>4. Text # <<>>
        BY <3>3
      <3> QED BY <1>0, <1>2, <2>2, <3>4, ReplaceKeepsPass DEF ReplaceToken
    <2>3. CASE NextAlias
      <3>1. /\ pc' = "scan" /\ UNCHANGED tokens /\ pos' = pos + 1 /\ i' = 1 /\ ~InTokens
        BY <2>3 DEF NextAlias, FirstIndex
      <3>2. tokens = Stages(typed, stack)[pos]
        BY <1>0, <1>2, <3>1, PassEnds DEF PassOn
      <3>3. pos' - 1 = pos
        BY <1>0, <3>1, ScanFacts
      <3>4. Former' = Stages(typed, stack)[pos]
        BY <1>0, <3>3 DEF Former
      <3>5. PassOn'
        BY <3>1, <3>2, <3>4, PassBeginsNext DEF PassReady
      <3> QED BY <3>1, <3>5
    <2>4. CASE EndScan
      <3>1. pc' = "decide" /\ UNCHANGED tokens /\ ~InTokens /\ pos = Len(stack)
        BY <2>4 DEF EndScan
      <3>2. tokens = Stages(typed, stack)[pos]
        BY <1>0, <1>2, <3>1, PassEnds DEF PassOn
      <3> QED BY <1>0, <3>1, <3>2
    <2> QED BY <2>1, <2>2, <2>3, <2>4 DEF Translate
  <1> QED BY <1>0, <1>1, <1>2 DEF StagesInv

LEMMA NextKeepsStages ==
  ASSUME ShellInv, NamesInv, StagesInv, [Next]_vars, WordTypes', Places'
  PROVE  StagesInv'
  <1>0. ASSUME pc' \notin {"run", "scan", "decide"}
        PROVE  StagesInv'
    BY <1>0 DEF StagesInv
  <1>1. CASE ReadLine
    BY <1>1 DEF ReadLine, StagesInv
  <1>2. CASE EndOfInput
    BY <1>0, <1>2 DEF EndOfInput
  <1>3. CASE Exit
    BY <1>0, <1>3 DEF Exit
  <1>4. CASE Begin
    BY <1>4, BeginKeepsStages
  <1>5. CASE Translate
    BY <1>5, TranslateKeepsStages
  <1>6. CASE Decide
    BY <1>0, <1>6 DEF Decide, Nothing, ChangeDirectory, ChangeSomewhere, DefineAlias, Define,
       ListAliases, StartPrograms
  <1>7. CASE Launch
    BY <1>0, <1>7 DEF Launch, CreatePipe, ForkLeft, CloseWrite, ForkRight, CloseRead, WaitLeft,
       WaitRight, ForkOnly, WaitOnly
  <1>8. CASE Back
    BY <1>0, <1>8 DEF Back, Return
  <1>9. CASE UNCHANGED <<pc, reading>>
    <2>1. UNCHANGED <<pc, stack, typed, tokens, pos, i>>
      BY <1>9 DEF reading
    <2>2. UNCHANGED <<Former, Present, Text, Made>>
      BY <2>1, SamePass
    <2>3. \A j : DoneTo(j)' <=> DoneTo(j)
      <3> TAKE j
      <3>1. Shape(tokens, j)' <=> Shape(tokens, j)
        BY <2>1, <2>2 DEF Shape
      <3> QED BY <2>1, <2>2, <3>1 DEF DoneTo
    <2>4. Doomed' <=> Doomed
      BY <2>1, <2>2 DEF Doomed
    <2>5. PassOn' <=> PassOn
      BY <2>2, <2>3, <2>4 DEF PassOn
    <2>6. NoEmptyText' <=> NoEmptyText
      BY <2>1 DEF NoEmptyText, Commands
    <2> QED BY <2>1, <2>5, <2>6 DEF StagesInv
  <1>10. CASE UNCHANGED vars
    BY <1>9, <1>10 DEF vars
  <1>11. ASSUME NEW c \in Child, ChildStep(c)
         PROVE  StagesInv'
    <2>1. UNCHANGED <<pc, reading>>
      BY <1>11 DEF ChildStep, Redirect, CloseOther, ExecWorks, ExecFails, Finish, Write, Killed,
         Consume
    <2> QED BY <1>9, <2>1
  <1> QED BY <1>1, <1>2, <1>3, <1>4, <1>5, <1>6, <1>7, <1>8, <1>10, <1>11 DEF Next, Shell, User

\* However many words there are, and whatever the aliases stand for: if none
\* stands for nothing, the command that is carried out is the line typed with
\* every word replaced once for each alias, from the newest to the oldest,
\* although the index runs over words that change under it.
THEOREM TranslatesByAge ==
  Spec => []TranslatedByAge
PROOF
  <1>1. Init => StagesInv
    BY InitStagesInv
  <1>2. ShellInv /\ ShellInv' /\ NamesInv /\ StagesInv /\ [Next]_vars => StagesInv'
    BY NextKeepsStages DEF ShellInv
  <1>3. StagesInv => TranslatedByAge
    BY DEF StagesInv, NoEmptyText, TranslatedByAge
  <1> QED BY <1>1, <1>2, <1>3, ShellInvariant, NamesInvariant, PTL DEF Spec

-----------------------------------------------------------------------------
(* The end of a pass *)

\* Unless the alias looked for makes itself, each round of the inner loop of
\* run_command() leaves fewer words to replace or, with no fewer, fewer words.
RunsOut ==
  (SkipToken \/ ReplaceToken) /\ ~SelfMade =>
    \/ Cardinality(ToReplace') < Cardinality(ToReplace)
    \/ Cardinality(ToReplace') = Cardinality(ToReplace) /\ Len(tokens') - i' < Len(tokens) - i

LEMMA SkipRunsOut ==
  ASSUME ShellInv, SkipToken
  PROVE  ToReplace' = ToReplace /\ Len(tokens') - i' < Len(tokens) - i
  <1>1. /\ UNCHANGED <<tokens, stack, pos>> /\ i' = i + 1 /\ tokens[i] # stack[pos].name
        /\ DOMAIN tokens = 1 .. Len(tokens) /\ Len(tokens) \in Nat /\ i \in Int
    BY LenProperties DEF SkipToken, ShellInv, WordTypes, Places
  <1>2. \A k \in DOMAIN tokens : tokens[k] = stack[pos].name => (i <= k <=> i + 1 <= k)
    BY <1>1
  <1> QED BY <1>1, <1>2 DEF ToReplace

\* What is still to be replaced was to be replaced before, at other places: the
\* words put in are done with or do not match.
LEMMA ReplaceRunsOut ==
  ASSUME ShellInv, ReplaceToken, ~SelfMade
  PROVE  Cardinality(ToReplace') < Cardinality(ToReplace)
  <1> DEFINE name == stack[pos].name
             text == parse_command(stack[pos].command)
             m == Len(text)
             n == Len(tokens)
  <1>1. /\ UNCHANGED <<stack, pos>> /\ i' = i + 1 /\ tokens[i] = name
        /\ pos \in 1 .. Len(stack) /\ i \in 1 .. n /\ n \in Nat
        /\ tokens \in Seq(Words)
    BY LenProperties DEF ReplaceToken, NextIndex, InTokens, ShellInv, WordTypes, Places
  <1>2. text \in Seq(Words) /\ m \in Nat
    BY <1>1, AliasFacts, LenProperties DEF ShellInv
  <1>3. tokens' = Expanded(tokens, i, text)
    BY DEF ReplaceToken
  <1>4. \A k \in 2 .. m : text[k] # name
    BY DEF SelfMade
  <1> HIDE DEF text, name
  <1>5. /\ tokens' \in Seq(Words) /\ Len(tokens') = n - 1 + m
        /\ InPlace(tokens', tokens, i, text)
    <2>1. text \in Seq(Words) /\ tokens \in Seq(Words) /\ i \in 1 .. Len(tokens)
      BY <1>1, <1>2
    <2> DEFINE E == tokens'
    <2>2. E = Expanded(tokens, i, text)
      BY <1>3
    <2> HIDE DEF m, n, E
    <2>3. /\ E \in Seq(Words) /\ Len(E) = Len(tokens) - 1 + Len(text)
          /\ InPlace(E, tokens, i, text)
      BY <2>1, <2>2, ExpandedFacts
    <2> QED BY <2>3 DEF m, n, E
  <1> DEFINE R == {k \in 1 .. n : i <= k /\ tokens[k] = name}
             Q == {k \in 1 .. n - 1 + m : i + 1 <= k /\ tokens'[k] = name}
  <1>6. ToReplace = R /\ ToReplace' = Q
    BY <1>1, <1>5, LenProperties DEF ToReplace, name
  <1>7. ASSUME NEW k \in Q PROVE k - m + 1 \in R \ {i}
    <2>1. k \in 1 .. Len(tokens') /\ i + 1 <= k /\ tokens'[k] = name
      BY <1>5
    <2>2. \/ k < i
          \/ k - (i - 1) \in 1 .. m /\ tokens'[k] = text[k - (i - 1)]
          \/ k - m + 1 \in i + 1 .. n /\ tokens'[k] = tokens[k - m + 1]
      BY <1>5, <2>1 DEF InPlace
    <2>3. ~(k < i)
      BY <1>1, <1>2, <2>1
    <2>4. ASSUME k - (i - 1) \in 1 .. m PROVE text[k - (i - 1)] # name
      <3>1. k - (i - 1) \in 2 .. m
        BY <1>1, <1>2, <2>1, <2>4
      <3> QED BY <1>4, <3>1
    <2>5. k - m + 1 \in i + 1 .. n /\ tokens[k - m + 1] = name
      BY <2>1, <2>2, <2>3, <2>4
    <2> QED BY <1>1, <2>5
  <1>8. IsFiniteSet(R) /\ i \in R
    <2>1. IsFiniteSet(1 .. n) /\ R \in SUBSET (1 .. n)
      BY <1>1, FS_Interval
    <2> QED BY <1>1, <2>1, FS_Subset
  <1>9. Q \subseteq Int
    BY <1>1, <1>2
  <1> HIDE DEF R, Q, m
  <1> DEFINE S == R \ {i}
  <1>10. IsFiniteSet(S) /\ Cardinality(S) = Cardinality(R) - 1 /\ Cardinality(R) \in Nat
    BY <1>8, FS_RemoveElement, FS_CardinalityType
  <1>11. \A k \in Q : k - m + 1 \in S
    BY <1>7
  <1> HIDE DEF S
  <1> DEFINE f == [k \in Q |-> k - m + 1]
  <1>12. f \in Injection(Q, S)
    <2>1. f \in [Q -> S]
      BY <1>11
    <2>2. \A j, k \in Q : f[j] = f[k] => j = k
      BY <1>2, <1>9 DEF m
    <2> QED BY <2>1, <2>2 DEF Injection, IsInjective
  <1>13. Cardinality(Q) <= Cardinality(S) /\ Cardinality(Q) \in Nat
    BY <1>10, <1>12, FS_Injection, FS_CardinalityType
  <1> QED BY <1>6, <1>10, <1>13

\* A pass ends, however long the line and whatever the aliases, unless the alias
\* has its own name in its text behind the first word: the argument of which
\* RunawayIsSelfMade shows the outcome up to a number of words.
THEOREM PassesRunOut ==
  Spec => [][RunsOut]_vars
PROOF
  <1>1. ShellInv /\ [Next]_vars => [RunsOut]_vars
    BY SkipRunsOut, ReplaceRunsOut DEF RunsOut
  <1> QED BY <1>1, ShellInvariant, PTL DEF Spec

-----------------------------------------------------------------------------
(* Translations that never end *)

\* Products of naturals.
LEMMA TimesMore ==
  ASSUME NEW a \in Nat, NEW b \in Nat, NEW c \in Nat, a <= b
  PROVE  a * c \in Nat /\ b * c \in Nat /\ a * c <= b * c
OBVIOUS

LEMMA TimesOut ==
  ASSUME NEW a \in Nat, NEW b \in Nat, NEW c \in Nat, c >= 1, a * c <= b * c
  PROVE  a <= b
<1> SUFFICES ASSUME b + 1 <= a PROVE FALSE
  OBVIOUS
<1>1. (b + 1) * c <= a * c /\ a * c \in Nat
  BY TimesMore
<1>2. (b + 1) * c = b * c + c /\ b * c \in Nat
  OBVIOUS
<1> QED BY <1>1, <1>2

\* The room at the start of a pass: with l words of which r are to be replaced
\* by no more than t each.
LEMMA RoomToBegin ==
  ASSUME NEW l \in Nat, NEW r \in Nat, NEW t \in Nat, NEW c \in Nat, NEW d \in Nat,
         NEW x \in Nat, r <= l, t >= 1, c * t <= d, l * d <= x
  PROVE  (l + r * (t - 1)) * c <= x
<1>1. r * (t - 1) <= l * (t - 1) /\ r * (t - 1) \in Nat /\ l * (t - 1) \in Nat
  BY TimesMore
<1>2. l + l * (t - 1) = l * t /\ l * t \in Nat
  OBVIOUS
<1>3. l + r * (t - 1) <= l * t /\ l + r * (t - 1) \in Nat
  BY <1>1, <1>2
<1>4. (l + r * (t - 1)) * c <= (l * t) * c /\ (l + r * (t - 1)) * c \in Nat
  BY <1>2, <1>3, TimesMore
<1>5. (l * t) * c = (c * t) * l
  OBVIOUS
<1>6. (c * t) * l <= d * l /\ c * t \in Nat /\ d * l = l * d /\ d * l \in Nat /\ (c * t) * l \in Nat
  BY TimesMore
<1> QED BY <1>4, <1>5, <1>6

\* A replacement takes from what is to be replaced what it puts in.
LEMMA RoomToGoOn ==
  ASSUME NEW l \in Nat, NEW r \in Nat, NEW t \in Nat, NEW c \in Nat, NEW x \in Nat,
         NEW k \in Nat, NEW m \in Nat, NEW q \in Nat,
         m <= t, k = l - 1 + m, q < r, t >= 1, (l + r * (t - 1)) * c <= x
  PROVE  (k + q * (t - 1)) * c <= x
<1>1. q + 1 <= r /\ t - 1 \in Nat
  OBVIOUS
<1>2. (q + 1) * (t - 1) <= r * (t - 1) /\ r * (t - 1) \in Nat
  BY <1>1, TimesMore
<1>3. (q + 1) * (t - 1) = q * (t - 1) + (t - 1) /\ q * (t - 1) \in Nat
  BY <1>1
<1>4. k + q * (t - 1) <= l + r * (t - 1) /\ k + q * (t - 1) \in Nat /\ l + r * (t - 1) \in Nat
  BY <1>2, <1>3
<1>5. (k + q * (t - 1)) * c <= (l + r * (t - 1)) * c
      /\ (k + q * (t - 1)) * c \in Nat /\ (l + r * (t - 1)) * c \in Nat
  BY <1>4, TimesMore
<1> QED BY <1>5

\* In the end there is room for the words there are.
LEMMA RoomInTheEnd ==
  ASSUME NEW l \in Nat, NEW c \in Nat, NEW b \in Nat, NEW d \in Nat, NEW z \in Nat,
         1 <= b, b <= c, (l + z) * c <= b * d
  PROVE  l <= d
<1>1. l * c <= (l + z) * c /\ l * c \in Nat /\ (l + z) * c \in Nat
  BY TimesMore
<1>2. b * l <= c * l /\ b * l \in Nat /\ c * l \in Nat /\ c * l = l * c /\ b * l = l * b
  BY TimesMore
<1>3. b * d = d * b /\ b * d \in Nat
  OBVIOUS
<1>4. l * b <= d * b
  BY <1>1, <1>2, <1>3
<1> QED BY <1>4, TimesOut

\* In the text of an alias every other item is a blank.
LEMMA JoinedItems ==
  ASSUME NEW ws \in Seq(Words)
  PROVE  /\ Len(Joined(ws)) \in Nat
         /\ Len(ws) = 0 => Len(Joined(ws)) = 0
         /\ Len(ws) # 0 => Len(Joined(ws)) = 2 * Len(ws) - 1
         /\ \A k \in 1 .. Len(Joined(ws)) : k % 2 = 0 => Joined(ws)[k] = Blank
<1>1. PICK n \in Nat : n = Len(ws)
  BY LenProperties
<1>2. PICK c \in Seq(Items) : c = Joined(ws)
  BY JoinedFacts
<1>3. Joined(ws) = [k \in 1 .. 2 * Len(ws) - 1 |-> IF k % 2 = 1 THEN ws[(k + 1) \div 2] ELSE Blank]
  BY Zenon DEF Joined
<1>4. c = [k \in 1 .. 2 * n - 1 |-> IF k % 2 = 1 THEN ws[(k + 1) \div 2] ELSE Blank]
  BY <1>1, <1>2, <1>3
<1>5. Len(c) \in Nat /\ DOMAIN c = 1 .. Len(c)
  BY <1>2, LenProperties
<1>6. 1 .. Len(c) = 1 .. 2 * n - 1
  BY <1>4, <1>5
<1>7. PICK l \in Nat : l = Len(c)
  BY <1>5
<1>8. 1 .. l = 1 .. 2 * n - 1
  BY <1>6, <1>7
<1>9. n = 0 => l = 0
  <2> SUFFICES ASSUME n = 0, l # 0 PROVE FALSE
    OBVIOUS
  <2>1. 1 \in 1 .. l
    OBVIOUS
  <2> QED BY <1>8, <2>1
<1>10. n # 0 => l = 2 * n - 1
  <2> SUFFICES ASSUME n # 0 PROVE l = 2 * n - 1
    OBVIOUS
  <2>1. PICK m \in Nat : m = 2 * n - 1 /\ m >= 1
    OBVIOUS
  <2>2. m \in 1 .. l /\ 1 .. l = 1 .. m
    BY <1>8, <2>1
  <2>3. l \in 1 .. m
    BY <2>2
  <2> QED BY <2>1, <2>2, <2>3
<1>11. \A k \in 1 .. l : k % 2 = 0 => c[k] = Blank
  BY <1>4, <1>8
<1> QED BY <1>1, <1>2, <1>7, <1>9, <1>10, <1>11

\* Two words have a blank between them.
LEMMA EveryOtherWord ==
  ASSUME NEW c \in Seq(Items), \A k \in 1 .. Len(c) : k % 2 = 0 => c[k] = Blank
  PROVE  /\ parse_command(c) \in Seq(Words)
         /\ 2 * Len(parse_command(c)) <= Len(c) + (Len(c) % 2)
<1>1. PICK n \in Nat : n = Len(c)
  BY LenProperties
<1>2. \A k \in 1 .. n : c[k] \in Items
  BY <1>1, ElementOfSeq
<1>3. PICK g : /\ parse_command(c) = g[Len(c)] /\ g[0] = <<>>
               /\ \A k \in 1 .. Len(c) :
                    g[k] = IF c[k] = Blank THEN g[k - 1] ELSE Append(g[k - 1], c[k])
  BY ParseIs
<1> DEFINE T == {k \in Nat : k <= n =>
                   g[k] \in Seq(Words) /\ 2 * Len(g[k]) <= k + (k % 2)}
<1>4. 0 \in T
  <2>1. g[0] \in Seq(Words) /\ Len(g[0]) = 0
    BY <1>3
  <2>2. 2 * 0 <= 0 + (0 % 2)
    OBVIOUS
  <2> QED BY <2>1, <2>2
<1>5. ASSUME NEW k \in Nat, k \in T PROVE k + 1 \in T
  <2> SUFFICES ASSUME k + 1 <= n
               PROVE  g[k + 1] \in Seq(Words) /\ 2 * Len(g[k + 1]) <= (k + 1) + ((k + 1) % 2)
    OBVIOUS
  <2>1. /\ k + 1 \in 1 .. n /\ (k + 1) - 1 = k
        /\ g[k] \in Seq(Words) /\ 2 * Len(g[k]) <= k + (k % 2)
    BY <1>5
  <2>2. g[k + 1] = IF c[k + 1] = Blank THEN g[k] ELSE Append(g[k], c[k + 1])
    BY <1>1, <1>3, <2>1
  <2>3. PICK l \in Nat : l = Len(g[k])
    BY <2>1, LenProperties
  <2>4. 2 * l <= k + (k % 2)
    BY <2>1, <2>3
  <2>5. CASE c[k + 1] = Blank
    <3>1. g[k + 1] = g[k]
      BY <2>2, <2>5
    <3>2. 2 * l <= (k + 1) + ((k + 1) % 2)
      BY <2>4
    <3> QED BY <2>1, <2>3, <3>1, <3>2
  <2>6. CASE c[k + 1] # Blank
    <3>1. (k + 1) % 2 # 0
      BY <1>1, <2>1, <2>6
    <3>2. k % 2 = 0 /\ (k + 1) % 2 = 1
      BY <3>1
    <3>3. c[k + 1] \in Words
      BY <1>2, <2>1, <2>6 DEF Words
    <3>4. g[k + 1] = Append(g[k], c[k + 1])
      BY <2>2, <2>6
    <3>5. g[k + 1] \in Seq(Words) /\ Len(g[k + 1]) = l + 1
      BY <2>1, <2>3, <3>3, <3>4, AppendFacts
    <3>6. 2 * l <= k
      BY <2>4, <3>2
    <3>7. 2 * (l + 1) <= (k + 1) + 1
      BY <3>6
    <3>8. (k + 1) + 1 = (k + 1) + ((k + 1) % 2)
      BY <3>2
    <3>9. 2 * (l + 1) <= (k + 1) + ((k + 1) % 2)
      BY <3>7, <3>8
    <3> QED BY <3>5, <3>9
  <2> QED BY <2>5, <2>6
<1> HIDE DEF T
<1>6. n \in T
  BY <1>4, <1>5, SetInduction
<1> QED BY <1>1, <1>3, <1>6 DEF T

\* The text of an alias has no more words than were put together.
LEMMA JoinedLength ==
  ASSUME NEW ws \in Seq(Words)
  PROVE  Len(parse_command(Joined(ws))) <= Len(ws)
<1>1. PICK n \in Nat : n = Len(ws)
  BY LenProperties
<1>2. PICK l \in Nat : l = Len(Joined(ws))
  BY JoinedItems
<1>3. Joined(ws) \in Seq(Items)
  BY JoinedFacts
<1>4. /\ parse_command(Joined(ws)) \in Seq(Words)
      /\ 2 * Len(parse_command(Joined(ws))) <= l + (l % 2)
  BY <1>2, <1>3, JoinedItems, EveryOtherWord
<1>5. PICK m \in Nat : m = Len(parse_command(Joined(ws)))
  BY <1>4, LenProperties
<1>6. 2 * m <= l + (l % 2)
  BY <1>4, <1>5
<1>7. n = 0 => l = 0
  BY <1>1, <1>2, JoinedItems
<1>8. n # 0 => l = 2 * n - 1
  BY <1>1, <1>2, JoinedItems
<1>9. m <= n
  <2>1. CASE n = 0
    BY <1>6, <1>7, <2>1
  <2>2. CASE n # 0
    <3>1. l = 2 * n - 1
      BY <1>8, <2>2
    <3>2. 2 * m <= l + 1
      BY <1>6
    <3> QED BY <3>1, <3>2
  <2> QED BY <2>1, <2>2
<1> QED BY <1>1, <1>5, <1>9

\* With more aliases there is no less room.
LEMMA RoomFacts ==
  ASSUME NEW b \in [0 .. MaxAliases -> Nat], Room(b)
  PROVE  /\ \A l \in Nat : TextOf(l) \in Nat /\ TextOf(l) >= 1
         /\ \A n \in 0 .. MaxAliases : b[n] \in Nat /\ b[0] <= b[n] /\ b[n] <= MaxTokens
<1>1. \A l \in Nat : TextOf(l) \in Nat /\ TextOf(l) >= 1
  BY DEF TextOf
<1>2. PICK top \in Nat : top = MaxAliases
  BY MashAliasAssumption
<1>3. \A n \in 0 .. top : b[n] \in Nat
  BY <1>2
<1>4. ASSUME NEW n \in 1 .. top
      PROVE  b[n - 1] <= b[n]
  <2>1. n - 1 \in 0 .. top /\ n \in 0 .. top
    BY <1>2
  <2>2. PICK l \in Nat, d \in Nat : l = b[n - 1] /\ d = b[n]
    BY <1>3, <2>1
  <2>3. PICK t \in Nat : t = TextOf(l) /\ t >= 1
    BY <1>1
  <2>4. l * t <= d
    BY <1>2, <2>2, <2>3 DEF Room
  <2>5. 1 * l <= t * l
    BY <2>3, TimesMore
  <2>6. 1 * l = l /\ t * l = l * t /\ l * t \in Nat
    OBVIOUS
  <2>7. l <= d
    BY <2>4, <2>5, <2>6
  <2> QED BY <2>2, <2>7
<1> DEFINE T == {k \in Nat : \A n \in 0 .. top : n + k <= top => b[n] <= b[n + k]}
<1>5. 0 \in T
  BY <1>3
<1>6. ASSUME NEW k \in Nat, k \in T PROVE k + 1 \in T
  <2> SUFFICES ASSUME NEW n \in 0 .. top, n + (k + 1) <= top
               PROVE  b[n] <= b[n + (k + 1)]
    OBVIOUS
  <2>1. /\ n + k \in 0 .. top /\ n + (k + 1) \in 0 .. top /\ n + (k + 1) \in 1 .. top
        /\ n + k <= top /\ (n + (k + 1)) - 1 = n + k
    BY <1>2
  <2>2. b[n] <= b[n + k] /\ b[n + k] <= b[n + (k + 1)]
    BY <1>4, <1>6, <2>1
  <2>3. b[n] \in Nat /\ b[n + k] \in Nat /\ b[n + (k + 1)] \in Nat
    BY <1>3, <2>1
  <2> QED BY <2>2, <2>3
<1> HIDE DEF T
<1>7. Nat \subseteq T
  BY <1>5, <1>6, SetInduction
<1>8. ASSUME NEW n \in 0 .. top PROVE b[0] <= b[n] /\ b[n] <= MaxTokens
  <2>1. n \in Nat /\ top - n \in Nat /\ 0 \in 0 .. top /\ top \in 0 .. top
        /\ 0 + n = n /\ n + (top - n) = top
    OBVIOUS
  <2>2. b[0] <= b[n] /\ b[n] <= b[top]
    <3>1. PICK k \in Nat : k = top - n /\ n + k = top
      BY <2>1
    <3>2. n \in T /\ k \in T
      BY <1>7, <2>1
    <3> QED BY <2>1, <3>1, <3>2 DEF T
  <2>3. b[top] <= MaxTokens /\ b[top] \in Nat /\ b[n] \in Nat
    BY <1>2, <1>3, <2>1 DEF Room
  <2>4. PICK m \in Nat : m = MaxTokens
    BY MashAliasAssumption
  <2>5. PICK p \in Nat, q \in Nat : p = b[n] /\ q = b[top]
    BY <2>3
  <2>6. p <= q /\ q <= m
    BY <2>2, <2>3, <2>4, <2>5
  <2>7. p <= m
    BY <2>6
  <2> QED BY <2>2, <2>4, <2>5, <2>7
<1> QED BY <1>1, <1>2, <1>3, <1>8

LEMMA SomePlaces ==
  ASSUME NEW n \in Nat, NEW R, R \subseteq 1 .. n
  PROVE  Cardinality(R) \in Nat /\ Cardinality(R) <= n
<1>1. IsFiniteSet(1 .. n) /\ Cardinality(1 .. n) = n
  BY FS_Interval
<1>2. R \in SUBSET (1 .. n)
  OBVIOUS
<1> QED BY <1>1, <1>2, FS_Subset, FS_CardinalityType

\* The numbers that a pass is about: the words there are and those to replace,
\* the length of a text and the room for what the pass leaves.
PassNumbers(l, r, t, c, x, b) ==
  /\ l = Len(tokens)
  /\ r = Cardinality(ToReplace)
  /\ c = b[Len(stack) - pos]
  /\ t = TextOf(c)
  /\ x = b[0] * b[Len(stack)]

LEMMA PassNumbersExist ==
  \A b \in [0 .. MaxAliases -> Nat] :
    Room(b) /\ WordTypes /\ Places /\ pos <= Len(stack) =>
      \E l, r, t, c, x \in Nat : PassNumbers(l, r, t, c, x, b) /\ r <= l /\ t >= 1 /\ b[0] <= c
<1> SUFFICES ASSUME NEW b \in [0 .. MaxAliases -> Nat], Room(b), WordTypes, Places, pos <= Len(stack)
             PROVE  \E l, r, t, c, x \in Nat :
                      PassNumbers(l, r, t, c, x, b) /\ r <= l /\ t >= 1 /\ b[0] <= c
  OBVIOUS
<1>1. PICK l \in Nat : l = Len(tokens) /\ DOMAIN tokens = 1 .. l
  BY LenProperties DEF WordTypes
<1>2. PICK n \in Nat : n = Len(stack) /\ n <= MaxAliases
  BY LenProperties DEF WordTypes
<1>3. ToReplace \subseteq 1 .. l
  BY <1>1 DEF ToReplace
<1>4. PICK r \in Nat : r = Cardinality(ToReplace) /\ r <= l
  BY <1>3, SomePlaces
<1>5. n - pos \in 0 .. MaxAliases /\ n \in 0 .. MaxAliases /\ 0 \in 0 .. MaxAliases
  BY <1>2, MashAliasAssumption DEF Places
<1>6. PICK c \in Nat : c = b[n - pos] /\ b[0] <= c
  BY <1>5, RoomFacts
<1>7. PICK t \in Nat : t = TextOf(c) /\ t >= 1
  BY RoomFacts
<1>8. PICK x \in Nat : x = b[0] * b[n]
  <2>1. PICK p \in Nat, q \in Nat : p = b[0] /\ q = b[n]
    BY <1>5
  <2>2. p * q \in Nat
    OBVIOUS
  <2> QED BY <2>1, <2>2
<1>9. PassNumbers(l, r, t, c, x, b)
  BY <1>1, <1>2, <1>4, <1>6, <1>7, <1>8 DEF PassNumbers
<1> QED BY <1>4, <1>6, <1>7, <1>9

\* What they have to do with the room.
LEMMA PassFitsIff ==
  \A b, l, r, t, c, x :
    PassNumbers(l, r, t, c, x, b) => (PassFits(b) <=> (l + r * (t - 1)) * c <= x)
BY DEF PassFits, PassNumbers

\* A pass that begins with no more words than there is room for.
FitsAtFirst ==
  \A b \in [0 .. MaxAliases -> Nat] :
    Room(b) /\ WordTypes /\ Places /\ pos <= Len(stack)
    /\ Len(tokens) * b[Len(stack) - pos + 1] <= b[0] * b[Len(stack)] => PassFits(b)

LEMMA FirstRoom == FitsAtFirst
<1> SUFFICES ASSUME NEW b \in [0 .. MaxAliases -> Nat], Room(b), WordTypes, Places,
                    pos <= Len(stack),
                    Len(tokens) * b[Len(stack) - pos + 1] <= b[0] * b[Len(stack)]
             PROVE  PassFits(b)
  BY DEF FitsAtFirst
<1>1. PICK l \in Nat, r \in Nat, t \in Nat, c \in Nat, x \in Nat :
        PassNumbers(l, r, t, c, x, b) /\ r <= l /\ t >= 1
  BY PassNumbersExist
<1>2. PICK n \in Nat : n = Len(stack) /\ n <= MaxAliases
  BY LenProperties DEF WordTypes
<1>3. n - pos + 1 \in 1 .. MaxAliases /\ n - pos + 1 \in 0 .. MaxAliases /\ (n - pos + 1) - 1 = n - pos
  BY <1>2, MashAliasAssumption DEF Places
<1>4. PICK d \in Nat : d = b[n - pos + 1]
  BY <1>3
<1>5. b[n - pos] * TextOf(b[n - pos]) <= b[n - pos + 1]
  BY <1>3 DEF Room
<1>6. c * t <= d
  BY <1>1, <1>2, <1>4, <1>5 DEF PassNumbers
<1>7. l * d <= x
  BY <1>1, <1>2, <1>4 DEF PassNumbers
<1>8. (l + r * (t - 1)) * c <= x
  BY <1>1, <1>6, <1>7, RoomToBegin
<1> QED BY <1>1, <1>8, PassFitsIff

LEMMA BeginKeepsRoom ==
  ASSUME ShellInv, ShellInv', NEW b \in [0 .. MaxAliases -> Nat], Room(b), RoomInv(b), Begin
  PROVE  RoomInv(b)'
<1>1. /\ UNCHANGED <<stack, tokens>> /\ pc = "run" /\ pc' \in {"decide", "scan"}
      /\ TextsFit(b) /\ Len(tokens) <= b[0]
  BY DEF Begin, RoomInv
<1>2. TextsFit(b)'
  BY <1>1 DEF TextsFit
<1>3. PICK l \in Nat : l = Len(tokens) /\ l <= b[0]
  BY <1>1, LenProperties DEF ShellInv, WordTypes
<1>4. PICK n \in Nat : n = Len(stack) /\ n <= MaxAliases
  BY LenProperties DEF ShellInv, WordTypes
<1>5. n \in 0 .. MaxAliases /\ 0 \in 0 .. MaxAliases
  BY <1>4, MashAliasAssumption
<1>6. PICK d \in Nat, p \in Nat : d = b[n] /\ p = b[0] /\ p <= d
  BY <1>5, RoomFacts
<1>7. CASE stack = <<>>
  <2>1. pc' = "decide"
    BY <1>7 DEF Begin
  <2>2. l <= d
    BY <1>3, <1>6
  <2> QED BY <1>1, <1>2, <1>3, <1>4, <1>6, <2>1, <2>2 DEF RoomInv, RunawayIsSelfMade
<1>8. CASE stack # <<>>
  <2>1. pc' = "scan" /\ pos' = 1
    BY <1>8 DEF Begin
  <2>2. n - 1 + 1 = n
    OBVIOUS
  <2>3. l * d <= p * d
    BY <1>3, <1>6, TimesMore
  <2>4. /\ Len(tokens') * b[Len(stack') - pos' + 1] <= b[0] * b[Len(stack')]
        /\ WordTypes' /\ Places' /\ pos' <= Len(stack')
    BY <1>1, <1>3, <1>4, <1>6, <2>1, <2>2, <2>3 DEF ShellInv, Places
  <2>5. FitsAtFirst'
    BY FirstRoom, PTL
  <2>6. PassFits(b)'
    BY <2>4, <2>5 DEF FitsAtFirst, Room
  <2> QED BY <1>2, <2>1, <2>6 DEF RoomInv, RunawayIsSelfMade
<1> QED BY <1>7, <1>8

LEMMA SkipKeepsRoom ==
  ASSUME ShellInv, NEW b \in [0 .. MaxAliases -> Nat], RoomInv(b), SkipToken
  PROVE  RoomInv(b)'
<1>1. UNCHANGED <<stack, tokens, pos>> /\ pc = "scan" /\ pc' = "scan"
  BY DEF SkipToken
<1>2. ToReplace' = ToReplace
  BY SkipRunsOut
<1>3. (PassFits(b)' <=> PassFits(b)) /\ (SelfMade' <=> SelfMade) /\ (TextsFit(b)' <=> TextsFit(b))
  BY <1>1, <1>2 DEF PassFits, SelfMade, TextsFit
<1> QED BY <1>1, <1>2, <1>3 DEF RoomInv, RunawayIsSelfMade

\* At the end of a pass nothing is left to replace.
LEMMA NothingToReplace ==
  ASSUME ShellInv, pc = "scan", ~InTokens
  PROVE  ToReplace = {}
<1>1. PICK l \in Nat : l = Len(tokens) /\ DOMAIN tokens = 1 .. l
  BY LenProperties DEF ShellInv, WordTypes
<1>2. i \in Nat /\ l < i
  BY <1>1 DEF InTokens, ShellInv, Places
<1> QED BY <1>1, <1>2 DEF ToReplace

LEMMA PassDoneFits ==
  ASSUME ShellInv, NEW b \in [0 .. MaxAliases -> Nat], Room(b), RoomInv(b), pc = "scan", ~InTokens
  PROVE  Len(tokens) * b[Len(stack) - pos] <= b[0] * b[Len(stack)]
<1>1. PassFits(b) /\ ToReplace = {}
  BY NothingToReplace DEF RoomInv
<1>2. PICK l \in Nat, r \in Nat, t \in Nat, c \in Nat, x \in Nat :
        PassNumbers(l, r, t, c, x, b) /\ t >= 1
  BY PassNumbersExist DEF ShellInv, Places
<1>3. (l + r * (t - 1)) * c <= x
  BY <1>1, <1>2, PassFitsIff
<1>4. r = 0
  BY <1>1, <1>2, FS_EmptySet DEF PassNumbers
<1>5. l + r * (t - 1) = l
  BY <1>4
<1>6. l * c <= x
  BY <1>3, <1>5
<1> QED BY <1>2, <1>6 DEF PassNumbers

LEMMA NextAliasKeepsRoom ==
  ASSUME ShellInv, ShellInv', NEW b \in [0 .. MaxAliases -> Nat], Room(b), RoomInv(b), NextAlias
  PROVE  RoomInv(b)'
<1>1. /\ UNCHANGED <<stack, tokens>> /\ pc = "scan" /\ pc' = "scan" /\ pos' = pos + 1
      /\ ~InTokens
  BY DEF NextAlias
<1>2. TextsFit(b)'
  BY <1>1 DEF TextsFit, RoomInv
<1>3. Len(tokens) * b[Len(stack) - pos] <= b[0] * b[Len(stack)]
  BY <1>1, PassDoneFits
<1>4. Len(stack) - (pos + 1) + 1 = Len(stack) - pos
  <2>1. Len(stack) \in Nat /\ pos \in Nat
    BY LenProperties DEF ShellInv, WordTypes, Places
  <2> QED BY <2>1
<1>5. /\ Len(tokens') * b[Len(stack') - pos' + 1] <= b[0] * b[Len(stack')]
      /\ WordTypes' /\ Places' /\ pos' <= Len(stack')
  BY <1>1, <1>3, <1>4 DEF ShellInv, Places
<1>6. FitsAtFirst'
  BY FirstRoom, PTL
<1>7. PassFits(b)'
  BY <1>5, <1>6 DEF FitsAtFirst, Room
<1> QED BY <1>1, <1>2, <1>7 DEF RoomInv, RunawayIsSelfMade

LEMMA EndKeepsRoom ==
  ASSUME ShellInv, NEW b \in [0 .. MaxAliases -> Nat], Room(b), RoomInv(b), EndScan
  PROVE  RoomInv(b)'
<1>1. /\ UNCHANGED <<stack, tokens, pos>> /\ pc = "scan" /\ pc' = "decide" /\ pos = Len(stack)
      /\ ~InTokens
  BY DEF EndScan
<1>2. TextsFit(b)'
  BY <1>1 DEF TextsFit, RoomInv
<1>3. Len(tokens) * b[Len(stack) - pos] <= b[0] * b[Len(stack)]
  BY <1>1, PassDoneFits
<1>4. PICK n \in Nat : n = Len(stack) /\ n <= MaxAliases
  BY LenProperties DEF ShellInv, WordTypes
<1>5. PICK l \in Nat : l = Len(tokens)
  BY LenProperties DEF ShellInv, WordTypes
<1>6. n - n = 0 /\ n \in 0 .. MaxAliases /\ 0 \in 0 .. MaxAliases
  BY <1>4, MashAliasAssumption
<1>7. PICK d \in Nat, p \in Nat : d = b[n] /\ p = b[0] /\ p >= 1
  BY <1>6 DEF Room
<1>8. l * p <= p * d /\ p * d = d * p
  BY <1>1, <1>3, <1>4, <1>5, <1>6, <1>7
<1>9. l <= d
  BY <1>7, <1>8, TimesOut
<1> QED BY <1>1, <1>2, <1>4, <1>5, <1>7, <1>9 DEF RoomInv, RunawayIsSelfMade

\* What an alias that makes itself has put in goes on being replaced.
LEMMA SelfMadeGoesOn ==
  ASSUME ShellInv, ShellInv', ReplaceToken, SelfMade
  PROVE  SelfMade' /\ ToReplace' # {} /\ stack'[pos'].name \in ToSet(Tail(parse_command(stack'[pos'].command)))
<1> DEFINE name == stack[pos].name
           text == parse_command(stack[pos].command)
<1>1. /\ UNCHANGED <<stack, pos>> /\ i' = i + 1 /\ tokens' = Expanded(tokens, i, text)
      /\ pos \in 1 .. Len(stack) /\ i \in 1 .. Len(tokens) /\ tokens \in Seq(Words)
  BY LenProperties DEF ReplaceToken, NextIndex, InTokens, ShellInv, WordTypes, Places
<1>2. text \in Seq(Words)
  BY <1>1, AliasFacts DEF ShellInv
<1>3. PICK k \in 2 .. Len(text) : text[k] = name
  BY DEF SelfMade
<1>4. SelfMade'
  BY <1>1 DEF SelfMade
<1> HIDE DEF text, name
<1>5. PICK m \in Nat, n \in Nat : m = Len(text) /\ n = Len(tokens)
  BY <1>1, <1>2, LenProperties
<1>6. ToReplace' # {}
  <2> DEFINE E == tokens'
  <2>1. E = Expanded(tokens, i, text)
    BY <1>1
  <2> HIDE DEF E
  <2>2. E \in Seq(Words) /\ Len(E) = Len(tokens) - 1 + Len(text) /\ InPlace(E, tokens, i, text)
    BY <1>1, <1>2, <2>1, ExpandedFacts
  <2>3. PICK j \in Nat : j = i - 1 + k
    BY <1>1, <1>3
  <2>4. /\ j \in 1 .. Len(E) /\ i + 1 <= j /\ ~(j < i) /\ j - (i - 1) = k
        /\ ~(j - Len(text) + 1 \in i + 1 .. Len(tokens))
    BY <1>1, <1>3, <1>5, <2>2, <2>3
  <2>5. E[j] = text[k]
    BY <2>2, <2>4 DEF InPlace
  <2>6. DOMAIN E = 1 .. Len(E)
    BY <2>2, LenProperties
  <2>7. j \in DOMAIN E /\ i' <= j /\ E[j] = stack'[pos'].name
    BY <1>1, <1>3, <2>4, <2>5, <2>6 DEF name
  <2>8. j \in DOMAIN tokens' /\ tokens'[j] = stack'[pos'].name
    BY <2>7 DEF E
  <2> QED BY <2>7, <2>8 DEF ToReplace
<1>7. name \in ToSet(Tail(text))
  <2>1. text # <<>>
    BY <1>2, <1>3, EmptySeq
  <2>2. /\ Tail(text) \in Seq(Words) /\ Len(Tail(text)) = Len(text) - 1
        /\ \A j \in 1 .. Len(Tail(text)) : Tail(text)[j] = text[j + 1]
    BY <1>2, <2>1, HeadTailProperties
  <2>3. k - 1 \in 1 .. Len(Tail(text)) /\ (k - 1) + 1 = k
    BY <1>3, <1>5, <2>2
  <2>4. Tail(text)[k - 1] = name
    BY <1>3, <2>2, <2>3
  <2> DEFINE rest == Tail(text)
  <2>5. rest \in Seq(Words) /\ k - 1 \in 1 .. Len(rest) /\ rest[k - 1] = name
    BY <2>2, <2>3, <2>4
  <2> HIDE DEF rest
  <2>6. name \in ToSet(rest)
    BY <2>5, Members
  <2> QED BY <2>6 DEF rest
<1> QED BY <1>1, <1>4, <1>6, <1>7 DEF name, text

\* And if it does not, there is room for what is put in.
LEMMA ReplacedFits ==
  ASSUME ShellInv, ShellInv', NEW b \in [0 .. MaxAliases -> Nat], Room(b), RoomInv(b),
         ReplaceToken, ~SelfMade
  PROVE  PassFits(b)' /\ Len(tokens') <= MaxTokens
<1>1. /\ UNCHANGED <<stack, pos>>
      /\ pos \in 1 .. Len(stack) /\ i \in 1 .. Len(tokens) /\ tokens \in Seq(Words)
      /\ tokens' = Expanded(tokens, i, parse_command(stack[pos].command))
      /\ PassFits(b) /\ TextsFit(b)
  <2>1. pc = "scan" /\ UNCHANGED <<stack, pos>> /\ i <= Len(tokens)
        /\ tokens' = Expanded(tokens, i, parse_command(stack[pos].command))
    BY DEF ReplaceToken, InTokens
  <2>2. pos \in 1 .. Len(stack) /\ i \in 1 .. Len(tokens) /\ tokens \in Seq(Words)
    BY <2>1, LenProperties DEF ShellInv, WordTypes, Places
  <2>3. PassFits(b) /\ TextsFit(b)
    BY <2>1 DEF RoomInv
  <2> QED BY <2>1, <2>2, <2>3
<1>2. PICK l \in Nat, r \in Nat, t \in Nat, c \in Nat, x \in Nat :
        PassNumbers(l, r, t, c, x, b) /\ t >= 1 /\ b[0] <= c
  <2>1. pos <= Len(stack) /\ WordTypes /\ Places
    BY <1>1, LenProperties DEF ShellInv, WordTypes
  <2> QED BY <2>1, PassNumbersExist
<1>3. PICK m \in Nat : m = Len(parse_command(stack[pos].command)) /\ m <= t
  <2>1. parse_command(stack[pos].command) \in Seq(Words)
    BY <1>1, AliasFacts DEF ShellInv
  <2>2. Len(parse_command(stack[pos].command)) <= t
    BY <1>1, <1>2 DEF TextsFit, PassNumbers
  <2> QED BY <2>1, <2>2, LenProperties
<1>4. PICK k \in Nat : k = Len(tokens') /\ k = l - 1 + m
  <2> DEFINE E == tokens'
             text == parse_command(stack[pos].command)
  <2>1. E = Expanded(tokens, i, text) /\ text \in Seq(Words)
    BY <1>1, AliasFacts DEF ShellInv
  <2> HIDE DEF E, text
  <2>2. E \in Seq(Words) /\ Len(E) = Len(tokens) - 1 + Len(text)
    BY <1>1, <2>1, ExpandedFacts
  <2>3. Len(E) = l - 1 + m /\ Len(E) \in Nat
    BY <1>2, <1>3, <2>2, LenProperties DEF text, PassNumbers
  <2> QED BY <2>3 DEF E
<1>5. PICK q \in Nat : q = Cardinality(ToReplace') /\ q < r
  <2>1. DOMAIN tokens' = 1 .. k
    <3>1. tokens' \in Seq(Words)
      BY DEF ShellInv, WordTypes
    <3> QED BY <1>4, <3>1, LenProperties
  <2>2. ToReplace' \subseteq 1 .. k
    BY <2>1 DEF ToReplace
  <2>3. Cardinality(ToReplace') \in Nat
    BY <2>2, SomePlaces
  <2>4. Cardinality(ToReplace') < Cardinality(ToReplace)
    BY ReplaceRunsOut
  <2>5. r = Cardinality(ToReplace)
    BY <1>2 DEF PassNumbers
  <2> QED BY <2>3, <2>4, <2>5
<1>6. (l + r * (t - 1)) * c <= x
  BY <1>1, <1>2, PassFitsIff
<1>7. (k + q * (t - 1)) * c <= x
  <2>1. m <= t /\ k = l - 1 + m /\ q < r /\ t >= 1
    BY <1>2, <1>3, <1>4, <1>5
  <2> QED BY <1>6, <2>1, RoomToGoOn
<1>8. PassFits(b)'
  <2>1. b[Len(stack') - pos'] = c /\ TextOf(c) = t /\ b[0] * b[Len(stack')] = x
    BY <1>1, <1>2 DEF PassNumbers
  <2>2. (Len(tokens') + Cardinality(ToReplace') * (TextOf(c) - 1)) * c <= x
    BY <1>4, <1>5, <1>7, <2>1
  <2>3. (Len(tokens') + Cardinality(ToReplace') * (TextOf(b[Len(stack') - pos']) - 1))
          * b[Len(stack') - pos'] <= b[0] * b[Len(stack')]
    BY <2>1, <2>2
  <2> QED BY <2>3 DEF PassFits
<1>9. PICK n \in Nat : n = Len(stack) /\ n \in 0 .. MaxAliases
  BY LenProperties, MashAliasAssumption DEF ShellInv, WordTypes
<1>10. PICK d \in Nat, p \in Nat, y \in Nat : d = b[n] /\ p = b[0] /\ y = MaxTokens /\ 1 <= p /\ d <= y /\ p <= c
  <2>1. 0 \in 0 .. MaxAliases
    BY MashAliasAssumption
  <2> QED BY <1>2, <1>9, <2>1, RoomFacts, MashAliasAssumption DEF Room
<1>11. PICK z \in Nat : z = q * (t - 1)
  <2>1. PICK u \in Nat : u = t - 1
    BY <1>2
  <2>2. q * u \in Nat
    OBVIOUS
  <2> QED BY <2>1, <2>2
<1>12. (k + z) * c <= p * d
  BY <1>2, <1>7, <1>9, <1>10, <1>11 DEF PassNumbers
<1>13. k <= d
  BY <1>10, <1>12, RoomInTheEnd
<1>14. k <= y
  BY <1>10, <1>13
<1> QED BY <1>4, <1>8, <1>10, <1>14

LEMMA ReplaceKeepsRoom ==
  ASSUME ShellInv, ShellInv', NEW b \in [0 .. MaxAliases -> Nat], Room(b), RoomInv(b), ReplaceToken
  PROVE  RoomInv(b)'
<1>1. /\ UNCHANGED stack /\ pc' \in {"scan", "runaway"}
      /\ pc' = "runaway" => Len(tokens') > MaxTokens
  BY DEF ReplaceToken
<1>2. TextsFit(b)'
  BY <1>1 DEF TextsFit, RoomInv
<1>3. CASE SelfMade
  BY <1>1, <1>2, <1>3, SelfMadeGoesOn DEF RoomInv, RunawayIsSelfMade
<1>4. CASE ~SelfMade
  <2>1. PassFits(b)' /\ Len(tokens') <= MaxTokens /\ Len(tokens') \in Nat
    BY <1>4, ReplacedFits, LenProperties DEF ShellInv, WordTypes
  <2>2. pc' = "scan"
    BY <1>1, <2>1, MashAliasAssumption
  <2> QED BY <1>2, <2>1, <2>2 DEF RoomInv, RunawayIsSelfMade
<1> QED BY <1>3, <1>4

\* A new alias has no more words than the command that defines it, without the
\* first two.
LEMMA DefineKeepsRoom ==
  ASSUME ShellInv, NEW b \in [0 .. MaxAliases -> Nat], Room(b), RoomInv(b), DefineAlias
  PROVE  RoomInv(b)'
<1>1. /\ Len(tokens) > 1 /\ Define /\ pc = "decide" /\ pc' \in {"back", "full"}
      /\ TextsFit(b) /\ Len(tokens) <= b[Len(stack)] /\ WordTypes
  BY DEF DefineAlias, Define, RoomInv, ShellInv
<1>2. CASE pc' = "full"
  <2>1. UNCHANGED stack
    BY <1>1, <1>2 DEF Define
  <2>2. TextsFit(b)'
    BY <1>1, <2>1 DEF TextsFit
  <2> QED BY <1>2, <2>2 DEF RoomInv, RunawayIsSelfMade
<1>3. CASE pc' = "back"
  <2> DEFINE ws == SubSeq(tokens, 3, Len(tokens))
             A == [name : Words, command : Seq(Items)]
             a == [name |-> tokens[2], command |-> Joined(ws)]
             s == <<a>>
  <2>1. /\ stack' = s \o stack /\ ws \in Seq(Words) /\ a \in A
        /\ Len(stack') = Len(stack) + 1 /\ Len(stack) < MaxAliases
    BY <1>1, <1>3, DefineFacts
  <2>2. PICK n \in Nat : n = Len(stack) /\ n \in 0 .. MaxAliases
    BY <2>1, LenProperties, MashAliasAssumption DEF WordTypes
  <2>3. PICK l \in Nat : l = Len(tokens) /\ l > 1
    BY <1>1, LenProperties DEF WordTypes
  <2>4. PICK d \in Nat : d = b[n] /\ l <= d
    BY <1>1, <2>2, <2>3
  <2>5. PICK m \in Nat : m = Len(ws) /\ m = l - 2
    <3>1. \A k \in 3 .. l : tokens[k] \in Words
      BY <1>1, <2>3, ElementOfSeq DEF WordTypes
    <3>2. Len(ws) = IF 3 <= l THEN l - 3 + 1 ELSE 0
      BY <2>3, <3>1, SubSeqProperties
    <3> QED BY <2>3, <3>2
  <2>6. Len(parse_command(a.command)) <= m
    <3>1. Len(parse_command(Joined(ws))) <= Len(ws)
      BY <2>1, JoinedLength
    <3> QED BY <2>5, <3>1
  <2>7. m <= TextOf(d)
    BY <2>4, <2>5 DEF TextOf
  <2>8. Len(parse_command(a.command)) \in Nat
    <3>1. Joined(ws) \in Seq(Items)
      BY <2>1, JoinedFacts
    <3>2. parse_command(a.command) \in Seq(Words)
      BY <3>1, ParseFacts
    <3> QED BY <3>2, LenProperties
  <2>9. Len(parse_command(a.command)) <= TextOf(d) /\ TextOf(d) \in Nat
    <3>1. PICK e \in Nat : e = Len(parse_command(a.command))
      BY <2>8
    <3>2. PICK t \in Nat : t = TextOf(d)
      BY RoomFacts
    <3>3. e <= m /\ m <= t
      BY <2>6, <2>7, <3>1, <3>2
    <3>4. e <= t
      BY <3>3
    <3> QED BY <3>1, <3>2, <3>4
  <2>10. /\ s \in Seq(A) /\ Len(s) = 1 /\ s[1] = a /\ stack \in Seq(A)
    BY <1>1, <2>1 DEF WordTypes
  <2> HIDE DEF s, a, A, ws
  <2>11. \A k \in 1 .. 1 + n : stack'[k] = IF k <= 1 THEN s[k] ELSE stack[k - 1]
    <3>1. \A k \in 1 .. Len(s) + Len(stack) :
            (s \o stack)[k] = IF k <= Len(s) THEN s[k] ELSE stack[k - Len(s)]
      BY <2>10, ConcatProperties
    <3> QED BY <2>1, <2>2, <2>10, <3>1
  <2>12. ASSUME NEW k \in 1 .. Len(stack')
         PROVE  Len(parse_command(stack'[k].command)) <= TextOf(b[Len(stack') - k])
    <3>1. Len(stack') = n + 1 /\ k \in 1 .. 1 + n
      BY <2>1, <2>2
    <3>2. CASE k = 1
      <4>1. stack'[k] = a /\ Len(stack') - k = n
        BY <2>10, <2>11, <3>1, <3>2
      <4> QED BY <2>4, <2>9, <4>1
    <3>3. CASE k # 1
      <4>1. /\ stack'[k] = stack[k - 1] /\ k - 1 \in 1 .. n
            /\ Len(stack') - k = n - (k - 1)
        BY <2>11, <3>1, <3>3
      <4> QED BY <1>1, <2>2, <4>1 DEF TextsFit
    <3> QED BY <3>2, <3>3
  <2> QED BY <1>3, <2>12 DEF RoomInv, RunawayIsSelfMade, TextsFit
<1> QED BY <1>1, <1>2, <1>3

LEMMA NextKeepsRoom ==
  ASSUME ShellInv, ShellInv', NEW b \in [0 .. MaxAliases -> Nat], Room(b), RoomInv(b), [Next]_vars
  PROVE  RoomInv(b)'
<1>0. ASSUME UNCHANGED stack, pc' \notin {"run", "scan", "decide", "runaway"}
      PROVE  RoomInv(b)'
  BY <1>0 DEF RoomInv, TextsFit, RunawayIsSelfMade
<1>1. CASE ReadLine
  <2>1. PICK line \in Lines : tokens' = parse_command(line)
    BY <1>1 DEF ReadLine
  <2>2. UNCHANGED stack /\ pc' \in {"prompt", "run"}
    BY <1>1 DEF ReadLine
  <2>3. Len(tokens') <= b[0]
    BY <2>1 DEF Room
  <2> QED BY <2>2, <2>3 DEF RoomInv, TextsFit, RunawayIsSelfMade
<1>2. CASE EndOfInput \/ Exit
  BY <1>0, <1>2 DEF EndOfInput, Exit, reading
<1>3. CASE Begin
  BY <1>3, BeginKeepsRoom
<1>4. CASE Translate
  BY <1>4, SkipKeepsRoom, ReplaceKeepsRoom, NextAliasKeepsRoom, EndKeepsRoom DEF Translate
<1>5. CASE DefineAlias
  BY <1>5, DefineKeepsRoom
<1>6. CASE Nothing \/ ChangeDirectory \/ ChangeSomewhere \/ ListAliases \/ StartPrograms
  BY <1>0, <1>6 DEF Nothing, ChangeDirectory, ChangeSomewhere, ListAliases, StartPrograms, reading
<1>7. CASE Launch
  BY <1>0, <1>7 DEF Launch, CreatePipe, ForkLeft, CloseWrite, ForkRight, CloseRead, WaitLeft,
     WaitRight, ForkOnly, WaitOnly, reading
<1>8. CASE Back
  BY <1>0, <1>8 DEF Back, Return
<1>9. CASE UNCHANGED <<pc, reading>>
  <2>1. UNCHANGED <<pc, stack, typed, tokens, pos, i>>
    BY <1>9 DEF reading
  <2>2. ToReplace' = ToReplace
    BY <2>1 DEF ToReplace
  <2>3. (PassFits(b)' <=> PassFits(b)) /\ (SelfMade' <=> SelfMade) /\ (TextsFit(b)' <=> TextsFit(b))
    BY <2>1, <2>2 DEF PassFits, SelfMade, TextsFit
  <2> QED BY <2>1, <2>2, <2>3 DEF RoomInv, RunawayIsSelfMade
<1>10. CASE UNCHANGED vars
  BY <1>9, <1>10 DEF vars
<1>11. ASSUME NEW c \in Child, ChildStep(c)
       PROVE  RoomInv(b)'
  <2>1. UNCHANGED <<pc, reading>>
    BY <1>11 DEF ChildStep, Redirect, CloseOther, ExecWorks, ExecFails, Finish, Write, Killed,
       Consume
  <2> QED BY <1>9, <2>1
<1> QED BY <1>1, <1>2, <1>3, <1>4, <1>5, <1>6, <1>7, <1>8, <1>10, <1>11
        DEF Next, Shell, User, Decide

\* However many aliases there are and whatever they stand for: if the bounds of
\* the model have room for every translation that ends, the only translations
\* that leave them are those of an alias that puts its own name behind its first
\* word, so that the index over the tokens meets it again.
THEOREM OnlySelfMadeRunsAway ==
  ASSUME RoomSuffices
  PROVE  Spec => []RunawayIsSelfMade
<1>1. PICK b \in [0 .. MaxAliases -> Nat] : Room(b)
  BY DEF RoomSuffices
<1>2. Init => RoomInv(b)
  <2> SUFFICES ASSUME Init PROVE RoomInv(b)
    OBVIOUS
  <2>1. Len(stack) = 0 /\ pc = "prompt"
    BY DEF Init
  <2> QED BY <2>1 DEF RoomInv, TextsFit, RunawayIsSelfMade
<1>3. ShellInv /\ ShellInv' /\ RoomInv(b) /\ [Next]_vars => RoomInv(b)'
  BY <1>1, NextKeepsRoom
<1>4. RoomInv(b) => RunawayIsSelfMade
  BY DEF RoomInv
<1> QED BY <1>2, <1>3, <1>4, ShellInvariant, PTL DEF Spec
=============================================================================
