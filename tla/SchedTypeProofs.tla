-------------------------- MODULE SchedTypeProofs --------------------------
(***************************************************************************)
(* What holds of the scheduler simulator on any script, well-formed or     *)
(* not, for any number of processes and any resources: type correctness,   *)
(* no process twice on the lists, and clean exits.                         *)
(***************************************************************************)
EXTENDS SchedProps, ListLemmas

\* NULL is not a process; what follows needs nothing else of Process.
LEMMA NullIsNoProcess == NULL \notin Process
BY SchedAssumption

\* The fields of a process block.
LEMMA ScriptTypes ==
  ASSUME TypeOK, NEW p \in Process
  PROVE  /\ script[p].start \in Nat
         /\ script[p].lifespan \in Nat
         /\ script[p].prio \in Nat
         /\ script[p].acquire \in Seq(ResourceSchedule)
BY SchedAssumption DEF TypeOK, Description

\* The fields of an entry of a list of uses.
LEMMA UseTypes ==
  ASSUME NEW s \in Seq(ResourceSchedule), NEW i \in DOMAIN s
  PROVE  /\ s[i] \in ResourceSchedule
         /\ s[i].resource_id \in Resource
         /\ s[i].at \in Nat
         /\ s[i].duration \in Nat
         /\ s[i] \in ToSet(s)
<1>1. s[i] \in ResourceSchedule /\ s[i] \in ToSet(s)
  BY Entry
<1> QED BY <1>1 DEF ResourceSchedule

LEMMA UseLists ==
  ASSUME TypeOK, NEW p \in Process
  PROVE  /\ to_acquire[p] \in Seq(ResourceSchedule)
         /\ holding[p] \in Seq(ResourceSchedule)
BY DEF TypeOK

\* Candidates is a list of processes, and current, when it can run again, is
\* one.
LEMMA CandidatesType ==
  ASSUME TypeOK
  PROVE  /\ Candidates \in Seq(Process)
         /\ Runnable => current \in Process
         /\ \A i \in DOMAIN Candidates : Candidates[i] \in Process
<1>1. Runnable => current \in Process
  BY DEF TypeOK, Runnable
<1>2. Candidates \in Seq(Process)
  BY <1>1, AppendFacts DEF TypeOK, Candidates
<1> QED BY <1>1, <1>2, Members, ElementOfSeq

-----------------------------------------------------------------------------
(* Type correctness *)

TypeInv == TypeOK /\ SomeoneRuns

LEMMA TypeInit == Init => TypeInv
<1> SUFFICES ASSUME Init PROVE TypeInv
  OBVIOUS
<1> USE DEF Init
<1>1. script \in [Process -> Description]
  BY SchedAssumption
<1>2. NrProcesses \in Nat
  BY SchedAssumption
<1>3. forkqueue \in Seq(Process)
  <2>1. forkqueue \in [1 .. NrProcesses -> Process]
    BY DEF Process
  <2> QED BY <1>2, <2>1, SeqDef
<1>4. \A S : <<>> \in Seq(S)
  BY EmptySeq
<1>5. prio \in [Process -> Nat] /\ to_acquire \in [Process -> Seq(ResourceSchedule)]
  BY <1>1 DEF Description
<1>6. /\ waitqueue \in [Resource -> Seq(Process)]
      /\ holding \in [Process -> Seq(ResourceSchedule)]
      /\ readyqueue \in Seq(Process)
  BY <1>4
<1> QED BY <1>3, <1>5, <1>6 DEF TypeInv, TypeOK, SomeoneRuns

LEMMA TypeStep == TypeInv /\ [Next]_vars => TypeInv'
<1> SUFFICES ASSUME TypeInv, [Next]_vars PROVE TypeInv'
  OBVIOUS
<1> USE DEF TypeInv
<1>1. TypeOK /\ current \in Process \cup {NULL}
  BY DEF TypeOK
<1>2. CASE Fork
  <2>1. PICK i \in Least(DueForks) :
          /\ forkqueue' = RemoveAt(forkqueue, i)
          /\ readyqueue' = Append(readyqueue, forkqueue[i])
          /\ status' = [status EXCEPT ![forkqueue[i]] = "READY"]
    BY <1>2 DEF Fork
  <2>2. i \in 1 .. Len(forkqueue) /\ forkqueue[i] \in Process
    <3>1. i \in DOMAIN forkqueue /\ forkqueue \in Seq(Process)
      BY DEF TypeOK, Least, DueForks
    <3> QED BY <3>1, Entry
  <2>3. forkqueue' \in Seq(Process) /\ readyqueue' \in Seq(Process)
    BY <1>1, <2>1, <2>2, RemoveAtFacts, AppendFacts DEF TypeOK
  <2> QED BY <1>2, <2>1, <2>2, <2>3 DEF Fork, TypeOK, SomeoneRuns
<1>3. CASE ForkDone \/ ExitAborts \/ Terminating
  BY <1>3 DEF ForkDone, ExitAborts, Abort, Terminating, vars, queues, procs,
              TypeOK, SomeoneRuns
<1>4. CASE ScheduleKeep
  <2>1. Decommissioned \in [Process -> {"READY", "RUNNING", "BLOCKED", "EXIT"}]
    BY <1>1 DEF Decommissioned, TypeOK
  <2> QED BY <1>4, <2>1 DEF ScheduleKeep, Runnable, queues, TypeOK, SomeoneRuns
<1>5. CASE SchedulePick
  <2>1. PICK i \in First(Candidates, SchedKey) :
          /\ readyqueue' = RemoveAt(Candidates, i)
          /\ current' = Candidates[i]
          /\ prio' = IF sched.schedule = "pa" THEN Aged(Candidates[i]) ELSE prio
          /\ status' = [Decommissioned EXCEPT ![Candidates[i]] = "RUNNING"]
          /\ pc' \in {"aborted", "acquire"}
    BY <1>5 DEF SchedulePick
  <2>2. i \in 1 .. Len(Candidates) /\ Candidates[i] \in Process
    BY CandidatesType, Members DEF First
  <2>3. readyqueue' \in Seq(Process)
    BY <2>1, <2>2, CandidatesType, RemoveAtFacts
  <2>4. Decommissioned \in [Process -> {"READY", "RUNNING", "BLOCKED", "EXIT"}]
    BY <1>1 DEF Decommissioned, TypeOK
  <2>5. prio' \in [Process -> Nat]
    <3>1. Aged(Candidates[i]) \in [Process -> Nat]
      BY ScriptTypes DEF Aged, TypeOK
    <3> QED BY <2>1, <3>1 DEF TypeOK
  <2> QED BY <1>5, <2>1, <2>2, <2>3, <2>4, <2>5, NullIsNoProcess
          DEF SchedulePick, TypeOK, SomeoneRuns
<1>6. CASE ScheduleNone
  <2>1. Decommissioned \in [Process -> {"READY", "RUNNING", "BLOCKED", "EXIT"}]
    BY <1>1 DEF Decommissioned, TypeOK
  <2>2. ticks' \in Nat /\ pc' \in {"done", "fork"}
    BY <1>6 DEF ScheduleNone, NextTick, TypeOK
  <2>3. UNCHANGED <<policy, script, queues, owner, age, prio, to_acquire, holding>>
        /\ current' = NULL /\ status' = Decommissioned
    BY <1>6 DEF ScheduleNone
  <2> QED BY <2>1, <2>2, <2>3 DEF queues, TypeOK, SomeoneRuns
<1>7. CASE Grant
  <2>1. current \in Process
    BY <1>7 DEF Grant, SomeoneRuns, TypeOK
  <2>2. PICK i \in Least(Requests(current)) :
          /\ owner' = [owner EXCEPT ![to_acquire[current][i].resource_id] = current]
          /\ to_acquire' = [to_acquire EXCEPT ![current] =
                              RemoveAt(to_acquire[current], i)]
          /\ holding' = [holding EXCEPT ![current] =
                           Append(holding[current], to_acquire[current][i])]
    BY <1>7 DEF Grant
  <2>3. i \in 1 .. Len(to_acquire[current])
    BY <2>1, Members DEF Least, Requests, TypeOK
  <2>4. to_acquire[current][i] \in ResourceSchedule
    BY <2>1, <2>3, ElementOfSeq DEF TypeOK
  <2>5. /\ RemoveAt(to_acquire[current], i) \in Seq(ResourceSchedule)
        /\ Append(holding[current], to_acquire[current][i]) \in Seq(ResourceSchedule)
    BY <2>1, <2>3, <2>4, RemoveAtFacts, AppendFacts DEF TypeOK
  <2>6. prio' \in [Process -> Nat]
    BY <1>7, SchedAssumption DEF Grant, Boosted, TypeOK
  <2> QED BY <1>7, <2>1, <2>2, <2>4, <2>5, <2>6
          DEF Grant, queues, TypeOK, SomeoneRuns, ResourceSchedule
<1>8. CASE Block
  <2>1. current \in Process
    BY <1>8 DEF Block, SomeoneRuns, TypeOK
  <2>2. PICK r \in Resource :
          /\ waitqueue' = [waitqueue EXCEPT ![r] = Append(waitqueue[r], current)]
          /\ prio' = Inherited(r)
    BY <1>8 DEF Block
  <2>3. Append(waitqueue[r], current) \in Seq(Process)
    BY <2>1, AppendFacts DEF TypeOK
  <2>4. prio' \in [Process -> Nat]
    BY <2>1, <2>2 DEF TypeOK, Inherited
  <2>5. /\ status' = [status EXCEPT ![current] = "BLOCKED"]
        /\ ticks' = ticks + 1 /\ pc' = "fork"
        /\ UNCHANGED <<policy, script, forkqueue, readyqueue, owner, current, age,
                       to_acquire, holding>>
    BY <1>8 DEF Block, NextTick
  <2> QED BY <2>2, <2>3, <2>4, <2>5 DEF TypeOK, SomeoneRuns
<1>9. CASE Run
  <2>1. current \in Process
    BY <1>9 DEF Run, SomeoneRuns, TypeOK
  <2> DEFINE aged == [i \in DOMAIN holding[current] |-> Decremented(holding[current][i])]
  <2>2. aged \in Seq(ResourceSchedule)
    <3>1. /\ DOMAIN holding[current] = 1 .. Len(holding[current])
          /\ Len(holding[current]) \in Nat
      BY <2>1, Members, LenProperties DEF TypeOK
    <3>2. ASSUME NEW i \in 1 .. Len(holding[current])
          PROVE  Decremented(holding[current][i]) \in ResourceSchedule
      <4>1. holding[current][i] \in ResourceSchedule
        BY <2>1, ElementOfSeq DEF TypeOK
      <4> QED BY <4>1, SchedAssumption DEF Decremented, ResourceSchedule
    <3>3. aged \in [1 .. Len(holding[current]) -> ResourceSchedule]
      BY <3>1, <3>2
    <3> QED BY <3>1, <3>3, SeqDef
  <2> HIDE DEF aged
  <2>3. holding' = [holding EXCEPT ![current] = aged]
    BY <1>9 DEF Run, aged
  <2>4. /\ age' \in [Process -> Nat]
        /\ pc' = "release"
        /\ UNCHANGED <<policy, script, ticks, queues, owner, current, status,
                       prio, to_acquire>>
    BY <1>9, <2>1 DEF Run, TypeOK
  <2> QED BY <2>1, <2>2, <2>3, <2>4, NullIsNoProcess DEF queues, TypeOK, SomeoneRuns
<1>10. CASE Release
  <2>1. current \in Process
    BY <1>10 DEF Release, SomeoneRuns, TypeOK
  <2>2. PICK i \in Least(Expired) :
          /\ pc' = IF ReleaseFails(holding[current][i].resource_id)
                   THEN "aborted" ELSE pc
          /\ owner' = [owner EXCEPT ![holding[current][i].resource_id] = NULL]
          /\ Wake(holding[current][i].resource_id)
          /\ holding' = [holding EXCEPT ![current] = RemoveAt(holding[current], i)]
    BY <1>10 DEF Release
  <2>3. i \in 1 .. Len(holding[current])
    BY <2>1, Members DEF Least, Expired, TypeOK
  <2> DEFINE r == holding[current][i].resource_id
  <2>4. r \in Resource
    <3>1. holding[current][i] \in ResourceSchedule
      BY <2>1, <2>3, ElementOfSeq DEF TypeOK
    <3> QED BY <3>1 DEF ResourceSchedule
  <2>5. RemoveAt(holding[current], i) \in Seq(ResourceSchedule)
    BY <2>1, <2>3, RemoveAtFacts DEF TypeOK
  <2>6. /\ waitqueue' \in [Resource -> Seq(Process)]
        /\ readyqueue' \in Seq(Process)
        /\ status' \in [Process -> {"READY", "RUNNING", "BLOCKED", "EXIT"}]
    <3>1. CASE waitqueue[r] = <<>>
      BY <2>2, <3>1 DEF Wake, HasWaiters, TypeOK
    <3>2. CASE waitqueue[r] # <<>>
      <4>1. PICK k \in First(waitqueue[r], WakeKey) :
              /\ waitqueue' = [waitqueue EXCEPT ![r] = RemoveAt(waitqueue[r], k)]
              /\ readyqueue' = Append(readyqueue, waitqueue[r][k])
              /\ status' = [status EXCEPT ![waitqueue[r][k]] = "READY"]
        BY <2>2, <3>2 DEF Wake, HasWaiters
      <4>2. k \in 1 .. Len(waitqueue[r]) /\ waitqueue[r][k] \in Process
        <5>1. waitqueue[r] \in Seq(Process) /\ k \in DOMAIN waitqueue[r]
          BY <2>4 DEF First, TypeOK
        <5> QED BY <5>1, Entry
      <4>3. /\ RemoveAt(waitqueue[r], k) \in Seq(Process)
            /\ Append(readyqueue, waitqueue[r][k]) \in Seq(Process)
        BY <2>4, <4>2, RemoveAtFacts, AppendFacts DEF TypeOK
      <4> QED BY <4>1, <4>2, <4>3 DEF TypeOK
    <3> QED BY <3>1, <3>2
  <2>7. prio' \in [Process -> Nat]
    BY <1>10, <2>1, ScriptTypes DEF Release, Restored, TypeOK
  <2> QED BY <1>10, <2>1, <2>2, <2>4, <2>5, <2>6, <2>7
          DEF Release, queues, TypeOK, SomeoneRuns
<1>11. CASE ReleaseDone
  BY <1>11 DEF ReleaseDone, NextTick, queues, procs, TypeOK, SomeoneRuns
<1>12. CASE UNCHANGED vars
  BY <1>12 DEF vars, queues, procs, TypeOK, SomeoneRuns
<1> QED BY <1>2, <1>3, <1>4, <1>5, <1>6, <1>7, <1>8, <1>9, <1>10, <1>11, <1>12
        DEF Next

\* Every variable keeps its type: lists hold processes, resources are owned by
\* processes or by nobody, and so on.
THEOREM TypeCorrect == Spec => []TypeOK
<1>1. Init => TypeInv
  BY TypeInit
<1>2. TypeInv /\ [Next]_vars => TypeInv'
  BY TypeStep
<1>3. TypeInv => TypeOK
  BY DEF TypeInv
<1> QED BY <1>1, <1>2, <1>3, PTL DEF Spec
-----------------------------------------------------------------------------
(* No process is twice on the lists *)

\* What a process asks for depends on its age and on what is left to acquire.
LEMMA RequestingKept ==
  ASSUME NEW p \in Process, to_acquire'[p] = to_acquire[p], age'[p] = age[p]
  PROVE  \A r : Requesting(p, r)' <=> Requesting(p, r)
BY DEF Requesting, Least, Requests

\* A process asks for one resource at a time.
LEMMA OneRequest ==
  ASSUME TypeOK, NEW p \in Process, NEW r, NEW t,
         Requesting(p, r), Requesting(p, t)
  PROVE  r = t
<1>1. PICK i \in Least(Requests(p)) : to_acquire[p][i].resource_id = r
  BY DEF Requesting
<1>2. PICK j \in Least(Requests(p)) : to_acquire[p][j].resource_id = t
  BY DEF Requesting
<1>3. \A k \in Requests(p) : k \in Nat
  BY Entry DEF TypeOK, Requests
<1>4. i \in Nat /\ j \in Nat /\ i <= j /\ j <= i
  BY <1>1, <1>2, <1>3 DEF Least
<1> QED BY <1>1, <1>2, <1>4

LEMMA AnyScriptInit == Init => AnyScript
<1> SUFFICES ASSUME Init PROVE ListedOnce /\ Accounted
  BY DEF AnyScript
<1>1. forkqueue = [i \in Process |-> i]
  BY DEF Init
<1>2. IsInjective(forkqueue) /\ ToSet(forkqueue) = Process
  BY <1>1 DEF IsInjective, ToSet
<1>3. ToSet(<<>>) = {} /\ IsInjective(<<>>)
  BY DEF ToSet, IsInjective
<1>4. readyqueue = <<>> /\ \A r \in Resource : waitqueue[r] = <<>>
  BY DEF Init
<1>5. current = NULL /\ NULL \notin Process /\ pc = "fork"
  BY NullIsNoProcess DEF Init
<1>6. ListedOnce
  BY <1>2, <1>3, <1>4, <1>5 DEF ListedOnce
<1>7. \A p \in Process : status[p] = "READY" /\ \A r \in Resource : owner[r] # p
  BY NullIsNoProcess DEF Init
<1> QED BY <1>3, <1>4, <1>6, <1>7 DEF Accounted

LEMMA ForkAnyScript ==
  ASSUME TypeInv, ListedOnce, Accounted, Fork
  PROVE  (ListedOnce /\ Accounted)'
<1>1. PICK i \in Least(DueForks) :
        /\ forkqueue' = RemoveAt(forkqueue, i)
        /\ readyqueue' = Append(readyqueue, forkqueue[i])
        /\ status' = [status EXCEPT ![forkqueue[i]] = "READY"]
  BY DEF Fork
<1> DEFINE e == forkqueue[i]
<1>2. /\ forkqueue \in Seq(Process) /\ readyqueue \in Seq(Process)
      /\ i \in DOMAIN forkqueue /\ i \in 1 .. Len(forkqueue)
      /\ e \in Process /\ e \in ToSet(forkqueue)
  BY Entry DEF TypeInv, TypeOK, Least, DueForks
<1>3. e \notin ToSet(readyqueue) /\ e # current
  BY <1>2 DEF ListedOnce
<1>4. IsInjective(forkqueue') /\ ToSet(forkqueue') = ToSet(forkqueue) \ {e}
  BY <1>1, <1>2, RemoveAtInjective DEF ListedOnce
<1>5. IsInjective(readyqueue') /\ ToSet(readyqueue') = ToSet(readyqueue) \cup {e}
  BY <1>1, <1>2, <1>3, AppendFacts DEF ListedOnce
<1>6. /\ UNCHANGED <<waitqueue, owner, current, age, to_acquire, holding>>
      /\ pc = "fork" /\ pc' = pc
  BY DEF Fork
<1>7. status'[e] = "READY" /\ \A p : p # e => status'[p] = status[p]
  BY <1>1, <1>2 DEF TypeInv, TypeOK
<1> HIDE DEF e
<1>8. ListedOnce'
  <2>1. /\ ToSet(forkqueue') \cap ToSet(readyqueue') = {}
        /\ current' \notin ToSet(forkqueue') \cup ToSet(readyqueue')
    BY <1>3, <1>4, <1>5, <1>6 DEF ListedOnce
  <2>2. \A r \in Resource :
          /\ ToSet(waitqueue'[r]) \cap (ToSet(forkqueue') \cup ToSet(readyqueue')) = {}
          /\ current' \in ToSet(waitqueue'[r]) => status'[current'] = "BLOCKED"
    BY <1>2, <1>3, <1>4, <1>5, <1>6, <1>7 DEF ListedOnce
  <2> QED BY <1>4, <1>5, <1>6, <2>1, <2>2 DEF ListedOnce
<1>9. \A p \in Process : OnList(p, readyqueue)' => OnList(p, readyqueue) \/ p = e
  BY <1>4, <1>5, <1>6 DEF OnList
<1>10. \A p \in Process : \A r : Requesting(p, r)' <=> Requesting(p, r)
  BY <1>6, RequestingKept
<1>11. \A r \in Resource : ToSet(waitqueue[r]) \subseteq Process
  BY Members DEF TypeInv, TypeOK
<1> QED BY <1>6, <1>7, <1>8, <1>9, <1>10, <1>11 DEF Accounted

\* The process that schedule() has found to be at the end of its life passes
\* the assertions of __exit_process(), and so owns nothing.
LEMMA ExitOwnsNothing ==
  ASSUME TypeInv, Accounted, ~ExitFails, current # NULL,
         age[current] = script[current].lifespan
  PROVE  ~OnList(current, readyqueue) /\ \A r \in Resource : owner[r] # current
<1>1. ~OnList(current, readyqueue) /\ holding[current] = <<>> /\ current \in Process
  BY DEF ExitFails, TypeInv, TypeOK
<1>2. DOMAIN holding[current] = {}
  BY <1>1
<1> QED BY <1>1, <1>2 DEF Accounted

\* What prev becomes: it is gone only if it was or if its life is over.
LEMMA DecommissionedAny ==
  ASSUME TypeInv
  PROVE  /\ Decommissioned \in [Process -> {"READY", "RUNNING", "BLOCKED", "EXIT"}]
         /\ \A p \in Process \ {current} : Decommissioned[p] = status[p]
         /\ \A p \in Process :
              Decommissioned[p] = "EXIT" =>
                status[p] = "EXIT" \/ (p = current /\ age[p] = script[p].lifespan)
BY DEF Decommissioned, TypeInv, TypeOK

LEMMA ScheduleKeepAnyScript ==
  ASSUME TypeInv, ListedOnce, Accounted, ScheduleKeep
  PROVE  (ListedOnce /\ Accounted)'
<1>1. /\ current \in Process /\ age[current] < script[current].lifespan
      /\ status' = [Decommissioned EXCEPT ![current] = "RUNNING"]
      /\ UNCHANGED <<queues, owner, current, age, to_acquire, holding>>
      /\ status[current] # "BLOCKED"
  BY DEF ScheduleKeep, Runnable, TypeInv, TypeOK
<1>2. status'[current] = "RUNNING" /\ \A p \in Process \ {current} : status'[p] = status[p]
  BY <1>1, DecommissionedAny
<1>3. ListedOnce'
  BY <1>1, <1>2 DEF ListedOnce, queues
<1>4. \A p \in Process : \A r : Requesting(p, r)' <=> Requesting(p, r)
  BY <1>1, RequestingKept
<1>5. \A p \in Process : OnList(p, readyqueue)' => OnList(p, readyqueue)
  BY <1>1 DEF OnList, queues
<1>6. \A r \in Resource : ToSet(waitqueue[r]) \subseteq Process
  BY Members DEF TypeInv, TypeOK
<1> QED BY <1>1, <1>2, <1>3, <1>4, <1>5, <1>6 DEF Accounted, queues

\* The candidates are the ready queue and the current process if it can go on,
\* and the chosen one leaves them.
LEMMA PickEffect ==
  ASSUME TypeInv, ListedOnce, NEW i \in First(Candidates, SchedKey)
  PROVE  /\ Candidates[i] \in Process /\ i \in DOMAIN Candidates
         /\ IsInjective(Candidates)
         /\ IsInjective(RemoveAt(Candidates, i))
         /\ ToSet(RemoveAt(Candidates, i)) = ToSet(Candidates) \ {Candidates[i]}
         /\ Candidates[i] \in ToSet(Candidates)
         /\ ToSet(readyqueue) \subseteq ToSet(Candidates)
         /\ \A p \in ToSet(Candidates) :
              /\ p \in ToSet(readyqueue) \/ (p = current /\ Runnable)
              /\ p \notin ToSet(forkqueue)
              /\ \A r \in Resource : p \notin ToSet(waitqueue[r])
<1>1. /\ Candidates \in Seq(Process) /\ i \in DOMAIN Candidates
      /\ i \in 1 .. Len(Candidates)
      /\ Candidates[i] \in Process /\ Candidates[i] \in ToSet(Candidates)
  BY CandidatesType, Entry DEF First, TypeInv
<1>2. /\ IsInjective(Candidates)
      /\ ToSet(readyqueue) \subseteq ToSet(Candidates)
      /\ \A p \in ToSet(Candidates) : p \in ToSet(readyqueue) \/ (p = current /\ Runnable)
  <2>1. CASE Preemptive /\ Runnable
    <3>1. Candidates = Append(readyqueue, current) /\ current \in Process
      BY <2>1, CandidatesType DEF Candidates, TypeInv
    <3>2. readyqueue \in Seq(Process) /\ IsInjective(readyqueue)
          /\ current \notin ToSet(readyqueue)
      BY DEF ListedOnce, TypeInv, TypeOK
    <3> QED BY <2>1, <3>1, <3>2, AppendFacts
  <2>2. CASE ~(Preemptive /\ Runnable)
    BY <2>2 DEF Candidates, ListedOnce
  <2> QED BY <2>1, <2>2
<1>3. IsInjective(RemoveAt(Candidates, i))
      /\ ToSet(RemoveAt(Candidates, i)) = ToSet(Candidates) \ {Candidates[i]}
  BY <1>1, <1>2, RemoveAtInjective
<1>4. ASSUME NEW p \in ToSet(Candidates)
      PROVE  /\ p \notin ToSet(forkqueue)
             /\ \A r \in Resource : p \notin ToSet(waitqueue[r])
  BY <1>2 DEF ListedOnce, Runnable
<1> QED BY <1>1, <1>2, <1>3, <1>4

LEMMA SchedulePickAnyScript ==
  ASSUME TypeInv, ListedOnce, Accounted, SchedulePick
  PROVE  (ListedOnce /\ Accounted)'
<1>1. PICK i \in First(Candidates, SchedKey) :
        /\ readyqueue' = RemoveAt(Candidates, i)
        /\ current' = Candidates[i]
        /\ status' = [Decommissioned EXCEPT ![Candidates[i]] = "RUNNING"]
  BY DEF SchedulePick
<1> DEFINE next == Candidates[i]
<1>2. /\ next \in Process /\ next \in ToSet(Candidates)
      /\ IsInjective(readyqueue') /\ ToSet(readyqueue') = ToSet(Candidates) \ {next}
      /\ \A p \in ToSet(Candidates) :
           /\ p \in ToSet(readyqueue) \/ (p = current /\ Runnable)
           /\ p \notin ToSet(forkqueue)
           /\ \A r \in Resource : p \notin ToSet(waitqueue[r])
  BY <1>1, PickEffect
<1>3. /\ UNCHANGED <<forkqueue, waitqueue, owner, age, to_acquire, holding>>
      /\ ~ExitFails /\ current' = next
  BY <1>1 DEF SchedulePick
<1>4. /\ status'[next] = "RUNNING"
      /\ \A p \in Process \ {next} : status'[p] = Decommissioned[p]
  BY <1>1, <1>2, DecommissionedAny
<1> HIDE DEF next
<1>5. ListedOnce'
  <2>1. /\ ToSet(forkqueue') \cap ToSet(readyqueue') = {}
        /\ current' \notin ToSet(forkqueue') \cup ToSet(readyqueue')
    BY <1>2, <1>3
  <2>2. \A r \in Resource :
          /\ ToSet(waitqueue'[r]) \cap (ToSet(forkqueue') \cup ToSet(readyqueue')) = {}
          /\ current' \notin ToSet(waitqueue'[r])
    BY <1>2, <1>3 DEF ListedOnce
  <2> QED BY <1>2, <1>3, <1>4, <2>1, <2>2 DEF ListedOnce
<1>6. \A p \in Process : \A r : Requesting(p, r)' <=> Requesting(p, r)
  BY <1>3, RequestingKept
<1>7. \A r \in Resource : ToSet(waitqueue[r]) \subseteq Process
  BY Members DEF TypeInv, TypeOK
<1>8. ASSUME NEW p \in Process, status'[p] = "EXIT"
      PROVE  p # current' /\ ~OnList(p, readyqueue)' /\ \A r \in Resource : owner[r] # p
  <2>1. p # next /\ Decommissioned[p] = "EXIT"
    BY <1>4, <1>8
  <2>2. CASE status[p] = "EXIT"
    <3>1. p # current /\ ~OnList(p, readyqueue) /\ \A r \in Resource : owner[r] # p
      BY <2>2 DEF Accounted
    <3>2. p \notin ToSet(readyqueue')
      BY <1>2, <3>1 DEF OnList
    <3> QED BY <1>3, <2>1, <3>1, <3>2 DEF OnList
  <2>3. CASE p = current /\ age[p] = script[p].lifespan
    <3>1. ~OnList(p, readyqueue) /\ \A r \in Resource : owner[r] # p
      BY <1>3, <2>3, ExitOwnsNothing, NullIsNoProcess
    <3>2. ~Runnable
      BY <2>3, ScriptTypes DEF Runnable, TypeInv, TypeOK
    <3>3. p \notin ToSet(readyqueue')
      BY <1>2, <3>1, <3>2 DEF OnList
    <3> QED BY <1>3, <2>1, <3>1, <3>3 DEF OnList
  <2> QED BY <2>1, <2>2, <2>3, DecommissionedAny
<1> QED BY <1>3, <1>5, <1>6, <1>7, <1>8 DEF Accounted

LEMMA ScheduleNoneAnyScript ==
  ASSUME TypeInv, ListedOnce, Accounted, ScheduleNone
  PROVE  (ListedOnce /\ Accounted)'
<1>1. /\ UNCHANGED <<queues, owner, age, to_acquire, holding>>
      /\ ~ExitFails /\ current' = NULL /\ status' = Decommissioned
      /\ pc' \in {"done", "fork"}
  BY DEF ScheduleNone, NextTick
<1>2. /\ \A r \in Resource : ToSet(waitqueue[r]) \subseteq Process
      /\ ToSet(forkqueue) \subseteq Process /\ ToSet(readyqueue) \subseteq Process
  BY Members DEF TypeInv, TypeOK
<1>3. ListedOnce'
  BY <1>1, <1>2, NullIsNoProcess DEF ListedOnce, queues
<1>4. \A p \in Process : \A r : Requesting(p, r)' <=> Requesting(p, r)
  BY <1>1, RequestingKept
<1>5. \A p \in Process : OnList(p, readyqueue)' => OnList(p, readyqueue)
  BY <1>1 DEF OnList, queues
<1>6. ASSUME NEW p \in Process, status'[p] = "EXIT"
      PROVE  ~OnList(p, readyqueue) /\ \A r \in Resource : owner[r] # p
  <2>1. CASE status[p] = "EXIT"
    BY <2>1 DEF Accounted
  <2>2. CASE p = current /\ age[p] = script[p].lifespan
    BY <1>1, <2>2, ExitOwnsNothing, NullIsNoProcess
  <2> QED BY <1>1, <1>6, <2>1, <2>2, DecommissionedAny
<1> QED BY <1>1, <1>2, <1>3, <1>4, <1>5, <1>6, NullIsNoProcess DEF Accounted, queues

\* acquire() hands the resource to the running process, on the list of what it
\* holds.
LEMMA GrantEffect ==
  ASSUME TypeInv, Grant
  PROVE  \E i \in DOMAIN to_acquire[current] :
           LET rs == to_acquire[current][i] IN
           /\ i \in Least(Requests(current))
           /\ rs \in ResourceSchedule /\ rs.resource_id \in Resource
           /\ rs.at = age[current] /\ Requesting(current, rs.resource_id)
           /\ owner[rs.resource_id] = NULL
           /\ owner'[rs.resource_id] = current
           /\ \A r \in Resource \ {rs.resource_id} : owner'[r] = owner[r]
           /\ holding'[current] = Append(holding[current], rs)
           /\ \A p \in Process \ {current} :
                to_acquire'[p] = to_acquire[p] /\ holding'[p] = holding[p]
<1>1. PICK i \in Least(Requests(current)) :
        /\ Free(to_acquire[current][i].resource_id)
        /\ owner' = [owner EXCEPT ![to_acquire[current][i].resource_id] = current]
        /\ to_acquire' = [to_acquire EXCEPT ![current] =
                            RemoveAt(to_acquire[current], i)]
        /\ holding' = [holding EXCEPT ![current] =
                         Append(holding[current], to_acquire[current][i])]
  BY DEF Grant
<1>2. current \in Process
  BY DEF Grant, TypeInv, TypeOK, SomeoneRuns
<1>3. /\ i \in DOMAIN to_acquire[current]
      /\ to_acquire[current][i].at = age[current]
      /\ to_acquire[current][i] \in ResourceSchedule
      /\ to_acquire[current][i].resource_id \in Resource
  BY <1>2, UseLists, UseTypes DEF TypeInv, Least, Requests
<1>4. Requesting(current, to_acquire[current][i].resource_id)
  BY DEF Requesting
<1> QED BY <1>1, <1>2, <1>3, <1>4 DEF Free, TypeInv, TypeOK

LEMMA GrantAnyScript ==
  ASSUME TypeInv, ListedOnce, Accounted, Grant
  PROVE  (ListedOnce /\ Accounted)'
<1> DEFINE c == current
<1>1. /\ UNCHANGED <<queues, current, status, age, pc>> /\ pc = "acquire"
      /\ c \in Process /\ status[c] = "RUNNING"
  BY DEF Grant, TypeInv, TypeOK, SomeoneRuns, ListedOnce
<1>2. PICK rs \in ResourceSchedule :
        /\ rs.resource_id \in Resource
        /\ owner'[rs.resource_id] = c
        /\ \A r \in Resource \ {rs.resource_id} : owner'[r] = owner[r]
        /\ holding'[c] = Append(holding[c], rs)
        /\ \A p \in Process \ {c} :
             to_acquire'[p] = to_acquire[p] /\ holding'[p] = holding[p]
  BY GrantEffect
<1>3. ListedOnce'
  BY <1>1 DEF ListedOnce, queues
<1>4. ASSUME NEW r \in Resource, NEW p \in ToSet(waitqueue[r])
      PROVE  Requesting(p, r)'
  <2>1. p \in Process /\ p # c
    BY <1>1, Members DEF ListedOnce, TypeInv, TypeOK
  <2> QED BY <1>1, <1>2, <2>1, RequestingKept DEF Accounted
<1>5. ASSUME NEW r \in Resource, NEW p \in Process, owner'[r] = p
      PROVE  \E i \in DOMAIN holding'[p] : holding'[p][i].resource_id = r
  <2>1. CASE p # c
    BY <1>2, <1>5, <2>1 DEF Accounted
  <2>2. CASE p = c
    <3>1. holding[c] \in Seq(ResourceSchedule)
      BY <1>1 DEF TypeInv, TypeOK
    <3>2. CASE r = rs.resource_id
      BY <1>2, <2>2, <3>1, <3>2, AppendEntries
    <3>3. CASE r # rs.resource_id
      <4>1. PICK i \in DOMAIN holding[c] : holding[c][i].resource_id = r
        BY <1>1, <1>2, <1>5, <2>2, <3>3 DEF Accounted
      <4>2. i \in DOMAIN holding'[c] /\ holding'[c][i] = holding[c][i]
        BY <1>2, <3>1, <4>1, AppendEntries
      <4> QED BY <2>2, <4>1, <4>2
    <3> QED BY <3>2, <3>3
  <2> QED BY <2>1, <2>2
<1>6. ASSUME NEW p \in Process, status[p] = "EXIT"
      PROVE  p # c /\ ~OnList(p, readyqueue)' /\ \A r \in Resource : owner'[r] # p
  <2>1. p # c /\ ~OnList(p, readyqueue) /\ \A r \in Resource : owner[r] # p
    BY <1>6 DEF Accounted
  <2> QED BY <1>1, <1>2, <2>1 DEF OnList, queues
<1> QED BY <1>1, <1>3, <1>4, <1>5, <1>6 DEF Accounted, queues

\* A process that does not get what it asks for goes to sleep on it.
LEMMA BlockEffect ==
  ASSUME TypeInv, Block
  PROVE  \E r \in Resource :
           /\ Requesting(current, r) /\ owner[r] # NULL /\ prio' = Inherited(r)
           /\ waitqueue'[r] = Append(waitqueue[r], current)
           /\ \A t \in Resource \ {r} : waitqueue'[t] = waitqueue[t]
           /\ ToSet(waitqueue'[r]) = ToSet(waitqueue[r]) \cup {current}
           /\ IsInjective(waitqueue[r]) /\ current \notin ToSet(waitqueue[r])
                => IsInjective(waitqueue'[r])
<1>1. PICK r \in Resource :
        /\ Requesting(current, r) /\ ~Free(r) /\ prio' = Inherited(r)
        /\ waitqueue' = [waitqueue EXCEPT ![r] = Append(waitqueue[r], current)]
  BY DEF Block
<1>2. waitqueue[r] \in Seq(Process) /\ current \in Process
  BY DEF Block, TypeInv, TypeOK, SomeoneRuns
<1>3. /\ waitqueue'[r] = Append(waitqueue[r], current)
      /\ \A t \in Resource \ {r} : waitqueue'[t] = waitqueue[t]
  BY <1>1 DEF TypeInv, TypeOK
<1>4. /\ ToSet(waitqueue'[r]) = ToSet(waitqueue[r]) \cup {current}
      /\ IsInjective(waitqueue[r]) /\ current \notin ToSet(waitqueue[r])
           => IsInjective(waitqueue'[r])
  BY <1>2, <1>3, AppendFacts
<1> QED BY <1>1, <1>3, <1>4 DEF Free

LEMMA BlockAnyScript ==
  ASSUME TypeInv, ListedOnce, Accounted, Block
  PROVE  (ListedOnce /\ Accounted)'
<1> DEFINE c == current
<1>1. /\ UNCHANGED <<forkqueue, readyqueue, owner, current, age, to_acquire, holding>>
      /\ pc = "acquire" /\ pc' = "fork"
      /\ c \in Process /\ status[c] = "RUNNING"
  BY DEF Block, NextTick, TypeInv, TypeOK, SomeoneRuns, ListedOnce
<1>2. status'[c] = "BLOCKED" /\ \A p \in Process \ {c} : status'[p] = status[p]
  BY <1>1 DEF Block, TypeInv, TypeOK
<1>3. \A r \in Resource : c \notin ToSet(waitqueue[r])
  BY <1>1 DEF ListedOnce
<1>4. PICK r \in Resource :
        /\ Requesting(c, r)
        /\ \A t \in Resource \ {r} : waitqueue'[t] = waitqueue[t]
        /\ ToSet(waitqueue'[r]) = ToSet(waitqueue[r]) \cup {c}
        /\ IsInjective(waitqueue[r]) /\ c \notin ToSet(waitqueue[r])
             => IsInjective(waitqueue'[r])
  BY BlockEffect
<1>5. ListedOnce'
  BY <1>1, <1>2, <1>3, <1>4 DEF ListedOnce
<1>6. \A p \in Process : \A t : Requesting(p, t)' <=> Requesting(p, t)
  BY <1>1, RequestingKept
<1>7. \A t \in Resource : ToSet(waitqueue[t]) \subseteq Process
  BY Members DEF TypeInv, TypeOK
<1>8. \A t \in Resource : \A p \in ToSet(waitqueue'[t]) : Requesting(p, t)'
  BY <1>1, <1>4, <1>6, <1>7 DEF Accounted
<1>9. ASSUME NEW p \in Process, status'[p] = "EXIT"
      PROVE  p # c /\ ~OnList(p, readyqueue)' /\ \A t \in Resource : owner[t] # p
  <2>1. p # c /\ status[p] = "EXIT"
    BY <1>2, <1>9
  <2>2. ~OnList(p, readyqueue) /\ \A t \in Resource : owner[t] # p
    BY <2>1 DEF Accounted
  <2> QED BY <1>1, <1>4, <2>1, <2>2 DEF OnList
<1> QED BY <1>1, <1>5, <1>8, <1>9 DEF Accounted

LEMMA RunAnyScript ==
  ASSUME TypeInv, ListedOnce, Accounted, Run
  PROVE  (ListedOnce /\ Accounted)'
<1> DEFINE c == current
<1>1. /\ UNCHANGED <<queues, owner, current, status, to_acquire>>
      /\ pc = "acquire" /\ pc' = "release"
      /\ c \in Process /\ status[c] = "RUNNING"
  BY DEF Run, TypeInv, TypeOK, SomeoneRuns, ListedOnce
<1>2. /\ \A p \in Process \ {c} : age'[p] = age[p] /\ holding'[p] = holding[p]
      /\ DOMAIN holding'[c] = DOMAIN holding[c]
      /\ \A i \in DOMAIN holding[c] : holding'[c][i] = Decremented(holding[c][i])
  BY <1>1 DEF Run, TypeInv, TypeOK
<1>3. \A i \in DOMAIN holding[c] : holding'[c][i].resource_id = holding[c][i].resource_id
  <2>1. \A i \in DOMAIN holding[c] : holding[c][i] \in ResourceSchedule
    BY <1>1, UseLists, UseTypes DEF TypeInv
  <2> QED BY <1>2, <2>1 DEF Decremented, ResourceSchedule
<1>4. ListedOnce'
  BY <1>1 DEF ListedOnce, queues
<1>5. ASSUME NEW r \in Resource, NEW p \in ToSet(waitqueue[r])
      PROVE  Requesting(p, r)'
  <2>1. p \in Process /\ p # c
    BY <1>1, Members DEF ListedOnce, TypeInv, TypeOK
  <2> QED BY <1>1, <1>2, <2>1, RequestingKept DEF Accounted
<1>6. \A r \in Resource, p \in Process :
        owner'[r] = p => \E i \in DOMAIN holding'[p] : holding'[p][i].resource_id = r
  BY <1>1, <1>2, <1>3 DEF Accounted
<1>7. \A p \in Process : OnList(p, readyqueue)' => OnList(p, readyqueue)
  BY <1>1 DEF OnList, queues
<1> QED BY <1>1, <1>4, <1>5, <1>6, <1>7 DEF Accounted, queues

\* The least key is the highest priority.
LEMMA PriosAsKeys ==
  ASSUME TypeOK
  PROVE  /\ \A p \in Process : BestPrio[p] \in Int
         /\ \A p, q \in Process : BestPrio[p] <= BestPrio[q] <=> prio[q] <= prio[p]
<1>1. \A p \in Process : prio[p] \in Nat /\ BestPrio[p] = -prio[p]
  BY DEF BestPrio, TypeOK
<1> QED BY <1>1

\* release() wakes one waiter: it leaves the waitqueue for the ready queue.
LEMMA WakeEffect ==
  ASSUME TypeInv, ListedOnce, NEW t \in Resource, Wake(t), waitqueue[t] # <<>>
  PROVE  \E w \in Process :
           /\ w \in ToSet(waitqueue[t])
           /\ ToSet(waitqueue'[t]) = ToSet(waitqueue[t]) \ {w}
           /\ \A r \in Resource \ {t} : waitqueue'[r] = waitqueue[r]
           /\ readyqueue' = Append(readyqueue, w)
           /\ ToSet(readyqueue') = ToSet(readyqueue) \cup {w}
           /\ IsInjective(waitqueue'[t]) /\ IsInjective(readyqueue')
           /\ status'[w] = "READY"
           /\ \A p \in Process \ {w} : status'[p] = status[p]
           /\ sched.release # "fcfs" => \A q \in ToSet(waitqueue[t]) : prio[q] <= prio[w]
<1>1. PICK k \in First(waitqueue[t], WakeKey) :
        /\ waitqueue' = [waitqueue EXCEPT ![t] = RemoveAt(waitqueue[t], k)]
        /\ readyqueue' = Append(readyqueue, waitqueue[t][k])
        /\ status' = [status EXCEPT ![waitqueue[t][k]] = "READY"]
  BY DEF Wake, HasWaiters
<1> DEFINE w == waitqueue[t][k]
<1>2. waitqueue[t] \in Seq(Process) /\ readyqueue \in Seq(Process)
  BY DEF TypeInv, TypeOK
<1>3. /\ k \in DOMAIN waitqueue[t] /\ k \in 1 .. Len(waitqueue[t])
      /\ w \in Process /\ w \in ToSet(waitqueue[t])
  BY <1>2, Entry DEF First
<1>4. w \notin ToSet(readyqueue)
  BY <1>3 DEF ListedOnce
<1>5. /\ waitqueue'[t] = RemoveAt(waitqueue[t], k)
      /\ \A r \in Resource \ {t} : waitqueue'[r] = waitqueue[r]
      /\ status'[w] = "READY"
      /\ \A p \in Process \ {w} : status'[p] = status[p]
  BY <1>1, <1>3 DEF TypeInv, TypeOK
<1>6. IsInjective(waitqueue'[t]) /\ ToSet(waitqueue'[t]) = ToSet(waitqueue[t]) \ {w}
  BY <1>2, <1>3, <1>5, RemoveAtInjective DEF ListedOnce
<1>7. IsInjective(readyqueue') /\ ToSet(readyqueue') = ToSet(readyqueue) \cup {w}
  BY <1>1, <1>2, <1>3, <1>4, AppendFacts DEF ListedOnce
<1>8. ASSUME sched.release # "fcfs", NEW q \in ToSet(waitqueue[t])
      PROVE  prio[q] <= prio[w]
  <2>1. PICK j \in DOMAIN waitqueue[t] : waitqueue[t][j] = q
    BY <1>2, Members
  <2>2. q \in Process
    BY <1>2, <2>1, Entry
  <2>3. BestPrio[w] <= BestPrio[q]
    <3>1. BestPrio[w] < BestPrio[q] \/ BestPrio[w] = BestPrio[q]
      BY <1>8, <2>1 DEF First, WakeKey
    <3>2. \A p \in Process : BestPrio[p] \in Int
      BY PriosAsKeys DEF TypeInv
    <3> QED BY <1>3, <2>2, <3>1, <3>2
  <2> QED BY <1>3, <2>2, <2>3, PriosAsKeys DEF TypeInv
<1> QED BY <1>1, <1>3, <1>5, <1>6, <1>7, <1>8

\* release() takes the resource from the list of the running process and from
\* its owner.
LEMMA ReleaseEffect ==
  ASSUME TypeInv, Release
  PROVE  \E i \in DOMAIN holding[current] :
           LET t == holding[current][i].resource_id IN
           /\ holding[current][i].duration = 0
           /\ t \in Resource
           /\ Wake(t)
           /\ pc' # "aborted" => owner[t] = current
           /\ owner'[t] = NULL /\ \A r \in Resource \ {t} : owner'[r] = owner[r]
           /\ holding'[current] = RemoveAt(holding[current], i)
           /\ \A p \in Process \ {current} : holding'[p] = holding[p]
<1>1. PICK i \in Least(Expired) :
        /\ pc' = IF ReleaseFails(holding[current][i].resource_id) THEN "aborted" ELSE pc
        /\ owner' = [owner EXCEPT ![holding[current][i].resource_id] = NULL]
        /\ Wake(holding[current][i].resource_id)
        /\ holding' = [holding EXCEPT ![current] = RemoveAt(holding[current], i)]
  BY DEF Release
<1>2. current \in Process
  BY DEF Release, TypeInv, TypeOK, SomeoneRuns
<1>3. /\ i \in DOMAIN holding[current] /\ holding[current][i].duration = 0
      /\ holding[current][i].resource_id \in Resource
  BY <1>2, UseLists, UseTypes DEF TypeInv, Least, Expired
<1>4. pc' # "aborted" => owner[holding[current][i].resource_id] = current
  BY <1>1 DEF ReleaseFails
<1> QED BY <1>1, <1>2, <1>3, <1>4 DEF TypeInv, TypeOK

LEMMA ReleaseAnyScript ==
  ASSUME TypeInv, ListedOnce, Accounted, Release, pc' # "aborted"
  PROVE  (ListedOnce /\ Accounted)'
<1> DEFINE c == current
<1>1. /\ UNCHANGED <<forkqueue, current, age, to_acquire>> /\ pc = "release"
      /\ c \in Process /\ status[c] = "RUNNING"
  BY DEF Release, TypeInv, TypeOK, SomeoneRuns, ListedOnce
<1>2. PICK i \in DOMAIN holding[c] :
        LET t == holding[c][i].resource_id IN
        /\ t \in Resource
        /\ Wake(t)
        /\ owner'[t] = NULL /\ \A r \in Resource \ {t} : owner'[r] = owner[r]
        /\ holding'[c] = RemoveAt(holding[c], i)
        /\ \A p \in Process \ {c} : holding'[p] = holding[p]
  BY ReleaseEffect
<1> DEFINE t == holding[c][i].resource_id
<1>3. \A p \in Process : \A r : Requesting(p, r)' <=> Requesting(p, r)
  BY <1>1, RequestingKept
<1>4. \A r \in Resource : ToSet(waitqueue[r]) \subseteq Process
  BY Members DEF TypeInv, TypeOK
<1>5. ASSUME NEW r \in Resource, NEW p \in Process, owner'[r] = p
      PROVE  \E j \in DOMAIN holding'[p] : holding'[p][j].resource_id = r
  <2>1. r # t /\ owner[r] = p
    BY <1>2, <1>5, NullIsNoProcess
  <2>2. PICK j \in DOMAIN holding[p] : holding[p][j].resource_id = r
    BY <2>1 DEF Accounted
  <2>3. CASE p # c
    BY <1>2, <2>2, <2>3
  <2>4. CASE p = c
    <3> DEFINE h == holding[c]
    <3>1. h \in Seq(ResourceSchedule) /\ i \in DOMAIN h /\ j \in DOMAIN h \ {i}
      BY <1>1, <2>1, <2>2, <2>4 DEF TypeInv, TypeOK
    <3>2. holding'[p] = RemoveAt(h, i) /\ h[j].resource_id = r
      BY <1>2, <2>2, <2>4
    <3> HIDE DEF h
    <3>3. \E k \in DOMAIN RemoveAt(h, i) : RemoveAt(h, i)[k] = h[j]
      BY <3>1, RemoveAtMembers
    <3> QED BY <3>2, <3>3
  <2> QED BY <2>3, <2>4
<1>6. \A r \in Resource, p \in Process : owner'[r] = p => owner[r] = p
  BY <1>2, NullIsNoProcess
<1>7. CASE waitqueue[t] = <<>>
  <2>1. UNCHANGED <<waitqueue, readyqueue, status>>
    BY <1>2, <1>7 DEF Wake, HasWaiters
  <2>2. ListedOnce'
    BY <1>1, <2>1 DEF ListedOnce
  <2> QED BY <1>1, <1>3, <1>4, <1>5, <1>6, <2>1, <2>2 DEF Accounted, OnList
<1>8. CASE waitqueue[t] # <<>>
  <2>1. PICK w \in Process :
          /\ w \in ToSet(waitqueue[t])
          /\ ToSet(waitqueue'[t]) = ToSet(waitqueue[t]) \ {w}
          /\ \A r \in Resource \ {t} : waitqueue'[r] = waitqueue[r]
          /\ ToSet(readyqueue') = ToSet(readyqueue) \cup {w}
          /\ IsInjective(waitqueue'[t]) /\ IsInjective(readyqueue')
          /\ status'[w] = "READY"
          /\ \A p \in Process \ {w} : status'[p] = status[p]
    BY <1>2, <1>8, WakeEffect
  <2> HIDE DEF t
  <2>2. t \in Resource
    BY <1>2 DEF t
  <2>3. /\ w # c /\ w \notin ToSet(forkqueue)
        /\ \A r \in Resource \ {t} : w \notin ToSet(waitqueue[r])
    BY <1>1, <2>1, <2>2 DEF ListedOnce
  <2>4. ListedOnce'
    <3>1. \A r \in Resource :
            /\ IsInjective(waitqueue'[r]) /\ ToSet(waitqueue'[r]) \subseteq ToSet(waitqueue[r])
            /\ w \notin ToSet(waitqueue'[r])
      BY <2>1, <2>3 DEF ListedOnce
    <3>2. \A r \in Resource :
            /\ ToSet(waitqueue'[r]) \cap (ToSet(forkqueue') \cup ToSet(readyqueue')) = {}
            /\ c \notin ToSet(waitqueue'[r])
            /\ \A u \in Resource :
                 r # u => ToSet(waitqueue'[r]) \cap ToSet(waitqueue'[u]) = {}
      BY <1>1, <2>1, <3>1 DEF ListedOnce
    <3>3. /\ ToSet(forkqueue') \cap ToSet(readyqueue') = {}
          /\ c \notin ToSet(forkqueue') \cup ToSet(readyqueue')
          /\ status'[c] = "RUNNING"
      BY <1>1, <2>1, <2>3 DEF ListedOnce
    <3> QED BY <1>1, <2>1, <3>1, <3>2, <3>3 DEF ListedOnce
  <2>5. \A r \in Resource : \A p \in ToSet(waitqueue'[r]) : Requesting(p, r)'
    BY <1>3, <1>4, <2>1 DEF Accounted
  <2>6. ASSUME NEW p \in Process, status'[p] = "EXIT"
        PROVE  p # c /\ ~OnList(p, readyqueue)' /\ \A r \in Resource : owner'[r] # p
    <3>1. p # w /\ status[p] = "EXIT"
      BY <2>1, <2>6
    <3>2. p # c /\ ~OnList(p, readyqueue) /\ \A r \in Resource : owner[r] # p
      BY <3>1 DEF Accounted
    <3> QED BY <1>1, <1>6, <2>1, <3>1, <3>2 DEF OnList
  <2> QED BY <1>1, <1>5, <2>4, <2>5, <2>6 DEF Accounted
<1> QED BY <1>7, <1>8

LEMMA AnyScriptStep == TypeInv /\ AnyScript /\ [Next]_vars => AnyScript'
<1> SUFFICES ASSUME TypeInv, AnyScript, [Next]_vars, pc' # "aborted"
             PROVE  (ListedOnce /\ Accounted)'
  BY DEF AnyScript
<1>1. ListedOnce /\ Accounted
  BY DEF AnyScript, Next, vars, Fork, ForkDone, ExitAborts, Abort, ScheduleKeep,
         SchedulePick, ScheduleNone, Grant, Block, Run, Release, ReleaseDone,
         Terminating
<1>2. CASE ForkDone \/ ReleaseDone \/ UNCHANGED vars
  <2>1. /\ UNCHANGED <<queues, owner, current, status, age, to_acquire, holding>>
        /\ pc' \in {"acquire", "release"} => pc' = pc
    BY <1>2 DEF ForkDone, ReleaseDone, NextTick, vars, procs
  <2>2. ListedOnce'
    BY <1>1, <2>1 DEF ListedOnce, queues
  <2>3. \A p \in Process : \A r : Requesting(p, r)' <=> Requesting(p, r)
    BY <2>1, RequestingKept
  <2>4. \A r \in Resource : ToSet(waitqueue[r]) \subseteq Process
    BY Members DEF TypeInv, TypeOK
  <2> QED BY <1>1, <2>1, <2>2, <2>3, <2>4 DEF Accounted, OnList, queues
<1>3. CASE ExitAborts
  BY <1>3 DEF ExitAborts, Abort
<1> QED BY <1>1, <1>2, <1>3, ForkAnyScript, ScheduleKeepAnyScript,
           SchedulePickAnyScript, ScheduleNoneAnyScript, GrantAnyScript,
           BlockAnyScript, RunAnyScript, ReleaseAnyScript
        DEF Next, Terminating

LEMMA AnyScriptAlways == Spec => [](TypeInv /\ AnyScript)
<1>1. Init => TypeInv /\ AnyScript
  BY TypeInit, AnyScriptInit
<1>2. (TypeInv /\ AnyScript) /\ [Next]_vars => (TypeInv /\ AnyScript)'
  BY TypeStep, AnyScriptStep
<1> QED BY <1>1, <1>2, PTL DEF Spec

\* Well-formed script or not, a process that has exited is on no list and owns
\* nothing: __exit_process() asserts as much of the lists and of what the
\* process holds, and nothing brings it back.
THEOREM ExitsAreClean == Spec => []ExitedClean
<1>1. AnyScript => ExitedClean
  BY DEF AnyScript, Accounted, ExitedClean
<1> QED BY <1>1, AnyScriptAlways, PTL

-----------------------------------------------------------------------------
(* The contract of resources *)

\* Who does not age and acquires nothing asks for the same as before,
LEMMA AsksKept ==
  ASSUME UNCHANGED <<age, to_acquire>>
  PROVE  Asks' = Asks
<1>1. \A p \in Process : \A r : Requesting(p, r)' <=> Requesting(p, r)
  BY RequestingKept
<1> QED BY <1>1 DEF Asks

\* and if only one process does either, only that one may ask for something else.
LEMMA OnlyOneAsks ==
  ASSUME NEW c \in Process,
         \A p \in Process \ {c} : age'[p] = age[p] /\ to_acquire'[p] = to_acquire[p]
  PROVE  Contract!AskNext(c)
<1> DEFINE S == {r \in Resource : Requesting(c, r)'}
<1>1. ASSUME NEW p \in Process
      PROVE  Asks'[p] = [Asks EXCEPT ![c] = S][p]
  <2>1. CASE p = c
    BY <2>1 DEF Asks
  <2>2. CASE p # c
    <3>1. \A r : Requesting(p, r)' <=> Requesting(p, r)
      BY <2>2, RequestingKept
    <3> QED BY <2>2, <3>1 DEF Asks
  <2> QED BY <2>1, <2>2
<1>2. Asks' = [Asks EXCEPT ![c] = S]
  BY <1>1 DEF Asks
<1> QED BY <1>2 DEF Contract!AskNext

\* The running process is not asleep.
LEMMA RunsAwake ==
  ASSUME TypeInv, ListedOnce, pc \in {"acquire", "release"}
  PROVE  current \in Process /\ Contract!Awake(current)
<1>1. current \in Process /\ status[current] = "RUNNING"
  BY DEF TypeInv, TypeOK, SomeoneRuns, ListedOnce
<1>2. \A r \in Resource : current \notin ToSet(waitqueue[r])
  BY <1>1 DEF ListedOnce
<1> QED BY <1>1, <1>2 DEF Contract!Awake, Sleepers

LEMMA GrantTakes ==
  ASSUME TypeInv, ListedOnce, Grant
  PROVE  Contract!Next
<1>1. current \in Process /\ Contract!Awake(current)
  BY RunsAwake DEF Grant
<1>2. PICK r \in Resource :
        /\ Requesting(current, r) /\ owner[r] = NULL /\ owner'[r] = current
        /\ \A t \in Resource \ {r} : owner'[t] = owner[t]
        /\ \A p \in Process \ {current} : to_acquire'[p] = to_acquire[p]
  BY GrantEffect
<1>3. UNCHANGED <<waitqueue, age>>
  BY DEF Grant, queues
<1>4. owner' = [owner EXCEPT ![r] = current]
  <2>1. PICK t : owner' = [owner EXCEPT ![t] = current]
    BY DEF Grant
  <2>2. DOMAIN owner = Resource /\ DOMAIN owner' = Resource
    BY <2>1 DEF TypeInv, TypeOK
  <2> QED BY <1>2, <2>1, <2>2
<1>5. Contract!AskNext(current)
  BY <1>1, <1>2, <1>3, OnlyOneAsks
<1>6. r \in Asks[current] /\ Sleepers' = Sleepers
  BY <1>1, <1>2, <1>3 DEF Asks, Sleepers
<1>7. Contract!Take(current, r)
  BY <1>1, <1>2, <1>4, <1>5, <1>6 DEF Contract!Take
<1> QED BY <1>1, <1>7 DEF Contract!Next

LEMMA BlockSleeps ==
  ASSUME TypeInv, ListedOnce, Block
  PROVE  Contract!Next
<1>1. current \in Process /\ Contract!Awake(current)
  BY RunsAwake DEF Block
<1>2. PICK r \in Resource :
        /\ Requesting(current, r) /\ owner[r] # NULL
        /\ \A t \in Resource \ {r} : waitqueue'[t] = waitqueue[t]
        /\ ToSet(waitqueue'[r]) = ToSet(waitqueue[r]) \cup {current}
  BY BlockEffect
<1>3. UNCHANGED owner /\ Asks' = Asks
  BY AsksKept DEF Block
<1>4. Sleepers' = [Sleepers EXCEPT ![r] = @ \cup {current}]
  BY <1>2 DEF Sleepers
<1>5. Contract!Sleep(current, r)
  BY <1>1, <1>2, <1>3, <1>4 DEF Contract!Sleep, Asks
<1> QED BY <1>1, <1>5 DEF Contract!Next

LEMMA RunWorks ==
  ASSUME TypeInv, ListedOnce, Run
  PROVE  Contract!Next
<1>1. current \in Process /\ Contract!Awake(current)
  BY RunsAwake DEF Run
<1>2. Asks[current] = {}
  BY <1>1 DEF Asks, Requesting, Least, Run
<1>3. /\ UNCHANGED <<owner, waitqueue, to_acquire>>
      /\ \A p \in Process \ {current} : age'[p] = age[p]
  BY <1>1 DEF Run, queues, TypeInv, TypeOK
<1>4. Contract!AskNext(current)
  BY <1>1, <1>3, OnlyOneAsks
<1>5. Sleepers' = Sleepers
  BY <1>3 DEF Sleepers
<1>6. Contract!Work(current)
  BY <1>1, <1>2, <1>3, <1>4, <1>5 DEF Contract!Work
<1> QED BY <1>1, <1>6 DEF Contract!Next

LEMMA ReleaseGivesBack ==
  ASSUME TypeInv, ListedOnce, Release, pc' # "aborted"
  PROVE  Contract!Next
<1>1. current \in Process /\ Contract!Awake(current)
  BY RunsAwake DEF Release
<1>2. PICK t \in Resource :
        /\ Wake(t) /\ owner[t] = current
        /\ owner'[t] = NULL /\ \A r \in Resource \ {t} : owner'[r] = owner[r]
  BY ReleaseEffect
<1>3. owner' = [owner EXCEPT ![t] = NULL]
  <2>1. PICK r : owner' = [owner EXCEPT ![r] = NULL]
    BY DEF Release
  <2>2. DOMAIN owner = Resource /\ DOMAIN owner' = Resource
    BY <2>1 DEF TypeInv, TypeOK
  <2> QED BY <1>2, <2>1, <2>2
<1>4. Asks' = Asks
  BY AsksKept DEF Release
<1>5. CASE waitqueue[t] = <<>>
  <2>1. Sleepers[t] = {} /\ Sleepers' = Sleepers
    BY <1>2, <1>5 DEF Wake, HasWaiters, Sleepers, ToSet
  <2>2. Contract!GiveBack(current, t)
    BY <1>1, <1>2, <1>3, <1>4, <2>1 DEF Contract!GiveBack
  <2> QED BY <1>1, <2>2 DEF Contract!Next
<1>6. CASE waitqueue[t] # <<>>
  <2>1. PICK w \in Process :
          /\ w \in ToSet(waitqueue[t])
          /\ ToSet(waitqueue'[t]) = ToSet(waitqueue[t]) \ {w}
          /\ \A r \in Resource \ {t} : waitqueue'[r] = waitqueue[r]
    BY <1>2, <1>6, WakeEffect
  <2>2. w \in Sleepers[t] /\ Sleepers' = [Sleepers EXCEPT ![t] = @ \ {w}]
    BY <1>2, <2>1 DEF Sleepers
  <2>3. Contract!GiveBack(current, t)
    BY <1>1, <1>2, <1>3, <1>4, <2>2 DEF Contract!GiveBack
  <2> QED BY <1>1, <2>3 DEF Contract!Next
<1> QED BY <1>5, <1>6

\* Forking and scheduling are none of its business.
LEMMA OthersKeepContract ==
  ASSUME \/ Fork \/ ForkDone \/ ExitAborts \/ ScheduleKeep \/ SchedulePick
         \/ ScheduleNone \/ ReleaseDone \/ UNCHANGED vars
  PROVE  UNCHANGED Contract!rvars
<1>1. UNCHANGED <<waitqueue, owner, age, to_acquire>>
  BY DEF Fork, ForkDone, ExitAborts, Abort, ScheduleKeep, SchedulePick,
         ScheduleNone, ReleaseDone, vars, queues, procs
<1> QED BY <1>1, AsksKept DEF Contract!rvars, Sleepers

\* Under every policy and on every script acquire() and release() do what
\* Resources says: a resource is taken only when free, by a process that is
\* awake and asks for it; only its owner gives it back, and with that wakes one
\* sleeper, if there is any, and never the sleeper of another resource.
THEOREM ResourcesAreKept == Spec => ImplementsResources
<1>1. Init => Contract!Init
  <2> SUFFICES ASSUME Init PROVE Contract!Init
    OBVIOUS
  <2>1. Sleepers = [r \in Resource |-> {}]
    BY DEF Init, Sleepers, ToSet
  <2>2. owner = [r \in Resource |-> NULL] /\ Asks \in [Process -> SUBSET Resource]
    BY DEF Init, Asks
  <2> QED BY <2>1, <2>2 DEF Contract!Init
<1>2. TypeInv /\ AnyScript /\ [Next]_vars
        => [pc' # "aborted" => Contract!Next]_(Contract!rvars)
  <2> SUFFICES ASSUME TypeInv, AnyScript, [Next]_vars, pc' # "aborted"
               PROVE  Contract!Next \/ UNCHANGED Contract!rvars
    OBVIOUS
  <2>1. CASE Grant \/ Block \/ Run \/ Release
    <3>1. ListedOnce
      BY <2>1 DEF AnyScript, Grant, Block, Run, Release
    <3> QED BY <2>1, <3>1, GrantTakes, BlockSleeps, RunWorks, ReleaseGivesBack
  <2>2. CASE \/ Fork \/ ForkDone \/ ExitAborts \/ ScheduleKeep \/ SchedulePick
             \/ ScheduleNone \/ ReleaseDone \/ UNCHANGED vars
    BY <2>2, OthersKeepContract
  <2> QED BY <2>1, <2>2 DEF Next, Terminating
<1> QED BY <1>1, <1>2, AnyScriptAlways, PTL DEF Spec, ImplementsResources
=============================================================================
