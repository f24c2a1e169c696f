---------------------------- MODULE SchedProofs ----------------------------
(***************************************************************************)
(* Proofs, for any number of processes, any resources and any scripts, of  *)
(* the safety properties of SchedProps.  Core is preserved by every        *)
(* action: one lemma each.                                                 *)
(***************************************************************************)
EXTENDS SchedTypeProofs

-----------------------------------------------------------------------------
(* Facts every action needs *)

\* The running process is on no list.
LEMMA RunningIsDetached ==
  ASSUME TypeOK, Placement, NEW p \in Process, status[p] = "RUNNING"
  PROVE  ~OnList(p, readyqueue)
BY DEF Placement, OnList

LEMMA WellFormedKept == [Next]_vars => script' = script /\ (WellFormed' <=> WellFormed)
<1>1. [Next]_vars => script' = script
  BY DEF Next, vars, Fork, ForkDone, ExitAborts, Abort, ScheduleKeep,
         SchedulePick, ScheduleNone, Grant, Block, Run, Release, ReleaseDone,
         Terminating
<1> QED BY <1>1 DEF WellFormed

-----------------------------------------------------------------------------
(* Initially *)

LEMMA CoreInit == Init /\ WellFormed => Core
<1> SUFFICES ASSUME Init, WellFormed PROVE Core
  OBVIOUS
<1>1. TypeOK
  BY TypeInit DEF TypeInv
<1>2. ToSet(forkqueue) = Process /\ IsInjective(forkqueue)
  BY DEF Init, ToSet, IsInjective, Process
<1>3. readyqueue = <<>> /\ ToSet(readyqueue) = {} /\ IsInjective(readyqueue)
  <2>1. readyqueue = <<>> /\ DOMAIN readyqueue = {}
    BY DEF Init
  <2> QED BY <2>1 DEF ToSet, IsInjective
<1>4. ASSUME NEW r \in Resource
      PROVE  waitqueue[r] = <<>> /\ ToSet(waitqueue[r]) = {} /\ IsInjective(waitqueue[r])
  <2>1. waitqueue[r] = <<>> /\ DOMAIN waitqueue[r] = {}
    BY DEF Init
  <2> QED BY <2>1 DEF ToSet, IsInjective
<1>5. ASSUME NEW p \in Process
      PROVE  status[p] = "READY" /\ DOMAIN holding[p] = {} /\ age[p] = 0
             /\ to_acquire[p] = script[p].acquire /\ current # p /\ p \in Process
  BY NullIsNoProcess DEF Init
<1>6. Placement
  BY <1>2, <1>3, <1>4, <1>5 DEF Placement
<1>7. DeclaredUse /\ Dispatch /\ Promised /\ pc # "aborted"
  BY <1>4, <1>5 DEF Init, DeclaredUse, Dispatch, Promised
<1>8. Ownership
  BY <1>5, NullIsNoProcess DEF Init, Ownership
<1>9. Timing
  <2> SUFFICES ASSUME NEW p \in Process PROVE
          /\ 0 < script[p].lifespan
          /\ \A i \in DOMAIN to_acquire[p] :
               /\ to_acquire[p][i].at >= 0
               /\ to_acquire[p][i] \in ToSet(script[p].acquire)
    BY <1>5 DEF Timing
  <2>1. 0 < script[p].lifespan
    BY <1>1, ScriptTypes DEF WellFormed
  <2>2. ASSUME NEW i \in DOMAIN to_acquire[p]
        PROVE  to_acquire[p][i].at >= 0 /\ to_acquire[p][i] \in ToSet(script[p].acquire)
    BY <1>1, <1>5, ScriptTypes, UseTypes
  <2> QED BY <2>1, <2>2
<1> QED BY <1>6, <1>7, <1>8, <1>9 DEF Core

-----------------------------------------------------------------------------
(* Forking *)

LEMMA ForkCore == TypeInv /\ WellFormed /\ Core /\ Fork => Core'
<1> SUFFICES ASSUME TypeInv, WellFormed, Core, Fork PROVE Core'
  OBVIOUS
<1>1. PICK i \in Least(DueForks) :
        /\ forkqueue' = RemoveAt(forkqueue, i)
        /\ readyqueue' = Append(readyqueue, forkqueue[i])
        /\ status' = [status EXCEPT ![forkqueue[i]] = "READY"]
  BY DEF Fork
<1> DEFINE e == forkqueue[i]
<1>2. /\ forkqueue \in Seq(Process) /\ readyqueue \in Seq(Process)
      /\ i \in DOMAIN forkqueue /\ i \in 1 .. Len(forkqueue)
      /\ e \in Process /\ e \in ToSet(forkqueue)
  BY Entry DEF TypeInv, TypeOK, Least, DueForks
<1>3. status[e] = "READY" /\ e \notin ToSet(readyqueue)
  BY <1>2 DEF Core, Placement
<1>4. status' = status
  BY <1>1, <1>3 DEF TypeInv, TypeOK
<1>5. IsInjective(forkqueue') /\ ToSet(forkqueue') = ToSet(forkqueue) \ {e}
  BY <1>1, <1>2, RemoveAtInjective DEF Core, Placement
<1>6. IsInjective(readyqueue') /\ ToSet(readyqueue') = ToSet(readyqueue) \cup {e}
  BY <1>1, <1>2, <1>3, AppendFacts DEF Core, Placement
<1>7. Placement'
  BY <1>2, <1>4, <1>5, <1>6, RequestingKept DEF Fork, Core, Placement
<1>8. Promised'
  BY <1>4, RequestingKept DEF Fork, Core, Promised
<1> QED BY <1>4, <1>7, <1>8
        DEF Fork, Core, Timing, DeclaredUse, Dispatch, Ownership

LEMMA ForkDoneCore == Core /\ ForkDone => Core'
BY RequestingKept DEF ForkDone, queues, procs, Core, Placement, Timing,
     DeclaredUse, Dispatch, Ownership, Promised

-----------------------------------------------------------------------------
(* Scheduling *)

\* The assertions of __exit_process() hold.
LEMMA ExitIsClean ==
  ASSUME TypeInv, WellFormed, Core, pc = "schedule"
  PROVE  ~ExitFails
<1> SUFFICES ASSUME ExitFails PROVE FALSE
  OBVIOUS
<1>1. current \in Process /\ age[current] = script[current].lifespan
  BY DEF ExitFails, TypeInv, TypeOK
<1>2. script[current].lifespan \in Nat
  BY <1>1, ScriptTypes DEF TypeInv
<1>3. status[current] = "RUNNING"
  BY <1>1, <1>2 DEF Core, Timing, Placement
<1>4. ~OnList(current, readyqueue)
  BY <1>1, <1>3, RunningIsDetached DEF TypeInv, Core
<1>5. \A i \in DOMAIN script[current].acquire :
        /\ script[current].acquire[i].duration \in Nat \ {0}
        /\ script[current].acquire[i].at \in Nat
        /\ script[current].acquire[i].at + script[current].acquire[i].duration
             <= script[current].lifespan
  <2>1. script[current].acquire \in Seq(ResourceSchedule)
    BY <1>1, ScriptTypes DEF TypeInv
  <2> QED BY <1>1, <2>1, UseTypes DEF WellFormed
<1>6. DOMAIN to_acquire[current] = {}
  <2> SUFFICES ASSUME NEW i \in DOMAIN to_acquire[current] PROVE FALSE
    OBVIOUS
  <2>1. to_acquire[current][i].at >= age[current]
    BY <1>1 DEF Core, Timing
  <2>2. PICK k \in DOMAIN script[current].acquire :
          to_acquire[current][i] = script[current].acquire[k]
    BY <1>1 DEF Core, Timing, ToSet
  <2> QED BY <1>1, <1>2, <1>5, <2>1, <2>2
<1>7. DOMAIN holding[current] = {}
  <2> SUFFICES ASSUME NEW i \in DOMAIN holding[current] PROVE FALSE
    OBVIOUS
  <2>1. holding[current][i].duration # 0
    BY <1>1 DEF Core, Timing
  <2>2. holding[current][i].duration \in Nat
    BY <1>1, UseLists, UseTypes DEF TypeInv
  <2>3. PICK k \in DOMAIN script[current].acquire :
          age[current] + holding[current][i].duration =
            script[current].acquire[k].at + script[current].acquire[k].duration
    BY <1>1 DEF Core, DeclaredUse
  <2> QED BY <1>1, <1>2, <1>5, <2>1, <2>2, <2>3
<1>8. to_acquire[current] = <<>> /\ holding[current] = <<>>
  BY <1>1, <1>6, <1>7, EmptySeq, Members DEF TypeInv, TypeOK
<1> QED BY <1>4, <1>8 DEF ExitFails

LEMMA ScheduleKeepCore == TypeInv /\ WellFormed /\ Core /\ ScheduleKeep => Core'
<1> SUFFICES ASSUME TypeInv, WellFormed, Core, ScheduleKeep PROVE Core'
  OBVIOUS
<1>1. /\ current \in Process
      /\ status[current] = "RUNNING"
      /\ age[current] < script[current].lifespan
      /\ age[current] # script[current].lifespan
  BY ScriptTypes DEF ScheduleKeep, Runnable, TypeInv, TypeOK, Core, Placement
<1>2. status' = status
  BY <1>1 DEF ScheduleKeep, Decommissioned, TypeInv, TypeOK
<1>3. pc' = "acquire"
  BY <1>1, RunningIsDetached DEF ScheduleKeep, TypeInv, Core
<1>4. Placement' /\ Promised'
  BY <1>2, RequestingKept DEF ScheduleKeep, queues, Core, Placement, Promised
<1>5. Timing'
  BY <1>1, <1>2 DEF ScheduleKeep, Core, Timing
<1>6. DeclaredUse' /\ Ownership'
  BY DEF ScheduleKeep, Core, DeclaredUse, Ownership
<1>7. Dispatch'
  BY <1>1, <1>2, <1>3 DEF ScheduleKeep, Dispatch
<1> QED BY <1>3, <1>4, <1>5, <1>6, <1>7 DEF Core

\* After the policy has looked at current and the main loop has dealt with
\* prev, nobody is running, and the processes ready or to be forked are those
\* in Candidates and in the fork queue.
LEMMA Decommission ==
  ASSUME TypeInv, WellFormed, Core, pc = "schedule", Preemptive \/ ~Runnable
  PROVE  /\ Decommissioned \in [Process -> {"READY", "RUNNING", "BLOCKED", "EXIT"}]
         /\ IsInjective(Candidates)
         /\ ToSet(forkqueue) \cap ToSet(Candidates) = {}
         /\ \A p \in Process :
              /\ Decommissioned[p] = "READY" <=>
                   p \in ToSet(forkqueue) \cup ToSet(Candidates)
              /\ Decommissioned[p] # "RUNNING"
              /\ Decommissioned[p] = "BLOCKED" <=> status[p] = "BLOCKED"
              /\ Decommissioned[p] \in {"READY", "BLOCKED"} =>
                   age[p] < script[p].lifespan
              /\ Decommissioned[p] = "EXIT" =>
                   holding[p] = <<>> /\ to_acquire[p] = <<>>
              /\ status[p] \in {"READY", "RUNNING"} /\ to_acquire[p] # <<>> =>
                   Decommissioned[p] = "READY"
<1>1. /\ readyqueue \in Seq(Process)
      /\ current \in Process \cup {NULL}
      /\ status \in [Process -> {"READY", "RUNNING", "BLOCKED", "EXIT"}]
      /\ Placement /\ Timing
  BY DEF TypeInv, TypeOK, Core
<1>2. \A p \in Process : age[p] \in Nat /\ script[p].lifespan \in Nat
  BY ScriptTypes DEF TypeInv, TypeOK
<1>3. Decommissioned \in [Process -> {"READY", "RUNNING", "BLOCKED", "EXIT"}]
  BY <1>1 DEF Decommissioned
<1>4. CASE Runnable
  <2>1. /\ current \in Process /\ status[current] = "RUNNING"
        /\ age[current] < script[current].lifespan
        /\ age[current] # script[current].lifespan
    BY <1>1, <1>2, <1>4 DEF Runnable, Placement
  <2>2. Candidates = Append(readyqueue, current)
    BY <1>4 DEF Candidates
  <2>3. current \notin ToSet(readyqueue) /\ current \notin ToSet(forkqueue)
    BY <1>1, <2>1 DEF Placement
  <2>4. /\ IsInjective(Candidates)
        /\ ToSet(Candidates) = ToSet(readyqueue) \cup {current}
    BY <1>1, <2>1, <2>2, <2>3, AppendFacts DEF Placement
  <2>5. /\ Decommissioned[current] = "READY"
        /\ \A p \in Process \ {current} : Decommissioned[p] = status[p]
    BY <2>1 DEF Decommissioned
  <2>6. \A p \in Process \ {current} : status[p] # "RUNNING"
    BY <1>1 DEF Placement
  <2> QED BY <1>1, <1>3, <2>1, <2>3, <2>4, <2>5, <2>6 DEF Placement, Timing
<1>5. CASE ~Runnable
  <2>1. Candidates = readyqueue
    BY <1>5 DEF Candidates
  <2>2. CASE current = NULL
    <3>1. \A p \in Process : Decommissioned[p] = status[p]
      BY <2>2, NullIsNoProcess DEF Decommissioned
    <3>2. \A p \in Process : status[p] # "RUNNING"
      BY <1>1, <2>2, NullIsNoProcess DEF Placement
    <3> QED BY <1>1, <1>3, <2>1, <3>1, <3>2 DEF Placement, Timing
  <2>3. CASE current \in Process /\ status[current] = "BLOCKED"
    <3>1. age[current] # script[current].lifespan
      BY <1>1, <1>2, <2>3 DEF Timing
    <3>2. \A p \in Process : Decommissioned[p] = status[p]
      BY <2>3, <3>1 DEF Decommissioned
    <3>3. \A p \in Process : status[p] # "RUNNING"
      BY <1>1, <2>3 DEF Placement
    <3> QED BY <1>1, <1>3, <2>1, <3>2, <3>3 DEF Placement, Timing
  <2>4. CASE current \in Process /\ status[current] # "BLOCKED"
    <3>1. status[current] = "RUNNING"
      BY <1>1, <2>4 DEF Placement
    <3>2. age[current] = script[current].lifespan
      BY <1>1, <1>2, <1>5, <2>4, <3>1, NullIsNoProcess DEF Runnable, Timing
    <3>3. holding[current] = <<>> /\ to_acquire[current] = <<>>
      BY <2>4, <3>2, ExitIsClean, NullIsNoProcess DEF ExitFails
    <3>4. /\ Decommissioned[current] = "EXIT"
          /\ \A p \in Process \ {current} : Decommissioned[p] = status[p]
      BY <2>4, <3>2 DEF Decommissioned
    <3>5. \A p \in Process \ {current} : status[p] # "RUNNING"
      BY <1>1 DEF Placement
    <3> QED BY <1>1, <1>3, <2>1, <2>4, <3>1, <3>3, <3>4, <3>5 DEF Placement, Timing
  <2> QED BY <1>1, <2>2, <2>3, <2>4
<1> QED BY <1>4, <1>5

LEMMA ScheduleNoneCore == TypeInv /\ WellFormed /\ Core /\ ScheduleNone => Core'
<1> SUFFICES ASSUME TypeInv, WellFormed, Core, ScheduleNone PROVE Core'
  OBVIOUS
<1>1. pc = "schedule" /\ ~Runnable /\ pc' \in {"done", "fork"}
      /\ current' = NULL /\ status' = Decommissioned
      /\ UNCHANGED <<script, queues, owner, age, to_acquire, holding>>
  BY DEF ScheduleNone, NextTick
<1>2. Candidates = <<>> /\ readyqueue = <<>>
  BY <1>1 DEF ScheduleNone, Candidates
<1>3. /\ \A p \in Process :
           /\ Decommissioned[p] = "READY" <=>
                p \in ToSet(forkqueue) \cup ToSet(readyqueue)
           /\ Decommissioned[p] # "RUNNING"
           /\ Decommissioned[p] = "BLOCKED" <=> status[p] = "BLOCKED"
           /\ Decommissioned[p] \in {"READY", "BLOCKED"} =>
                age[p] < script[p].lifespan
           /\ Decommissioned[p] = "EXIT" =>
                holding[p] = <<>> /\ to_acquire[p] = <<>>
           /\ status[p] \in {"READY", "RUNNING"} /\ to_acquire[p] # <<>> =>
                Decommissioned[p] = "READY"
  BY <1>1, <1>2, Decommission
<1>4. \A p \in Process : p # current'
  BY <1>1, NullIsNoProcess
<1>5. \A p \in Process : \A r : Requesting(p, r)' <=> Requesting(p, r)
  BY <1>1, RequestingKept
<1>6. Placement'
  BY <1>1, <1>3, <1>4, <1>5 DEF Core, Placement, queues
<1>7. Timing'
  BY <1>1, <1>3, <1>4 DEF Core, Timing
<1>8. DeclaredUse' /\ Ownership'
  BY <1>1 DEF Core, DeclaredUse, Ownership
<1>9. Dispatch'
  BY <1>1, <1>2 DEF ScheduleNone, NothingPending, NextTick, Dispatch, queues
<1>10. Promised'
  <2> SUFFICES ASSUME NEW r \in Resource, owner[r] = NULL, waitqueue[r] # <<>>
               PROVE  \E p \in Process : /\ status'[p] \in {"READY", "RUNNING"}
                                         /\ Requesting(p, r)'
    BY <1>1 DEF Promised, queues
  <2>1. PICK p \in Process : status[p] \in {"READY", "RUNNING"} /\ Requesting(p, r)
    BY DEF Core, Promised
  <2>2. to_acquire[p] # <<>>
    BY <2>1 DEF Requesting, Least, Requests
  <2> QED BY <1>1, <1>3, <1>5, <2>1, <2>2
<1> QED BY <1>1, <1>6, <1>7, <1>8, <1>9, <1>10 DEF Core

LEMMA SchedulePickCore == TypeInv /\ WellFormed /\ Core /\ SchedulePick => Core'
<1> SUFFICES ASSUME TypeInv, WellFormed, Core, SchedulePick PROVE Core'
  OBVIOUS
<1>1. PICK i \in First(Candidates, SchedKey) :
        /\ readyqueue' = RemoveAt(Candidates, i)
        /\ current' = Candidates[i]
        /\ status' = [Decommissioned EXCEPT ![Candidates[i]] = "RUNNING"]
        /\ pc' = IF OnList(Candidates[i], RemoveAt(Candidates, i))
                 THEN "aborted" ELSE "acquire"
  BY DEF SchedulePick
<1> DEFINE next == Candidates[i]
<1>2. pc = "schedule" /\ (Preemptive \/ ~Runnable)
      /\ UNCHANGED <<script, forkqueue, waitqueue, owner, age, to_acquire, holding>>
  BY DEF SchedulePick
<1>3. /\ Decommissioned \in [Process -> {"READY", "RUNNING", "BLOCKED", "EXIT"}]
      /\ IsInjective(Candidates)
      /\ ToSet(forkqueue) \cap ToSet(Candidates) = {}
      /\ \A p \in Process :
           /\ Decommissioned[p] = "READY" <=>
                p \in ToSet(forkqueue) \cup ToSet(Candidates)
           /\ Decommissioned[p] # "RUNNING"
           /\ Decommissioned[p] = "BLOCKED" <=> status[p] = "BLOCKED"
           /\ Decommissioned[p] \in {"READY", "BLOCKED"} =>
                age[p] < script[p].lifespan
           /\ Decommissioned[p] = "EXIT" =>
                holding[p] = <<>> /\ to_acquire[p] = <<>>
           /\ status[p] \in {"READY", "RUNNING"} /\ to_acquire[p] # <<>> =>
                Decommissioned[p] = "READY"
  BY <1>2, Decommission
<1>4. Candidates \in Seq(Process) /\ i \in DOMAIN Candidates
  BY CandidatesType DEF First, TypeInv
<1>5. i \in 1 .. Len(Candidates) /\ next \in Process /\ next \in ToSet(Candidates)
  BY <1>4, Entry
<1>6. IsInjective(readyqueue') /\ ToSet(readyqueue') = ToSet(Candidates) \ {next}
  BY <1>1, <1>3, <1>4, <1>5, RemoveAtInjective
<1>7. /\ Decommissioned[next] = "READY"
      /\ status'[next] = "RUNNING" /\ current' = next
      /\ \A p \in Process \ {next} : status'[p] = Decommissioned[p]
  BY <1>1, <1>3, <1>5
<1>8. \A p \in Process : \A r : Requesting(p, r)' <=> Requesting(p, r)
  BY <1>2, RequestingKept
<1>9. pc' = "acquire"
  <2>1. next \notin ToSet(forkqueue) \cup ToSet(readyqueue')
    BY <1>3, <1>5, <1>6
  <2>2. \A r \in Resource : next \notin ToSet(waitqueue[r])
    BY <1>3, <1>5, <1>7 DEF Core, Placement
  <2> QED BY <1>1, <2>1, <2>2 DEF OnList
<1>10. Placement'
  <2>1. /\ IsInjective(forkqueue') /\ IsInjective(readyqueue')
        /\ \A r \in Resource : IsInjective(waitqueue'[r])
        /\ ToSet(forkqueue') \cap ToSet(readyqueue') = {}
    BY <1>2, <1>3, <1>6 DEF Core, Placement
  <2>2. ASSUME NEW p \in Process
        PROVE  /\ status'[p] = "READY" <=> p \in ToSet(forkqueue') \cup ToSet(readyqueue')
               /\ status'[p] = "RUNNING" <=> p = current' /\ status'[p] # "BLOCKED"
    BY <1>2, <1>3, <1>5, <1>6, <1>7
  <2>3. ASSUME NEW p \in Process
        PROVE  /\ status'[p] = "BLOCKED" <=> \E r \in Resource : p \in ToSet(waitqueue'[r])
               /\ \A r \in Resource : p \in ToSet(waitqueue'[r]) => Requesting(p, r)'
    <3>1. status'[p] = "BLOCKED" <=> status[p] = "BLOCKED"
      BY <1>3, <1>7
    <3> QED BY <1>2, <1>8, <3>1 DEF Core, Placement
  <2> QED BY <2>1, <2>2, <2>3 DEF Placement
<1>11. Timing'
  <2>1. age[next] < script[next].lifespan
    BY <1>3, <1>5, <1>7
  <2>2. \A p \in Process : \A j \in DOMAIN holding[p] : holding[p][j].duration # 0
    BY <1>2 DEF Core, Timing
  <2>3. age[next] <= script[next].lifespan
    BY <1>5, <2>1, ScriptTypes DEF TypeInv, TypeOK
  <2> QED BY <1>2, <1>3, <1>7, <2>1, <2>2, <2>3 DEF Core, Timing
<1>12. DeclaredUse' /\ Ownership'
  BY <1>2 DEF Core, DeclaredUse, Ownership
<1>13. Dispatch'
  BY <1>7, <1>9 DEF Dispatch
<1>14. Promised'
  <2> SUFFICES ASSUME NEW r \in Resource, owner[r] = NULL, waitqueue[r] # <<>>
               PROVE  \E p \in Process : /\ status'[p] \in {"READY", "RUNNING"}
                                         /\ Requesting(p, r)'
    BY <1>2 DEF Promised
  <2>1. PICK p \in Process : status[p] \in {"READY", "RUNNING"} /\ Requesting(p, r)
    BY DEF Core, Promised
  <2>2. to_acquire[p] # <<>>
    BY <2>1 DEF Requesting, Least, Requests
  <2> QED BY <1>3, <1>7, <1>8, <2>1, <2>2
<1> QED BY <1>9, <1>10, <1>11, <1>12, <1>13, <1>14 DEF Core

-----------------------------------------------------------------------------
(* Acquiring *)

LEMMA GrantCore == TypeInv /\ WellFormed /\ Core /\ Grant => Core'
<1> SUFFICES ASSUME TypeInv, WellFormed, Core, Grant PROVE Core'
  OBVIOUS
<1> DEFINE c == current
<1>1. /\ c \in Process /\ pc = "acquire" /\ status[c] = "RUNNING"
      /\ age[c] < script[c].lifespan
  BY DEF Grant, TypeInv, TypeOK, SomeoneRuns, Core, Dispatch, Timing
<1>2. PICK i \in Least(Requests(c)) :
        /\ owner[to_acquire[c][i].resource_id] = NULL
        /\ owner' = [owner EXCEPT ![to_acquire[c][i].resource_id] = c]
        /\ to_acquire' = [to_acquire EXCEPT ![c] = RemoveAt(to_acquire[c], i)]
        /\ holding' = [holding EXCEPT ![c] = Append(holding[c], to_acquire[c][i])]
  BY DEF Grant, Free
<1> DEFINE rs == to_acquire[c][i]
           t == rs.resource_id
<1>3. UNCHANGED <<script, forkqueue, readyqueue, waitqueue, current, status, age, pc>>
  BY DEF Grant, queues
<1>4. /\ to_acquire[c] \in Seq(ResourceSchedule) /\ holding[c] \in Seq(ResourceSchedule)
      /\ i \in DOMAIN to_acquire[c] /\ i \in 1 .. Len(to_acquire[c])
      /\ rs.at = age[c]
  BY <1>1, UseLists, Entry DEF TypeInv, Least, Requests
<1>5. rs \in ResourceSchedule /\ t \in Resource /\ rs.duration \in Nat
  BY <1>4, UseTypes
<1>6. /\ owner'[t] = c /\ \A r \in Resource \ {t} : owner'[r] = owner[r]
      /\ \A p \in Process \ {c} : to_acquire'[p] = to_acquire[p] /\ holding'[p] = holding[p]
      /\ to_acquire'[c] = RemoveAt(to_acquire[c], i)
      /\ holding'[c] = Append(holding[c], rs)
  BY <1>1, <1>2, <1>5 DEF TypeInv, TypeOK
<1>7. \A j \in DOMAIN to_acquire'[c] :
        \E k \in DOMAIN to_acquire[c] : to_acquire'[c][j] = to_acquire[c][k]
  BY <1>4, <1>6, RemoveAtMembers
<1> DEFINE n == Len(holding[c]) + 1
<1>8. /\ \A j \in DOMAIN holding'[c] :
           \/ j \in DOMAIN holding[c] /\ holding'[c][j] = holding[c][j]
           \/ j = n /\ holding'[c][j] = rs
      /\ \A j \in DOMAIN holding[c] :
           j \in DOMAIN holding'[c] /\ holding'[c][j] = holding[c][j]
      /\ n \in DOMAIN holding'[c] /\ holding'[c][n] = rs
      /\ n \notin DOMAIN holding[c]
  BY <1>4, <1>5, <1>6, AppendEntries
<1>9. \A p \in Process \ {c} : \A r : Requesting(p, r)' <=> Requesting(p, r)
  BY <1>3, <1>6, RequestingKept
<1>10. Requesting(c, t)
  BY <1>2 DEF Requesting
<1>11. PICK m \in DOMAIN script[c].acquire : rs = script[c].acquire[m]
  BY <1>1, <1>4 DEF Core, Timing, ToSet
<1>12. rs.duration # 0
  BY <1>1, <1>5, <1>11 DEF WellFormed
<1>13. Placement'
  <2>1. \A r \in Resource : c \notin ToSet(waitqueue[r])
    BY <1>1 DEF Core, Placement
  <2> QED BY <1>3, <1>9, <2>1 DEF Core, Placement
<1>14. Timing'
  <2>1. ASSUME NEW p \in Process
        PROVE  /\ status'[p] \in {"READY", "BLOCKED"} => age'[p] < script'[p].lifespan
               /\ status'[p] = "RUNNING" => age'[p] <= script'[p].lifespan
               /\ p = current' /\ pc' = "acquire" => age'[p] < script'[p].lifespan
               /\ status'[p] = "EXIT" => holding'[p] = <<>> /\ to_acquire'[p] = <<>>
    BY <1>1, <1>3, <1>6 DEF Core, Timing
  <2>2. ASSUME NEW p \in Process, NEW j \in DOMAIN to_acquire'[p]
        PROVE  /\ to_acquire'[p][j].at >= age'[p]
               /\ to_acquire'[p][j] \in ToSet(script'[p].acquire)
    BY <1>1, <1>3, <1>6, <1>7 DEF Core, Timing
  <2>3. ASSUME NEW p \in Process, NEW j \in DOMAIN holding'[p]
        PROVE  holding'[p][j].duration # 0
    <3>1. \A q \in Process : \A k \in DOMAIN holding[q] : holding[q][k].duration # 0
      BY <1>1 DEF Core, Timing
    <3>2. CASE p # c
      BY <1>6, <3>1, <3>2
    <3>3. CASE p = c /\ j \in DOMAIN holding[c] /\ holding'[c][j] = holding[c][j]
      BY <3>1, <3>3
    <3>4. CASE p = c /\ holding'[c][j] = rs
      BY <1>12, <3>4
    <3> QED BY <1>8, <3>2, <3>3, <3>4
  <2> QED BY <2>1, <2>2, <2>3 DEF Timing
<1>15. DeclaredUse'
  <2> SUFFICES ASSUME NEW p \in Process, NEW j \in DOMAIN holding'[p]
               PROVE  \E k \in DOMAIN script[p].acquire :
                        /\ holding'[p][j].resource_id = script[p].acquire[k].resource_id
                        /\ holding'[p][j].at = script[p].acquire[k].at
                        /\ age[p] + holding'[p][j].duration =
                             script[p].acquire[k].at + script[p].acquire[k].duration
    BY <1>3 DEF DeclaredUse
  <2>1. CASE p # c
    BY <1>6, <2>1 DEF Core, DeclaredUse
  <2>2. CASE p = c /\ j \in DOMAIN holding[c] /\ holding'[c][j] = holding[c][j]
    BY <2>2 DEF Core, DeclaredUse
  <2>3. CASE p = c /\ holding'[c][j] = rs
    BY <1>4, <1>11, <2>3
  <2> QED BY <1>8, <2>1, <2>2, <2>3
<1>16. Ownership'
  <2>1. \A j \in DOMAIN holding[c] : holding[c][j].resource_id # t
    <3>1. owner[t] # c
      BY <1>1, <1>2, NullIsNoProcess
    <3> QED BY <1>1, <1>5, <3>1 DEF Core, Ownership
  <2>2. ASSUME NEW p \in Process, NEW r \in Resource
        PROVE  owner'[r] = p <=> \E j \in DOMAIN holding'[p] : holding'[p][j].resource_id = r
    <3>1. CASE p # c /\ r # t
      BY <1>6, <3>1 DEF Core, Ownership
    <3>2. CASE p # c /\ r = t
      <4>1. owner[t] # p
        BY <1>2, NullIsNoProcess
      <4> QED BY <1>6, <3>2, <4>1 DEF Core, Ownership
    <3>3. CASE p = c /\ r # t
      <4>1. owner[r] = c <=> \E j \in DOMAIN holding[c] : holding[c][j].resource_id = r
        BY <1>1 DEF Core, Ownership
      <4>2. (\E j \in DOMAIN holding'[c] : holding'[c][j].resource_id = r) <=>
              \E j \in DOMAIN holding[c] : holding[c][j].resource_id = r
        BY <1>8, <3>3
      <4> QED BY <1>6, <3>3, <4>1, <4>2
    <3>4. CASE p = c /\ r = t
      BY <1>6, <1>8, <3>4
    <3> QED BY <3>1, <3>2, <3>3, <3>4
  <2>3. ASSUME NEW p \in Process, NEW j \in DOMAIN holding'[p], NEW k \in DOMAIN holding'[p],
               holding'[p][j].resource_id = holding'[p][k].resource_id
        PROVE  j = k
    <3>1. CASE p # c
      BY <1>6, <2>3, <3>1 DEF Core, Ownership
    <3>2. CASE p = c /\ j \in DOMAIN holding[c] /\ k \in DOMAIN holding[c]
      BY <1>1, <1>8, <2>3, <3>2 DEF Core, Ownership
    <3>3. CASE p = c /\ (j \notin DOMAIN holding[c] \/ k \notin DOMAIN holding[c])
      BY <1>8, <2>1, <2>3, <3>3
    <3> QED BY <3>1, <3>2, <3>3
  <2> QED BY <2>2, <2>3 DEF Ownership
<1>17. Promised'
  <2> SUFFICES ASSUME NEW r \in Resource, owner'[r] = NULL, waitqueue[r] # <<>>
               PROVE  \E p \in Process : /\ status[p] \in {"READY", "RUNNING"}
                                         /\ Requesting(p, r)'
    BY <1>3 DEF Promised
  <2>1. r # t /\ owner[r] = NULL
    BY <1>1, <1>6, NullIsNoProcess
  <2>2. PICK p \in Process : status[p] \in {"READY", "RUNNING"} /\ Requesting(p, r)
    BY <2>1 DEF Core, Promised
  <2>3. p # c
    BY <1>1, <1>10, <2>1, <2>2, OneRequest DEF TypeInv
  <2> QED BY <1>9, <2>2, <2>3
<1> QED BY <1>1, <1>3, <1>13, <1>14, <1>15, <1>16, <1>17 DEF Core, Dispatch

LEMMA BlockCore == TypeInv /\ WellFormed /\ Core /\ Block => Core'
<1> SUFFICES ASSUME TypeInv, WellFormed, Core, Block PROVE Core'
  OBVIOUS
<1> DEFINE c == current
<1>1. /\ c \in Process /\ pc = "acquire" /\ status[c] = "RUNNING"
      /\ age[c] < script[c].lifespan
  BY DEF Block, TypeInv, TypeOK, SomeoneRuns, Core, Dispatch, Timing
<1>2. PICK t \in Resource :
        /\ Requesting(c, t)
        /\ owner[t] # NULL
        /\ waitqueue' = [waitqueue EXCEPT ![t] = Append(waitqueue[t], c)]
  BY DEF Block, Free
<1>3. /\ UNCHANGED <<script, forkqueue, readyqueue, owner, current, age,
                     to_acquire, holding>>
      /\ pc' = "fork"
      /\ status'[c] = "BLOCKED" /\ \A p \in Process \ {c} : status'[p] = status[p]
  BY <1>1 DEF Block, NextTick, TypeInv, TypeOK
<1>4. \A r \in Resource : c \notin ToSet(waitqueue[r])
  BY <1>1 DEF Core, Placement
<1>5. /\ IsInjective(waitqueue'[t]) /\ ToSet(waitqueue'[t]) = ToSet(waitqueue[t]) \cup {c}
      /\ \A r \in Resource \ {t} : waitqueue'[r] = waitqueue[r]
  <2>1. waitqueue[t] \in Seq(Process) /\ waitqueue'[t] = Append(waitqueue[t], c)
    BY <1>2 DEF TypeInv, TypeOK
  <2>2. \A r \in Resource \ {t} : waitqueue'[r] = waitqueue[r]
    BY <1>2 DEF TypeInv, TypeOK
  <2> QED BY <1>1, <1>4, <2>1, <2>2, AppendFacts DEF Core, Placement
<1>6. \A p \in Process : \A r : Requesting(p, r)' <=> Requesting(p, r)
  BY <1>3, RequestingKept
<1>7. Placement'
  <2>1. /\ IsInjective(forkqueue') /\ IsInjective(readyqueue')
        /\ \A r \in Resource : IsInjective(waitqueue'[r])
        /\ ToSet(forkqueue') \cap ToSet(readyqueue') = {}
    BY <1>3, <1>5 DEF Core, Placement
  <2>2. ASSUME NEW p \in Process
        PROVE  /\ status'[p] = "READY" <=> p \in ToSet(forkqueue') \cup ToSet(readyqueue')
               /\ status'[p] = "RUNNING" <=> p = current' /\ status'[p] # "BLOCKED"
    BY <1>1, <1>3 DEF Core, Placement
  <2>3. ASSUME NEW p \in Process
        PROVE  /\ status'[p] = "BLOCKED" <=> \E r \in Resource : p \in ToSet(waitqueue'[r])
               /\ \A r \in Resource : p \in ToSet(waitqueue'[r]) => Requesting(p, r)'
    <3>1. CASE p = c
      BY <1>2, <1>3, <1>4, <1>5, <1>6, <3>1
    <3>2. CASE p # c
      <4>1. \A r \in Resource : p \in ToSet(waitqueue'[r]) <=> p \in ToSet(waitqueue[r])
        BY <1>5, <3>2
      <4> QED BY <1>3, <1>6, <3>2, <4>1 DEF Core, Placement
    <3> QED BY <3>1, <3>2
  <2> QED BY <2>1, <2>2, <2>3 DEF Placement
<1>8. Timing'
  <2>1. \A p \in Process : \A j \in DOMAIN holding[p] : holding[p][j].duration # 0
    BY <1>1 DEF Core, Timing
  <2> QED BY <1>1, <1>3, <2>1 DEF Core, Timing
<1>9. DeclaredUse' /\ Ownership'
  BY <1>3 DEF Core, DeclaredUse, Ownership
<1>10. Promised'
  <2> SUFFICES ASSUME NEW r \in Resource, owner[r] = NULL, waitqueue'[r] # <<>>
               PROVE  \E p \in Process : /\ status'[p] \in {"READY", "RUNNING"}
                                         /\ Requesting(p, r)'
    BY <1>3 DEF Promised
  <2>1. r # t /\ waitqueue[r] # <<>>
    BY <1>2, <1>5
  <2>2. PICK p \in Process : status[p] \in {"READY", "RUNNING"} /\ Requesting(p, r)
    BY <2>1 DEF Core, Promised
  <2>3. p # c
    BY <1>1, <1>2, <2>1, <2>2, OneRequest DEF TypeInv
  <2> QED BY <1>3, <1>6, <2>2, <2>3
<1> QED BY <1>3, <1>7, <1>8, <1>9, <1>10 DEF Core, Dispatch

LEMMA RunCore == TypeInv /\ WellFormed /\ Core /\ Run => Core'
<1> SUFFICES ASSUME TypeInv, WellFormed, Core, Run PROVE Core'
  OBVIOUS
<1> DEFINE c == current
<1>1. /\ c \in Process /\ pc = "acquire" /\ status[c] = "RUNNING"
      /\ age[c] < script[c].lifespan
      /\ age[c] \in Nat /\ script[c].lifespan \in Nat
  BY ScriptTypes
     DEF Run, TypeInv, TypeOK, SomeoneRuns, Core, Dispatch, Timing
<1>2. /\ UNCHANGED <<script, forkqueue, readyqueue, waitqueue, owner, current,
                     status, to_acquire>>
      /\ pc' = "release"
      /\ age'[c] = age[c] + 1
      /\ \A p \in Process \ {c} : age'[p] = age[p] /\ holding'[p] = holding[p]
  BY <1>1 DEF Run, queues, TypeInv, TypeOK
<1>3. DOMAIN holding'[c] = DOMAIN holding[c]
  BY <1>1 DEF Run, TypeInv, TypeOK
<1>4. ASSUME NEW j \in DOMAIN holding[c]
      PROVE  /\ holding'[c][j].resource_id = holding[c][j].resource_id
             /\ holding'[c][j].at = holding[c][j].at
             /\ age[c] + holding[c][j].duration = age'[c] + holding'[c][j].duration
  <2>1. holding'[c][j] = Decremented(holding[c][j])
    BY <1>1 DEF Run, TypeInv, TypeOK
  <2>2. holding[c][j] \in ResourceSchedule /\ holding[c][j].duration \in Nat
    BY <1>1, UseLists, UseTypes DEF TypeInv
  <2>3. holding[c][j].duration # 0
    BY <1>1 DEF Core, Timing
  <2> QED BY <1>1, <1>2, <2>1, <2>2, <2>3 DEF Decremented, ResourceSchedule
<1>5. \A p \in Process \ {c} : \A r : Requesting(p, r)' <=> Requesting(p, r)
  BY <1>2, RequestingKept
<1>6. \A r : ~Requesting(c, r)
  BY DEF Run, Requesting, Least
<1>7. Placement'
  <2>1. \A r \in Resource : c \notin ToSet(waitqueue[r])
    BY <1>1 DEF Core, Placement
  <2> QED BY <1>2, <1>5, <2>1 DEF Core, Placement
<1>8. Timing'
  <2>1. ASSUME NEW p \in Process
        PROVE  /\ status'[p] \in {"READY", "BLOCKED"} => age'[p] < script'[p].lifespan
               /\ status'[p] = "RUNNING" => age'[p] <= script'[p].lifespan
               /\ p = current' /\ pc' = "acquire" => age'[p] < script'[p].lifespan
               /\ status'[p] = "EXIT" => holding'[p] = <<>> /\ to_acquire'[p] = <<>>
    BY <1>1, <1>2 DEF Core, Timing
  <2>2. ASSUME NEW p \in Process, NEW j \in DOMAIN to_acquire'[p]
        PROVE  /\ to_acquire'[p][j].at >= age'[p]
               /\ to_acquire'[p][j] \in ToSet(script'[p].acquire)
    <3>1. CASE p # c
      BY <1>2, <3>1 DEF Core, Timing
    <3>2. CASE p = c
      <4>1. to_acquire[c][j].at >= age[c] /\ to_acquire[c][j].at # age[c]
        BY <1>1, <1>2, <2>2, <3>2 DEF Core, Timing, Run, Requests
      <4>2. to_acquire[c][j].at \in Nat
        BY <1>1, <1>2, <2>2, <3>2, UseLists, UseTypes DEF TypeInv
      <4> QED BY <1>1, <1>2, <3>2, <4>1, <4>2 DEF Core, Timing
    <3> QED BY <3>1, <3>2
  <2>3. ASSUME NEW p \in Process, NEW j \in DOMAIN holding'[p], holding'[p][j].duration = 0
        PROVE  p = current' /\ pc' = "release"
    BY <1>1, <1>2, <2>3 DEF Core, Timing
  <2> QED BY <2>1, <2>2, <2>3 DEF Timing
<1>9. DeclaredUse'
  <2> SUFFICES ASSUME NEW p \in Process, NEW j \in DOMAIN holding'[p]
               PROVE  \E k \in DOMAIN script[p].acquire :
                        /\ holding'[p][j].resource_id = script[p].acquire[k].resource_id
                        /\ holding'[p][j].at = script[p].acquire[k].at
                        /\ age'[p] + holding'[p][j].duration =
                             script[p].acquire[k].at + script[p].acquire[k].duration
    BY <1>2 DEF DeclaredUse
  <2>1. CASE p # c
    BY <1>2, <2>1 DEF Core, DeclaredUse
  <2>2. CASE p = c
    BY <1>1, <1>3, <1>4, <2>2 DEF Core, DeclaredUse
  <2> QED BY <2>1, <2>2
<1>10. Ownership'
  BY <1>1, <1>2, <1>3, <1>4 DEF Core, Ownership
<1>11. Promised'
  BY <1>2, <1>5, <1>6 DEF Core, Promised
<1> QED BY <1>1, <1>2, <1>7, <1>8, <1>9, <1>10, <1>11 DEF Core, Dispatch

-----------------------------------------------------------------------------
(* Releasing *)

LEMMA ReleaseDoneCore == TypeInv /\ WellFormed /\ Core /\ ReleaseDone => Core'
<1> SUFFICES ASSUME TypeInv, WellFormed, Core, ReleaseDone PROVE Core'
  OBVIOUS
<1>1. /\ UNCHANGED <<script, forkqueue, readyqueue, waitqueue, owner, current,
                     status, age, to_acquire, holding>>
      /\ pc = "release" /\ pc' = "fork"
      /\ \A i \in DOMAIN holding[current] : holding[current][i].duration # 0
  BY DEF ReleaseDone, NextTick, queues, procs, Expired
<1>2. Placement' /\ Promised'
  BY <1>1, RequestingKept DEF Core, Placement, Promised
<1>3. Timing'
  BY <1>1 DEF Core, Timing
<1> QED BY <1>1, <1>2, <1>3 DEF Core, DeclaredUse, Ownership, Dispatch

LEMMA ReleaseCore == TypeInv /\ WellFormed /\ Core /\ Release => Core'
<1> SUFFICES ASSUME TypeInv, WellFormed, Core, Release PROVE Core'
  OBVIOUS
<1> DEFINE c == current
<1>1. /\ c \in Process /\ pc = "release" /\ status[c] = "RUNNING"
  BY DEF Release, TypeInv, TypeOK, SomeoneRuns, Core, Dispatch
<1>2. PICK i \in Least(Expired) :
        /\ pc' = IF ReleaseFails(holding[c][i].resource_id) THEN "aborted" ELSE pc
        /\ owner' = [owner EXCEPT ![holding[c][i].resource_id] = NULL]
        /\ Wake(holding[c][i].resource_id)
        /\ holding' = [holding EXCEPT ![c] = RemoveAt(holding[c], i)]
  BY DEF Release
<1> DEFINE t == holding[c][i].resource_id
<1>3. UNCHANGED <<script, forkqueue, current, age, to_acquire>>
  BY DEF Release
<1>4. /\ holding[c] \in Seq(ResourceSchedule)
      /\ i \in DOMAIN holding[c] /\ t \in Resource
  BY <1>1, UseLists, UseTypes DEF TypeInv, Least, Expired
<1>5. owner[t] = c
  BY <1>1, <1>4 DEF Core, Ownership
<1>6. /\ owner'[t] = NULL /\ \A r \in Resource \ {t} : owner'[r] = owner[r]
      /\ holding'[c] = RemoveAt(holding[c], i)
      /\ \A p \in Process \ {c} : holding'[p] = holding[p]
  BY <1>1, <1>2, <1>4 DEF TypeInv, TypeOK
<1>7. /\ \A j \in DOMAIN holding'[c] :
           \E k \in DOMAIN holding[c] \ {i} : holding'[c][j] = holding[c][k]
      /\ \A k \in DOMAIN holding[c] \ {i} :
           \E j \in DOMAIN holding'[c] : holding'[c][j] = holding[c][k]
      /\ \A j, k \in DOMAIN holding'[c] :
           j # k => \E m, n \in DOMAIN holding[c] \ {i} :
                      m # n /\ holding'[c][j] = holding[c][m] /\ holding'[c][k] = holding[c][n]
  <2> DEFINE h == holding[c]
             kept == RemoveAt(h, i)
  <2> HIDE DEF h, kept
  <2>1. h \in Seq(ResourceSchedule) /\ i \in DOMAIN h
    BY <1>4 DEF h
  <2>2. /\ \A j \in DOMAIN kept : \E k \in DOMAIN h \ {i} : kept[j] = h[k]
        /\ \A k \in DOMAIN h \ {i} : \E j \in DOMAIN kept : kept[j] = h[k]
        /\ \A j, k \in DOMAIN kept :
             j # k => \E m, n \in DOMAIN h \ {i} : m # n /\ kept[j] = h[m] /\ kept[k] = h[n]
    BY <2>1, RemoveAtMembers DEF kept
  <2>3. holding'[c] = kept /\ holding[c] = h
    BY <1>6 DEF kept, h
  <2> QED BY <2>2, <2>3
<1>8. \A p \in Process : \A r : Requesting(p, r)' <=> Requesting(p, r)
  BY <1>3, RequestingKept
<1>9. waitqueue[t] \in Seq(Process) /\ readyqueue \in Seq(Process)
  BY <1>4 DEF TypeInv, TypeOK
<1>10. ASSUME waitqueue[t] # <<>>
       PROVE  \E w \in Process :
                /\ w \in ToSet(waitqueue[t]) /\ w # c
                /\ status[w] = "BLOCKED" /\ Requesting(w, t)
                /\ IsInjective(waitqueue'[t]) /\ IsInjective(readyqueue')
                /\ ToSet(waitqueue'[t]) = ToSet(waitqueue[t]) \ {w}
                /\ \A r \in Resource \ {t} : waitqueue'[r] = waitqueue[r]
                /\ ToSet(readyqueue') = ToSet(readyqueue) \cup {w}
                /\ status'[w] = "READY"
                /\ \A p \in Process \ {w} : status'[p] = status[p]
  <2>1. PICK k \in First(waitqueue[t], WakeKey) :
          /\ waitqueue' = [waitqueue EXCEPT ![t] = RemoveAt(waitqueue[t], k)]
          /\ readyqueue' = Append(readyqueue, waitqueue[t][k])
          /\ status' = [status EXCEPT ![waitqueue[t][k]] = "READY"]
    BY <1>2, <1>10 DEF Wake, HasWaiters
  <2> DEFINE w == waitqueue[t][k]
  <2>2. /\ k \in DOMAIN waitqueue[t] /\ k \in 1 .. Len(waitqueue[t])
        /\ w \in Process /\ w \in ToSet(waitqueue[t])
    BY <1>9, Entry DEF First
  <2>3. status[w] = "BLOCKED" /\ Requesting(w, t) /\ w # c /\ w \notin ToSet(readyqueue)
    BY <1>1, <1>4, <2>2 DEF Core, Placement
  <2>4. /\ waitqueue'[t] = RemoveAt(waitqueue[t], k)
        /\ \A r \in Resource \ {t} : waitqueue'[r] = waitqueue[r]
        /\ status'[w] = "READY"
        /\ \A p \in Process \ {w} : status'[p] = status[p]
    BY <1>4, <2>1, <2>2 DEF TypeInv, TypeOK
  <2>5. IsInjective(waitqueue'[t]) /\ ToSet(waitqueue'[t]) = ToSet(waitqueue[t]) \ {w}
    BY <1>4, <1>9, <2>2, <2>4, RemoveAtInjective DEF Core, Placement
  <2>6. IsInjective(readyqueue') /\ ToSet(readyqueue') = ToSet(readyqueue) \cup {w}
    BY <1>9, <2>1, <2>2, <2>3, AppendFacts DEF Core, Placement
  <2> QED BY <2>2, <2>3, <2>4, <2>5, <2>6
<1>11. ASSUME waitqueue[t] = <<>>
       PROVE  UNCHANGED <<waitqueue, readyqueue, status>>
  BY <1>2, <1>11 DEF Wake, HasWaiters
<1>12. pc' = "release"
  <2>1. waitqueue[t] # <<>> => status[waitqueue[t][1]] = "BLOCKED"
    <3> SUFFICES ASSUME waitqueue[t] # <<>> PROVE status[waitqueue[t][1]] = "BLOCKED"
      OBVIOUS
    <3>1. 1 \in DOMAIN waitqueue[t]
      BY <1>9, EmptySeq, LenProperties
    <3>2. waitqueue[t][1] \in Process /\ waitqueue[t][1] \in ToSet(waitqueue[t])
      BY <1>9, <3>1, Entry
    <3> QED BY <1>4, <3>2 DEF Core, Placement
  <2> QED BY <1>1, <1>2, <1>5, <2>1 DEF ReleaseFails, HasWaiters
<1>13. Placement'
  <2>1. CASE waitqueue[t] = <<>>
    BY <1>3, <1>8, <1>11, <2>1 DEF Core, Placement
  <2>2. CASE waitqueue[t] # <<>>
    <3>1. PICK w \in Process :
            /\ w \in ToSet(waitqueue[t]) /\ w # c
            /\ status[w] = "BLOCKED" /\ Requesting(w, t)
            /\ IsInjective(waitqueue'[t]) /\ IsInjective(readyqueue')
            /\ ToSet(waitqueue'[t]) = ToSet(waitqueue[t]) \ {w}
            /\ \A r \in Resource \ {t} : waitqueue'[r] = waitqueue[r]
            /\ ToSet(readyqueue') = ToSet(readyqueue) \cup {w}
            /\ status'[w] = "READY"
            /\ \A p \in Process \ {w} : status'[p] = status[p]
      BY <1>10, <2>2
    <3>2. \A r \in Resource : w \notin ToSet(waitqueue'[r])
      <4> SUFFICES ASSUME NEW r \in Resource, r # t, w \in ToSet(waitqueue[r]) PROVE FALSE
        BY <1>4, <3>1
      <4>1. Requesting(w, r)
        BY DEF Core, Placement
      <4> QED BY <3>1, <4>1, OneRequest DEF TypeInv
    <3>3. \A p \in Process \ {w}, r \in Resource :
            p \in ToSet(waitqueue'[r]) <=> p \in ToSet(waitqueue[r])
      BY <1>4, <3>1
    <3>4. /\ IsInjective(forkqueue') /\ IsInjective(readyqueue')
          /\ \A r \in Resource : IsInjective(waitqueue'[r])
          /\ ToSet(forkqueue') \cap ToSet(readyqueue') = {}
      BY <1>3, <1>4, <3>1 DEF Core, Placement
    <3>5. ASSUME NEW p \in Process
          PROVE  /\ status'[p] = "READY" <=> p \in ToSet(forkqueue') \cup ToSet(readyqueue')
                 /\ status'[p] = "RUNNING" <=> p = current' /\ status'[p] # "BLOCKED"
                 /\ status'[p] = "BLOCKED" <=> \E r \in Resource : p \in ToSet(waitqueue'[r])
                 /\ \A r \in Resource : p \in ToSet(waitqueue'[r]) => Requesting(p, r)'
      <4>1. CASE p = w
        BY <1>3, <3>1, <3>2, <4>1
      <4>2. CASE p # w
        BY <1>3, <1>8, <3>1, <3>3, <4>2 DEF Core, Placement
      <4> QED BY <4>1, <4>2
    <3> QED BY <3>4, <3>5 DEF Placement
  <2> QED BY <2>1, <2>2
<1>14. /\ status'[c] = "RUNNING"
       /\ \A p \in Process : \/ status'[p] = status[p]
                             \/ status[p] = "BLOCKED" /\ status'[p] = "READY"
  BY <1>1, <1>10, <1>11
<1>15. Timing'
  <2>1. ASSUME NEW p \in Process, NEW j \in DOMAIN holding'[p], holding'[p][j].duration = 0
        PROVE  p = current' /\ pc' = "release"
    BY <1>1, <1>3, <1>6, <1>12, <2>1 DEF Core, Timing
  <2>2. ASSUME NEW p \in Process
        PROVE  /\ status'[p] \in {"READY", "BLOCKED"} => age'[p] < script'[p].lifespan
               /\ status'[p] = "RUNNING" => age'[p] <= script'[p].lifespan
               /\ p = current' /\ pc' = "acquire" => age'[p] < script'[p].lifespan
               /\ status'[p] = "EXIT" => holding'[p] = <<>> /\ to_acquire'[p] = <<>>
    BY <1>1, <1>3, <1>6, <1>12, <1>14 DEF Core, Timing
  <2> QED BY <1>3, <2>1, <2>2 DEF Core, Timing
<1>16. DeclaredUse'
  <2> SUFFICES ASSUME NEW p \in Process, NEW j \in DOMAIN holding'[p]
               PROVE  \E k \in DOMAIN script[p].acquire :
                        /\ holding'[p][j].resource_id = script[p].acquire[k].resource_id
                        /\ holding'[p][j].at = script[p].acquire[k].at
                        /\ age[p] + holding'[p][j].duration =
                             script[p].acquire[k].at + script[p].acquire[k].duration
    BY <1>3 DEF DeclaredUse
  <2>1. PICK k \in DOMAIN holding[p] : holding'[p][j] = holding[p][k]
    BY <1>1, <1>6, <1>7
  <2> QED BY <2>1 DEF Core, DeclaredUse
<1>17. Ownership'
  <2>1. ASSUME NEW p \in Process, NEW r \in Resource
        PROVE  owner'[r] = p <=> \E j \in DOMAIN holding'[p] : holding'[p][j].resource_id = r
    <3>1. CASE p # c
      BY <1>5, <1>6, <3>1, NullIsNoProcess DEF Core, Ownership
    <3>2. CASE p = c /\ r = t
      <4>1. \A k \in DOMAIN holding[c] \ {i} : holding[c][k].resource_id # t
        BY <1>1, <1>4 DEF Core, Ownership
      <4> QED BY <1>6, <1>7, <3>2, <4>1, NullIsNoProcess
    <3>3. CASE p = c /\ r # t
      <4>1. owner[r] = c <=> \E k \in DOMAIN holding[c] : holding[c][k].resource_id = r
        BY <1>1 DEF Core, Ownership
      <4> QED BY <1>6, <1>7, <3>3, <4>1
    <3> QED BY <3>1, <3>2, <3>3
  <2>2. ASSUME NEW p \in Process, NEW j \in DOMAIN holding'[p], NEW k \in DOMAIN holding'[p],
               holding'[p][j].resource_id = holding'[p][k].resource_id, j # k
        PROVE  FALSE
    <3>1. CASE p # c
      BY <1>6, <2>2, <3>1 DEF Core, Ownership
    <3>2. CASE p = c
      <4>1. PICK m, n \in DOMAIN holding[c] \ {i} :
              m # n /\ holding'[c][j] = holding[c][m] /\ holding'[c][k] = holding[c][n]
        BY <1>7, <2>2, <3>2
      <4> QED BY <1>1, <2>2, <3>2, <4>1 DEF Core, Ownership
    <3> QED BY <3>1, <3>2
  <2> QED BY <2>1, <2>2 DEF Ownership
<1>18. Promised'
  <2> SUFFICES ASSUME NEW r \in Resource, owner'[r] = NULL, waitqueue'[r] # <<>>
               PROVE  \E p \in Process : /\ status'[p] \in {"READY", "RUNNING"}
                                         /\ Requesting(p, r)
    BY <1>8 DEF Promised
  <2>1. CASE r = t
    <3>1. waitqueue[t] # <<>>
      BY <1>11, <2>1
    <3> QED BY <1>10, <2>1, <3>1
  <2>2. CASE r # t
    <3>1. owner[r] = NULL /\ waitqueue[r] # <<>>
      BY <1>6, <1>10, <1>11, <2>2
    <3>2. PICK p \in Process : status[p] \in {"READY", "RUNNING"} /\ Requesting(p, r)
      BY <3>1 DEF Core, Promised
    <3> QED BY <1>14, <3>2
  <2> QED BY <2>1, <2>2
<1>19. Dispatch'
  BY <1>3, <1>12, <1>14 DEF Dispatch
<1> QED BY <1>12, <1>13, <1>15, <1>16, <1>17, <1>18, <1>19 DEF Core

-----------------------------------------------------------------------------
(* The theorems *)

\* The part of IInv that these theorems follow from.
CoreInv == TypeOK /\ SomeoneRuns /\ (WellFormed => Core)

LEMMA CoreInvInit == Init => CoreInv
BY TypeInit, CoreInit DEF CoreInv, TypeInv

LEMMA CoreInvStep == CoreInv /\ [Next]_vars => CoreInv'
<1> SUFFICES ASSUME CoreInv, [Next]_vars PROVE CoreInv'
  OBVIOUS
<1>1. TypeInv /\ TypeInv' /\ (WellFormed' <=> WellFormed)
  BY TypeStep, WellFormedKept DEF CoreInv, TypeInv
<1>2. ASSUME WellFormed PROVE Core'
  <2>1. Core
    BY <1>2 DEF CoreInv
  <2>2. CASE Fork
    BY <1>1, <1>2, <2>1, <2>2, ForkCore
  <2>3. CASE ForkDone
    BY <2>1, <2>3, ForkDoneCore
  <2>4. CASE ExitAborts
    BY <1>1, <1>2, <2>1, <2>4, ExitIsClean DEF ExitAborts
  <2>5. CASE ScheduleKeep
    BY <1>1, <1>2, <2>1, <2>5, ScheduleKeepCore
  <2>6. CASE SchedulePick
    BY <1>1, <1>2, <2>1, <2>6, SchedulePickCore
  <2>7. CASE ScheduleNone
    BY <1>1, <1>2, <2>1, <2>7, ScheduleNoneCore
  <2>8. CASE Grant
    BY <1>1, <1>2, <2>1, <2>8, GrantCore
  <2>9. CASE Block
    BY <1>1, <1>2, <2>1, <2>9, BlockCore
  <2>10. CASE Run
    BY <1>1, <1>2, <2>1, <2>10, RunCore
  <2>11. CASE Release
    BY <1>1, <1>2, <2>1, <2>11, ReleaseCore
  <2>12. CASE ReleaseDone
    BY <1>1, <1>2, <2>1, <2>12, ReleaseDoneCore
  <2>13. CASE UNCHANGED vars
    BY <2>1, <2>13, RequestingKept
       DEF vars, queues, procs, Core, Placement, Timing, DeclaredUse, Dispatch,
           Ownership, Promised
  <2> QED BY <2>2, <2>3, <2>4, <2>5, <2>6, <2>7, <2>8, <2>9, <2>10, <2>11,
             <2>12, <2>13 DEF Next, Terminating
<1> QED BY <1>1, <1>2 DEF CoreInv, TypeInv

LEMMA CoreInvAlways == Spec => []CoreInv
BY CoreInvInit, CoreInvStep, PTL DEF Spec

\* On a well-formed script no assertion of the simulator ever fails.
THEOREM NoAssertionFails == Spec => []AssertsHold
<1>1. CoreInv => AssertsHold
  BY DEF CoreInv, Core, AssertsHold
<1> QED BY <1>1, CoreInvAlways, PTL

\* On a well-formed script every process is in exactly one place at any time.
THEOREM NobodyIsLost == Spec => []EveryoneInOnePlace
<1>1. CoreInv => EveryoneInOnePlace
  BY DEF CoreInv, Core, EveryoneInOnePlace
<1> QED BY <1>1, CoreInvAlways, PTL

\* On a well-formed script a resource is owned by the one process that has it
\* on its list of held resources.
THEOREM ExclusiveUse == Spec => []OwnersHold
<1>1. CoreInv => OwnersHold
  BY DEF CoreInv, Core, OwnersHold
<1> QED BY <1>1, CoreInvAlways, PTL

\* On a well-formed script resources are held exactly as long as declared.
THEOREM UsedAsDeclared == Spec => []HeldAsDeclared
<1>1. CoreInv => HeldAsDeclared
  BY DEF CoreInv, Core, HeldAsDeclared
<1> QED BY <1>1, CoreInvAlways, PTL

\* On a well-formed script a free resource with waiters always has somebody
\* awake who is about to take it.
THEOREM WakeupsAreNotLost == Spec => []NoLostWakeup
<1>1. CoreInv => NoLostWakeup
  BY DEF CoreInv, Core, NoLostWakeup
<1> QED BY <1>1, CoreInvAlways, PTL

\* On a well-formed script the simulation leaves behind only processes that
\* wait, directly, for another one that waits.
THEOREM OnlyDeadlocksAreLeft == Spec => []QuitsOnlyInDeadlock
<1>1. ASSUME CoreInv PROVE QuitsOnlyInDeadlock
  <2> SUFFICES ASSUME WellFormed, pc = "done", NEW p \in Process, status[p] # "EXIT"
               PROVE  \E r \in Resource : /\ p \in ToSet(waitqueue[r])
                                          /\ owner[r] # NULL
                                          /\ status[owner[r]] = "BLOCKED"
    BY DEF QuitsOnlyInDeadlock
  <2>1. TypeOK /\ Core
    BY <1>1 DEF CoreInv
  <2>2. ToSet(forkqueue) = {} /\ ToSet(readyqueue) = {} /\ current = NULL
    BY <2>1, Members DEF Core, Dispatch, TypeOK
  <2>3. \A q \in Process : status[q] \in {"BLOCKED", "EXIT"}
    BY <2>1, <2>2, NullIsNoProcess DEF Core, Placement, TypeOK
  <2>4. PICK r \in Resource : p \in ToSet(waitqueue[r])
    BY <2>1, <2>3 DEF Core, Placement
  <2>5. waitqueue[r] # <<>>
    BY <2>1, <2>4, Members DEF TypeOK
  <2>6. owner[r] # NULL /\ owner[r] \in Process
    BY <2>1, <2>3, <2>5 DEF Core, Promised, TypeOK
  <2>7. status[owner[r]] # "EXIT"
    <3>1. \E i \in DOMAIN holding[owner[r]] : holding[owner[r]][i].resource_id = r
      BY <2>1, <2>6 DEF Core, Ownership
    <3>2. holding[owner[r]] # <<>>
      BY <3>1
    <3> QED BY <2>1, <2>6, <3>2 DEF Core, Timing
  <2> QED BY <2>3, <2>4, <2>6, <2>7
<1> QED BY <1>1, CoreInvAlways, PTL

-----------------------------------------------------------------------------
(* Sums over the processes *)

\* sum in Total.
IsSum(f, counts) ==
  f = [k \in 0 .. NrProcesses |-> IF k = 0 THEN 0 ELSE f[k - 1] + counts[k]]

\* The sum of a count per process, from process to process.
LEMMA TotalIs ==
  ASSUME NEW counts \in [Process -> Nat]
  PROVE  \E f \in [0 .. NrProcesses -> Nat] :
           /\ f[0] = 0
           /\ \A k \in Process : k - 1 \in 0 .. NrProcesses /\ f[k] = f[k - 1] + counts[k]
           /\ Total(counts) = f[NrProcesses]
<1> DEFINE F == [k \in 1 .. NrProcesses |-> [x \in Nat |-> x + counts[k]]]
           sum == CHOOSE f : IsSum(f, counts)
<1>1. NrProcesses \in Nat /\ Process = 1 .. NrProcesses
  BY SchedAssumption DEF Process
<1>2. F \in [1 .. NrProcesses -> [Nat -> Nat]]
  BY <1>1
<1>3. \A k \in 1 .. NrProcesses, x \in Nat : F[k][x] = x + counts[k]
  OBVIOUS
<1> HIDE DEF F
<1>4. PICK g : Rounds(g, NrProcesses, F, Nat, 0)
  BY <1>1, <1>2, ListLoopExists
<1>5. ASSUME NEW k \in 0 .. NrProcesses
      PROVE  g[k] = IF k = 0 THEN 0 ELSE g[k - 1] + counts[k]
  <2>1. CASE k = 0
    BY <1>4, <2>1 DEF Rounds
  <2>2. CASE k # 0
    <3>1. k \in 1 .. NrProcesses /\ k - 1 \in 0 .. NrProcesses
      BY <1>1, <2>2
    <3>2. g[k - 1] \in Nat /\ g[k] = F[k][g[k - 1]]
      BY <1>4, <3>1 DEF Rounds
    <3> QED BY <1>3, <2>2, <3>1, <3>2
  <2> QED BY <2>1, <2>2
<1>6. IsSum(g, counts)
  BY <1>4, <1>5 DEF IsSum, Rounds
<1>7. IsSum(sum, counts)
  BY <1>6
<1>8. Total(counts) = sum[NrProcesses]
  BY Zenon DEF Total, IsSum
<1> HIDE DEF sum
<1>9. \A k \in 0 .. NrProcesses : sum[k] = IF k = 0 THEN 0 ELSE sum[k - 1] + counts[k]
  BY <1>7 DEF IsSum
<1>10. sum[0] = 0
  BY <1>1, <1>9
<1>11. ASSUME NEW k \in Process
       PROVE  k - 1 \in 0 .. NrProcesses /\ sum[k] = sum[k - 1] + counts[k]
  <2>1. k \in 0 .. NrProcesses /\ k # 0 /\ k - 1 \in 0 .. NrProcesses
    BY <1>1
  <2> QED BY <1>9, <2>1
<1> DEFINE T == {k \in Nat : k <= NrProcesses => sum[k] \in Nat}
<1>12. 0 \in T
  BY <1>10
<1>13. ASSUME NEW k \in Nat, k \in T PROVE k + 1 \in T
  <2> SUFFICES ASSUME k + 1 <= NrProcesses PROVE sum[k + 1] \in Nat
    OBVIOUS
  <2>1. k + 1 \in Process /\ (k + 1) - 1 = k /\ sum[k] \in Nat
    BY <1>1, <1>13
  <2>2. counts[k + 1] \in Nat
    BY <2>1
  <2>3. sum[k + 1] = sum[k] + counts[k + 1]
    BY <1>11, <2>1
  <2> QED BY <2>1, <2>2, <2>3
<1> HIDE DEF T
<1>14. Nat \subseteq T
  BY <1>12, <1>13, SetInduction
<1>15. sum \in [0 .. NrProcesses -> Nat]
  <2>1. \A k \in 0 .. NrProcesses : sum[k] \in Nat
    BY <1>1, <1>14 DEF T
  <2>2. DOMAIN sum = 0 .. NrProcesses /\ sum = [k \in DOMAIN sum |-> sum[k]]
    BY <1>7 DEF IsSum
  <2> QED BY <2>1, <2>2
<1> QED BY <1>8, <1>10, <1>11, <1>15

\* A sum changes with one count as that count does.
LEMMA TotalOfOneChanged ==
  ASSUME NEW f \in [Process -> Nat], NEW g \in [Process -> Nat], NEW q \in Process,
         \A p \in Process \ {q} : g[p] = f[p]
  PROVE  /\ Total(f) \in Nat /\ Total(g) \in Nat
         /\ Total(g) = Total(f) + (g[q] - f[q])
<1>1. NrProcesses \in Nat /\ Process = 1 .. NrProcesses
  BY SchedAssumption DEF Process
<1>2. PICK s \in [0 .. NrProcesses -> Nat] :
        /\ s[0] = 0
        /\ \A k \in Process : k - 1 \in 0 .. NrProcesses /\ s[k] = s[k - 1] + f[k]
        /\ Total(f) = s[NrProcesses]
  BY TotalIs
<1>3. PICK t \in [0 .. NrProcesses -> Nat] :
        /\ t[0] = 0
        /\ \A k \in Process : k - 1 \in 0 .. NrProcesses /\ t[k] = t[k - 1] + g[k]
        /\ Total(g) = t[NrProcesses]
  BY TotalIs
<1> DEFINE d == g[q] - f[q]
           T == {k \in Nat : k <= NrProcesses => t[k] = s[k] + (IF k < q THEN 0 ELSE d)}
<1>4. q \in Nat /\ q > 0 /\ d \in Int /\ g[q] = f[q] + d
  BY <1>1
<1> HIDE DEF d
<1>5. 0 \in T
  BY <1>1, <1>2, <1>3, <1>4
<1>6. ASSUME NEW k \in Nat, k \in T PROVE k + 1 \in T
  <2> SUFFICES ASSUME k + 1 <= NrProcesses
               PROVE  t[k + 1] = s[k + 1] + (IF k + 1 < q THEN 0 ELSE d)
    OBVIOUS
  <2>1. k + 1 \in Process /\ (k + 1) - 1 = k /\ k \in 0 .. NrProcesses
    BY <1>1
  <2>2. t[k] = s[k] + (IF k < q THEN 0 ELSE d)
    BY <1>6, <2>1
  <2>3. s[k] \in Nat /\ f[k + 1] \in Nat /\ g[k + 1] \in Nat
    BY <2>1
  <2>4. s[k + 1] = s[k] + f[k + 1] /\ t[k + 1] = t[k] + g[k + 1]
    BY <1>2, <1>3, <2>1
  <2>5. CASE k + 1 = q
    <3>1. g[k + 1] = f[k + 1] + d /\ k < q /\ ~(k + 1 < q)
      BY <1>4, <2>5
    <3> QED BY <1>4, <2>2, <2>3, <2>4, <3>1
  <2>6. CASE k + 1 # q
    <3>1. g[k + 1] = f[k + 1] /\ (k < q <=> k + 1 < q)
      BY <1>4, <2>1, <2>6
    <3> QED BY <1>4, <2>2, <2>3, <2>4, <3>1
  <2> QED BY <2>5, <2>6
<1> HIDE DEF T
<1>7. Nat \subseteq T
  BY <1>5, <1>6, SetInduction
<1>8. t[NrProcesses] = s[NrProcesses] + (IF NrProcesses < q THEN 0 ELSE d)
  BY <1>1, <1>7 DEF T
<1>9. ~(NrProcesses < q)
  BY <1>1
<1>10. s[NrProcesses] \in Nat /\ t[NrProcesses] \in Nat
  BY <1>1
<1> QED BY <1>2, <1>3, <1>4, <1>8, <1>9, <1>10 DEF d

\* A sum of no greater counts is no greater.
LEMMA TotalNotMore ==
  ASSUME NEW f \in [Process -> Nat], NEW g \in [Process -> Nat],
         \A p \in Process : g[p] <= f[p]
  PROVE  Total(f) \in Nat /\ Total(g) \in Nat /\ Total(g) <= Total(f)
<1>1. NrProcesses \in Nat /\ Process = 1 .. NrProcesses
  BY SchedAssumption DEF Process
<1>2. PICK s \in [0 .. NrProcesses -> Nat] :
        /\ s[0] = 0
        /\ \A k \in Process : k - 1 \in 0 .. NrProcesses /\ s[k] = s[k - 1] + f[k]
        /\ Total(f) = s[NrProcesses]
  BY TotalIs
<1>3. PICK t \in [0 .. NrProcesses -> Nat] :
        /\ t[0] = 0
        /\ \A k \in Process : k - 1 \in 0 .. NrProcesses /\ t[k] = t[k - 1] + g[k]
        /\ Total(g) = t[NrProcesses]
  BY TotalIs
<1> DEFINE T == {k \in Nat : k <= NrProcesses => t[k] <= s[k]}
<1>4. 0 \in T
  BY <1>2, <1>3
<1>5. ASSUME NEW k \in Nat, k \in T PROVE k + 1 \in T
  <2> SUFFICES ASSUME k + 1 <= NrProcesses PROVE t[k + 1] <= s[k + 1]
    OBVIOUS
  <2>1. k + 1 \in Process /\ (k + 1) - 1 = k /\ k \in 0 .. NrProcesses
    BY <1>1
  <2>2. t[k] <= s[k] /\ g[k + 1] <= f[k + 1]
    BY <1>5, <2>1
  <2>3. s[k] \in Nat /\ t[k] \in Nat /\ f[k + 1] \in Nat /\ g[k + 1] \in Nat
    BY <2>1
  <2>4. s[k + 1] = s[k] + f[k + 1] /\ t[k + 1] = t[k] + g[k + 1]
    BY <1>2, <1>3, <2>1
  <2> QED BY <2>2, <2>3, <2>4
<1> HIDE DEF T
<1>6. Nat \subseteq T
  BY <1>4, <1>5, SetInduction
<1>7. t[NrProcesses] <= s[NrProcesses]
  BY <1>1, <1>6 DEF T
<1>8. s[NrProcesses] \in Nat /\ t[NrProcesses] \in Nat
  BY <1>1
<1> QED BY <1>2, <1>3, <1>7, <1>8

\* It is less if one of them is.
LEMMA TotalLess ==
  ASSUME NEW f \in [Process -> Nat], NEW g \in [Process -> Nat], NEW q \in Process,
         \A p \in Process : g[p] <= f[p], g[q] < f[q]
  PROVE  Total(f) \in Nat /\ Total(g) \in Nat /\ Total(g) < Total(f)
<1> DEFINE h == [f EXCEPT ![q] = g[q]]
<1>1. /\ h \in [Process -> Nat] /\ h[q] = g[q] /\ f[q] \in Nat /\ g[q] \in Nat
      /\ \A p \in Process \ {q} : h[p] = f[p]
      /\ \A p \in Process : g[p] <= h[p]
  OBVIOUS
<1> HIDE DEF h
<1>2. /\ Total(f) \in Nat /\ Total(h) \in Nat
      /\ Total(h) = Total(f) + (h[q] - f[q])
  BY <1>1, TotalOfOneChanged
<1>3. Total(g) \in Nat /\ Total(g) <= Total(h)
  BY <1>1, TotalNotMore
<1> QED BY <1>1, <1>2, <1>3

-----------------------------------------------------------------------------
(* Time is bounded *)

\* What is ahead of a process is counted in naturals.
LEMMA AheadIs ==
  ASSUME TypeOK, Core, Lifetimes, NEW p \in Process
  PROVE  /\ script[p].lifespan - age[p] \in Nat
         /\ ToStart(p) \in Nat
         /\ ToUse(p) \in Nat
         /\ Ahead[p] = script[p].lifespan - age[p] + ToStart(p) + ToUse(p)
         /\ Ahead[p] \in Nat
<1>1. /\ script[p].lifespan \in Nat /\ script[p].start \in Nat
      /\ age[p] \in Nat /\ ticks \in Nat /\ age[p] <= script[p].lifespan
  BY ScriptTypes DEF TypeOK, Lifetimes
<1>2. to_acquire[p] \in Seq(ResourceSchedule) /\ holding[p] \in Seq(ResourceSchedule)
  BY UseLists
<1>3. Len(to_acquire[p]) \in Nat /\ Len(holding[p]) \in Nat
  BY <1>2, LenProperties
<1>4. status[p] = "BLOCKED" => Len(to_acquire[p]) > 0
  <2> SUFFICES ASSUME status[p] = "BLOCKED" PROVE Len(to_acquire[p]) > 0
    OBVIOUS
  <2>1. PICK r \in Resource : Requesting(p, r)
    BY DEF Core, Placement
  <2>2. PICK i \in DOMAIN to_acquire[p] : TRUE
    BY <2>1 DEF Requesting, Least, Requests
  <2> QED BY <1>2, <2>2, LenProperties
<1>5. ToStart(p) \in Nat
  BY <1>1 DEF ToStart
<1>6. ToUse(p) \in Nat
  <2>1. PICK l \in Nat, h \in Nat : l = Len(to_acquire[p]) /\ h = Len(holding[p])
    BY <1>3
  <2>2. ToUse(p) = 3 * l + 2 * h - (IF status[p] = "BLOCKED" THEN 1 ELSE 0)
    BY <2>1 DEF ToUse, Asleep
  <2>3. status[p] = "BLOCKED" => l >= 1
    BY <1>4, <2>1
  <2> QED BY <2>2, <2>3
<1>7. Ahead[p] = script[p].lifespan - age[p] + ToStart(p) + ToUse(p)
  BY DEF Ahead
<1>8. script[p].lifespan - age[p] \in Nat
  BY <1>1
<1> QED BY <1>5, <1>6, <1>7, <1>8

LEMMA AheadType == TypeOK /\ Core /\ Lifetimes => Ahead \in [Process -> Nat]
<1> SUFFICES ASSUME TypeOK, Core, Lifetimes PROVE Ahead \in [Process -> Nat]
  OBVIOUS
<1>1. \A p \in Process : Ahead[p] \in Nat
  BY AheadIs
<1> QED BY <1>1 DEF Ahead

\* As time goes by a process that does nothing has no more to wait,
LEMMA ToStartShrinks ==
  ASSUME TypeOK, NEW p \in Process, script' = script, ticks' \in {ticks, ticks + 1}
  PROVE  /\ ToStart(p)' <= ToStart(p)
         /\ ticks' = ticks => ToStart(p)' = ToStart(p)
         /\ ticks' = ticks + 1 /\ ticks < script[p].start => ToStart(p)' < ToStart(p)
         /\ ToStart(p) \in Nat /\ ToStart(p)' \in Nat
<1>1. script[p].start \in Nat /\ ticks \in Nat /\ ticks + 1 \in Nat
  BY ScriptTypes DEF TypeOK
<1>2. CASE ticks' = ticks
  BY <1>1, <1>2 DEF ToStart
<1>3. CASE ticks' = ticks + 1
  <2>1. ToStart(p)' = IF ticks + 1 < script[p].start THEN script[p].start - (ticks + 1) ELSE 0
    BY <1>3 DEF ToStart
  <2> QED BY <1>1, <1>3, <2>1 DEF ToStart
<1> QED BY <1>2, <1>3

\* and no more to do.
LEMMA IdleAhead ==
  ASSUME TypeOK, NEW p \in Process, script' = script, ticks' \in {ticks, ticks + 1},
         age'[p] = age[p], to_acquire'[p] = to_acquire[p], holding'[p] = holding[p],
         status'[p] = "BLOCKED" <=> status[p] = "BLOCKED",
         Ahead[p] \in Nat, Ahead'[p] \in Nat
  PROVE  /\ Ahead'[p] <= Ahead[p]
         /\ ticks' = ticks => Ahead'[p] = Ahead[p]
         /\ ticks' = ticks + 1 /\ ticks < script[p].start => Ahead'[p] < Ahead[p]
<1>1. /\ ToStart(p)' <= ToStart(p)
      /\ ticks' = ticks => ToStart(p)' = ToStart(p)
      /\ ticks' = ticks + 1 /\ ticks < script[p].start => ToStart(p)' < ToStart(p)
      /\ ToStart(p) \in Nat /\ ToStart(p)' \in Nat
  BY ToStartShrinks
<1>2. ToUse(p)' = ToUse(p)
  BY DEF ToUse, Asleep
<1>3. script[p].lifespan - age[p] \in Int /\ ToUse(p) \in Int
  <2>1. script[p].lifespan \in Nat /\ age[p] \in Nat
    BY ScriptTypes DEF TypeOK
  <2>2. Len(to_acquire[p]) \in Nat /\ Len(holding[p]) \in Nat
    BY UseLists, LenProperties
  <2> QED BY <2>1, <2>2 DEF ToUse, Asleep
<1>4. Ahead[p] = script[p].lifespan - age[p] + ToStart(p) + ToUse(p)
  BY DEF Ahead
<1>5. Ahead'[p] = script[p].lifespan - age[p] + ToStart(p)' + ToUse(p)
  BY <1>2 DEF Ahead
<1> QED BY <1>1, <1>3, <1>4, <1>5

\* While the waitqueues stay as they are so do the sleepers.
LEMMA SleepersKept ==
  ASSUME Core, Core', waitqueue' = waitqueue, NEW p \in Process
  PROVE  status'[p] = "BLOCKED" <=> status[p] = "BLOCKED"
BY DEF Core, Placement

\* Nobody outlives its life: only Run adds to an age.
LEMMA LifetimesKept ==
  ASSUME TypeInv, WellFormed, Core, Lifetimes, [Next]_vars
  PROVE  Lifetimes'
<1>1. script' = script
  BY WellFormedKept
<1>2. CASE Run
  <2>1. current \in Process /\ age[current] < script[current].lifespan
    BY <1>2 DEF Run, Core, Timing, TypeInv, TypeOK, SomeoneRuns
  <2>2. /\ age'[current] = age[current] + 1
        /\ \A p \in Process \ {current} : age'[p] = age[p]
    BY <1>2, <2>1 DEF Run, TypeInv, TypeOK
  <2>3. age[current] \in Nat /\ script[current].lifespan \in Nat
    BY <2>1, ScriptTypes DEF TypeInv, TypeOK
  <2> QED BY <1>1, <2>1, <2>2, <2>3 DEF Lifetimes
<1>3. CASE ~Run
  <2>1. age' = age
    BY <1>3 DEF Next, vars, procs, Fork, ForkDone, ExitAborts, Abort, ScheduleKeep,
                SchedulePick, ScheduleNone, Grant, Block, Release, ReleaseDone,
                Terminating
  <2> QED BY <1>1, <2>1 DEF Lifetimes
<1> QED BY <1>2, <1>3

\* Forking and picking somebody take no time and none off the script.
LEMMA NothingDone ==
  ASSUME TypeInv, TypeInv', Core, Core', Lifetimes, Lifetimes', script' = script,
         ticks' \in {ticks, ticks + 1},
         UNCHANGED <<waitqueue, age, to_acquire, holding>>
  PROVE  /\ Total(Ahead) \in Nat /\ Total(Ahead)' \in Nat
         /\ Total(Ahead)' <= Total(Ahead)
         /\ ticks' = ticks => Total(Ahead)' = Total(Ahead)
         /\ \A q \in Process : ticks' = ticks + 1 /\ ticks < script[q].start
              => Total(Ahead)' < Total(Ahead)
<1>1. Ahead \in [Process -> Nat] /\ (Ahead \in [Process -> Nat])'
  BY AheadType, PTL DEF TypeInv
<1>2. ASSUME NEW p \in Process
      PROVE  /\ Ahead'[p] <= Ahead[p]
             /\ ticks' = ticks => Ahead'[p] = Ahead[p]
             /\ ticks' = ticks + 1 /\ ticks < script[p].start => Ahead'[p] < Ahead[p]
  <2>1. status'[p] = "BLOCKED" <=> status[p] = "BLOCKED"
    BY SleepersKept
  <2>2. Ahead[p] \in Nat /\ Ahead'[p] \in Nat
    BY <1>1
  <2> QED BY <2>1, <2>2, IdleAhead DEF TypeInv
<1> DEFINE f == Ahead
           g == Ahead'
<1>3. Total(Ahead)' = Total(g)
  BY DEF Total
<1> HIDE DEF f, g
<1>4. f \in [Process -> Nat] /\ g \in [Process -> Nat]
  BY <1>1 DEF f, g
<1>5. \A p \in Process : g[p] <= f[p]
  BY <1>2 DEF f, g
<1>6. Total(f) \in Nat /\ Total(g) \in Nat /\ Total(g) <= Total(f)
  BY <1>4, <1>5, TotalNotMore
<1>7. ASSUME ticks' = ticks PROVE Total(g) = Total(f)
  <2>1. \A p \in Process : g[p] = f[p]
    BY <1>2, <1>7 DEF f, g
  <2>2. g = f
    BY <1>4, <2>1
  <2> QED BY <2>2
<1>8. ASSUME NEW q \in Process, ticks' = ticks + 1, ticks < script[q].start
      PROVE  Total(g) < Total(f)
  <2>1. g[q] < f[q]
    BY <1>2, <1>8 DEF f, g
  <2> QED BY <1>4, <1>5, <2>1, TotalLess
<1>9. Total(Ahead) = Total(f)
  BY DEF f
<1> QED BY <1>3, <1>6, <1>7, <1>8, <1>9

\* What every step finds: a well-formed script, and the invariant of its proofs.
Settled == TypeInv /\ WellFormed /\ Core /\ Lifetimes

LEMMA SettledKept == Settled /\ [Next]_vars => Settled' /\ script' = script
<1> SUFFICES ASSUME Settled, [Next]_vars PROVE Settled' /\ script' = script
  OBVIOUS
<1>1. CoreInv
  BY DEF Settled, CoreInv, TypeInv
<1>2. script' = script /\ WellFormed'
  BY WellFormedKept DEF Settled
<1>3. TypeInv' /\ Core'
  BY <1>1, <1>2, CoreInvStep, TypeStep DEF CoreInv, Settled, TypeInv
<1>4. Lifetimes'
  BY LifetimesKept DEF Settled
<1> QED BY <1>2, <1>3, <1>4 DEF Settled

LEMMA AheadInNat == Settled => Ahead \in [Process -> Nat]
BY AheadType DEF Settled, TypeInv

\* When one process gets on and nobody falls back, less is ahead.
LEMMA OneGetsOn ==
  ASSUME Settled, Settled', NEW q \in Process,
         \A p \in Process : Ahead'[p] <= Ahead[p], Ahead'[q] < Ahead[q]
  PROVE  Total(Ahead) \in Nat /\ Total(Ahead)' \in Nat /\ Total(Ahead)' < Total(Ahead)
<1> DEFINE f == Ahead
           g == Ahead'
<1>1. f \in [Process -> Nat] /\ (Ahead \in [Process -> Nat])'
  BY AheadInNat, PTL
<1>2. Total(Ahead)' = Total(g)
  BY DEF Total
<1>3. g \in [Process -> Nat] /\ (\A p \in Process : g[p] <= f[p]) /\ g[q] < f[q]
  BY <1>1
<1>4. Total(Ahead) = Total(f)
  OBVIOUS
<1> HIDE DEF f, g
<1> QED BY <1>1, <1>2, <1>3, <1>4, TotalLess

\* A process that is not current has no more ahead after a request or a tick.
LEMMA OthersAhead ==
  ASSUME Settled, Settled', script' = script, ticks' \in {ticks, ticks + 1},
         NEW c \in Process, NEW p \in Process \ {c},
         age'[p] = age[p], to_acquire'[p] = to_acquire[p], holding'[p] = holding[p],
         status'[p] = status[p]
  PROVE  Ahead'[p] <= Ahead[p]
<1>1. Ahead \in [Process -> Nat] /\ (Ahead \in [Process -> Nat])'
  BY AheadInNat, PTL
<1>2. Ahead[p] \in Nat /\ Ahead'[p] \in Nat
  BY <1>1
<1> QED BY <1>2, IdleAhead DEF Settled, TypeInv

\* What is ahead is a number.
LEMMA AheadNats ==
  ASSUME Settled, Settled', NEW p \in Process
  PROVE  Ahead[p] \in Nat /\ Ahead'[p] \in Nat
<1>1. Ahead \in [Process -> Nat] /\ (Ahead \in [Process -> Nat])'
  BY AheadInNat, PTL
<1> QED BY <1>1

\* The requests and the resources of a process, and whether it sleeps, before a
\* step and after it.
Sizes(p, l, m, h, n, b, d) ==
  /\ l = Len(to_acquire[p]) /\ m = Len(to_acquire'[p])
  /\ h = Len(holding[p]) /\ n = Len(holding'[p])
  /\ b = Asleep(p) /\ d = Asleep(p)'

\* How what is ahead of one process changes.
LEMMA AheadChanges ==
  ASSUME Settled, Settled', script' = script, ticks' \in {ticks, ticks + 1},
         NEW c \in Process, NEW l \in Nat, NEW m \in Nat, NEW h \in Nat, NEW n \in Nat,
         NEW b \in 0 .. 1, NEW d \in 0 .. 1, Sizes(c, l, m, h, n, b, d)
  PROVE  /\ Ahead[c] \in Nat /\ Ahead'[c] \in Nat /\ age[c] \in Nat /\ age'[c] \in Nat
         /\ Ahead'[c] <= Ahead[c] + age[c] - age'[c] + 3 * (m - l) + 2 * (n - h) + b - d
         /\ ticks' = ticks =>
              Ahead'[c] = Ahead[c] + age[c] - age'[c] + 3 * (m - l) + 2 * (n - h) + b - d
<1>1. /\ ToStart(c)' <= ToStart(c) /\ (ticks' = ticks => ToStart(c)' = ToStart(c))
      /\ ToStart(c) \in Nat /\ ToStart(c)' \in Nat
  BY ToStartShrinks DEF Settled, TypeInv
<1>2. /\ Ahead[c] = script[c].lifespan - age[c] + ToStart(c) + ToUse(c)
      /\ Ahead'[c] = script[c].lifespan - age'[c] + ToStart(c)' + ToUse(c)'
  BY DEF Ahead
<1>3. ToUse(c) = 3 * l + 2 * h - b /\ ToUse(c)' = 3 * m + 2 * n - d
  BY DEF ToUse, Sizes
<1>4. PICK k \in Nat, a \in Nat, e \in Nat, s \in Nat, r \in Nat :
        /\ k = script[c].lifespan /\ a = age[c] /\ e = age'[c]
        /\ s = ToStart(c) /\ r = ToStart(c)'
  <2>1. script[c].lifespan \in Nat /\ age[c] \in Nat /\ age'[c] \in Nat
    BY ScriptTypes DEF Settled, TypeInv, TypeOK
  <2> QED BY <1>1, <2>1
<1>5. PICK x \in Nat, y \in Nat : x = Ahead[c] /\ y = Ahead'[c]
  BY AheadNats
<1>6. x = k - a + s + (3 * l + 2 * h - b) /\ y = k - e + r + (3 * m + 2 * n - d)
  BY <1>2, <1>3, <1>4, <1>5
<1>7. r <= s /\ (ticks' = ticks => r = s)
  BY <1>1, <1>4
<1>8. /\ y <= x + a - e + 3 * (m - l) + 2 * (n - h) + b - d
      /\ r = s => y = x + a - e + 3 * (m - l) + 2 * (n - h) + b - d
  BY <1>6, <1>7
<1> QED BY <1>4, <1>5, <1>7, <1>8

\* Both lists of a process have a length.
LEMMA UsesCounted ==
  ASSUME TypeOK
  PROVE  \A p \in Process : Len(to_acquire[p]) \in Nat /\ Len(holding[p]) \in Nat
BY UseLists, LenProperties

\* A granted request is off the list of those to make; what it took is to be
\* given back.
LEMMA GrantAhead ==
  ASSUME Settled, Settled', script' = script, Grant
  PROVE  Total(Ahead) \in Nat /\ Total(Ahead)' \in Nat /\ Total(Ahead)' < Total(Ahead)
<1>1. PICK c \in Process : c = current
  BY DEF Settled, TypeInv, SomeoneRuns, TypeOK, Grant
<1>2. /\ to_acquire \in [Process -> Seq(ResourceSchedule)]
      /\ holding \in [Process -> Seq(ResourceSchedule)]
      /\ to_acquire[c] \in Seq(ResourceSchedule) /\ holding[c] \in Seq(ResourceSchedule)
  BY DEF Settled, TypeInv, TypeOK
<1>3. PICK i \in Least(Requests(c)) :
        /\ to_acquire' = [to_acquire EXCEPT ![c] = RemoveAt(to_acquire[c], i)]
        /\ holding' = [holding EXCEPT ![c] = Append(holding[c], to_acquire[c][i])]
        /\ ticks' = ticks /\ age' = age /\ status' = status
  BY <1>1 DEF Grant
<1>4. i \in DOMAIN to_acquire[c] /\ to_acquire[c][i] \in ResourceSchedule
      /\ i \in 1 .. Len(to_acquire[c])
  BY <1>2, <1>3, LenProperties DEF Least, Requests
<1>5. Len(to_acquire'[c]) = Len(to_acquire[c]) - 1
  BY <1>2, <1>3, <1>4, RemoveAtFacts
<1>6. Len(holding'[c]) = Len(holding[c]) + 1
  BY <1>2, <1>3, <1>4
<1>7. PICK l \in Nat, h \in Nat : l = Len(to_acquire[c]) /\ h = Len(holding[c])
  BY UsesCounted DEF Settled, TypeInv
<1>8. PICK b \in 0 .. 1 : b = Asleep(c)
  BY DEF Asleep
<1>9. PICK m \in Nat, n \in Nat : m = l - 1 /\ n = h + 1
  <2>1. l - 1 \in Nat /\ h + 1 \in Nat
    BY <1>4, <1>7
  <2> QED BY <2>1
<1>10. Ahead'[c] = Ahead[c] - 1 /\ Ahead[c] \in Nat
  <2>1. /\ Ahead[c] \in Nat /\ age[c] \in Nat
        /\ Ahead'[c] = Ahead[c] + age[c] - age'[c] + 3 * (m - l) + 2 * (n - h) + b - b
    <3>1. Sizes(c, l, m, h, n, b, b)
      BY <1>3, <1>5, <1>6, <1>7, <1>8, <1>9 DEF Sizes, Asleep
    <3> QED BY <1>3, <3>1, AheadChanges
  <2>2. age'[c] = age[c] /\ 3 * (m - l) = 0 - 3 /\ 2 * (n - h) = 2
    BY <1>3, <1>9
  <2> QED BY <2>1, <2>2
<1>11. \A p \in Process \ {c} : Ahead'[p] <= Ahead[p]
  BY <1>2, <1>3, OthersAhead
<1> QED BY <1>10, <1>11, OneGetsOn

\* Who falls asleep does so for the first and the only time for that request.
LEMMA BlockAhead ==
  ASSUME Settled, Settled', script' = script, Block
  PROVE  Total(Ahead) \in Nat /\ Total(Ahead)' \in Nat /\ Total(Ahead)' < Total(Ahead)
<1>1. PICK c \in Process : c = current /\ status[c] = "RUNNING"
  BY DEF Settled, TypeInv, SomeoneRuns, TypeOK, Block, Core, Dispatch
<1>2. /\ status' = [status EXCEPT ![c] = "BLOCKED"] /\ ticks' = ticks + 1
      /\ age' = age /\ to_acquire' = to_acquire /\ holding' = holding
  BY <1>1 DEF Block, NextTick
<1>3. status'[c] = "BLOCKED" /\ \A p \in Process \ {c} : status'[p] = status[p]
  BY <1>2 DEF Settled, TypeInv, TypeOK
<1>4. PICK l \in Nat, h \in Nat : l = Len(to_acquire[c]) /\ h = Len(holding[c])
  BY UsesCounted DEF Settled, TypeInv
<1>5. Ahead'[c] < Ahead[c]
  <2>1. /\ Ahead[c] \in Nat /\ Ahead'[c] \in Nat /\ age[c] \in Nat
        /\ Ahead'[c] <= Ahead[c] + age[c] - age'[c] + 3 * (l - l) + 2 * (h - h) + 0 - 1
    <3>1. Sizes(c, l, l, h, h, 0, 1)
      BY <1>1, <1>2, <1>3, <1>4 DEF Sizes, Asleep
    <3>2. 0 \in 0 .. 1 /\ 1 \in 0 .. 1
      OBVIOUS
    <3> QED BY <1>2, <3>1, <3>2, AheadChanges
  <2> QED BY <1>2, <2>1
<1>6. \A p \in Process \ {c} : Ahead'[p] <= Ahead[p]
  BY <1>2, <1>3, OthersAhead
<1>7. \A p \in Process : Ahead'[p] <= Ahead[p]
  <2>1. Ahead[c] \in Nat /\ Ahead'[c] \in Nat
    BY AheadNats
  <2> QED BY <1>5, <1>6, <2>1
<1> QED BY <1>5, <1>7, OneGetsOn

\* Running is a tick less to live.
LEMMA RunAhead ==
  ASSUME Settled, Settled', script' = script, Run
  PROVE  Total(Ahead) \in Nat /\ Total(Ahead)' \in Nat /\ Total(Ahead)' < Total(Ahead)
<1>1. PICK c \in Process : c = current
  BY DEF Settled, TypeInv, SomeoneRuns, TypeOK, Run
<1>2. PICK hs : /\ age' = [age EXCEPT ![c] = age[c] + 1]
                /\ hs = [i \in DOMAIN holding[c] |-> Decremented(holding[c][i])]
                /\ holding' = [holding EXCEPT ![c] = hs]
                /\ ticks' = ticks /\ to_acquire' = to_acquire /\ status' = status
  BY <1>1 DEF Run
<1>3. /\ holding \in [Process -> Seq(ResourceSchedule)] /\ age \in [Process -> Nat]
      /\ holding' \in [Process -> Seq(ResourceSchedule)]
  BY DEF Settled, TypeInv, TypeOK
<1>4. age'[c] = age[c] + 1 /\ holding'[c] = hs
  BY <1>2, <1>3
<1>5. /\ \A p \in Process \ {c} : age'[p] = age[p]
      /\ \A p \in Process \ {c} : holding'[p] = holding[p]
  BY <1>2, <1>3
<1>6. Len(holding'[c]) = Len(holding[c])
  <2>1. DOMAIN hs = DOMAIN holding[c]
    BY <1>2
  <2>2. hs \in Seq(ResourceSchedule) /\ holding[c] \in Seq(ResourceSchedule)
    BY <1>3, <1>4
  <2> QED BY <1>4, <2>1, <2>2, LenProperties
<1>7. PICK l \in Nat, h \in Nat : l = Len(to_acquire[c]) /\ h = Len(holding[c])
  BY UsesCounted DEF Settled, TypeInv
<1>8. PICK b \in 0 .. 1 : b = Asleep(c)
  BY DEF Asleep
<1>9. Ahead'[c] = Ahead[c] - 1 /\ Ahead[c] \in Nat
  <2>1. /\ Ahead[c] \in Nat /\ age[c] \in Nat
        /\ Ahead'[c] = Ahead[c] + age[c] - age'[c] + 3 * (l - l) + 2 * (h - h) + b - b
    <3>1. Sizes(c, l, l, h, h, b, b)
      BY <1>2, <1>6, <1>7, <1>8 DEF Sizes, Asleep
    <3> QED BY <1>2, <3>1, AheadChanges
  <2> QED BY <1>4, <2>1
<1>10. \A p \in Process \ {c} : Ahead'[p] <= Ahead[p]
  BY <1>2, <1>5, OthersAhead
<1> QED BY <1>9, <1>10, OneGetsOn

\* A resource given back outweighs the waiter it wakes.
LEMMA OneIsWoken ==
  ASSUME NEW f \in [Process -> Nat], NEW g \in [Process -> Nat],
         NEW c \in Process, NEW w \in Process \ {c},
         g[c] = f[c] - 2, g[w] = f[w] + 1,
         \A p \in Process \ {c, w} : g[p] <= f[p]
  PROVE  Total(f) \in Nat /\ Total(g) \in Nat /\ Total(g) < Total(f)
<1> DEFINE u == [f EXCEPT ![w] = f[w] + 1]
           v == [u EXCEPT ![c] = g[c]]
<1>1. /\ u \in [Process -> Nat] /\ u[w] = f[w] + 1
      /\ \A p \in Process \ {w} : u[p] = f[p]
  OBVIOUS
<1>2. /\ v \in [Process -> Nat] /\ v[c] = g[c]
      /\ \A p \in Process \ {c} : v[p] = u[p]
  BY <1>1
<1> HIDE DEF u, v
<1>3. f[c] \in Nat /\ f[w] \in Nat /\ g[c] \in Nat
  OBVIOUS
<1>4. Total(f) \in Nat /\ Total(u) \in Nat /\ Total(u) = Total(f) + (u[w] - f[w])
  BY <1>1, TotalOfOneChanged
<1>5. Total(v) \in Nat /\ Total(v) = Total(u) + (v[c] - u[c])
  BY <1>1, <1>2, TotalOfOneChanged
<1>6. u[c] = f[c]
  BY <1>1
<1>7. Total(v) = Total(f) - 1
  BY <1>1, <1>2, <1>3, <1>4, <1>5, <1>6
<1>8. \A p \in Process : g[p] <= v[p]
  <2>1. g[c] <= v[c]
    BY <1>2, <1>3
  <2>2. g[w] <= v[w]
    BY <1>1, <1>2, <1>3
  <2>3. \A p \in Process \ {c, w} : g[p] <= v[p]
    BY <1>1, <1>2
  <2> QED BY <2>1, <2>2, <2>3
<1>9. Total(g) \in Nat /\ Total(g) <= Total(v)
  BY <1>2, <1>8, TotalNotMore
<1> QED BY <1>4, <1>5, <1>7, <1>9

\* A resource given back is off the list of those to give back, and wakes one
\* waiter at the most.
LEMMA ReleaseAhead ==
  ASSUME Settled, Settled', script' = script, Release
  PROVE  Total(Ahead) \in Nat /\ Total(Ahead)' \in Nat /\ Total(Ahead)' < Total(Ahead)
<1>1. PICK c \in Process : c = current /\ status[c] = "RUNNING"
  BY DEF Settled, TypeInv, SomeoneRuns, TypeOK, Release, Core, Dispatch
<1>2. /\ holding \in [Process -> Seq(ResourceSchedule)]
      /\ holding[c] \in Seq(ResourceSchedule)
      /\ status \in [Process -> {"READY", "RUNNING", "BLOCKED", "EXIT"}]
  BY DEF Settled, TypeInv, TypeOK
<1>3. PICK i \in Least(Expired) :
        /\ Wake(holding[c][i].resource_id)
        /\ holding' = [holding EXCEPT ![c] = RemoveAt(holding[c], i)]
  BY <1>1 DEF Release
<1>4. ticks' = ticks /\ age' = age /\ to_acquire' = to_acquire
  BY DEF Release
<1>5. i \in 1 .. Len(holding[c]) /\ holding[c][i].resource_id \in Resource
  <2>1. i \in DOMAIN holding[c]
    BY <1>1, <1>3 DEF Least, Expired
  <2> QED BY <1>2, <2>1, UseTypes, LenProperties
<1>6. /\ Len(holding'[c]) = Len(holding[c]) - 1
      /\ \A p \in Process \ {c} : holding'[p] = holding[p]
  BY <1>2, <1>3, <1>5, RemoveAtFacts
<1>7. PICK l \in Nat, h \in Nat : l = Len(to_acquire[c]) /\ h = Len(holding[c])
  BY UsesCounted DEF Settled, TypeInv
<1>8. PICK n \in Nat : n = h - 1
  <2>1. h - 1 \in Nat
    BY <1>5, <1>7
  <2> QED BY <2>1
<1>9. ASSUME status'[c] = status[c]
      PROVE  Ahead[c] \in Nat /\ Ahead'[c] = Ahead[c] - 2
  <2>1. /\ Ahead[c] \in Nat /\ age[c] \in Nat
        /\ Ahead'[c] = Ahead[c] + age[c] - age'[c] + 3 * (l - l) + 2 * (n - h) + 0 - 0
    <3>1. Sizes(c, l, l, h, n, 0, 0)
      BY <1>1, <1>4, <1>6, <1>7, <1>8, <1>9 DEF Sizes, Asleep
    <3>2. 0 \in 0 .. 1
      OBVIOUS
    <3> QED BY <1>4, <3>1, <3>2, AheadChanges
  <2>2. age'[c] = age[c] /\ 3 * (l - l) = 0 /\ 2 * (n - h) = 0 - 2
    BY <1>4, <1>8
  <2> QED BY <2>1, <2>2
<1>10. ASSUME NEW p \in Process \ {c}, status'[p] = status[p]
       PROVE  Ahead'[p] <= Ahead[p]
  BY <1>4, <1>6, <1>10, OthersAhead
<1>11. CASE status' = status
  <2>1. \A p \in Process : Ahead'[p] <= Ahead[p]
    BY <1>9, <1>10, <1>11
  <2> QED BY <1>9, <1>11, <2>1, OneGetsOn
<1>12. CASE status' # status
  <2> DEFINE t == holding[c][i].resource_id
  <2>1. PICK k \in First(waitqueue[t], WakeKey) :
          status' = [status EXCEPT ![waitqueue[t][k]] = "READY"]
    BY <1>3, <1>12 DEF Wake
  <2>2. waitqueue[t] \in Seq(Process) /\ k \in DOMAIN waitqueue[t]
    BY <1>5, <2>1 DEF Settled, TypeInv, TypeOK, First
  <2>3. PICK w \in Process : w = waitqueue[t][k] /\ status[w] = "BLOCKED" /\ w # c
    <3>1. waitqueue[t][k] \in Process /\ waitqueue[t][k] \in ToSet(waitqueue[t])
      BY <2>2, Entry
    <3>2. status[waitqueue[t][k]] = "BLOCKED"
      BY <1>5, <3>1 DEF Settled, Core, Placement
    <3> QED BY <1>1, <3>1, <3>2
  <2>4. status'[w] = "READY" /\ \A p \in Process \ {w} : status'[p] = status[p]
    BY <1>2, <2>1, <2>3
  <2>5. Ahead[w] \in Nat /\ Ahead'[w] = Ahead[w] + 1
    <3>1. PICK x \in Nat, y \in Nat : x = Len(to_acquire[w]) /\ y = Len(holding[w])
      BY UsesCounted DEF Settled, TypeInv
    <3>2. Sizes(w, x, x, y, y, 1, 0)
      BY <1>4, <1>6, <2>3, <2>4, <3>1 DEF Sizes, Asleep
    <3>3. 0 \in 0 .. 1 /\ 1 \in 0 .. 1
      OBVIOUS
    <3>4. /\ Ahead[w] \in Nat /\ age[w] \in Nat
          /\ Ahead'[w] = Ahead[w] + age[w] - age'[w] + 3 * (x - x) + 2 * (y - y) + 1 - 0
      BY <1>4, <3>2, <3>3, AheadChanges
    <3> QED BY <1>4, <3>4
  <2>6. Ahead'[c] = Ahead[c] - 2
    BY <1>9, <2>3, <2>4
  <2>7. \A p \in Process \ {c, w} : Ahead'[p] <= Ahead[p]
    BY <1>10, <2>4
  <2> DEFINE f == Ahead
             g == Ahead'
  <2>8. f \in [Process -> Nat] /\ (Ahead \in [Process -> Nat])'
    BY AheadInNat, PTL
  <2>9. Total(Ahead)' = Total(g) /\ Total(Ahead) = Total(f)
    BY DEF Total
  <2>10. /\ g \in [Process -> Nat] /\ g[c] = f[c] - 2 /\ g[w] = f[w] + 1
         /\ \A p \in Process \ {c, w} : g[p] <= f[p]
    BY <2>5, <2>6, <2>7, <2>8
  <2> HIDE DEF f, g
  <2> QED BY <2>3, <2>8, <2>9, <2>10, OneIsWoken
<1> QED BY <1>11, <1>12

\* A step that takes no tick and leaves less to do in this one.
Onwards ==
  /\ UNCHANGED <<ticks, forkqueue>> /\ Total(Ahead)' = Total(Ahead)
  /\ \/ pc = "fork" /\ pc' = "schedule" /\ DueForks' = {}
     \/ pc = "schedule" /\ pc' \in {"acquire", "done"}

\* A step that leaves less ahead, with or without a tick.
Progress ==
  /\ UNCHANGED forkqueue /\ Total(Ahead)' < Total(Ahead)
  /\ \/ ticks' = ticks /\ pc' \in {"acquire", "release"}
     \/ ticks' = ticks + 1 /\ pc' = "fork"

\* The end of a tick in which somebody ran.
TickOver ==
  /\ UNCHANGED forkqueue /\ Total(Ahead)' <= Total(Ahead)
  /\ pc = "release" /\ ticks' = ticks + 1 /\ pc' = "fork"

ForkedOne ==
  /\ UNCHANGED ticks /\ Total(Ahead)' = Total(Ahead)
  /\ pc = "fork" /\ pc' = "fork" /\ Len(forkqueue') = Len(forkqueue) - 1

\* Every step is one of these.
LEMMA EveryStep ==
  ASSUME Settled, OnTime, [Next]_vars
  PROVE  /\ Total(Ahead) \in Nat /\ Total(Ahead)' \in Nat
         /\ ForkedOne \/ Onwards \/ Progress \/ TickOver \/ UNCHANGED vars
<1>1. Settled' /\ script' = script
  BY SettledKept
<1> USE DEF Settled
<1>2. CASE Fork
  <2>1. UNCHANGED <<ticks, waitqueue, age, to_acquire, holding>> /\ pc = "fork" /\ pc' = pc
    BY <1>2 DEF Fork
  <2>2. PICK i \in Least(DueForks) : forkqueue' = RemoveAt(forkqueue, i)
    BY <1>2 DEF Fork
  <2>3. Len(forkqueue') = Len(forkqueue) - 1
    <3>1. forkqueue \in Seq(Process) /\ i \in 1 .. Len(forkqueue)
      BY <2>2, LenProperties DEF TypeInv, TypeOK, Least, DueForks
    <3> QED BY <2>2, <3>1, RemoveAtFacts
  <2> QED BY <1>1, <2>1, <2>3, NothingDone DEF ForkedOne
<1>3. CASE ForkDone
  <2>1. /\ UNCHANGED <<script, ticks, forkqueue, waitqueue, age, to_acquire, holding>>
        /\ pc = "fork" /\ pc' = "schedule" /\ DueForks = {}
    BY <1>3 DEF ForkDone, queues, procs
  <2>2. DueForks' = {}
    BY <2>1 DEF DueForks
  <2> QED BY <1>1, <2>1, <2>2, NothingDone DEF Onwards
<1>4. CASE ScheduleKeep \/ SchedulePick
  <2>1. /\ UNCHANGED <<ticks, forkqueue, waitqueue, age, to_acquire, holding>>
        /\ pc = "schedule" /\ pc' \in {"acquire", "aborted"}
    BY <1>4 DEF ScheduleKeep, SchedulePick, queues
  <2>2. pc' # "aborted"
    BY <1>1 DEF Core
  <2> QED BY <1>1, <2>1, <2>2, NothingDone DEF Onwards
<1>5. CASE ScheduleNone
  <2>1. /\ UNCHANGED <<forkqueue, waitqueue, age, to_acquire, holding>>
        /\ pc = "schedule"
    BY <1>5 DEF ScheduleNone, queues
  <2>2. CASE NothingPending
    <3>1. pc' = "done" /\ ticks' = ticks
      BY <1>5, <2>2 DEF ScheduleNone
    <3> QED BY <1>1, <2>1, <3>1, NothingDone DEF Onwards
  <2>3. CASE ~NothingPending
    <3>1. pc' = "fork" /\ ticks' = ticks + 1
      BY <1>5, <2>3 DEF ScheduleNone, NextTick
    <3>2. forkqueue # <<>> /\ DueForks = {}
      BY <1>5, <2>1, <2>3 DEF ScheduleNone, NothingPending, OnTime
    <3>3. 1 \in DOMAIN forkqueue /\ forkqueue[1] \in Process
      BY <3>2, Members DEF TypeInv, TypeOK
    <3>4. ticks < script[forkqueue[1]].start
      <4>1. ~(script[forkqueue[1]].start <= ticks)
        BY <3>2, <3>3 DEF DueForks
      <4>2. script[forkqueue[1]].start \in Nat /\ ticks \in Nat
        BY <3>3, ScriptTypes DEF TypeInv, TypeOK
      <4> QED BY <4>1, <4>2
    <3> QED BY <1>1, <2>1, <3>1, <3>3, <3>4, NothingDone DEF Progress
  <2> QED BY <2>2, <2>3
<1>6. CASE Grant
  <2>1. UNCHANGED <<ticks, forkqueue, pc>> /\ pc = "acquire"
    BY <1>6 DEF Grant, queues
  <2> QED BY <1>1, <1>6, <2>1, GrantAhead DEF Progress
<1>7. CASE Block
  <2>1. forkqueue' = forkqueue /\ ticks' = ticks + 1 /\ pc' = "fork"
    BY <1>7 DEF Block, NextTick
  <2> QED BY <1>1, <1>7, <2>1, BlockAhead DEF Progress
<1>8. CASE Run
  <2>1. UNCHANGED <<ticks, forkqueue>> /\ pc' = "release"
    BY <1>8 DEF Run, queues
  <2> QED BY <1>1, <1>8, <2>1, RunAhead DEF Progress
<1>9. CASE Release
  <2>1. UNCHANGED <<ticks, forkqueue>> /\ pc = "release" /\ pc' \in {"aborted", pc}
    BY <1>9 DEF Release
  <2>2. pc' # "aborted"
    BY <1>1 DEF Core
  <2> QED BY <1>1, <1>9, <2>1, <2>2, ReleaseAhead DEF Progress
<1>10. CASE ReleaseDone
  <2>1. /\ UNCHANGED <<forkqueue, waitqueue, age, to_acquire, holding>>
        /\ pc = "release" /\ pc' = "fork" /\ ticks' = ticks + 1
    BY <1>10 DEF ReleaseDone, NextTick, queues, procs
  <2> QED BY <1>1, <2>1, NothingDone DEF TickOver
<1>11. CASE UNCHANGED vars
  <2>1. UNCHANGED <<ticks, waitqueue, age, to_acquire, holding>>
    BY <1>11 DEF vars, queues, procs
  <2> QED BY <1>1, <1>11, <2>1, NothingDone
<1>12. ~ExitAborts
  BY ExitIsClean DEF ExitAborts
<1> QED BY <1>2, <1>3, <1>4, <1>5, <1>6, <1>7, <1>8, <1>9, <1>10, <1>11, <1>12
       DEF Next, Terminating

LEMMA BudgetInNat ==
  ASSUME TypeOK
  PROVE  Budget \in Nat
<1> DEFINE f == [p \in Process |->
                   script[p].lifespan + script[p].start + 3 * Len(script[p].acquire)]
<1>1. f \in [Process -> Nat]
  <2> SUFFICES ASSUME NEW p \in Process PROVE f[p] \in Nat
    OBVIOUS
  <2>1. PICK l \in Nat : l = Len(script[p].acquire)
    BY ScriptTypes, LenProperties
  <2>2. script[p].lifespan \in Nat /\ script[p].start \in Nat
    BY ScriptTypes
  <2>3. script[p].lifespan + script[p].start + 3 * l \in Nat
    BY <2>2
  <2> QED BY <2>1, <2>3
<1>2. Budget = Total(f)
  BY DEF Budget
<1> HIDE DEF f
<1> QED BY <1>1, <1>2, TotalNotMore

\* Initially everything is ahead.
LEMMA OnTimeInit == Init /\ WellFormed => OnTime
<1> SUFFICES ASSUME Init, WellFormed PROVE OnTime
  OBVIOUS
<1>1. TypeOK /\ Settled
  <2>1. TypeInv /\ Core
    BY TypeInit, CoreInit DEF TypeInv
  <2>2. Lifetimes
    BY ScriptTypes, <2>1 DEF Init, Lifetimes, TypeInv
  <2> QED BY <2>1, <2>2 DEF Settled, TypeInv
<1>2. Lifetimes /\ pc = "fork" /\ ticks = 0
  BY <1>1 DEF Settled, Init
<1>3. ASSUME NEW p \in Process
      PROVE  Ahead[p] = script[p].lifespan + script[p].start + 3 * Len(script[p].acquire)
  <2>1. script[p].lifespan \in Nat /\ script[p].start \in Nat
        /\ script[p].acquire \in Seq(ResourceSchedule)
    BY <1>1, ScriptTypes
  <2>2. PICK l \in Nat : l = Len(script[p].acquire)
    BY <2>1, LenProperties
  <2>3. ToStart(p) = script[p].start
    BY <1>2, <2>1 DEF ToStart
  <2>4. ToUse(p) = 3 * l + 2 * 0 - 0
    BY <2>2 DEF Init, ToUse, Asleep
  <2>5. age[p] = 0
    BY DEF Init
  <2>6. Ahead[p] = script[p].lifespan - age[p] + ToStart(p) + ToUse(p)
    BY DEF Ahead
  <2> QED BY <2>1, <2>2, <2>3, <2>4, <2>5, <2>6
<1>4. Ahead = [p \in Process |->
                 script[p].lifespan + script[p].start + 3 * Len(script[p].acquire)]
  BY <1>3 DEF Ahead
<1>5. Budget = Total(Ahead)
  BY <1>4 DEF Budget
<1>6. Budget \in Nat
  BY <1>1, BudgetInNat
<1> QED BY <1>2, <1>5, <1>6 DEF OnTime

LEMMA OnTimeStep ==
  ASSUME Settled, OnTime, [Next]_vars
  PROVE  OnTime'
<1>1. Settled' /\ script' = script
  BY SettledKept
<1>2. PICK x \in Nat, y \in Nat, t \in Nat, b \in Nat :
        x = Total(Ahead) /\ y = Total(Ahead)' /\ t = ticks /\ b = Budget
  <2>1. Total(Ahead) \in Nat /\ Total(Ahead)' \in Nat
    BY EveryStep
  <2>2. ticks \in Nat /\ Budget \in Nat
    BY BudgetInNat DEF Settled, TypeInv, TypeOK
  <2> QED BY <2>1, <2>2
<1>3. Budget' = Budget
  BY <1>1 DEF Budget, Total
<1>4. t + x + (IF pc = "release" THEN 1 ELSE 0) <= b
  BY <1>2 DEF OnTime
<1>5. CASE UNCHANGED vars
  <2>1. UNCHANGED <<ticks, waitqueue, age, to_acquire, holding, forkqueue, script, pc>>
    BY <1>5 DEF vars, queues, procs
  <2>2. Total(Ahead)' = Total(Ahead)
    BY <1>1, <2>1, NothingDone DEF Settled
  <2>3. DueForks' = DueForks
    BY <2>1 DEF DueForks
  <2> QED BY <1>1, <1>3, <2>1, <2>2, <2>3 DEF OnTime, Settled
<1>6. CASE ForkedOne \/ Onwards \/ Progress \/ TickOver
  <2>1. /\ pc' = "schedule" => DueForks' = {}
        /\ \/ y = x /\ ticks' = t /\ pc' # "release"
           \/ y < x /\ ticks' = t
           \/ y < x /\ ticks' = t + 1 /\ pc' = "fork"
           \/ y <= x /\ ticks' = t + 1 /\ pc' = "fork" /\ pc = "release"
    BY <1>2, <1>6 DEF ForkedOne, Onwards, Progress, TickOver
  <2>2. ticks' + y + (IF pc' = "release" THEN 1 ELSE 0) <= b
    BY <1>4, <2>1
  <2> QED BY <1>1, <1>2, <1>3, <2>1, <2>2 DEF OnTime, Settled
<1> QED BY <1>5, <1>6, EveryStep

TimedInv == CoreInv /\ TimeInv

LEMMA TimedInvAlways == Spec => []TimedInv
<1>1. Init => TimedInv
  BY CoreInvInit, OnTimeInit DEF TimedInv, TimeInv
<1>2. TimedInv /\ [Next]_vars => TimedInv'
  <2> SUFFICES ASSUME TimedInv, [Next]_vars PROVE TimedInv'
    OBVIOUS
  <2>1. CoreInv'
    BY CoreInvStep DEF TimedInv
  <2>2. ASSUME WellFormed' PROVE OnTime'
    <3>1. WellFormed /\ OnTime
      BY <2>2, WellFormedKept DEF TimedInv, TimeInv
    <3>2. Settled
      BY <3>1 DEF Settled, TimedInv, CoreInv, TypeInv, OnTime
    <3> QED BY <3>1, <3>2, OnTimeStep
  <2> QED BY <2>1, <2>2 DEF TimedInv, TimeInv
<1> QED BY <1>1, <1>2, PTL DEF Spec

\* However the processes are scheduled, the simulation of a well-formed script
\* takes no more ticks than its lives, its delays and its requests add up to.
THEOREM SimulationEndsInTime == Spec => []EndsInTime
<1>1. TimedInv => EndsInTime
  <2> SUFFICES ASSUME TimedInv, WellFormed PROVE ticks <= Budget
    BY DEF EndsInTime
  <2>1. Settled /\ OnTime
    BY DEF Settled, TimedInv, TimeInv, CoreInv, TypeInv, OnTime
  <2>2. PICK x \in Nat, t \in Nat, b \in Nat : x = Total(Ahead) /\ t = ticks /\ b = Budget
    <3>1. Total(Ahead) \in Nat
      BY <2>1, AheadInNat, TotalNotMore
    <3>2. ticks \in Nat /\ Budget \in Nat
      BY <2>1, BudgetInNat DEF Settled, TypeInv, TypeOK
    <3> QED BY <3>1, <3>2
  <2>3. t + x + (IF pc = "release" THEN 1 ELSE 0) <= b
    BY <2>1, <2>2 DEF OnTime
  <2> QED BY <2>2, <2>3
<1> QED BY <1>1, TimedInvAlways, PTL

\* No loop of the simulator runs for ever: every step of a well-formed script,
\* those inside a tick included, brings the end nearer.
THEOREM EveryStepCounts == Spec => CountsDown
<1>1. TimedInv /\ TimedInv' /\ [Next]_vars =>
        [WellFormed => StepsLeft' \in 0 .. StepsLeft - 1]_vars
  <2> SUFFICES ASSUME TimedInv, Next, ~UNCHANGED vars, WellFormed
               PROVE  StepsLeft' \in 0 .. StepsLeft - 1
    BY DEF Terminating
  <2>1. Settled /\ OnTime
    BY DEF Settled, TimedInv, TimeInv, CoreInv, TypeInv, OnTime
  <2>2. Settled'
    BY <2>1, SettledKept
  <2>3. PICK x \in Nat, y \in Nat, f \in Nat, g \in Nat :
          /\ x = Total(Ahead) /\ y = Total(Ahead)'
          /\ f = Len(forkqueue) /\ g = Len(forkqueue')
    <3>1. Total(Ahead) \in Nat /\ Total(Ahead)' \in Nat
      BY <2>1, EveryStep
    <3>2. Len(forkqueue) \in Nat /\ Len(forkqueue') \in Nat
      BY <2>1, <2>2, LenProperties DEF Settled, TypeInv, TypeOK
    <3> QED BY <3>1, <3>2
  <2>4. PICK s \in 0 .. 4, u \in 0 .. 4 : s = StepsOfTick /\ u = StepsOfTick'
    BY DEF StepsOfTick
  <2>5. StepsLeft = 5 * x + f + s /\ StepsLeft' = 5 * y + g + u
    BY <2>3, <2>4 DEF StepsLeft
  <2>6. \/ y = x /\ g = f - 1 /\ u = s
        \/ y = x /\ g = f /\ u < s
        \/ y < x /\ g = f
        \/ y <= x /\ g = f /\ s = 4 /\ u = 3
    BY <2>1, <2>3, <2>4, EveryStep
       DEF ForkedOne, Onwards, Progress, TickOver, StepsOfTick
  <2>7. 5 * y + g + u < 5 * x + f + s
    BY <2>6
  <2> QED BY <2>5, <2>7
<1> QED BY <1>1, TimedInvAlways, PTL DEF Spec, CountsDown
=============================================================================
