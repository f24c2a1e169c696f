-------------------------- MODULE SchedPolicyProofs --------------------------
(***************************************************************************)
(* What the policies promise, for any number of processes, any resources   *)
(* and any scripts: no deadlock without nested requests, ceiling,          *)
(* inheritance, resources to the most urgent, turns among equals and no    *)
(* starvation under aging.                                                 *)
(***************************************************************************)
EXTENDS SchedProofs, SchedHistory, PickLoop, FiniteSetTheorems

-----------------------------------------------------------------------------
(* Requests and holdings stay different lines of the script *)

LEMMA UsedOnceInit == Init /\ WellFormed /\ NonNested => UsedOnce
<1> SUFFICES ASSUME Init, WellFormed, NonNested PROVE UsedOnce
  OBVIOUS
<1>1. TypeOK
  BY TypeInit DEF TypeInv
<1>2. \A p \in Process : to_acquire[p] = script[p].acquire /\ DOMAIN holding[p] = {}
  BY DEF Init
<1>3. ASSUME NEW p \in Process, NEW i \in DOMAIN to_acquire[p],
             NEW j \in DOMAIN to_acquire[p], i # j
      PROVE  to_acquire[p][i].at # to_acquire[p][j].at
  <2> DEFINE e == script[p].acquire[i]
             f == script[p].acquire[j]
  <2>1. e.at \in Nat /\ e.duration \in Nat /\ f.at \in Nat /\ f.duration \in Nat
    BY <1>1, <1>2, ScriptTypes, UseTypes
  <2>2. e.duration >= 1 /\ f.duration >= 1
    BY <1>2 DEF WellFormed
  <2>3. Apart(e, f)
    BY <1>2, <1>3 DEF NonNested
  <2> HIDE DEF e, f
  <2>4. e.at # f.at
    BY <2>1, <2>2, <2>3 DEF Apart
  <2> QED BY <1>2, <2>4 DEF e, f
<1> QED BY <1>2, <1>3 DEF UsedOnce

\* Only Grant moves an entry, and it takes the entry off the requests.
LEMMA GrantUsesOnce == TypeInv /\ UsedOnce /\ Grant => UsedOnce'
<1> SUFFICES ASSUME TypeInv, UsedOnce, Grant PROVE UsedOnce'
  OBVIOUS
<1> DEFINE c == current
<1>1. c \in Process
  BY DEF Grant, TypeInv, TypeOK, SomeoneRuns
<1>2. PICK i \in Least(Requests(c)) :
        /\ to_acquire' = [to_acquire EXCEPT ![c] = RemoveAt(to_acquire[c], i)]
        /\ holding' = [holding EXCEPT ![c] = Append(holding[c], to_acquire[c][i])]
  BY DEF Grant
<1> DEFINE asked == to_acquire[c]
           held  == holding[c]
<1>3. /\ asked \in Seq(ResourceSchedule) /\ held \in Seq(ResourceSchedule)
      /\ i \in DOMAIN asked /\ asked[i] \in ResourceSchedule
      /\ asked[i].at = age[c] /\ age[c] \in Nat
  BY <1>1, <1>2, UseLists, Entry DEF TypeInv, TypeOK, Least, Requests
<1>4. /\ age' = age
      /\ to_acquire'[c] = RemoveAt(asked, i) /\ holding'[c] = Append(held, asked[i])
      /\ \A p \in Process \ {c} : to_acquire'[p] = to_acquire[p] /\ holding'[p] = holding[p]
  BY <1>1, <1>2 DEF Grant, TypeInv, TypeOK
<1>5. /\ \A j, k \in DOMAIN asked : j # k => asked[j].at # asked[k].at
      /\ \A j \in DOMAIN held :
           held[j].at <= age[c] /\ \A k \in DOMAIN asked : held[j].at # asked[k].at
  BY <1>1 DEF UsedOnce
<1> HIDE DEF asked, held
<1>6. /\ \A j \in DOMAIN RemoveAt(asked, i) :
           \E k \in DOMAIN asked \ {i} : RemoveAt(asked, i)[j] = asked[k]
      /\ \A j, k \in DOMAIN RemoveAt(asked, i) :
           j # k => \E m, n \in DOMAIN asked \ {i} :
                      /\ m # n
                      /\ RemoveAt(asked, i)[j] = asked[m]
                      /\ RemoveAt(asked, i)[k] = asked[n]
  BY <1>3, RemoveAtMembers
<1>7. \A j \in DOMAIN Append(held, asked[i]) :
        \/ j \in DOMAIN held /\ Append(held, asked[i])[j] = held[j]
        \/ Append(held, asked[i])[j] = asked[i]
  BY <1>3, AppendEntries
<1>8. \A j, k \in DOMAIN to_acquire'[c] :
        j # k => to_acquire'[c][j].at # to_acquire'[c][k].at
  BY <1>4, <1>5, <1>6
<1>9. ASSUME NEW j \in DOMAIN holding'[c]
      PROVE  /\ holding'[c][j].at <= age[c]
             /\ \A k \in DOMAIN to_acquire'[c] : holding'[c][j].at # to_acquire'[c][k].at
  <2>1. CASE j \in DOMAIN held /\ holding'[c][j] = held[j]
    BY <1>4, <1>5, <1>6, <2>1
  <2>2. CASE holding'[c][j] = asked[i]
    <3>1. holding'[c][j].at <= age[c]
      BY <1>3, <2>2
    <3>2. \A k \in DOMAIN to_acquire'[c] : asked[i].at # to_acquire'[c][k].at
      BY <1>3, <1>4, <1>5, <1>6
    <3> QED BY <2>2, <3>1, <3>2
  <2> QED BY <1>4, <1>7, <2>1, <2>2
<1>10. ASSUME NEW p \in Process \ {c}
       PROVE  /\ \A j, k \in DOMAIN to_acquire'[p] :
                   j # k => to_acquire'[p][j].at # to_acquire'[p][k].at
              /\ \A j \in DOMAIN holding'[p] :
                   /\ holding'[p][j].at <= age'[p]
                   /\ \A k \in DOMAIN to_acquire'[p] :
                        holding'[p][j].at # to_acquire'[p][k].at
  BY <1>4 DEF UsedOnce
<1> QED BY <1>4, <1>8, <1>9, <1>10 DEF UsedOnce

LEMMA RunUsesOnce == TypeInv /\ UsedOnce /\ Run => UsedOnce'
<1> SUFFICES ASSUME TypeInv, UsedOnce, Run PROVE UsedOnce'
  OBVIOUS
<1> DEFINE c == current
<1>1. c \in Process
  BY DEF Run, TypeInv, TypeOK, SomeoneRuns
<1>2. /\ to_acquire' = to_acquire /\ age[c] \in Nat /\ age'[c] = age[c] + 1
      /\ \A p \in Process \ {c} : age'[p] = age[p] /\ holding'[p] = holding[p]
      /\ DOMAIN holding'[c] = DOMAIN holding[c]
      /\ \A j \in DOMAIN holding[c] : holding'[c][j] = Decremented(holding[c][j])
  BY <1>1 DEF Run, TypeInv, TypeOK
<1>3. ASSUME NEW j \in DOMAIN holding[c]
      PROVE  holding'[c][j].at = holding[c][j].at /\ holding[c][j].at \in Nat
  <2>1. holding[c][j] \in ResourceSchedule
    BY <1>1, UseLists, UseTypes DEF TypeInv
  <2> QED BY <1>2, <2>1 DEF Decremented, ResourceSchedule
<1>4. \A j \in DOMAIN holding'[c] :
        /\ holding'[c][j].at <= age'[c]
        /\ \A k \in DOMAIN to_acquire'[c] : holding'[c][j].at # to_acquire'[c][k].at
  BY <1>1, <1>2, <1>3 DEF UsedOnce
<1> QED BY <1>2, <1>4 DEF UsedOnce

LEMMA ReleaseUsesOnce == TypeInv /\ UsedOnce /\ Release => UsedOnce'
<1> SUFFICES ASSUME TypeInv, UsedOnce, Release PROVE UsedOnce'
  OBVIOUS
<1> DEFINE c == current
<1>1. c \in Process
  BY DEF Release, TypeInv, TypeOK, SomeoneRuns
<1>2. PICK i \in Least(Expired) :
        holding' = [holding EXCEPT ![c] = RemoveAt(holding[c], i)]
  BY DEF Release
<1>3. holding[c] \in Seq(ResourceSchedule) /\ i \in DOMAIN holding[c]
  BY <1>1, UseLists DEF TypeInv, Least, Expired
<1>4. /\ to_acquire' = to_acquire /\ age' = age
      /\ holding'[c] = RemoveAt(holding[c], i)
      /\ \A p \in Process \ {c} : holding'[p] = holding[p]
  BY <1>1, <1>2 DEF Release, TypeInv, TypeOK
<1>5. \A j \in DOMAIN holding'[c] : \E k \in DOMAIN holding[c] : holding'[c][j] = holding[c][k]
  BY <1>3, <1>4, RemoveAtMembers
<1>6. \A j \in DOMAIN holding'[c] :
        /\ holding'[c][j].at <= age'[c]
        /\ \A k \in DOMAIN to_acquire'[c] : holding'[c][j].at # to_acquire'[c][k].at
  BY <1>1, <1>4, <1>5 DEF UsedOnce
<1> QED BY <1>4, <1>6 DEF UsedOnce

\* Uses do not overlap, so the next request comes when the last use is over: who
\* still holds something asks for nothing.
LEMMA HoldersAskForNothing ==
  ASSUME TypeInv, WellFormed, NonNested, Core, UsedOnce, NEW p \in Process,
         NEW i \in DOMAIN holding[p], holding[p][i].duration # 0, NEW r
  PROVE  ~Requesting(p, r)
<1> SUFFICES ASSUME Requesting(p, r) PROVE FALSE
  OBVIOUS
<1> DEFINE h == holding[p][i]
<1>1. PICK j \in DOMAIN to_acquire[p] : to_acquire[p][j].at = age[p]
  BY DEF Requesting, Least, Requests
<1>2. PICK m \in DOMAIN script[p].acquire : script[p].acquire[m] = to_acquire[p][j]
  BY DEF Core, Timing, ToSet
<1>3. PICK k \in DOMAIN script[p].acquire :
        /\ h.at = script[p].acquire[k].at
        /\ age[p] + h.duration = script[p].acquire[k].at + script[p].acquire[k].duration
  BY DEF Core, DeclaredUse
<1> DEFINE e == script[p].acquire[k]
           f == script[p].acquire[m]
<1>4. /\ age[p] \in Nat /\ h.duration \in Nat
      /\ e.at \in Nat /\ e.duration \in Nat /\ f.at \in Nat /\ f.duration \in Nat
  BY UseLists, UseTypes, ScriptTypes DEF TypeInv, TypeOK
<1>5. h.at <= age[p] /\ h.at # to_acquire[p][j].at
  BY DEF UsedOnce
<1>6. f.duration >= 1
  BY DEF WellFormed
<1>7. f.at = age[p] /\ e.at = h.at /\ age[p] + h.duration = e.at + e.duration
  BY <1>1, <1>2, <1>3
<1>8. Apart(e, f)
  <2>1. k # m
    BY <1>2, <1>5, <1>7
  <2> QED BY <2>1 DEF NonNested
<1> HIDE DEF h, e, f
<1>9. h.at # f.at
  BY <1>1, <1>2, <1>5 DEF h, f
<1>10. h.duration >= 1
  BY <1>4 DEF h
<1> QED BY <1>4, <1>6, <1>7, <1>8, <1>9, <1>10, <1>5 DEF Apart

\* A list is empty when it has no positions.
LEMMA EmptyList ==
  ASSUME NEW S, NEW s \in Seq(S)
  PROVE  s = <<>> <=> DOMAIN s = {}
<1>1. DOMAIN s = 1 .. Len(s) /\ Len(s) \in Nat
  BY LenProperties
<1>2. s # <<>> => 1 \in DOMAIN s
  BY <1>1, EmptySeq
<1> QED BY <1>2

\* So a process that is granted something has nothing yet.
LEMMA GrantOneAtATime ==
  ASSUME TypeInv, WellFormed, NonNested, Core, UsedOnce, OneAtATime, Grant
  PROVE  /\ DOMAIN holding[current] = {}
         /\ OneAtATime'
<1> DEFINE c == current
<1>1. c \in Process /\ pc = "acquire"
  BY DEF Grant, TypeInv, TypeOK, SomeoneRuns
<1>2. PICK rs \in ResourceSchedule :
        /\ Requesting(c, rs.resource_id)
        /\ holding'[c] = Append(holding[c], rs)
        /\ \A p \in Process \ {c} : holding'[p] = holding[p]
  BY GrantEffect
<1>3. DOMAIN holding[c] = {}
  <2> SUFFICES ASSUME NEW i \in DOMAIN holding[c] PROVE FALSE
    OBVIOUS
  <2>1. holding[c][i].duration # 0
    BY <1>1 DEF Core, Timing
  <2> QED BY <1>1, <1>2, <2>1, HoldersAskForNothing
<1>4. holding[c] \in Seq(ResourceSchedule)
  BY <1>1 DEF TypeInv, TypeOK
<1>5. \A i \in DOMAIN holding'[c] : i = Len(holding[c]) + 1
  BY <1>2, <1>3, <1>4, AppendEntries
<1> QED BY <1>2, <1>3, <1>5 DEF OneAtATime

\* What it gives back is all it had.
LEMMA ReleaseEmpties ==
  ASSUME TypeInv, OneAtATime, Release
  PROVE  DOMAIN holding'[current] = {} /\ holding'[current] = <<>>
<1>1. current \in Process
  BY DEF Release, TypeInv, TypeOK, SomeoneRuns
<1>2. PICK i \in DOMAIN holding[current] :
        holding'[current] = RemoveAt(holding[current], i)
  BY ReleaseEffect
<1> DEFINE h == holding[current]
<1>3. h \in Seq(ResourceSchedule) /\ i \in DOMAIN h /\ DOMAIN h \ {i} = {}
  BY <1>1 DEF OneAtATime, TypeInv, TypeOK
<1>4. holding'[current] = RemoveAt(h, i)
  BY <1>2
<1> HIDE DEF h
<1>5. DOMAIN RemoveAt(h, i) = {}
  BY <1>3, RemoveAtMembers
<1>6. RemoveAt(h, i) \in Seq(ResourceSchedule)
  BY <1>3, Entry, RemoveAtFacts
<1> QED BY <1>4, <1>5, <1>6, EmptyList

LEMMA OneAtATimeStep ==
  ASSUME TypeInv, WellFormed, NonNested, Core, UsedOnce, OneAtATime, [Next]_vars
  PROVE  OneAtATime'
<1>1. CASE UNCHANGED holding
  BY <1>1 DEF OneAtATime
<1>2. CASE Run
  <2>1. \A p \in Process : DOMAIN holding'[p] = DOMAIN holding[p]
    BY <1>2 DEF Run, TypeInv, TypeOK
  <2> QED BY <2>1 DEF OneAtATime
<1>3. CASE Release
  <2>1. /\ DOMAIN holding'[current] = {}
        /\ \A p \in Process \ {current} : holding'[p] = holding[p]
    BY <1>3, ReleaseEmpties, ReleaseEffect
  <2> QED BY <2>1 DEF OneAtATime
<1> QED
  BY <1>1, <1>2, <1>3, GrantOneAtATime
  DEF Next, vars, procs, Fork, ForkDone, ExitAborts, Abort, ScheduleKeep,
      SchedulePick, ScheduleNone, Block, ReleaseDone, Terminating

LEMMA NestInvStep == CoreInv /\ NestInv /\ [Next]_vars => NestInv'
<1> SUFFICES ASSUME CoreInv, NestInv, [Next]_vars, WellFormed', NonNested'
             PROVE  (UsedOnce /\ OneAtATime)'
  BY DEF NestInv
<1>1. /\ UsedOnce /\ OneAtATime /\ TypeInv
      /\ WellFormed /\ NonNested /\ Core
  BY WellFormedKept DEF NestInv, NonNested, CoreInv, TypeInv
<1>2. UsedOnce'
  <2>1. CASE UNCHANGED <<age, to_acquire, holding>>
    BY <1>1, <2>1 DEF UsedOnce
  <2>2. CASE Grant
    BY <1>1, <2>2, GrantUsesOnce
  <2>3. CASE Run
    BY <1>1, <2>3, RunUsesOnce
  <2>4. CASE Release
    BY <1>1, <2>4, ReleaseUsesOnce
  <2> QED
    BY <2>1, <2>2, <2>3, <2>4
    DEF Next, vars, procs, Fork, ForkDone, ExitAborts, Abort, ScheduleKeep,
        SchedulePick, ScheduleNone, Block, ReleaseDone, Terminating
<1> QED BY <1>1, <1>2, OneAtATimeStep

LEMMA NestInvInit == Init => NestInv
<1>1. Init => OneAtATime
  BY DEF Init, OneAtATime
<1> QED BY <1>1, UsedOnceInit DEF NestInv

-----------------------------------------------------------------------------
(* The ceiling *)

LEMMA PcpCallbacks ==
  ASSUME policy = "pcp"
  PROVE  sched.schedule = "prio" /\ sched.acquire = "pcp" /\ sched.release = "pcp"
BY DEF sched, schedulers

\* Who holds something has not reached the end of its life.
LEMMA HoldersGoOn ==
  ASSUME TypeInv, WellFormed, Core, pc = "schedule", NEW p \in Process,
         holding[p] # <<>>
  PROVE  age[p] < script[p].lifespan
<1>1. holding[p] \in Seq(ResourceSchedule)
  BY DEF TypeInv, TypeOK
<1>2. PICK i \in DOMAIN holding[p] : TRUE
  BY <1>1, EmptyList
<1>3. PICK k \in DOMAIN script[p].acquire :
        age[p] + holding[p][i].duration
          = script[p].acquire[k].at + script[p].acquire[k].duration
  BY DEF Core, DeclaredUse
<1>4. holding[p][i].duration # 0 /\ holding[p][i].duration \in Nat
  BY <1>1, UseTypes DEF Core, Timing
<1>5. /\ script[p].acquire[k].at \in Nat /\ script[p].acquire[k].duration \in Nat
      /\ script[p].lifespan \in Nat /\ age[p] \in Nat
  BY ScriptTypes, UseTypes DEF TypeInv, TypeOK
<1>6. script[p].acquire[k].at + script[p].acquire[k].duration <= script[p].lifespan
  BY DEF WellFormed
<1> QED BY <1>3, <1>4, <1>5, <1>6

\* The key of the chosen process is the least: under the priority policies it is
\* as urgent as every other candidate.
LEMMA PickedIsMostUrgent ==
  ASSUME TypeInv, sched.schedule \in {"prio", "pa"},
         NEW i \in First(Candidates, SchedKey), NEW p \in ToSet(Candidates)
  PROVE  prio[p] <= prio[Candidates[i]]
<1>1. Candidates \in Seq(Process)
  BY CandidatesType DEF TypeInv
<1>2. PICK j \in DOMAIN Candidates : Candidates[j] = p
  BY <1>1, Members
<1>3. p \in Process /\ Candidates[i] \in Process
  BY <1>1, <1>2, Entry DEF First
<1>4. SchedKey = BestPrio
  BY DEF SchedKey
<1>5. BestPrio[Candidates[i]] < BestPrio[p] \/ BestPrio[Candidates[i]] = BestPrio[p]
  BY <1>2, <1>4 DEF First
<1>6. BestPrio[Candidates[i]] \in Int /\ BestPrio[p] \in Int
  BY <1>3, PriosAsKeys DEF TypeInv
<1>7. BestPrio[Candidates[i]] <= BestPrio[p]
  BY <1>5, <1>6
<1> QED BY <1>3, <1>7, PriosAsKeys DEF TypeInv

\* The ceiling is out of reach for the others, so the holder is picked again.
LEMMA CeilingPick ==
  ASSUME TypeInv, ListedOnce, WellFormed, Core, BelowCeiling, policy = "pcp",
         CeilingPrios, SchedulePick
  PROVE  CeilingPrios'
<1>1. PICK i \in First(Candidates, SchedKey) :
        /\ current' = Candidates[i]
        /\ status' = [Decommissioned EXCEPT ![Candidates[i]] = "RUNNING"]
  BY DEF SchedulePick
<1> DEFINE next == Candidates[i]
<1>2. next \in Process /\ next \in ToSet(Candidates)
  BY PickEffect
<1>3. /\ UNCHANGED <<script, holding, prio>> /\ pc = "schedule"
      /\ sched.schedule = "prio" /\ current' = next
  BY <1>1, PcpCallbacks DEF SchedulePick
<1>4. /\ status'[next] = "RUNNING"
      /\ \A p \in Process \ {next} : status'[p] = Decommissioned[p]
  BY <1>1, <1>2, DecommissionedAny
<1>5. ASSUME NEW p \in Process, holding[p] # <<>>
      PROVE  p = next
  <2>1. p = current /\ status[p] = "RUNNING" /\ prio[p] = MAX_PRIO
    BY <1>5 DEF CeilingPrios
  <2>2. Preemptive /\ Runnable
    BY <1>3, <1>5, <2>1, HoldersGoOn, NullIsNoProcess DEF Preemptive, Runnable
  <2>3. p \in ToSet(Candidates)
    BY <2>1, <2>2, AppendFacts DEF Candidates, TypeInv, TypeOK
  <2>4. prio[p] <= prio[next]
    BY <1>3, <2>3, PickedIsMostUrgent
  <2>5. holding[next] # <<>>
    <3> SUFFICES ASSUME holding[next] = <<>> PROVE FALSE
      OBVIOUS
    <3>1. prio[next] = script[next].prio /\ script[next].prio < MAX_PRIO
      BY <1>2 DEF CeilingPrios, BelowCeiling
    <3>2. script[next].prio \in Nat /\ MAX_PRIO \in Nat
      BY <1>2, ScriptTypes, SchedAssumption DEF TypeInv
    <3> QED BY <2>1, <2>4, <3>1, <3>2
  <2> QED BY <1>2, <2>1, <2>5 DEF CeilingPrios
<1>6. ASSUME NEW p \in Process PROVE status'[p] # "BLOCKED"
  BY <1>4 DEF Decommissioned, CeilingPrios
<1> QED BY <1>3, <1>4, <1>5, <1>6 DEF CeilingPrios

\* Who asks holds nothing, so that a resource that is owned is held by somebody
\* else, who would have to be running.
LEMMA CeilingNeverBlocks ==
  ASSUME TypeInv, WellFormed, NonNested, Core, UsedOnce, CeilingPrios, Block
  PROVE  FALSE
<1>1. PICK r \in Resource : Requesting(current, r) /\ owner[r] # NULL
  BY BlockEffect
<1>2. owner[r] \in Process /\ pc = "acquire"
  BY <1>1 DEF Block, TypeInv, TypeOK
<1>3. PICK i \in DOMAIN holding[owner[r]] : holding[owner[r]][i].resource_id = r
  BY <1>2 DEF Core, Ownership
<1>4. holding[owner[r]] # <<>>
  BY <1>3
<1>5. owner[r] = current
  BY <1>2, <1>4 DEF CeilingPrios
<1>6. holding[owner[r]][i].duration # 0
  BY <1>2 DEF Core, Timing
<1> QED BY <1>1, <1>2, <1>5, <1>6, HoldersAskForNothing

LEMMA CeilingInvStep ==
  CoreInv /\ AnyScript /\ NestInv /\ CeilingInv /\ [Next]_vars => CeilingInv'
<1> SUFFICES ASSUME CoreInv, AnyScript, NestInv, CeilingInv, [Next]_vars,
                    WellFormed', NonNested', BelowCeiling', policy' = "pcp"
             PROVE  CeilingPrios'
  BY DEF CeilingInv
<1>1. script' = script /\ policy' = policy
  BY WellFormedKept
  DEF Next, vars, Fork, ForkDone, ExitAborts, Abort, ScheduleKeep, SchedulePick,
      ScheduleNone, Grant, Block, Run, Release, ReleaseDone, Terminating
<1>2. /\ TypeInv /\ WellFormed /\ NonNested /\ BelowCeiling /\ policy = "pcp"
      /\ Core /\ ListedOnce /\ UsedOnce /\ OneAtATime /\ CeilingPrios
  BY <1>1, WellFormedKept
  DEF NestInv, NonNested, BelowCeiling, CoreInv, TypeInv, Core, AnyScript, CeilingInv
<1>3. sched.schedule = "prio" /\ sched.acquire = "pcp" /\ sched.release = "pcp"
  BY <1>2, PcpCallbacks
<1>4. CASE UNCHANGED <<prio, holding, current, status>>
  BY <1>1, <1>2, <1>4 DEF CeilingPrios
<1>5. CASE Fork
  <2>1. PICK e \in ToSet(forkqueue) : status' = [status EXCEPT ![e] = "READY"]
    BY <1>2, <1>5, Entry DEF Fork, Least, DueForks, TypeInv, TypeOK
  <2>2. e \in Process /\ status[e] = "READY"
    BY <1>2, <2>1, Members DEF Core, Placement, TypeInv, TypeOK
  <2>3. status' = status
    BY <1>2, <2>1, <2>2 DEF TypeInv, TypeOK
  <2> QED BY <1>4, <1>5, <2>3 DEF Fork
<1>6. CASE ScheduleKeep
  BY <1>3, <1>6 DEF ScheduleKeep, Preemptive
<1>7. CASE SchedulePick
  BY <1>2, <1>7, CeilingPick
<1>8. CASE ScheduleNone
  <2>1. /\ UNCHANGED <<prio, holding>> /\ status' = Decommissioned
        /\ ~Runnable /\ pc = "schedule"
    BY <1>8 DEF ScheduleNone
  <2>2. \A p \in Process : holding[p] = <<>>
    BY <1>2, <2>1, HoldersGoOn, NullIsNoProcess DEF CeilingPrios, Runnable
  <2>3. \A p \in Process : status'[p] # "BLOCKED"
    BY <1>2, <2>1 DEF Decommissioned, CeilingPrios
  <2> QED BY <1>1, <1>2, <2>1, <2>2, <2>3 DEF CeilingPrios
<1>9. CASE Grant
  <2>1. /\ current \in Process /\ UNCHANGED <<current, status>> /\ prio' = Boosted
        /\ status[current] = "RUNNING"
    BY <1>2, <1>9 DEF Grant, TypeInv, TypeOK, SomeoneRuns, Core, Dispatch
  <2>2. PICK rs \in ResourceSchedule :
          /\ holding'[current] = Append(holding[current], rs)
          /\ \A p \in Process \ {current} : holding'[p] = holding[p]
    BY <1>2, <1>9, GrantEffect
  <2>3. holding'[current] # <<>>
    <3>1. holding[current] \in Seq(ResourceSchedule)
      BY <1>2, <2>1 DEF TypeInv, TypeOK
    <3>2. Len(holding[current]) + 1 \in DOMAIN holding'[current]
      BY <2>2, <3>1, AppendEntries
    <3> QED BY <3>2
  <2>4. prio'[current] = MAX_PRIO /\ \A p \in Process \ {current} : prio'[p] = prio[p]
    BY <1>2, <1>3, <2>1 DEF Boosted, TypeInv, TypeOK
  <2> QED BY <1>1, <1>2, <2>1, <2>2, <2>3, <2>4 DEF CeilingPrios
<1>10. CASE Block
  BY <1>2, <1>10, CeilingNeverBlocks
<1>11. CASE Run
  <2>1. /\ UNCHANGED <<prio, current, status>>
        /\ \A p \in Process : DOMAIN holding'[p] = DOMAIN holding[p]
    BY <1>2, <1>11 DEF Run, TypeInv, TypeOK
  <2>2. TypeInv'
    BY <1>2, TypeStep
  <2>3. \A p \in Process : holding'[p] = <<>> <=> holding[p] = <<>>
    BY <1>2, <2>1, <2>2, EmptyList DEF TypeInv, TypeOK
  <2> QED BY <1>1, <1>2, <2>1, <2>3 DEF CeilingPrios
<1>12. CASE Release
  <2>1. /\ current \in Process /\ current' = current /\ prio' = Restored
    BY <1>2, <1>12 DEF Release, TypeInv, TypeOK, SomeoneRuns
  <2>2. PICK i \in DOMAIN holding[current] :
          /\ holding[current][i].resource_id \in Resource
          /\ Wake(holding[current][i].resource_id)
          /\ \A p \in Process \ {current} : holding'[p] = holding[p]
    BY <1>2, <1>12, ReleaseEffect
  <2>3. holding[current] # <<>>
    BY <2>2
  <2>4. holding'[current] = <<>>
    BY <1>2, <1>12, <2>1, <2>2, ReleaseEmpties
  <2>5. /\ prio'[current] = script[current].prio
        /\ \A p \in Process \ {current} : prio'[p] = prio[p]
    BY <1>2, <1>3, <2>1 DEF Restored, TypeInv, TypeOK
  <2>6. \A p \in Process \ {current} : holding[p] = <<>>
    BY <1>2, <2>3 DEF CeilingPrios
  <2>7. waitqueue[holding[current][i].resource_id] = <<>>
    <3> DEFINE t == holding[current][i].resource_id
    <3>1. waitqueue[t] \in Seq(Process)
      BY <1>2, <2>2 DEF TypeInv, TypeOK
    <3>2. \A p \in ToSet(waitqueue[t]) : p \in Process /\ status[p] = "BLOCKED"
      BY <1>2, <2>2, <3>1, Members DEF Core, Placement
    <3>3. ToSet(waitqueue[t]) = {}
      BY <1>2, <3>2 DEF CeilingPrios
    <3> QED BY <3>1, <3>3, Members
  <2>8. status' = status
    BY <2>2, <2>7 DEF Wake, HasWaiters
  <2> QED BY <1>1, <1>2, <2>1, <2>2, <2>4, <2>5, <2>6, <2>8 DEF CeilingPrios
<1> QED
  BY <1>4, <1>5, <1>6, <1>7, <1>8, <1>9, <1>10, <1>11, <1>12
  DEF Next, vars, procs, ForkDone, ExitAborts, Abort, ReleaseDone, Terminating

LEMMA CeilingInvInit == Init => CeilingInv
<1> SUFFICES ASSUME Init PROVE CeilingPrios
  BY DEF CeilingInv
<1>1. \A p \in Process :
        prio[p] = script[p].prio /\ holding[p] = <<>> /\ status[p] = "READY"
  BY DEF Init
<1> QED BY <1>1 DEF CeilingPrios

-----------------------------------------------------------------------------
(* Urgency *)

LEMMA UrgentCallbacks ==
  ASSUME ByUrgency
  PROVE  /\ sched.schedule = "prio" /\ sched.release # "fcfs"
         /\ sched.acquire = "pip" => policy = "pip"
         /\ sched.acquire = "pcp" => policy = "pcp"
         /\ sched.release \in {"pcp", "pip"} => policy \in {"pcp", "pip"}
BY DEF ByUrgency, sched, schedulers

LEMMA UrgencyKept ==
  ASSUME [Next]_vars
  PROVE  policy' = policy /\ (ByUrgency' <=> ByUrgency) /\ (NonNested' <=> NonNested)
<1>1. policy' = policy
  BY DEF Next, vars, Fork, ForkDone, ExitAborts, Abort, ScheduleKeep, SchedulePick,
         ScheduleNone, Grant, Block, Run, Release, ReleaseDone, Terminating
<1> QED BY <1>1, WellFormedKept DEF ByUrgency, BelowCeiling, NonNested

\* Without nested requests an owner waits for nothing.
LEMMA OwnersDoNotWait ==
  ASSUME TypeInv, WellFormed, NonNested, Core, UsedOnce, pc # "release",
         NEW r \in Resource, NEW p \in Process, owner[r] = p, NEW t
  PROVE  ~Requesting(p, t)
<1>1. PICK i \in DOMAIN holding[p] : holding[p][i].resource_id = r
  BY DEF Core, Ownership
<1>2. holding[p][i].duration # 0
  BY DEF Core, Timing
<1> QED BY <1>2, HoldersAskForNothing

\* So a blocked process lends its priority to nobody who waits.
LEMMA BlockLends ==
  ASSUME CoreInv, ListedOnce, Accounted, NestInv, ByUrgency, Block
  PROVE  \E r \in Resource :
           /\ Requesting(current, r) /\ owner[r] # NULL
           /\ \A t \in Resource \ {r} : waitqueue'[t] = waitqueue[t]
           /\ ToSet(waitqueue'[r]) = ToSet(waitqueue[r]) \cup {current}
           /\ \A t \in Resource : \A q \in ToSet(waitqueue[t]) : prio'[q] = prio[q]
           /\ prio'[current] = prio[current]
           /\ \A p \in Process : prio[p] <= prio'[p]
           /\ policy = "pip" => prio[current] <= prio'[owner[r]]
<1>1. PICK r \in Resource :
        /\ Requesting(current, r) /\ owner[r] # NULL /\ prio' = Inherited(r)
        /\ \A t \in Resource \ {r} : waitqueue'[t] = waitqueue[t]
        /\ ToSet(waitqueue'[r]) = ToSet(waitqueue[r]) \cup {current}
  BY BlockEffect DEF CoreInv, TypeInv
<1>2. /\ TypeInv /\ TypeOK /\ pc = "acquire" /\ current \in Process
      /\ owner[r] \in Process
      /\ \A p \in Process : prio[p] \in Nat
  BY <1>1 DEF Block, CoreInv, TypeInv, TypeOK, SomeoneRuns
<1>3. CASE sched.acquire # "pip"
  <2>1. prio' = prio /\ policy # "pip"
    BY <1>1, <1>3 DEF Inherited, sched, schedulers
  <2> QED BY <1>1, <1>2, <2>1
<1>4. CASE sched.acquire = "pip"
  <2>1. /\ policy = "pip" /\ WellFormed /\ NonNested /\ Core /\ UsedOnce
    BY <1>4, UrgentCallbacks DEF ByUrgency, CoreInv, NestInv
  <2>2. \A t : ~Requesting(owner[r], t)
    BY <1>2, <2>1, OwnersDoNotWait
  <2>3. owner[r] # current
    BY <1>1, <2>2
  <2>4. \A t \in Resource : \A q \in ToSet(waitqueue[t]) : q \in Process /\ q # owner[r]
    <3>1. \A t \in Resource : ToSet(waitqueue[t]) \subseteq Process
      BY <1>2, Members DEF TypeOK
    <3> QED BY <2>2, <3>1 DEF Accounted
  <2>5. /\ \A p \in Process \ {owner[r]} : prio'[p] = prio[p]
        /\ prio[owner[r]] <= prio'[owner[r]] /\ prio[current] <= prio'[owner[r]]
    <3>1. CASE prio[owner[r]] < prio[current]
      <4>1. prio' = [prio EXCEPT ![owner[r]] = prio[current]]
        BY <1>1, <1>4, <3>1 DEF Inherited
      <4> QED BY <1>2, <3>1, <4>1 DEF TypeOK
    <3>2. CASE ~(prio[owner[r]] < prio[current])
      <4>1. prio' = prio
        BY <1>1, <3>2 DEF Inherited
      <4> QED BY <1>2, <3>2, <4>1
    <3> QED BY <3>1, <3>2
  <2>6. \A p \in Process : prio[p] <= prio'[p]
    BY <1>2, <2>5
  <2> QED BY <1>1, <1>2, <2>3, <2>4, <2>5, <2>6
<1> QED BY <1>3, <1>4

\* The process that takes a resource is as urgent as all that wait for it.
LEMMA TakerIsMostUrgent ==
  ASSUME TypeInv, TopRuns, PromisedToTheTop, pc = "acquire",
         NEW r \in Resource, owner[r] = NULL, NEW q \in ToSet(waitqueue[r])
  PROVE  prio[q] <= prio[current]
<1>1. waitqueue[r] \in Seq(Process) /\ waitqueue[r] # <<>> /\ q \in Process
  BY Members DEF TypeInv, TypeOK
<1>2. PICK p \in Process :
        /\ p \in ToSet(readyqueue) \/ p = current
        /\ prio[q] <= prio[p]
  BY <1>1 DEF PromisedToTheTop
<1>3. prio[p] <= prio[current]
  BY <1>2 DEF TopRuns, TypeInv, TypeOK
<1>4. prio[p] \in Nat /\ prio[q] \in Nat /\ prio[current] \in Nat
  BY <1>1 DEF TypeInv, TypeOK, SomeoneRuns
<1> QED BY <1>2, <1>3, <1>4

\* Priorities are changed for who owns something and for who runs.
LEMMA CappedStep ==
  ASSUME TypeInv, ByUrgency, Capped, [Next]_vars
  PROVE  Capped'
<1> SUFFICES ASSUME policy = "pcp" PROVE \A p \in Process : prio'[p] <= MAX_PRIO
  BY UrgencyKept DEF Capped
<1>1. /\ sched.schedule = "prio" /\ sched.acquire = "pcp" /\ BelowCeiling
      /\ \A p \in Process : prio[p] <= MAX_PRIO
  BY PcpCallbacks DEF ByUrgency, Capped
<1>2. CASE UNCHANGED prio
  BY <1>1, <1>2
<1>3. CASE Grant
  <2>1. prio' = [prio EXCEPT ![current] = MAX_PRIO]
    BY <1>1, <1>3 DEF Grant, Boosted
  <2> QED BY <1>1, <2>1, SchedAssumption DEF TypeInv, TypeOK
<1>4. CASE Release
  <2>1. prio' = prio \/ prio' = [prio EXCEPT ![current] = script[current].prio]
    BY <1>4 DEF Release, Restored
  <2>2. \A p \in Process : script[p].prio \in Nat /\ script[p].prio <= MAX_PRIO
    BY <1>1, ScriptTypes, SchedAssumption DEF BelowCeiling, TypeInv
  <2> QED BY <1>1, <2>1, <2>2 DEF TypeInv, TypeOK
<1>5. CASE SchedulePick \/ Block
  BY <1>1, <1>2, <1>5 DEF SchedulePick, Block, Inherited
<1> QED
  BY <1>2, <1>3, <1>4, <1>5
  DEF Next, vars, procs, Fork, ForkDone, ExitAborts, Abort, ScheduleKeep,
      ScheduleNone, Run, ReleaseDone, Terminating

\* The running process takes the place of the most urgent candidate, and those
\* it leaves behind are in the ready queue.
LEMMA TopRunsStep ==
  ASSUME TypeInv, ListedOnce, ByUrgency, Capped, TopRuns, [Next]_vars, pc' # "aborted"
  PROVE  TopRuns'
<1>1. CASE pc' # "acquire"
  BY <1>1 DEF TopRuns
<1>2. CASE UNCHANGED <<pc, readyqueue, prio, current>>
  BY <1>2 DEF TopRuns
<1>3. CASE SchedulePick
  <2>1. PICK i \in First(Candidates, SchedKey) :
          /\ readyqueue' = RemoveAt(Candidates, i)
          /\ current' = Candidates[i]
    BY <1>3 DEF SchedulePick
  <2>2. sched.schedule = "prio" /\ prio' = prio
    BY <1>3, UrgentCallbacks DEF SchedulePick
  <2>3. ToSet(readyqueue') \subseteq ToSet(Candidates)
    BY <2>1, PickEffect
  <2> QED BY <2>1, <2>2, <2>3, PickedIsMostUrgent DEF TopRuns
<1>4. CASE ScheduleKeep
  BY <1>4, UrgentCallbacks DEF ScheduleKeep, Preemptive
<1>5. CASE Grant
  <2>1. UNCHANGED <<readyqueue, current>> /\ pc = "acquire" /\ current \in Process
    BY <1>5 DEF Grant, queues, TypeInv, TypeOK, SomeoneRuns
  <2>2. \A q \in ToSet(readyqueue) : q \in Process /\ q # current
    BY Members DEF ListedOnce, TypeInv, TypeOK
  <2>3. \A q \in Process \ {current} : prio'[q] = prio[q]
    BY <1>5, <2>1 DEF Grant, Boosted, TypeInv, TypeOK
  <2>4. prio[current] <= prio'[current]
    <3>1. CASE sched.acquire = "pcp"
      BY <1>5, <2>1, <3>1, UrgentCallbacks DEF Grant, Boosted, Capped, TypeInv, TypeOK
    <3>2. CASE sched.acquire # "pcp"
      BY <1>5, <2>1, <3>2 DEF Grant, Boosted, TypeInv, TypeOK
    <3> QED BY <3>1, <3>2
  <2>5. \A q \in ToSet(readyqueue) : prio[q] <= prio[current]
    BY <2>1 DEF TopRuns
  <2>6. \A q \in Process : prio[q] \in Nat
    BY DEF TypeInv, TypeOK
  <2>7. prio'[current] \in Nat
    BY <1>5, <2>1, SchedAssumption DEF Grant, Boosted, TypeInv, TypeOK
  <2> QED BY <2>1, <2>2, <2>3, <2>4, <2>5, <2>6, <2>7 DEF TopRuns
<1> QED
  BY <1>1, <1>2, <1>3, <1>4, <1>5
  DEF Next, vars, procs, queues, Fork, ForkDone, ExitAborts, Abort, ScheduleNone,
      NextTick, Block, Run, Release, ReleaseDone, Terminating

\* A promise for r, made to p.
PromisedTo(p, r) ==
  /\ p \in ToSet(readyqueue) \/ (p = current /\ pc = "acquire")
  /\ Requesting(p, r)
  /\ \A q \in ToSet(waitqueue[r]) : prio[q] <= prio[p]

\* The promise is kept for every resource whose owner and waiters a step leaves
\* alone, if it lets the promised process be.
LEMMA PromiseKept ==
  ASSUME TypeInv, PromisedToTheTop, NEW r \in Resource,
         owner[r] = NULL, waitqueue[r] # <<>>, waitqueue'[r] = waitqueue[r],
         \A q \in ToSet(waitqueue[r]) : prio'[q] = prio[q],
         \A p \in Process :
           Requesting(p, r) /\ (p \in ToSet(readyqueue) \/ (p = current /\ pc = "acquire")) =>
             /\ p \in ToSet(readyqueue') \/ (p = current' /\ pc' = "acquire")
             /\ prio[p] <= prio'[p] /\ prio'[p] \in Nat
             /\ age'[p] = age[p] /\ to_acquire'[p] = to_acquire[p]
  PROVE  \E p \in Process : PromisedTo(p, r)'
<1>1. PICK p \in Process : PromisedTo(p, r)
  BY DEF PromisedToTheTop, PromisedTo
<1>2. /\ p \in ToSet(readyqueue') \/ (p = current' /\ pc' = "acquire")
      /\ prio[p] <= prio'[p] /\ prio'[p] \in Nat
      /\ age'[p] = age[p] /\ to_acquire'[p] = to_acquire[p]
  BY <1>1 DEF PromisedTo
<1>3. Requesting(p, r)'
  BY <1>1, <1>2, RequestingKept DEF PromisedTo
<1>4. \A q \in ToSet(waitqueue[r]) : prio[q] \in Nat
  BY Members DEF TypeInv, TypeOK
<1>5. prio[p] \in Nat
  BY DEF TypeInv, TypeOK
<1>6. \A q \in ToSet(waitqueue'[r]) : prio'[q] <= prio'[p]
  BY <1>1, <1>2, <1>4, <1>5 DEF PromisedTo
<1> QED BY <1>2, <1>3, <1>6 DEF PromisedTo
\* A grant: whoever is promised another resource is in the ready queue.
LEMMA GrantPromise ==
  ASSUME TypeInv, ListedOnce, PromisedToTheTop, Grant
  PROVE  PromisedToTheTop'
<1> DEFINE c == current
<1>1. /\ UNCHANGED <<queues, current, age, pc>> /\ pc = "acquire" /\ c \in Process
      /\ status[c] = "RUNNING"
      /\ \A p \in Process \ {c} : prio'[p] = prio[p] /\ prio'[p] \in Nat
  BY DEF Grant, Boosted, TypeInv, TypeOK, SomeoneRuns, ListedOnce
<1>2. PICK rs \in ResourceSchedule :
        /\ Requesting(c, rs.resource_id)
        /\ owner'[rs.resource_id] = c
        /\ \A r \in Resource \ {rs.resource_id} : owner'[r] = owner[r]
        /\ \A p \in Process \ {c} : to_acquire'[p] = to_acquire[p]
  BY GrantEffect
<1>3. c \notin ToSet(readyqueue) /\ \A r \in Resource : c \notin ToSet(waitqueue[r])
  BY <1>1 DEF ListedOnce
<1>4. \A r \in Resource : ToSet(waitqueue[r]) \subseteq Process
  BY Members DEF TypeInv, TypeOK
<1> SUFFICES ASSUME NEW r \in Resource, owner'[r] = NULL, waitqueue'[r] # <<>>
             PROVE  \E p \in Process : PromisedTo(p, r)'
  BY DEF PromisedToTheTop, PromisedTo
<1>5. r # rs.resource_id /\ owner[r] = NULL /\ waitqueue[r] # <<>>
  BY <1>1, <1>2, NullIsNoProcess DEF queues
<1>6. ~Requesting(c, r)
  BY <1>1, <1>2, <1>5, OneRequest DEF TypeInv
<1>7. \A q \in ToSet(waitqueue[r]) : prio'[q] = prio[q]
  BY <1>1, <1>3, <1>4
<1>8. ASSUME NEW p \in Process, Requesting(p, r), p \in ToSet(readyqueue) \/ p = c
      PROVE  /\ p \in ToSet(readyqueue')
             /\ prio[p] <= prio'[p] /\ prio'[p] \in Nat
             /\ age'[p] = age[p] /\ to_acquire'[p] = to_acquire[p]
  <2>1. p # c /\ p \in ToSet(readyqueue)
    BY <1>6, <1>8
  <2> QED BY <1>1, <1>2, <2>1 DEF queues
<1> QED BY <1>1, <1>5, <1>7, <1>8, PromiseKept DEF queues

\* A process that blocks was not promised another resource, and the one it asks
\* for is not free.
LEMMA BlockPromise ==
  ASSUME CoreInv, ListedOnce, Accounted, NestInv, ByUrgency, PromisedToTheTop, Block
  PROVE  PromisedToTheTop'
<1> DEFINE c == current
<1>1. /\ UNCHANGED <<readyqueue, owner, age, to_acquire>> /\ c \in Process
      /\ TypeInv /\ TypeInv'
  BY TypeStep DEF Block, CoreInv, TypeInv, TypeOK, SomeoneRuns, Next
<1>2. PICK r0 \in Resource :
        /\ Requesting(c, r0) /\ owner[r0] # NULL
        /\ \A t \in Resource \ {r0} : waitqueue'[t] = waitqueue[t]
        /\ \A t \in Resource : \A q \in ToSet(waitqueue[t]) : prio'[q] = prio[q]
        /\ \A p \in Process : prio[p] <= prio'[p]
  BY BlockLends
<1> SUFFICES ASSUME NEW r \in Resource, owner'[r] = NULL, waitqueue'[r] # <<>>
             PROVE  \E p \in Process : PromisedTo(p, r)'
  BY DEF PromisedToTheTop, PromisedTo
<1>3. r # r0 /\ owner[r] = NULL /\ waitqueue'[r] = waitqueue[r] /\ waitqueue[r] # <<>>
  BY <1>1, <1>2
<1>4. ~Requesting(c, r)
  BY <1>1, <1>2, <1>3, OneRequest DEF TypeInv
<1>5. ASSUME NEW p \in Process, Requesting(p, r), p \in ToSet(readyqueue) \/ p = c
      PROVE  /\ p \in ToSet(readyqueue')
             /\ prio[p] <= prio'[p] /\ prio'[p] \in Nat
             /\ age'[p] = age[p] /\ to_acquire'[p] = to_acquire[p]
  <2>1. p \in ToSet(readyqueue)
    BY <1>4, <1>5
  <2> QED BY <1>1, <1>2, <2>1 DEF TypeInv, TypeOK
<1>6. \A q \in ToSet(waitqueue[r]) : prio'[q] = prio[q]
  BY <1>2
<1> QED BY <1>1, <1>3, <1>5, <1>6, PromiseKept

\* A process that runs asks for nothing.
LEMMA RunPromise ==
  ASSUME TypeInv, ListedOnce, PromisedToTheTop, Run
  PROVE  PromisedToTheTop'
<1> DEFINE c == current
<1>1. /\ UNCHANGED <<queues, owner, prio, to_acquire>> /\ c \in Process
      /\ \A p \in Process \ {c} : age'[p] = age[p]
      /\ Requests(c) = {}
  BY DEF Run, TypeInv, TypeOK, SomeoneRuns
<1>2. \A r : ~Requesting(c, r)
  BY <1>1 DEF Requesting, Least
<1> SUFFICES ASSUME NEW r \in Resource, owner'[r] = NULL, waitqueue'[r] # <<>>
             PROVE  \E p \in Process : PromisedTo(p, r)'
  BY DEF PromisedToTheTop, PromisedTo
<1>3. ASSUME NEW p \in Process, Requesting(p, r), p \in ToSet(readyqueue) \/ p = c
      PROVE  /\ p \in ToSet(readyqueue')
             /\ prio[p] <= prio'[p] /\ prio'[p] \in Nat
             /\ age'[p] = age[p] /\ to_acquire'[p] = to_acquire[p]
  <2>1. p # c /\ p \in ToSet(readyqueue)
    BY <1>2, <1>3
  <2> QED BY <1>1, <2>1 DEF queues, TypeInv, TypeOK
<1> QED BY <1>1, <1>3, PromiseKept DEF queues

\* A release promises the resource to the waiter it wakes, and breaks no other
\* promise.
LEMMA ReleasePromise ==
  ASSUME TypeInv, ListedOnce, Accounted, ByUrgency, PromisedToTheTop, Release
  PROVE  PromisedToTheTop'
<1> DEFINE c == current
<1>1. /\ UNCHANGED <<forkqueue, current, age, to_acquire>> /\ pc = "release"
      /\ c \in Process /\ status[c] = "RUNNING"
      /\ \A p \in Process \ {c} : prio'[p] = prio[p] /\ prio'[p] \in Nat
  BY DEF Release, Restored, TypeInv, TypeOK, SomeoneRuns, ListedOnce
<1>2. PICK t \in Resource :
        /\ Wake(t)
        /\ owner'[t] = NULL /\ \A r \in Resource \ {t} : owner'[r] = owner[r]
  BY ReleaseEffect
<1>3. c \notin ToSet(readyqueue) /\ \A r \in Resource : c \notin ToSet(waitqueue[r])
  BY <1>1 DEF ListedOnce
<1>4. \A r \in Resource : ToSet(waitqueue[r]) \subseteq Process
  BY Members DEF TypeInv, TypeOK
<1>5. sched.release # "fcfs"
  BY UrgentCallbacks
<1> SUFFICES ASSUME NEW r \in Resource, owner'[r] = NULL, waitqueue'[r] # <<>>
             PROVE  \E p \in Process : PromisedTo(p, r)'
  BY DEF PromisedToTheTop, PromisedTo
<1>6. CASE r # t
  <2>1. /\ waitqueue'[r] = waitqueue[r] /\ owner[r] = NULL
        /\ ToSet(readyqueue) \subseteq ToSet(readyqueue')
    <3>1. CASE waitqueue[t] = <<>>
      BY <1>2, <1>6, <3>1 DEF Wake, HasWaiters
    <3>2. CASE waitqueue[t] # <<>>
      BY <1>2, <1>6, <3>2, WakeEffect
    <3> QED BY <3>1, <3>2
  <2>2. \A q \in ToSet(waitqueue[r]) : prio'[q] = prio[q]
    BY <1>1, <1>3, <1>4
  <2>3. ASSUME NEW p \in Process, p \in ToSet(readyqueue)
        PROVE  /\ p \in ToSet(readyqueue')
               /\ prio[p] <= prio'[p] /\ prio'[p] \in Nat
               /\ age'[p] = age[p] /\ to_acquire'[p] = to_acquire[p]
    <3>1. p # c /\ prio'[p] = prio[p] /\ prio'[p] \in Nat
      BY <1>1, <1>3, <2>3
    <3> QED BY <1>1, <2>1, <2>3, <3>1
  <2> QED BY <1>1, <2>1, <2>2, <2>3, PromiseKept
<1>7. CASE r = t
  <2>1. waitqueue[t] # <<>>
    BY <1>2, <1>7 DEF Wake, HasWaiters
  <2>2. PICK w \in Process :
          /\ w \in ToSet(waitqueue[t])
          /\ ToSet(waitqueue'[t]) = ToSet(waitqueue[t]) \ {w}
          /\ ToSet(readyqueue') = ToSet(readyqueue) \cup {w}
          /\ \A q \in ToSet(waitqueue[t]) : prio[q] <= prio[w]
    BY <1>2, <1>5, <2>1, WakeEffect
  <2>3. Requesting(w, t)'
    <3>1. Requesting(w, t)
      BY <2>2 DEF Accounted
    <3> QED BY <1>1, <3>1, RequestingKept
  <2>4. w # c /\ prio'[w] = prio[w]
    BY <1>1, <1>3, <2>2
  <2>5. \A q \in ToSet(waitqueue'[t]) : prio'[q] <= prio'[w]
    BY <1>1, <1>3, <1>4, <2>2, <2>4
  <2> QED BY <1>7, <2>2, <2>3, <2>5 DEF PromisedTo
<1> QED BY <1>6, <1>7

LEMMA PromiseStep ==
  ASSUME CoreInv, ListedOnce, Accounted, NestInv, ByUrgency, PromisedToTheTop,
         [Next]_vars, pc' # "aborted"
  PROVE  PromisedToTheTop'
<1>1. TypeInv
  BY DEF CoreInv, TypeInv
<1>2. ASSUME UNCHANGED <<waitqueue, owner, age, prio, to_acquire>>,
             \A p \in Process :
               p \in ToSet(readyqueue) \/ (p = current /\ pc = "acquire")
                 => p \in ToSet(readyqueue') \/ (p = current' /\ pc' = "acquire")
      PROVE  PromisedToTheTop'
  <2> SUFFICES ASSUME NEW r \in Resource, owner'[r] = NULL, waitqueue'[r] # <<>>
               PROVE  \E p \in Process : PromisedTo(p, r)'
    BY DEF PromisedToTheTop, PromisedTo
  <2>1. owner[r] = NULL /\ waitqueue[r] # <<>> /\ waitqueue'[r] = waitqueue[r]
    BY <1>2
  <2>2. \A p \in Process : prio'[p] = prio[p] /\ prio'[p] \in Nat /\ prio[p] <= prio'[p]
    BY <1>1, <1>2 DEF TypeInv, TypeOK
  <2> QED BY <1>1, <1>2, <2>1, <2>2, PromiseKept
<1>3. CASE Fork
  <2>1. /\ UNCHANGED <<waitqueue, owner, age, prio, to_acquire, pc>> /\ pc = "fork"
        /\ \E i \in DOMAIN forkqueue : readyqueue' = Append(readyqueue, forkqueue[i])
    BY <1>3 DEF Fork, Least, DueForks
  <2>2. ToSet(readyqueue) \subseteq ToSet(readyqueue')
    BY <1>1, <2>1, Entry, AppendFacts DEF TypeInv, TypeOK
  <2> QED BY <1>2, <2>1, <2>2
<1>4. CASE ForkDone \/ ReleaseDone \/ UNCHANGED vars
  BY <1>2, <1>4 DEF ForkDone, ReleaseDone, NextTick, vars, queues, procs
<1>5. CASE ScheduleKeep
  BY <1>5, UrgentCallbacks DEF ScheduleKeep, Preemptive
<1>6. CASE SchedulePick
  <2>1. PICK i \in First(Candidates, SchedKey) :
          /\ readyqueue' = RemoveAt(Candidates, i)
          /\ current' = Candidates[i]
          /\ pc' \in {"aborted", "acquire"}
    BY <1>6 DEF SchedulePick
  <2>2. UNCHANGED <<waitqueue, owner, age, prio, to_acquire>> /\ pc = "schedule"
    BY <1>6, UrgentCallbacks DEF SchedulePick
  <2>3. /\ ToSet(readyqueue) \subseteq ToSet(Candidates)
        /\ ToSet(readyqueue') = ToSet(Candidates) \ {current'}
    BY <1>1, <2>1, PickEffect
  <2> QED BY <1>2, <2>1, <2>2, <2>3
<1>7. CASE ScheduleNone
  <2>1. UNCHANGED <<queues, owner, age, prio, to_acquire>> /\ pc = "schedule"
    BY <1>7 DEF ScheduleNone
  <2> QED BY <1>2, <2>1 DEF queues
<1> QED
  BY <1>1, <1>3, <1>4, <1>5, <1>6, <1>7, GrantPromise, BlockPromise, RunPromise,
     ReleasePromise
  DEF Next, ExitAborts, Abort, Terminating

LEMMA UrgentInvStep ==
  CoreInv /\ AnyScript /\ NestInv /\ UrgentInv /\ [Next]_vars => UrgentInv'
<1> SUFFICES ASSUME CoreInv, AnyScript, NestInv, UrgentInv, [Next]_vars, ByUrgency',
                    pc' # "aborted"
             PROVE  (Capped /\ TopRuns /\ PromisedToTheTop)'
  BY DEF UrgentInv
<1>1. pc # "aborted"
  BY DEF Next, vars, Fork, ForkDone, ExitAborts, Abort, ScheduleKeep, SchedulePick,
         ScheduleNone, Grant, Block, Run, Release, ReleaseDone, Terminating
<1>2. /\ TypeInv /\ ListedOnce /\ Accounted /\ ByUrgency
      /\ Capped /\ TopRuns /\ PromisedToTheTop
  BY <1>1, UrgencyKept DEF CoreInv, TypeInv, AnyScript, UrgentInv
<1> QED BY <1>2, CappedStep, TopRunsStep, PromiseStep

LEMMA UrgentInvInit == Init => UrgentInv
<1> SUFFICES ASSUME Init, ByUrgency PROVE Capped /\ TopRuns /\ PromisedToTheTop
  BY DEF UrgentInv
<1>1. TypeInv
  BY TypeInit
<1>2. Capped
  BY <1>1, ScriptTypes, SchedAssumption DEF Init, Capped, ByUrgency, BelowCeiling, TypeInv
<1> QED BY <1>2 DEF Init, TopRuns, PromisedToTheTop

-----------------------------------------------------------------------------
(* Inheritance *)

LEMMA InheritanceStep ==
  CoreInv /\ AnyScript /\ NestInv /\ UrgentInv /\ InheritanceHolds /\ [Next]_vars
    => InheritanceHolds'
<1> SUFFICES ASSUME CoreInv, AnyScript, NestInv, UrgentInv, InheritanceHolds, [Next]_vars,
                    WellFormed', NonNested', policy' = "pip", pc' # "aborted",
                    NEW r \in Resource, owner'[r] # NULL, NEW q \in ToSet(waitqueue'[r])
             PROVE  prio'[q] <= prio'[owner'[r]]
  BY DEF InheritanceHolds, OwnersInherit
<1>1. /\ TypeInv /\ WellFormed /\ NonNested /\ policy = "pip" /\ pc # "aborted"
      /\ ByUrgency /\ sched.acquire = "pip"
  BY UrgencyKept, WellFormedKept
  DEF CoreInv, TypeInv, Core, ByUrgency, sched, schedulers
<1>2. /\ Core /\ ListedOnce /\ Accounted /\ OneAtATime /\ OwnersInherit
      /\ TopRuns /\ PromisedToTheTop
  BY <1>1 DEF CoreInv, AnyScript, NestInv, UrgentInv, InheritanceHolds
<1>3. \A t \in Resource : ToSet(waitqueue[t]) \subseteq Process
  BY <1>1, Members DEF TypeInv, TypeOK
<1>4. CASE UNCHANGED <<waitqueue, owner, prio>>
  BY <1>2, <1>4 DEF OwnersInherit
<1>5. CASE SchedulePick
  BY <1>1, <1>4, <1>5, UrgentCallbacks DEF SchedulePick
<1>6. CASE Grant
  <2>1. UNCHANGED <<waitqueue, prio, current>> /\ pc = "acquire" /\ current \in Process
    BY <1>1, <1>6 DEF Grant, Boosted, queues, TypeInv, TypeOK, SomeoneRuns
  <2>2. PICK t \in Resource :
          /\ owner[t] = NULL /\ owner'[t] = current
          /\ \A u \in Resource \ {t} : owner'[u] = owner[u]
    BY <1>1, <1>6, GrantEffect
  <2>3. CASE r = t
    BY <1>1, <1>2, <2>1, <2>2, <2>3, TakerIsMostUrgent
  <2>4. CASE r # t
    BY <1>2, <2>1, <2>2, <2>4 DEF OwnersInherit
  <2> QED BY <2>3, <2>4
<1>7. CASE Block
  <2>1. owner' = owner /\ owner[r] \in Process
    BY <1>1, <1>7 DEF Block, TypeInv, TypeOK
  <2>2. PICK t \in Resource :
          /\ \A u \in Resource \ {t} : waitqueue'[u] = waitqueue[u]
          /\ ToSet(waitqueue'[t]) = ToSet(waitqueue[t]) \cup {current}
          /\ \A u \in Resource : \A p \in ToSet(waitqueue[u]) : prio'[p] = prio[p]
          /\ prio'[current] = prio[current]
          /\ \A p \in Process : prio[p] <= prio'[p]
          /\ prio[current] <= prio'[owner[t]]
    BY <1>1, <1>2, <1>7, BlockLends
  <2>3. CASE q \in ToSet(waitqueue[r])
    <3>1. prio'[q] = prio[q] /\ prio[q] <= prio[owner[r]] /\ prio[owner[r]] <= prio'[owner[r]]
      BY <1>2, <2>1, <2>2, <2>3 DEF OwnersInherit
    <3>2. prio[q] \in Nat /\ prio[owner[r]] \in Nat
      BY <1>1, <1>3, <2>1, <2>3 DEF TypeInv, TypeOK
    <3>3. prio'[owner[r]] \in Nat
      BY <1>1, <2>1, TypeStep DEF TypeInv, TypeOK
    <3> QED BY <2>1, <3>1, <3>2, <3>3
  <2>4. CASE q \notin ToSet(waitqueue[r])
    BY <2>1, <2>2, <2>4
  <2> QED BY <2>3, <2>4
<1>8. CASE Release
  <2>1. /\ current \in Process /\ status[current] = "RUNNING"
        /\ \A p \in Process \ {current} : prio'[p] = prio[p]
    BY <1>1, <1>2, <1>8 DEF Release, Restored, TypeInv, TypeOK, SomeoneRuns, ListedOnce
  <2>2. PICK i \in DOMAIN holding[current] :
          LET t == holding[current][i].resource_id IN
          /\ t \in Resource /\ Wake(t) /\ owner[t] = current
          /\ owner'[t] = NULL /\ \A u \in Resource \ {t} : owner'[u] = owner[u]
    BY <1>1, <1>8, ReleaseEffect
  <2> DEFINE t == holding[current][i].resource_id
  <2>3. r # t /\ owner'[r] = owner[r]
    BY <2>2
  <2>4. waitqueue'[r] = waitqueue[r]
    <3>1. CASE waitqueue[t] = <<>>
      BY <2>2, <3>1 DEF Wake, HasWaiters
    <3>2. CASE waitqueue[t] # <<>>
      BY <1>1, <1>2, <2>2, <2>3, <3>2, WakeEffect
    <3> QED BY <3>1, <3>2
  <2>5. owner[r] # current
    <3> SUFFICES ASSUME owner[r] = current PROVE FALSE
      OBVIOUS
    <3>1. PICK j \in DOMAIN holding[current] : holding[current][j].resource_id = r
      BY <1>2, <2>1 DEF Accounted
    <3>2. i = j
      BY <1>2, <2>1 DEF OneAtATime
    <3> QED BY <2>3, <3>1, <3>2
  <2>6. q # current /\ q \in Process
    BY <1>2, <1>3, <2>1, <2>4 DEF ListedOnce
  <2>7. prio[q] <= prio[owner[r]] /\ owner[r] \in Process
    BY <1>1, <1>2, <2>3, <2>4 DEF OwnersInherit, TypeInv, TypeOK
  <2> QED BY <2>1, <2>3, <2>5, <2>6, <2>7
<1> QED
  BY <1>4, <1>5, <1>6, <1>7, <1>8
  DEF Next, vars, procs, queues, Fork, ForkDone, ExitAborts, Abort, ScheduleKeep,
      ScheduleNone, Run, ReleaseDone, Terminating

LEMMA InheritanceInit == Init => InheritanceHolds
BY DEF Init, InheritanceHolds, OwnersInherit

-----------------------------------------------------------------------------
(* The theorems *)

LEMMA IInvInit == Init => IInv
BY CoreInvInit, AnyScriptInit, NestInvInit, UrgentInvInit, CeilingInvInit,
   InheritanceInit
   DEF IInv, CoreInv

LEMMA IInvStep == IInv /\ [Next]_vars => IInv'
<1> SUFFICES ASSUME IInv, [Next]_vars PROVE IInv'
  OBVIOUS
<1>1. CoreInv /\ TypeInv
  BY DEF IInv, CoreInv, TypeInv
<1>2. AnyScript /\ NestInv /\ UrgentInv /\ CeilingInv /\ InheritanceHolds
  BY DEF IInv
<1>3. CoreInv' /\ AnyScript' /\ NestInv'
  BY <1>1, <1>2, CoreInvStep, AnyScriptStep, NestInvStep
<1>4. UrgentInv' /\ CeilingInv' /\ InheritanceHolds'
  BY <1>1, <1>2, UrgentInvStep, CeilingInvStep, InheritanceStep
<1> QED BY <1>3, <1>4 DEF IInv, CoreInv

\* All that the other theorems follow from is inductive, for every policy and
\* every script.
THEOREM InvariantHolds == Spec => []IInv
BY IInvInit, IInvStep, PTL DEF Spec

\* On a well-formed script without nested requests every process has exited
\* when the simulation ends, under each of the eight policies.
THEOREM NoDeadlock == Spec => []NoDeadlockUnlessNested
<1>1. ASSUME IInv, QuitsOnlyInDeadlock PROVE NoDeadlockUnlessNested
  <2> SUFFICES ASSUME WellFormed, NonNested, pc = "done",
                      NEW p \in Process, status[p] # "EXIT"
               PROVE  FALSE
    BY DEF NoDeadlockUnlessNested
  <2>1. TypeInv /\ TypeOK /\ Core /\ UsedOnce
    BY <1>1 DEF IInv, TypeInv, NestInv
  <2>2. PICK r \in Resource : owner[r] # NULL /\ status[owner[r]] = "BLOCKED"
    BY <1>1 DEF QuitsOnlyInDeadlock
  <2> DEFINE o == owner[r]
  <2>3. o \in Process /\ status[o] = "BLOCKED"
    BY <2>1, <2>2 DEF TypeOK
  <2>4. PICK i \in DOMAIN holding[o] : holding[o][i].resource_id = r
    BY <2>1, <2>3 DEF Core, Ownership
  <2>5. holding[o][i].duration # 0
    BY <2>1, <2>3 DEF Core, Timing
  <2>6. \E t \in Resource : Requesting(o, t)
    BY <2>1, <2>3 DEF Core, Placement
  <2> QED BY <2>1, <2>3, <2>5, <2>6, HoldersAskForNothing
<1> QED BY <1>1, InvariantHolds, OnlyDeadlocksAreLeft, PTL

\* Under the ceiling protocol, without nested requests, a process that holds a
\* resource keeps the processor until it has given it back, and nobody ever
\* has to wait for a resource.
THEOREM CeilingHolds == Spec => []CeilingKeepsTheCpu
<1>1. IInv => CeilingKeepsTheCpu
  BY DEF IInv, CeilingInv, CeilingPrios, CeilingKeepsTheCpu
<1> QED BY <1>1, InvariantHolds, PTL

\* Under the inheritance protocol, without nested requests, an owner is at least
\* as urgent as everyone who waits for its resource, from the first request on
\* and through every hand-over.
THEOREM InheritanceWorks == Spec => []InheritanceHolds
<1>1. IInv => InheritanceHolds
  BY DEF IInv
<1> QED BY <1>1, InvariantHolds, PTL

-----------------------------------------------------------------------------
(* The history *)

\* The record restricts no step of the simulator.
LEMMA HistorySteps ==
  /\ HInit => Init
  /\ [HNext]_hvars => [Next]_vars
BY DEF HInit, HNext, hvars

LEMMA IInvInHistory == HSpec => []IInv
<1>1. HInit => IInv
  BY HistorySteps, IInvInit
<1>2. IInv /\ [HNext]_hvars => IInv'
  BY HistorySteps, IInvStep
<1> QED BY <1>1, <1>2, PTL DEF HSpec

\* What a step writes down of the requests.
LEMMA GrantRecords ==
  ASSUME TypeInv, HTypeOK, Grant, RecordRequest
  PROVE  \E r \in Resource :
           /\ Requesting(current, r)
           /\ requests'[r] = requests[r] \ {current}
           /\ \A t \in Resource \ {r} : requests'[t] = requests[t]
<1>1. PICK r \in Resource :
        /\ Requesting(current, r)
        /\ owner[r] = NULL /\ owner'[r] = current
        /\ \A t \in Resource \ {r} : owner'[t] = owner[t]
  BY GrantEffect
<1>2. /\ pc = "acquire" /\ waitqueue' = waitqueue /\ current \in Process
  BY DEF Grant, queues, TypeInv, TypeOK, SomeoneRuns
<1>3. owner'[r] # owner[r]
  BY <1>1, <1>2, NullIsNoProcess
<1> QED BY <1>1, <1>2, <1>3 DEF RecordRequest

LEMMA BlockRecords ==
  ASSUME TypeInv, HTypeOK, Block, RecordRequest
  PROVE  \E r \in Resource :
           /\ Requesting(current, r)
           /\ requests'[r] = requests[r] \cup {current}
           /\ ToSet(waitqueue'[r]) = ToSet(waitqueue[r]) \cup {current}
           /\ \A t \in Resource \ {r} :
                requests'[t] = requests[t] /\ waitqueue'[t] = waitqueue[t]
<1>1. PICK r \in Resource :
        /\ Requesting(current, r)
        /\ waitqueue'[r] = Append(waitqueue[r], current)
        /\ \A t \in Resource \ {r} : waitqueue'[t] = waitqueue[t]
        /\ ToSet(waitqueue'[r]) = ToSet(waitqueue[r]) \cup {current}
  BY BlockEffect
<1>2. pc = "acquire" /\ owner' = owner /\ current \in Process
  BY DEF Block, TypeInv, TypeOK, SomeoneRuns
<1>3. waitqueue'[r] # waitqueue[r]
  <2>1. waitqueue[r] \in Seq(Process)
    BY DEF TypeInv, TypeOK
  <2>2. Len(waitqueue'[r]) = Len(waitqueue[r]) + 1 /\ Len(waitqueue[r]) \in Nat
    BY <1>1, <1>2, <2>1, AppendFacts, LenProperties
  <2> QED BY <2>2
<1> QED BY <1>1, <1>2, <1>3 DEF RecordRequest

LEMMA OthersRecordNothing ==
  ASSUME HTypeOK, RecordRequest, pc = "acquire" => UNCHANGED <<owner, waitqueue>>
  PROVE  requests' = requests
BY DEF HTypeOK, RecordRequest

LEMMA HTypeStep ==
  ASSUME TypeInv, HTypeOK, HNext
  PROVE  HTypeOK'
<1>1. TypeInv'
  BY TypeStep DEF HNext
<1>2. requests' \in [Resource -> SUBSET Process]
  <2>1. CASE pc = "acquire"
    <3>1. current \in Process
      BY <2>1 DEF TypeInv, TypeOK, SomeoneRuns
    <3> QED BY <3>1 DEF HNext, RecordRequest, HTypeOK
  <2>2. CASE pc # "acquire"
    BY <2>2 DEF HNext, RecordRequest, HTypeOK
  <2> QED BY <2>1, <2>2
<1>3. overtakes' \in [Process -> [Process -> Nat]]
  <2>1. CASE pc = "schedule" /\ pc' = "acquire"
    <3>1. current' \in Process
      BY <1>1, <2>1 DEF TypeInv, TypeOK, SomeoneRuns
    <3>2. Nobody \in [Process -> Nat]
      BY DEF Nobody
    <3>3. \A p \in Process :
            [overtakes[p] EXCEPT ![current'] = @ + 1] \in [Process -> Nat]
      BY <3>1 DEF HTypeOK
    <3> QED BY <2>1, <3>2, <3>3 DEF HNext, RecordPick
  <2>2. CASE ~(pc = "schedule" /\ pc' = "acquire")
    BY <2>2 DEF HNext, RecordPick, HTypeOK
  <2> QED BY <2>1, <2>2
<1> QED BY <1>2, <1>3 DEF HTypeOK

\* Where a process is that has asked for r.
AsksFor(p, r) ==
  /\ Requesting(p, r)
  /\ \/ p \in ToSet(waitqueue[r]) \cup ToSet(readyqueue)
     \/ p = current /\ pc = "acquire"

\* A step that does not touch a process leaves it asking.
LEMMA AskingKept ==
  ASSUME NEW p \in Process, NEW r, Requesting(p, r),
         age'[p] = age[p], to_acquire'[p] = to_acquire[p],
         \/ p \in ToSet(waitqueue'[r]) \cup ToSet(readyqueue')
         \/ p = current' /\ pc' = "acquire"
  PROVE  AsksFor(p, r)'
<1>1. Requesting(p, r)'
  BY RequestingKept
<1> QED BY <1>1 DEF AsksFor

LEMMA StillAskingStep ==
  ASSUME TypeInv, ListedOnce, HTypeOK, StillAsking, HNext,
         pc # "aborted", pc' # "aborted"
  PROVE  StillAsking'
<1> DEFINE c == current
<1> SUFFICES ASSUME NEW r \in Resource, NEW p \in requests'[r]
             PROVE  AsksFor(p, r)'
  BY DEF StillAsking, AsksFor
<1>1. HTypeOK' /\ p \in Process
  BY HTypeStep DEF HTypeOK
<1>2. \A q \in requests[r] : AsksFor(q, r)
  BY DEF StillAsking, AsksFor
<1>3. RecordRequest /\ Next
  BY DEF HNext
<1>4. CASE Grant
  <2>1. /\ UNCHANGED <<queues, current, age, pc>> /\ c \in Process
        /\ \A q \in Process \ {c} : to_acquire'[q] = to_acquire[q]
    BY <1>4, GrantEffect DEF Grant, TypeInv, TypeOK, SomeoneRuns
  <2>2. PICK t \in Resource :
          /\ Requesting(c, t)
          /\ requests'[t] = requests[t] \ {c}
          /\ \A u \in Resource \ {t} : requests'[u] = requests[u]
    BY <1>3, <1>4, GrantRecords
  <2>3. p \in requests[r] /\ AsksFor(p, r)
    BY <1>2, <2>2
  <2>4. p # c
    <3> SUFFICES ASSUME p = c PROVE FALSE
      OBVIOUS
    <3>1. r = t
      BY <2>1, <2>2, <2>3, OneRequest DEF AsksFor, TypeInv
    <3> QED BY <2>2, <3>1
  <2> QED BY <1>1, <2>1, <2>3, <2>4, AskingKept DEF AsksFor, queues
<1>5. CASE Block
  <2>1. /\ UNCHANGED <<readyqueue, age, to_acquire>> /\ c \in Process
    BY <1>5 DEF Block, TypeInv, TypeOK, SomeoneRuns
  <2>2. PICK t \in Resource :
          /\ Requesting(c, t)
          /\ requests'[t] = requests[t] \cup {c}
          /\ ToSet(waitqueue'[t]) = ToSet(waitqueue[t]) \cup {c}
          /\ \A u \in Resource \ {t} :
               requests'[u] = requests[u] /\ waitqueue'[u] = waitqueue[u]
    BY <1>3, <1>5, BlockRecords
  <2>3. CASE p = c
    <3>1. Requesting(c, r)
      BY <1>2, <2>2, <2>3 DEF AsksFor
    <3>2. r = t
      BY <2>1, <2>2, <3>1, OneRequest DEF TypeInv
    <3> QED BY <2>1, <2>2, <2>3, <3>1, <3>2, AskingKept
  <2>4. CASE p # c
    <3>1. AsksFor(p, r)
      BY <1>2, <2>2, <2>4
    <3>2. p \in ToSet(waitqueue'[r]) \cup ToSet(readyqueue')
      BY <2>1, <2>2, <2>4, <3>1 DEF AsksFor
    <3> QED BY <1>1, <2>1, <3>1, <3>2, AskingKept DEF AsksFor
  <2> QED BY <2>3, <2>4
<1>6. ASSUME ~Grant, ~Block
      PROVE  p \in requests[r] /\ AsksFor(p, r)
  <2>1. pc = "acquire" => UNCHANGED <<owner, waitqueue>>
    BY <1>3, <1>6
    DEF Next, vars, queues, Fork, ForkDone, ExitAborts, ScheduleKeep, SchedulePick,
        ScheduleNone, Run, Release, ReleaseDone, Terminating
  <2> QED BY <1>2, <1>3, <2>1, OthersRecordNothing
<1>7. ASSUME AsksFor(p, r), UNCHANGED <<age, to_acquire, waitqueue>>, pc # "acquire",
             ToSet(readyqueue) \subseteq ToSet(readyqueue')
      PROVE  AsksFor(p, r)'
  BY <1>1, <1>7, AskingKept DEF AsksFor
<1>8. CASE Fork
  <2>1. /\ UNCHANGED <<age, to_acquire, waitqueue>> /\ pc = "fork"
        /\ \E i \in DOMAIN forkqueue : readyqueue' = Append(readyqueue, forkqueue[i])
    BY <1>8 DEF Fork, Least, DueForks
  <2>2. ToSet(readyqueue) \subseteq ToSet(readyqueue')
    BY <2>1, Entry, AppendFacts DEF TypeInv, TypeOK
  <2> QED BY <1>6, <1>7, <1>8, <2>1, <2>2 DEF Fork, Grant, Block
<1>9. CASE ForkDone \/ ReleaseDone \/ ScheduleNone \/ ScheduleKeep
  BY <1>6, <1>7, <1>9
  DEF ForkDone, ReleaseDone, ScheduleNone, ScheduleKeep, NextTick, queues, procs,
      Grant, Block
<1>10. CASE SchedulePick
  <2>1. PICK i \in First(Candidates, SchedKey) :
          /\ readyqueue' = RemoveAt(Candidates, i)
          /\ current' = Candidates[i]
          /\ pc' \in {"aborted", "acquire"}
    BY <1>10 DEF SchedulePick
  <2>2. UNCHANGED <<waitqueue, age, to_acquire>> /\ pc = "schedule"
    BY <1>10 DEF SchedulePick
  <2>3. /\ ToSet(readyqueue) \subseteq ToSet(Candidates)
        /\ ToSet(readyqueue') = ToSet(Candidates) \ {current'}
    BY <2>1, PickEffect
  <2>4. AsksFor(p, r)
    BY <1>6, <2>2 DEF Grant, Block
  <2> QED BY <1>1, <2>1, <2>2, <2>3, <2>4, AskingKept DEF AsksFor
<1>11. CASE Run
  <2>1. /\ UNCHANGED <<queues, to_acquire>> /\ c \in Process
        /\ \A q \in Process \ {c} : age'[q] = age[q]
        /\ Requests(c) = {}
    BY <1>11 DEF Run, TypeInv, TypeOK, SomeoneRuns
  <2>2. ~Grant /\ ~Block
    BY <2>1 DEF Grant, Block, Requesting, Least
  <2>3. AsksFor(p, r)
    BY <1>6, <2>2
  <2>4. p # c
    BY <2>1, <2>3 DEF AsksFor, Requesting, Least
  <2> QED BY <1>1, <2>1, <2>3, <2>4, AskingKept DEF AsksFor, queues
<1>12. CASE Release
  <2>1. UNCHANGED <<age, to_acquire>> /\ pc = "release"
    BY <1>12 DEF Release
  <2>2. AsksFor(p, r)
    BY <1>6, <2>1 DEF Grant, Block
  <2>3. PICK t \in Resource : Wake(t)
    BY <1>12, ReleaseEffect
  <2>4. ToSet(waitqueue[r]) \cup ToSet(readyqueue)
          \subseteq ToSet(waitqueue'[r]) \cup ToSet(readyqueue')
    <3>1. CASE waitqueue[t] = <<>>
      BY <2>3, <3>1 DEF Wake, HasWaiters
    <3>2. CASE waitqueue[t] # <<>>
      BY <2>3, <3>2, WakeEffect
    <3> QED BY <3>1, <3>2
  <2> QED BY <1>1, <2>1, <2>2, <2>4, AskingKept DEF AsksFor
<1>13. CASE Terminating
  <2>1. UNCHANGED <<queues, current, age, to_acquire>> /\ pc = "done"
    BY <1>13 DEF Terminating, vars, procs
  <2>2. AsksFor(p, r)
    BY <1>6, <2>1 DEF Grant, Block
  <2> QED BY <1>1, <2>1, <2>2, <1>7 DEF queues
<1> QED
  BY <1>3, <1>4, <1>5, <1>8, <1>9, <1>10, <1>11, <1>12, <1>13
  DEF Next, ExitAborts, Abort

\* Who takes a resource is as urgent as all who have asked for it.
LEMMA TakerStep ==
  ASSUME IInv, HTypeOK, StillAsking, ByUrgency, HNext,
         NEW r \in Resource, Takes(r), NEW p \in requests[r]
  PROVE  prio[p] <= prio[current]
<1>1. Grant
  BY DEF HNext, Next, vars, Takes, Fork, ForkDone, ExitAborts, ScheduleKeep,
         SchedulePick, ScheduleNone, Block, Run, Release, ReleaseDone, Terminating
<1>2. /\ TypeInv /\ TopRuns /\ PromisedToTheTop /\ AsksFor(p, r)
      /\ pc = "acquire" /\ current \in Process
  BY <1>1 DEF Grant, IInv, TypeInv, TypeOK, SomeoneRuns, UrgentInv, StillAsking, AsksFor
<1>3. owner[r] = NULL
  BY <1>1, <1>2, GrantEffect DEF Takes
<1>4. prio[current] \in Nat
  BY <1>2 DEF TypeInv, TypeOK
<1> QED BY <1>2, <1>3, <1>4, TakerIsMostUrgent DEF AsksFor, TopRuns

\* What the record adds to the invariant for the requests.
AskingInv == IInv /\ HTypeOK /\ StillAsking

LEMMA AskingInit == HInit => AskingInv
<1> SUFFICES ASSUME HInit PROVE AskingInv
  OBVIOUS
<1>1. IInv
  BY HistorySteps, IInvInit
<1>2. Nobody \in [Process -> Nat]
  BY DEF Nobody
<1>3. HTypeOK /\ StillAsking
  BY <1>2 DEF HInit, HTypeOK, StillAsking
<1> QED BY <1>1, <1>3 DEF AskingInv

LEMMA AskingStep == AskingInv /\ [HNext]_hvars => AskingInv'
<1> SUFFICES ASSUME AskingInv, [HNext]_hvars PROVE AskingInv'
  OBVIOUS
<1>1. IInv'
  BY HistorySteps, IInvStep DEF AskingInv
<1>2. TypeInv /\ IInv
  BY DEF AskingInv, IInv, TypeInv
<1>3. CASE HNext
  <2>1. HTypeOK'
    BY <1>2, <1>3, HTypeStep DEF AskingInv
  <2>2. CASE pc' = "aborted"
    BY <1>1, <2>1, <2>2 DEF AskingInv, StillAsking
  <2>3. CASE pc' # "aborted"
    <3>1. pc # "aborted"
      BY <1>3, <2>3
      DEF HNext, Next, vars, Fork, ForkDone, ExitAborts, ScheduleKeep, SchedulePick,
          ScheduleNone, Grant, Block, Run, Release, ReleaseDone, Terminating
    <3>2. ListedOnce
      BY <1>2, <3>1 DEF IInv, AnyScript
    <3>3. StillAsking'
      BY <1>2, <1>3, <2>3, <3>1, <3>2, StillAskingStep DEF AskingInv
    <3> QED BY <1>1, <2>1, <3>3 DEF AskingInv
  <2> QED BY <2>2, <2>3
<1>4. CASE UNCHANGED hvars
  <2>1. HTypeOK' /\ StillAsking'
    BY <1>4
    DEF AskingInv, hvars, vars, queues, procs, HTypeOK, StillAsking, Requesting, Least,
        Requests
  <2> QED BY <1>1, <2>1 DEF AskingInv
<1> QED BY <1>3, <1>4

\* Under the priority policies a resource goes to the most urgent of all that
\* have asked for it and not got it, although release() wakes one of them, who
\* then competes for the processor, and for the resource, with newcomers.
THEOREM ResourcesGoToTheMostUrgent == HSpec => GoesToTheMostUrgent
<1>1. AskingInv /\ [HNext]_hvars => [ToTheMostUrgent]_hvars
  <2> SUFFICES ASSUME AskingInv, HNext PROVE ToTheMostUrgent
    OBVIOUS
  <2> QED BY TakerStep DEF AskingInv, ToTheMostUrgent
<1> QED BY <1>1, AskingInit, AskingStep, PTL DEF HSpec, GoesToTheMostUrgent

-----------------------------------------------------------------------------
(* Taking turns *)

\* Nobody's priority changes under the priority policy.
OwnPrios == policy = "prio" => \A p \in Process : prio[p] = script[p].prio

LEMMA OwnPriosStep == OwnPrios /\ [Next]_vars => OwnPrios'
<1> SUFFICES ASSUME OwnPrios, [Next]_vars, policy' = "prio"
             PROVE  prio' = prio /\ script' = script /\ policy = "prio"
  BY DEF OwnPrios
<1>1. policy = "prio"
  BY UrgencyKept
<1>2. /\ sched.schedule = "prio" /\ sched.acquire = "fcfs" /\ sched.release = "prio"
  BY <1>1 DEF sched, schedulers
<1> QED
  BY <1>1, <1>2
  DEF Next, vars, procs, Fork, ForkDone, ExitAborts, Abort, ScheduleKeep, SchedulePick,
      ScheduleNone, Grant, Boosted, Block, Inherited, Run, Release, Restored,
      ReleaseDone, Terminating

\* Peers have the same key, so of two of them the first in the queue is picked.
LEMMA PeersByOrder ==
  ASSUME TypeInv, OwnPrios, NEW i \in First(Candidates, SchedKey),
         NEW k \in DOMAIN Candidates, Peers(Candidates[k], Candidates[i])
  PROVE  i <= k
<1>1. Candidates[i] \in Process /\ Candidates[k] \in Process
  BY CandidatesType DEF TypeInv, First
<1>2. SchedKey[Candidates[k]] = SchedKey[Candidates[i]]
  <2>1. CASE policy = "rr"
    BY <1>1, <2>1 DEF SchedKey, InOrder, sched, schedulers
  <2>2. CASE policy = "prio" /\ script[Candidates[k]].prio = script[Candidates[i]].prio
    BY <1>1, <2>2 DEF SchedKey, BestPrio, OwnPrios, sched, schedulers
  <2> QED BY <2>1, <2>2 DEF Peers
<1>3. SchedKey[Candidates[i]] \in Int
  <2>1. CASE policy = "rr"
    BY <1>1, <2>1 DEF SchedKey, InOrder, sched, schedulers
  <2>2. CASE policy = "prio"
    BY <1>1, <2>2, PriosAsKeys DEF SchedKey, sched, schedulers, TypeInv
  <2> QED BY <2>1, <2>2 DEF Peers
<1>4. \/ SchedKey[Candidates[i]] < SchedKey[Candidates[k]]
      \/ i <= k
  BY DEF First
<1> QED BY <1>2, <1>3, <1>4

\* What schedule() does to the order of the queue.
LEMMA PickKeepsOrder ==
  ASSUME TypeInv, ListedOnce, NEW i \in First(Candidates, SchedKey),
         NEW p \in ToSet(readyqueue), NEW q \in Process,
         \A m, n \in DOMAIN readyqueue :
           readyqueue[m] = p /\ readyqueue[n] = q => m < n
  PROVE  \A j, k \in DOMAIN RemoveAt(Candidates, i) :
           RemoveAt(Candidates, i)[j] = p /\ RemoveAt(Candidates, i)[k] = q => j < k
<1>1. /\ Candidates \in Seq(Process) /\ IsInjective(Candidates) /\ i \in DOMAIN Candidates
  BY CandidatesType, PickEffect DEF TypeInv
<1>2. readyqueue \in Seq(Process) /\ Len(readyqueue) \in Nat
      /\ DOMAIN readyqueue = 1 .. Len(readyqueue)
  BY LenProperties DEF TypeInv, TypeOK
<1>3. /\ \A m \in DOMAIN readyqueue : m \in DOMAIN Candidates /\ Candidates[m] = readyqueue[m]
      /\ \A m \in DOMAIN Candidates :
           \/ m \in DOMAIN readyqueue
           \/ m = Len(readyqueue) + 1
  <2>1. CASE Preemptive /\ Runnable
    BY <1>2, <2>1, CandidatesType, AppendEntries DEF Candidates, TypeInv
  <2>2. CASE ~(Preemptive /\ Runnable)
    BY <2>2 DEF Candidates
  <2> QED BY <2>1, <2>2
<1>4. PICK x \in DOMAIN readyqueue : readyqueue[x] = p
  BY <1>2, Members
<1>5. \A n \in DOMAIN Candidates : Candidates[n] = q => x < n
  BY <1>2, <1>3, <1>4
<1> HIDE DEF Candidates
<1>6. SUFFICES ASSUME NEW j \in DOMAIN RemoveAt(Candidates, i),
                      NEW k \in DOMAIN RemoveAt(Candidates, i),
                      RemoveAt(Candidates, i)[j] = p, RemoveAt(Candidates, i)[k] = q
               PROVE  j < k
  OBVIOUS
<1>7. PICK m, n \in DOMAIN Candidates :
        /\ Candidates[m] = p /\ Candidates[n] = q
        /\ m < n => j < k
  BY <1>1, <1>6, RemoveAtOrder
<1>8. m = x
  BY <1>1, <1>3, <1>4, <1>7 DEF IsInjective
<1> QED BY <1>5, <1>7, <1>8

\* The invariant of the turns.
TurnInv == AskingInv /\ OwnPrios /\ TakeTurns /\ InTurn

LEMMA PickTakesTurns ==
  ASSUME TurnInv, HNext, SchedulePick, pc' = "acquire",
         NEW p \in Process, NEW q \in Process, Peers(p, q)
  PROVE  /\ overtakes'[p][q] <= 1
         /\ overtakes'[p][q] # 0 => p \in ToSet(readyqueue')
         /\ overtakes'[p][q] # 0 =>
              \A j, k \in DOMAIN readyqueue' :
                readyqueue'[j] = p /\ readyqueue'[k] = q => j < k
<1>1. /\ TypeInv /\ ListedOnce /\ HTypeOK /\ pc = "schedule"
  BY DEF SchedulePick, TurnInv, AskingInv, IInv, TypeInv, AnyScript
<1>2. PICK i \in First(Candidates, SchedKey) :
        readyqueue' = RemoveAt(Candidates, i) /\ current' = Candidates[i]
  BY DEF SchedulePick
<1> DEFINE n == Candidates[i]
           rest == ToSet(Candidates) \ {n}
<1>3. /\ n \in Process /\ i \in DOMAIN Candidates
      /\ ToSet(readyqueue') = rest
      /\ ToSet(readyqueue) \subseteq ToSet(Candidates)
  BY <1>1, <1>2, PickEffect
<1>4. overtakes'[p] = IF p \in rest THEN [overtakes[p] EXCEPT ![n] = @ + 1] ELSE Nobody
  BY <1>1, <1>2 DEF HNext, RecordPick
<1>5. /\ overtakes[p] \in [Process -> Nat]
      /\ overtakes[p][q] <= 1
      /\ overtakes[p][q] # 0 =>
           /\ p \in ToSet(readyqueue)
           /\ \A j, k \in DOMAIN readyqueue :
                readyqueue[j] = p /\ readyqueue[k] = q => j < k
  BY <1>1 DEF TurnInv, TakeTurns, InTurn, HTypeOK
<1>6. CASE p \notin rest
  <2>1. overtakes'[p][q] = 0
    BY <1>4, <1>6 DEF Nobody
  <2> QED BY <2>1
<1>7. CASE p \in rest /\ q # n
  <2>1. overtakes'[p][q] = overtakes[p][q]
    BY <1>4, <1>5, <1>7
  <2>2. ASSUME overtakes[p][q] # 0
        PROVE  \A j, k \in DOMAIN readyqueue' :
                 readyqueue'[j] = p /\ readyqueue'[k] = q => j < k
    BY <1>1, <1>2, <1>5, <2>2, PickKeepsOrder
  <2> QED BY <1>3, <1>5, <1>7, <2>1, <2>2
<1>8. CASE p \in rest /\ q = n
  <2>1. overtakes'[p][q] = overtakes[p][q] + 1
    BY <1>3, <1>4, <1>5, <1>8
  <2>2. overtakes[p][q] = 0
    <3> SUFFICES ASSUME overtakes[p][q] # 0 PROVE FALSE
      OBVIOUS
    <3>1. readyqueue \in Seq(Process) /\ Len(readyqueue) \in Nat
          /\ DOMAIN readyqueue = 1 .. Len(readyqueue)
      BY <1>1, LenProperties DEF TypeInv, TypeOK
    <3>2. PICK x \in DOMAIN readyqueue : readyqueue[x] = p
      BY <1>5, <3>1, Members
    <3>3. /\ x \in DOMAIN Candidates /\ Candidates[x] = p
          /\ \A m \in DOMAIN Candidates :
               \/ m \in DOMAIN readyqueue /\ Candidates[m] = readyqueue[m]
               \/ m = Len(readyqueue) + 1
      <4>1. CASE Preemptive /\ Runnable
        BY <1>1, <3>1, <3>2, <4>1, CandidatesType, AppendEntries DEF Candidates, TypeInv
      <4>2. CASE ~(Preemptive /\ Runnable)
        BY <3>2, <4>2 DEF Candidates
      <4> QED BY <4>1, <4>2
    <3>4. i <= x
      BY <1>1, <1>8, <3>3, PeersByOrder DEF TurnInv
    <3>5. i \in DOMAIN readyqueue /\ readyqueue[i] = q
      BY <1>3, <1>8, <3>1, <3>2, <3>3, <3>4
    <3> QED BY <1>5, <3>1, <3>2, <3>4, <3>5
  <2>3. \A k \in DOMAIN readyqueue' : readyqueue'[k] # q
    BY <1>3, <1>8 DEF ToSet
  <2> QED BY <1>3, <1>8, <2>1, <2>2, <2>3
<1> QED BY <1>6, <1>7, <1>8

\* A list that only grows at its tail keeps everybody's turn.
LEMMA GrowsAtTheTail ==
  ASSUME TypeInv, ListedOnce, NEW w \in Process, w \notin ToSet(readyqueue),
         NEW p \in ToSet(readyqueue), NEW q \in Process,
         \A m, n \in DOMAIN readyqueue :
           readyqueue[m] = p /\ readyqueue[n] = q => m < n
  PROVE  LET s == Append(readyqueue, w) IN
         /\ p \in ToSet(s)
         /\ \A j, k \in DOMAIN s : s[j] = p /\ s[k] = q => j < k
<1> DEFINE s == Append(readyqueue, w)
<1>1. readyqueue \in Seq(Process) /\ Len(readyqueue) \in Nat
      /\ DOMAIN readyqueue = 1 .. Len(readyqueue)
  BY LenProperties DEF TypeInv, TypeOK
<1>2. /\ p \in ToSet(s)
      /\ \A j \in DOMAIN s :
           \/ j \in DOMAIN readyqueue /\ s[j] = readyqueue[j]
           \/ j = Len(readyqueue) + 1 /\ s[j] = w
  BY <1>1, AppendFacts, AppendEntries
<1> HIDE DEF s
<1>3. p # w
  OBVIOUS
<1> QED BY <1>1, <1>2, <1>3 DEF s

\* Outside schedule() the ready queue stays or gets one more, at its tail.
LEMMA QueueGrowsAtTheTail ==
  ASSUME TypeInv, ListedOnce, Next, ~SchedulePick
  PROVE  \/ readyqueue' = readyqueue
         \/ \E w \in Process :
              w \notin ToSet(readyqueue) /\ readyqueue' = Append(readyqueue, w)
<1>1. CASE Fork
  <2>1. PICK i \in DOMAIN forkqueue : readyqueue' = Append(readyqueue, forkqueue[i])
    BY <1>1 DEF Fork, Least, DueForks
  <2> QED BY <2>1, Entry DEF TypeInv, TypeOK, ListedOnce
<1>2. CASE Release
  <2>1. PICK t \in Resource : Wake(t)
    BY <1>2, ReleaseEffect
  <2>2. CASE waitqueue[t] = <<>>
    BY <2>1, <2>2 DEF Wake, HasWaiters
  <2>3. CASE waitqueue[t] # <<>>
    BY <2>1, <2>3, WakeEffect DEF ListedOnce
  <2> QED BY <2>2, <2>3
<1> QED
  BY <1>1, <1>2
  DEF Next, vars, queues, ForkDone, ExitAborts, Abort, ScheduleKeep, ScheduleNone,
      Grant, Block, Run, ReleaseDone, Terminating

LEMMA TurnInvStep == TurnInv /\ [HNext]_hvars => TurnInv'
<1> SUFFICES ASSUME TurnInv, [HNext]_hvars PROVE TurnInv'
  OBVIOUS
<1>1. AskingInv' /\ OwnPrios'
  BY AskingStep, OwnPriosStep, HistorySteps DEF TurnInv
<1>2. \A p, q \in Process : Peers(p, q)' <=> Peers(p, q)
  BY HistorySteps, UrgencyKept, WellFormedKept DEF Peers
<1>3. CASE UNCHANGED hvars
  <2>1. TakeTurns' /\ InTurn'
    BY <1>2, <1>3 DEF TurnInv, TakeTurns, InTurn, hvars, vars, queues
  <2> QED BY <1>1, <2>1 DEF TurnInv
<1>4. CASE HNext /\ SchedulePick /\ pc' = "acquire"
  <2>1. TakeTurns' /\ InTurn'
    BY <1>2, <1>4, PickTakesTurns DEF TakeTurns, InTurn
  <2> QED BY <1>1, <2>1 DEF TurnInv
<1>5. CASE HNext /\ ~(SchedulePick /\ pc' = "acquire")
  <2>1. \A p, q \in Process : Peers(p, q) => overtakes' = overtakes
    <3>1. \A p, q \in Process : Peers(p, q) => ~ScheduleKeep
      BY DEF Peers, ScheduleKeep, Preemptive, sched, schedulers
    <3>2. ~ScheduleKeep => ~(pc = "schedule" /\ pc' = "acquire")
      BY <1>5
      DEF HNext, Next, vars, Fork, ForkDone, ExitAborts, Abort, SchedulePick,
          ScheduleNone, NextTick, Grant, Block, Run, Release, ReleaseDone, Terminating
    <3> QED BY <1>5, <3>1, <3>2 DEF HNext, RecordPick
  <2>2. TakeTurns'
    BY <1>2, <2>1 DEF TurnInv, TakeTurns
  <2>3. CASE pc' = "aborted"
    BY <1>1, <2>2, <2>3 DEF TurnInv, InTurn
  <2>4. CASE pc' # "aborted"
    <3>1. pc # "aborted" /\ ~SchedulePick
      BY <1>5, <2>4
      DEF HNext, Next, vars, Fork, ForkDone, ExitAborts, ScheduleKeep, SchedulePick,
          ScheduleNone, Grant, Block, Run, Release, ReleaseDone, Terminating
    <3>2. TypeInv /\ ListedOnce
      BY <3>1 DEF TurnInv, AskingInv, IInv, TypeInv, AnyScript
    <3>3. \/ readyqueue' = readyqueue
          \/ \E w \in Process :
               w \notin ToSet(readyqueue) /\ readyqueue' = Append(readyqueue, w)
      BY <1>5, <3>1, <3>2, QueueGrowsAtTheTail DEF HNext
    <3>4. SUFFICES ASSUME NEW p \in Process, NEW q \in Process, Peers(p, q),
                          overtakes[p][q] # 0
                   PROVE  /\ p \in ToSet(readyqueue')
                          /\ \A j, k \in DOMAIN readyqueue' :
                               readyqueue'[j] = p /\ readyqueue'[k] = q => j < k
      BY <1>1, <1>2, <2>1, <2>2, <3>1 DEF TurnInv, InTurn
    <3>5. /\ p \in ToSet(readyqueue)
          /\ \A j, k \in DOMAIN readyqueue :
               readyqueue[j] = p /\ readyqueue[k] = q => j < k
      BY <3>1, <3>4 DEF TurnInv, InTurn
    <3>6. CASE readyqueue' = readyqueue
      BY <3>5, <3>6
    <3>7. CASE \E w \in Process :
                 w \notin ToSet(readyqueue) /\ readyqueue' = Append(readyqueue, w)
      BY <3>2, <3>5, <3>7, GrowsAtTheTail
    <3> QED BY <3>3, <3>6, <3>7
  <2> QED BY <2>3, <2>4
<1> QED BY <1>3, <1>4, <1>5

LEMMA TurnInvInit == HInit => TurnInv
<1> SUFFICES ASSUME HInit PROVE TurnInv
  OBVIOUS
<1>1. AskingInv
  BY AskingInit
<1>2. \A p, q \in Process : overtakes[p][q] = 0
  BY DEF HInit, Nobody
<1>3. OwnPrios
  BY DEF HInit, Init, OwnPrios
<1>4. TakeTurns /\ InTurn
  BY <1>2 DEF TakeTurns, InTurn
<1> QED BY <1>1, <1>3, <1>4 DEF TurnInv

\* Round robin, and the priority policy among equals, let nobody run twice past
\* a process that waits for the processor.
THEOREM TurnsAreTaken == HSpec => []TakeTurns
<1>1. TurnInv => TakeTurns
  BY DEF TurnInv
<1> QED BY <1>1, TurnInvInit, TurnInvStep, PTL DEF HSpec

-----------------------------------------------------------------------------
(* Aging *)

\* Nobody has overtaken anybody no times,
LEMMA TotalOfNobody == Total(Nobody) = 0
<1>1. NrProcesses \in Nat /\ Process = 1 .. NrProcesses
      /\ Nobody \in [Process -> Nat] /\ \A k \in Process : Nobody[k] = 0
  BY SchedAssumption DEF Process, Nobody
<1>2. PICK f \in [0 .. NrProcesses -> Nat] :
        /\ f[0] = 0
        /\ \A k \in Process : k - 1 \in 0 .. NrProcesses /\ f[k] = f[k - 1] + Nobody[k]
        /\ Total(Nobody) = f[NrProcesses]
  BY <1>1, TotalIs
<1> DEFINE T == {k \in Nat : k <= NrProcesses => f[k] = 0}
<1>3. 0 \in T
  BY <1>2
<1>4. ASSUME NEW k \in Nat, k \in T PROVE k + 1 \in T
  <2> SUFFICES ASSUME k + 1 <= NrProcesses PROVE f[k + 1] = 0
    OBVIOUS
  <2>1. k + 1 \in Process /\ (k + 1) - 1 = k /\ f[k] = 0
    BY <1>1, <1>4
  <2>2. f[k + 1] = f[k] + Nobody[k + 1]
    BY <1>2, <2>1
  <2> QED BY <1>1, <2>1, <2>2
<1> HIDE DEF T
<1>5. Nat \subseteq T
  BY <1>3, <1>4, SetInduction
<1> QED BY <1>1, <1>2, <1>5 DEF T

\* and who is overtaken once more has been overtaken once more in all.
LEMMA TotalOfOneMore ==
  ASSUME NEW counts \in [Process -> Nat], NEW more \in [Process -> Nat], NEW q \in Process,
         more[q] = counts[q] + 1, \A k \in Process \ {q} : more[k] = counts[k]
  PROVE  Total(more) = Total(counts) + 1
<1>1. /\ Total(counts) \in Nat /\ Total(more) \in Nat
      /\ Total(more) = Total(counts) + (more[q] - counts[q])
  BY TotalOfOneChanged
<1>2. counts[q] \in Nat
  OBVIOUS
<1> QED BY <1>1, <1>2

\* No process starts with a priority above that of the most urgent one.
LEMMA MostUrgentIs ==
  ASSUME TypeOK, NEW p \in Process
  PROVE  MostUrgent \in Process /\ script[p].prio <= script[MostUrgent].prio
<1>1. NrProcesses \in Nat /\ Process = 1 .. NrProcesses
  BY SchedAssumption DEF Process
<1>2. \A q \in Process : script[q].prio \in Nat
  BY ScriptTypes
<1> DEFINE T == {n \in Nat : n + 1 <= NrProcesses =>
                   \E m \in 1 .. n + 1 : \A q \in 1 .. n + 1 : script[q].prio <= script[m].prio}
<1>3. 0 \in T
  <2> SUFFICES ASSUME 1 <= NrProcesses
               PROVE  \E m \in 1 .. 0 + 1 : \A q \in 1 .. 0 + 1 : script[q].prio <= script[m].prio
    OBVIOUS
  <2>1. script[1].prio \in Nat /\ \A q \in 1 .. 0 + 1 : q = 1
    BY <1>1, <1>2
  <2> QED BY <2>1
<1>4. ASSUME NEW n \in Nat, n \in T PROVE n + 1 \in T
  <2> DEFINE l == (n + 1) + 1
  <2> SUFFICES ASSUME l <= NrProcesses
               PROVE  \E m \in 1 .. l : \A q \in 1 .. l : script[q].prio <= script[m].prio
    OBVIOUS
  <2>1. PICK m \in 1 .. n + 1 : \A q \in 1 .. n + 1 : script[q].prio <= script[m].prio
    BY <1>1, <1>4
  <2>2. l \in Process /\ m \in Process /\ m \in 1 .. l /\ l \in 1 .. l
        /\ \A q \in 1 .. l : q \in 1 .. n + 1 \/ q = l
    BY <1>1
  <2>3. 1 .. n + 1 \subseteq Process
    BY <1>1
  <2> HIDE DEF l
  <2>4. CASE script[l].prio <= script[m].prio
    BY <2>1, <2>2, <2>4
  <2>5. CASE ~(script[l].prio <= script[m].prio)
    <3>1. \A q \in 1 .. l : script[q].prio <= script[l].prio
      BY <1>2, <2>1, <2>2, <2>3, <2>5
    <3> QED BY <2>2, <3>1
  <2> QED BY <2>4, <2>5
<1> HIDE DEF T
<1>5. Nat \subseteq T
  BY <1>3, <1>4, SetInduction
<1>6. PICK n \in Nat : n + 1 = NrProcesses
  <2>1. NrProcesses - 1 \in Nat /\ (NrProcesses - 1) + 1 = NrProcesses
    BY <1>1
  <2> QED BY <2>1
<1>7. \E m \in 1 .. n + 1 : \A q \in 1 .. n + 1 : script[q].prio <= script[m].prio
  <2>1. n + 1 <= NrProcesses /\ n \in T
    BY <1>1, <1>5, <1>6
  <2> QED BY <2>1 DEF T
<1>8. \E m \in Process : \A q \in Process : script[q].prio <= script[m].prio
  BY <1>1, <1>6, <1>7
<1> QED BY <1>8 DEF MostUrgent

\* There is room for everybody else before a process, and for one less once
\* another has gone.
LEMMA RoomForOthers ==
  ASSUME NEW p \in Process, NEW S \in SUBSET Process, p \notin S
  PROVE  /\ IsFiniteSet(S) /\ Cardinality(S) \in Nat
         /\ Cardinality(S) <= NrProcesses - 1
         /\ \A q \in Process \ {p} : q \notin S => Cardinality(S) <= NrProcesses - 2
<1>1. NrProcesses \in Nat /\ 1 \in Int /\ Process = 1 .. NrProcesses
  BY SchedAssumption DEF Process
<1>2. IsFiniteSet(Process) /\ Cardinality(Process) = NrProcesses
  <2>1. ~(1 > NrProcesses)
    BY <1>1
  <2> QED BY <1>1, <2>1, FS_Interval
<1>3. IsFiniteSet(Process \ {p}) /\ Cardinality(Process \ {p}) = NrProcesses - 1
  BY <1>2, FS_RemoveElement
<1>4. S \in SUBSET (Process \ {p})
  OBVIOUS
<1>5. IsFiniteSet(S) /\ Cardinality(S) <= NrProcesses - 1
  BY <1>3, <1>4, FS_Subset
<1>6. Cardinality(S) \in Nat
  BY <1>5, FS_CardinalityType
<1>7. ASSUME NEW q \in Process \ {p}, q \notin S PROVE Cardinality(S) <= NrProcesses - 2
  <2> DEFINE Others == Process \ {p}
  <2>1. IsFiniteSet(Others \ {q}) /\ Cardinality(Others \ {q}) = Cardinality(Others) - 1
    BY <1>3, <1>7, FS_RemoveElement
  <2>2. S \in SUBSET (Others \ {q})
    BY <1>4, <1>7
  <2>3. Cardinality(S) <= Cardinality(Others \ {q})
    BY <2>1, <2>2, FS_Subset
  <2> QED BY <1>1, <1>3, <2>1, <2>3
<1> QED BY <1>5, <1>6, <1>7

LEMMA OneLess ==
  ASSUME NEW S, NEW T, NEW n \in S, IsFiniteSet(S), T \subseteq S \ {n}
  PROVE  Cardinality(T) \in Nat /\ Cardinality(T) + 1 <= Cardinality(S)
<1>1. IsFiniteSet(S \ {n}) /\ Cardinality(S \ {n}) = Cardinality(S) - 1
  BY FS_RemoveElement
<1>2. IsFiniteSet(T) /\ Cardinality(T) <= Cardinality(S \ {n})
  BY <1>1, FS_Subset
<1>3. Cardinality(T) \in Nat /\ Cardinality(S) \in Nat
  BY <1>2, FS_CardinalityType
<1> QED BY <1>1, <1>2, <1>3

\* Who is preferred to p is another process.
LEMMA PreferredOthers ==
  ASSUME TypeOK, NEW p \in Process
  PROVE  Preferred(p) \in SUBSET Process /\ p \notin Preferred(p)
<1>1. ToSet(readyqueue) \subseteq Process
  BY Members DEF TypeOK
<1>2. ~(prio[p] > prio[p])
  BY DEF TypeOK
<1> QED BY <1>1, <1>2 DEF Preferred

\* A process more urgent than anybody starts is in the queue, and a pick that
\* passes it over takes one of those preferred to it and adds none.
LEMMA PreferredShrink ==
  ASSUME TypeInv, ListedOnce, AgedInTurn, policy = "pa", pc # "aborted",
         NEW i \in First(Candidates, SchedKey),
         readyqueue' = RemoveAt(Candidates, i), prio' = Aged(Candidates[i]),
         NEW p \in ToSet(Candidates) \ {Candidates[i]},
         prio[p] > script[MostUrgent].prio
  PROVE  /\ p \in ToSet(readyqueue)
         /\ Candidates[i] \in Preferred(p)
         /\ Preferred(p)' \subseteq Preferred(p) \ {Candidates[i]}
<1> DEFINE n == Candidates[i]
           rest == ToSet(Candidates) \ {n}
           M == script[MostUrgent].prio
<1>1. /\ n \in Process /\ i \in DOMAIN Candidates
      /\ ToSet(readyqueue') = rest
      /\ ToSet(Candidates) \subseteq Process
      /\ ToSet(readyqueue) \subseteq ToSet(Candidates)
  BY PickEffect, CandidatesType, Members DEF TypeInv
<1>2. \A q \in rest : prio'[q] = prio[q] + 1
  BY <1>1 DEF Aged
<1>3. \A q \in Process : prio[q] \in Nat /\ script[q].prio \in Nat /\ script[q].prio <= M
  BY ScriptTypes, MostUrgentIs DEF TypeInv, TypeOK
<1>4. M \in Nat
  BY <1>1, ScriptTypes, MostUrgentIs DEF TypeInv
<1>5. \A q \in Process : q \notin ToSet(readyqueue) => prio[q] <= M
  BY <1>3 DEF AgedInTurn
<1> HIDE DEF M
<1>6. p \in ToSet(readyqueue)
  BY <1>1, <1>3, <1>4, <1>5 DEF M
<1>7. readyqueue \in Seq(Process) /\ Len(readyqueue) \in Nat
      /\ DOMAIN readyqueue = 1 .. Len(readyqueue)
  BY LenProperties DEF TypeInv, TypeOK
<1>8. PICK x \in DOMAIN readyqueue : readyqueue[x] = p
  BY <1>6, <1>7, Members
<1>9. /\ x \in DOMAIN Candidates /\ Candidates[x] = p
      /\ \A m \in DOMAIN Candidates :
           \/ m \in DOMAIN readyqueue /\ Candidates[m] = readyqueue[m]
           \/ m = Len(readyqueue) + 1
  <2>1. CASE Preemptive /\ Runnable
    BY <1>7, <1>8, <2>1, CandidatesType, AppendEntries DEF Candidates, TypeInv
  <2>2. CASE ~(Preemptive /\ Runnable)
    BY <1>8, <2>2 DEF Candidates
  <2> QED BY <2>1, <2>2
<1>10. prio[n] > prio[p] \/ (prio[n] = prio[p] /\ i <= x)
  <2>1. SchedKey = BestPrio
    BY DEF SchedKey, sched, schedulers
  <2>2. BestPrio[n] = -prio[n] /\ BestPrio[p] = -prio[p]
    BY <1>1 DEF BestPrio
  <2>3. BestPrio[n] < BestPrio[p] \/ (BestPrio[n] = BestPrio[p] /\ i <= x)
    BY <1>9, <2>1 DEF First
  <2> QED BY <1>1, <1>3, <2>2, <2>3
<1>11. n \in ToSet(readyqueue)
  <2>1. prio[n] > M
    <3>1. prio[p] > M /\ prio[p] \in Nat /\ prio[n] \in Nat
      BY <1>1, <1>3 DEF M
    <3> QED BY <1>4, <1>10, <3>1
  <2> QED BY <1>1, <1>3, <1>4, <1>5, <2>1
<1>12. n \in Preferred(p)
  <2>1. CASE prio[n] > prio[p]
    BY <1>11, <2>1 DEF Preferred
  <2>2. CASE prio[n] = prio[p] /\ i <= x
    <3>1. i \in DOMAIN readyqueue /\ readyqueue[i] = n
      BY <1>1, <1>7, <1>8, <1>9, <2>2
    <3>2. ~(x < i)
      BY <1>7, <1>8, <2>2, <3>1
    <3>3. ~InFront(p, n)
      BY <1>8, <3>1, <3>2 DEF InFront
    <3> QED BY <1>11, <2>2, <3>3 DEF Preferred
  <2> QED BY <1>10, <2>1, <2>2
<1>13. ASSUME NEW q \in Preferred(p)' PROVE q \in Preferred(p) /\ q # n
  <2>1. /\ q \in rest
        /\ \/ prio'[q] > prio'[p]
           \/ prio'[q] = prio'[p] /\ q # p /\ ~InFront(p, q)'
    BY <1>1, <1>13 DEF Preferred
  <2>2. prio'[q] = prio[q] + 1 /\ prio'[p] = prio[p] + 1
    BY <1>2, <2>1
  <2>3. prio[q] \in Nat /\ prio[p] \in Nat /\ q \in Process
    BY <1>1, <1>3, <2>1
  <2>4. \/ prio[q] > prio[p]
        \/ prio[q] = prio[p] /\ q # p /\ ~InFront(p, q)'
    BY <2>1, <2>2, <2>3
  <2>5. InFront(p, q) => InFront(p, q)'
    BY <1>6, <2>3, PickKeepsOrder DEF InFront
  <2>6. prio[q] > M
    <3>1. prio[p] > M
      BY DEF M
    <3> QED BY <1>4, <2>3, <2>4, <3>1
  <2>7. q \in ToSet(readyqueue)
    BY <1>3, <1>4, <1>5, <2>3, <2>6
  <2> QED BY <2>1, <2>4, <2>5, <2>7 DEF Preferred
<1> QED BY <1>6, <1>12, <1>13

\* A pick keeps the account of a process that it passes over, and closes that of
\* the one that it takes.
LEMMA PickAges ==
  ASSUME AskingInv, AgedInTurn, policy = "pa", HNext, SchedulePick, pc' = "acquire",
         NEW p \in Process
  PROVE  /\ prio'[p] = script[p].prio + Total(overtakes'[p])
         /\ p \notin ToSet(readyqueue') => prio'[p] = script[p].prio
         /\ p \in ToSet(readyqueue') =>
              prio'[p] + Cardinality(Preferred(p)')
                <= script[MostUrgent].prio + NrProcesses - 1
<1>1. /\ TypeInv /\ ListedOnce /\ HTypeOK /\ pc = "schedule" /\ TypeOK'
  <2>1. TypeInv /\ HTypeOK /\ pc = "schedule" /\ IInv
    BY DEF SchedulePick, AskingInv, IInv, TypeInv
  <2>2. TypeInv'
    BY <2>1, TypeStep DEF HNext
  <2> QED BY <2>1, <2>2 DEF IInv, AnyScript, TypeInv
<1>2. PICK i \in First(Candidates, SchedKey) :
        /\ readyqueue' = RemoveAt(Candidates, i) /\ current' = Candidates[i]
        /\ prio' = Aged(Candidates[i])
  BY DEF SchedulePick, sched, schedulers
<1> DEFINE n == Candidates[i]
           rest == ToSet(Candidates) \ {n}
           M == script[MostUrgent].prio
<1>3. /\ n \in Process /\ i \in DOMAIN Candidates
      /\ ToSet(readyqueue') = rest
      /\ ToSet(readyqueue) \subseteq ToSet(Candidates)
  BY <1>1, <1>2, PickEffect
<1>4. overtakes'[p] = IF p \in rest THEN [overtakes[p] EXCEPT ![n] = @ + 1] ELSE Nobody
  BY <1>1, <1>2 DEF HNext, RecordPick
<1>5. /\ p = n => prio'[p] = script[p].prio
      /\ p \in rest => prio'[p] = prio[p] + 1
      /\ p # n /\ p \notin rest => prio'[p] = prio[p]
  BY <1>2 DEF Aged
<1>6. /\ prio[p] \in Nat /\ script[p].prio \in Nat /\ script[p].prio <= M /\ M \in Nat
      /\ NrProcesses \in Nat
  BY <1>1, ScriptTypes, MostUrgentIs, SchedAssumption DEF TypeInv, TypeOK
<1>7. /\ prio[p] = script[p].prio + Total(overtakes[p])
      /\ p \notin ToSet(readyqueue) => prio[p] = script[p].prio
      /\ p \in ToSet(readyqueue) =>
           prio[p] + Cardinality(Preferred(p)) <= M + NrProcesses - 1
  BY <1>1 DEF AgedInTurn, TimesOvertaken
<1>8. CASE p \notin rest
  <2>1. Total(overtakes'[p]) = 0
    BY <1>4, <1>8, TotalOfNobody
  <2>2. prio'[p] = script[p].prio
    BY <1>3, <1>5, <1>7, <1>8
  <2> QED BY <1>3, <1>6, <1>8, <2>1, <2>2
<1>9. CASE p \in rest
  <2>1. overtakes[p] \in [Process -> Nat]
    BY <1>1 DEF HTypeOK
  <2>2. Total(overtakes'[p]) = Total(overtakes[p]) + 1
    <3> DEFINE more == [overtakes[p] EXCEPT ![n] = @ + 1]
    <3>1. /\ more \in [Process -> Nat] /\ more[n] = overtakes[p][n] + 1
          /\ \A k \in Process \ {n} : more[k] = overtakes[p][k]
      BY <1>3, <2>1
    <3>2. overtakes'[p] = more
      BY <1>4, <1>9
    <3> HIDE DEF more, n
    <3> QED BY <1>3, <2>1, <3>1, <3>2, TotalOfOneMore
  <2>3. Total(overtakes[p]) \in Nat
    <3>1. PICK f \in [0 .. NrProcesses -> Nat] : Total(overtakes[p]) = f[NrProcesses]
      BY <2>1, TotalIs
    <3> QED BY <1>6, <3>1
  <2>4. prio'[p] = prio[p] + 1
    BY <1>5, <1>9
  <2>5. prio'[p] = script[p].prio + Total(overtakes'[p])
    BY <1>6, <1>7, <2>2, <2>3, <2>4
  <2>6. prio'[p] + Cardinality(Preferred(p)') <= M + NrProcesses - 1
    <3>1. CASE prio[p] <= M
      <4>1. Preferred(p)' \in SUBSET Process /\ p \notin Preferred(p)'
        <5>1. rest \subseteq Process
          BY <1>1, CandidatesType, Members DEF TypeInv
        <5>2. ~(prio'[p] > prio'[p])
          BY <1>6, <2>4
        <5> QED BY <1>3, <5>1, <5>2 DEF Preferred
      <4>2. n \notin Preferred(p)'
        BY <1>3 DEF Preferred
      <4>3. n \in Process \ {p}
        BY <1>3, <1>9
      <4> DEFINE S == Preferred(p)'
      <4> HIDE DEF S, n
      <4>4. Cardinality(S) \in Nat /\ Cardinality(S) <= NrProcesses - 2
        BY <4>1, <4>2, <4>3, RoomForOthers DEF S
      <4>5. prio'[p] + Cardinality(S) <= M + NrProcesses - 1
        BY <1>6, <2>4, <3>1, <4>4
      <4> QED BY <4>5 DEF S
    <3>2. CASE prio[p] > M
      <4>1. /\ p \in ToSet(readyqueue)
            /\ n \in Preferred(p) /\ Preferred(p)' \subseteq Preferred(p) \ {n}
        BY <1>1, <1>2, <1>9, <3>2, PreferredShrink
      <4>2. Preferred(p) \in SUBSET Process /\ p \notin Preferred(p)
        BY <1>1, PreferredOthers DEF TypeInv
      <4> DEFINE S == Preferred(p)
                 T == Preferred(p)'
      <4> HIDE DEF S, T, n
      <4>3. IsFiniteSet(S) /\ Cardinality(S) \in Nat
        BY <4>2, RoomForOthers DEF S
      <4>4. Cardinality(T) \in Nat /\ Cardinality(T) + 1 <= Cardinality(S)
        BY <4>1, <4>3, OneLess DEF S, T
      <4>5. prio[p] + Cardinality(S) <= M + NrProcesses - 1
        BY <1>7, <4>1 DEF S
      <4>6. prio'[p] + Cardinality(T) <= M + NrProcesses - 1
        BY <1>6, <2>4, <4>3, <4>4, <4>5
      <4> QED BY <4>6 DEF T
    <3> QED BY <1>6, <3>1, <3>2
  <2> QED BY <1>3, <1>9, <2>5, <2>6
<1> QED BY <1>8, <1>9

\* Under aging schedule() alone changes a priority.
LEMMA OnlyPicksAge ==
  ASSUME policy = "pa", [Next]_vars, ~SchedulePick
  PROVE  prio' = prio /\ ~(pc = "schedule" /\ pc' = "acquire")
<1>1. sched.schedule = "pa" /\ sched.acquire = "fcfs" /\ sched.release = "prio"
  BY DEF sched, schedulers
<1>2. ~ScheduleKeep
  BY <1>1 DEF ScheduleKeep, Preemptive
<1> QED
  BY <1>1, <1>2
  DEF Next, vars, procs, Fork, ForkDone, ExitAborts, Abort, ScheduleNone, NextTick,
      Grant, Boosted, Block, Inherited, Run, Release, Restored, ReleaseDone, Terminating

\* Who joins the queue is as urgent as its script says and stands at its tail.
LEMMA JoinsAtTheTail ==
  ASSUME TypeInv, ListedOnce, AgedInTurn, policy = "pa", pc # "aborted", prio' = prio,
         NEW w \in Process, w \notin ToSet(readyqueue),
         readyqueue' = Append(readyqueue, w), NEW p \in ToSet(readyqueue),
         prio[p] > script[MostUrgent].prio
  PROVE  Preferred(p)' \subseteq Preferred(p)
<1> SUFFICES ASSUME NEW q \in Preferred(p)' PROVE q \in Preferred(p)
  OBVIOUS
<1>1. readyqueue \in Seq(Process) /\ ToSet(readyqueue) \subseteq Process
  BY Members DEF TypeInv, TypeOK
<1>2. ToSet(readyqueue') = ToSet(readyqueue) \cup {w}
  BY <1>1, AppendFacts
<1>3. /\ q \in ToSet(readyqueue) \cup {w}
      /\ prio[q] > prio[p] \/ (prio[q] = prio[p] /\ q # p /\ ~InFront(p, q)')
  BY <1>2 DEF Preferred
<1>4. q # w
  <2>1. prio[w] <= script[MostUrgent].prio
    BY MostUrgentIs DEF AgedInTurn, TypeInv
  <2>2. /\ prio[w] \in Nat /\ prio[p] \in Nat /\ script[MostUrgent].prio \in Nat
    BY <1>1, MostUrgentIs, ScriptTypes DEF TypeInv, TypeOK
  <2> QED BY <1>3, <2>1, <2>2
<1>5. InFront(p, q) => InFront(p, q)'
  BY <1>1, <1>3, <1>4, GrowsAtTheTail DEF InFront
<1> QED BY <1>3, <1>4, <1>5 DEF Preferred

\* The other steps keep all accounts and only let processes join the queue.
LEMMA OthersKeepAges ==
  ASSUME AskingInv, AgedInTurn, policy = "pa", HNext, ~SchedulePick, pc # "aborted",
         NEW p \in Process
  PROVE  /\ prio'[p] = script[p].prio + Total(overtakes'[p])
         /\ p \notin ToSet(readyqueue') => prio'[p] = script[p].prio
         /\ p \in ToSet(readyqueue') =>
              prio'[p] + Cardinality(Preferred(p)')
                <= script[MostUrgent].prio + NrProcesses - 1
<1> DEFINE M == script[MostUrgent].prio
<1>1. TypeInv /\ ListedOnce
  BY DEF AskingInv, IInv, TypeInv, AnyScript
<1>2. prio' = prio /\ overtakes' = overtakes
  BY OnlyPicksAge DEF HNext, RecordPick
<1>3. \/ readyqueue' = readyqueue
      \/ \E w \in Process :
           w \notin ToSet(readyqueue) /\ readyqueue' = Append(readyqueue, w)
  BY <1>1, QueueGrowsAtTheTail DEF HNext
<1>4. /\ prio[p] \in Nat /\ script[p].prio \in Nat /\ script[p].prio <= M /\ M \in Nat
      /\ NrProcesses \in Nat
  BY <1>1, ScriptTypes, MostUrgentIs, SchedAssumption DEF TypeInv, TypeOK
<1>5. /\ prio[p] = script[p].prio + Total(overtakes[p])
      /\ p \notin ToSet(readyqueue) => prio[p] = script[p].prio
      /\ p \in ToSet(readyqueue) =>
           prio[p] + Cardinality(Preferred(p)) <= M + NrProcesses - 1
  BY DEF AgedInTurn, TimesOvertaken
<1>6. ToSet(readyqueue) \subseteq ToSet(readyqueue') /\ ToSet(readyqueue') \subseteq Process
  <2>1. readyqueue \in Seq(Process) /\ ToSet(readyqueue) \subseteq Process
    BY <1>1, Members DEF TypeInv, TypeOK
  <2>2. CASE readyqueue' = readyqueue
    BY <2>1, <2>2
  <2>3. CASE \E w \in Process :
               w \notin ToSet(readyqueue) /\ readyqueue' = Append(readyqueue, w)
    <3>1. PICK w \in Process : readyqueue' = Append(readyqueue, w)
      BY <2>3
    <3>2. ToSet(readyqueue') = ToSet(readyqueue) \cup {w}
      BY <2>1, <3>1, AppendFacts
    <3> QED BY <2>1, <3>2
  <2> QED BY <1>3, <2>2, <2>3
<1>7. ASSUME p \in ToSet(readyqueue')
      PROVE  prio[p] + Cardinality(Preferred(p)') <= M + NrProcesses - 1
  <2>1. CASE prio[p] <= M
    <3>1. Preferred(p)' \in SUBSET Process /\ p \notin Preferred(p)'
      <4>1. ~(prio[p] > prio[p])
        BY <1>4
      <4> QED BY <1>2, <1>6, <4>1 DEF Preferred
    <3> DEFINE S == Preferred(p)'
    <3> HIDE DEF S
    <3>2. Cardinality(S) \in Nat /\ Cardinality(S) <= NrProcesses - 1
      BY <3>1, RoomForOthers DEF S
    <3>3. prio[p] + Cardinality(S) <= M + NrProcesses - 1
      BY <1>4, <2>1, <3>2
    <3> QED BY <3>3 DEF S
  <2>2. CASE prio[p] > M
    <3>1. p \in ToSet(readyqueue)
      BY <1>4, <1>5, <2>2
    <3>2. Preferred(p)' \subseteq Preferred(p)
      <4>1. CASE readyqueue' = readyqueue
        BY <1>2, <4>1 DEF Preferred, InFront
      <4>2. CASE \E w \in Process :
                   w \notin ToSet(readyqueue) /\ readyqueue' = Append(readyqueue, w)
        BY <1>1, <1>2, <2>2, <3>1, <4>2, JoinsAtTheTail
      <4> QED BY <1>3, <4>1, <4>2
    <3>3. Preferred(p) \in SUBSET Process /\ p \notin Preferred(p)
      BY <1>1, PreferredOthers DEF TypeInv
    <3> DEFINE S == Preferred(p)
               T == Preferred(p)'
    <3> HIDE DEF S, T
    <3>4. IsFiniteSet(S) /\ Cardinality(S) \in Nat
      BY <3>3, RoomForOthers DEF S
    <3>5. Cardinality(T) <= Cardinality(S) /\ Cardinality(T) \in Nat
      <4>1. T \in SUBSET S
        BY <3>2 DEF S, T
      <4>2. IsFiniteSet(T) /\ Cardinality(T) <= Cardinality(S)
        BY <3>4, <4>1, FS_Subset
      <4> QED BY <4>2, FS_CardinalityType
    <3>6. prio[p] + Cardinality(S) <= M + NrProcesses - 1
      BY <1>5, <3>1 DEF S
    <3>7. prio[p] + Cardinality(T) <= M + NrProcesses - 1
      BY <1>4, <3>4, <3>5, <3>6
    <3> QED BY <3>7 DEF T
  <2> QED BY <1>4, <2>1, <2>2
<1> QED BY <1>2, <1>5, <1>6, <1>7

AgingInv == AskingInv /\ AgedInTurn /\ AgingPreventsStarvation

LEMMA AgedInTurnSuffices ==
  ASSUME TypeOK, HTypeOK, AgedInTurn, pc # "aborted"
  PROVE  AgingPreventsStarvation
<1> SUFFICES ASSUME policy = "pa", NEW p \in Process
             PROVE  Total(overtakes[p]) <=
                      script[MostUrgent].prio - script[p].prio + NrProcesses - 1
  BY DEF AgingPreventsStarvation, TimesOvertaken
<1> DEFINE M == script[MostUrgent].prio
<1>1. /\ prio[p] \in Nat /\ script[p].prio \in Nat /\ script[p].prio <= M /\ M \in Nat
      /\ NrProcesses \in Nat /\ NrProcesses >= 1
  <2>1. NrProcesses \in Nat /\ NrProcesses >= 1
    BY SchedAssumption DEF Process
  <2>2. prio[p] \in Nat /\ script[p].prio \in Nat /\ script[p].prio <= M /\ M \in Nat
    BY ScriptTypes, MostUrgentIs DEF TypeOK
  <2> QED BY <2>1, <2>2
<1>2. /\ prio[p] = script[p].prio + Total(overtakes[p])
      /\ p \notin ToSet(readyqueue) => prio[p] = script[p].prio
      /\ p \in ToSet(readyqueue) =>
           prio[p] + Cardinality(Preferred(p)) <= M + NrProcesses - 1
  BY DEF AgedInTurn, TimesOvertaken
<1>3. Total(overtakes[p]) \in Nat
  <2>1. PICK f \in [0 .. NrProcesses -> Nat] : Total(overtakes[p]) = f[NrProcesses]
    BY TotalIs DEF HTypeOK
  <2> QED BY <1>1, <2>1
<1>4. Cardinality(Preferred(p)) \in Nat
  BY PreferredOthers, RoomForOthers
<1>5. prio[p] <= M + NrProcesses - 1
  <2> DEFINE S == Preferred(p)
  <2> HIDE DEF S, M
  <2>1. CASE p \in ToSet(readyqueue)
    <3>1. Cardinality(S) \in Nat /\ prio[p] + Cardinality(S) <= M + NrProcesses - 1
      BY <1>2, <1>4, <2>1 DEF S
    <3> QED BY <1>1, <3>1
  <2>2. CASE p \notin ToSet(readyqueue)
    BY <1>1, <1>2, <2>2
  <2> QED BY <2>1, <2>2
<1> HIDE DEF M
<1>6. Total(overtakes[p]) <= M - script[p].prio + NrProcesses - 1
  BY <1>1, <1>2, <1>3, <1>5
<1> QED BY <1>6 DEF M

LEMMA AgingInvInit == HInit => AgingInv
<1> SUFFICES ASSUME HInit PROVE AgingInv
  OBVIOUS
<1>1. AskingInv /\ TypeOK /\ HTypeOK /\ pc # "aborted"
  <2>1. AskingInv
    BY AskingInit
  <2> QED BY <2>1 DEF AskingInv, IInv, HInit, Init
<1>2. AgedInTurn
  <2> SUFFICES ASSUME NEW p \in Process
               PROVE  /\ prio[p] = script[p].prio + Total(overtakes[p])
                      /\ prio[p] = script[p].prio
                      /\ p \notin ToSet(readyqueue)
    BY DEF AgedInTurn, TimesOvertaken
  <2>1. prio[p] = script[p].prio /\ overtakes[p] = Nobody /\ readyqueue = <<>>
    BY DEF HInit, Init
  <2>2. Total(overtakes[p]) = 0
    BY <2>1, TotalOfNobody
  <2>3. script[p].prio \in Nat
    BY <1>1, ScriptTypes
  <2>4. ToSet(readyqueue) = {}
    BY <2>1 DEF ToSet
  <2> QED BY <2>1, <2>2, <2>3, <2>4
<1> QED BY <1>1, <1>2, AgedInTurnSuffices DEF AgingInv

LEMMA AgingInvStep == AgingInv /\ [HNext]_hvars => AgingInv'
<1> SUFFICES ASSUME AgingInv, [HNext]_hvars PROVE AgingInv'
  OBVIOUS
<1>1. AskingInv'
  BY AskingStep DEF AgingInv
<1>2. policy' = policy /\ script' = script
  BY HistorySteps, UrgencyKept, WellFormedKept
<1>3. MostUrgent' = MostUrgent
  BY <1>2 DEF MostUrgent
<1>4. CASE UNCHANGED hvars
  <2>1. UNCHANGED <<prio, readyqueue, overtakes, pc>>
    BY <1>4 DEF hvars, vars, queues, procs
  <2>2. \A p \in Process : Preferred(p)' = Preferred(p)
    BY <2>1 DEF Preferred, InFront
  <2>3. AgedInTurn'
    BY <1>2, <1>3, <2>1, <2>2 DEF AgingInv, AgedInTurn, TimesOvertaken
  <2>4. AgingPreventsStarvation'
    BY <1>2, <1>3, <2>1 DEF AgingInv, AgingPreventsStarvation, TimesOvertaken
  <2> QED BY <1>1, <2>3, <2>4 DEF AgingInv
<1>5. CASE HNext /\ pc' = "aborted"
  <2>1. AgedInTurn'
    BY <1>5 DEF AgedInTurn
  <2>2. overtakes' = overtakes
    BY <1>5 DEF HNext, RecordPick
  <2>3. AgingPreventsStarvation'
    BY <1>2, <1>3, <2>2 DEF AgingInv, AgingPreventsStarvation, TimesOvertaken
  <2> QED BY <1>1, <2>1, <2>3 DEF AgingInv
<1>6. CASE HNext /\ pc' # "aborted"
  <2>1. pc # "aborted" /\ (SchedulePick => pc' = "acquire")
    BY <1>6
    DEF HNext, Next, vars, Fork, ForkDone, ExitAborts, ScheduleKeep, SchedulePick,
        ScheduleNone, Grant, Block, Run, Release, ReleaseDone, Terminating
  <2>2. ASSUME policy = "pa", NEW p \in Process
        PROVE  /\ prio'[p] = script[p].prio + Total(overtakes'[p])
               /\ p \notin ToSet(readyqueue') => prio'[p] = script[p].prio
               /\ p \in ToSet(readyqueue') =>
                    prio'[p] + Cardinality(Preferred(p)')
                      <= script[MostUrgent].prio + NrProcesses - 1
    <3>1. CASE SchedulePick
      BY <1>6, <2>1, <2>2, <3>1, PickAges DEF AgingInv
    <3>2. CASE ~SchedulePick
      BY <1>6, <2>1, <2>2, <3>2, OthersKeepAges DEF AgingInv
    <3> QED BY <3>1, <3>2
  <2>3. AgedInTurn'
    BY <1>2, <1>3, <2>2 DEF AgedInTurn, TimesOvertaken
  <2>4. TypeOK' /\ HTypeOK'
    BY <1>1 DEF AskingInv, IInv
  <2>5. AgedInTurn /\ TypeOK /\ HTypeOK /\ pc # "aborted" => AgingPreventsStarvation
    BY AgedInTurnSuffices
  <2>6. (AgedInTurn /\ TypeOK /\ HTypeOK /\ pc # "aborted" => AgingPreventsStarvation)'
    BY AgedInTurnSuffices, PTL
  <2> QED BY <1>1, <1>6, <2>3, <2>4, <2>6 DEF AgingInv
<1> QED BY <1>4, <1>5, <1>6

\* Under aging a process that waits for the processor is overtaken at most once
\* per level of priority that it lacks, plus once by each other process,
\* whatever the script, although newcomers and woken processes keep coming.
THEOREM AgingWorks == HSpec => []AgingPreventsStarvation
<1>1. AgingInv => AgingPreventsStarvation
  BY DEF AgingInv
<1> QED BY <1>1, AgingInvInit, AgingInvStep, PTL DEF HSpec

-----------------------------------------------------------------------------
(* The loops that pick *)

\* next in PickedBy.
IsPickLoop(f, n, better) ==
  f = [k \in 0 .. n |->
         IF k = 0 THEN 1
         ELSE LET best == f[k - 1] IN IF better[k][best] THEN k ELSE best]

\* The loop has a value for every number of entries.
LEMMA PickLoopExists ==
  ASSUME NEW n \in Nat \ {0}, NEW better \in [1 .. n -> [1 .. n -> BOOLEAN]]
  PROVE  \E f : IsPickLoop(f, n, better)
<1> DEFINE D == 1 .. n
           F == [k \in D |-> [b \in D |-> IF better[k][b] THEN k ELSE b]]
<1>1. F \in [D -> [D -> D]] /\ 1 \in D
  OBVIOUS
<1>2. \A k \in D, b \in D : F[k][b] = IF better[k][b] THEN k ELSE b
  OBVIOUS
<1> HIDE DEF F
<1>3. PICK f : f \in [0 .. n -> D] /\ f[0] = 1 /\ \A k \in 1 .. n : f[k] = F[k][f[k - 1]]
  <2>1. \E f : Rounds(f, n, F, D, 1)
    BY <1>1, ListLoopExists
  <2> QED BY <2>1 DEF Rounds
<1>4. ASSUME NEW k \in 0 .. n
      PROVE  f[k] = IF k = 0 THEN 1
                    ELSE LET best == f[k - 1] IN IF better[k][best] THEN k ELSE best
  <2>1. CASE k = 0
    BY <1>3, <2>1
  <2>2. CASE k # 0
    <3>1. k \in D /\ k - 1 \in 0 .. n
      BY <2>2
    <3>2. f[k - 1] \in D /\ f[k] = F[k][f[k - 1]]
      BY <1>3, <2>2, <3>1
    <3> QED BY <1>2, <2>2, <3>1, <3>2
  <2> QED BY <2>1, <2>2
<1>5. IsPickLoop(f, n, better)
  BY <1>3, <1>4 DEF IsPickLoop
<1> QED BY <1>5

\* It ends at the first of the least values.
LEMMA PickLoopFinds ==
  ASSUME NEW n \in Nat \ {0}, NEW better \in [1 .. n -> [1 .. n -> BOOLEAN]],
         NEW val \in [1 .. n -> Int],
         \A j, k \in 1 .. n : j < k => (better[k][j] <=> val[k] < val[j]),
         NEW f, IsPickLoop(f, n, better)
  PROVE  /\ f[n] \in 1 .. n
         /\ \A j \in 1 .. n : val[f[n]] < val[j] \/ (val[f[n]] = val[j] /\ f[n] <= j)
<1> DEFINE Best(k, b) ==
      /\ b \in 1 .. k
      /\ \A j \in 1 .. k : val[b] < val[j] \/ (val[b] = val[j] /\ b <= j)
    T == {k \in Nat : k \in 1 .. n => Best(k, f[k])}
<1>1. f[0] = 1 /\ \A k \in 1 .. n : f[k] = IF better[k][f[k - 1]] THEN k ELSE f[k - 1]
  BY DEF IsPickLoop
<1>2. 0 \in T
  OBVIOUS
<1>3. ASSUME NEW k \in Nat, k \in T PROVE k + 1 \in T
  <2> SUFFICES ASSUME k + 1 \in 1 .. n PROVE Best(k + 1, f[k + 1])
    OBVIOUS
  <2>1. f[k + 1] = IF better[k + 1][f[k]] THEN k + 1 ELSE f[k]
    BY <1>1
  <2>2. CASE k = 0
    <3>1. f[k + 1] = 1
      BY <1>1, <2>1, <2>2
    <3> QED BY <2>2, <3>1
  <2>3. CASE k # 0
    <3> DEFINE b == f[k]
    <3>1. k \in 1 .. n /\ Best(k, b)
      BY <1>3, <2>3
    <3> HIDE DEF b
    <3>2. b \in 1 .. n /\ b < k + 1
      BY <3>1
    <3>3. better[k + 1][b] <=> val[k + 1] < val[b]
      BY <3>2
    <3>4. \A j \in 1 .. n : val[j] \in Int
      OBVIOUS
    <3>5. \A j \in 1 .. k + 1 : j \in 1 .. n /\ (j = k + 1 \/ j \in 1 .. k)
      BY <3>1
    <3>6. CASE val[k + 1] < val[b]
      <4>1. f[k + 1] = k + 1
        BY <2>1, <3>3, <3>6 DEF b
      <4>2. \A j \in 1 .. k : val[k + 1] < val[j]
        <5> SUFFICES ASSUME NEW j \in 1 .. k PROVE val[k + 1] < val[j]
          OBVIOUS
        <5>1. val[b] < val[j] \/ val[b] = val[j]
          BY <3>1
        <5>2. val[j] \in Int /\ val[b] \in Int /\ val[k + 1] \in Int
          BY <3>2, <3>4, <3>5
        <5> QED BY <3>6, <5>1, <5>2
      <4> QED BY <3>5, <4>1, <4>2
    <3>7. CASE ~(val[k + 1] < val[b])
      <4>1. f[k + 1] = b
        BY <2>1, <3>3, <3>7 DEF b
      <4>2. val[b] < val[k + 1] \/ (val[b] = val[k + 1] /\ b <= k + 1)
        BY <3>2, <3>4, <3>7
      <4> QED BY <3>1, <3>2, <3>5, <4>1, <4>2
    <3> QED BY <3>6, <3>7
  <2> QED BY <2>2, <2>3
<1> HIDE DEF T
<1>4. n \in T
  BY <1>2, <1>3, SetInduction
<1> QED BY <1>4 DEF T

\* PickedBy() finds the first of the entries with the least key.
LEMMA PickedByFinds ==
  ASSUME NEW q \in Seq(Process), q # <<>>,
         NEW better \in [DOMAIN q -> [DOMAIN q -> BOOLEAN]],
         NEW key, \A p \in Process : key[p] \in Int,
         \A j, k \in DOMAIN q : j < k => (better[k][j] <=> key[q[k]] < key[q[j]])
  PROVE  First(q, key) = {PickedBy(q, better)}
<1> DEFINE n == Len(q)
           val == [k \in 1 .. n |-> key[q[k]]]
<1>1. n \in Nat \ {0} /\ DOMAIN q = 1 .. n /\ \A k \in 1 .. n : q[k] \in Process
  BY LenProperties, EmptySeq, ElementOfSeq
<1>2. val \in [1 .. n -> Int] /\ \A k \in 1 .. n : val[k] = key[q[k]]
  BY <1>1
<1> DEFINE at == CHOOSE f : IsPickLoop(f, n, better)
<1>3. PickedBy(q, better) = at[n]
  BY Zenon DEF PickedBy, IsPickLoop
<1> HIDE DEF n, val
<1>4. better \in [1 .. n -> [1 .. n -> BOOLEAN]]
  BY <1>1
<1>5. IsPickLoop(at, n, better)
  BY <1>1, <1>4, PickLoopExists
<1> HIDE DEF at
<1> DEFINE i == at[n]
<1>6. \A j, k \in 1 .. n : j < k => (better[k][j] <=> val[k] < val[j])
  BY <1>1, <1>2
<1>7. /\ i \in 1 .. n
      /\ \A j \in 1 .. n : val[i] < val[j] \/ (val[i] = val[j] /\ i <= j)
  BY <1>1, <1>2, <1>4, <1>5, <1>6, PickLoopFinds
<1> HIDE DEF i
<1>8. \A j \in DOMAIN q : key[q[i]] < key[q[j]] \/ (key[q[i]] = key[q[j]] /\ i <= j)
  BY <1>1, <1>2, <1>7
<1>9. i \in First(q, key)
  BY <1>1, <1>7, <1>8 DEF First
<1>10. ASSUME NEW j \in First(q, key) PROVE j = i
  <2>1. j \in 1 .. n /\ key[q[j]] \in Int /\ key[q[i]] \in Int
    BY <1>1, <1>7 DEF First
  <2>2. key[q[j]] < key[q[i]] \/ (key[q[j]] = key[q[i]] /\ j <= i)
    BY <1>1, <1>7 DEF First
  <2>3. key[q[i]] < key[q[j]] \/ (key[q[i]] = key[q[j]] /\ i <= j)
    BY <1>1, <1>8, <2>1
  <2>4. j <= i /\ i <= j
    BY <1>7, <2>1, <2>2, <2>3
  <2> QED BY <1>7, <2>1, <2>4
<1> QED BY <1>3, <1>9, <1>10 DEF i

\* All loops of the schedule() callbacks compute First of their key.
LEMMA ScheduleLoopFinds ==
  ASSUME TypeInv, NEW q \in Seq(Process), q # <<>>
  PROVE  First(q, SchedKey) = {ScheduleLoop(q)}
<1>1. /\ 1 \in DOMAIN q /\ \A k \in DOMAIN q : k \in Nat /\ 1 <= k /\ q[k] \in Process
  <2>1. Len(q) \in Nat \ {0} /\ DOMAIN q = 1 .. Len(q)
    BY LenProperties, EmptySeq
  <2> QED BY <2>1, ElementOfSeq
<1>2. \A p \in Process :
        /\ script[p].lifespan \in Int /\ age[p] \in Int
        /\ prio[p] \in Int /\ prio[p] \in Nat
  <2> SUFFICES ASSUME NEW p \in Process
               PROVE  /\ script[p].lifespan \in Int /\ age[p] \in Int
                      /\ prio[p] \in Int /\ prio[p] \in Nat
    OBVIOUS
  <2>1. TypeOK
    BY DEF TypeInv
  <2>2. script[p].lifespan \in Nat
    BY <2>1, ScriptTypes
  <2>3. age[p] \in Nat /\ prio[p] \in Nat
    BY <2>1 DEF TypeOK
  <2> QED BY <2>2, <2>3
<1>3. policy \in DOMAIN schedulers
  BY SchedAssumption DEF TypeInv, TypeOK
<1>4. sched.schedule \in {"fcfs", "rr", "sjf", "stcf", "prio", "pa"}
  BY <1>3 DEF sched, schedulers
<1>5. CASE sched.schedule \in {"fcfs", "rr"}
  <2>1. SchedKey = InOrder /\ ScheduleLoop(q) = 1
    BY <1>5 DEF SchedKey, ScheduleLoop
  <2>2. \A k \in DOMAIN q : InOrder[q[k]] = 0
    BY <1>1 DEF InOrder
  <2> QED BY <1>1, <2>1, <2>2 DEF First
<1>6. CASE sched.schedule = "sjf"
  <2> DEFINE better == [pos \in DOMAIN q |-> [next \in DOMAIN q |->
                          script[q[pos]].lifespan < script[q[next]].lifespan]]
  <2>1. SchedKey = ShortestJob /\ ScheduleLoop(q) = PickedBy(q, better)
    BY <1>6 DEF SchedKey, ScheduleLoop
  <2>2. better \in [DOMAIN q -> [DOMAIN q -> BOOLEAN]]
    OBVIOUS
  <2>3. \A p \in Process : ShortestJob[p] \in Int
    BY <1>2 DEF ShortestJob
  <2>4. \A j, k \in DOMAIN q :
          better[k][j] <=> ShortestJob[q[k]] < ShortestJob[q[j]]
    BY <1>1 DEF ShortestJob
  <2> HIDE DEF better
  <2> QED BY <2>1, <2>2, <2>3, <2>4, PickedByFinds
<1>7. CASE sched.schedule = "stcf"
  <2> DEFINE better == [pos \in DOMAIN q |-> [next \in DOMAIN q |->
                          script[q[pos]].lifespan - age[q[pos]]
                            < script[q[next]].lifespan - age[q[next]]]]
  <2>1. SchedKey = LeastToRun /\ ScheduleLoop(q) = PickedBy(q, better)
    BY <1>7 DEF SchedKey, ScheduleLoop
  <2>2. better \in [DOMAIN q -> [DOMAIN q -> BOOLEAN]]
    OBVIOUS
  <2>3. \A p \in Process : LeastToRun[p] \in Int
    BY <1>2 DEF LeastToRun
  <2>4. \A j, k \in DOMAIN q :
          better[k][j] <=> LeastToRun[q[k]] < LeastToRun[q[j]]
    BY <1>1 DEF LeastToRun
  <2> HIDE DEF better
  <2> QED BY <2>1, <2>2, <2>3, <2>4, PickedByFinds
<1>8. CASE sched.schedule = "prio"
  <2> DEFINE better == [pos \in DOMAIN q |-> [next \in DOMAIN q |->
                          prio[q[next]] < prio[q[pos]]]]
  <2>1. SchedKey = BestPrio /\ ScheduleLoop(q) = PickedBy(q, better)
    BY <1>8 DEF SchedKey, ScheduleLoop
  <2>2. better \in [DOMAIN q -> [DOMAIN q -> BOOLEAN]]
    OBVIOUS
  <2>3. \A p \in Process : BestPrio[p] \in Int
    BY PriosAsKeys DEF TypeInv
  <2>4. ASSUME NEW j \in DOMAIN q, NEW k \in DOMAIN q
        PROVE  better[k][j] <=> BestPrio[q[k]] < BestPrio[q[j]]
    <3>1. better[k][j] <=> prio[q[j]] < prio[q[k]]
      OBVIOUS
    <3>2. BestPrio[q[k]] = -prio[q[k]] /\ BestPrio[q[j]] = -prio[q[j]]
      BY <1>1 DEF BestPrio
    <3>3. prio[q[k]] \in Nat /\ prio[q[j]] \in Nat
      BY <1>1, <1>2
    <3> HIDE DEF better
    <3> QED BY <3>1, <3>2, <3>3
  <2> HIDE DEF better
  <2> QED BY <2>1, <2>2, <2>3, <2>4, PickedByFinds
<1>9. CASE sched.schedule = "pa"
  <2> DEFINE better == [pos \in DOMAIN q |-> [next \in DOMAIN q |->
                          BeatsBoosted(IF next < pos THEN prio[q[next]] + 1 ELSE prio[q[next]],
                                       IF pos < pos THEN prio[q[pos]] + 1 ELSE prio[q[pos]])]]
  <2>1. SchedKey = BestPrio /\ ScheduleLoop(q) = PickedBy(q, better)
    BY <1>9 DEF SchedKey, ScheduleLoop
  <2>2. better \in [DOMAIN q -> [DOMAIN q -> BOOLEAN]]
    BY DEF BeatsBoosted
  <2>3. \A p \in Process : BestPrio[p] \in Int
    BY PriosAsKeys DEF TypeInv
  <2>4. ASSUME NEW j \in DOMAIN q, NEW k \in DOMAIN q, j < k
        PROVE  better[k][j] <=> BestPrio[q[k]] < BestPrio[q[j]]
    <3>4. k \in Nat /\ ~(k < k)
      BY <1>1
    <3>5. better[k][j] = BeatsBoosted(prio[q[j]] + 1, prio[q[k]])
      BY <2>4, <3>4
    <3>1. better[k][j] <=> prio[q[j]] + 1 <= prio[q[k]]
      BY <3>5 DEF BeatsBoosted
    <3>2. BestPrio[q[k]] = -prio[q[k]] /\ BestPrio[q[j]] = -prio[q[j]]
      BY <1>1 DEF BestPrio
    <3>3. prio[q[k]] \in Nat /\ prio[q[j]] \in Nat
      BY <1>1, <1>2
    <3> HIDE DEF better
    <3> QED BY <3>1, <3>2, <3>3
  <2> HIDE DEF better
  <2> QED BY <2>1, <2>2, <2>3, <2>4, PickedByFinds
<1> QED BY <1>4, <1>5, <1>6, <1>7, <1>8, <1>9

\* And those of the release() callbacks.
LEMMA ReleaseLoopFinds ==
  ASSUME TypeInv, NEW q \in Seq(Process), q # <<>>
  PROVE  First(q, WakeKey) = {ReleaseLoop(q)}
<1>1. /\ 1 \in DOMAIN q /\ \A k \in DOMAIN q : k \in Nat /\ 1 <= k /\ q[k] \in Process
  <2>1. Len(q) \in Nat \ {0} /\ DOMAIN q = 1 .. Len(q)
    BY LenProperties, EmptySeq
  <2> QED BY <2>1, ElementOfSeq
<1>2. \A p \in Process : prio[p] \in Nat
  BY DEF TypeInv, TypeOK
<1>3. CASE sched.release = "fcfs"
  <2>1. WakeKey = InOrder /\ ReleaseLoop(q) = 1
    BY <1>3 DEF WakeKey, ReleaseLoop
  <2>2. \A k \in DOMAIN q : InOrder[q[k]] = 0
    BY <1>1 DEF InOrder
  <2> QED BY <1>1, <2>1, <2>2 DEF First
<1>4. CASE sched.release # "fcfs"
  <2> DEFINE better == [pos \in DOMAIN q |-> [waiter \in DOMAIN q |->
                          prio[q[waiter]] < prio[q[pos]]]]
  <2>1. WakeKey = BestPrio /\ ReleaseLoop(q) = PickedBy(q, better)
    BY <1>4 DEF WakeKey, ReleaseLoop
  <2>2. better \in [DOMAIN q -> [DOMAIN q -> BOOLEAN]]
    OBVIOUS
  <2>3. \A p \in Process : BestPrio[p] \in Int
    BY PriosAsKeys DEF TypeInv
  <2>4. ASSUME NEW j \in DOMAIN q, NEW k \in DOMAIN q
        PROVE  better[k][j] <=> BestPrio[q[k]] < BestPrio[q[j]]
    <3>1. better[k][j] <=> prio[q[j]] < prio[q[k]]
      OBVIOUS
    <3>2. BestPrio[q[k]] = -prio[q[k]] /\ BestPrio[q[j]] = -prio[q[j]]
      BY <1>1 DEF BestPrio
    <3>3. prio[q[k]] \in Nat /\ prio[q[j]] \in Nat
      BY <1>1, <1>2
    <3> HIDE DEF better
    <3> QED BY <3>1, <3>2, <3>3
  <2> HIDE DEF better
  <2> QED BY <2>1, <2>2, <2>3, <2>4, PickedByFinds
<1> QED BY <1>3, <1>4

\* Wherever a loop of pa2.c looks for the process to run or to wake, it ends at
\* the first of the best, however long the list is; the loop of pa_schedule()
\* does, although it raises the priorities it compares.
THEOREM LoopsFindTheFirst == Spec => []LoopsPickFirst
<1>1. ASSUME TypeInv PROVE LoopsPickFirst
  <2>1. Candidates # <<>> => First(Candidates, SchedKey) = {ScheduleLoop(Candidates)}
    BY <1>1, CandidatesType, ScheduleLoopFinds DEF TypeInv
  <2>2. \A r \in Resource : HasWaiters(r) =>
          First(waitqueue[r], WakeKey) = {ReleaseLoop(waitqueue[r])}
    BY <1>1, ReleaseLoopFinds DEF HasWaiters, TypeInv, TypeOK
  <2> QED BY <2>1, <2>2 DEF LoopsPickFirst
<1> QED BY <1>1, AnyScriptAlways, PTL
=============================================================================
