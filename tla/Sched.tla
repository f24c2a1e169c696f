------------------------------- MODULE Sched -------------------------------
(***************************************************************************)
(* The scheduler simulator of OS-PA2: the framework of sched.c (fork on    *)
(* schedule, dispatch, resource requests and releases of the running       *)
(* process, exit) driving one of the eight policies of pa2.c through the   *)
(* callbacks of struct scheduler.                                          *)
(*                                                                         *)
(* One tick of __do_simulation() is a run of steps                         *)
(*     fork* -> schedule -> acquire* -> release* -> fork                   *)
(* and pc says which of them is next.  The only choices are those of Init: *)
(* the policy and the script.                                              *)
(***************************************************************************)
EXTENDS Integers, SequencesExt

CONSTANTS
  NrProcesses,  \* number of "process ... end" blocks in the script file
  Resource,     \* resource ids the scripts mention
  NULL,         \* the null pointer, for current and owner
  Policies,     \* the policies to simulate, a subset of DOMAIN schedulers
  Scripts,      \* the script files, as process descriptions by position
  MAX_PRIO,     \* process.h
  UINT_MAX      \* what an unsigned counter holds after 0 - 1

Process == 1 .. NrProcesses

\* struct resource_schedule: one "acquire" line of a script.
ResourceSchedule == [resource_id : Resource, at : Nat, duration : Nat]

\* One process block of a script.
Description ==
  [start : Nat, lifespan : Nat, prio : Nat, acquire : Seq(ResourceSchedule)]

\* The callbacks of the scheduler instances of pa2.c.
schedulers ==
  [fcfs |-> [schedule |-> "fcfs", acquire |-> "fcfs", release |-> "fcfs"],
   sjf  |-> [schedule |-> "sjf",  acquire |-> "fcfs", release |-> "fcfs"],
   stcf |-> [schedule |-> "stcf", acquire |-> "fcfs", release |-> "fcfs"],
   rr   |-> [schedule |-> "rr",   acquire |-> "fcfs", release |-> "fcfs"],
   prio |-> [schedule |-> "prio", acquire |-> "fcfs", release |-> "prio"],
   pa   |-> [schedule |-> "pa",   acquire |-> "fcfs", release |-> "prio"],
   pcp  |-> [schedule |-> "prio", acquire |-> "pcp",  release |-> "pcp"],
   pip  |-> [schedule |-> "prio", acquire |-> "pip",  release |-> "pip"]]

ASSUME SchedAssumption ==
  /\ NrProcesses \in Nat
  /\ NULL \notin Process
  /\ Policies \subseteq DOMAIN schedulers
  /\ Scripts \subseteq [Process -> Description]
  /\ MAX_PRIO \in Nat
  /\ UINT_MAX \in Nat

VARIABLES
  policy,      \* the scheduler chosen on the command line
  script,      \* the script file
  ticks,       \* simulated time
  forkqueue,   \* processes not forked yet
  readyqueue,  \* processes ready to run
  waitqueue,   \* resource -> processes blocked on it
  owner,       \* resource -> its owner or NULL
  current,     \* the running process, or NULL
  status,      \* the fields of struct process, by process
  age,
  prio,
  to_acquire,
  holding,
  pc           \* the step of the main loop to come

queues == <<forkqueue, readyqueue, waitqueue>>
procs  == <<status, age, prio, to_acquire, holding>>
vars   == <<policy, script, ticks, queues, owner, current, procs, pc>>

sched == schedulers[policy]

-----------------------------------------------------------------------------
(* Picking from a list *)

\* The index of the first entry of q with the least key: the outcome of the
\* list_for_each_entry() loops that compare every entry with the best so far.
First(q, key) ==
  {i \in DOMAIN q : \A j \in DOMAIN q :
      key[q[i]] < key[q[j]] \/ (key[q[i]] = key[q[j]] /\ i <= j)}

InOrder     == [p \in Process |-> 0]
BestPrio    == [p \in Process |-> -prio[p]]
ShortestJob == [p \in Process |-> script[p].lifespan]
LeastToRun  == [p \in Process |-> script[p].lifespan - age[p]]

\* The first of the entries a loop is looking for, among their indices I.
Least(I) == {i \in I : \A j \in I : i <= j}

OnList(p, ready) ==
  \/ p \in ToSet(forkqueue) \cup ToSet(ready)
  \/ \E r \in Resource : p \in ToSet(waitqueue[r])

\* Mutant: the tick counter is not advanced.
NextTickStuck == pc' = "fork" /\ UNCHANGED ticks

NextTick ==
  /\ ticks' = ticks + 1
  /\ pc' = "fork"

Abort ==  \* an assert() fails
  /\ pc' = "aborted"
  /\ UNCHANGED <<policy, script, ticks, queues, owner, current, procs>>

-----------------------------------------------------------------------------
(* __fork_on_schedule() *)

DueForks ==
  {i \in DOMAIN forkqueue : script[forkqueue[i]].start <= ticks}

Fork ==
  /\ pc = "fork"
  /\ \E i \in Least(DueForks) :
       /\ forkqueue' = RemoveAt(forkqueue, i)
       /\ readyqueue' = Append(readyqueue, forkqueue[i])
       /\ status' = [status EXCEPT ![forkqueue[i]] = "READY"]
  /\ UNCHANGED <<policy, script, ticks, waitqueue, owner, current, age, prio,
                 to_acquire, holding, pc>>

ForkDone ==
  /\ pc = "fork"
  /\ DueForks = {}
  /\ pc' = "schedule"
  /\ UNCHANGED <<policy, script, ticks, queues, owner, current, procs>>

-----------------------------------------------------------------------------
(* schedule() and what the main loop does with prev *)

\* Mutant: a blocked process is treated as one that can run.
RunnableIfBlocked ==
  current # NULL /\ age[current] < script[current].lifespan

\* The test every schedule() callback makes on current.
Runnable ==
  /\ current # NULL
  /\ status[current] # "BLOCKED"
  /\ age[current] < script[current].lifespan

Preemptive == sched.schedule \in {"stcf", "rr", "prio", "pa"}

\* Mutant: current goes to the head of the ready queue.
CandidatesAtHead ==
  IF Preemptive /\ Runnable THEN <<current>> \o readyqueue ELSE readyqueue

\* The ready queue once a preemptive policy has put current at its tail.
Candidates ==
  IF Preemptive /\ Runnable THEN Append(readyqueue, current) ELSE readyqueue

SchedKey ==
  CASE sched.schedule \in {"fcfs", "rr"} -> InOrder
    [] sched.schedule = "sjf"            -> ShortestJob
    [] sched.schedule = "stcf"           -> LeastToRun
    [] sched.schedule \in {"prio", "pa"} -> BestPrio

\* Mutant: nobody is boosted.
AgedOnlyReset(next) == [prio EXCEPT ![next] = script[next].prio]

\* pa_schedule(): everyone in the queue is boosted, the chosen one reset.
Aged(next) ==
  [p \in Process |->
     CASE p = next -> script[p].prio
       [] p # next /\ p \in ToSet(Candidates) -> prio[p] + 1
       [] OTHER -> prio[p]]

\* prev becomes READY if it was RUNNING, and exits if its life is over.
Decommissioned ==
  [p \in Process |->
     CASE p # current -> status[p]
       [] p = current /\ age[p] = script[p].lifespan -> "EXIT"
       [] p = current /\ age[p] # script[p].lifespan ->
            IF status[p] = "RUNNING" THEN "READY" ELSE status[p]]

\* Mutant: a process may exit with resources in its hands.
ExitFailsUnlessHolding ==
  /\ current # NULL
  /\ age[current] = script[current].lifespan
  /\ OnList(current, readyqueue) \/ to_acquire[current] # <<>>

\* The assertions of __exit_process() on prev.
ExitFails ==
  /\ current # NULL
  /\ age[current] = script[current].lifespan
  /\ \/ OnList(current, readyqueue)
     \/ holding[current] # <<>>
     \/ to_acquire[current] # <<>>

ExitAborts ==
  /\ pc = "schedule"
  /\ ExitFails
  /\ Abort

\* fcfs and sjf return current as long as it can run.
ScheduleKeep ==
  /\ pc = "schedule"
  /\ Runnable /\ ~Preemptive
  /\ status' = [Decommissioned EXCEPT ![current] = "RUNNING"]
  /\ pc' = IF OnList(current, readyqueue) THEN "aborted" ELSE "acquire"
  /\ UNCHANGED <<policy, script, ticks, queues, owner, current, age, prio,
                 to_acquire, holding>>

SchedulePick ==
  /\ pc = "schedule"
  /\ ~ExitFails
  /\ Preemptive \/ ~Runnable
  /\ \E i \in First(Candidates, SchedKey) :
       LET next == Candidates[i] IN
       /\ readyqueue' = RemoveAt(Candidates, i)
       /\ current' = next
       /\ prio' = IF sched.schedule = "pa" THEN Aged(next) ELSE prio
       /\ status' = [Decommissioned EXCEPT ![next] = "RUNNING"]
       /\ pc' = IF OnList(next, RemoveAt(Candidates, i))
                THEN "aborted" ELSE "acquire"
  /\ UNCHANGED <<policy, script, ticks, forkqueue, waitqueue, owner, age,
                 to_acquire, holding>>

\* Mutant: the processes still to be forked are forgotten.
NothingPendingReady == Candidates = <<>>

\* Mutant: it goes on as long as somebody is blocked.
NothingPendingButAsleep ==
  Candidates = <<>> /\ forkqueue = <<>> /\ \A p \in Process : status[p] # "BLOCKED"

\* The test before the simulation quits.
NothingPending == Candidates = <<>> /\ forkqueue = <<>>

ScheduleNone ==
  /\ pc = "schedule"
  /\ ~ExitFails
  /\ ~Runnable
  /\ Candidates = <<>>
  /\ current' = NULL
  /\ status' = Decommissioned
  /\ IF NothingPending THEN pc' = "done" /\ UNCHANGED ticks ELSE NextTick
  /\ UNCHANGED <<policy, script, queues, owner, age, prio, to_acquire, holding>>

-----------------------------------------------------------------------------
(* __run_current_acquire() and the acquire() callbacks *)

\* Mutant: requests are made one tick early.
RequestsEarly(p) ==
  {i \in DOMAIN to_acquire[p] : to_acquire[p][i].at = age[p] + 1}

Requests(p) ==
  {i \in DOMAIN to_acquire[p] : to_acquire[p][i].at = age[p]}

\* r is the resource p asks for next.
Requesting(p, r) ==
  \E i \in Least(Requests(p)) : to_acquire[p][i].resource_id = r

\* Mutant: the new owner is not lifted.
BoostedNever == prio

\* pcp_acquire() lifts the new owner to the ceiling.
Boosted ==
  IF sched.acquire = "pcp" THEN [prio EXCEPT ![current] = MAX_PRIO] ELSE prio

\* Mutant: only the first to wait lends its priority.
InheritedFromFirst(r) ==
  IF sched.acquire = "pip" /\ waitqueue[r] = <<>> /\ prio[owner[r]] < prio[current]
  THEN [prio EXCEPT ![owner[r]] = prio[current]] ELSE prio

\* pip_acquire() lends the priority of the blocked process to the owner.
Inherited(r) ==
  IF sched.acquire = "pip" /\ prio[owner[r]] < prio[current]
  THEN [prio EXCEPT ![owner[r]] = prio[current]] ELSE prio

\* Mutant: the waitqueue is tested instead of the owner.
FreeIfNobodyWaits(r) == waitqueue[r] = <<>>

Free(r) == owner[r] = NULL

Grant ==
  /\ pc = "acquire"
  /\ \E i \in Least(Requests(current)) :
       LET rs == to_acquire[current][i] IN
       /\ Free(rs.resource_id)
       /\ owner' = [owner EXCEPT ![rs.resource_id] = current]
       /\ to_acquire' = [to_acquire EXCEPT ![current] =
                           RemoveAt(to_acquire[current], i)]
       /\ holding' = [holding EXCEPT ![current] = Append(holding[current], rs)]
  /\ prio' = Boosted
  /\ UNCHANGED <<policy, script, ticks, queues, current, status, age, pc>>

Block ==
  /\ pc = "acquire"
  /\ \E r \in Resource :
       /\ Requesting(current, r)
       /\ ~Free(r)
       /\ waitqueue' = [waitqueue EXCEPT ![r] = Append(waitqueue[r], current)]
       /\ prio' = Inherited(r)
  /\ status' = [status EXCEPT ![current] = "BLOCKED"]
  /\ NextTick
  /\ UNCHANGED <<policy, script, forkqueue, readyqueue, owner, current, age,
                 to_acquire, holding>>

\* Mutant: the counter is signed.
DecrementedSigned(rs) == [rs EXCEPT !.duration = rs.duration - 1]

\* --rs->duration, on an unsigned.
Decremented(rs) ==
  [rs EXCEPT !.duration = IF rs.duration = 0 THEN UINT_MAX ELSE rs.duration - 1]

\* Every request of this tick is granted: current runs, and every resource it
\* holds comes one tick closer to its release.
Run ==
  /\ pc = "acquire"
  /\ Requests(current) = {}
  /\ age' = [age EXCEPT ![current] = age[current] + 1]
  /\ holding' = [holding EXCEPT ![current] =
                   [i \in DOMAIN holding[current] |->
                      Decremented(holding[current][i])]]
  /\ pc' = "release"
  /\ UNCHANGED <<policy, script, ticks, queues, owner, current, status, prio,
                 to_acquire>>

-----------------------------------------------------------------------------
(* __run_current_release() and the release() callbacks *)

Expired ==
  {i \in DOMAIN holding[current] : holding[current][i].duration = 0}

\* Mutant: the last waiter is not seen.
HasWaitersButOne(r) == Len(waitqueue[r]) > 1

HasWaiters(r) == waitqueue[r] # <<>>

\* The assertions of release().
ReleaseFails(r) ==
  \/ owner[r] # current
  \/ HasWaiters(r) /\ status[waitqueue[r][1]] # "BLOCKED"

\* pcp_release() and pip_release() give the owner its own priority back.
Restored ==
  IF sched.release \in {"pcp", "pip"}
  THEN [prio EXCEPT ![current] = script[current].prio] ELSE prio

\* Mutant: the first waiter is woken whatever its priority.
WakeKeyInOrder == InOrder

\* Which waiter is woken.
WakeKey == IF sched.release = "fcfs" THEN InOrder ELSE BestPrio

\* The part of release() that wakes ONE waiter, if there is any.
Wake(r) ==
  IF ~HasWaiters(r)
  THEN UNCHANGED <<waitqueue, readyqueue, status>>
  ELSE \E k \in First(waitqueue[r], WakeKey) :
         LET waiter == waitqueue[r][k] IN
         /\ waitqueue' = [waitqueue EXCEPT ![r] = RemoveAt(waitqueue[r], k)]
         /\ readyqueue' = Append(readyqueue, waiter)
         /\ status' = [status EXCEPT ![waiter] = "READY"]

Release ==
  /\ pc = "release"
  /\ \E i \in Least(Expired) :
       LET r == holding[current][i].resource_id IN
       /\ pc' = IF ReleaseFails(r) THEN "aborted" ELSE pc
       /\ owner' = [owner EXCEPT ![r] = NULL]
       /\ Wake(r)
       /\ holding' = [holding EXCEPT ![current] = RemoveAt(holding[current], i)]
  /\ prio' = Restored
  /\ UNCHANGED <<policy, script, ticks, forkqueue, current, age, to_acquire>>

ReleaseDone ==
  /\ pc = "release"
  /\ Expired = {}
  /\ NextTick
  /\ UNCHANGED <<policy, script, queues, owner, current, procs>>

-----------------------------------------------------------------------------
Init ==
  /\ policy \in Policies
  /\ script \in Scripts
  /\ ticks = 0
  /\ forkqueue = [i \in Process |-> i]
  /\ readyqueue = <<>>
  /\ waitqueue = [r \in Resource |-> <<>>]
  /\ owner = [r \in Resource |-> NULL]
  /\ current = NULL
  /\ status = [p \in Process |-> "READY"]  \* memset() leaves PROCESS_READY
  /\ age = [p \in Process |-> 0]
  /\ prio = [p \in Process |-> script[p].prio]
  /\ to_acquire = [p \in Process |-> script[p].acquire]
  /\ holding = [p \in Process |-> <<>>]
  /\ pc = "fork"

\* The program has returned from the main loop or died in an assert().
Terminating ==
  /\ pc \in {"done", "aborted"}
  /\ UNCHANGED vars

Next ==
  \/ Fork \/ ForkDone
  \/ ExitAborts \/ ScheduleKeep \/ SchedulePick \/ ScheduleNone
  \/ Grant \/ Block \/ Run
  \/ Release \/ ReleaseDone
  \/ Terminating

Spec == Init /\ [][Next]_vars /\ WF_vars(Next)
=============================================================================
