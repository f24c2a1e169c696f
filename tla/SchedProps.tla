----------------------------- MODULE SchedProps -----------------------------
(***************************************************************************)
(* What the scheduler simulator must guarantee, and the inductive          *)
(* invariant from which SchedProofs derives it.                            *)
(***************************************************************************)
EXTENDS Sched

\* The type invariant.
TypeOK ==
  /\ policy \in Policies
  /\ script \in Scripts
  /\ ticks \in Nat
  /\ forkqueue \in Seq(Process)
  /\ readyqueue \in Seq(Process)
  /\ waitqueue \in [Resource -> Seq(Process)]
  /\ owner \in [Resource -> Process \cup {NULL}]
  /\ current \in Process \cup {NULL}
  /\ status \in [Process -> {"READY", "RUNNING", "BLOCKED", "EXIT"}]
  /\ age \in [Process -> Nat]
  /\ prio \in [Process -> Nat]
  /\ to_acquire \in [Process -> Seq(ResourceSchedule)]
  /\ holding \in [Process -> Seq(ResourceSchedule)]
  /\ pc \in {"fork", "schedule", "acquire", "release", "done", "aborted"}

-----------------------------------------------------------------------------
(* The scripts the simulator is meant for *)

\* Every process runs, and gives back all it takes before its life is over.
WellFormed ==
  \A p \in Process :
    /\ script[p].lifespan >= 1
    /\ \A i \in DOMAIN script[p].acquire :
         LET rs == script[p].acquire[i] IN
         /\ rs.duration >= 1
         /\ rs.at + rs.duration <= script[p].lifespan

\* Nobody asks for a resource while using another.
Apart(e, f) == e.at + e.duration <= f.at \/ f.at + f.duration <= e.at

NonNested ==
  \A p \in Process : \A i, j \in DOMAIN script[p].acquire :
    i # j => Apart(script[p].acquire[i], script[p].acquire[j])

-----------------------------------------------------------------------------
(* Safety *)

\* No assert() of sched.c or pa2.c fails on a well-formed script: the process
\* that exits is on no list and owes nothing (sched.c:253-259), the picked one
\* is detached (sched.c:363), the releaser is the owner and the waiters of its
\* resource are blocked (pa2.c:99, 111 and their copies).
AssertsHold == WellFormed => pc # "aborted"

\* A process is in exactly one place, and its status says which: waiting to be
\* forked or ready, running, blocked on the one resource it asks for, or
\* gone.  No list holds it twice, and nobody is lost between lists when
\* schedule() and release() hand it over.
Placement ==
  /\ IsInjective(forkqueue)
  /\ IsInjective(readyqueue)
  /\ \A r \in Resource : IsInjective(waitqueue[r])
  /\ ToSet(forkqueue) \cap ToSet(readyqueue) = {}
  /\ \A p \in Process :
       /\ status[p] = "READY" <=> p \in ToSet(forkqueue) \cup ToSet(readyqueue)
       /\ status[p] = "RUNNING" <=> p = current /\ status[p] # "BLOCKED"
       /\ status[p] = "BLOCKED" <=> \E r \in Resource : p \in ToSet(waitqueue[r])
       /\ \A r \in Resource : p \in ToSet(waitqueue[r]) => Requesting(p, r)

EveryoneInOnePlace == WellFormed /\ pc # "aborted" => Placement

\* The owner of a resource is the process that has it on its list of held
\* resources, once; a free resource is on no such list.
Ownership ==
  \A p \in Process :
    /\ \A r \in Resource :
         owner[r] = p <=> \E i \in DOMAIN holding[p] : holding[p][i].resource_id = r
    /\ \A i, j \in DOMAIN holding[p] :
         holding[p][i].resource_id = holding[p][j].resource_id => i = j

OwnersHold == WellFormed /\ pc # "aborted" => Ownership

\* A process that holds a resource took it at the age its script says and will
\* hold it until it has aged by the duration the script says, however often it
\* is preempted or blocked meanwhile.
DeclaredUse ==
  \A p \in Process : \A i \in DOMAIN holding[p] :
    \E k \in DOMAIN script[p].acquire :
      LET h == holding[p][i]  rs == script[p].acquire[k] IN
      /\ h.resource_id = rs.resource_id /\ h.at = rs.at
      /\ age[p] + h.duration = rs.at + rs.duration

HeldAsDeclared == WellFormed /\ pc # "aborted" => DeclaredUse

\* A free resource that processes wait for has been promised: one of those
\* that asked for it is awake and will ask again.  Otherwise the remaining
\* waiters, which only a release wakes, would sleep for ever.
Promised ==
  \A r \in Resource :
    owner[r] = NULL /\ waitqueue[r] # <<>> =>
      \E p \in Process : status[p] \in {"READY", "RUNNING"} /\ Requesting(p, r)

NoLostWakeup == WellFormed /\ pc # "aborted" => Promised

\* The simulation gives up on a process only in a deadlock: at the end a
\* process that has not exited waits for a resource whose owner waits too.
QuitsOnlyInDeadlock ==
  WellFormed /\ pc = "done" =>
    \A p \in Process :
      status[p] # "EXIT" =>
        \E r \in Resource :
          /\ p \in ToSet(waitqueue[r])
          /\ owner[r] # NULL
          /\ status[owner[r]] = "BLOCKED"

\* Without nested requests there is no deadlock: everybody has exited when the
\* simulation ends.
NoDeadlockUnlessNested ==
  WellFormed /\ NonNested /\ pc = "done" => \A p \in Process : status[p] = "EXIT"

\* A process that has exited owns nothing and is on no list, on ANY script:
\* __exit_process() lets nothing else pass.
ExitedClean ==
  pc # "aborted" =>
    \A p \in Process :
      status[p] = "EXIT" =>
        ~OnList(p, readyqueue) /\ \A r \in Resource : owner[r] # p

-----------------------------------------------------------------------------
(* The contract of resources *)

\* Who may ask for what, and who sleeps for what.
Asks == [p \in Process |-> {r \in Resource : Requesting(p, r)}]
Sleepers == [r \in Resource |-> ToSet(waitqueue[r])]

Contract == INSTANCE Resources WITH asks <- Asks, sleepers <- Sleepers

\* Whatever the policy and the script, acquire() and release() keep the contract
\* of Resources, as long as no assertion fails: every step is a step of it or
\* none of its business.
ImplementsResources ==
  Contract!Init /\ [][pc' # "aborted" => Contract!Next]_(Contract!rvars)

-----------------------------------------------------------------------------
(* How long it takes *)

\* The sum of a count per process.
Total(counts) ==
  LET sum[k \in 0 .. NrProcesses] == IF k = 0 THEN 0 ELSE sum[k - 1] + counts[k]
  IN  sum[NrProcesses]

\* What a process has before it: the ticks of its life, the ticks until it
\* starts, and for every request to be asleep, to be woken and to give back.
ToStart(p) == IF ticks < script[p].start THEN script[p].start - ticks ELSE 0

Asleep(p) == IF status[p] = "BLOCKED" THEN 1 ELSE 0

ToUse(p) == 3 * Len(to_acquire[p]) + 2 * Len(holding[p]) - Asleep(p)

Ahead == [p \in Process |-> script[p].lifespan - age[p] + ToStart(p) + ToUse(p)]

\* On a well-formed script the time a simulation takes is bounded by its script,
\* whatever the policy: no tick passes without a process that ages, one that
\* falls asleep for the only time a release allows it, or one yet to start.
Budget ==
  Total([p \in Process |->
           script[p].lifespan + script[p].start + 3 * Len(script[p].acquire)])

EndsInTime == WellFormed => ticks <= Budget

\* The steps of one tick.
StepsOfTick ==
  CASE pc = "release" -> 4 [] pc = "fork" -> 3 [] pc = "schedule" -> 2
    [] pc = "acquire" -> 1 [] OTHER -> 0

StepsLeft == 5 * Total(Ahead) + Len(forkqueue) + StepsOfTick

\* Every step, of the loops inside a tick too, brings the end nearer: there is no
\* way to go on for ever.
CountsDown == [][WellFormed => StepsLeft' \in 0 .. StepsLeft - 1]_vars

-----------------------------------------------------------------------------
(* What the priority protocols are for *)

\* Under the ceiling protocol a process that holds a resource is not preempted
\* and nobody else blocks, provided that requests are not nested and the
\* priorities of the script stay below the ceiling: pcp_acquire() lifts the
\* owner to MAX_PRIO, prio_schedule() then has to pick it again every tick.
BelowCeiling == \A p \in Process : script[p].prio < MAX_PRIO

CeilingKeepsTheCpu ==
  WellFormed /\ NonNested /\ BelowCeiling /\ policy = "pcp" =>
    \A p \in Process :
      /\ holding[p] # <<>> => p = current /\ status[p] = "RUNNING"
      /\ status[p] # "BLOCKED"

\* Under the inheritance protocol the owner of a resource is at least as
\* urgent as everyone who waits for it, provided that requests are not nested.
\* This survives the hand-over: pip_acquire() of the next owner does not look
\* at the waiters already queued.
OwnersInherit ==
  \A r \in Resource :
    owner[r] # NULL =>
      \A p \in ToSet(waitqueue[r]) : prio[p] <= prio[owner[r]]

InheritanceHolds ==
  WellFormed /\ NonNested /\ policy = "pip" /\ pc # "aborted" => OwnersInherit

-----------------------------------------------------------------------------
(* The inductive invariant *)

\* Ages against what is left of the script: no request is overtaken by the age
\* of its process, and only the running process has something to give back.
Timing ==
  \A p \in Process :
    /\ status[p] \in {"READY", "BLOCKED"} => age[p] < script[p].lifespan
    /\ status[p] = "RUNNING" => age[p] <= script[p].lifespan
    /\ p = current /\ pc = "acquire" => age[p] < script[p].lifespan
    /\ status[p] = "EXIT" => holding[p] = <<>> /\ to_acquire[p] = <<>>
    /\ \A i \in DOMAIN to_acquire[p] :
         /\ to_acquire[p][i].at >= age[p]
         /\ to_acquire[p][i] \in ToSet(script[p].acquire)
    /\ \A i \in DOMAIN holding[p] :
         holding[p][i].duration = 0 => p = current /\ pc = "release"

\* There is a current process whenever one is being executed.
SomeoneRuns == pc \in {"acquire", "release"} => current # NULL

\* Who can be current at each step of the main loop.
Dispatch ==
  /\ pc \in {"acquire", "release"} => status[current] = "RUNNING"
  /\ pc = "done" => current = NULL /\ forkqueue = <<>> /\ readyqueue = <<>>

Core ==
  /\ pc # "aborted"
  /\ Placement
  /\ Timing
  /\ DeclaredUse
  /\ Dispatch
  /\ Ownership
  /\ Promised

\* What is left of it on a script that breaks the rules: no process is on two
\* lists or twice on one, and the current process is on none unless it has just
\* been blocked.
ListedOnce ==
  /\ IsInjective(forkqueue)
  /\ IsInjective(readyqueue)
  /\ ToSet(forkqueue) \cap ToSet(readyqueue) = {}
  /\ \A r \in Resource :
       /\ IsInjective(waitqueue[r])
       /\ ToSet(waitqueue[r]) \cap (ToSet(forkqueue) \cup ToSet(readyqueue)) = {}
       /\ \A t \in Resource :
            r # t => ToSet(waitqueue[r]) \cap ToSet(waitqueue[t]) = {}
  /\ current \notin ToSet(forkqueue) \cup ToSet(readyqueue)
  /\ \A r \in Resource : current \in ToSet(waitqueue[r]) => status[current] = "BLOCKED"
  /\ pc \in {"acquire", "release"} => status[current] = "RUNNING"

\* Who waits for a resource asks for it, who owns one has it on its list, and
\* who is gone is nowhere.
Accounted ==
  /\ \A r \in Resource : \A p \in ToSet(waitqueue[r]) : Requesting(p, r)
  /\ \A r \in Resource, p \in Process :
       owner[r] = p => \E i \in DOMAIN holding[p] : holding[p][i].resource_id = r
  /\ \A p \in Process :
       status[p] = "EXIT" =>
         /\ p # current
         /\ ~OnList(p, readyqueue)
         /\ \A r \in Resource : owner[r] # p

AnyScript == pc # "aborted" => ListedOnce /\ Accounted

\* For NoDeadlockUnlessNested it takes one fact more: what a process holds and
\* what it still has to ask for are different lines of its script, told apart
\* by their ages when no two uses overlap, and it holds nothing too early.
UsedOnce ==
  \A p \in Process :
    /\ \A i, j \in DOMAIN to_acquire[p] :
         i # j => to_acquire[p][i].at # to_acquire[p][j].at
    /\ \A i \in DOMAIN holding[p] :
         /\ holding[p][i].at <= age[p]
         /\ \A j \in DOMAIN to_acquire[p] : holding[p][i].at # to_acquire[p][j].at

\* So it holds one resource at a time.
OneAtATime ==
  \A p \in Process : \A i, j \in DOMAIN holding[p] : i = j

NestInv == WellFormed /\ NonNested => UsedOnce /\ OneAtATime

\* The policies that run the most urgent process and wake the most urgent
\* waiter, when nobody is lowered to the ceiling and whoever waits keeps its
\* priority: it is lent none unless it owns something.
ByUrgency ==
  \/ policy = "prio"
  \/ policy = "pcp" /\ BelowCeiling
  \/ policy = "pip" /\ WellFormed /\ NonNested

Capped == policy = "pcp" => \A p \in Process : prio[p] <= MAX_PRIO

\* Nobody in the ready queue is more urgent than the process that executes.
TopRuns ==
  pc = "acquire" =>
    \A p \in ToSet(readyqueue) : prio[p] <= prio[current]

\* A free resource is about to be asked for by a process that is at least as
\* urgent as all who wait for it.
PromisedToTheTop ==
  \A r \in Resource :
    owner[r] = NULL /\ waitqueue[r] # <<>> =>
      \E p \in Process :
        /\ p \in ToSet(readyqueue) \/ (p = current /\ pc = "acquire")
        /\ Requesting(p, r)
        /\ \A q \in ToSet(waitqueue[r]) : prio[q] <= prio[p]

UrgentInv ==
  ByUrgency /\ pc # "aborted" => Capped /\ TopRuns /\ PromisedToTheTop

\* Under the ceiling protocol a priority is that of the script or, for who holds
\* something, MAX_PRIO.
CeilingPrios ==
  \A p \in Process :
    /\ holding[p] = <<>> => prio[p] = script[p].prio
    /\ holding[p] # <<>> => prio[p] = MAX_PRIO /\ p = current /\ status[p] = "RUNNING"
    /\ status[p] # "BLOCKED"

CeilingInv ==
  WellFormed /\ NonNested /\ BelowCeiling /\ policy = "pcp" => CeilingPrios

IInv ==
  /\ TypeOK
  /\ SomeoneRuns
  /\ AnyScript
  /\ WellFormed => Core
  /\ NestInv
  /\ UrgentInv
  /\ CeilingInv
  /\ InheritanceHolds

\* For EndsInTime and CountsDown: nobody outlives its life, whoever is due has
\* been forked before anybody is scheduled, and the time spent so far and what
\* is ahead of the processes together never grow.
Lifetimes == \A p \in Process : age[p] <= script[p].lifespan

OnTime ==
  /\ Lifetimes
  /\ pc = "schedule" => DueForks = {}
  /\ ticks + Total(Ahead) + (IF pc = "release" THEN 1 ELSE 0) <= Budget

TimeInv == WellFormed => OnTime

-----------------------------------------------------------------------------
(* Liveness *)

\* The simulation of a well-formed script ends: nobody runs, waits or is put
\* off for ever, whatever the policy.
Termination == WellFormed ~> pc = "done"

\* Without nested requests every process gets to the end of its life, the least
\* urgent ones under the priority policies included.
EveryoneExits ==
  WellFormed /\ NonNested ~> \A p \in Process : status[p] = "EXIT"

=============================================================================
