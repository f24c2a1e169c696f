---------------------------- MODULE SchedHistory ----------------------------
(***************************************************************************)
(* The scheduler simulator with a record of the past, for the promises of  *)
(* the policies: who was picked while somebody else waited for the         *)
(* processor, and in which order resources were asked for.  The record     *)
(* observes the steps of Sched and restricts none.                         *)
(***************************************************************************)
EXTENDS SchedProps

VARIABLES
  overtakes,  \* overtakes[p][q]: times q was picked since p last ran or slept
  requests    \* resource -> processes that have asked for it

hvars == <<vars, overtakes, requests>>

Nobody == [q \in Process |-> 0]

HInit ==
  /\ Init
  /\ overtakes = [p \in Process |-> Nobody]
  /\ requests = [r \in Resource |-> {}]

\* After a pick the candidates left behind have been overtaken once more.
RecordPick ==
  overtakes' =
    IF pc = "schedule" /\ pc' = "acquire"
    THEN [p \in Process |->
            IF p \in ToSet(Candidates) \ {current'}
            THEN [overtakes[p] EXCEPT ![current'] = @ + 1] ELSE Nobody]
    ELSE overtakes

\* A request is outstanding from the time it blocks until it is granted.
RecordRequest ==
  requests' =
    [r \in Resource |->
       CASE pc = "acquire" /\ owner'[r] # owner[r] ->
              requests[r] \ {current}
         [] waitqueue'[r] # waitqueue[r] /\ pc = "acquire" ->
              requests[r] \cup {current}
         [] OTHER -> requests[r]]

HNext == Next /\ RecordPick /\ RecordRequest

HSpec == HInit /\ [][HNext]_hvars /\ WF_hvars(HNext)

-----------------------------------------------------------------------------
\* The processes a policy treats alike, so that the ready queue decides.
Peers(p, q) ==
  policy = "rr" \/ (policy = "prio" /\ script[p].prio = script[q].prio)

\* Round robin, and equal priorities under the priority scheduler, take turns:
\* while a process waits for the processor nobody gets it twice.
TakeTurns ==
  \A p, q \in Process : Peers(p, q) => overtakes[p][q] <= 1

TimesOvertaken(p) == Total(overtakes[p])

MostUrgent == CHOOSE p \in Process : \A q \in Process : script[q].prio <= script[p].prio

\* Aging bounds the wait: a process that can run is passed over at most once
\* for each level of priority between it and the most urgent one, plus once by
\* each other process.
AgingPreventsStarvation ==
  policy = "pa" =>
    \A p \in Process :
      TimesOvertaken(p) <=
        script[MostUrgent].prio - script[p].prio + NrProcesses - 1

\* The step in which current takes resource r.
Takes(r) == pc = "acquire" /\ owner'[r] # owner[r]

\* A resource goes to the most urgent of the processes that have asked for it,
\* the woken ones included, although a release only moves one waiter to the
\* ready queue and whoever runs first takes the resource.
ToTheMostUrgent ==
  ByUrgency =>
    \A r \in Resource : Takes(r) =>
      \A p \in requests[r] : prio[p] <= prio[current]

GoesToTheMostUrgent == [][ToTheMostUrgent]_hvars

-----------------------------------------------------------------------------
(* What makes them inductive *)

HTypeOK ==
  /\ overtakes \in [Process -> [Process -> Nat]]
  /\ requests \in [Resource -> SUBSET Process]

\* Who has been overtaken waits in the ready queue, behind nobody that it treats
\* as its like and that has overtaken it.
InTurn ==
  pc # "aborted" =>
    \A p, q \in Process :
      Peers(p, q) =>
        /\ overtakes[p][q] # 0 => p \in ToSet(readyqueue)
        /\ overtakes[p][q] # 0 =>
             \A i, j \in DOMAIN readyqueue :
               readyqueue[i] = p /\ readyqueue[j] = q => i < j

\* p stands before q in the ready queue, if both are there.
InFront(p, q) ==
  \A i, j \in DOMAIN readyqueue : readyqueue[i] = p /\ readyqueue[j] = q => i < j

\* Those whose turn comes before that of p as things are.
Preferred(p) ==
  {q \in ToSet(readyqueue) :
     \/ prio[q] > prio[p]
     \/ prio[q] = prio[p] /\ q # p /\ ~InFront(p, q)}

\* A priority is that of the script plus the times its process has been
\* overtaken.  All who wait are lifted together, so nobody gets ahead of one
\* that is as urgent as anybody may start, and each of those ahead of it can
\* overtake it once.
AgedInTurn ==
  policy = "pa" /\ pc # "aborted" =>
    \A p \in Process :
      /\ prio[p] = script[p].prio + TimesOvertaken(p)
      /\ p \notin ToSet(readyqueue) => prio[p] = script[p].prio
      /\ p \in ToSet(readyqueue) =>
           prio[p] + Cardinality(Preferred(p)) <= script[MostUrgent].prio + NrProcesses - 1

\* Who has asked for a resource still does: it sleeps in the waitqueue, or it
\* has been woken.
StillAsking ==
  pc # "aborted" =>
    \A r \in Resource : \A p \in requests[r] :
      /\ Requesting(p, r)
      /\ \/ p \in ToSet(waitqueue[r]) \cup ToSet(readyqueue)
         \/ p = current /\ pc = "acquire"
=============================================================================
