------------------------------ MODULE PickLoop ------------------------------
(***************************************************************************)
(* The loops of pa2.c that look for the process to run or to wake, step by *)
(* step, against First, which Sched says they compute.                     *)
(***************************************************************************)
EXTENDS Sched

\* next starts as the first entry of q and becomes pos, the k-th one, whenever
\* better[pos][next] holds: where it is when the loop ends.
PickedBy(q, better) ==
  LET next[k \in 0 .. Len(q)] ==
        IF k = 0 THEN 1
        ELSE LET best == next[k - 1]
             IN  IF better[k][best] THEN k ELSE best
  IN  next[Len(q)]

\* Mutant: a later entry must be better by one more than it was.
BeatsBoostedBy(next, pos) == next < pos

\* pa_schedule() compares with <=.
BeatsBoosted(next, pos) == next <= pos

\* Where the loop of the policy's schedule() ends.
ScheduleLoop(q) ==
  LET lifespan(k)  == script[q[k]].lifespan
      remain(k)    == script[q[k]].lifespan - age[q[k]]
      \* pos->prio++ is done for the entries the loop has passed
      boosted(j, k) == IF j < k THEN prio[q[j]] + 1 ELSE prio[q[j]]
  IN  CASE sched.schedule \in {"fcfs", "rr"} -> 1
        [] sched.schedule = "sjf" ->
             PickedBy(q, [pos \in DOMAIN q |-> [next \in DOMAIN q |->
                           lifespan(pos) < lifespan(next)]])
        [] sched.schedule = "stcf" ->
             PickedBy(q, [pos \in DOMAIN q |-> [next \in DOMAIN q |->
                           remain(pos) < remain(next)]])
        [] sched.schedule = "prio" ->
             PickedBy(q, [pos \in DOMAIN q |-> [next \in DOMAIN q |->
                           prio[q[next]] < prio[q[pos]]]])
        [] sched.schedule = "pa" ->
             PickedBy(q, [pos \in DOMAIN q |-> [next \in DOMAIN q |->
                           BeatsBoosted(boosted(next, pos), boosted(pos, pos))]])

\* Where the loop of the policy's release() ends.
ReleaseLoop(q) ==
  IF sched.release = "fcfs" THEN 1
  ELSE PickedBy(q, [pos \in DOMAIN q |-> [waiter \in DOMAIN q |->
                      prio[q[waiter]] < prio[q[pos]]]])

\* Every loop ends at the first of the best entries, the one of pa_schedule()
\* too, though it raises the priorities it is comparing.
LoopsPickFirst ==
  /\ pc = "schedule" /\ Candidates # <<>> =>
       First(Candidates, SchedKey) = {ScheduleLoop(Candidates)}
  /\ \A r \in Resource : pc = "release" /\ HasWaiters(r) =>
       First(waitqueue[r], WakeKey) = {ReleaseLoop(waitqueue[r])}
=============================================================================
