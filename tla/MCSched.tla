------------------------------ MODULE MCSched ------------------------------
(* Instances of the scheduler simulator for TLC: small sets of scripts.    *)
EXTENDS SchedProps, PickLoop

Use(r, at, duration) == [resource_id |-> r, at |-> at, duration |-> duration]

Blocks(starts, lifespans, prios, uses) ==
  [start : starts, lifespan : lifespans, prio : prios, acquire : uses]

\* Three processes with script P1 \X P2 \X P3.
ThreeOf(P1, P2, P3) == P1 \X P2 \X P3

AllPolicies == {"fcfs", "sjf", "stcf", "rr", "prio", "pa", "pcp", "pip"}

\* Single use, use again after a pause, nested in both orders, two at once.
MixedUses ==
  {<<>>, <<Use(1, 0, 2)>>, <<Use(1, 0, 1), Use(1, 2, 1)>>,
   <<Use(1, 0, 3), Use(2, 1, 1)>>, <<Use(2, 0, 3), Use(1, 1, 1)>>,
   <<Use(2, 0, 1), Use(1, 0, 2)>>}

MixedScripts ==
  ThreeOf(Blocks({0}, {3}, {0}, MixedUses),
          Blocks({0, 1}, {3}, {1}, MixedUses),
          Blocks({1}, {2}, {0, 2}, {<<>>, <<Use(1, 0, 1)>>})
            \cup Blocks({9}, {1}, {1}, {<<>>}))

\* Scripts that break the rules of WellFormed: no lifespan, requests of no
\* duration, requests and releases beyond the end of life.
HostileUses ==
  {<<>>, <<Use(1, 0, 0)>>, <<Use(1, 0, 1)>>, <<Use(1, 0, 2)>>,
   <<Use(1, 1, 1)>>, <<Use(1, 0, 1), Use(1, 0, 1)>>}

HostileScripts ==
  ThreeOf(Blocks({0}, 0 .. 2, {0}, HostileUses),
          Blocks({0, 1}, {1, 2}, {1}, {<<>>, <<Use(1, 0, 0)>>, <<Use(1, 0, 1)>>}),
          Blocks({1}, {1}, {1}, {<<>>}))

\* Late starts, long-lived urgent processes, and a resource they share.
LivelyScripts ==
  ThreeOf(Blocks({0}, {2}, {0}, {<<Use(1, 0, 1)>>, <<Use(1, 0, 2)>>}),
          Blocks({0, 1}, {3}, {1}, {<<>>, <<Use(1, 1, 2)>>, <<Use(1, 0, 2), Use(2, 1, 1)>>}),
          Blocks({1, 5}, {2}, {1, 2}, {<<Use(1, 0, 1)>>, <<Use(2, 0, 2), Use(1, 1, 1)>>}))

AllScripts == MixedScripts \cup HostileScripts \cup LivelyScripts
=============================================================================
