--------------------------- MODULE MCSchedHistory ---------------------------
(* Instances of the scheduler with its history for TLC.                    *)
EXTENDS SchedHistory

Use(r, at, duration) == [resource_id |-> r, at |-> at, duration |-> duration]

Blocks(starts, lifespans, prios, uses) ==
  [start : starts, lifespan : lifespans, prio : prios, acquire : uses]

\* Scripts of four processes contending for one resource.
Uses == {<<>>, <<Use(1, 0, 2)>>, <<Use(1, 0, 1), Use(1, 2, 1)>>, <<Use(1, 1, 1)>>}

ContendingScripts ==
  Blocks({0}, {3}, {1}, Uses \ {<<>>})
    \X Blocks({0, 1}, {3}, {1, 2}, Uses)
    \X Blocks({1}, {3}, {0, 3}, Uses)
    \X Blocks({2}, {2}, {2}, {<<>>, <<Use(1, 0, 1)>>, <<Use(1, 1, 1)>>})
=============================================================================
