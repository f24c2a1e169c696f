------------------------------ MODULE Resources ------------------------------
(***************************************************************************)
(* What the resources of OS-PA2 promise the processes, whichever policy    *)
(* implements acquire() and release(): one owner at a time, taken only     *)
(* when free and asked for, given back only by its owner, and whoever      *)
(* sleeps is woken by a release of what it sleeps for, one for each        *)
(* release.  Nothing is said of time, of queues and of priorities.         *)
(***************************************************************************)
CONSTANTS Process, Resource, NULL

VARIABLES
  owner,    \* resource -> its owner or NULL
  asks,     \* process -> the resources it may ask for now
  sleepers  \* resource -> the processes that sleep until it is free

rvars == <<owner, asks, sleepers>>

Awake(p) == \A r \in Resource : p \notin sleepers[r]

AskNext(p) == \E S \in SUBSET Resource : asks' = [asks EXCEPT ![p] = S]

Init ==
  /\ owner = [r \in Resource |-> NULL]
  /\ asks \in [Process -> SUBSET Resource]
  /\ sleepers = [r \in Resource |-> {}]

\* A process that asks for nothing goes on until it asks for something.
Work(p) ==
  /\ Awake(p) /\ asks[p] = {}
  /\ AskNext(p)
  /\ UNCHANGED <<owner, sleepers>>

Take(p, r) ==
  /\ Awake(p) /\ r \in asks[p]
  /\ owner[r] = NULL
  /\ owner' = [owner EXCEPT ![r] = p]
  /\ AskNext(p)
  /\ UNCHANGED sleepers

Sleep(p, r) ==
  /\ Awake(p) /\ r \in asks[p]
  /\ owner[r] # NULL
  /\ sleepers' = [sleepers EXCEPT ![r] = @ \cup {p}]
  /\ UNCHANGED <<owner, asks>>

GiveBack(p, r) ==
  /\ Awake(p) /\ owner[r] = p
  /\ owner' = [owner EXCEPT ![r] = NULL]
  /\ IF sleepers[r] = {}
     THEN UNCHANGED sleepers
     ELSE \E w \in sleepers[r] : sleepers' = [sleepers EXCEPT ![r] = @ \ {w}]
  /\ UNCHANGED asks

Next ==
  \E p \in Process :
    Work(p) \/ \E r \in Resource : Take(p, r) \/ Sleep(p, r) \/ GiveBack(p, r)
=============================================================================
