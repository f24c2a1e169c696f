------------------------------ MODULE VmSpace -------------------------------
(***************************************************************************)
(* What the processes of the virtual-memory simulator see of it: each has  *)
(* its own address space, which only its own alloc and free change and of  *)
(* which a child inherits a copy.  Frames, counts, faults, copy-on-write   *)
(* and the TLB are not to be seen.                                         *)
(***************************************************************************)
EXTENDS Integers

CONSTANTS Process, Vpn, Permission, NULL

VARIABLES
  space,   \* process -> vpn -> what the page was allocated for, or NULL
  forked,  \* number of processes
  current  \* the process that runs

svars == <<space, forked, current>>

Init ==
  /\ space = [h \in Process |-> [vpn \in Vpn |-> NULL]]
  /\ forked = 1
  /\ current = 1

Alloc(vpn, rw) ==
  /\ space[current][vpn] = NULL
  /\ space' = [space EXCEPT ![current][vpn] = rw]
  /\ UNCHANGED <<forked, current>>

Free(vpn) ==
  /\ space[current][vpn] # NULL
  /\ space' = [space EXCEPT ![current][vpn] = NULL]
  /\ UNCHANGED <<forked, current>>

Fork ==
  /\ forked + 1 \in Process
  /\ forked' = forked + 1
  /\ current' = forked'
  /\ space' = [space EXCEPT ![forked'] = space[current]]

Switch ==
  /\ current' \in 1 .. forked
  /\ UNCHANGED <<space, forked>>

Next ==
  \/ \E vpn \in Vpn : Free(vpn) \/ \E rw \in Permission : Alloc(vpn, rw)
  \/ Fork
  \/ Switch

Spec == Init /\ [][Next]_svars
=============================================================================
