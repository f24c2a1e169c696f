-------------------------------- MODULE MCVm --------------------------------
(* Instances of the virtual-memory simulator for TLC.                      *)
EXTENDS VmProps

\* A bound: runs are not followed beyond a copy-on-write fault that finds
\* memory full.
UntilStarved == ~starved
=============================================================================
