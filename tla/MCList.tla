------------------------------- MODULE MCList -------------------------------
(* Instances of the linked lists for TLC. *)
EXTENDS ListProps, TLC

CONSTANTS a, b, c, d, s, t

Symmetric == Permutations(Nodes) \cup Permutations(Heads)
=============================================================================
