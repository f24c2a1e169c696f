------------------------------- MODULE Lists -------------------------------
(***************************************************************************)
(* What list_head.h gives its users: heads, each with a sequence of        *)
(* entries, no entry on two lists.  Links are not to be seen.              *)
(***************************************************************************)
EXTENDS Integers, SequencesExt

CONSTANTS Nodes, Heads

VARIABLES
  lists,   \* head -> its entries
  usable,  \* the heads that may be used
  empty    \* the entries on no list of which list_empty() is true

lvars == <<lists, usable, empty>>

Listed == UNION {ToSet(lists[h]) : h \in Heads}

Init ==
  /\ lists = [h \in Heads |-> <<>>]
  /\ usable = Heads
  /\ empty \subseteq Nodes

Without(ls, n) == [h \in Heads |-> RemoveFirst(ls[h], n)]

AtFront(ls, n, h) == [ls EXCEPT ![h] = <<n>> \o @]
AtBack(ls, n, h) == [ls EXCEPT ![h] = Append(@, n)]

Link(n, h) ==
  /\ n \in Nodes \ Listed
  /\ h \in usable
  /\ lists' \in {AtFront(lists, n, h), AtBack(lists, n, h)}
  /\ empty' = empty \ {n}
  /\ UNCHANGED usable

Unlink(n) ==
  /\ n \in Listed \cup empty
  /\ lists' = Without(lists, n)
  /\ empty' \in {empty \ {n}, empty \cup {n}}
  /\ UNCHANGED usable

Relink(n, h) ==
  /\ n \in Listed \cup empty
  /\ h \in usable
  /\ lists' \in {AtFront(Without(lists, n), n, h), AtBack(Without(lists, n), n, h)}
  /\ empty' = empty \ {n}
  /\ UNCHANGED usable

Replace(old, new) ==
  /\ old \in Listed
  /\ new \in Nodes \ Listed
  /\ lists' = [h \in Heads |-> [k \in DOMAIN lists[h] |->
                 IF lists[h][k] = old THEN new ELSE lists[h][k]]]
  /\ empty' \in {empty \ {new}, (empty \ {new}) \cup {old}}
  /\ UNCHANGED usable

Rotate(h) ==
  /\ h \in usable
  /\ lists[h] # <<>>
  /\ lists' = [lists EXCEPT ![h] = Append(Tail(@), Head(@))]
  /\ UNCHANGED <<usable, empty>>

\* The first k entries of h become the list l.
Cut(l, h, k) ==
  /\ h \in usable \ {l}
  /\ lists[l] = <<>>
  /\ lists' = [lists EXCEPT ![l] = SubSeq(lists[h], 1, k),
                            ![h] = SubSeq(lists[h], k + 1, Len(lists[h]))]
  /\ usable' = usable \cup {l}
  /\ UNCHANGED empty

\* The entries of l join those of h; l is emptied, or must not be used again.
Splice(l, h) ==
  /\ {l, h} \subseteq usable
  /\ l # h
  /\ \E joined \in {lists[l] \o lists[h], lists[h] \o lists[l]} :
       lists' = [lists EXCEPT ![l] = <<>>, ![h] = joined]
  /\ usable' \in {usable, usable \ {l}}
  /\ UNCHANGED empty

MarkEmpty(n) ==
  /\ n \in Nodes \ (Listed \cup empty)
  /\ empty' = empty \cup {n}
  /\ UNCHANGED <<lists, usable>>

Renew(h) ==
  /\ h \in Heads \ usable
  /\ usable' = usable \cup {h}
  /\ UNCHANGED <<lists, empty>>

Next ==
  \/ \E n \in Nodes : MarkEmpty(n) \/ Unlink(n) \/ \E h \in Heads : Link(n, h) \/ Relink(n, h)
  \/ \E old, new \in Nodes : Replace(old, new)
  \/ \E l, h \in Heads : Splice(l, h) \/ \E k \in 0 .. Len(lists[h]) : Cut(l, h, k)
  \/ \E h \in Heads : Rotate(h) \/ Renew(h)

Spec == Init /\ [][Next]_lvars
=============================================================================
