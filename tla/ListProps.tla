----------------------------- MODULE ListProps -----------------------------
(* What list_head.h promises. *)
EXTENDS ListHead

Memory ==
  [next : [Item -> Item \cup {LIST_POISON1, LIST_POISON2}],
   prev : [Item -> Item \cup {LIST_POISON1, LIST_POISON2}]]

\* The fields of the items in use point to items in use.
TypeOK ==
  /\ stale \subseteq Item
  /\ link \in Memory
  /\ \A x \in Live : link.next[x] \in Live /\ link.prev[x] \in Live

ForthAndBack ==
  \A x \in Live :
    /\ link.prev[link.next[x]] = x
    /\ link.next[link.prev[x]] = x
    /\ list_empty(link, x) <=> list_empty_careful(link, x)

Apart == \A g, h \in Usable : g # h => Reach(g) \cap Reach(h) = {}

\* Going forth and back leads to where one came from, through every operation
\* on entries, heads and whole lists; so the careless list_empty(), which looks
\* at one field only, says what the careful one does.  From two heads one never
\* comes to the same item, nor from one head to another.
WellLinked == ForthAndBack /\ Apart

Places(n) ==
  {p \in Usable \X (1 .. Cardinality(Nodes)) :
     p[2] <= Len(Entries(p[1])) /\ Entries(p[1])[p[2]] = n}

\* An entry in use for which list_empty() is false is on exactly one list, once,
\* and any other entry is on none: what sched.c takes for granted where it
\* asserts list_empty() of a process that exits or has run.  The entry that
\* list_is_last() holds of is the last.
OnOneList ==
  \A n \in Nodes :
    /\ Cardinality(Places(n)) = IF n \in Linked /\ ~list_empty(link, n) THEN 1 ELSE 0
    /\ \A p \in Places(n) : list_is_last(link, n, p[1]) <=> p[2] = Len(Entries(p[1]))

\* A loop comes by every entry that was on the list when it began, once and in
\* order; the safe one though its body unlinks or moves the entry it is at.
WalkSeesAll ==
  AtEnd => walk.seen = IF walk.kind = "reverse" THEN Reverse(walk.whole) ELSE walk.whole

\* The pointers implement sequences.
Sequences == [h \in Heads |-> IF h \in stale THEN <<>> ELSE Entries(h)]

OnNone == {n \in Linked : list_empty(link, n)}

Abstract == INSTANCE Lists WITH lists <- Sequences, usable <- Usable, empty <- OnNone

ImplementsLists == Abstract!Spec
=============================================================================
