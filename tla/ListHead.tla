------------------------------ MODULE ListHead ------------------------------
(***************************************************************************)
(* The doubly linked lists of list_head.h at the level of their pointers:  *)
(* the scheduler, the shell and the paging simulator each have a copy.     *)
(* An operation is a function of the memory, a record of what every next   *)
(* and prev field holds; an EXCEPT with several parts is a run of          *)
(* assignments, in this order.                                             *)
(*                                                                         *)
(* The callers keep the contract of the functions: what they hand over is  *)
(* linked when it is to be unlinked, and not linked when it is to be       *)
(* linked.  stale holds what must not be used before it is linked or       *)
(* initialised again.                                                      *)
(***************************************************************************)
EXTENDS Integers, FiniteSets, SequencesExt

CONSTANTS
  Nodes,         \* the struct list_head's inside entries
  Heads,         \* those that anchor a list
  LIST_POISON1,
  LIST_POISON2

Item == Nodes \cup Heads

ASSUME ListAssumption ==
  /\ IsFiniteSet(Nodes)
  /\ Nodes \cap Heads = {}
  /\ {LIST_POISON1, LIST_POISON2} \cap Item = {}

VARIABLES
  link,   \* [next, prev]: what the fields hold
  stale,  \* the items whose fields mean nothing
  walk    \* the loop over a list that is under way, or its end

vars == <<link, stale, walk>>

-----------------------------------------------------------------------------
(* The functions, as what they make of the memory m *)

INIT_LIST_HEAD(m, list) == [m EXCEPT !.next[list] = list, !.prev[list] = list]

\* Mutant: the neighbour behind does not learn of the new entry.
ForwardAdd(m, new, before, after) ==
  [m EXCEPT !.next[new] = after, !.prev[new] = before, !.next[before] = new]

__list_add(m, new, before, after) ==
  [m EXCEPT !.prev[after] = new, !.next[new] = after,
            !.prev[new] = before, !.next[before] = new]

list_add(m, new, head) == __list_add(m, new, head, m.next[head])

\* Mutant: the entry goes before the last one.
AddBeforeLast(m, new, head) == __list_add(m, new, m.prev[m.prev[head]], m.prev[head])

list_add_tail(m, new, head) == __list_add(m, new, m.prev[head], head)

__list_del(m, before, after) ==
  [m EXCEPT !.prev[after] = before, !.next[before] = after]

__list_del_entry(m, entry) == __list_del(m, m.prev[entry], m.next[entry])

list_del(m, entry) ==
  [__list_del_entry(m, entry) EXCEPT !.next[entry] = LIST_POISON1,
                                     !.prev[entry] = LIST_POISON2]

list_replace(m, old, new) ==
  LET half == [m EXCEPT !.next[new] = m.next[old], !.prev[m.next[old]] = new]
  IN  [half EXCEPT !.prev[new] = half.prev[old], !.next[half.prev[old]] = new]

list_replace_init(m, old, new) == INIT_LIST_HEAD(list_replace(m, old, new), old)

\* Mutant: the entry taken off is not initialised.
JustDel(m, entry) == list_del(m, entry)

list_del_init(m, entry) == INIT_LIST_HEAD(__list_del_entry(m, entry), entry)

\* Mutant: the entry is not taken off its list.
MoveLinked(m, list, head) == list_add(m, list, head)

list_move(m, list, head) == list_add(__list_del_entry(m, list), list, head)

list_move_tail(m, list, head) == list_add_tail(__list_del_entry(m, list), list, head)

list_is_last(m, list, head) == m.next[list] = head

list_empty(m, head) == m.next[head] = head

list_empty_careful(m, head) == m.next[head] = head /\ m.next[head] = m.prev[head]

list_is_singular(m, head) == ~list_empty(m, head) /\ m.next[head] = m.prev[head]

list_rotate_left(m, head) ==
  IF list_empty(m, head) THEN m ELSE list_move_tail(m, m.next[head], head)

__list_cut_position(m, list, head, entry) ==
  LET new_first == m.next[entry]
  IN  [m EXCEPT !.next[list] = m.next[head], !.prev[m.next[head]] = list,
                !.prev[list] = entry, !.next[entry] = list,
                !.next[head] = new_first, !.prev[new_first] = head]

NothingToCut(m, head, entry) ==
  \/ list_empty(m, head)
  \/ list_is_singular(m, head) /\ m.next[head] # entry /\ head # entry

list_cut_position(m, list, head, entry) ==
  IF NothingToCut(m, head, entry) THEN m
  ELSE IF entry = head THEN INIT_LIST_HEAD(m, list)
  ELSE __list_cut_position(m, list, head, entry)

list_cut_before(m, list, head, entry) ==
  IF m.next[head] = entry THEN INIT_LIST_HEAD(m, list)
  ELSE LET half == [m EXCEPT !.next[list] = m.next[head], !.prev[m.next[head]] = list]
           last == half.prev[entry]
       IN  [half EXCEPT !.prev[list] = last, !.next[last] = list,
                        !.next[head] = entry, !.prev[entry] = head]

__list_splice(m, list, before, after) ==
  LET first == m.next[list]
      last  == m.prev[list]
  IN  [m EXCEPT !.prev[first] = before, !.next[before] = first,
                !.next[last] = after, !.prev[after] = last]

list_splice(m, list, head) ==
  IF list_empty(m, list) THEN m ELSE __list_splice(m, list, head, m.next[head])

list_splice_tail(m, list, head) ==
  IF list_empty(m, list) THEN m ELSE __list_splice(m, list, m.prev[head], head)

list_splice_init(m, list, head) ==
  IF list_empty(m, list) THEN m
  ELSE INIT_LIST_HEAD(list_splice(m, list, head), list)

list_splice_tail_init(m, list, head) ==
  IF list_empty(m, list) THEN m
  ELSE INIT_LIST_HEAD(list_splice_tail(m, list, head), list)

-----------------------------------------------------------------------------
(* What can be reached from a head *)

\* What is reached from head in k steps along the field f.
Along(f, head) ==
  LET follow == [x \in Item \cup {LIST_POISON1, LIST_POISON2} |->
                   IF x \in Item THEN f[x] ELSE x]
      at[k \in Nat] == IF k = 0 THEN head ELSE follow[at[k - 1]]
  IN  at

\* The entries of the list at head, as f tells them.
Chain(f, head) ==
  LET at  == Along(f, head)
      len == Cardinality({k \in 1 .. Cardinality(Nodes) :
                            \A j \in 1 .. k : at[j] # head})
  IN  [k \in 1 .. len |-> at[k]]

Entries(head) == Chain(link.next, head)

Live == Item \ stale

\* The same without an order: the least set that holds head and what its members
\* point to.
Reach(head) ==
  LET closed == {S \in SUBSET Live : head \in S /\ \A x \in S : link.next[x] \in S}
  IN  {x \in Live : \A S \in closed : x \in S}

\* Entries that may be unlinked, and entries that may be linked.
Linked == Nodes \ stale
Detached == {n \in Nodes : n \in stale \/ list_empty(link, n)}
Usable == Heads \ stale
-----------------------------------------------------------------------------
(* Loops over a list *)

NoWalk == [kind |-> "none"]

first_entry(kind, head) ==
  IF kind = "reverse" THEN link.prev[head] ELSE link.next[head]

\* Mutant: the safe loop, too, takes the next entry when the body is done.
LateNext ==
  IF walk.kind = "reverse" THEN link.prev[walk.pos] ELSE link.next[walk.pos]

\* list_for_each_entry, _reverse and _safe: where the loop goes after pos.
next_entry ==
  CASE walk.kind = "entry"   -> link.next[walk.pos]
    [] walk.kind = "reverse" -> link.prev[walk.pos]
    [] walk.kind = "safe"    -> walk.n

\* The loop is back at the head, or a poisoned pointer has ended the program.
AtEnd == walk.kind # "none" /\ (walk.pos = walk.head \/ walk.pos \notin Item)

Start(kind, h) ==
  /\ walk = NoWalk
  /\ h \in Usable
  /\ LET pos == first_entry(kind, h)
     IN  walk' = [kind |-> kind, head |-> h, pos |-> pos, n |-> link.next[pos],
                  seen |-> <<>>, whole |-> Entries(h)]
  /\ UNCHANGED <<link, stale>>

Advance ==
  /\ walk # NoWalk
  /\ ~AtEnd
  /\ walk' = [walk EXCEPT !.pos = next_entry,
                          !.n = IF next_entry \in Item THEN link.next[next_entry] ELSE @,
                          !.seen = Append(@, walk.pos)]
  /\ UNCHANGED <<link, stale>>

Stop ==
  /\ AtEnd
  /\ walk' = NoWalk
  /\ UNCHANGED <<link, stale>>

\* What the body of a loop may do: anything to other lists, and in the safe
\* loop take the entry it is at off the list.
KeepsWalk ==
  walk # NoWalk =>
    /\ ~AtEnd
    /\ walk.head \notin stale'
    /\ \/ Chain(link'.next, walk.head) = Entries(walk.head)
       \/ /\ walk.kind = "safe"
          /\ Chain(link'.next, walk.head) = RemoveFirst(Entries(walk.head), walk.pos)

-----------------------------------------------------------------------------
(* The operations *)

Init ==
  /\ stale \in SUBSET Nodes
  /\ link = [next |-> [x \in Item |-> IF x \in stale THEN LIST_POISON1 ELSE x],
             prev |-> [x \in Item |-> IF x \in stale THEN LIST_POISON2 ELSE x]]
  /\ walk = NoWalk

Initialise(x) ==
  /\ x \in stale
  /\ link' = INIT_LIST_HEAD(link, x)
  /\ stale' = stale \ {x}

Add(n, h) ==
  /\ n \in Detached
  /\ h \in Usable
  /\ link' = list_add(link, n, h)
  /\ stale' = stale \ {n}

AddTail(n, h) ==
  /\ n \in Detached
  /\ h \in Usable
  /\ link' = list_add_tail(link, n, h)
  /\ stale' = stale \ {n}

Delete(n) ==
  /\ n \in Linked
  /\ link' = list_del(link, n)
  /\ stale' = stale \cup {n}

DeleteInit(n) ==
  /\ n \in Linked
  /\ link' = list_del_init(link, n)
  /\ UNCHANGED stale

Move(n, h) ==
  /\ n \in Linked
  /\ h \in Usable
  /\ link' = list_move(link, n, h)
  /\ UNCHANGED stale

MoveTail(n, h) ==
  /\ n \in Linked
  /\ h \in Usable
  /\ link' = list_move_tail(link, n, h)
  /\ UNCHANGED stale

Replace(old, new) ==
  /\ old \in Linked
  /\ ~list_empty(link, old)
  /\ new \in Detached
  /\ link' = list_replace(link, old, new)
  /\ stale' = (stale \ {new}) \cup {old}

ReplaceInit(old, new) ==
  /\ old \in Linked
  /\ ~list_empty(link, old)
  /\ new \in Detached
  /\ link' = list_replace_init(link, old, new)
  /\ stale' = stale \ {new}

Rotate(h) ==
  /\ h \in Usable
  /\ link' = list_rotate_left(link, h)
  /\ UNCHANGED stale

\* A list to hold what is cut off: of no entries, or one not to be used so far.
Receives(l) == l \in Heads /\ (l \in stale \/ list_empty(link, l))

CutPosition(l, h, entry) ==
  /\ Receives(l)
  /\ h \in Usable \ {l}
  /\ entry \in Reach(h)
  /\ link' = list_cut_position(link, l, h, entry)
  /\ stale' = IF NothingToCut(link, h, entry) THEN stale ELSE stale \ {l}

CutBefore(l, h, entry) ==
  /\ Receives(l)
  /\ h \in Usable \ {l}
  /\ entry \in Reach(h)
  /\ link' = list_cut_before(link, l, h, entry)
  /\ stale' = stale \ {l}

Splice(l, h) ==
  /\ l \in Usable
  /\ h \in Usable \ {l}
  /\ \/ link' = list_splice(link, l, h)
     \/ link' = list_splice_tail(link, l, h)
  /\ stale' = IF list_empty(link, l) THEN stale ELSE stale \cup {l}

SpliceInit(l, h) ==
  /\ l \in Usable
  /\ h \in Usable \ {l}
  /\ \/ link' = list_splice_init(link, l, h)
     \/ link' = list_splice_tail_init(link, l, h)
  /\ UNCHANGED stale

EntryOp ==
  \/ \E x \in Item : Initialise(x)
  \/ \E n \in Nodes : Delete(n) \/ DeleteInit(n)
  \/ \E n \in Nodes, h \in Heads :
       Add(n, h) \/ AddTail(n, h) \/ Move(n, h) \/ MoveTail(n, h)
  \/ \E old, new \in Nodes : Replace(old, new) \/ ReplaceInit(old, new)

ListOp ==
  \/ \E h \in Heads : Rotate(h)
  \/ \E l, h \in Heads : Splice(l, h) \/ SpliceInit(l, h)
  \/ \E l, h \in Heads, entry \in Item : CutPosition(l, h, entry) \/ CutBefore(l, h, entry)

Next ==
  \/ (EntryOp \/ ListOp) /\ UNCHANGED walk /\ KeepsWalk
  \/ \E kind \in {"entry", "reverse", "safe"}, h \in Heads : Start(kind, h)
  \/ Advance
  \/ Stop

Spec == Init /\ [][Next]_vars
=============================================================================
