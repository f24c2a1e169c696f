----------------------------- MODULE ListProofs -----------------------------
(***************************************************************************)
(* The links of list_head.h stay sound through every sequence of calls,    *)
(* for any number of entries and of heads, and implement the sequences of  *)
(* Lists.                                                                  *)
(*                                                                         *)
(* That going forth and back leads home is a matter of the few fields an   *)
(* operation writes.  That a list does not run into another one is not: to *)
(* see that a list that is cut falls into two, one needs to know what      *)
(* comes before what.  So the invariant says that every item in use can be *)
(* given an owner (its head, or itself if it is an entry on no list) and a *)
(* place, such that next leads to the next place, and from the last place  *)
(* back to the owner.  Each operation comes with the owners and places     *)
(* after it.                                                               *)
(*                                                                         *)
(* With owners and places every head in use anchors one sequence, and      *)
(* Entries() reads it off; what an operation makes of the sequences        *)
(* follows from the few fields that it writes.                             *)
(***************************************************************************)
EXTENDS ListProps, ListLemmas, FiniteSetTheorems, TLAPS

\* Going forth and back in S.
Ring(m, S) ==
  \A x \in S :
    /\ m.next[x] \in S /\ m.prev[x] \in S
    /\ m.prev[m.next[x]] = x
    /\ m.next[m.prev[x]] = x

\* The owners, at place 0, are the heads in S and the entries on no list.
Owned(m, S, own, pos) ==
  /\ own \in [Item -> Item]
  /\ pos \in [Item -> Nat]
  /\ \A x \in S : /\ own[x] \in S
                  /\ own[own[x]] = own[x]
                  /\ pos[own[x]] = 0
                  /\ own[m.next[x]] = own[x]
                  /\ x \in Heads => own[x] = x
                  /\ x \in Nodes /\ own[x] = x => m.next[x] = x

\* Next leads to the place that comes next.
InOrder(m, S, own, pos) ==
  /\ \A x \in S : m.next[x] = own[x] \/ pos[x] < pos[m.next[x]]
  /\ \A x, y \in S : own[x] = own[y] /\ pos[x] = pos[y] => x = y
  /\ \A x, y \in S : own[x] = own[y] /\ pos[x] < pos[y] =>
                       pos[x] < pos[m.next[x]] /\ pos[m.next[x]] <= pos[y]

Placed(m, S) ==
  \E own, pos : Owned(m, S, own, pos) /\ InOrder(m, S, own, pos)

Sound(m, S) == m \in Memory /\ S \subseteq Item /\ Ring(m, S) /\ Placed(m, S)

\* The inductive invariant.
ListInv == stale \subseteq Item /\ Sound(link, Live)

-----------------------------------------------------------------------------
(* The operations *)

\* An item initialised is a list of no entries, whatever it was.
LEMMA InitSound ==
  ASSUME NEW m, NEW S, Sound(m, S), NEW x \in Item \ S
  PROVE  Sound(INIT_LIST_HEAD(m, x), S \cup {x})
PROOF
  <1> DEFINE r == INIT_LIST_HEAD(m, x)
             T == S \cup {x}
  <1>1. m \in Memory /\ S \subseteq Item /\ Ring(m, S)
    BY DEF Sound
  <1>2. PICK own, pos : Owned(m, S, own, pos) /\ InOrder(m, S, own, pos)
    BY DEF Sound, Placed
  <1>3. /\ r \in Memory
        /\ r.next = [m.next EXCEPT ![x] = x]
        /\ r.prev = [m.prev EXCEPT ![x] = x]
    BY <1>1 DEF INIT_LIST_HEAD, Memory
  <1> DEFINE o == [own EXCEPT ![x] = x]
             p == [pos EXCEPT ![x] = 0]
  <1> HIDE DEF r
  <1>4. Ring(r, T)
    BY <1>1, <1>3 DEF Ring, Memory
  <1>5. Owned(r, T, o, p)
    BY <1>1, <1>2, <1>3 DEF Ring, Owned, Memory
  <1>6. InOrder(r, T, o, p)
    BY <1>1, <1>2, <1>3 DEF Ring, Owned, InOrder, Memory
  <1> QED
    BY <1>1, <1>3, <1>4, <1>5, <1>6 DEF Sound, Placed, r
\* An entry on no list can be forgotten.
LEMMA DropSound ==
  ASSUME NEW m, NEW S, Sound(m, S), NEW x \in S, m.next[x] = x
  PROVE  Sound(m, S \ {x})
PROOF
  <1>1. m \in Memory /\ S \subseteq Item /\ Ring(m, S)
    BY DEF Sound
  <1>2. PICK own, pos : Owned(m, S, own, pos) /\ InOrder(m, S, own, pos)
    BY DEF Sound, Placed
  <1>3. Ring(m, S \ {x})
    BY <1>1 DEF Ring
  <1>4. \A y \in S \ {x} : own[y] # x
    BY <1>1, <1>2 DEF Owned, InOrder
  <1>5. Owned(m, S \ {x}, own, pos)
    BY <1>1, <1>2, <1>4 DEF Ring, Owned
  <1>6. InOrder(m, S \ {x}, own, pos)
    BY <1>1, <1>2 DEF InOrder
  <1> QED
    BY <1>1, <1>3, <1>5, <1>6 DEF Sound, Placed

\* What the fields of an item that is not in use hold does not matter.
LEMMA PoisonSound ==
  ASSUME NEW m, NEW S, Sound(m, S), NEW r \in Memory,
         \A x \in S : r.next[x] = m.next[x] /\ r.prev[x] = m.prev[x]
  PROVE  Sound(r, S)
PROOF
  <1>1. m \in Memory /\ S \subseteq Item /\ Ring(m, S)
    BY DEF Sound
  <1>2. PICK own, pos : Owned(m, S, own, pos) /\ InOrder(m, S, own, pos)
    BY DEF Sound, Placed
  <1>3. Ring(r, S)
    BY <1>1 DEF Ring
  <1>4. Owned(r, S, own, pos)
    BY <1>2 DEF Owned
  <1>5. InOrder(r, S, own, pos)
    BY <1>2 DEF InOrder
  <1> QED
    BY <1>1, <1>3, <1>4, <1>5 DEF Sound, Placed

\* A new entry next to a head, in front or behind: all places are doubled, so
\* that there is one for it.
LEMMA AddSound ==
  ASSUME NEW m, NEW S, Sound(m, S), NEW n \in Nodes \ S,
         NEW h \in Heads \cap S, NEW before \in S,
         before = h \/ m.next[before] = h
  PROVE  Sound(__list_add(m, n, before, m.next[before]), S \cup {n})
PROOF
  <1> DEFINE after == m.next[before]
             r == __list_add(m, n, before, after)
             T == S \cup {n}
  <1>1. m \in Memory /\ S \subseteq Item /\ Ring(m, S)
    BY DEF Sound
  <1>2. PICK own, pos : Owned(m, S, own, pos) /\ InOrder(m, S, own, pos)
    BY DEF Sound, Placed
  <1>3. after \in S /\ n \in Item /\ n \notin S /\ m.prev[after] = before
    BY <1>1 DEF Ring, Item
  <1>4. own[before] = h /\ own[after] = h /\ n \notin Heads
    BY <1>1, <1>2, ListAssumption DEF Owned
  <1>5. /\ r \in Memory
        /\ r.next = [m.next EXCEPT ![n] = after, ![before] = n]
        /\ r.prev = [m.prev EXCEPT ![after] = n, ![n] = before]
    BY <1>1, <1>3 DEF __list_add, Memory
  <1> DEFINE o == [own EXCEPT ![n] = h]
             p == [z \in Item |-> IF z = n THEN pos[before] + pos[before] + 1
                                           ELSE pos[z] + pos[z]]
  <1> HIDE DEF r
  <1>6. Ring(r, T)
    BY <1>1, <1>3, <1>5 DEF Ring, Memory
  <1>7. /\ o \in [Item -> Item] /\ p \in [Item -> Nat]
        /\ o[n] = h /\ p[n] = pos[before] + pos[before] + 1
        /\ \A z \in S : o[z] = own[z] /\ p[z] = pos[z] + pos[z] /\ pos[z] \in Nat
    BY <1>1, <1>2, <1>3 DEF Owned, Item
  <1>8. /\ r.next[n] = after /\ r.next[before] = n
        /\ \A z \in S \ {before} : r.next[z] = m.next[z]
    BY <1>1, <1>3, <1>5 DEF Memory
  <1> HIDE DEF o, p
  <1>9. Owned(r, T, o, p)
    <2>1. ASSUME NEW x \in S
          PROVE  /\ o[x] \in T
                 /\ o[o[x]] = o[x]
                 /\ p[o[x]] = 0
                 /\ o[r.next[x]] = o[x]
                 /\ x \in Heads => o[x] = x
                 /\ x \in Nodes /\ o[x] = x => r.next[x] = x
      <3>1. own[x] \in S /\ own[own[x]] = own[x] /\ pos[own[x]] = 0
        BY <1>2 DEF Owned
      <3>2. o[r.next[x]] = o[x]
        <4>1. CASE x = before
          BY <1>4, <1>7, <1>8, <4>1
        <4>2. CASE x # before
          <5>1. r.next[x] = m.next[x] /\ m.next[x] \in S /\ own[m.next[x]] = own[x]
            BY <1>1, <1>2, <1>8, <4>2 DEF Ring, Owned
          <5> QED
            BY <1>7, <5>1
        <4> QED
          BY <4>1, <4>2
      <3>3. x \in Heads => o[x] = x
        BY <1>2, <1>7 DEF Owned
      <3>4. x \in Nodes /\ o[x] = x => x # before /\ m.next[x] = x
        BY <1>2, <1>4, <1>7, ListAssumption DEF Owned
      <3> QED
        BY <1>7, <1>8, <3>1, <3>2, <3>3, <3>4
    <2>2. /\ o[n] \in T
          /\ o[o[n]] = o[n]
          /\ p[o[n]] = 0
          /\ o[r.next[n]] = o[n]
          /\ o[n] # n
      BY <1>1, <1>2, <1>3, <1>4, <1>7, <1>8 DEF Owned
    <2> QED
      BY <1>4, <1>7, <2>1, <2>2 DEF Owned
  <1>10. InOrder(r, T, o, p)
    <2>1. after = h \/ pos[before] < pos[after]
      BY <1>2, <1>4 DEF InOrder
    <2>2. ASSUME NEW x \in S, own[x] = h
          PROVE  /\ pos[x] <= pos[before] \/ (after # h /\ pos[after] <= pos[x])
                 /\ pos[x] = pos[before] => x = before
      <3>1. pos[h] = 0
        BY <1>2, <1>4 DEF Owned
      <3>2. pos[before] < pos[x] => pos[before] < pos[after] /\ pos[after] <= pos[x]
        BY <1>2, <1>4, <2>2 DEF InOrder
      <3>3. pos[x] = pos[before] => x = before
        BY <1>2, <1>4, <2>2 DEF InOrder
      <3> QED
        BY <1>7, <3>1, <3>2, <3>3
    <2>3. \A x \in T : r.next[x] = o[x] \/ p[x] < p[r.next[x]]
      <3>1. r.next[n] = o[n] \/ p[n] < p[r.next[n]]
        BY <1>3, <1>7, <1>8, <2>1
      <3>2. p[before] < p[n]
        BY <1>7
      <3>3. ASSUME NEW x \in S \ {before}
            PROVE  r.next[x] = o[x] \/ p[x] < p[r.next[x]]
        <4>1. m.next[x] \in S /\ (m.next[x] = own[x] \/ pos[x] < pos[m.next[x]])
          BY <1>1, <1>2 DEF Ring, InOrder
        <4> QED
          BY <1>7, <1>8, <4>1
      <3> QED
        BY <1>8, <3>1, <3>2, <3>3
    <2>4. \A x, y \in T : o[x] = o[y] /\ p[x] = p[y] => x = y
      <3>1. ASSUME NEW x \in S, NEW y \in S, o[x] = o[y], p[x] = p[y]
            PROVE  x = y
        <4>1. own[x] = own[y]
          BY <1>7, <3>1
        <4>2. pos[x] + pos[x] = pos[y] + pos[y]
          BY <1>7, <3>1
        <4>3. pos[x] \in Nat /\ pos[y] \in Nat
          BY <1>7
        <4>4. pos[x] = pos[y]
          BY <4>2, <4>3
        <4> QED
          BY <1>2, <4>1, <4>4 DEF InOrder
      <3>2. \A x \in S : p[x] # p[n]
        BY <1>7
      <3> QED
        BY <3>1, <3>2
    <2>5. ASSUME NEW x \in T, NEW y \in T, o[x] = o[y], p[x] < p[y]
          PROVE  p[x] < p[r.next[x]] /\ p[r.next[x]] <= p[y]
      <3>1. CASE x = n
        <4>1. y \in S /\ own[y] = h /\ pos[before] < pos[y]
          BY <1>7, <2>5, <3>1
        <4>2. after # h /\ pos[after] <= pos[y]
          BY <1>7, <2>2, <4>1
        <4>3. pos[before] < pos[after] /\ p[after] = pos[after] + pos[after]
          BY <1>3, <1>7, <2>1, <4>2
        <4> QED
          BY <1>3, <1>7, <1>8, <3>1, <4>1, <4>2, <4>3
      <3>2. CASE x = before
        <4>1. p[x] < p[n] /\ r.next[x] = n
          BY <1>7, <1>8, <3>2
        <4>2. y # n => y \in S /\ pos[before] < pos[y]
          BY <1>7, <2>5, <3>2
        <4> QED
          BY <1>7, <3>2, <4>1, <4>2
      <3>3. CASE x \in S \ {before}
        <4>1. r.next[x] = m.next[x] /\ m.next[x] \in S
          BY <1>1, <1>8, <3>3 DEF Ring
        <4>2. CASE y \in S
          <5>1. pos[x] < pos[y] /\ own[x] = own[y]
            BY <1>7, <2>5, <3>3, <4>2
          <5>2. pos[x] < pos[m.next[x]] /\ pos[m.next[x]] <= pos[y]
            BY <1>2, <3>3, <4>2, <5>1 DEF InOrder
          <5> QED
            BY <1>7, <3>3, <4>1, <4>2, <5>2
        <4>3. CASE y = n
          <5>1. pos[x] < pos[before] /\ own[x] = own[before]
            <6>1. own[x] = h /\ pos[x] <= pos[before]
              BY <1>7, <2>5, <3>3, <4>3
            <6> QED
              BY <1>4, <1>7, <2>2, <3>3, <6>1
          <5>2. pos[x] < pos[m.next[x]] /\ pos[m.next[x]] <= pos[before]
            BY <1>2, <3>3, <5>1 DEF InOrder
          <5> QED
            BY <1>7, <3>3, <4>1, <4>3, <5>2
        <4> QED
          BY <4>2, <4>3
      <3> QED
        BY <3>1, <3>2, <3>3
    <2> QED
      BY <2>3, <2>4, <2>5 DEF InOrder
  <1> QED
    BY <1>1, <1>3, <1>5, <1>6, <1>9, <1>10 DEF Sound, Placed, r

\* An entry is taken out; the others keep their places.
LEMMA DelSound ==
  ASSUME NEW m, NEW S, Sound(m, S), NEW n \in Nodes \cap S
  PROVE  Sound(__list_del_entry(m, n), S \ {n})
PROOF
  <1> DEFINE r == __list_del_entry(m, n)
             T == S \ {n}
  <1>1. m \in Memory /\ S \subseteq Item /\ Ring(m, S)
    BY DEF Sound
  <1>2. PICK own, pos : Owned(m, S, own, pos) /\ InOrder(m, S, own, pos)
    BY DEF Sound, Placed
  <1>3. /\ r \in Memory
        /\ r.next = [m.next EXCEPT ![m.prev[n]] = m.next[n]]
        /\ r.prev = [m.prev EXCEPT ![m.next[n]] = m.prev[n]]
    BY <1>1 DEF __list_del_entry, __list_del, Memory, Ring
  <1> HIDE DEF r
  <1>4. Ring(r, T)
    BY <1>1, <1>3 DEF Ring, Memory
  <1>5. \A y \in T : own[y] # n
    BY <1>1, <1>2 DEF Owned, InOrder
  <1>6. Owned(r, T, own, pos)
    BY <1>1, <1>2, <1>3, <1>5 DEF Ring, Owned, Memory
  <1>7. InOrder(r, T, own, pos)
    BY <1>1, <1>2, <1>3, <1>5 DEF Ring, Owned, InOrder, Memory
  <1> QED
    BY <1>1, <1>3, <1>4, <1>6, <1>7 DEF Sound, Placed, r

\* The new entry takes the place of the old one.
LEMMA ReplaceSound ==
  ASSUME NEW m, NEW S, Sound(m, S), NEW old \in Nodes \cap S, m.next[old] # old,
         NEW new \in Nodes \ S
  PROVE  Sound(list_replace(m, old, new), (S \ {old}) \cup {new})
PROOF
  <1> DEFINE r == list_replace(m, old, new)
             T == (S \ {old}) \cup {new}
  <1>1. m \in Memory /\ S \subseteq Item /\ Ring(m, S)
    BY DEF Sound
  <1>2. PICK own, pos : Owned(m, S, own, pos) /\ InOrder(m, S, own, pos)
    BY DEF Sound, Placed
  <1>3. /\ r \in Memory
        /\ r.next = [m.next EXCEPT ![new] = m.next[old], ![m.prev[old]] = new]
        /\ r.prev = [m.prev EXCEPT ![m.next[old]] = new, ![new] = m.prev[old]]
    BY <1>1 DEF list_replace, Memory, Ring, Item
  <1> DEFINE o == [own EXCEPT ![new] = own[old]]
             p == [pos EXCEPT ![new] = pos[old]]
  <1> HIDE DEF r
  <1>4. Ring(r, T)
    BY <1>1, <1>3 DEF Ring, Memory, Item
  <1>5. /\ \A y \in S \ {old} : own[y] # old
        /\ own[old] # old
        /\ new \notin Heads /\ old \notin Heads
    BY <1>1, <1>2, ListAssumption DEF Owned, InOrder
  <1>6. Owned(r, T, o, p)
    BY <1>1, <1>2, <1>3, <1>5 DEF Ring, Owned, Memory, Item
  <1>7. InOrder(r, T, o, p)
    BY <1>1, <1>2, <1>3, <1>5 DEF Ring, Owned, InOrder, Memory, Item
  <1> QED
    BY <1>1, <1>3, <1>4, <1>6, <1>7 DEF Sound, Placed, r, Item
\* An entry moved: out of its list and in again next to a head.
LEMMA MoveSound ==
  ASSUME NEW m, NEW S, Sound(m, S), NEW n \in Nodes \cap S, NEW h \in Heads \cap S
  PROVE  Sound(list_move(m, n, h), S) /\ Sound(list_move_tail(m, n, h), S)
PROOF
  <1> DEFINE d == __list_del_entry(m, n)
             T == S \ {n}
  <1>1. Sound(d, T)
    BY DelSound
  <1>2. h \in Heads \cap T /\ n \in Nodes \ T /\ T \cup {n} = S
    BY ListAssumption
  <1> HIDE DEF d, T
  <1>3. Ring(d, T)
    BY <1>1 DEF Sound
  <1>4. Sound(__list_add(d, n, h, d.next[h]), T \cup {n})
    BY <1>1, <1>2, AddSound
  <1>5. d.prev[h] \in T /\ d.next[d.prev[h]] = h
    BY <1>2, <1>3 DEF Ring
  <1>6. Sound(__list_add(d, n, d.prev[h], d.next[d.prev[h]]), T \cup {n})
    BY <1>1, <1>2, <1>5, AddSound
  <1> QED
    BY <1>2, <1>4, <1>5, <1>6 DEF list_move, list_move_tail, list_add, list_add_tail, d

\* The least set that Reach() stands for, in a memory m and a set of items S.
From(m, S, h) ==
  {x \in S : \A C \in SUBSET S : h \in C /\ (\A y \in C : m.next[y] \in C) => x \in C}

\* What can be reached from a head is owned by it.
LEMMA ReachedIsOwned ==
  ASSUME NEW m, NEW U, NEW S \in SUBSET U, NEW own, NEW pos,
         Ring(m, S), Owned(m, S, own, pos),
         NEW h \in Heads \cap S, NEW e \in From(m, U, h)
  PROVE  e \in S /\ own[e] = h
PROOF
  <1> DEFINE C == {x \in S : own[x] = h}
  <1>1. h \in C /\ C \in SUBSET U
    BY DEF Owned
  <1>2. \A y \in C : m.next[y] \in C
    BY DEF Ring, Owned
  <1>3. e \in C
    BY <1>1, <1>2 DEF From
  <1> QED
    BY <1>3

\* A list is cut behind e: what comes up to e goes to l.
LEMMA CutSound ==
  ASSUME NEW m, NEW S, Sound(m, S), NEW own, NEW pos,
         Owned(m, S, own, pos), InOrder(m, S, own, pos),
         NEW h \in Heads \cap S, NEW l \in Heads \ S,
         NEW e \in S, own[e] = h, e # h
  PROVE  Sound(__list_cut_position(m, l, h, e), S \cup {l})
PROOF
  <1> DEFINE r == __list_cut_position(m, l, h, e)
             T == S \cup {l}
  <1>1. m \in Memory /\ S \subseteq Item /\ Ring(m, S)
    BY DEF Sound
  <1>2. Owned(m, S, own, pos) /\ InOrder(m, S, own, pos)
    OBVIOUS
  <1>3. e \in S /\ own[e] = h /\ own[h] = h /\ l \in Item /\ l \notin S
    BY <1>1, <1>2 DEF Item, Owned
  <1>4. /\ r \in Memory
        /\ r.next = [m.next EXCEPT ![l] = m.next[h], ![e] = l, ![h] = m.next[e]]
        /\ r.prev = [m.prev EXCEPT ![m.next[h]] = l, ![l] = e, ![m.next[e]] = h]
    BY <1>1, <1>3 DEF __list_cut_position, Memory, Item
  <1> DEFINE o == [x \in Item |-> IF x = l \/ (x \in S /\ own[x] = h /\ 0 < pos[x] /\ pos[x] <= pos[e])
                                  THEN l ELSE own[x]]
             p == [pos EXCEPT ![l] = 0]
  <1> HIDE DEF r
  <1>5. Ring(r, T)
    BY <1>1, <1>3, <1>4 DEF Ring, Memory
  <1>6. /\ o \in [Item -> Item] /\ p \in [Item -> Nat]
        /\ o[l] = l /\ p[l] = 0
        /\ \A x \in S : /\ p[x] = pos[x] /\ pos[x] \in Nat
                        /\ own[x] = h /\ 0 < pos[x] /\ pos[x] <= pos[e] => o[x] = l
                        /\ own[x] # h => o[x] = own[x]
                        /\ own[x] = h /\ (pos[x] = 0 \/ pos[e] < pos[x]) => o[x] = h
    BY <1>1, <1>2, <1>3 DEF Owned
  <1>7. /\ r.next[l] = m.next[h] /\ r.next[e] = l /\ r.next[h] = m.next[e]
        /\ \A x \in S \ {e, h} : r.next[x] = m.next[x]
    BY <1>1, <1>3, <1>4 DEF Memory
  <1> HIDE DEF o, p
  <1>8. /\ pos[h] = 0 /\ 0 < pos[e]
        /\ \A x \in S : own[x] = h => (pos[x] = 0 <=> x = h)
        /\ m.next[h] \in S /\ own[m.next[h]] = h
        /\ 0 < pos[m.next[h]] /\ pos[m.next[h]] <= pos[e]
        /\ m.next[e] \in S /\ own[m.next[e]] = h
        /\ m.next[e] = h \/ pos[e] < pos[m.next[e]]
    <2>1. \A x \in S : own[x] = h => (pos[x] = 0 <=> x = h)
      BY <1>2, <1>3 DEF Owned, InOrder
    <2>2. pos[h] = 0 /\ 0 < pos[e]
      BY <1>3, <1>6, <2>1
    <2>3. pos[h] < pos[e] /\ own[h] = own[e]
      BY <1>3, <2>2
    <2> QED
      BY <1>1, <1>2, <1>3, <2>1, <2>2, <2>3 DEF Ring, Owned, InOrder
  <1>9. ASSUME NEW x \in S \ {e, h}
        PROVE  o[m.next[x]] = o[x]
    <2>1. m.next[x] \in S /\ own[m.next[x]] = own[x]
      BY <1>1, <1>2 DEF Ring, Owned
    <2>2. CASE own[x] # h
      BY <1>6, <2>1, <2>2
    <2>3. CASE own[x] = h /\ pos[x] <= pos[e]
      <3>1. 0 < pos[x] /\ pos[x] < pos[e]
        BY <1>2, <1>3, <1>6, <1>8, <2>3 DEF InOrder
      <3>2. pos[x] < pos[m.next[x]] /\ pos[m.next[x]] <= pos[e]
        BY <1>2, <1>3, <2>3, <3>1 DEF InOrder
      <3> QED
        BY <1>6, <2>1, <2>3, <3>1, <3>2
    <2>4. CASE own[x] = h /\ pos[e] < pos[x]
      <3>1. m.next[x] = h \/ pos[x] < pos[m.next[x]]
        BY <1>2, <2>4 DEF InOrder
      <3> QED
        BY <1>3, <1>6, <1>8, <2>1, <2>4, <3>1
    <2> QED
      BY <1>6, <1>3, <2>2, <2>3, <2>4
  <1>10. Owned(r, T, o, p)
    <2>1. ASSUME NEW x \in S
          PROVE  /\ o[x] \in T
                 /\ o[o[x]] = o[x]
                 /\ p[o[x]] = 0
      <3>1. own[x] \in S /\ own[own[x]] = own[x] /\ pos[own[x]] = 0
        BY <1>2 DEF Owned
      <3>2. o[x] = l \/ o[x] = own[x]
        BY <1>3, <1>6
      <3>3. o[own[x]] = own[x]
        BY <1>6, <3>1
      <3> QED
        BY <1>6, <3>1, <3>2, <3>3
    <2>2. ASSUME NEW x \in S
          PROVE  o[r.next[x]] = o[x]
      <3>1. o[e] = l /\ o[h] = h /\ o[m.next[e]] = h
        BY <1>3, <1>6, <1>8
      <3> QED
        BY <1>6, <1>7, <1>9, <3>1
    <2>3. ASSUME NEW x \in S
          PROVE  /\ x \in Heads => o[x] = x
                 /\ x \in Nodes /\ o[x] = x => r.next[x] = x
      <3>1. x \in Heads => own[x] = x /\ pos[x] = 0
        BY <1>2 DEF Owned
      <3>2. x \in Nodes /\ o[x] = x => own[x] = x
        BY <1>6, <1>3
      <3>3. x \in Nodes /\ own[x] = x => m.next[x] = x /\ x # h /\ x # e
        BY <1>2, <1>3, ListAssumption DEF Owned
      <3> QED
        BY <1>6, <1>7, <3>1, <3>2, <3>3
    <2>4. o[r.next[l]] = l /\ l \notin Nodes
      BY <1>6, <1>7, <1>8, ListAssumption
    <2> QED
      BY <1>6, <2>1, <2>2, <2>3, <2>4 DEF Owned
  <1>11. InOrder(r, T, o, p)
    <2>1. \A x \in T : r.next[x] = o[x] \/ p[x] < p[r.next[x]]
      <3>1. ASSUME NEW x \in S \ {e, h}
            PROVE  r.next[x] = o[x] \/ p[x] < p[r.next[x]]
        <4>1. m.next[x] \in S /\ (m.next[x] = own[x] \/ pos[x] < pos[m.next[x]])
          BY <1>1, <1>2 DEF Ring, InOrder
        <4>2. CASE own[x] # h \/ pos[x] < pos[m.next[x]]
          BY <1>6, <1>7, <4>1, <4>2
        <4>3. CASE own[x] = h /\ m.next[x] = h
          BY <1>3, <1>6, <1>7, <1>8, <1>9, <4>3
        <4> QED
          BY <1>6, <4>1, <4>2, <4>3
      <3>2. r.next[e] = o[e]
        BY <1>3, <1>6, <1>7, <1>8
      <3>3. r.next[h] = o[h] \/ p[h] < p[r.next[h]]
        BY <1>3, <1>6, <1>7, <1>8
      <3>4. p[l] < p[r.next[l]]
        BY <1>6, <1>7, <1>8
      <3> QED
        BY <3>1, <3>2, <3>3, <3>4
    <2>2. \A x, y \in T : o[x] = o[y] /\ p[x] = p[y] => x = y
      <3>1. ASSUME NEW x \in S, NEW y \in S, o[x] = o[y], p[x] = p[y]
            PROVE  x = y
        <4>1. own[x] = own[y] /\ pos[x] = pos[y]
          BY <1>2, <1>3, <1>6, <3>1 DEF Owned
        <4> QED
          BY <1>2, <4>1 DEF InOrder
      <3>2. ASSUME NEW x \in S, o[x] = l
            PROVE  0 < p[x]
        BY <1>2, <1>3, <1>6, <3>2 DEF Owned
      <3> QED
        BY <1>6, <3>1, <3>2
    <2>3. ASSUME NEW x \in T, NEW y \in T, o[x] = o[y], p[x] < p[y]
          PROVE  p[x] < p[r.next[x]] /\ p[r.next[x]] <= p[y]
      <3>1. y \in S
        BY <1>6, <2>3
      <3>2. CASE x = l
        <4>1. own[y] = h /\ 0 < pos[y]
          BY <1>2, <1>3, <1>6, <2>3, <3>1, <3>2 DEF Owned
        <4>2. pos[m.next[h]] <= pos[y]
          BY <1>2, <1>3, <1>8, <3>1, <4>1 DEF InOrder
        <4> QED
          BY <1>6, <1>7, <1>8, <3>1, <3>2, <4>2
      <3>3. CASE x \in S
        <4>1. own[x] = own[y] /\ pos[x] < pos[y]
          BY <1>2, <1>3, <1>6, <2>3, <3>1, <3>3 DEF Owned
        <4>2. pos[x] < pos[m.next[x]] /\ pos[m.next[x]] <= pos[y] /\ m.next[x] \in S
          BY <1>1, <1>2, <3>1, <3>3, <4>1 DEF Ring, InOrder
        <4>3. CASE x = e
          BY <1>3, <1>6, <1>8, <2>3, <3>1, <4>1, <4>3
        <4>4. CASE x = h
          <5>1. o[y] = h /\ own[y] = h /\ 0 < pos[y]
            BY <1>3, <1>6, <1>8, <2>3, <3>1, <4>1, <4>4
          <5>2. pos[e] < pos[y]
            BY <1>3, <1>6, <3>1, <5>1
          <5>3. pos[e] < pos[m.next[e]] /\ pos[m.next[e]] <= pos[y]
            BY <1>2, <1>3, <3>1, <5>1, <5>2 DEF InOrder
          <5> QED
            BY <1>3, <1>6, <1>7, <1>8, <3>1, <4>4, <5>3
        <4>5. CASE x \notin {e, h}
          BY <1>6, <1>7, <3>1, <3>3, <4>2, <4>5
        <4> QED
          BY <4>3, <4>4, <4>5
      <3> QED
        BY <3>2, <3>3
    <2> QED
      BY <2>1, <2>2, <2>3 DEF InOrder
  <1> QED
    BY <1>1, <1>3, <1>4, <1>5, <1>10, <1>11 DEF Sound, Placed, r
\* The list of l goes between before and what is behind it.
LEMMA SpliceSound ==
  ASSUME NEW m, NEW S, Sound(m, S), NEW h \in Heads \cap S, NEW l \in Heads \cap S,
         l # h, m.next[l] # l, NEW before \in S, before = h \/ m.next[before] = h
  PROVE  Sound(__list_splice(m, l, before, m.next[before]), S \ {l})
PROOF
  <1> DEFINE after == m.next[before]
             first == m.next[l]
             last == m.prev[l]
             r == __list_splice(m, l, before, after)
             T == S \ {l}
  <1>1. m \in Memory /\ S \subseteq Item /\ Ring(m, S)
    BY DEF Sound
  <1>2. PICK own, pos : Owned(m, S, own, pos) /\ InOrder(m, S, own, pos)
    BY DEF Sound, Placed
  <1>3. /\ own[h] = h /\ own[before] = h /\ own[after] = h /\ own[l] = l
        /\ own[first] = l /\ own[last] = l
        /\ {before, after, first, last} \subseteq S /\ {first, last} \cap {l, before, after} = {}
    BY <1>1, <1>2 DEF Ring, Owned
  <1>4. /\ r \in Memory
        /\ r.next = [m.next EXCEPT ![before] = first, ![last] = after]
        /\ r.prev = [m.prev EXCEPT ![first] = before, ![after] = last]
    BY <1>1, <1>3 DEF __list_splice, Memory
  <1> DEFINE o == [x \in Item |-> IF x \in S /\ own[x] = l THEN h ELSE own[x]]
             p == [x \in Item |->
                     IF x \in S /\ own[x] = l THEN pos[x] + pos[before]
                     ELSE IF x \in S /\ own[x] = h /\ pos[before] < pos[x] THEN pos[x] + pos[last]
                     ELSE pos[x]]
  <1> HIDE DEF r
  <1>5. Ring(r, T)
    BY <1>1, <1>3, <1>4 DEF Ring, Memory
  <1>6. \A x \in S : pos[x] \in Nat
    BY <1>1, <1>2 DEF Owned
  <1>7. /\ o \in [Item -> Item] /\ p \in [Item -> Nat]
        /\ \A x \in S : /\ own[x] = l => o[x] = h /\ p[x] = pos[x] + pos[before]
                        /\ own[x] # l => o[x] = own[x]
                        /\ own[x] = h /\ pos[before] < pos[x] => p[x] = pos[x] + pos[last]
                        /\ own[x] = h /\ pos[x] <= pos[before] => p[x] = pos[x]
                        /\ own[x] \notin {l, h} => p[x] = pos[x]
    BY <1>1, <1>2, <1>3, <1>6 DEF Owned
  <1>8. /\ r.next[before] = first /\ r.next[last] = after
        /\ \A x \in S \ {before, last} : r.next[x] = m.next[x]
    BY <1>1, <1>3, <1>4 DEF Memory
  <1> HIDE DEF o, p
  <1>9. /\ pos[l] = 0 /\ pos[h] = 0
        /\ \A x \in T : own[x] = l => 0 < pos[x] /\ pos[x] <= pos[last] /\ pos[first] <= pos[x]
        /\ after = h \/ pos[before] < pos[after]
        /\ \A x \in S : own[x] = h /\ pos[before] < pos[x] => after # h /\ pos[after] <= pos[x]
    <2>1. pos[l] = 0 /\ pos[h] = 0
      BY <1>2, <1>3 DEF Owned
    <2>2. ASSUME NEW x \in T, own[x] = l
          PROVE  0 < pos[x] /\ pos[x] <= pos[last] /\ pos[first] <= pos[x]
      <3>1. pos[x] # pos[l]
        BY <1>2, <1>3, <2>2 DEF InOrder
      <3>2. 0 < pos[x]
        BY <1>6, <2>1, <3>1
      <3>3. pos[first] <= pos[x]
        BY <1>2, <1>3, <2>1, <2>2, <3>2 DEF InOrder
      <3>4. m.next[last] = l
        BY <1>1 DEF Ring
      <3>5. ~(pos[last] < pos[x])
        <4>1. pos[last] < pos[x] => pos[last] < pos[l]
          BY <1>2, <1>3, <2>2, <3>4 DEF InOrder
        <4> QED
          BY <1>3, <1>6, <2>1, <4>1
      <3> QED
        BY <1>3, <1>6, <3>2, <3>3, <3>5
    <2>3. after = h \/ pos[before] < pos[after]
      BY <1>2, <1>3 DEF InOrder
    <2>4. ASSUME NEW x \in S, own[x] = h, pos[before] < pos[x]
          PROVE  after # h /\ pos[after] <= pos[x]
      <3>1. pos[before] < pos[after] /\ pos[after] <= pos[x]
        BY <1>2, <1>3, <2>4 DEF InOrder
      <3> QED
        BY <1>3, <1>6, <2>1, <3>1
    <2> QED
      BY <2>1, <2>2, <2>3, <2>4
  <1>10. Owned(r, T, o, p)
    <2>1. ASSUME NEW x \in T
          PROVE  /\ o[x] \in T
                 /\ o[o[x]] = o[x]
                 /\ p[o[x]] = 0
      <3>1. own[x] \in S /\ own[own[x]] = own[x] /\ pos[own[x]] = 0
        BY <1>2 DEF Owned
      <3>2. pos[before] \in Nat
        BY <1>3, <1>6
      <3>3. o[h] = h /\ p[h] = 0
        BY <1>3, <1>7, <1>9, <3>2
      <3>4. CASE own[x] = l
        BY <1>7, <3>3, <3>4
      <3>5. CASE own[x] = h
        BY <1>7, <3>3, <3>5
      <3>6. CASE own[x] \notin {l, h}
        BY <1>7, <3>1, <3>6
      <3> QED
        BY <3>4, <3>5, <3>6
    <2>2. ASSUME NEW x \in T
          PROVE  o[r.next[x]] = o[x]
      <3>1. CASE x = before
        BY <1>3, <1>7, <1>8, <3>1
      <3>2. CASE x = last
        BY <1>3, <1>7, <1>8, <3>2
      <3>3. CASE x \notin {before, last}
        <4>1. m.next[x] \in S /\ own[m.next[x]] = own[x]
          BY <1>1, <1>2 DEF Ring, Owned
        <4> QED
          BY <1>7, <1>8, <3>3, <4>1
      <3> QED
        BY <3>1, <3>2, <3>3
    <2>3. ASSUME NEW x \in T
          PROVE  /\ x \in Heads => o[x] = x
                 /\ x \in Nodes /\ o[x] = x => r.next[x] = x
      <3>1. x \in Heads => own[x] = x
        BY <1>2 DEF Owned
      <3>2. x \in Nodes /\ o[x] = x => own[x] = x
        BY <1>7, ListAssumption
      <3>3. x \in Nodes /\ own[x] = x => m.next[x] = x /\ x # before /\ x # last
        BY <1>2, <1>3, ListAssumption DEF Owned
      <3> QED
        BY <1>7, <1>8, <3>1, <3>2, <3>3
    <2> QED
      BY <1>7, <2>1, <2>2, <2>3 DEF Owned
  <1>11. InOrder(r, T, o, p)
    <2>1. ASSUME NEW x \in T
          PROVE  r.next[x] = o[x] \/ p[x] < p[r.next[x]]
      <3>1. CASE x = before
        BY <1>3, <1>6, <1>7, <1>8, <1>9, <3>1
      <3>2. CASE x = last
        BY <1>3, <1>6, <1>7, <1>8, <1>9, <3>2
      <3>3. CASE x \notin {before, last}
        <4>1. /\ m.next[x] \in T /\ own[m.next[x]] = own[x]
              /\ m.next[x] = own[x] \/ pos[x] < pos[m.next[x]]
          BY <1>1, <1>2, <3>3 DEF Ring, Owned, InOrder
        <4>2. CASE own[x] = l
          BY <1>3, <1>6, <1>7, <1>8, <3>3, <4>1, <4>2
        <4>3. CASE own[x] = h
          BY <1>3, <1>6, <1>7, <1>8, <3>3, <4>1, <4>3
        <4>4. CASE own[x] \notin {l, h}
          BY <1>7, <1>8, <3>3, <4>1, <4>4
        <4> QED
          BY <4>2, <4>3, <4>4
      <3> QED
        BY <3>1, <3>2, <3>3
    <2>2. ASSUME NEW x \in T, NEW y \in T, o[x] = o[y], own[x] # own[y]
          PROVE  /\ (own[x] = l /\ own[y] = h) \/ (own[x] = h /\ own[y] = l)
                 /\ p[x] # p[y]
      <3>1. (own[x] = l /\ own[y] = h) \/ (own[x] = h /\ own[y] = l)
        <4>1. /\ own[x] = l => o[x] = h
              /\ own[x] # l => o[x] = own[x]
              /\ own[y] = l => o[y] = h
              /\ own[y] # l => o[y] = own[y]
          BY <1>7
        <4> QED
          BY <2>2, <4>1
      <3>2. CASE own[x] = l
        BY <1>3, <1>6, <1>7, <1>9, <3>1, <3>2
      <3>3. CASE own[y] = l
        BY <1>3, <1>6, <1>7, <1>9, <3>1, <3>3
      <3> QED
        BY <3>1, <3>2, <3>3
    <2>3. ASSUME NEW x \in T, NEW y \in T, own[x] = own[y]
          PROVE  p[x] < p[y] <=> pos[x] < pos[y]
      <3> pos[x] \in Nat /\ pos[y] \in Nat /\ pos[before] \in Nat /\ pos[last] \in Nat
        BY <1>3, <1>6
      <3>1. CASE own[x] = l
        <4>1. p[x] = pos[x] + pos[before] /\ p[y] = pos[y] + pos[before]
          BY <1>7, <2>3, <3>1
        <4> QED
          BY <4>1
      <3>2. CASE own[x] = h
        <4>1. /\ pos[before] < pos[x] => p[x] = pos[x] + pos[last]
              /\ pos[before] < pos[y] => p[y] = pos[y] + pos[last]
              /\ pos[x] <= pos[before] => p[x] = pos[x]
              /\ pos[y] <= pos[before] => p[y] = pos[y]
          BY <1>7, <2>3, <3>2
        <4> QED
          BY <4>1
      <3>3. CASE own[x] \notin {l, h}
        BY <1>7, <2>3, <3>3
      <3> QED
        BY <3>1, <3>2, <3>3
    <2>4. ASSUME NEW x \in T, NEW y \in T, o[x] = o[y], p[x] = p[y]
          PROVE  x = y
      <3>1. own[x] = own[y]
        BY <2>2, <2>4
      <3>2. pos[x] = pos[y]
        <4>1. p[x] \in Nat /\ p[y] \in Nat
          BY <1>1, <1>7
        <4>2. ~(p[x] < p[y]) /\ ~(p[y] < p[x])
          BY <2>4, <4>1
        <4>3. ~(pos[x] < pos[y]) /\ ~(pos[y] < pos[x])
          BY <2>3, <3>1, <4>2
        <4> QED
          BY <1>6, <4>3
      <3> QED
        BY <1>2, <3>1, <3>2 DEF InOrder
    <2>5. ASSUME NEW x \in T, NEW y \in T, o[x] = o[y], p[x] < p[y]
          PROVE  p[x] < p[r.next[x]] /\ p[r.next[x]] <= p[y]
      <3> DEFINE z == r.next[x]
      <3>1. z \in T /\ p[x] \in Nat /\ p[y] \in Nat /\ p[z] \in Nat
        BY <1>1, <1>5, <1>7 DEF Ring
      <3>2. CASE x \notin {before, last}
        <4>1. z = m.next[x] /\ z \in T /\ own[z] = own[x]
          BY <1>1, <1>2, <1>8, <3>1, <3>2 DEF Owned
        <4>2. CASE own[x] = own[y]
          <5>1. pos[x] < pos[y]
            BY <2>3, <2>5, <4>2
          <5>2. pos[x] < pos[z] /\ ~(pos[y] < pos[z])
            BY <1>2, <1>6, <4>1, <4>2, <5>1 DEF InOrder
          <5>3. p[x] < p[z] /\ ~(p[y] < p[z])
            BY <2>3, <4>1, <4>2, <5>2
          <5> QED
            BY <3>1, <5>3
        <4>3. CASE own[x] = l /\ own[y] = h
          <5>1. p[x] = pos[x] + pos[before] /\ p[z] = pos[z] + pos[before]
            BY <1>7, <4>1, <4>3
          <5>2. pos[x] < pos[last]
            <6>1. pos[x] # pos[last] /\ pos[x] <= pos[last]
              BY <1>2, <1>3, <1>9, <3>2, <4>3 DEF InOrder
            <6> QED
              BY <1>3, <1>6, <6>1
          <5>3. pos[x] < pos[z] /\ pos[z] <= pos[last]
            BY <1>2, <1>3, <4>1, <4>3, <5>2 DEF InOrder
          <5>4. p[y] = pos[y] + pos[last] /\ pos[before] < pos[y]
            BY <1>3, <1>6, <1>7, <2>5, <4>3, <5>1
          <5> QED
            BY <1>3, <1>6, <4>1, <5>1, <5>3, <5>4
        <4>4. CASE own[x] = h /\ own[y] = l
          <5>1. p[y] = pos[y] + pos[before] /\ pos[y] <= pos[last]
            BY <1>7, <1>9, <4>4
          <5>2. pos[x] < pos[before]
            <6>1. pos[x] # pos[before]
              BY <1>2, <1>3, <3>2, <4>4 DEF InOrder
            <6>2. ~(pos[before] < pos[x])
              BY <1>3, <1>6, <1>7, <2>5, <4>4, <5>1
            <6> QED
              BY <1>3, <1>6, <6>1, <6>2
          <5>3. pos[x] < pos[z] /\ pos[z] <= pos[before]
            BY <1>2, <1>3, <4>1, <4>4, <5>2 DEF InOrder
          <5>4. p[x] = pos[x] /\ p[z] = pos[z]
            BY <1>3, <1>6, <1>7, <4>1, <4>4, <5>2, <5>3
          <5> QED
            BY <1>3, <1>6, <4>1, <5>1, <5>3, <5>4
        <4> QED
          BY <2>2, <2>5, <4>2, <4>3, <4>4
      <3>3. CASE x = before
        <4>1. z = first /\ p[x] = pos[before] /\ p[z] = pos[first] + pos[before] /\ 0 < pos[first]
          BY <1>3, <1>6, <1>7, <1>8, <1>9, <3>3
        <4>2. own[y] = l \/ own[y] = h
          BY <1>3, <1>7, <2>5, <3>3
        <4>3. CASE own[y] = l
          <5>1. p[y] = pos[y] + pos[before] /\ pos[first] <= pos[y]
            BY <1>7, <1>9, <4>3
          <5> QED
            BY <1>3, <1>6, <4>1, <5>1
        <4>4. CASE own[y] = h
          <5>1. pos[before] < pos[y]
            BY <1>3, <2>3, <2>5, <3>3, <4>4
          <5>2. p[y] = pos[y] + pos[last] /\ pos[first] <= pos[last]
            BY <1>3, <1>7, <1>9, <4>4, <5>1
          <5> QED
            BY <1>3, <1>6, <4>1, <5>1, <5>2
        <4> QED
          BY <4>2, <4>3, <4>4
      <3>4. CASE x = last
        <4>1. z = after /\ p[x] = pos[last] + pos[before]
          BY <1>3, <1>7, <1>8, <3>4
        <4>2. own[y] = l \/ own[y] = h
          BY <1>3, <1>7, <2>5, <3>4
        <4>3. own[y] # l
          <5>1. own[y] = l => pos[last] < pos[y]
            BY <1>3, <2>3, <2>5, <3>4
          <5> QED
            BY <1>3, <1>6, <1>9, <5>1
        <4>4. pos[before] < pos[y] /\ p[y] = pos[y] + pos[last]
          BY <1>3, <1>6, <1>7, <2>5, <4>1, <4>2, <4>3
        <4>5. after # h /\ pos[before] < pos[after] /\ pos[after] <= pos[y]
          BY <1>9, <4>2, <4>3, <4>4
        <4>6. p[z] = pos[after] + pos[last]
          BY <1>3, <1>7, <4>1, <4>5
        <4> QED
          BY <1>3, <1>6, <4>1, <4>4, <4>5, <4>6
      <3> QED
        BY <3>2, <3>3, <3>4
    <2> QED
      BY <2>1, <2>4, <2>5 DEF InOrder
  <1> QED
    BY <1>1, <1>4, <1>5, <1>10, <1>11 DEF Sound, Placed, r
-----------------------------------------------------------------------------
(* The invariant *)

\* What may be linked can be forgotten: the rest is sound without it.
LEMMA DetachedSound ==
  ASSUME ListInv, NEW n \in Nodes, n \in Detached
  PROVE  Sound(link, Live \ {n})
PROOF
  <1>1. Sound(link, Live)
    BY DEF ListInv
  <1>2. CASE n \in stale
    <2>1. Live \ {n} = Live
      BY <1>2 DEF Live
    <2> QED
      BY <1>1, <2>1
  <1>3. CASE n \notin stale
    <2>1. n \in Live /\ link.next[n] = n
      BY <1>3 DEF Detached, Live, Item, list_empty
    <2> QED
      BY <1>1, <2>1, DropSound
  <1> QED
    BY <1>2, <1>3

\* What is to receive a cut can be forgotten.
LEMMA ReceiverSound ==
  ASSUME ListInv, NEW l, Receives(l)
  PROVE  l \in Heads /\ Sound(link, Live \ {l})
PROOF
  <1>1. Sound(link, Live) /\ l \in Heads
    BY DEF ListInv, Receives
  <1>2. CASE l \in stale
    <2>1. Live \ {l} = Live
      BY <1>2 DEF Live
    <2> QED
      BY <1>1, <2>1
  <1>3. CASE l \notin stale
    <2>1. l \in Live /\ link.next[l] = l
      BY <1>1, <1>3 DEF Receives, Live, Item, list_empty
    <2> QED
      BY <1>1, <2>1, DropSound
  <1> QED
    BY <1>1, <1>2, <1>3

\* At first every item in use points to itself.
LEMMA InitListInv ==
  ASSUME Init
  PROVE  ListInv
PROOF
  <1>1. stale \subseteq Item /\ link \in Memory
    BY DEF Init, Memory, Item
  <1>2. \A x \in Live : link.next[x] = x /\ link.prev[x] = x
    BY DEF Init, Live
  <1>3. Ring(link, Live)
    BY <1>2 DEF Ring
  <1> DEFINE own == [x \in Item |-> x]
             pos == [x \in Item |-> 0]
  <1>4. Owned(link, Live, own, pos) /\ InOrder(link, Live, own, pos)
    BY <1>2 DEF Owned, InOrder, Live
  <1> QED
    BY <1>1, <1>3, <1>4 DEF ListInv, Sound, Placed, Live

\* Every operation on entries keeps the links sound.
LEMMA EntryOpSound ==
  ASSUME ListInv, EntryOp
  PROVE  ListInv'
PROOF
  <1> USE ListAssumption
  <1>1. stale \subseteq Item /\ Sound(link, Live)
    BY DEF ListInv
  <1>2. Ring(link, Live) /\ link \in Memory
    BY <1>1 DEF Sound
  <1>3. ASSUME NEW x \in Item, Initialise(x)
        PROVE  ListInv'
    <2>1. x \in Item \ Live /\ Live' = Live \cup {x}
      BY <1>3 DEF Initialise, Live
    <2>2. Sound(INIT_LIST_HEAD(link, x), Live \cup {x})
      BY <1>1, <2>1, InitSound
    <2> QED
      BY <1>1, <1>3, <2>1, <2>2 DEF ListInv, Initialise
  <1>4. ASSUME NEW n \in Nodes, Delete(n)
        PROVE  ListInv'
    <2>1. n \in Nodes \cap Live /\ Live' = Live \ {n}
      BY <1>4 DEF Delete, Linked, Live, Item
    <2> DEFINE d == __list_del_entry(link, n)
               r == list_del(link, n)
    <2>2. Sound(d, Live \ {n})
      BY <1>1, <2>1, DelSound
    <2>3. /\ r \in Memory
          /\ \A x \in Live \ {n} : r.next[x] = d.next[x] /\ r.prev[x] = d.prev[x]
      <3>1. d \in Memory
        BY <2>2 DEF Sound
      <3> QED
        BY <3>1 DEF list_del, Memory, Live
    <2> HIDE DEF d, r
    <2>4. Sound(r, Live \ {n})
      BY <2>2, <2>3, PoisonSound
    <2> QED
      BY <1>1, <1>4, <2>1, <2>4 DEF ListInv, Delete, r, Item
  <1>5. ASSUME NEW n \in Nodes, DeleteInit(n)
        PROVE  ListInv'
    <2>1. n \in Nodes \cap Live /\ Live' = Live
      BY <1>5 DEF DeleteInit, Linked, Live, Item
    <2>2. Sound(__list_del_entry(link, n), Live \ {n})
      BY <1>1, <2>1, DelSound
    <2>3. Sound(list_del_init(link, n), (Live \ {n}) \cup {n})
      BY <2>1, <2>2, InitSound DEF list_del_init, Item
    <2>4. (Live \ {n}) \cup {n} = Live
      BY <2>1
    <2> QED
      BY <1>1, <1>5, <2>1, <2>3, <2>4 DEF ListInv, DeleteInit
  <1>6. ASSUME NEW n \in Nodes, NEW h \in Heads, Add(n, h) \/ AddTail(n, h)
        PROVE  ListInv'
    <2> DEFINE S == Live \ {n}
    <2>1. /\ n \in Detached /\ h \in Heads \cap S /\ n \in Nodes \ S
          /\ Live' = S \cup {n} /\ stale' \subseteq Item
      BY <1>1, <1>6 DEF Add, AddTail, Usable, Live, Item
    <2>2. Sound(link, S)
      BY <2>1, DetachedSound
    <2> HIDE DEF S
    <2>3. link.prev[h] \in S /\ link.next[link.prev[h]] = h
      BY <2>1, <2>2 DEF Sound, Ring
    <2>4. Sound(__list_add(link, n, h, link.next[h]), S \cup {n})
      BY <2>1, <2>2, AddSound
    <2>5. Sound(__list_add(link, n, link.prev[h], link.next[link.prev[h]]), S \cup {n})
      BY <2>1, <2>2, <2>3, AddSound
    <2> QED
      BY <1>6, <2>1, <2>3, <2>4, <2>5 DEF ListInv, Add, AddTail, list_add, list_add_tail
  <1>7. ASSUME NEW n \in Nodes, NEW h \in Heads, Move(n, h) \/ MoveTail(n, h)
        PROVE  ListInv'
    <2>1. n \in Nodes \cap Live /\ h \in Heads \cap Live /\ Live' = Live
      BY <1>7 DEF Move, MoveTail, Linked, Usable, Live, Item
    <2>2. Sound(list_move(link, n, h), Live) /\ Sound(list_move_tail(link, n, h), Live)
      BY <1>1, <2>1, MoveSound
    <2> QED
      BY <1>1, <1>7, <2>1, <2>2 DEF ListInv, Move, MoveTail
  <1>8. ASSUME NEW old \in Nodes, NEW new \in Nodes, Replace(old, new) \/ ReplaceInit(old, new)
        PROVE  ListInv'
    <2> DEFINE S == Live \ {new}
               T == (S \ {old}) \cup {new}
    <2>1. /\ old \in Linked /\ new \in Detached /\ link.next[old] # old
      BY <1>8 DEF Replace, ReplaceInit, list_empty
    <2>2. old # new /\ old \in Nodes \cap S /\ new \in Nodes \ S
      BY <2>1 DEF Linked, Detached, list_empty, Live, Item
    <2>3. Sound(link, S)
      BY <2>1, DetachedSound
    <2>4. Sound(list_replace(link, old, new), T)
      <3> HIDE DEF S
      <3> QED
        BY <2>1, <2>2, <2>3, ReplaceSound
    <2>5. CASE Replace(old, new)
      <3>1. Live' = T
        BY <1>1, <2>2, <2>5 DEF Replace, Live, Item
      <3> QED
        BY <1>1, <2>4, <2>5, <3>1 DEF ListInv, Replace, Item
    <2>6. CASE ReplaceInit(old, new)
      <3>1. old \in Item \ T /\ Live' = T \cup {old}
        BY <1>1, <2>2, <2>6 DEF ReplaceInit, Live, Item
      <3>2. Sound(list_replace_init(link, old, new), T \cup {old})
        <4> HIDE DEF T
        <4> QED
          BY <2>4, <3>1, InitSound DEF list_replace_init
      <3> QED
        BY <1>1, <2>6, <3>1, <3>2 DEF ListInv, ReplaceInit
    <2> QED
      BY <1>8, <2>5, <2>6
  <1> QED
    BY <1>3, <1>4, <1>5, <1>6, <1>7, <1>8 DEF EntryOp

\* Every operation on whole lists keeps the links sound.
LEMMA ListOpSound ==
  ASSUME ListInv, ListOp
  PROVE  ListInv'
PROOF
  <1> USE ListAssumption
  <1>1. stale \subseteq Item /\ Sound(link, Live)
    BY DEF ListInv
  <1>2. Ring(link, Live) /\ link \in Memory
    BY <1>1 DEF Sound
  <1>3. ASSUME NEW h \in Heads, Rotate(h)
        PROVE  ListInv'
    <2>1. h \in Heads \cap Live /\ Live' = Live
      BY <1>3 DEF Rotate, Usable, Live, Item
    <2>2. CASE link.next[h] = h
      BY <1>1, <1>3, <2>1, <2>2 DEF ListInv, Rotate, list_rotate_left, list_empty
    <2>3. CASE link.next[h] # h
      <3>1. link.next[h] \in Nodes \cap Live
        <4>1. PICK own, pos : Owned(link, Live, own, pos)
          BY <1>1 DEF Sound, Placed
        <4>2. own[h] = h /\ own[link.next[h]] = h /\ link.next[h] \in Live
          BY <1>2, <2>1, <4>1 DEF Owned, Ring
        <4> QED
          BY <2>3, <4>1, <4>2 DEF Owned, Live, Item
      <3>2. Sound(list_move_tail(link, link.next[h], h), Live)
        BY <1>1, <2>1, <3>1, MoveSound
      <3> QED
        BY <1>1, <1>3, <2>1, <2>3, <3>2 DEF ListInv, Rotate, list_rotate_left, list_empty
    <2> QED
      BY <2>2, <2>3
  <1>4. ASSUME NEW l \in Heads, NEW h \in Heads, Splice(l, h) \/ SpliceInit(l, h)
        PROVE  ListInv'
    <2>1. l \in Heads \cap Live /\ h \in Heads \cap Live /\ l # h
      BY <1>4 DEF Splice, SpliceInit, Usable, Live, Item
    <2>2. CASE link.next[l] = l
      <3>1. link' = link /\ stale' = stale /\ Live' = Live
        BY <1>4, <2>2 DEF Splice, SpliceInit, Live, list_empty, list_splice, list_splice_tail,
             list_splice_init, list_splice_tail_init
      <3> QED
        BY <1>1, <3>1 DEF ListInv
    <2>3. CASE link.next[l] # l
      <3> DEFINE S == Live \ {l}
      <3>1. link.prev[h] \in Live /\ link.next[link.prev[h]] = h
        BY <1>2, <2>1 DEF Ring
      <3>2. Sound(list_splice(link, l, h), S)
        BY <1>1, <2>1, <2>3, SpliceSound DEF list_splice, list_empty
      <3>3. Sound(list_splice_tail(link, l, h), S)
        <4>1. Sound(__list_splice(link, l, link.prev[h], link.next[link.prev[h]]), S)
          BY <1>1, <2>1, <2>3, <3>1, SpliceSound
        <4> QED
          BY <2>3, <3>1, <4>1 DEF list_splice_tail, list_empty
      <3>4. CASE Splice(l, h)
        <4>1. Live' = S /\ stale' \subseteq Item
          BY <1>1, <2>1, <2>3, <3>4 DEF Splice, Live, Item, list_empty
        <4> QED
          BY <3>2, <3>3, <3>4, <4>1 DEF ListInv, Splice
      <3>5. CASE SpliceInit(l, h)
        <4>1. l \in Item \ S /\ S \cup {l} = Live /\ Live' = Live
          BY <2>1, <3>5 DEF SpliceInit, Live
        <4>2. Sound(list_splice_init(link, l, h), S \cup {l})
          <5> HIDE DEF S
          <5> QED
            BY <2>3, <3>2, <4>1, InitSound DEF list_splice_init, list_empty
        <4>3. Sound(list_splice_tail_init(link, l, h), S \cup {l})
          <5> HIDE DEF S
          <5> QED
            BY <2>3, <3>3, <4>1, InitSound DEF list_splice_tail_init, list_empty
        <4> QED
          BY <1>1, <3>5, <4>1, <4>2, <4>3 DEF ListInv, SpliceInit
      <3> QED
        BY <1>4, <3>4, <3>5
    <2> QED
      BY <2>2, <2>3
  <1>5. ASSUME NEW l \in Heads, NEW h \in Heads, NEW entry \in Item,
               CutPosition(l, h, entry) \/ CutBefore(l, h, entry)
        PROVE  ListInv'
    <2> DEFINE S == Live \ {l}
    <2>1. Receives(l) /\ h \in Usable /\ h # l /\ entry \in Reach(h)
      BY <1>5 DEF CutPosition, CutBefore
    <2>2. l \in Heads \ S /\ l \in Item \ S /\ h \in Heads \cap S /\ Sound(link, S)
      BY <2>1, ReceiverSound DEF Usable, Live, Item
    <2>3. PICK own, pos : Owned(link, S, own, pos) /\ InOrder(link, S, own, pos)
      BY <2>2 DEF Sound, Placed
    <2>4. entry \in From(link, Live, h)
      BY <2>1 DEF Reach, From
    <2>5. S \in SUBSET Live /\ Ring(link, S)
      BY <2>2 DEF Sound
    <2>6. entry \in S /\ own[entry] = h
      <3> HIDE DEF S
      <3> QED
        BY <2>2, <2>3, <2>4, <2>5, ReachedIsOwned
    <2>7. Sound(INIT_LIST_HEAD(link, l), S \cup {l})
      <3> HIDE DEF S
      <3> QED
        BY <2>2, InitSound
    <2>8. ASSUME stale' = stale \ {l}
          PROVE  Live' = S \cup {l} /\ stale' \subseteq Item
      BY <1>1, <2>2, <2>8 DEF Live
    <2> HIDE DEF S
    <2>9. CASE CutPosition(l, h, entry)
      <3>1. CASE NothingToCut(link, h, entry)
        <4>1. link' = link /\ stale' = stale /\ Live' = Live
          BY <2>9, <3>1 DEF CutPosition, list_cut_position, Live
        <4> QED
          BY <1>1, <4>1 DEF ListInv
      <3>2. CASE ~NothingToCut(link, h, entry)
        <4>1. stale' = stale \ {l}
          BY <2>9, <3>2 DEF CutPosition
        <4>2. CASE entry = h
          <5>1. link' = INIT_LIST_HEAD(link, l)
            BY <2>9, <3>2, <4>2 DEF CutPosition, list_cut_position
          <5> QED
            BY <2>7, <2>8, <4>1, <5>1 DEF ListInv
        <4>3. CASE entry # h
          <5>1. link' = __list_cut_position(link, l, h, entry)
            BY <2>9, <3>2, <4>3 DEF CutPosition, list_cut_position
          <5>2. Sound(__list_cut_position(link, l, h, entry), S \cup {l})
            BY <2>2, <2>3, <2>6, <4>3, CutSound
          <5> QED
            BY <2>8, <4>1, <5>1, <5>2 DEF ListInv
        <4> QED
          BY <4>2, <4>3
      <3> QED
        BY <3>1, <3>2
    <2>10. CASE CutBefore(l, h, entry)
      <3>1. stale' = stale \ {l} /\ link' = list_cut_before(link, l, h, entry)
        BY <2>10 DEF CutBefore
      <3>2. CASE link.next[h] = entry
        <4>1. link' = INIT_LIST_HEAD(link, l)
          BY <3>1, <3>2 DEF list_cut_before
        <4> QED
          BY <2>7, <2>8, <3>1, <4>1 DEF ListInv
      <3>3. CASE link.next[h] # entry
        <4> DEFINE last == link.prev[entry]
        <4>1. last \in S /\ link.next[last] = entry /\ own[last] = h /\ last # h
          BY <2>3, <2>5, <2>6, <3>3 DEF Ring, Owned
        <4>2. Sound(__list_cut_position(link, l, h, last), S \cup {l})
          <5> HIDE DEF last
          <5> QED
            BY <2>2, <2>3, <4>1, CutSound
        <4>3. list_cut_before(link, l, h, entry) = __list_cut_position(link, l, h, last)
          <5>1. l # last /\ l # entry /\ l # h
            BY <2>2, <2>6, <4>1
          <5> QED
            BY <1>2, <2>2, <2>6, <3>3, <4>1, <5>1
               DEF list_cut_before, __list_cut_position, Memory
        <4> QED
          BY <2>8, <3>1, <4>2, <4>3 DEF ListInv
      <3> QED
        BY <3>2, <3>3
    <2> QED
      BY <1>5, <2>9, <2>10
  <1> QED
    BY <1>3, <1>4, <1>5 DEF ListOp

\* A loop writes no link.
LEMMA WalkSound ==
  ASSUME ListInv, UNCHANGED <<link, stale>>
  PROVE  ListInv'
BY DEF ListInv, Live

\* No operation disturbs it, and the loops write nothing.
LEMMA NextSound ==
  ASSUME ListInv, [Next]_vars
  PROVE  ListInv'
PROOF
  <1>1. CASE EntryOp
    BY <1>1, EntryOpSound
  <1>2. CASE ListOp
    BY <1>2, ListOpSound
  <1>3. ASSUME NEW kind, NEW h, Start(kind, h)
        PROVE  ListInv'
    BY <1>3, WalkSound DEF Start
  <1>4. CASE Advance \/ Stop \/ UNCHANGED vars
    BY <1>4, WalkSound DEF Advance, Stop, vars
  <1> QED
    BY <1>1, <1>2, <1>3, <1>4 DEF Next

\* What the links of items in use point to is in use.
LEMMA InvImpliesTypeOK ==
  ListInv => TypeOK
BY DEF ListInv, Sound, Ring, TypeOK

\* An item has one owner, so it is reached from one head only.
LEMMA InvImpliesWellLinked ==
  ASSUME ListInv
  PROVE  WellLinked
PROOF
  <1>1. Ring(link, Live) /\ Live \in SUBSET Live
    BY DEF ListInv, Sound
  <1>2. PICK own, pos : Owned(link, Live, own, pos)
    BY DEF ListInv, Sound, Placed
  <1>3. ASSUME NEW g \in Usable, NEW h \in Usable, NEW x \in Reach(g) \cap Reach(h)
        PROVE  g = h
    <2>1. x \in From(link, Live, g) /\ x \in From(link, Live, h)
      BY DEF Reach, From
    <2>2. g \in Heads \cap Live /\ h \in Heads \cap Live
      BY DEF Usable, Live, Item
    <2>3. own[x] = g /\ own[x] = h
      BY <1>1, <1>2, <2>1, <2>2, ReachedIsOwned
    <2> QED
      BY <2>3
  <1>4. ForthAndBack
    BY <1>1 DEF ForthAndBack, Ring, list_empty, list_empty_careful
  <1>5. ASSUME NEW g \in Usable, NEW h \in Usable, g # h
        PROVE  Reach(g) \cap Reach(h) = {}
    BY <1>3, <1>5
  <1>6. Apart
    BY <1>5 DEF Apart
  <1> QED
    BY <1>4, <1>6 DEF WellLinked

-----------------------------------------------------------------------------
(* The links as sequences *)

\* at in Along.
IsAlong(at, follow, head) ==
  at = [k \in Nat |-> IF k = 0 THEN head ELSE follow[at[k - 1]]]

\* A pointer that leads to no item is not followed.
LEMMA AlongSteps ==
  ASSUME NEW f \in [Item -> Item \cup {LIST_POISON1, LIST_POISON2}], NEW h \in Item
  PROVE  /\ Along(f, h)[0] = h
         /\ \A k \in Nat : Along(f, h)[k] \in Item =>
                             Along(f, h)[k + 1] = f[Along(f, h)[k]]
<1> DEFINE D == Item \cup {LIST_POISON1, LIST_POISON2}
           follow == [x \in D |-> IF x \in Item THEN f[x] ELSE x]
           at == CHOOSE g : IsAlong(g, follow, h)
<1>1. Along(f, h) = at
  BY Zenon DEF Along, IsAlong
<1>2. follow \in [D -> D] /\ \A x \in Item : follow[x] = f[x]
  OBVIOUS
<1> HIDE DEF follow
<1>3. \E g : IsAlong(g, follow, h)
  <2> DEFINE F == [k \in Nat |-> follow]
  <2>1. F \in [Nat -> [D -> D]] /\ h \in D
    BY <1>2
  <2>2. \A k \in Nat : F[k] = follow
    OBVIOUS
  <2> HIDE DEF F
  <2>3. PICK g : IsLoop(g, F, h)
    BY <2>1, LoopExists
  <2>4. IsAlong(g, follow, h)
    <3>1. \A k \in Nat \ {0} : k - 1 \in Nat /\ F[k][g[k - 1]] = follow[g[k - 1]]
      BY <2>2
    <3> QED BY <2>3, <3>1 DEF IsLoop, IsAlong
  <2> QED BY <2>4
<1>4. IsAlong(at, follow, h)
  BY <1>3
<1> HIDE DEF at
<1>5. at[0] = h /\ \A k \in Nat : at[k + 1] = follow[at[k]]
  BY <1>4 DEF IsAlong
<1> QED BY <1>1, <1>2, <1>5

\* What is at place k of the list s of h, where the head is in front of the
\* first entry and behind the last.
Around(h, s, k) == IF k \in 1 .. Len(s) THEN s[k] ELSE h

\* f leads from h along s back to h.
Threads(f, h, s) ==
  /\ s \in Seq(Nodes)
  /\ IsInjective(s)
  /\ \A k \in 0 .. Len(s) : f[Around(h, s, k)] = Around(h, s, k + 1)

\* What Around() is, from the head round to the head.
LEMMA AroundFacts ==
  ASSUME NEW h \in Heads, NEW s \in Seq(Nodes)
  PROVE  /\ Len(s) \in Nat /\ DOMAIN s = 1 .. Len(s)
         /\ Around(h, s, 0) = h /\ Around(h, s, Len(s) + 1) = h
         /\ \A k \in 1 .. Len(s) :
              Around(h, s, k) = s[k] /\ s[k] \in Nodes /\ s[k] # h /\ s[k] \in ToSet(s)
         /\ \A k \in 1 .. Len(s) : Around(h, s, k) # h
<1>1. Len(s) \in Nat /\ DOMAIN s = 1 .. Len(s)
  BY LenProperties
<1>2. \A k \in 1 .. Len(s) : s[k] \in Nodes /\ s[k] # h /\ s[k] \in ToSet(s)
  BY <1>1, Entry, ListAssumption
<1> QED BY <1>1, <1>2 DEF Around

\* Then s is what Entries() reads off.
LEMMA ChainIs ==
  ASSUME NEW f \in [Item -> Item \cup {LIST_POISON1, LIST_POISON2}], NEW h \in Heads,
         NEW s, Threads(f, h, s)
  PROVE  Chain(f, h) = s
<1> DEFINE at == Along(f, h)
           n == Len(s)
           N == Cardinality(Nodes)
           Q == {k \in 1 .. N : \A j \in 1 .. k : at[j] # h}
           T == {k \in Nat : k <= n + 1 => at[k] = Around(h, s, k)}
<1>0. s \in Seq(Nodes) /\ IsInjective(s)
  BY DEF Threads
<1>1. /\ n \in Nat /\ DOMAIN s = 1 .. n
      /\ Around(h, s, 0) = h /\ Around(h, s, n + 1) = h
      /\ \A k \in 1 .. n : Around(h, s, k) = s[k] /\ s[k] \in Nodes /\ s[k] # h
  BY <1>0, AroundFacts
<1>2. at[0] = h /\ \A k \in Nat : at[k] \in Item => at[k + 1] = f[at[k]]
  BY AlongSteps DEF Item
<1>3. \A k \in 0 .. n : f[Around(h, s, k)] = Around(h, s, k + 1)
  BY DEF Threads
<1> HIDE DEF at, n
<1>4. \A k \in 0 .. n + 1 : at[k] = Around(h, s, k)
  <2>1. 0 \in T
    BY <1>1, <1>2
  <2>2. ASSUME NEW k \in Nat, k \in T PROVE k + 1 \in T
    <3> SUFFICES ASSUME k + 1 <= n + 1 PROVE at[k + 1] = Around(h, s, k + 1)
      OBVIOUS
    <3>1. at[k] = Around(h, s, k) /\ k \in 0 .. n
      BY <1>1, <2>2
    <3>2. at[k] \in Item
      <4>1. CASE k = 0
        BY <1>1, <3>1, <4>1 DEF Item
      <4>2. CASE k # 0
        <5>1. k \in 1 .. n
          BY <3>1, <4>2
        <5> QED BY <1>1, <3>1, <5>1 DEF Item
      <4> QED BY <4>1, <4>2
    <3>3. at[k + 1] = f[at[k]]
      BY <1>2, <3>2
    <3> QED BY <1>3, <3>1, <3>3
  <2> HIDE DEF T
  <2>3. Nat \subseteq T
    BY <2>1, <2>2, SetInduction
  <2> QED BY <1>1, <2>3 DEF T
<1>5. n <= N /\ N \in Nat
  <2>1. s \in Injection(1 .. n, Nodes)
    <3>1. s \in [1 .. n -> Nodes]
      BY <1>0, <1>1
    <3> QED BY <1>0, <3>1 DEF Injection
  <2>2. Cardinality(1 .. n) = n
    BY <1>1, FS_Interval
  <2> QED BY <2>1, <2>2, FS_Injection, FS_CardinalityType, ListAssumption
<1>6. Q = 1 .. n
  <2>1. ASSUME NEW k \in 1 .. n PROVE k \in Q
    <3>1. k \in 1 .. N
      BY <1>1, <1>5
    <3>2. ASSUME NEW j \in 1 .. k PROVE at[j] # h
      <4>1. j \in 1 .. n /\ j \in 0 .. n + 1
        BY <1>1
      <4> QED BY <1>1, <1>4, <4>1
    <3> QED BY <3>1, <3>2
  <2>2. ASSUME NEW k \in Q PROVE k \in 1 .. n
    <3>1. at[n + 1] = h
      BY <1>1, <1>4
    <3>2. ~(n + 1 \in 1 .. k)
      BY <3>1
    <3> QED BY <1>1, <3>2
  <2> QED BY <2>1, <2>2
<1>7. Cardinality(Q) = n
  <2> HIDE DEF Q
  <2> QED BY <1>1, <1>6, FS_Interval
<1>8. [k \in 1 .. n |-> at[k]] = s
  <2>1. \A k \in 1 .. n : at[k] = s[k]
    BY <1>1, <1>4
  <2>2. s = [k \in 1 .. n |-> s[k]]
    BY <1>0, <1>1
  <2> QED BY <2>1, <2>2
<1>9. Chain(f, h) = [k \in 1 .. Cardinality(Q) |-> at[k]]
  BY DEF Chain, at
<1> QED BY <1>7, <1>8, <1>9

\* at is what is reached from h in so many steps, all of it in S and owned by h.
Follows(at, m, S, own, h) ==
  \A k \in Nat : at[k] \in S /\ own[at[k]] = h /\ at[k + 1] = m.next[at[k]]

\* Until it is back at the head, a loop comes by no entry twice: the places of
\* what it comes by rise.
LEMMA Rising ==
  ASSUME NEW m, NEW S, Ring(m, S), NEW own, NEW pos, Owned(m, S, own, pos),
         InOrder(m, S, own, pos), S \subseteq Item,
         NEW h \in Heads \cap S, NEW at, Follows(at, m, S, own, h),
         NEW n \in Nat, \A k \in 1 .. n : at[k] # h
  PROVE  \A j, k \in 0 .. n : j < k => pos[at[j]] < pos[at[k]]
<1>0. /\ \A k \in Nat : at[k] \in S /\ own[at[k]] = h /\ at[k + 1] = m.next[at[k]]
      /\ \A x \in S : pos[x] \in Nat
  BY DEF Follows, Owned
<1> DEFINE T == {k \in Nat : k <= n => \A j \in 0 .. k - 1 : pos[at[j]] < pos[at[k]]}
<1>1. 0 \in T
  OBVIOUS
<1>2. ASSUME NEW k \in Nat, k \in T PROVE k + 1 \in T
  <2> SUFFICES ASSUME k + 1 <= n, NEW j \in 0 .. k
               PROVE  pos[at[j]] < pos[at[k + 1]]
    OBVIOUS
  <2>1. at[k] \in S /\ own[at[k]] = h /\ at[k + 1] = m.next[at[k]] /\ at[k + 1] # h
    BY <1>0
  <2>2. pos[at[k]] < pos[at[k + 1]]
    BY <2>1 DEF InOrder
  <2>3. \A i \in Nat : pos[at[i]] \in Nat
    BY <1>0
  <2>4. CASE j = k
    BY <2>2, <2>4
  <2>5. CASE j # k
    <3>1. pos[at[j]] < pos[at[k]]
      BY <1>2, <2>5
    <3> QED BY <2>2, <2>3, <3>1
  <2> QED BY <2>4, <2>5
<1> HIDE DEF T
<1>3. Nat \subseteq T
  BY <1>1, <1>2, SetInduction
<1>4. \A k \in 0 .. n : \A j \in 0 .. k - 1 : pos[at[j]] < pos[at[k]]
  BY <1>3 DEF T
<1> QED BY <1>4

\* Every head anchors a sequence: the entries it owns, each once.
LEMMA ThreadExists ==
  ASSUME NEW m, NEW S, Sound(m, S), NEW own, NEW pos,
         Owned(m, S, own, pos), InOrder(m, S, own, pos), NEW h \in Heads \cap S
  PROVE  \E s : /\ Threads(m.next, h, s)
                /\ \A n \in Nodes : n \in ToSet(s) <=> n \in S /\ own[n] = h
<1> DEFINE at == Along(m.next, h)
           N == Cardinality(Nodes)
<1>1. m \in Memory /\ S \subseteq Item /\ Ring(m, S)
  BY DEF Sound
<1>2. /\ own[h] = h /\ pos[h] = 0
      /\ \A x \in S : pos[x] \in Nat
      /\ \A x \in S : m.next[x] \in S /\ own[m.next[x]] = own[x]
      /\ \A x \in S : own[x] = h /\ x # h => x \in Nodes
  BY <1>1 DEF Owned, Ring, Item
<1>3. at[0] = h /\ \A k \in Nat : at[k] \in Item => at[k + 1] = m.next[at[k]]
  BY <1>1, AlongSteps DEF Item, Memory
<1> HIDE DEF at
<1>4. \A k \in Nat : at[k] \in S /\ own[at[k]] = h /\ at[k + 1] = m.next[at[k]]
  <2> DEFINE T == {k \in Nat : at[k] \in S /\ own[at[k]] = h}
  <2>1. 0 \in T
    BY <1>2, <1>3
  <2>2. ASSUME NEW k \in Nat, k \in T PROVE k + 1 \in T
    BY <1>1, <1>2, <1>3, <2>2
  <2> HIDE DEF T
  <2>3. Nat \subseteq T
    BY <2>1, <2>2, SetInduction
  <2> QED BY <1>1, <1>3, <2>3 DEF T
<1>follows. Follows(at, m, S, own, h)
  BY <1>4 DEF Follows
<1>5. \E k \in Nat \ {0} : at[k] = h
  <2> SUFFICES ASSUME \A k \in Nat \ {0} : at[k] # h PROVE FALSE
    OBVIOUS
  <2>1. N \in Nat /\ IsFiniteSet(Nodes)
    BY FS_CardinalityType, ListAssumption
  <2> DEFINE f == [k \in 1 .. N + 1 |-> at[k]]
  <2>2. f \in [1 .. N + 1 -> Nodes]
    BY <1>2, <1>4, <2>1
  <2>3. IsFiniteSet(1 .. N + 1) /\ Cardinality(1 .. N + 1) = N + 1
    BY <2>1, FS_Interval
  <2> HIDE DEF f
  <2>4. PICK x, y \in 1 .. N + 1 : x # y /\ f[x] = f[y]
    <3>1. Cardinality(Nodes) < Cardinality(1 .. N + 1)
      BY <2>1, <2>3
    <3> HIDE DEF N
    <3> QED BY <2>1, <2>2, <2>3, <3>1, FS_PigeonHole
  <2>5. at[x] = at[y] /\ x \in 0 .. N + 1 /\ y \in 0 .. N + 1
    BY <2>1, <2>4 DEF f
  <2>6. \A j, k \in 0 .. N + 1 : j < k => pos[at[j]] < pos[at[k]]
    <3>1. \A k \in 1 .. N + 1 : at[k] # h
      OBVIOUS
    <3>2. N + 1 \in Nat
      BY <2>1
    <3> HIDE DEF N
    <3> QED BY <1>1, <1>follows, <3>1, <3>2, Rising
  <2>7. pos[at[x]] \in Nat
    BY <1>2, <1>4, <2>1, <2>4
  <2> QED BY <2>1, <2>4, <2>5, <2>6, <2>7
<1>6. PICK e \in Nat \ {0} : at[e] = h /\ \A k \in Nat \ {0} : at[k] = h => e <= k
  <2> DEFINE K == {k \in Nat \ {0} : at[k] = h}
  <2>1. K \subseteq Nat /\ K # {}
    BY <1>5
  <2> HIDE DEF K
  <2>2. PICK e \in K : \A k \in K : e <= k
    BY <2>1, LeastExists
  <2> QED BY <2>2 DEF K
<1> DEFINE n == e - 1
           s == [k \in 1 .. n |-> at[k]]
<1>7. n \in Nat /\ n + 1 = e /\ \A k \in 1 .. n : at[k] # h
  BY <1>6
<1> HIDE DEF n
<1>8. \A j, k \in 0 .. n : j < k => pos[at[j]] < pos[at[k]]
  BY <1>1, <1>7, <1>follows, Rising
<1>9. /\ s \in Seq(Nodes) /\ Len(s) = n /\ \A k \in 1 .. n : s[k] = at[k]
  <2>1. s \in [1 .. n -> Nodes]
    BY <1>2, <1>4, <1>7
  <2> QED BY <1>7, <2>1
<1> HIDE DEF s
<1>10. \A k \in 0 .. n + 1 : Around(h, s, k) = at[k]
  BY <1>3, <1>6, <1>7, <1>9 DEF Around
<1>11. Threads(m.next, h, s)
  <2>1. IsInjective(s)
    <3>1. DOMAIN s = 1 .. n
      BY <1>9, AroundFacts
    <3>2. ASSUME NEW j \in 1 .. n, NEW k \in 1 .. n, s[j] = s[k] PROVE j = k
      <4>1. j \in Nat /\ at[j] = at[k]
        BY <1>7, <1>9, <3>2
      <4>2. pos[at[j]] \in Nat
        BY <1>2, <1>4, <4>1
      <4>3. j \in 0 .. n /\ k \in 0 .. n
        BY <1>7
      <4>4. ~(j < k) /\ ~(k < j)
        BY <1>8, <4>1, <4>2, <4>3
      <4> QED BY <1>7, <4>4
    <3> QED BY <3>1, <3>2 DEF IsInjective
  <2>2. ASSUME NEW k \in 0 .. n PROVE m.next[Around(h, s, k)] = Around(h, s, k + 1)
    BY <1>4, <1>7, <1>10
  <2> QED BY <1>9, <2>1, <2>2 DEF Threads
<1>12. ASSUME NEW x \in Nodes, x \in ToSet(s) PROVE x \in S /\ own[x] = h
  <2>1. PICK k \in 1 .. n : s[k] = x
    BY <1>9, <1>12, Members
  <2>2. k \in Nat /\ at[k] = x
    BY <1>7, <1>9, <2>1
  <2> QED BY <1>4, <2>2
<1>13. ASSUME NEW x \in Nodes, x \in S, own[x] = h PROVE x \in ToSet(s)
  <2> SUFFICES ASSUME x \notin ToSet(s) PROVE FALSE
    OBVIOUS
  <2>1. \A k \in 1 .. n : at[k] # x
    BY <1>9, Members
  <2> DEFINE T == {k \in Nat : k <= n => pos[at[k]] < pos[x]}
  <2>2. x # h
    BY ListAssumption
  <2>3. 0 \in T
    <3>1. pos[x] # pos[h]
      BY <1>2, <1>13, <2>2 DEF InOrder
    <3> QED BY <1>2, <1>3, <1>13, <3>1
  <2>4. ASSUME NEW k \in Nat, k \in T PROVE k + 1 \in T
    <3> SUFFICES ASSUME k + 1 <= n PROVE pos[at[k + 1]] < pos[x]
      OBVIOUS
    <3>1. pos[at[k]] < pos[x] /\ at[k] \in S /\ own[at[k]] = own[x]
      BY <1>4, <1>7, <1>13, <2>4
    <3>2. pos[at[k + 1]] <= pos[x]
      BY <1>4, <1>13, <3>1 DEF InOrder
    <3>3. pos[at[k + 1]] # pos[x]
      BY <1>4, <1>13, <2>1 DEF InOrder
    <3>4. pos[at[k + 1]] \in Nat /\ pos[x] \in Nat
      BY <1>2, <1>4, <1>13
    <3> QED BY <3>2, <3>3, <3>4
  <2> HIDE DEF T
  <2>5. n \in T
    BY <1>7, <2>3, <2>4, SetInduction
  <2>6. pos[at[n]] < pos[x]
    BY <1>7, <2>5 DEF T
  <2>7. m.next[at[n]] = h /\ at[n] \in S /\ own[at[n]] = own[x]
    BY <1>4, <1>6, <1>7, <1>13
  <2>8. pos[at[n]] < pos[h]
    BY <1>13, <2>6, <2>7 DEF InOrder
  <2> QED BY <1>2, <2>7, <2>8
<1> QED BY <1>11, <1>12, <1>13

\* The sequences that a memory holds.
ListsOf(m, S) == [h \in Heads |-> IF h \in S THEN Chain(m.next, h) ELSE <<>>]

\* L says what these are.
Laid(m, S, L) ==
  /\ L \in [Heads -> Seq(Nodes)]
  /\ \A h \in Heads \ S : L[h] = <<>>
  /\ \A h \in Heads \cap S : Threads(m.next, h, L[h])

\* The entries in S that are on a list are on one list, once; the others point
\* to themselves.
Apiece(m, S, L) ==
  /\ \A h \in Heads : ToSet(L[h]) \subseteq S
  /\ \A g, h \in Heads, n \in Nodes : n \in ToSet(L[g]) /\ n \in ToSet(L[h]) => g = h
  /\ \A n \in Nodes \cap S : m.next[n] = n <=> \A h \in Heads : n \notin ToSet(L[h])

\* A memory holds one list at each head, and no other.
LEMMA LaidIs ==
  ASSUME NEW m \in Memory, NEW S, NEW L, Laid(m, S, L)
  PROVE  L = ListsOf(m, S)
<1>1. ASSUME NEW h \in Heads PROVE L[h] = IF h \in S THEN Chain(m.next, h) ELSE <<>>
  <2>1. CASE h \in S
    <3>1. Threads(m.next, h, L[h])
      BY <2>1 DEF Laid
    <3>2. m.next \in [Item -> Item \cup {LIST_POISON1, LIST_POISON2}]
      BY DEF Memory
    <3> QED BY <2>1, <3>1, <3>2, ChainIs
  <2>2. CASE h \notin S
    BY <2>2 DEF Laid
  <2> QED BY <2>1, <2>2
<1>2. L = [h \in Heads |-> L[h]]
  BY DEF Laid
<1> QED BY <1>1, <1>2 DEF ListsOf

\* The links of a sound memory hold sequences.
LEMMA SoundLists ==
  ASSUME NEW m, NEW S, Sound(m, S)
  PROVE  Laid(m, S, ListsOf(m, S)) /\ Apiece(m, S, ListsOf(m, S))
<1> DEFINE L == ListsOf(m, S)
<1>1. m \in Memory /\ S \subseteq Item /\ Ring(m, S)
  BY DEF Sound
<1>2. PICK own, pos : Owned(m, S, own, pos) /\ InOrder(m, S, own, pos)
  BY DEF Sound, Placed
<1>3. ASSUME NEW h \in Heads
      PROVE  /\ h \in S => Threads(m.next, h, L[h])
             /\ h \notin S => L[h] = <<>>
             /\ L[h] \in Seq(Nodes)
             /\ \A n \in Nodes : n \in ToSet(L[h]) <=> h \in S /\ n \in S /\ own[n] = h
  <2>1. CASE h \in S
    <3>1. PICK s : /\ Threads(m.next, h, s)
                   /\ \A n \in Nodes : n \in ToSet(s) <=> n \in S /\ own[n] = h
      BY <1>2, <2>1, ThreadExists
    <3>2. m.next \in [Item -> Item \cup {LIST_POISON1, LIST_POISON2}]
      BY <1>1 DEF Memory
    <3>3. L[h] = s
      BY <2>1, <3>1, <3>2, ChainIs DEF ListsOf
    <3>4. s \in Seq(Nodes)
      BY <3>1 DEF Threads
    <3> QED BY <2>1, <3>1, <3>3, <3>4
  <2>2. CASE h \notin S
    <3>1. L[h] = <<>>
      BY <2>2 DEF ListsOf
    <3>2. <<>> \in Seq(Nodes) /\ ToSet(<<>>) = {}
      BY DEF ToSet
    <3> QED BY <2>2, <3>1, <3>2
  <2> QED BY <2>1, <2>2
<1>4. L \in [Heads -> Seq(Nodes)]
  BY <1>3 DEF ListsOf
<1>5. Laid(m, S, L)
  BY <1>3, <1>4 DEF Laid
<1>6. \A h \in Heads : ToSet(L[h]) \subseteq Nodes
  BY <1>3, Members
<1>7. ASSUME NEW n \in Nodes \cap S
      PROVE  m.next[n] = n <=> \A h \in Heads : n \notin ToSet(L[h])
  <2>1. ASSUME m.next[n] = n, NEW h \in Heads, n \in ToSet(L[h]) PROVE FALSE
    <3>1. h \in S /\ own[n] = h
      BY <1>3, <2>1
    <3>2. pos[n] \in Nat
      BY <1>1, <1>2 DEF Owned
    <3> QED BY <1>2, <2>1, <3>1, <3>2, ListAssumption DEF InOrder
  <2>2. ASSUME m.next[n] # n PROVE \E h \in Heads : n \in ToSet(L[h])
    <3> DEFINE h == own[n]
    <3>1. h \in S /\ own[h] = h /\ pos[h] = 0 /\ h # n
      BY <1>2, <2>2 DEF Owned
    <3>2. h \in Heads
      <4> SUFFICES ASSUME h \in Nodes PROVE FALSE
        BY <1>1, <3>1 DEF Item
      <4>1. m.next[h] = h
        BY <1>2, <3>1 DEF Owned
      <4>2. pos[n] # pos[h]
        BY <1>2, <3>1 DEF InOrder
      <4>3. pos[n] \in Nat
        BY <1>1, <1>2 DEF Owned
      <4>4. pos[h] < pos[n]
        BY <3>1, <4>2, <4>3
      <4> QED BY <1>2, <3>1, <4>1, <4>4 DEF InOrder
    <3> QED BY <1>3, <3>1, <3>2
  <2> QED BY <2>1, <2>2
<1>8. ASSUME NEW g \in Heads, NEW h \in Heads, NEW n \in Nodes,
             n \in ToSet(L[g]), n \in ToSet(L[h])
      PROVE  g = h
  BY <1>3, <1>8
<1>9. Apiece(m, S, L)
  BY <1>3, <1>6, <1>7, <1>8 DEF Apiece
<1> QED BY <1>5, <1>9

\* What is read off the links in use.
LEMMA EntriesFacts ==
  ASSUME ListInv, NEW h \in Usable
  PROVE  /\ h \in Heads \cap Live
         /\ Entries(h) = ListsOf(link, Live)[h]
         /\ Threads(link.next, h, Entries(h))
         /\ Entries(h) \in Seq(Nodes) /\ IsInjective(Entries(h))
         /\ ToSet(Entries(h)) \subseteq Live
         /\ Len(Entries(h)) \in 0 .. Cardinality(Nodes)
<1>1. h \in Heads \cap Live
  BY DEF Usable, Live, Item
<1>2. Entries(h) = ListsOf(link, Live)[h]
  BY <1>1 DEF ListsOf, Entries
<1>3. Laid(link, Live, ListsOf(link, Live)) /\ Apiece(link, Live, ListsOf(link, Live))
  BY SoundLists DEF ListInv
<1>4. Threads(link.next, h, Entries(h)) /\ ToSet(Entries(h)) \subseteq Live
  BY <1>1, <1>2, <1>3 DEF Laid, Apiece
<1>5. Entries(h) \in Seq(Nodes) /\ IsInjective(Entries(h))
  BY <1>4 DEF Threads
<1> DEFINE s == Entries(h)
<1> HIDE DEF s
<1>6. Len(s) \in 0 .. Cardinality(Nodes)
  <2>1. s \in Seq(Nodes) /\ IsInjective(s)
    BY <1>5 DEF s
  <2>2. Len(s) \in Nat /\ DOMAIN s = 1 .. Len(s)
    BY <2>1, LenProperties
  <2>3. s \in Injection(1 .. Len(s), Nodes)
    <3>1. s \in [1 .. Len(s) -> Nodes]
      BY <2>1, <2>2
    <3> QED BY <2>1, <3>1 DEF Injection
  <2>4. Cardinality(1 .. Len(s)) = Len(s)
    <3> DEFINE n == Len(s)
    <3>1. n \in Nat
      BY <2>2
    <3> HIDE DEF n
    <3>2. Cardinality(1 .. n) = n
      BY <3>1, FS_Interval
    <3> QED BY <3>2 DEF n
  <2> QED BY <2>2, <2>3, <2>4, FS_Injection, FS_CardinalityType, ListAssumption
<1> QED BY <1>1, <1>2, <1>4, <1>5, <1>6 DEF s

\* The entries of a list are found at its head, each at one place.
LEMMA InvImpliesOnOneList ==
  ASSUME ListInv
  PROVE  OnOneList
<1> DEFINE L == ListsOf(link, Live)
           N == Cardinality(Nodes)
<1>1. Apiece(link, Live, L)
  BY SoundLists DEF ListInv
<1>2. \A h \in Usable :
        /\ h \in Heads /\ Entries(h) = L[h] /\ Entries(h) \in Seq(Nodes)
        /\ IsInjective(Entries(h)) /\ DOMAIN Entries(h) = 1 .. Len(Entries(h))
        /\ Len(Entries(h)) \in 0 .. N
        /\ Threads(link.next, h, Entries(h))
        /\ \A n : n \in ToSet(Entries(h)) <=> \E i \in 1 .. Len(Entries(h)) : Entries(h)[i] = n
  BY EntriesFacts, Members
<1>3. \A h \in Heads \ Usable : L[h] = <<>>
  BY DEF ListsOf, Usable, Live, Item
<1>4. ToSet(<<>>) = {}
  BY DEF ToSet
<1> HIDE DEF L, N
<1>5. \A n \in Nodes : \A p : p \in Places(n) <=>
        \E h \in Usable : \E k \in 1 .. Len(Entries(h)) :
          p = <<h, k>> /\ Entries(h)[k] = n
  <2> SUFFICES ASSUME NEW n \in Nodes, NEW p
               PROVE  p \in Places(n) <=>
                        \E h \in Usable : \E k \in 1 .. Len(Entries(h)) :
                          p = <<h, k>> /\ Entries(h)[k] = n
    OBVIOUS
  <2>1. ASSUME p \in Places(n)
        PROVE  \E h \in Usable : \E k \in 1 .. Len(Entries(h)) :
                 p = <<h, k>> /\ Entries(h)[k] = n
    <3>1. /\ p[1] \in Usable /\ p[2] \in 1 .. N /\ p[2] <= Len(Entries(p[1]))
          /\ Entries(p[1])[p[2]] = n /\ p = <<p[1], p[2]>>
      BY <2>1 DEF Places, N
    <3>2. p[2] \in 1 .. Len(Entries(p[1]))
      BY <1>2, <3>1
    <3> QED BY <3>1, <3>2
  <2>2. ASSUME NEW h \in Usable, NEW k \in 1 .. Len(Entries(h)),
               p = <<h, k>>, Entries(h)[k] = n
        PROVE  p \in Places(n)
    <3>1. Len(Entries(h)) \in 0 .. N
      BY <1>2
    <3>2. N \in Nat
      BY FS_CardinalityType, ListAssumption DEF N
    <3>3. k \in 1 .. N /\ k <= Len(Entries(h))
      BY <3>1, <3>2
    <3> QED BY <2>2, <3>3 DEF Places, N
  <2> QED BY <2>1, <2>2
<1>6. ASSUME NEW n \in Nodes, NEW p \in Places(n)
      PROVE  /\ n \in Linked /\ ~list_empty(link, n)
             /\ Places(n) = {p}
             /\ list_is_last(link, n, p[1]) <=> p[2] = Len(Entries(p[1]))
  <2>0. PICK h \in Usable : \E k \in 1 .. Len(Entries(h)) :
                             p = <<h, k>> /\ Entries(h)[k] = n
    BY <1>5
  <2>1. PICK k \in 1 .. Len(Entries(h)) : p = <<h, k>> /\ Entries(h)[k] = n
    BY <2>0
  <2>2. n \in ToSet(L[h]) /\ h \in Heads
    BY <1>2, <2>1
  <2>3. n \in Live /\ link.next[n] # n
    BY <1>1, <2>2 DEF Apiece
  <2>4. n \in Linked /\ ~list_empty(link, n)
    BY <2>3 DEF Linked, Live, list_empty
  <2>5. ASSUME NEW q \in Places(n) PROVE q = p
    <3>0. PICK g \in Usable : \E j \in 1 .. Len(Entries(g)) :
                               q = <<g, j>> /\ Entries(g)[j] = n
      BY <1>5
    <3>1. PICK j \in 1 .. Len(Entries(g)) : q = <<g, j>> /\ Entries(g)[j] = n
      BY <3>0
    <3>2. n \in ToSet(L[g]) /\ g \in Heads
      BY <1>2, <3>1
    <3>3. g = h
      BY <1>1, <2>2, <3>2 DEF Apiece
    <3>4. j = k
      BY <1>2, <2>1, <3>1, <3>3 DEF IsInjective
    <3> QED BY <2>1, <3>1, <3>3, <3>4
  <2>6. link.next[n] = h <=> k = Len(Entries(h))
    <3> DEFINE s == Entries(h)
    <3>1. /\ s \in Seq(Nodes) /\ Threads(link.next, h, s) /\ h \in Heads /\ k \in 1 .. Len(s)
          /\ s[k] = n
      BY <1>2, <2>1
    <3> HIDE DEF s
    <3>2. /\ Len(s) \in Nat /\ Around(h, s, Len(s) + 1) = h /\ Around(h, s, k) = n
          /\ \A i \in 1 .. Len(s) : Around(h, s, i) # h
      BY <3>1, AroundFacts
    <3>3. link.next[n] = Around(h, s, k + 1)
      BY <3>1, <3>2 DEF Threads
    <3>4. k = Len(s) \/ k + 1 \in 1 .. Len(s)
      BY <3>1, <3>2
    <3>5. k = Len(s) => link.next[n] = h
      BY <3>2, <3>3
    <3>6. k # Len(s) => link.next[n] # h
      BY <3>2, <3>3, <3>4
    <3> QED BY <3>5, <3>6 DEF s
  <2> QED BY <2>1, <2>4, <2>5, <2>6 DEF list_is_last
<1>7. ASSUME NEW n \in Nodes, n \in Linked, ~list_empty(link, n)
      PROVE  Places(n) # {}
  <2>1. n \in Nodes \cap Live /\ link.next[n] # n
    BY <1>7 DEF Linked, Live, Item, list_empty
  <2>2. PICK h \in Heads : n \in ToSet(L[h])
    BY <1>1, <2>1 DEF Apiece
  <2>3. h \in Usable
    BY <1>3, <1>4, <2>2
  <2>4. PICK k \in 1 .. Len(Entries(h)) : Entries(h)[k] = n
    BY <1>2, <2>2, <2>3
  <2>5. <<h, k>> \in Places(n)
    BY <1>5, <2>3, <2>4
  <2> QED BY <2>5
<1>8. ASSUME NEW n \in Nodes
      PROVE  Cardinality(Places(n)) = IF n \in Linked /\ ~list_empty(link, n) THEN 1 ELSE 0
  <2>1. CASE Places(n) = {}
    <3>1. ~(n \in Linked /\ ~list_empty(link, n))
      BY <1>7, <2>1
    <3> QED BY <2>1, <3>1, FS_EmptySet
  <2>2. CASE Places(n) # {}
    <3>1. PICK p : p \in Places(n)
      BY <2>2
    <3>2. n \in Linked /\ ~list_empty(link, n) /\ Places(n) = {p}
      BY <1>6, <3>1
    <3> QED BY <3>2, FS_Singleton
  <2> QED BY <2>1, <2>2
<1> QED BY <1>6, <1>8 DEF OnOneList

-----------------------------------------------------------------------------
(* What the operations make of the links *)

\* A list none of whose links is written.
LEMMA SameThreads ==
  ASSUME NEW f, NEW r, NEW h \in Heads, NEW s, Threads(f, h, s),
         r[h] = f[h], \A x \in ToSet(s) : r[x] = f[x]
  PROVE  Threads(r, h, s)
<1>1. /\ s \in Seq(Nodes) /\ Len(s) \in Nat
      /\ Around(h, s, 0) = h
      /\ \A k \in 1 .. Len(s) : Around(h, s, k) = s[k] /\ s[k] \in ToSet(s)
  BY AroundFacts DEF Threads
<1>2. \A k \in 0 .. Len(s) : r[Around(h, s, k)] = f[Around(h, s, k)]
  <2> SUFFICES ASSUME NEW k \in 0 .. Len(s) PROVE r[Around(h, s, k)] = f[Around(h, s, k)]
    OBVIOUS
  <2>1. k = 0 \/ k \in 1 .. Len(s)
    BY <1>1
  <2> QED BY <1>1, <2>1
<1> QED BY <1>2 DEF Threads

\* Where the head points.
LEMMA FirstLink ==
  ASSUME NEW f, NEW h \in Heads, NEW s, Threads(f, h, s)
  PROVE  f[h] = Around(h, s, 1)
<1>1. \A k \in 0 .. Len(s) : f[Around(h, s, k)] = Around(h, s, k + 1)
  BY DEF Threads
<1>2. Len(s) \in Nat /\ Around(h, s, 0) = h
  BY AroundFacts DEF Threads
<1>3. 0 \in 0 .. Len(s)
  BY <1>2
<1>4. f[Around(h, s, 0)] = Around(h, s, 0 + 1)
  BY <1>1, <1>3
<1> QED BY <1>2, <1>4

\* list_add(): n is the first.
LEMMA FrontThreads ==
  ASSUME NEW f, NEW r, NEW h \in Heads, NEW s, Threads(f, h, s),
         NEW n \in Nodes, n \notin ToSet(s),
         r[h] = n, r[n] = f[h], \A x \in ToSet(s) : r[x] = f[x]
  PROVE  Threads(r, h, <<n>> \o s)
<1> DEFINE t == <<n>> \o s
<1>1. /\ s \in Seq(Nodes) /\ IsInjective(s) /\ Len(s) \in Nat /\ DOMAIN s = 1 .. Len(s)
      /\ Around(h, s, 0) = h /\ Around(h, s, Len(s) + 1) = h
      /\ \A k \in 1 .. Len(s) : Around(h, s, k) = s[k] /\ s[k] \in ToSet(s)
      /\ \A k \in 0 .. Len(s) : f[Around(h, s, k)] = Around(h, s, k + 1)
  BY AroundFacts DEF Threads
<1>2. /\ t \in Seq(Nodes) /\ Len(t) = Len(s) + 1 /\ t[1] = n
      /\ \A k \in 2 .. Len(s) + 1 : t[k] = s[k - 1]
  BY <1>1, ConcatProperties
<1> HIDE DEF t
<1>3. /\ DOMAIN t = 1 .. Len(s) + 1 /\ Around(h, t, 0) = h /\ Around(h, t, 1) = n
      /\ \A k \in 2 .. Len(s) + 1 : Around(h, t, k) = s[k - 1] /\ s[k - 1] \in ToSet(s)
      /\ \A k \in 2 .. Len(s) + 2 : Around(h, t, k) = Around(h, s, k - 1)
  <2>1. DOMAIN t = 1 .. Len(s) + 1 /\ Around(h, t, 0) = h /\ Around(h, t, 1) = n
    BY <1>1, <1>2, AroundFacts DEF Around
  <2>2. ASSUME NEW k \in 2 .. Len(s) + 1
        PROVE  Around(h, t, k) = s[k - 1] /\ s[k - 1] \in ToSet(s)
               /\ Around(h, s, k - 1) = s[k - 1]
    <3>1. k - 1 \in 1 .. Len(s) /\ k \in 1 .. Len(t)
      BY <1>1, <1>2
    <3> QED BY <1>1, <1>2, <3>1 DEF Around
  <2>3. Around(h, t, Len(s) + 2) = h /\ (Len(s) + 2) - 1 = Len(s) + 1
    BY <1>1, <1>2 DEF Around
  <2>4. \A k \in 2 .. Len(s) + 2 : k \in 2 .. Len(s) + 1 \/ k = Len(s) + 2
    BY <1>1
  <2> QED BY <1>1, <2>1, <2>2, <2>3, <2>4
<1>4. IsInjective(t)
  <2> SUFFICES ASSUME NEW j \in 1 .. Len(s) + 1, NEW k \in 1 .. Len(s) + 1, t[j] = t[k]
               PROVE  j = k
    BY <1>3 DEF IsInjective
  <2>1. CASE j = 1 \/ k = 1
    BY <1>1, <1>2, <1>3, <2>1
  <2>2. CASE j # 1 /\ k # 1
    <3>1. j \in 2 .. Len(s) + 1 /\ k \in 2 .. Len(s) + 1
      BY <2>2
    <3>2. j - 1 \in DOMAIN s /\ k - 1 \in DOMAIN s /\ s[j - 1] = s[k - 1]
      BY <1>1, <1>2, <3>1
    <3> QED BY <1>1, <3>1, <3>2 DEF IsInjective
  <2> QED BY <2>1, <2>2
<1>5. ASSUME NEW k \in 0 .. Len(t) PROVE r[Around(h, t, k)] = Around(h, t, k + 1)
  <2>1. CASE k = 0
    BY <1>3, <2>1
  <2>2. CASE k = 1
    <3>1. 1 + 1 = 2 /\ 2 \in 2 .. Len(s) + 2
      BY <1>1
    <3>2. Around(h, t, 2) = Around(h, s, 1)
      <4>1. CASE Len(s) = 0
        <5>1. ~(2 \in 1 .. Len(t)) /\ ~(1 \in 1 .. Len(s))
          BY <1>2, <4>1
        <5> QED BY <5>1 DEF Around
      <4>2. CASE Len(s) # 0
        <5>1. 2 \in 2 .. Len(s) + 1 /\ 2 - 1 = 1 /\ 1 \in 1 .. Len(s)
          BY <1>1, <4>2
        <5>2. Around(h, t, 2) = s[1]
          BY <1>3, <5>1
        <5> QED BY <5>1, <5>2 DEF Around
      <4> QED BY <4>1, <4>2
    <3>3. r[n] = Around(h, s, 1)
      BY FirstLink
    <3> QED BY <1>3, <2>2, <3>1, <3>2, <3>3
  <2>3. CASE k \notin {0, 1}
    <3>1. /\ k \in 2 .. Len(s) + 1 /\ k + 1 \in 2 .. Len(s) + 2 /\ k - 1 \in 1 .. Len(s)
          /\ k - 1 \in 0 .. Len(s) /\ (k - 1) + 1 = k /\ (k + 1) - 1 = k
      BY <1>1, <1>2, <2>3
    <3>2. r[Around(h, t, k)] = f[s[k - 1]]
      BY <1>3, <3>1
    <3>3. f[s[k - 1]] = Around(h, s, k)
      BY <1>1, <3>1
    <3>4. Around(h, t, k + 1) = Around(h, s, k)
      BY <1>3, <3>1
    <3> QED BY <3>2, <3>3, <3>4
  <2> QED BY <2>1, <2>2, <2>3
<1> QED BY <1>2, <1>4, <1>5 DEF Threads, t

\* list_add_tail(): n is the last.
LEMMA BackThreads ==
  ASSUME NEW f, NEW r, NEW h \in Heads, NEW s, Threads(f, h, s),
         NEW n \in Nodes, n \notin ToSet(s),
         r[Around(h, s, Len(s))] = n, r[n] = h,
         \A k \in 0 .. Len(s) - 1 : r[Around(h, s, k)] = f[Around(h, s, k)]
  PROVE  Threads(r, h, Append(s, n))
<1> DEFINE t == Append(s, n)
<1>1. /\ s \in Seq(Nodes) /\ IsInjective(s) /\ Len(s) \in Nat
      /\ \A k \in 0 .. Len(s) : f[Around(h, s, k)] = Around(h, s, k + 1)
  BY AroundFacts DEF Threads
<1>2. /\ t \in Seq(Nodes) /\ IsInjective(t) /\ Len(t) = Len(s) + 1 /\ t[Len(s) + 1] = n
      /\ \A k \in 1 .. Len(s) : t[k] = s[k]
  BY <1>1, AppendFacts
<1> HIDE DEF t
<1>3. /\ \A k \in 0 .. Len(s) : Around(h, t, k) = Around(h, s, k)
      /\ Around(h, t, Len(s) + 1) = n /\ Around(h, t, Len(s) + 2) = h
  BY <1>1, <1>2 DEF Around
<1>4. ASSUME NEW k \in 0 .. Len(t) PROVE r[Around(h, t, k)] = Around(h, t, k + 1)
  <2>1. CASE k = Len(s) + 1
    <3>1. k + 1 = Len(s) + 2
      BY <1>1, <2>1
    <3> QED BY <1>3, <2>1, <3>1
  <2>2. CASE k = Len(s)
    BY <1>1, <1>3, <2>2
  <2>3. CASE k \notin {Len(s), Len(s) + 1}
    <3>1. k \in 0 .. Len(s) - 1 /\ k \in 0 .. Len(s) /\ k + 1 \in 0 .. Len(s)
      BY <1>1, <1>2, <2>3
    <3> QED BY <1>1, <1>3, <3>1
  <2> QED BY <2>1, <2>2, <2>3
<1> QED BY <1>2, <1>4 DEF Threads, t

\* __list_del(): the k-th leaves.
LEMMA RemoveThreads ==
  ASSUME NEW f, NEW r, NEW h \in Heads, NEW s, Threads(f, h, s), NEW k \in 1 .. Len(s),
         r[Around(h, s, k - 1)] = f[s[k]],
         \A j \in 0 .. Len(s) \ {k - 1, k} : r[Around(h, s, j)] = f[Around(h, s, j)]
  PROVE  Threads(r, h, RemoveAt(s, k))
<1> DEFINE t == RemoveAt(s, k)
<1>1. /\ s \in Seq(Nodes) /\ IsInjective(s) /\ Len(s) \in Nat
      /\ Around(h, s, k) = s[k]
      /\ \A j \in 0 .. Len(s) : f[Around(h, s, j)] = Around(h, s, j + 1)
  BY AroundFacts DEF Threads
<1>2. /\ t \in Seq(Nodes) /\ IsInjective(t) /\ Len(t) = Len(s) - 1
      /\ \A j \in 1 .. Len(s) - 1 : t[j] = IF j < k THEN s[j] ELSE s[j + 1]
  BY <1>1, RemoveAtFacts, RemoveAtInjective
<1> HIDE DEF t
<1>3. \A j \in 0 .. Len(s) : Around(h, t, j) = Around(h, s, IF j < k THEN j ELSE j + 1)
  <2> SUFFICES ASSUME NEW j \in 0 .. Len(s)
               PROVE  Around(h, t, j) = Around(h, s, IF j < k THEN j ELSE j + 1)
    OBVIOUS
  <2>1. CASE j < k
    BY <1>1, <1>2, <2>1 DEF Around
  <2>2. CASE ~(j < k)
    BY <1>1, <1>2, <2>2 DEF Around
  <2> QED BY <2>1, <2>2
<1>4. ASSUME NEW j \in 0 .. Len(t) PROVE r[Around(h, t, j)] = Around(h, t, j + 1)
  <2>0. j \in 0 .. Len(s) /\ j + 1 \in 0 .. Len(s) /\ k \in Nat
    BY <1>1, <1>2
  <2>1. CASE j = k - 1
    <3>1. Around(h, t, j) = Around(h, s, k - 1) /\ Around(h, t, j + 1) = Around(h, s, k + 1)
      BY <1>3, <2>0, <2>1
    <3> QED BY <1>1, <3>1
  <2>2. CASE j < k - 1
    <3>1. /\ Around(h, t, j) = Around(h, s, j) /\ Around(h, t, j + 1) = Around(h, s, j + 1)
          /\ j \in 0 .. Len(s) \ {k - 1, k}
      BY <1>3, <2>0, <2>2
    <3> QED BY <1>1, <2>0, <3>1
  <2>3. CASE k <= j
    <3>1. /\ Around(h, t, j) = Around(h, s, j + 1) /\ Around(h, t, j + 1) = Around(h, s, j + 2)
          /\ j + 1 \in 0 .. Len(s) \ {k - 1, k} /\ (j + 1) + 1 = j + 2
      BY <1>3, <2>0, <2>3
    <3> QED BY <1>1, <2>0, <3>1
  <2> QED BY <2>0, <2>1, <2>2, <2>3
<1> QED BY <1>2, <1>4 DEF Threads, t

\* list_replace(): new stands where the k-th stood.
LEMMA ReplaceThreads ==
  ASSUME NEW f, NEW r, NEW h \in Heads, NEW s, Threads(f, h, s), NEW k \in 1 .. Len(s),
         NEW n \in Nodes, n \notin ToSet(s),
         r[Around(h, s, k - 1)] = n, r[n] = f[s[k]],
         \A j \in 0 .. Len(s) \ {k - 1, k} : r[Around(h, s, j)] = f[Around(h, s, j)]
  PROVE  Threads(r, h, [s EXCEPT ![k] = n])
<1> DEFINE t == [s EXCEPT ![k] = n]
<1>1. /\ s \in Seq(Nodes) /\ IsInjective(s) /\ Len(s) \in Nat /\ DOMAIN s = 1 .. Len(s)
      /\ Around(h, s, k) = s[k]
      /\ \A j \in 1 .. Len(s) : s[j] \in ToSet(s)
      /\ \A j \in 0 .. Len(s) : f[Around(h, s, j)] = Around(h, s, j + 1)
  BY AroundFacts DEF Threads
<1>2. /\ t \in Seq(Nodes) /\ Len(t) = Len(s) /\ DOMAIN t = 1 .. Len(s)
      /\ \A j \in 1 .. Len(s) : t[j] = IF j = k THEN n ELSE s[j]
  BY <1>1, ExceptSeq
<1> HIDE DEF t
<1>3. IsInjective(t)
  BY <1>1, <1>2 DEF IsInjective
<1>4. \A j \in 0 .. Len(s) + 1 : Around(h, t, j) = IF j = k THEN n ELSE Around(h, s, j)
  BY <1>1, <1>2 DEF Around
<1>5. ASSUME NEW j \in 0 .. Len(t) PROVE r[Around(h, t, j)] = Around(h, t, j + 1)
  <2>0. j \in 0 .. Len(s) + 1 /\ j + 1 \in 0 .. Len(s) + 1 /\ j \in 0 .. Len(s)
    BY <1>1, <1>2
  <2>1. CASE j = k - 1
    BY <1>4, <2>0, <2>1
  <2>2. CASE j = k
    <3>1. Around(h, t, j) = n /\ Around(h, t, j + 1) = Around(h, s, j + 1)
      BY <1>4, <2>0, <2>2
    <3> QED BY <1>1, <2>0, <2>2, <3>1
  <2>3. CASE j \notin {k - 1, k}
    <3>1. Around(h, t, j) = Around(h, s, j) /\ Around(h, t, j + 1) = Around(h, s, j + 1)
      BY <1>4, <2>0, <2>3
    <3> QED BY <1>1, <2>0, <2>3, <3>1
  <2> QED BY <2>1, <2>2, <2>3
<1> QED BY <1>2, <1>3, <1>5 DEF Threads, t

\* __list_cut_position(): the first k go to l ...
LEMMA CutThreads ==
  ASSUME NEW f, NEW r, NEW h \in Heads, NEW s, Threads(f, h, s), NEW k \in 1 .. Len(s),
         NEW l \in Heads, r[l] = f[h], r[s[k]] = l,
         \A j \in 1 .. k - 1 : r[s[j]] = f[s[j]]
  PROVE  Threads(r, l, SubSeq(s, 1, k))
<1> DEFINE t == SubSeq(s, 1, k)
<1>1. /\ s \in Seq(Nodes) /\ IsInjective(s) /\ Len(s) \in Nat /\ DOMAIN s = 1 .. Len(s)
      /\ Around(h, s, 0) = h
      /\ \A j \in 1 .. Len(s) : Around(h, s, j) = s[j] /\ s[j] \in Nodes
      /\ \A j \in 0 .. Len(s) : f[Around(h, s, j)] = Around(h, s, j + 1)
  BY AroundFacts DEF Threads
<1>2. /\ t \in Seq(Nodes) /\ Len(t) = k /\ \A j \in 1 .. k : t[j] = s[j]
  <2>1. k \in Int /\ 1 \in Int /\ \A j \in 1 .. k : s[j] \in Nodes
    BY <1>1
  <2>2. /\ t \in Seq(Nodes) /\ Len(t) = (IF 1 <= k THEN k - 1 + 1 ELSE 0)
        /\ \A j \in 1 .. k - 1 + 1 : t[j] = s[1 + j - 1]
    BY <2>1, SubSeqProperties
  <2> HIDE DEF t
  <2>3. ASSUME NEW j \in 1 .. k PROVE t[j] = s[j]
    <3>1. j \in 1 .. k - 1 + 1 /\ 1 + j - 1 = j
      BY <2>1
    <3> QED BY <2>2, <3>1
  <2> QED BY <2>1, <2>2, <2>3
<1> HIDE DEF t
<1>3. DOMAIN t = 1 .. k /\ IsInjective(t)
  <2>1. DOMAIN t = 1 .. k
    BY <1>2, LenProperties
  <2> QED BY <1>1, <1>2, <2>1 DEF IsInjective
<1>4. Around(l, t, 0) = l /\ Around(l, t, k + 1) = l /\ \A j \in 1 .. k : Around(l, t, j) = s[j]
  BY <1>1, <1>2 DEF Around
<1>5. ASSUME NEW j \in 0 .. k PROVE r[Around(l, t, j)] = Around(l, t, j + 1)
  <2>1. CASE j = 0
    <3>1. 0 \in 0 .. Len(s) /\ 0 + 1 = 1 /\ 1 \in 1 .. k /\ 1 \in 1 .. Len(s)
      BY <1>1
    <3>2. f[h] = s[1]
      BY <1>1, <3>1
    <3> QED BY <1>4, <2>1, <3>1, <3>2
  <2>2. CASE j = k
    BY <1>4, <2>2
  <2>3. CASE j \notin {0, k}
    <3>1. /\ j \in 1 .. k - 1 /\ j \in 1 .. k /\ j + 1 \in 1 .. k /\ j \in 0 .. Len(s)
          /\ j \in 1 .. Len(s) /\ j + 1 \in 1 .. Len(s)
      BY <1>1, <2>3
    <3>2. f[s[j]] = s[j + 1]
      BY <1>1, <3>1
    <3> QED BY <1>4, <3>1, <3>2
  <2> QED BY <2>1, <2>2, <2>3
<1> QED BY <1>2, <1>3, <1>5 DEF Threads, t

\* ... and the others stay.
LEMMA RestThreads ==
  ASSUME NEW f, NEW r, NEW h \in Heads, NEW s, Threads(f, h, s), NEW k \in 1 .. Len(s),
         r[h] = f[s[k]], \A j \in k + 1 .. Len(s) : r[s[j]] = f[s[j]]
  PROVE  Threads(r, h, SubSeq(s, k + 1, Len(s)))
<1> DEFINE n == Len(s)
           t == SubSeq(s, k + 1, n)
<1>1. /\ s \in Seq(Nodes) /\ IsInjective(s) /\ n \in Nat /\ DOMAIN s = 1 .. n
      /\ Around(h, s, n + 1) = h
      /\ \A j \in 1 .. n : Around(h, s, j) = s[j] /\ s[j] \in Nodes
      /\ \A j \in 0 .. n : f[Around(h, s, j)] = Around(h, s, j + 1)
  BY AroundFacts DEF Threads
<1>2. k \in Nat /\ \A j \in k + 1 .. n : r[s[j]] = f[s[j]]
  BY <1>1
<1>3. k <= n
  BY <1>1
<1> HIDE DEF n
<1>4. /\ t \in Seq(Nodes) /\ Len(t) = n - k /\ \A j \in 1 .. n - k : t[j] = s[k + j]
  <2>1. k + 1 \in Int /\ n \in Int /\ \A j \in k + 1 .. n : s[j] \in Nodes
    BY <1>1, <1>2
  <2>2. /\ t \in Seq(Nodes) /\ Len(t) = (IF k + 1 <= n THEN n - (k + 1) + 1 ELSE 0)
        /\ \A j \in 1 .. n - (k + 1) + 1 : t[j] = s[k + 1 + j - 1]
    BY <2>1, SubSeqProperties
  <2> HIDE DEF t
  <2>3. ASSUME NEW j \in 1 .. n - k PROVE t[j] = s[k + j]
    <3>1. j \in 1 .. n - (k + 1) + 1 /\ k + 1 + j - 1 = k + j
      BY <1>1, <1>2
    <3> QED BY <2>2, <3>1
  <2> QED BY <1>1, <1>2, <1>3, <2>2, <2>3
<1> HIDE DEF t
<1>5. DOMAIN t = 1 .. n - k /\ IsInjective(t)
  <2>1. DOMAIN t = 1 .. n - k
    BY <1>4, LenProperties
  <2>2. ASSUME NEW i \in 1 .. n - k, NEW j \in 1 .. n - k, t[i] = t[j] PROVE i = j
    <3>1. k + i \in 1 .. n /\ k + j \in 1 .. n /\ s[k + i] = s[k + j]
      BY <1>1, <1>2, <1>4, <2>2
    <3>2. k + i = k + j
      BY <1>1, <3>1 DEF IsInjective
    <3> QED BY <1>2, <3>2
  <2> QED BY <2>1, <2>2 DEF IsInjective
<1>6. Around(h, t, 0) = h /\ \A j \in 1 .. n - k + 1 : Around(h, t, j) = Around(h, s, k + j)
  <2>1. Around(h, t, 0) = h
    BY <1>4 DEF Around
  <2>2. ASSUME NEW j \in 1 .. n - k + 1 PROVE Around(h, t, j) = Around(h, s, k + j)
    <3>1. CASE j = n - k + 1
      <4>1. k + (n - k + 1) = n + 1 /\ ~(n - k + 1 <= n - k)
        BY <1>1, <1>2
      <4>2. k + j = n + 1 /\ ~(j \in 1 .. n - k)
        BY <3>1, <4>1
      <4> QED BY <1>1, <1>4, <4>2 DEF Around
    <3>2. CASE j # n - k + 1
      <4>1. j \in 1 .. n - k /\ k + j \in 1 .. n
        BY <1>1, <1>2, <1>3, <3>2
      <4> QED BY <1>1, <1>4, <4>1 DEF Around
    <3> QED BY <3>1, <3>2
  <2> QED BY <2>1, <2>2
<1>7. ASSUME NEW j \in 0 .. n - k PROVE r[Around(h, t, j)] = Around(h, t, j + 1)
  <2>0. j + 1 \in 1 .. n - k + 1 /\ k + (j + 1) = (k + j) + 1 /\ k + j \in 0 .. n
    BY <1>1, <1>2, <1>3
  <2>1. Around(h, t, j + 1) = Around(h, s, (k + j) + 1)
    BY <1>6, <2>0
  <2>2. f[Around(h, s, k + j)] = Around(h, s, (k + j) + 1)
    BY <1>1, <2>0
  <2>3. CASE j = 0
    <3>1. k + j = k /\ k \in 1 .. n
      BY <1>2, <2>3 DEF n
    <3> QED BY <1>1, <1>6, <2>1, <2>2, <2>3, <3>1
  <2>4. CASE j # 0
    <3>1. j \in 1 .. n - k + 1 /\ k + j \in k + 1 .. n /\ k + j \in 1 .. n
      BY <1>1, <1>2, <1>3, <2>4
    <3>2. Around(h, t, j) = Around(h, s, k + j) /\ Around(h, s, k + j) = s[k + j]
      BY <1>1, <1>6, <3>1
    <3> QED BY <1>2, <2>1, <2>2, <3>1, <3>2
  <2> QED BY <2>3, <2>4
<1> QED BY <1>4, <1>5, <1>7 DEF Threads, t, n

\* __list_splice() at the end: the entries of l go behind those of h ...
LEMMA JoinThreads ==
  ASSUME NEW f, NEW r, NEW h \in Heads, NEW l \in Heads,
         NEW u, Threads(f, h, u), NEW v, Threads(f, l, v),
         ToSet(u) \cap ToSet(v) = {},
         r[Around(h, u, Len(u))] = f[l], r[Around(l, v, Len(v))] = h, v # <<>>,
         \A j \in 0 .. Len(u) - 1 : r[Around(h, u, j)] = f[Around(h, u, j)],
         \A j \in 1 .. Len(v) - 1 : r[v[j]] = f[v[j]]
  PROVE  Threads(r, h, u \o v)
<1> DEFINE t == u \o v
           p == Len(u)
           q == Len(v)
<1>1. /\ u \in Seq(Nodes) /\ IsInjective(u) /\ p \in Nat /\ DOMAIN u = 1 .. p
      /\ Around(h, u, 0) = h
      /\ \A j \in 1 .. p : Around(h, u, j) = u[j] /\ u[j] \in ToSet(u)
      /\ \A j \in 0 .. p : f[Around(h, u, j)] = Around(h, u, j + 1)
  BY AroundFacts DEF Threads
<1>2. /\ v \in Seq(Nodes) /\ IsInjective(v) /\ q \in Nat \ {0} /\ DOMAIN v = 1 .. q
      /\ Around(l, v, 0) = l /\ Around(l, v, q + 1) = l
      /\ \A j \in 1 .. q : Around(l, v, j) = v[j] /\ v[j] \in ToSet(v)
      /\ \A j \in 0 .. q : f[Around(l, v, j)] = Around(l, v, j + 1)
  BY AroundFacts, EmptySeq DEF Threads
<1>3. /\ t \in Seq(Nodes) /\ Len(t) = p + q
      /\ \A j \in 1 .. p + q : t[j] = IF j <= p THEN u[j] ELSE v[j - p]
  BY <1>1, <1>2, ConcatProperties
<1>4. /\ r[Around(h, u, p)] = f[l] /\ r[Around(l, v, q)] = h
      /\ \A j \in 0 .. p - 1 : r[Around(h, u, j)] = f[Around(h, u, j)]
      /\ \A j \in 1 .. q - 1 : r[v[j]] = f[v[j]]
  OBVIOUS
<1> HIDE DEF t, p, q
<1>5. DOMAIN t = 1 .. p + q
  BY <1>3, LenProperties
<1>6. IsInjective(t)
  <2> SUFFICES ASSUME NEW i \in 1 .. p + q, NEW j \in 1 .. p + q, t[i] = t[j]
               PROVE  i = j
    BY <1>5 DEF IsInjective
  <2>1. CASE i <= p /\ j <= p
    <3>1. i \in 1 .. p /\ j \in 1 .. p /\ u[i] = u[j]
      BY <1>1, <1>3, <2>1
    <3> QED BY <1>1, <3>1 DEF IsInjective
  <2>2. CASE ~(i <= p) /\ ~(j <= p)
    <3>1. i - p \in 1 .. q /\ j - p \in 1 .. q /\ v[i - p] = v[j - p]
      BY <1>1, <1>2, <1>3, <2>2
    <3>2. i - p = j - p
      BY <1>2, <3>1 DEF IsInjective
    <3> QED BY <1>1, <3>2
  <2>3. ASSUME NEW a \in 1 .. p + q, NEW b \in 1 .. p + q, a <= p, ~(b <= p)
        PROVE  t[a] # t[b]
    <3>1. a \in 1 .. p /\ b - p \in 1 .. q
      BY <1>1, <1>2, <2>3
    <3>2. t[a] = u[a] /\ t[b] = v[b - p]
      BY <1>3, <2>3
    <3> QED BY <1>1, <1>2, <3>1, <3>2
  <2> QED BY <2>1, <2>2, <2>3
<1>7. /\ \A j \in 0 .. p : Around(h, t, j) = Around(h, u, j)
      /\ \A j \in 1 .. q : Around(h, t, p + j) = v[j]
      /\ Around(h, t, p + q + 1) = h
  <2>1. \A j \in 0 .. p : Around(h, t, j) = Around(h, u, j)
    BY <1>1, <1>2, <1>3 DEF Around, p
  <2>2. ASSUME NEW j \in 1 .. q PROVE Around(h, t, p + j) = v[j]
    <3>1. p + j \in 1 .. p + q /\ ~(p + j <= p) /\ (p + j) - p = j
      BY <1>1, <1>2
    <3> QED BY <1>3, <3>1 DEF Around
  <2>3. ~(p + q + 1 \in 1 .. p + q)
    BY <1>1, <1>2
  <2> QED BY <1>3, <2>1, <2>2, <2>3 DEF Around
<1>8. ASSUME NEW j \in 0 .. p + q PROVE r[Around(h, t, j)] = Around(h, t, j + 1)
  <2>1. CASE j < p
    <3>1. j \in 0 .. p - 1 /\ j \in 0 .. p /\ j + 1 \in 0 .. p
      BY <1>1, <2>1
    <3> QED BY <1>1, <1>4, <1>7, <3>1
  <2>2. CASE j = p
    <3>1. 0 \in 0 .. q /\ 0 + 1 = 1 /\ 1 \in 1 .. q /\ p \in 0 .. p
      BY <1>1, <1>2
    <3>2. f[l] = v[1]
      BY <1>2, <3>1
    <3> QED BY <1>4, <1>7, <2>2, <3>1, <3>2
  <2>3. CASE p < j /\ j < p + q
    <3> DEFINE i == j - p
    <3>1. /\ i \in 1 .. q - 1 /\ i \in 1 .. q /\ i + 1 \in 1 .. q /\ i \in 0 .. q
          /\ p + i = j /\ p + (i + 1) = j + 1
      BY <1>1, <1>2, <2>3
    <3> HIDE DEF i
    <3>2. f[v[i]] = v[i + 1]
      BY <1>2, <3>1
    <3> QED BY <1>4, <1>7, <3>1, <3>2
  <2>4. CASE j = p + q
    <3>1. q \in 1 .. q /\ Around(h, t, p + q) = v[q] /\ Around(l, v, q) = v[q]
      BY <1>2, <1>7
    <3> QED BY <1>4, <1>7, <2>4, <3>1
  <2> QED BY <1>1, <1>2, <2>1, <2>2, <2>3, <2>4
<1> QED BY <1>3, <1>6, <1>8 DEF Threads, t, p, q

-----------------------------------------------------------------------------
(* What the operations make of the lists *)

\* prev leads along a list the other way.
LEMMA BackLinks ==
  ASSUME NEW m, NEW S, Ring(m, S), NEW h \in Heads \cap S, NEW s,
         Threads(m.next, h, s), ToSet(s) \subseteq S, NEW k \in 0 .. Len(s)
  PROVE  m.prev[Around(h, s, k + 1)] = Around(h, s, k)
<1>1. /\ Len(s) \in Nat /\ Around(h, s, 0) = h
      /\ \A j \in 1 .. Len(s) : Around(h, s, j) = s[j] /\ s[j] \in ToSet(s)
  BY AroundFacts DEF Threads
<1>2. Around(h, s, k) \in S
  <2>1. k = 0 \/ k \in 1 .. Len(s)
    BY <1>1
  <2> QED BY <1>1, <2>1
<1>3. m.next[Around(h, s, k)] = Around(h, s, k + 1)
  BY DEF Threads
<1> QED BY <1>2, <1>3 DEF Ring

\* What is known of the lists of a sound memory.
Known(m, S, L) ==
  /\ m \in Memory /\ S \subseteq Item /\ Ring(m, S)
  /\ L \in [Heads -> Seq(Nodes)]
  /\ \A h \in Heads \ S : L[h] = <<>>
  /\ \A h \in Heads \cap S : Threads(m.next, h, L[h])
  /\ \A h \in Heads : /\ ToSet(L[h]) \subseteq S /\ ToSet(L[h]) \subseteq Nodes
                      /\ IsInjective(L[h]) /\ Len(L[h]) \in Nat
                      /\ DOMAIN L[h] = 1 .. Len(L[h])
  /\ \A g, h \in Heads : g # h => ToSet(L[g]) \cap ToSet(L[h]) = {}

\* Known() of the lists that a sound memory holds.
LEMMA ListFacts ==
  ASSUME NEW m, NEW S, Sound(m, S), NEW L, L = ListsOf(m, S)
  PROVE  Known(m, S, L)
<1>1. Laid(m, S, L) /\ Apiece(m, S, L)
  BY SoundLists
<1>2. m \in Memory /\ S \subseteq Item /\ Ring(m, S)
  BY DEF Sound
<1>3. L \in [Heads -> Seq(Nodes)]
  BY <1>1 DEF Laid
<1>4. ASSUME NEW h \in Heads
      PROVE  /\ ToSet(L[h]) \subseteq S /\ ToSet(L[h]) \subseteq Nodes
             /\ IsInjective(L[h]) /\ Len(L[h]) \in Nat
             /\ DOMAIN L[h] = 1 .. Len(L[h])
  <2>1. ToSet(L[h]) \subseteq S
    BY <1>1 DEF Apiece
  <2>2. L[h] \in Seq(Nodes)
    BY <1>3
  <2>3. ToSet(L[h]) \subseteq Nodes /\ Len(L[h]) \in Nat /\ DOMAIN L[h] = 1 .. Len(L[h])
    BY <2>2, Members, LenProperties
  <2>4. IsInjective(L[h])
    <3>1. CASE h \in S
      BY <1>1, <3>1 DEF Laid, Threads
    <3>2. CASE h \notin S
      <4>1. L[h] = <<>>
        BY <1>1, <3>2 DEF Laid
      <4> QED BY <4>1 DEF IsInjective
    <3> QED BY <3>1, <3>2
  <2> QED BY <2>1, <2>3, <2>4
<1>5. \A h \in Heads : ToSet(L[h]) \subseteq Nodes
  BY <1>4
<1>6. ASSUME NEW g \in Heads, NEW h \in Heads, g # h
      PROVE  ToSet(L[g]) \cap ToSet(L[h]) = {}
  BY <1>1, <1>5, <1>6 DEF Apiece
<1> QED BY <1>1, <1>2, <1>3, <1>4, <1>6 DEF Laid, Known

\* A list that is empty, and one that is not.
LEMMA EmptyLists ==
  ASSUME NEW m, NEW S, Sound(m, S), NEW L, L = ListsOf(m, S), NEW h \in Heads \cap S
  PROVE  L[h] = <<>> <=> m.next[h] = h
<1>1. L[h] \in Seq(Nodes) /\ Threads(m.next, h, L[h])
  BY ListFacts DEF Known
<1> DEFINE s == L[h]
<1> HIDE DEF s
<1>2. s \in Seq(Nodes) /\ m.next[h] = Around(h, s, 1)
  BY <1>1, FirstLink DEF s
<1>3. Len(s) \in Nat /\ (Len(s) = 0 <=> s = <<>>)
  BY <1>2, EmptySeq, LenProperties
<1>4. \A k \in 1 .. Len(s) : Around(h, s, k) # h
  BY <1>2, AroundFacts
<1>5. CASE Len(s) = 0
  BY <1>2, <1>3, <1>5 DEF Around, s
<1>6. CASE Len(s) # 0
  <2>1. 1 \in 1 .. Len(s)
    BY <1>3, <1>6
  <2> QED BY <1>2, <1>3, <1>4, <1>6, <2>1 DEF s
<1> QED BY <1>5, <1>6

\* The lists with n in front of those of h, and behind them.
PutFirst(L, n, h) == [L EXCEPT ![h] = <<n>> \o @]
PutLast(L, n, h) == [L EXCEPT ![h] = Append(@, n)]

\* list_add() puts the entry in front.
LEMMA AddLists ==
  ASSUME NEW m, NEW S, Sound(m, S), NEW L, L = ListsOf(m, S),
         NEW n \in Nodes \ S, NEW h \in Heads \cap S
  PROVE  ListsOf(list_add(m, n, h), S \cup {n}) = PutFirst(L, n, h)
<1> DEFINE r == list_add(m, n, h)
           T == S \cup {n}
           K == PutFirst(L, n, h)
<1>1. /\ m \in Memory /\ Ring(m, S)
      /\ L \in [Heads -> Seq(Nodes)]
      /\ \A g \in Heads \ S : L[g] = <<>>
      /\ \A g \in Heads \cap S : Threads(m.next, g, L[g])
      /\ \A g \in Heads : ToSet(L[g]) \subseteq S /\ ToSet(L[g]) \subseteq Nodes
  BY ListFacts DEF Known
<1>2. n \in Item /\ h \in Item /\ n \notin Heads /\ h \notin Nodes /\ n # h /\ m.next[h] \in Item
  BY <1>1, ListAssumption DEF Item, Ring, Sound
<1>3. r \in Memory /\ r.next = [m.next EXCEPT ![n] = m.next[h], ![h] = n]
  BY <1>1, <1>2 DEF list_add, __list_add, Memory
<1> HIDE DEF r
<1>4. /\ r.next[h] = n /\ r.next[n] = m.next[h]
      /\ \A x \in Item \ {n, h} : r.next[x] = m.next[x]
  BY <1>1, <1>2, <1>3 DEF Memory
<1>5. ASSUME NEW g \in Heads, NEW x \in ToSet(L[g])
      PROVE  r.next[x] = m.next[x]
  BY <1>1, <1>2, <1>4 DEF Item
<1>6. Threads(r.next, h, <<n>> \o L[h])
  BY <1>1, <1>4, <1>5, FrontThreads
<1>7. ASSUME NEW g \in Heads \cap S, g # h PROVE Threads(r.next, g, L[g])
  <2>1. r.next[g] = m.next[g]
    BY <1>2, <1>4, <1>7 DEF Item
  <2> QED BY <1>1, <1>5, <2>1, SameThreads
<1>8. K \in [Heads -> Seq(Nodes)] /\ K[h] = <<n>> \o L[h] /\ \A g \in Heads \ {h} : K[g] = L[g]
  <2>1. <<n>> \o L[h] \in Seq(Nodes)
    BY <1>6 DEF Threads
  <2> QED BY <1>1, <2>1 DEF PutFirst
<1> HIDE DEF K
<1>9. Laid(r, T, K)
  BY <1>1, <1>2, <1>6, <1>7, <1>8 DEF Laid
<1> QED BY <1>3, <1>9, LaidIs DEF r, K

\* list_add_tail() puts it behind.
LEMMA AddTailLists ==
  ASSUME NEW m, NEW S, Sound(m, S), NEW L, L = ListsOf(m, S),
         NEW n \in Nodes \ S, NEW h \in Heads \cap S
  PROVE  ListsOf(list_add_tail(m, n, h), S \cup {n}) = PutLast(L, n, h)
<1> DEFINE r == list_add_tail(m, n, h)
           T == S \cup {n}
           K == PutLast(L, n, h)
           s == L[h]
           last == Around(h, s, Len(s))
<1>1. /\ m \in Memory /\ Ring(m, S) /\ S \subseteq Item
      /\ L \in [Heads -> Seq(Nodes)]
      /\ \A g \in Heads \ S : L[g] = <<>>
      /\ \A g \in Heads \cap S : Threads(m.next, g, L[g])
      /\ \A g \in Heads : ToSet(L[g]) \subseteq S /\ ToSet(L[g]) \subseteq Nodes
      /\ \A g \in Heads \ {h} : ToSet(L[g]) \cap ToSet(L[h]) = {}
  BY ListFacts DEF Known
<1>2. n \in Item /\ h \in Item /\ n \notin Heads /\ h \notin Nodes /\ n # h
  BY ListAssumption DEF Item
<1>3. /\ s \in Seq(Nodes) /\ Threads(m.next, h, s) /\ ToSet(s) \subseteq S
      /\ IsInjective(s) /\ DOMAIN s = 1 .. Len(s)
      /\ Len(s) \in Nat /\ Around(h, s, 0) = h
      /\ \A k \in 1 .. Len(s) : Around(h, s, k) = s[k] /\ s[k] \in ToSet(s) /\ s[k] # h
  BY <1>1, AroundFacts DEF Threads
<1> HIDE DEF s
<1>4. m.prev[h] = last
  <2>1. Len(s) \in 0 .. Len(s) /\ Around(h, s, Len(s) + 1) = h
    BY <1>3, AroundFacts
  <2>2. m.prev[Around(h, s, Len(s) + 1)] = Around(h, s, Len(s))
    BY <1>1, <1>3, <2>1, BackLinks
  <2> QED BY <2>1, <2>2
<1>5. last \in {h} \cup ToSet(s) /\ last \in S
  <2>1. Len(s) = 0 \/ Len(s) \in 1 .. Len(s)
    BY <1>3
  <2> QED BY <1>3, <2>1
<1> HIDE DEF last
<1>6. r \in Memory /\ r.next = [m.next EXCEPT ![n] = h, ![last] = n]
  BY <1>1, <1>2, <1>4, <1>5 DEF list_add_tail, __list_add, Memory
<1> HIDE DEF r
<1>7. /\ r.next[last] = n /\ r.next[n] = h
      /\ \A x \in Item \ {n, last} : r.next[x] = m.next[x]
  BY <1>1, <1>2, <1>5, <1>6 DEF Memory
<1>8. Threads(r.next, h, Append(s, n))
  <2>1. ASSUME NEW k \in 0 .. Len(s) - 1
        PROVE  r.next[Around(h, s, k)] = m.next[Around(h, s, k)]
    <3>1. Around(h, s, k) \in S /\ Around(h, s, k) # last
      <4>1. CASE k = 0
        <5>1. Len(s) \in 1 .. Len(s)
          BY <1>3, <4>1
        <5> QED BY <1>3, <4>1, <5>1 DEF last
      <4>2. CASE k # 0
        <5>0. Len(s) \in Nat
          BY <1>3
        <5>1. k \in 1 .. Len(s) /\ Len(s) \in 1 .. Len(s) /\ k # Len(s)
          BY <4>2, <5>0
        <5>2. s[k] # s[Len(s)]
          BY <1>3, <5>1 DEF IsInjective
        <5> QED BY <1>3, <5>1, <5>2 DEF last
      <4> QED BY <4>1, <4>2
    <3> QED BY <1>1, <1>7, <3>1
  <2>2. n \notin ToSet(s) /\ n \in Nodes
    BY <1>3
  <2> QED BY <1>3, <1>7, <2>1, <2>2, BackThreads DEF last
<1>9. ASSUME NEW g \in Heads \cap S, g # h PROVE Threads(r.next, g, L[g])
  <2>1. r.next[g] = m.next[g]
    <3>1. g \in Item \ {n, last}
      BY <1>1, <1>2, <1>3, <1>5, <1>9, ListAssumption DEF Item, s
    <3> QED BY <1>7, <3>1
  <2>2. ASSUME NEW x \in ToSet(L[g]) PROVE r.next[x] = m.next[x]
    <3>1. x \in S /\ x \in Nodes /\ x \notin ToSet(s) /\ x # h
      BY <1>1, <1>2, <1>9 DEF s
    <3>2. x \in Item \ {n, last}
      BY <1>1, <1>5, <3>1
    <3> QED BY <1>7, <3>2
  <2> QED BY <1>1, <2>1, <2>2, SameThreads
<1>10. K \in [Heads -> Seq(Nodes)] /\ K[h] = Append(s, n) /\ \A g \in Heads \ {h} : K[g] = L[g]
  <2>1. Append(s, n) \in Seq(Nodes)
    BY <1>8 DEF Threads
  <2> QED BY <1>1, <2>1 DEF s, PutLast
<1> HIDE DEF K
<1>11. Laid(r, T, K)
  BY <1>1, <1>2, <1>8, <1>9, <1>10 DEF Laid
<1> QED BY <1>6, <1>11, LaidIs DEF r, K

\* The lists without n.
Removed(L, n) == [h \in Heads |-> RemoveFirst(L[h], n)]

\* Nor off any of them.
LEMMA RemovedNone ==
  ASSUME NEW L \in [Heads -> Seq(Nodes)], NEW n, \A h \in Heads : n \notin ToSet(L[h])
  PROVE  Removed(L, n) = L
<1>1. \A h \in Heads : RemoveFirst(L[h], n) = L[h]
  BY RemoveFirstOfNone
<1>2. L = [h \in Heads |-> L[h]]
  OBVIOUS
<1> QED BY <1>1, <1>2 DEF Removed

\* __list_del_entry() takes the entry off the list it is on, if any, and no other.
LEMMA DelLists ==
  ASSUME NEW m, NEW S, Sound(m, S), NEW L, L = ListsOf(m, S), NEW n \in Nodes \cap S
  PROVE  ListsOf(__list_del_entry(m, n), S \ {n}) = Removed(L, n)
<1> DEFINE r == __list_del_entry(m, n)
           T == S \ {n}
           K == Removed(L, n)
<1>0. /\ m \in Memory /\ Ring(m, S) /\ S \subseteq Item
      /\ L \in [Heads -> Seq(Nodes)]
      /\ \A g \in Heads \ S : L[g] = <<>>
      /\ \A g \in Heads \cap S : Threads(m.next, g, L[g])
      /\ \A g, h \in Heads : g # h => ToSet(L[g]) \cap ToSet(L[h]) = {}
  BY ListFacts DEF Known
<1>1. \A g \in Heads : /\ ToSet(L[g]) \subseteq S /\ ToSet(L[g]) \subseteq Nodes
                       /\ IsInjective(L[g]) /\ DOMAIN L[g] = 1 .. Len(L[g])
  BY ListFacts DEF Known
<1>2. n \notin Heads /\ Heads \cap T = Heads \cap S /\ Heads \ T = Heads \ S
  BY ListAssumption
<1>3. /\ r \in Memory /\ r.next = [m.next EXCEPT ![m.prev[n]] = m.next[n]]
      /\ m.prev[n] \in S /\ m.next[n] \in S /\ m.next[m.prev[n]] = n
  BY <1>0 DEF __list_del_entry, __list_del, Memory, Ring
<1> HIDE DEF r
<1>4. r.next[m.prev[n]] = m.next[n] /\ \A x \in Item \ {m.prev[n]} : r.next[x] = m.next[x]
  BY <1>0, <1>1, <1>3 DEF Memory
<1>5. CASE \A h \in Heads : n \notin ToSet(L[h])
  <2>1. m.next[n] = n
    BY <1>5, SoundLists DEF Apiece
  <2>2. m.prev[n] = n
    BY <1>0, <1>1, <2>1 DEF Ring
  <2>3. \A x \in Item : r.next[x] = m.next[x]
    BY <1>3, <1>4, <2>1, <2>2
  <2>4. \A g \in Heads \cap S : Threads(r.next, g, L[g])
    <3> SUFFICES ASSUME NEW g \in Heads \cap S PROVE Threads(r.next, g, L[g])
      OBVIOUS
    <3>1. r.next[g] = m.next[g] /\ \A x \in ToSet(L[g]) : r.next[x] = m.next[x]
      BY <1>0, <1>1, <2>3
    <3> QED BY <1>0, <1>1, <3>1, SameThreads
  <2>5. K = L
    BY <1>0, <1>1, <1>5, RemovedNone
  <2>6. Laid(r, T, L)
    BY <1>0, <1>1, <1>2, <2>4 DEF Laid
  <2> QED BY <1>3, <2>5, <2>6, LaidIs DEF r
<1>6. ASSUME NEW h \in Heads, n \in ToSet(L[h])
      PROVE  ListsOf(r, T) = K
  <2> DEFINE s == L[h]
  <2>1. h \in S
    <3>1. h \notin S => L[h] = <<>>
      BY <1>0
    <3>2. ToSet(<<>>) = {}
      BY DEF ToSet
    <3> QED BY <1>6, <3>1, <3>2
  <2>2. /\ s \in Seq(Nodes) /\ Threads(m.next, h, s) /\ ToSet(s) \subseteq S /\ n \in ToSet(s)
        /\ IsInjective(s) /\ DOMAIN s = 1 .. Len(s)
    BY <1>0, <1>1, <1>6, <2>1
  <2> HIDE DEF s
  <2>3. /\ Len(s) \in Nat /\ Around(h, s, 0) = h
        /\ \A k \in 1 .. Len(s) : Around(h, s, k) = s[k] /\ s[k] \in ToSet(s) /\ s[k] # h
    BY <2>2, AroundFacts
  <2>4. PICK k \in 1 .. Len(s) : s[k] = n
    BY <2>2, Members
  <2>5. m.prev[n] = Around(h, s, k - 1)
    <3>1. k - 1 \in 0 .. Len(s) /\ (k - 1) + 1 = k
      BY <2>3
    <3>2. m.prev[Around(h, s, (k - 1) + 1)] = Around(h, s, k - 1)
      BY <1>0, <1>1, <2>1, <2>2, <3>1, BackLinks
    <3> QED BY <2>3, <2>4, <3>1, <3>2
  <2>6. m.prev[n] \in {h} \cup ToSet(s)
    <3>1. Len(s) \in Nat
      BY <2>3
    <3>2. k - 1 = 0 \/ k - 1 \in 1 .. Len(s)
      BY <3>1
    <3> QED BY <2>3, <2>5, <3>2
  <2>7. Threads(r.next, h, RemoveAt(s, k))
    <3>1. ASSUME NEW j \in 0 .. Len(s) \ {k - 1, k}
          PROVE  r.next[Around(h, s, j)] = m.next[Around(h, s, j)]
      <4>0. Len(s) \in Nat
        BY <2>3
      <4>1. Around(h, s, j) \in S /\ Around(h, s, j) # Around(h, s, k - 1)
        <5>1. CASE j = 0
          <6>1. k - 1 \in 1 .. Len(s)
            BY <4>0, <5>1
          <6> QED BY <2>1, <2>3, <5>1, <6>1
        <5>2. CASE j # 0
          <6>1. j \in 1 .. Len(s) /\ (k - 1 = 0 \/ k - 1 \in 1 .. Len(s)) /\ j # k - 1
            BY <4>0, <5>2
          <6>2. CASE k - 1 = 0
            BY <2>2, <2>3, <6>1, <6>2
          <6>3. CASE k - 1 \in 1 .. Len(s)
            <7>1. s[j] # s[k - 1]
              BY <2>2, <6>1, <6>3 DEF IsInjective
            <7> QED BY <2>2, <2>3, <6>1, <6>3, <7>1
          <6> QED BY <6>1, <6>2, <6>3
        <5> QED BY <5>1, <5>2
      <4> QED BY <1>0, <1>1, <1>4, <2>5, <4>1
    <3>2. r.next[Around(h, s, k - 1)] = m.next[s[k]]
      BY <1>4, <2>4, <2>5
    <3> QED BY <2>2, <3>1, <3>2, RemoveThreads
  <2>8. ASSUME NEW g \in Heads \cap S, g # h PROVE Threads(r.next, g, L[g])
    <3>1. r.next[g] = m.next[g]
      <4>1. g \in Item \ {m.prev[n]}
        BY <1>0, <1>1, <2>2, <2>6, <2>8, ListAssumption, Members
      <4> QED BY <1>4, <4>1
    <3>2. ASSUME NEW x \in ToSet(L[g]) PROVE r.next[x] = m.next[x]
      <4>1. x \in S /\ x \in Nodes /\ x \notin ToSet(s) /\ x # h
        BY <1>0, <1>1, <2>8, ListAssumption DEF s
      <4>2. x \in Item \ {m.prev[n]}
        BY <1>0, <1>1, <2>6, <4>1
      <4> QED BY <1>4, <4>2
    <3> QED BY <1>0, <1>1, <3>1, <3>2, SameThreads
  <2>9. /\ K \in [Heads -> Seq(Nodes)] /\ K[h] = RemoveAt(s, k)
        /\ \A g \in Heads \ {h} : K[g] = L[g]
    <3>1. RemoveAt(s, k) \in Seq(Nodes)
      BY <2>7 DEF Threads
    <3>2. RemoveFirst(L[h], n) = RemoveAt(s, k)
      BY <2>2, <2>4, RemoveFirstIs DEF s
    <3>3. ASSUME NEW g \in Heads \ {h} PROVE RemoveFirst(L[g], n) = L[g]
      <4>1. n \notin ToSet(L[g]) /\ L[g] \in Seq(Nodes)
        BY <1>0, <1>1, <1>6
      <4> QED BY <4>1, RemoveFirstOfNone
    <3> QED BY <1>0, <1>1, <3>1, <3>2, <3>3 DEF Removed
  <2> HIDE DEF K
  <2>10. \A g \in Heads \ T : K[g] = <<>>
    BY <1>0, <1>1, <1>2, <2>1, <2>9
  <2>11. \A g \in Heads \cap T : Threads(r.next, g, K[g])
    BY <1>2, <2>7, <2>8, <2>9
  <2>12. Laid(r, T, K)
    BY <2>9, <2>10, <2>11 DEF Laid
  <2> QED BY <1>3, <2>12, LaidIs
<1> QED BY <1>5, <1>6 DEF r, K

\* An initialised head has no entries; an initialised entry is on no list.
LEMMA InitLists ==
  ASSUME NEW m, NEW S, Sound(m, S), NEW x \in Item \ S
  PROVE  ListsOf(INIT_LIST_HEAD(m, x), S \cup {x}) = ListsOf(m, S)
<1> DEFINE r == INIT_LIST_HEAD(m, x)
           L == ListsOf(m, S)
<1>1. /\ m \in Memory /\ S \subseteq Item
      /\ L \in [Heads -> Seq(Nodes)]
      /\ \A g \in Heads \ S : L[g] = <<>>
      /\ \A g \in Heads \cap S : Threads(m.next, g, L[g])
      /\ \A g \in Heads : ToSet(L[g]) \subseteq S
  BY ListFacts DEF Known
<1>2. r \in Memory /\ r.next = [m.next EXCEPT ![x] = x]
  BY <1>1 DEF INIT_LIST_HEAD, Memory
<1> HIDE DEF r
<1>3. r.next[x] = x /\ \A y \in Item \ {x} : r.next[y] = m.next[y]
  BY <1>1, <1>2 DEF Memory
<1> HIDE DEF L
<1>4. ASSUME NEW g \in Heads \cap S PROVE Threads(r.next, g, L[g])
  <2>1. r.next[g] = m.next[g] /\ \A y \in ToSet(L[g]) : r.next[y] = m.next[y]
    BY <1>1, <1>3
  <2> QED BY <1>1, <2>1, SameThreads
<1>5. ASSUME x \in Heads PROVE Threads(r.next, x, L[x])
  <2>1. L[x] = <<>>
    BY <1>1, <1>5
  <2>2. <<>> \in Seq(Nodes) /\ IsInjective(<<>>) /\ Len(<<>>) = 0
    BY DEF IsInjective
  <2>3. \A k \in 0 .. 1 : Around(x, <<>>, k) = x
    BY <2>2 DEF Around
  <2> QED BY <1>3, <2>1, <2>2, <2>3 DEF Threads
<1>6. Laid(r, S \cup {x}, L)
  BY <1>1, <1>4, <1>5 DEF Laid
<1> QED BY <1>2, <1>6, LaidIs DEF r, L

\* Forgetting an item that points to itself changes no list.
LEMMA DropLists ==
  ASSUME NEW m, NEW S, Sound(m, S), NEW x \in S, m.next[x] = x
  PROVE  ListsOf(m, S \ {x}) = ListsOf(m, S)
<1>1. ASSUME NEW h \in Heads
      PROVE  ListsOf(m, S)[h] = IF h \in S \ {x} THEN Chain(m.next, h) ELSE <<>>
  <2>1. CASE h = x
    BY <1>1, <2>1, EmptyLists
  <2>2. CASE h # x
    BY <2>2 DEF ListsOf
  <2> QED BY <2>1, <2>2
<1>2. ListsOf(m, S) = [h \in Heads |-> ListsOf(m, S)[h]]
  BY DEF ListsOf
<1>3. ListsOf(m, S \ {x}) = [h \in Heads |-> IF h \in S \ {x} THEN Chain(m.next, h) ELSE <<>>]
  BY DEF ListsOf
<1> QED BY <1>1, <1>2, <1>3

\* Nor does writing to what is not in use.
LEMMA PoisonLists ==
  ASSUME NEW m, NEW S, Sound(m, S), NEW r \in Memory, \A x \in S : r.next[x] = m.next[x]
  PROVE  ListsOf(r, S) = ListsOf(m, S)
<1> DEFINE L == ListsOf(m, S)
<1>1. /\ L \in [Heads -> Seq(Nodes)]
      /\ \A g \in Heads \ S : L[g] = <<>>
      /\ \A g \in Heads \cap S : Threads(m.next, g, L[g])
      /\ \A g \in Heads : ToSet(L[g]) \subseteq S
  BY ListFacts DEF Known
<1> HIDE DEF L
<1>2. ASSUME NEW g \in Heads \cap S PROVE Threads(r.next, g, L[g])
  <2>1. r.next[g] = m.next[g] /\ \A y \in ToSet(L[g]) : r.next[y] = m.next[y]
    BY <1>1
  <2> QED BY <1>1, <2>1, SameThreads
<1>3. Laid(r, S, L)
  BY <1>1, <1>2 DEF Laid
<1> QED BY <1>3, LaidIs DEF L

\* The lists with new in the place of old.
Replaced(L, old, new) ==
  [h \in Heads |-> [k \in DOMAIN L[h] |-> IF L[h][k] = old THEN new ELSE L[h][k]]]

\* list_replace() puts the new entry where the old one was.
LEMMA ReplaceLists ==
  ASSUME NEW m, NEW S, Sound(m, S), NEW L, L = ListsOf(m, S),
         NEW old \in Nodes \cap S, m.next[old] # old, NEW new \in Nodes \ S
  PROVE  ListsOf(list_replace(m, old, new), (S \ {old}) \cup {new}) = Replaced(L, old, new)
<1> DEFINE r == list_replace(m, old, new)
           T == (S \ {old}) \cup {new}
           K == Replaced(L, old, new)
<1>0. /\ m \in Memory /\ Ring(m, S) /\ S \subseteq Item
      /\ L \in [Heads -> Seq(Nodes)]
      /\ \A g \in Heads \ S : L[g] = <<>>
      /\ \A g \in Heads \cap S : Threads(m.next, g, L[g])
      /\ \A g, h \in Heads : g # h => ToSet(L[g]) \cap ToSet(L[h]) = {}
  BY ListFacts DEF Known
<1>1. \A g \in Heads : /\ ToSet(L[g]) \subseteq S /\ ToSet(L[g]) \subseteq Nodes
                       /\ IsInjective(L[g]) /\ DOMAIN L[g] = 1 .. Len(L[g])
  BY ListFacts DEF Known
<1>2. /\ old \notin Heads /\ new \notin Heads /\ old # new
      /\ Heads \cap T = Heads \cap S /\ Heads \ T = Heads \ S
  BY ListAssumption
<1>3. /\ r \in Memory /\ r.next = [m.next EXCEPT ![new] = m.next[old], ![m.prev[old]] = new]
      /\ m.prev[old] \in S /\ m.next[old] \in S /\ m.next[m.prev[old]] = old
  BY <1>0 DEF list_replace, Memory, Ring, Item
<1> HIDE DEF r
<1>4. /\ r.next[m.prev[old]] = new /\ r.next[new] = m.next[old]
      /\ \A x \in Item \ {new, m.prev[old]} : r.next[x] = m.next[x]
  BY <1>0, <1>3 DEF Memory, Item
<1>5. PICK h \in Heads : old \in ToSet(L[h])
  BY SoundLists DEF Apiece
<1> DEFINE s == L[h]
<1>6. h \in S
  <2>1. h \notin S => L[h] = <<>>
    BY <1>0
  <2>2. ToSet(<<>>) = {}
    BY DEF ToSet
  <2> QED BY <1>5, <2>1, <2>2
<1>7. /\ s \in Seq(Nodes) /\ Threads(m.next, h, s) /\ ToSet(s) \subseteq S /\ old \in ToSet(s)
      /\ IsInjective(s) /\ DOMAIN s = 1 .. Len(s)
  BY <1>0, <1>1, <1>5, <1>6
<1> HIDE DEF s
<1>8. /\ Len(s) \in Nat /\ Around(h, s, 0) = h
      /\ \A k \in 1 .. Len(s) : Around(h, s, k) = s[k] /\ s[k] \in ToSet(s) /\ s[k] # h
  BY <1>7, AroundFacts
<1>len. Len(s) \in Nat
  BY <1>8
<1>9. PICK k \in 1 .. Len(s) : s[k] = old
  BY <1>7, Members
<1>10. m.prev[old] = Around(h, s, k - 1)
  <2>1. k - 1 \in 0 .. Len(s) /\ (k - 1) + 1 = k
    BY <1>len
  <2>2. m.prev[Around(h, s, (k - 1) + 1)] = Around(h, s, k - 1)
    BY <1>0, <1>6, <1>7, <2>1, BackLinks
  <2> QED BY <1>8, <1>9, <2>1, <2>2
<1>11. m.prev[old] \in {h} \cup ToSet(s)
  <2>1. k - 1 = 0 \/ k - 1 \in 1 .. Len(s)
    BY <1>len
  <2> QED BY <1>8, <1>10, <2>1
<1>12. Threads(r.next, h, [s EXCEPT ![k] = new])
  <2>1. ASSUME NEW j \in 0 .. Len(s) \ {k - 1, k}
        PROVE  r.next[Around(h, s, j)] = m.next[Around(h, s, j)]
    <3>1. Around(h, s, j) \in S /\ Around(h, s, j) # Around(h, s, k - 1)
      <4>1. CASE j = 0
        <5>1. k - 1 \in 1 .. Len(s)
          BY <1>len, <4>1
        <5> QED BY <1>6, <1>8, <4>1, <5>1
      <4>2. CASE j # 0
        <5>1. j \in 1 .. Len(s) /\ (k - 1 = 0 \/ k - 1 \in 1 .. Len(s)) /\ j # k - 1
          BY <1>len, <4>2
        <5>2. CASE k - 1 = 0
          BY <1>7, <1>8, <5>1, <5>2
        <5>3. CASE k - 1 \in 1 .. Len(s)
          <6>1. s[j] # s[k - 1]
            BY <1>7, <5>1, <5>3 DEF IsInjective
          <6> QED BY <1>7, <1>8, <5>1, <5>3, <6>1
        <5> QED BY <5>1, <5>2, <5>3
      <4> QED BY <4>1, <4>2
    <3> QED BY <1>0, <1>4, <1>10, <3>1
  <2>2. r.next[Around(h, s, k - 1)] = new /\ r.next[new] = m.next[s[k]]
    BY <1>4, <1>9, <1>10
  <2>3. new \in Nodes /\ new \notin ToSet(s)
    BY <1>7
  <2> QED BY <1>7, <2>1, <2>2, <2>3, ReplaceThreads
<1>13. ASSUME NEW g \in Heads \cap S, g # h PROVE Threads(r.next, g, L[g])
  <2>1. r.next[g] = m.next[g]
    <3>1. g \in Item \ {new, m.prev[old]}
      BY <1>0, <1>2, <1>7, <1>11, <1>13, ListAssumption, Members
    <3> QED BY <1>4, <3>1
  <2>2. ASSUME NEW x \in ToSet(L[g]) PROVE r.next[x] = m.next[x]
    <3>1. x \in S /\ x \in Nodes /\ x \notin ToSet(s) /\ x # h
      BY <1>0, <1>1, <1>13, ListAssumption DEF s
    <3>2. x \in Item \ {new, m.prev[old]}
      BY <1>0, <1>11, <3>1
    <3> QED BY <1>4, <3>2
  <2> QED BY <1>0, <2>1, <2>2, SameThreads
<1>14. /\ K \in [Heads -> Seq(Nodes)] /\ K[h] = [s EXCEPT ![k] = new]
       /\ \A g \in Heads \ {h} : K[g] = L[g]
  <2>1. [s EXCEPT ![k] = new] \in Seq(Nodes)
    BY <1>12 DEF Threads
  <2>2. [i \in DOMAIN s |-> IF s[i] = old THEN new ELSE s[i]] = [s EXCEPT ![k] = new]
    <3>1. \A i \in DOMAIN s : s[i] = old <=> i = k
      BY <1>7, <1>9 DEF IsInjective
    <3>2. [s EXCEPT ![k] = new] = [i \in DOMAIN s |-> IF i = k THEN new ELSE s[i]]
      OBVIOUS
    <3> QED BY <3>1, <3>2
  <2>3. ASSUME NEW g \in Heads \ {h}
        PROVE  [i \in DOMAIN L[g] |-> IF L[g][i] = old THEN new ELSE L[g][i]] = L[g]
    <3>1. old \notin ToSet(L[g]) /\ L[g] \in Seq(Nodes)
      BY <1>0, <1>5
    <3>2. \A i \in DOMAIN L[g] : L[g][i] # old
      BY <3>1, Entry
    <3>3. L[g] = [i \in DOMAIN L[g] |-> L[g][i]]
      BY <3>1
    <3> QED BY <3>2, <3>3
  <2>4. K[h] = [s EXCEPT ![k] = new]
    BY <2>2 DEF Replaced, s
  <2>5. \A g \in Heads \ {h} : K[g] = L[g]
    BY <2>3 DEF Replaced
  <2>6. \A g \in Heads : K[g] \in Seq(Nodes)
    BY <1>0, <2>1, <2>4, <2>5
  <2>7. K = [g \in Heads |-> K[g]]
    BY DEF Replaced
  <2> HIDE DEF K
  <2> QED BY <2>4, <2>5, <2>6, <2>7
<1> HIDE DEF K
<1>15. Laid(r, T, K)
  <2>1. \A g \in Heads \ T : K[g] = <<>>
    BY <1>0, <1>2, <1>6, <1>14
  <2>2. \A g \in Heads \cap T : Threads(r.next, g, K[g])
    BY <1>2, <1>12, <1>13, <1>14
  <2> QED BY <1>14, <2>1, <2>2 DEF Laid
<1> QED BY <1>3, <1>15, LaidIs DEF r, K

\* The first k entries of h become the list l.
Halved(L, l, h, k) ==
  [L EXCEPT ![l] = SubSeq(L[h], 1, k), ![h] = SubSeq(L[h], k + 1, Len(L[h]))]

\* e is the k-th entry of h.
IsEntry(e, L, h, k) == k \in 1 .. Len(L[h]) /\ e = L[h][k]

\* __list_cut_position() moves the first k entries to l.
LEMMA CutLists ==
  ASSUME NEW m, NEW S, Sound(m, S), NEW L, L = ListsOf(m, S),
         NEW h \in Heads \cap S, NEW l \in Heads \ S,
         NEW e, NEW k, IsEntry(e, L, h, k)
  PROVE  ListsOf(__list_cut_position(m, l, h, e), S \cup {l}) = Halved(L, l, h, k)
<1> DEFINE s == L[h]
           r == __list_cut_position(m, l, h, e)
           T == S \cup {l}
           front == SubSeq(s, 1, k)
           rest == SubSeq(s, k + 1, Len(s))
           K == Halved(L, l, h, k)
<1>0. /\ m \in Memory /\ Ring(m, S) /\ S \subseteq Item
      /\ L \in [Heads -> Seq(Nodes)]
      /\ \A g \in Heads \ S : L[g] = <<>>
      /\ \A g \in Heads \cap S : Threads(m.next, g, L[g])
      /\ \A g, i \in Heads : g # i => ToSet(L[g]) \cap ToSet(L[i]) = {}
  BY ListFacts DEF Known
<1>1. \A g \in Heads : /\ ToSet(L[g]) \subseteq S /\ ToSet(L[g]) \subseteq Nodes
                       /\ IsInjective(L[g]) /\ DOMAIN L[g] = 1 .. Len(L[g])
  BY ListFacts DEF Known
<1>2. /\ s \in Seq(Nodes) /\ Threads(m.next, h, s) /\ ToSet(s) \subseteq S
      /\ ToSet(s) \subseteq Nodes
      /\ IsInjective(s) /\ DOMAIN s = 1 .. Len(s) /\ k \in 1 .. Len(s) /\ e = s[k]
  BY <1>0, <1>1 DEF IsEntry
<1> HIDE DEF s
<1>3. /\ Len(s) \in Nat
      /\ \A j \in 1 .. Len(s) : s[j] \in ToSet(s)
  BY <1>2, AroundFacts
<1>4. /\ e \in S /\ e \in ToSet(s) /\ e # h /\ e # l /\ h # l /\ l \in Item /\ m.next[e] \in S
      /\ m.next[h] \in S
  BY <1>0, <1>2, <1>3, ListAssumption DEF Item, Ring
<1>5. r \in Memory /\ r.next = [m.next EXCEPT ![l] = m.next[h], ![e] = l, ![h] = m.next[e]]
  BY <1>0, <1>4 DEF __list_cut_position, Memory, Item
<1> HIDE DEF r
<1>6. /\ r.next[l] = m.next[h] /\ r.next[e] = l /\ r.next[h] = m.next[e]
      /\ \A x \in Item \ {l, e, h} : r.next[x] = m.next[x]
  BY <1>0, <1>4, <1>5 DEF Memory
<1>7. ASSUME NEW j \in 1 .. Len(s), j # k PROVE r.next[s[j]] = m.next[s[j]]
  <2>1. s[j] # e
    BY <1>2, <1>7 DEF IsInjective
  <2>2. s[j] \in Item \ {l, e, h}
    BY <1>0, <1>2, <1>3, <2>1, ListAssumption
  <2> QED BY <1>6, <2>2
<1>8. Threads(r.next, l, front)
  <2>1. \A j \in 1 .. k - 1 : r.next[s[j]] = m.next[s[j]]
    <3> SUFFICES ASSUME NEW j \in 1 .. k - 1 PROVE r.next[s[j]] = m.next[s[j]]
      OBVIOUS
    <3>1. Len(s) \in Nat /\ k \in 1 .. Len(s)
      BY <1>2, <1>3
    <3>2. j \in 1 .. Len(s) /\ j # k
      BY <3>1
    <3> QED BY <1>7, <3>2
  <2>2. r.next[l] = m.next[h] /\ r.next[s[k]] = l
    BY <1>2, <1>6
  <2>3. Threads(m.next, h, s) /\ k \in 1 .. Len(s) /\ h \in Heads /\ l \in Heads
    BY <1>2
  <2> QED BY <2>1, <2>2, <2>3, CutThreads
<1>9. Threads(r.next, h, rest)
  <2>1. \A j \in k + 1 .. Len(s) : r.next[s[j]] = m.next[s[j]]
    <3> SUFFICES ASSUME NEW j \in k + 1 .. Len(s) PROVE r.next[s[j]] = m.next[s[j]]
      OBVIOUS
    <3>1. Len(s) \in Nat /\ k \in 1 .. Len(s)
      BY <1>2, <1>3
    <3>2. j \in 1 .. Len(s) /\ j # k
      BY <3>1
    <3> QED BY <1>7, <3>2
  <2>2. r.next[h] = m.next[s[k]]
    BY <1>2, <1>6
  <2> QED BY <1>2, <2>1, <2>2, RestThreads
<1>10. ASSUME NEW g \in Heads \cap S, g # h PROVE Threads(r.next, g, L[g])
  <2>1. r.next[g] = m.next[g]
    <3>1. g \in Item \ {l, e, h}
      BY <1>0, <1>2, <1>4, <1>10, ListAssumption
    <3> QED BY <1>6, <3>1
  <2>2. ASSUME NEW x \in ToSet(L[g]) PROVE r.next[x] = m.next[x]
    <3>1. x \in S /\ x \in Nodes /\ x \notin ToSet(s)
      BY <1>0, <1>1, <1>10 DEF s
    <3>2. x \in Item \ {l, e, h}
      BY <1>0, <1>4, <3>1, ListAssumption
    <3> QED BY <1>6, <3>2
  <2> QED BY <1>0, <2>1, <2>2, SameThreads
<1> HIDE DEF front, rest
<1>11. /\ K \in [Heads -> Seq(Nodes)] /\ K[h] = rest /\ K[l] = front
       /\ \A g \in Heads \ {h, l} : K[g] = L[g]
  <2>1. front \in Seq(Nodes) /\ rest \in Seq(Nodes)
    BY <1>8, <1>9 DEF Threads
  <2>2. K = [L EXCEPT ![l] = front, ![h] = rest]
    BY DEF Halved, front, rest, s
  <2> HIDE DEF K
  <2> QED BY <1>0, <1>4, <2>1, <2>2
<1> HIDE DEF K
<1>12. Laid(r, T, K)
  <2>1. \A g \in Heads \ T : K[g] = <<>>
    BY <1>0, <1>11
  <2>2. \A g \in Heads \cap T : Threads(r.next, g, K[g])
    BY <1>8, <1>9, <1>10, <1>11
  <2> QED BY <1>11, <2>1, <2>2 DEF Laid
<1>13. ListsOf(r, T) = K
  BY <1>5, <1>12, LaidIs
<1> QED BY <1>13 DEF r, K

\* __list_splice() at the front: the entries of l go in front of those of h.
LEMMA JoinFrontThreads ==
  ASSUME NEW f, NEW r, NEW h \in Heads, NEW l \in Heads,
         NEW u, Threads(f, h, u), NEW v, Threads(f, l, v),
         ToSet(u) \cap ToSet(v) = {},
         r[h] = f[l], r[Around(l, v, Len(v))] = f[h], v # <<>>,
         \A j \in 1 .. Len(u) : r[u[j]] = f[u[j]],
         \A j \in 1 .. Len(v) - 1 : r[v[j]] = f[v[j]]
  PROVE  Threads(r, h, v \o u)
<1> DEFINE t == v \o u
           p == Len(u)
           q == Len(v)
<1>1. /\ u \in Seq(Nodes) /\ IsInjective(u) /\ p \in Nat /\ DOMAIN u = 1 .. p
      /\ Around(h, u, 0) = h /\ Around(h, u, p + 1) = h
      /\ \A j \in 1 .. p : Around(h, u, j) = u[j] /\ u[j] \in ToSet(u)
      /\ \A j \in 0 .. p : f[Around(h, u, j)] = Around(h, u, j + 1)
  BY AroundFacts DEF Threads
<1>2. /\ v \in Seq(Nodes) /\ IsInjective(v) /\ q \in Nat \ {0} /\ DOMAIN v = 1 .. q
      /\ Around(l, v, 0) = l
      /\ \A j \in 1 .. q : Around(l, v, j) = v[j] /\ v[j] \in ToSet(v)
      /\ \A j \in 0 .. q : f[Around(l, v, j)] = Around(l, v, j + 1)
  BY AroundFacts, EmptySeq DEF Threads
<1>3. /\ t \in Seq(Nodes) /\ Len(t) = q + p
      /\ \A j \in 1 .. q + p : t[j] = IF j <= q THEN v[j] ELSE u[j - q]
  BY <1>1, <1>2, ConcatProperties
<1>4. /\ r[h] = f[l] /\ r[Around(l, v, q)] = f[h]
      /\ \A j \in 1 .. p : r[u[j]] = f[u[j]]
      /\ \A j \in 1 .. q - 1 : r[v[j]] = f[v[j]]
  OBVIOUS
<1> HIDE DEF t, p, q
<1>5. DOMAIN t = 1 .. q + p
  BY <1>3, LenProperties
<1>6. IsInjective(t)
  <2> SUFFICES ASSUME NEW i \in 1 .. q + p, NEW j \in 1 .. q + p, t[i] = t[j]
               PROVE  i = j
    BY <1>5 DEF IsInjective
  <2>1. CASE i <= q /\ j <= q
    <3>1. i \in 1 .. q /\ j \in 1 .. q /\ v[i] = v[j]
      BY <1>2, <1>3, <2>1
    <3> QED BY <1>2, <3>1 DEF IsInjective
  <2>2. CASE ~(i <= q) /\ ~(j <= q)
    <3>1. i - q \in 1 .. p /\ j - q \in 1 .. p /\ u[i - q] = u[j - q]
      BY <1>1, <1>2, <1>3, <2>2
    <3>2. i - q = j - q
      BY <1>1, <3>1 DEF IsInjective
    <3> QED BY <1>2, <3>2
  <2>3. ASSUME NEW a \in 1 .. q + p, NEW b \in 1 .. q + p, a <= q, ~(b <= q)
        PROVE  t[a] # t[b]
    <3>1. a \in 1 .. q /\ b - q \in 1 .. p
      BY <1>1, <1>2, <2>3
    <3>2. t[a] = v[a] /\ t[b] = u[b - q]
      BY <1>3, <2>3
    <3> QED BY <1>1, <1>2, <3>1, <3>2
  <2> QED BY <2>1, <2>2, <2>3
<1>7. /\ Around(h, t, 0) = h
      /\ \A j \in 1 .. q : Around(h, t, j) = v[j]
      /\ \A j \in 1 .. p + 1 : Around(h, t, q + j) = Around(h, u, j)
  <2>1. Around(h, t, 0) = h
    BY <1>3 DEF Around
  <2>2. \A j \in 1 .. q : Around(h, t, j) = v[j]
    BY <1>1, <1>2, <1>3 DEF Around
  <2>3. ASSUME NEW j \in 1 .. p + 1 PROVE Around(h, t, q + j) = Around(h, u, j)
    <3>1. CASE j = p + 1
      <4>1. ~(q + j \in 1 .. q + p)
        BY <1>1, <1>2, <3>1
      <4> QED BY <1>1, <1>3, <3>1, <4>1 DEF Around
    <3>2. CASE j # p + 1
      <4>1. q + j \in 1 .. q + p /\ ~(q + j <= q) /\ (q + j) - q = j /\ j \in 1 .. p
        BY <1>1, <1>2, <3>2
      <4> QED BY <1>1, <1>3, <4>1 DEF Around
    <3> QED BY <3>1, <3>2
  <2> QED BY <2>1, <2>2, <2>3
<1>8. ASSUME NEW j \in 0 .. q + p PROVE r[Around(h, t, j)] = Around(h, t, j + 1)
  <2>1. CASE j = 0
    <3>1. 0 \in 0 .. q /\ 0 + 1 = 1 /\ 1 \in 1 .. q
      BY <1>2
    <3>2. f[l] = v[1]
      BY <1>2, <3>1
    <3> QED BY <1>4, <1>7, <2>1, <3>1, <3>2
  <2>2. CASE 0 < j /\ j < q
    <3>1. j \in 1 .. q - 1 /\ j \in 1 .. q /\ j + 1 \in 1 .. q /\ j \in 0 .. q
      BY <1>1, <1>2, <2>2
    <3>2. f[v[j]] = v[j + 1]
      BY <1>2, <3>1
    <3> QED BY <1>4, <1>7, <3>1, <3>2
  <2>3. CASE j = q
    <3>1. q \in 1 .. q /\ 1 \in 1 .. p + 1 /\ 0 \in 0 .. p /\ 0 + 1 = 1
      BY <1>1, <1>2
    <3>2. f[h] = Around(h, u, 1)
      BY FirstLink
    <3> QED BY <1>2, <1>4, <1>7, <2>3, <3>1, <3>2
  <2>4. CASE q < j
    <3> DEFINE i == j - q
    <3>1. /\ i \in 1 .. p /\ i \in 0 .. p /\ i \in 1 .. p + 1 /\ i + 1 \in 1 .. p + 1
          /\ q + i = j /\ q + (i + 1) = j + 1
      BY <1>1, <1>2, <2>4
    <3> HIDE DEF i
    <3>2. f[u[i]] = Around(h, u, i + 1)
      BY <1>1, <3>1
    <3> QED BY <1>1, <1>4, <1>7, <3>1, <3>2
  <2> QED BY <1>1, <1>2, <2>1, <2>2, <2>3, <2>4
<1> QED BY <1>3, <1>6, <1>8 DEF Threads, t, p, q

\* The last item of a list is where prev leads from the head.
LEMMA LastLink ==
  ASSUME NEW m, NEW S, Ring(m, S), NEW h \in Heads \cap S, NEW s,
         Threads(m.next, h, s), ToSet(s) \subseteq S
  PROVE  /\ m.prev[h] = Around(h, s, Len(s))
         /\ m.prev[h] \in {h} \cup ToSet(s)
         /\ \A k \in 0 .. Len(s) - 1 :
              Around(h, s, k) \in {h} \cup ToSet(s) /\ Around(h, s, k) # m.prev[h]
<1>1. /\ s \in Seq(Nodes) /\ IsInjective(s)
      /\ Len(s) \in Nat /\ DOMAIN s = 1 .. Len(s)
      /\ Around(h, s, 0) = h /\ Around(h, s, Len(s) + 1) = h
      /\ \A k \in 1 .. Len(s) : Around(h, s, k) = s[k] /\ s[k] \in ToSet(s) /\ s[k] # h
  BY AroundFacts DEF Threads
<1>2. m.prev[h] = Around(h, s, Len(s))
  <2>1. Len(s) \in 0 .. Len(s)
    BY <1>1
  <2>2. m.prev[Around(h, s, Len(s) + 1)] = Around(h, s, Len(s))
    BY <2>1, BackLinks
  <2> QED BY <1>1, <2>2
<1>3. m.prev[h] \in {h} \cup ToSet(s)
  <2>1. Len(s) = 0 \/ Len(s) \in 1 .. Len(s)
    BY <1>1
  <2> QED BY <1>1, <1>2, <2>1
<1>4. ASSUME NEW k \in 0 .. Len(s) - 1
      PROVE  Around(h, s, k) \in {h} \cup ToSet(s) /\ Around(h, s, k) # m.prev[h]
  <2>0. Len(s) \in Nat
    BY <1>1
  <2>1. CASE k = 0
    <3>1. Len(s) \in 1 .. Len(s)
      BY <2>0, <2>1
    <3> QED BY <1>1, <1>2, <2>1, <3>1
  <2>2. CASE k # 0
    <3>1. k \in 1 .. Len(s) /\ Len(s) \in 1 .. Len(s) /\ k # Len(s)
      BY <2>0, <2>2
    <3>2. s[k] # s[Len(s)]
      BY <1>1, <3>1 DEF IsInjective
    <3> QED BY <1>1, <1>2, <3>1, <3>2
  <2> QED BY <2>1, <2>2
<1> QED BY <1>2, <1>3, <1>4

\* The operation writes the next fields of b and c only.
WritesOnly(m, r, b, c) == \A x \in Item \ {b, c} : r.next[x] = m.next[x]

\* Where l was joined to h.
Joined(L, l, h, t) == [L EXCEPT ![l] = <<>>, ![h] = t]

\* Whatever the new list of h is: the other lists are as they were.
LEMMA JoinedLists ==
  ASSUME NEW m, NEW S, Sound(m, S), NEW L, L = ListsOf(m, S),
         NEW l \in Heads \cap S, NEW h \in Heads \cap S, l # h, m.next[l] # l,
         NEW r \in Memory, NEW b \in {h} \cup ToSet(L[h]),
         WritesOnly(m, r, b, m.prev[l]), NEW t, Threads(r.next, h, t),
         NEW T, T = S \ {l}
  PROVE  ListsOf(r, T) = Joined(L, l, h, t)
<1>known. Known(m, S, L)
  BY ListFacts
<1>0. /\ m \in Memory /\ Ring(m, S) /\ S \subseteq Item
      /\ L \in [Heads -> Seq(Nodes)]
      /\ \A g \in Heads \ S : L[g] = <<>>
      /\ \A g \in Heads \cap S : Threads(m.next, g, L[g])
      /\ \A g, i \in Heads : g # i => ToSet(L[g]) \cap ToSet(L[i]) = {}
  BY <1>known DEF Known
<1>1. \A g \in Heads : /\ ToSet(L[g]) \subseteq S /\ ToSet(L[g]) \subseteq Nodes
                       /\ IsInjective(L[g]) /\ DOMAIN L[g] = 1 .. Len(L[g])
  BY <1>known DEF Known
<1> DEFINE K == Joined(L, l, h, t)
           last == m.prev[l]
<1>2. last \in ToSet(L[l])
  <2>1. L[l] # <<>> /\ Threads(m.next, l, L[l]) /\ ToSet(L[l]) \subseteq S
    BY <1>0, <1>1, EmptyLists
  <2>2. /\ Len(L[l]) \in Nat /\ Len(L[l]) # 0
        /\ \A k \in 1 .. Len(L[l]) : Around(l, L[l], k) = L[l][k] /\ L[l][k] \in ToSet(L[l])
    BY <1>0, <2>1, AroundFacts, EmptySeq
  <2>3. last = Around(l, L[l], Len(L[l]))
    BY <1>0, <2>1, LastLink
  <2>4. Len(L[l]) \in 1 .. Len(L[l])
    BY <2>2
  <2> QED BY <2>2, <2>3, <2>4
<1>3. \A x \in Item \ {b, last} : r.next[x] = m.next[x]
  BY DEF WritesOnly
<1> HIDE DEF last
<1>4. ASSUME NEW g \in Heads \cap T, g # h PROVE Threads(r.next, g, L[g])
  <2>1. r.next[g] = m.next[g]
    <3>1. g \notin Nodes /\ g # b /\ g # last
      BY <1>1, <1>2, <1>4, ListAssumption
    <3> QED BY <1>0, <1>3, <1>4, <3>1
  <2>2. ASSUME NEW x \in ToSet(L[g]) PROVE r.next[x] = m.next[x]
    <3>1. x \in S /\ x \in Nodes /\ x \notin ToSet(L[h]) /\ x \notin ToSet(L[l])
      BY <1>0, <1>1, <1>4
    <3>2. x \in Item \ {b, last}
      BY <1>0, <1>2, <3>1, ListAssumption
    <3> QED BY <1>3, <3>2
  <2>3. Threads(m.next, g, L[g]) /\ g \in Heads
    BY <1>0, <1>4
  <2> QED BY <2>1, <2>2, <2>3, SameThreads
<1>5. /\ K \in [Heads -> Seq(Nodes)] /\ K[h] = t /\ K[l] = <<>>
      /\ \A g \in Heads \ {h, l} : K[g] = L[g]
  <2>1. t \in Seq(Nodes) /\ <<>> \in Seq(Nodes)
    BY DEF Threads
  <2> QED BY <1>0, <2>1 DEF Joined
<1> HIDE DEF K
<1>6. Laid(r, T, K)
  <2>1. \A g \in Heads \ T : K[g] = <<>>
    BY <1>0, <1>5
  <2>2. \A g \in Heads \cap T : Threads(r.next, g, K[g])
    BY <1>4, <1>5
  <2> QED BY <1>5, <2>1, <2>2 DEF Laid
<1>7. ListsOf(r, T) = K
  BY <1>6, LaidIs
<1> QED BY <1>7 DEF K

\* The entries of l join those of h, in front of them or behind.
LEMMA SpliceLists ==
  ASSUME NEW m, NEW S, Sound(m, S), NEW L, L = ListsOf(m, S),
         NEW l \in Heads \cap S, NEW h \in Heads \cap S, l # h, m.next[l] # l,
         NEW T, T = S \ {l}
  PROVE  /\ ListsOf(__list_splice(m, l, h, m.next[h]), T) =
              Joined(L, l, h, L[l] \o L[h])
         /\ ListsOf(__list_splice(m, l, m.prev[h], h), T) =
              Joined(L, l, h, L[h] \o L[l])
<1> DEFINE u == L[h]
           v == L[l]
<1>0. /\ m \in Memory /\ Ring(m, S) /\ S \subseteq Item
      /\ L \in [Heads -> Seq(Nodes)]
      /\ \A g \in Heads \ S : L[g] = <<>>
      /\ \A g \in Heads \cap S : Threads(m.next, g, L[g])
      /\ \A g, i \in Heads : g # i => ToSet(L[g]) \cap ToSet(L[i]) = {}
  BY ListFacts DEF Known
<1>1. \A g \in Heads : /\ ToSet(L[g]) \subseteq S /\ ToSet(L[g]) \subseteq Nodes
                       /\ IsInjective(L[g]) /\ DOMAIN L[g] = 1 .. Len(L[g])
  BY ListFacts DEF Known
<1>2. /\ Threads(m.next, h, u) /\ Threads(m.next, l, v) /\ v # <<>>
      /\ ToSet(u) \cap ToSet(v) = {}
      /\ u \in Seq(Nodes) /\ v \in Seq(Nodes)
      /\ ToSet(u) \subseteq S \cap Nodes /\ ToSet(v) \subseteq S \cap Nodes
      /\ \A g \in Heads : g # h => ToSet(L[g]) \cap ToSet(u) = {}
      /\ \A g \in Heads : g # l => ToSet(L[g]) \cap ToSet(v) = {}
  BY <1>0, <1>1, EmptyLists
<1> HIDE DEF u, v
<1>3. /\ Len(u) \in Nat /\ Len(v) \in Nat
      /\ \A j \in 1 .. Len(u) : u[j] \in ToSet(u) /\ Around(h, u, j) = u[j]
      /\ \A j \in 1 .. Len(v) : v[j] \in ToSet(v) /\ Around(l, v, j) = v[j]
  BY <1>2, AroundFacts
<1> DEFINE last == m.prev[l]
<1>4. /\ last = Around(l, v, Len(v)) /\ last \in ToSet(v)
      /\ \A k \in 1 .. Len(v) - 1 : v[k] # last /\ v[k] \in ToSet(v)
  <2>1. Len(v) # 0
    BY <1>2, EmptySeq
  <2>2. Len(v) \in 1 .. Len(v) /\ \A k \in 1 .. Len(v) - 1 : k \in 1 .. Len(v) /\ k \in 0 .. Len(v) - 1
    BY <1>3, <2>1
  <2>3. /\ last = Around(l, v, Len(v))
        /\ \A k \in 0 .. Len(v) - 1 : Around(l, v, k) # last
    BY <1>0, <1>2, LastLink
  <2> QED BY <1>3, <2>2, <2>3
<1>5. /\ m.prev[h] = Around(h, u, Len(u)) /\ m.prev[h] \in {h} \cup ToSet(u)
      /\ \A k \in 0 .. Len(u) - 1 :
           Around(h, u, k) \in {h} \cup ToSet(u) /\ Around(h, u, k) # m.prev[h]
  BY <1>0, <1>2, LastLink
<1> HIDE DEF last
<1>6. /\ h \in Item /\ l \in Item /\ last \in Item /\ last \in Nodes /\ m.prev[h] \in Item
      /\ m.next[l] \in Item /\ m.next[h] \in Item /\ h # last /\ m.prev[h] # last
      /\ l \notin Nodes /\ h \notin Nodes
  BY <1>0, <1>2, <1>4, <1>5, ListAssumption DEF Ring, Item
<1>7. ListsOf(__list_splice(m, l, h, m.next[h]), T) = Joined(L, l, h, v \o u)
  <2> DEFINE r == __list_splice(m, l, h, m.next[h])
  <2>1. r \in Memory /\ r.next = [m.next EXCEPT ![h] = m.next[l], ![last] = m.next[h]]
    BY <1>0, <1>6 DEF __list_splice, Memory, last
  <2> HIDE DEF r
  <2>2. /\ r.next[h] = m.next[l] /\ r.next[last] = m.next[h]
        /\ \A x \in Item \ {h, last} : r.next[x] = m.next[x]
    BY <1>0, <1>6, <2>1 DEF Memory
  <2>3. \A j \in 1 .. Len(u) : r.next[u[j]] = m.next[u[j]]
    <3>1. \A x \in ToSet(u) : x \in Item \ {h, last}
      BY <1>0, <1>2, <1>4, <1>6
    <3> QED BY <1>3, <2>2, <3>1
  <2>4. \A j \in 1 .. Len(v) - 1 : r.next[v[j]] = m.next[v[j]]
    <3>1. \A j \in 1 .. Len(v) - 1 : v[j] \in Item \ {h, last}
      BY <1>0, <1>2, <1>4, <1>6
    <3> QED BY <2>2, <3>1
  <2>5. Threads(r.next, h, v \o u)
    BY <1>2, <1>4, <2>2, <2>3, <2>4, JoinFrontThreads
  <2>6. h \in {h} \cup ToSet(u)
    OBVIOUS
  <2>7. ListsOf(r, T) = Joined(L, l, h, v \o u)
    <3>1. WritesOnly(m, r, h, m.prev[l])
      BY <2>2 DEF last, WritesOnly
    <3>2. h \in {h} \cup ToSet(L[h])
      OBVIOUS
    <3> DEFINE t == v \o u
    <3>3. Threads(r.next, h, t)
      BY <2>5
    <3> HIDE DEF t
    <3>4. ListsOf(r, T) = Joined(L, l, h, t)
      BY <2>1, <3>1, <3>2, <3>3, JoinedLists
    <3> QED BY <3>4 DEF t
  <2> QED BY <2>7 DEF r
<1>8. ListsOf(__list_splice(m, l, m.prev[h], h), T) = Joined(L, l, h, u \o v)
  <2> DEFINE r == __list_splice(m, l, m.prev[h], h)
             b == m.prev[h]
  <2>1. r \in Memory /\ r.next = [m.next EXCEPT ![b] = m.next[l], ![last] = h]
    BY <1>0, <1>6 DEF __list_splice, Memory, last
  <2> HIDE DEF r, b
  <2>2. /\ r.next[b] = m.next[l] /\ r.next[last] = h
        /\ \A x \in Item \ {b, last} : r.next[x] = m.next[x]
    BY <1>0, <1>6, <2>1 DEF Memory, b
  <2>3. \A j \in 0 .. Len(u) - 1 : r.next[Around(h, u, j)] = m.next[Around(h, u, j)]
    <3> SUFFICES ASSUME NEW j \in 0 .. Len(u) - 1
                 PROVE  r.next[Around(h, u, j)] = m.next[Around(h, u, j)]
      OBVIOUS
    <3>1. Around(h, u, j) \in {h} \cup ToSet(u) /\ Around(h, u, j) # b
      BY <1>5 DEF b
    <3> QED BY <1>0, <1>2, <1>4, <1>6, <2>2, <3>1
  <2>4. \A j \in 1 .. Len(v) - 1 : r.next[v[j]] = m.next[v[j]]
    <3>1. \A j \in 1 .. Len(v) - 1 : v[j] \in Item \ {b, last}
      BY <1>0, <1>2, <1>4, <1>5, <1>6 DEF b
    <3> QED BY <2>2, <3>1
  <2>5. Threads(r.next, h, u \o v)
    BY <1>2, <1>4, <1>5, <2>2, <2>3, <2>4, JoinThreads DEF b
  <2>6. b \in {h} \cup ToSet(u)
    BY <1>5 DEF b
  <2>7. ListsOf(r, T) = Joined(L, l, h, u \o v)
    <3>1. WritesOnly(m, r, b, m.prev[l])
      BY <2>2 DEF last, WritesOnly
    <3>2. b \in {h} \cup ToSet(L[h])
      BY <2>6 DEF u
    <3> DEFINE t == u \o v
    <3>3. Threads(r.next, h, t)
      BY <2>5
    <3> HIDE DEF t
    <3>4. ListsOf(r, T) = Joined(L, l, h, t)
      BY <2>1, <3>1, <3>2, <3>3, JoinedLists
    <3> QED BY <3>4 DEF t
  <2> QED BY <2>7 DEF r, b
<1> QED BY <1>7, <1>8 DEF u, v

-----------------------------------------------------------------------------
(* The entries on lists, and the abstract state *)

\* The entries on the lists L.
On(L) == UNION {ToSet(L[h]) : h \in Heads}

\* The entries that point to themselves are those on no list.
LEMMA EmptyIs ==
  ASSUME NEW m, NEW S, Sound(m, S), NEW L, L = ListsOf(m, S)
  PROVE  /\ On(L) \subseteq Nodes \cap S
         /\ \A n \in Nodes \cap S : m.next[n] = n <=> n \notin On(L)
<1>1. Apiece(m, S, L) /\ Known(m, S, L)
  BY SoundLists, ListFacts
<1>2. \A x : x \in On(L) <=> \E g \in Heads : x \in ToSet(L[g])
  BY DEF On
<1> QED BY <1>1, <1>2 DEF Apiece, Known

\* What the lists hold after each operation.
LEMMA FrontOn ==
  ASSUME NEW L \in [Heads -> Seq(Nodes)], NEW n \in Nodes, NEW h \in Heads
  PROVE  On(PutFirst(L, n, h)) = On(L) \cup {n}
<1> DEFINE K == PutFirst(L, n, h)
<1>1. /\ \A g \in Heads \ {h} : K[g] = L[g]
      /\ K[h] = <<n>> \o L[h] /\ L[h] \in Seq(Nodes)
  BY DEF PutFirst
<1> HIDE DEF K
<1>2. ToSet(K[h]) = ToSet(L[h]) \cup {n}
  BY <1>1, FrontMembers
<1>3. \A M, x : x \in On(M) <=> \E g \in Heads : x \in ToSet(M[g])
  BY DEF On
<1>4. ASSUME NEW x PROVE x \in On(K) <=> x \in On(L) \cup {n}
  BY <1>1, <1>2, <1>3
<1>5. On(K) = On(L) \cup {n}
  BY <1>4
<1> QED BY <1>5 DEF K

LEMMA BackOn ==
  ASSUME NEW L \in [Heads -> Seq(Nodes)], NEW n \in Nodes, NEW h \in Heads
  PROVE  On(PutLast(L, n, h)) = On(L) \cup {n}
<1> DEFINE K == PutLast(L, n, h)
<1>1. /\ \A g \in Heads \ {h} : K[g] = L[g]
      /\ K[h] = Append(L[h], n) /\ L[h] \in Seq(Nodes)
  BY DEF PutLast
<1> HIDE DEF K
<1>2. ToSet(K[h]) = ToSet(L[h]) \cup {n}
  BY <1>1, BackMembers
<1>3. \A M, x : x \in On(M) <=> \E g \in Heads : x \in ToSet(M[g])
  BY DEF On
<1>4. ASSUME NEW x PROVE x \in On(K) <=> x \in On(L) \cup {n}
  BY <1>1, <1>2, <1>3
<1>5. On(K) = On(L) \cup {n}
  BY <1>4
<1> QED BY <1>5 DEF K

LEMMA RemovedOn ==
  ASSUME NEW L \in [Heads -> Seq(Nodes)], \A h \in Heads : IsInjective(L[h]), NEW n
  PROVE  Removed(L, n) \in [Heads -> Seq(Nodes)] /\ On(Removed(L, n)) = On(L) \ {n}
<1> DEFINE K == Removed(L, n)
<1>1. \A h \in Heads : K[h] \in Seq(Nodes) /\ ToSet(K[h]) = ToSet(L[h]) \ {n}
  BY RemoveFirstMembers DEF Removed
<1>2. K = [h \in Heads |-> K[h]]
  BY DEF Removed
<1> HIDE DEF K
<1>3. K \in [Heads -> Seq(Nodes)]
  BY <1>1, <1>2
<1>4. \A M, x : x \in On(M) <=> \E g \in Heads : x \in ToSet(M[g])
  BY DEF On
<1>5. ASSUME NEW x PROVE x \in On(K) <=> x \in On(L) \ {n}
  BY <1>1, <1>4
<1>6. On(K) = On(L) \ {n}
  BY <1>5
<1> QED BY <1>3, <1>6 DEF K

LEMMA ReplacedOn ==
  ASSUME NEW L \in [Heads -> Seq(Nodes)], NEW old \in On(L), NEW new \in Nodes \ On(L)
  PROVE  On(Replaced(L, old, new)) = (On(L) \ {old}) \cup {new}
<1> DEFINE K == Replaced(L, old, new)
<1>1. \A h \in Heads :
        /\ K[h] \in Seq(Nodes) /\ Len(K[h]) = Len(L[h])
        /\ \A k \in 1 .. Len(L[h]) : K[h][k] = IF L[h][k] = old THEN new ELSE L[h][k]
  <2> SUFFICES ASSUME NEW h \in Heads
               PROVE  /\ K[h] \in Seq(Nodes) /\ Len(K[h]) = Len(L[h])
                      /\ \A k \in 1 .. Len(L[h]) :
                           K[h][k] = IF L[h][k] = old THEN new ELSE L[h][k]
    OBVIOUS
  <2> DEFINE s == L[h]
             t == [k \in DOMAIN s |-> IF s[k] = old THEN new ELSE s[k]]
  <2>1. K[h] = t
    BY DEF Replaced
  <2>2. /\ s \in Seq(Nodes) /\ Len(s) \in Nat /\ DOMAIN s = 1 .. Len(s)
        /\ \A k \in 1 .. Len(s) : s[k] \in Nodes
    BY LenProperties, ElementOfSeq
  <2> HIDE DEF s
  <2>3. t \in [1 .. Len(s) -> Nodes]
    BY <2>2
  <2>4. t \in Seq(Nodes) /\ Len(t) = Len(s)
    BY <2>2, <2>3
  <2>5. \A k \in 1 .. Len(s) : t[k] = IF s[k] = old THEN new ELSE s[k]
    BY <2>2
  <2> HIDE DEF t
  <2> QED BY <2>1, <2>4, <2>5 DEF s
<1> HIDE DEF K
<1>2. \A h \in Heads : \A x :
        /\ x \in ToSet(K[h]) <=> \E i \in 1 .. Len(L[h]) : K[h][i] = x
        /\ x \in ToSet(L[h]) <=> \E i \in 1 .. Len(L[h]) : L[h][i] = x
  BY <1>1, Members
<1>3. ASSUME NEW h \in Heads, NEW x
      PROVE  x \in ToSet(K[h]) <=> \/ x \in ToSet(L[h]) /\ x # old
                                   \/ x = new /\ old \in ToSet(L[h])
  <2>1. ASSUME x \in ToSet(K[h])
        PROVE  \/ x \in ToSet(L[h]) /\ x # old
               \/ x = new /\ old \in ToSet(L[h])
    <3>1. PICK i \in 1 .. Len(L[h]) : K[h][i] = x
      BY <1>2, <2>1
    <3> QED BY <1>1, <1>2, <3>1
  <2>2. ASSUME x \in ToSet(L[h]), x # old PROVE x \in ToSet(K[h])
    <3>1. PICK i \in 1 .. Len(L[h]) : L[h][i] = x
      BY <1>2, <2>2
    <3> QED BY <1>1, <1>2, <2>2, <3>1
  <2>3. ASSUME x = new, old \in ToSet(L[h]) PROVE x \in ToSet(K[h])
    <3>1. PICK i \in 1 .. Len(L[h]) : L[h][i] = old
      BY <1>2, <2>3
    <3> QED BY <1>1, <1>2, <2>3, <3>1
  <2> QED BY <2>1, <2>2, <2>3
<1>4. \A M, x : x \in On(M) <=> \E g \in Heads : x \in ToSet(M[g])
  BY DEF On
<1>5. ASSUME NEW x PROVE x \in On(K) <=> x \in (On(L) \ {old}) \cup {new}
  BY <1>3, <1>4
<1>6. On(K) = (On(L) \ {old}) \cup {new}
  BY <1>5
<1> QED BY <1>6 DEF K

\* Two lists share what they held.
Shared(K, L, l, h) ==
  /\ \A g \in Heads \ {l, h} : K[g] = L[g]
  /\ ToSet(K[l]) \cup ToSet(K[h]) = ToSet(L[l]) \cup ToSet(L[h])

\* Then all lists together hold what they held.
LEMMA SharedOn ==
  ASSUME NEW L, NEW K, NEW l \in Heads, NEW h \in Heads, Shared(K, L, l, h)
  PROVE  On(K) = On(L)
<1>1. \A M, x : x \in On(M) <=> \E g \in Heads : x \in ToSet(M[g])
  BY DEF On
<1>2. \A x : x \in On(K) <=> \/ x \in ToSet(K[l]) \cup ToSet(K[h])
                             \/ \E g \in Heads \ {l, h} : x \in ToSet(L[g])
  BY <1>1 DEF Shared
<1>3. \A x : x \in On(L) <=> \/ x \in ToSet(L[l]) \cup ToSet(L[h])
                             \/ \E g \in Heads \ {l, h} : x \in ToSet(L[g])
  BY <1>1
<1> QED BY <1>2, <1>3 DEF Shared

\* What comes after h is h and the entries of its list.
LEMMA ReachIs ==
  ASSUME ListInv, NEW h \in Usable
  PROVE  Reach(h) \subseteq {h} \cup ToSet(Entries(h))
<1> DEFINE s == Entries(h)
           R == {h} \cup ToSet(s)
<1>1. /\ h \in Heads \cap Live /\ Threads(link.next, h, s) /\ s \in Seq(Nodes)
      /\ ToSet(s) \subseteq Live
  BY EntriesFacts
<1> HIDE DEF s
<1>2. ASSUME NEW x \in R PROVE link.next[x] \in R
  <2>1. /\ Len(s) \in Nat /\ Around(h, s, 0) = h /\ Around(h, s, Len(s) + 1) = h
        /\ \A k \in 1 .. Len(s) : Around(h, s, k) = s[k] /\ s[k] \in ToSet(s)
    BY <1>1, AroundFacts
  <2>2. PICK k \in 0 .. Len(s) : x = Around(h, s, k)
    <3>1. CASE x = h
      BY <2>1, <3>1
    <3>2. CASE x \in ToSet(s)
      <4>1. PICK k \in 1 .. Len(s) : s[k] = x
        BY <1>1, <3>2, Members
      <4>2. k \in 0 .. Len(s)
        BY <2>1
      <4> QED BY <2>1, <4>1, <4>2
    <3> QED BY <3>1, <3>2
  <2>3. link.next[x] = Around(h, s, k + 1)
    BY <1>1, <2>2 DEF Threads
  <2>4. k + 1 = Len(s) + 1 \/ k + 1 \in 1 .. Len(s)
    BY <2>1
  <2> QED BY <2>1, <2>3, <2>4
<1>3. R \in SUBSET Live /\ h \in R
  BY <1>1
<1>4. Reach(h) \subseteq R
  <2> HIDE DEF R
  <2> QED BY <1>2, <1>3 DEF Reach
<1> QED BY <1>4 DEF s

\* The abstract state, now and next.
LEMMA MappedNow ==
  ASSUME ListInv
  PROVE  /\ Sequences = ListsOf(link, Live)
         /\ Known(link, Live, Sequences) /\ Sound(link, Live)
         /\ Usable = Heads \cap Live /\ Linked = Nodes \cap Live
         /\ OnNone = (Nodes \cap Live) \ On(Sequences)
         /\ On(Sequences) \subseteq Nodes \cap Live
         /\ Detached = Nodes \ On(Sequences)
         /\ Abstract!Listed = On(Sequences)
<1>1. Sound(link, Live)
  BY DEF ListInv
<1>2. Sequences = ListsOf(link, Live)
  BY DEF Sequences, ListsOf, Live, Item, Entries
<1>3. Usable = Heads \cap Live /\ Linked = Nodes \cap Live
  BY DEF Usable, Linked, Live, Item
<1>4. /\ On(Sequences) \subseteq Nodes \cap Live
      /\ \A n \in Nodes \cap Live : link.next[n] = n <=> n \notin On(Sequences)
  BY <1>1, <1>2, EmptyIs
<1>5. OnNone = (Nodes \cap Live) \ On(Sequences)
  BY <1>3, <1>4 DEF OnNone, list_empty
<1>6. Detached = Nodes \ On(Sequences)
  <2>1. \A n \in Nodes : n \in stale <=> n \notin Live
    BY DEF Live, Item
  <2> QED BY <1>4, <2>1 DEF Detached, list_empty
<1>7. Known(link, Live, Sequences)
  BY <1>1, <1>2, ListFacts
<1>8. Abstract!Listed = On(Sequences)
  BY DEF Abstract!Listed, Abstract!ToSet, On, ToSet
<1> QED BY <1>1, <1>2, <1>3, <1>4, <1>5, <1>6, <1>7, <1>8

\* The same of the state after a step.
LEMMA MappedNext ==
  ASSUME ListInv'
  PROVE  /\ Sequences' = ListsOf(link', Live')
         /\ Usable' = Heads \cap Live'
         /\ OnNone' = (Nodes \cap Live') \ On(Sequences')
<1>1. Sound(link', Live')
  BY DEF ListInv
<1>2. Sequences' = ListsOf(link', Live')
  BY DEF Sequences, ListsOf, Live, Item, Entries
<1>3. Usable' = Heads \cap Live' /\ Linked' = Nodes \cap Live'
  BY DEF Usable, Linked, Live, Item
<1>4. \A n \in Nodes \cap Live' : link'.next[n] = n <=> n \notin On(Sequences')
  BY <1>1, <1>2, EmptyIs
<1>5. OnNone' = (Nodes \cap Live') \ On(Sequences')
  BY <1>3, <1>4 DEF OnNone, list_empty
<1> QED BY <1>2, <1>3, <1>5

\* Lists and this module take an entry off in the same way.
LEMMA WithoutIs ==
  ASSUME NEW L, NEW n
  PROVE  Abstract!Without(L, n) = Removed(L, n)
BY DEF Abstract!Without, Removed, Abstract!RemoveFirst, RemoveFirst, Abstract!SelectInSeq,
   SelectInSeq, Abstract!RemoveAt, RemoveAt, Abstract!Min, Min

-----------------------------------------------------------------------------
(* Every step is a step of Lists *)

\* list_move() and list_move_tail().
LEMMA MoveLists ==
  ASSUME NEW m, NEW S, Sound(m, S), NEW L, L = ListsOf(m, S),
         NEW n \in Nodes \cap S, NEW h \in Heads \cap S
  PROVE  /\ ListsOf(list_move(m, n, h), S) = PutFirst(Removed(L, n), n, h)
         /\ ListsOf(list_move_tail(m, n, h), S) = PutLast(Removed(L, n), n, h)
<1> DEFINE d == __list_del_entry(m, n)
           T == S \ {n}
           K == Removed(L, n)
<1>1. Sound(d, T)
  BY DelSound
<1>2. K = ListsOf(d, T)
  BY DelLists
<1>3. n \in Nodes \ T /\ h \in Heads \cap T /\ T \cup {n} = S
  BY ListAssumption
<1> HIDE DEF d, T, K
<1>4. ListsOf(list_add(d, n, h), T \cup {n}) = PutFirst(K, n, h)
  BY <1>1, <1>2, <1>3, AddLists
<1>5. ListsOf(list_add_tail(d, n, h), T \cup {n}) = PutLast(K, n, h)
  BY <1>1, <1>2, <1>3, AddTailLists
<1> QED BY <1>3, <1>4, <1>5 DEF list_move, list_move_tail, d, K

\* An entry that may be linked can be forgotten: the lists do without it.
LEMMA DetachedLists ==
  ASSUME ListInv, NEW n \in Nodes, n \in Detached
  PROVE  Sound(link, Live \ {n}) /\ ListsOf(link, Live \ {n}) = Sequences
<1>1. Sound(link, Live \ {n}) /\ Sound(link, Live) /\ Sequences = ListsOf(link, Live)
  BY DetachedSound, MappedNow
<1>2. CASE n \in stale
  <2>1. Live \ {n} = Live
    BY <1>2 DEF Live
  <2> QED BY <1>1, <2>1
<1>3. CASE n \notin stale
  <2>1. n \in Live /\ link.next[n] = n
    BY <1>3 DEF Detached, Live, Item, list_empty
  <2> QED BY <1>1, <2>1, DropLists
<1> QED BY <1>2, <1>3

\* INIT_LIST_HEAD() renews a head, or marks an entry as on no list.
LEMMA InitialiseStep ==
  ASSUME ListInv, ListInv', NEW x \in Item, Initialise(x)
  PROVE  Abstract!Next
<1>1. /\ x \in Item \ Live /\ Live' = Live \cup {x} /\ link' = INIT_LIST_HEAD(link, x)
  BY DEF Initialise, Live
<1>2. Sequences' = Sequences
  BY <1>1, MappedNow, MappedNext, InitLists
<1>3. CASE x \in Heads
  <2>1. x \notin Nodes /\ x \in Heads \ Usable
    BY <1>1, <1>3, MappedNow, ListAssumption
  <2>2. Usable' = Usable \cup {x} /\ OnNone' = OnNone
    BY <1>1, <1>2, <1>3, <2>1, MappedNow, MappedNext
  <2>3. Abstract!Renew(x)
    BY <1>2, <2>1, <2>2 DEF Abstract!Renew
  <2> QED BY <1>3, <2>3 DEF Abstract!Next
<1>4. CASE x \in Nodes
  <2>1. x \notin Heads /\ x \notin On(Sequences) /\ x \notin OnNone
    BY <1>1, <1>4, MappedNow, ListAssumption
  <2>2. Usable' = Usable /\ OnNone' = OnNone \cup {x}
    BY <1>1, <1>2, <1>4, <2>1, MappedNow, MappedNext
  <2>3. Abstract!MarkEmpty(x)
    BY <1>2, <1>4, <2>1, <2>2, MappedNow DEF Abstract!MarkEmpty
  <2> QED BY <1>4, <2>3 DEF Abstract!Next
<1> QED BY <1>3, <1>4 DEF Item

\* list_add() and list_add_tail() are Link.
LEMMA AddStep ==
  ASSUME ListInv, ListInv', NEW n \in Nodes, NEW h \in Heads, Add(n, h) \/ AddTail(n, h)
  PROVE  Abstract!Next
<1> DEFINE S == Live \ {n}
<1>1. /\ n \in Detached /\ h \in Usable
      /\ Live' = S \cup {n} /\ n \in Nodes \ S /\ h \in Heads \cap S
  BY ListAssumption DEF Add, AddTail, Live, Item, Usable
<1>2. Sound(link, S) /\ Sequences = ListsOf(link, S)
  BY <1>1, DetachedLists
<1>3. Sequences \in [Heads -> Seq(Nodes)]
  BY MappedNow DEF Known
<1> HIDE DEF S
<1>4. /\ Sequences' \in {PutFirst(Sequences, n, h),
                         PutLast(Sequences, n, h)}
      /\ On(Sequences') = On(Sequences) \cup {n}
  <2>1. CASE Add(n, h)
    <3>1. Sequences' = PutFirst(Sequences, n, h)
      BY <1>1, <1>2, <2>1, AddLists, MappedNext DEF Add
    <3> QED BY <1>3, <3>1, FrontOn
  <2>2. CASE AddTail(n, h)
    <3>1. Sequences' = PutLast(Sequences, n, h)
      BY <1>1, <1>2, <2>2, AddTailLists, MappedNext DEF AddTail
    <3> QED BY <1>3, <3>1, BackOn
  <2> QED BY <2>1, <2>2
<1>5. Usable' = Usable /\ OnNone' = OnNone \ {n}
  <2>1. Usable' = Usable
    BY <1>1, MappedNow, MappedNext, ListAssumption DEF S
  <2>2. OnNone' = OnNone \ {n}
    BY <1>1, <1>4, MappedNow, MappedNext DEF S
  <2> QED BY <2>1, <2>2
<1>6. n \in Nodes \ Abstract!Listed
  BY <1>1, MappedNow
<1>7. Abstract!Link(n, h)
  BY <1>1, <1>4, <1>5, <1>6 DEF Abstract!Link, Abstract!AtFront, Abstract!AtBack, PutFirst, PutLast
<1> QED BY <1>7 DEF Abstract!Next

\* list_del() and list_del_init() are Unlink.
LEMMA DeleteStep ==
  ASSUME ListInv, ListInv', NEW n \in Nodes, Delete(n) \/ DeleteInit(n)
  PROVE  Abstract!Next
<1> DEFINE S == Live \ {n}
           d == __list_del_entry(link, n)
<1>1. n \in Nodes \cap Live /\ n \notin Heads
  BY ListAssumption, MappedNow DEF Delete, DeleteInit
<1>2. Sound(d, S) /\ ListsOf(d, S) = Removed(Sequences, n)
  BY <1>1, DelSound, DelLists, MappedNow
<1>3. On(Removed(Sequences, n)) = On(Sequences) \ {n}
  BY RemovedOn, MappedNow DEF Known
<1>4. Sequences' = Removed(Sequences, n) /\ Live' \in {S, Live}
  <2>1. CASE Delete(n)
    <3>1. Live' = S /\ link' = list_del(link, n)
      BY <1>1, <2>1 DEF Delete, Live, Item
    <3>2. link' \in Memory /\ \A x \in S : link'.next[x] = d.next[x]
      <4>1. d \in Memory
        BY <1>2 DEF Sound
      <4> HIDE DEF d
      <4>2. link' = [d EXCEPT !.next[n] = LIST_POISON1, !.prev[n] = LIST_POISON2]
        BY <3>1 DEF list_del, d
      <4>3. link' \in Memory
        BY <4>1, <4>2 DEF Memory
      <4>4. \A x \in S : x \in Item /\ x # n
        BY DEF Live
      <4> HIDE DEF S
      <4> QED BY <4>1, <4>2, <4>3, <4>4 DEF Memory
    <3> HIDE DEF d, S
    <3>3. ListsOf(link', S) = ListsOf(d, S)
      BY <1>2, <3>2, PoisonLists
    <3> QED BY <1>2, <3>1, <3>3, MappedNext
  <2>2. CASE DeleteInit(n)
    <3>1. Live' = Live /\ S \cup {n} = Live /\ n \in Item \ S /\ link' = INIT_LIST_HEAD(d, n)
      BY <1>1, <2>2 DEF DeleteInit, list_del_init, Live, Item
    <3> HIDE DEF d, S
    <3>2. ListsOf(INIT_LIST_HEAD(d, n), S \cup {n}) = ListsOf(d, S)
      BY <1>2, <3>1, InitLists
    <3> QED BY <1>2, <3>1, <3>2, MappedNext
  <2> QED BY <2>1, <2>2
<1> HIDE DEF d
<1>5. Usable' = Usable
  BY <1>1, <1>4, MappedNow, MappedNext
<1>6. OnNone' \in {OnNone \ {n}, OnNone \cup {n}}
  <2>1. CASE Live' = S
    <3>1. OnNone' = OnNone \ {n}
      BY <1>3, <1>4, <2>1, MappedNow, MappedNext
    <3> QED BY <3>1
  <2>2. CASE Live' = Live
    <3>1. OnNone' = OnNone \cup {n}
      BY <1>1, <1>3, <1>4, <2>2, MappedNow, MappedNext
    <3> QED BY <3>1
  <2> QED BY <1>4, <2>1, <2>2
<1>7. n \in Abstract!Listed \cup OnNone
  BY <1>1, MappedNow
<1>8. Abstract!Unlink(n)
  BY <1>4, <1>5, <1>6, <1>7, WithoutIs DEF Abstract!Unlink
<1> QED BY <1>8 DEF Abstract!Next

\* list_move() and list_move_tail() are Relink.
LEMMA MoveStep ==
  ASSUME ListInv, ListInv', NEW n \in Nodes, NEW h \in Heads, Move(n, h) \/ MoveTail(n, h)
  PROVE  Abstract!Next
<1> DEFINE K == Removed(Sequences, n)
<1>1. n \in Nodes \cap Live /\ h \in Heads \cap Live /\ h \in Usable /\ Live' = Live
  BY MappedNow DEF Move, MoveTail, Live
<1>2. K \in [Heads -> Seq(Nodes)] /\ On(K) = On(Sequences) \ {n}
  BY RemovedOn, MappedNow DEF Known
<1>3. /\ ListsOf(list_move(link, n, h), Live) = PutFirst(K, n, h)
      /\ ListsOf(list_move_tail(link, n, h), Live) = PutLast(K, n, h)
  BY <1>1, MoveLists, MappedNow
<1>4. K = Abstract!Without(Sequences, n)
  BY WithoutIs
<1> HIDE DEF K
<1>5. /\ Sequences' \in {PutFirst(K, n, h), PutLast(K, n, h)}
      /\ On(Sequences') = On(K) \cup {n}
  <2>1. CASE Move(n, h)
    <3>1. Sequences' = PutFirst(K, n, h)
      BY <1>1, <1>3, <2>1, MappedNext DEF Move
    <3> QED BY <1>2, <3>1, FrontOn
  <2>2. CASE MoveTail(n, h)
    <3>1. Sequences' = PutLast(K, n, h)
      BY <1>1, <1>3, <2>2, MappedNext DEF MoveTail
    <3> QED BY <1>2, <3>1, BackOn
  <2> QED BY <2>1, <2>2
<1>6. Usable' = Usable /\ OnNone' = OnNone \ {n}
  BY <1>1, <1>2, <1>5, MappedNow, MappedNext
<1>7. n \in Abstract!Listed \cup OnNone
  BY <1>1, MappedNow
<1>8. Abstract!Relink(n, h)
  BY <1>1, <1>4, <1>5, <1>6, <1>7 DEF Abstract!Relink, Abstract!AtFront, Abstract!AtBack,
     PutFirst, PutLast
<1> QED BY <1>8 DEF Abstract!Next

\* list_replace() and list_replace_init() are Replace.
LEMMA ReplaceStep ==
  ASSUME ListInv, ListInv', NEW old \in Nodes, NEW new \in Nodes,
         Replace(old, new) \/ ReplaceInit(old, new)
  PROVE  Abstract!Next
<1> DEFINE S == Live \ {new}
           T == (S \ {old}) \cup {new}
           r == list_replace(link, old, new)
<1>1. /\ old \in Nodes \cap Live /\ link.next[old] # old /\ new \in Detached
  BY MappedNow DEF Replace, ReplaceInit, list_empty
<1>2. old \in On(Sequences) /\ new \in Nodes \ On(Sequences) /\ old # new
  BY <1>1, MappedNow, EmptyIs
<1>3. old \in Nodes \cap S /\ new \in Nodes \ S /\ old \notin Heads /\ new \notin Heads
  BY <1>1, <1>2, ListAssumption
<1>4. Sound(link, S) /\ Sequences = ListsOf(link, S)
  BY <1>1, DetachedLists
<1>5. Sound(r, T) /\ ListsOf(r, T) = Replaced(Sequences, old, new)
  <2> HIDE DEF S
  <2> QED BY <1>1, <1>3, <1>4, ReplaceSound, ReplaceLists
<1>6. Live' \in {T, T \cup {old}} /\ Sequences' = Replaced(Sequences, old, new)
  <2>1. CASE Replace(old, new)
    <3>1. Live' = T /\ link' = r
      BY <1>2, <2>1 DEF Replace, Live, Item
    <3> QED BY <1>5, <3>1, MappedNext
  <2>2. CASE ReplaceInit(old, new)
    <3>1. Live' = T \cup {old} /\ old \in Item \ T /\ link' = INIT_LIST_HEAD(r, old)
      BY <1>1, <1>2, <2>2 DEF ReplaceInit, list_replace_init, Live, Item
    <3> HIDE DEF T, r
    <3>2. ListsOf(INIT_LIST_HEAD(r, old), T \cup {old}) = ListsOf(r, T)
      BY <1>5, <3>1, InitLists
    <3> QED BY <1>5, <3>1, <3>2, MappedNext
  <2> QED BY <2>1, <2>2
<1> HIDE DEF r
<1>7. On(Sequences') = (On(Sequences) \ {old}) \cup {new}
  BY <1>2, <1>6, ReplacedOn, MappedNow DEF Known
<1>8. Usable' = Usable
  BY <1>3, <1>6, MappedNow, MappedNext
<1>9. OnNone' \in {OnNone \ {new}, (OnNone \ {new}) \cup {old}}
  <2>1. CASE Live' = T
    <3>1. OnNone' = OnNone \ {new}
      BY <1>2, <1>7, <2>1, MappedNow, MappedNext
    <3> QED BY <3>1
  <2>2. CASE Live' = T \cup {old}
    <3>1. OnNone' = (OnNone \ {new}) \cup {old}
      BY <1>1, <1>2, <1>7, <2>2, MappedNow, MappedNext
    <3> QED BY <3>1
  <2> QED BY <1>6, <2>1, <2>2
<1>10. Sequences' = [h \in Heads |-> [k \in DOMAIN Sequences[h] |->
                       IF Sequences[h][k] = old THEN new ELSE Sequences[h][k]]]
  BY <1>6 DEF Replaced
<1>11. Abstract!Replace(old, new)
  BY <1>2, <1>8, <1>9, <1>10, MappedNow DEF Abstract!Replace
<1> QED BY <1>11 DEF Abstract!Next

\* list_rotate_left() is Rotate, or leaves an empty list as it is.
LEMMA RotateStep ==
  ASSUME ListInv, ListInv', NEW h \in Heads, Rotate(h)
  PROVE  Abstract!Next \/ UNCHANGED Abstract!lvars
<1> DEFINE n == link.next[h]
           s == Sequences[h]
           K == Removed(Sequences, n)
<1>1. /\ h \in Heads \cap Live /\ h \in Usable /\ Live' = Live /\ Known(link, Live, Sequences)
      /\ Sequences = ListsOf(link, Live)
  BY MappedNow DEF Rotate, Live
<1>2. CASE n = h
  <2>1. link' = link /\ stale' = stale
    BY <1>2 DEF Rotate, list_rotate_left, list_empty
  <2> QED BY <2>1 DEF Abstract!lvars, Sequences, Usable, OnNone, Entries, Linked, list_empty
<1>3. CASE n # h
  <2>1. /\ s # <<>> /\ s \in Seq(Nodes) /\ Threads(link.next, h, s) /\ IsInjective(s)
        /\ ToSet(s) \subseteq Live
    BY <1>1, <1>3, EmptyLists, MappedNow DEF Known
  <2>2. /\ Len(s) \in Nat /\ 1 \in 1 .. Len(s)
        /\ Append(RemoveAt(s, 1), s[1]) = Append(Tail(s), Head(s))
    BY <2>1, RotateIs
  <2>3. n = s[1] /\ n \in ToSet(s) /\ n \in Nodes
    <3>1. n = Around(h, s, 1)
      BY <2>1, FirstLink
    <3>2. s[1] \in ToSet(s) /\ s[1] \in Nodes
      BY <2>1, <2>2, AroundFacts
    <3> QED BY <2>2, <3>1, <3>2 DEF Around
  <2>4. K \in [Heads -> Seq(Nodes)] /\ On(K) = On(Sequences) \ {n}
    BY <1>1, RemovedOn DEF Known
  <2>5. K[h] = RemoveAt(s, 1) /\ \A g \in Heads \ {h} : K[g] = Sequences[g]
    <3>1. RemoveFirst(s, n) = RemoveAt(s, 1)
      BY <2>1, <2>2, <2>3, RemoveFirstIs
    <3>2. ASSUME NEW g \in Heads \ {h} PROVE RemoveFirst(Sequences[g], n) = Sequences[g]
      <4>1. n \notin ToSet(Sequences[g]) /\ Sequences[g] \in Seq(Nodes)
        BY <1>1, <2>3 DEF Known
      <4> QED BY <4>1, RemoveFirstOfNone
    <3> QED BY <3>1, <3>2 DEF Removed
  <2>6. Sequences' = PutLast(K, n, h)
    <3>1. n \in Nodes \cap Live /\ link' = list_move_tail(link, n, h)
      BY <1>3, <2>1, <2>3 DEF Rotate, list_rotate_left, list_empty
    <3> HIDE DEF n
    <3>2. ListsOf(list_move_tail(link, n, h), Live) = PutLast(K, n, h)
      BY <1>1, <3>1, MoveLists, MappedNow
    <3> QED BY <1>1, <3>1, <3>2, MappedNext
  <2> HIDE DEF n, K, s
  <2>7. On(Sequences') = On(Sequences)
    <3>1. n \in On(Sequences)
      BY <1>1, <2>3 DEF On, s
    <3>2. On(Sequences') = On(K) \cup {n}
      BY <1>1, <2>3, <2>4, <2>6, BackOn
    <3> QED BY <2>4, <3>1, <3>2
  <2>8. Usable' = Usable /\ OnNone' = OnNone
    BY <1>1, <2>7, MappedNow, MappedNext
  <2>9. Sequences' = [Sequences EXCEPT ![h] = Append(Tail(@), Head(@))]
    <3>1. /\ Sequences' \in [Heads -> Seq(Nodes)] /\ Sequences'[h] = Append(K[h], n)
          /\ \A g \in Heads \ {h} : Sequences'[g] = K[g]
      <4>1. Append(K[h], n) \in Seq(Nodes)
        BY <1>1, <2>3, <2>4
      <4> QED BY <1>1, <2>4, <2>6, <4>1 DEF PutLast
    <3>2. Sequences'[h] = Append(Tail(s), Head(s)) /\ s = Sequences[h]
      BY <2>2, <2>3, <2>5, <3>1 DEF s
    <3>3. Sequences \in [Heads -> Seq(Nodes)]
      BY <1>1 DEF Known
    <3> QED BY <2>5, <3>1, <3>2, <3>3
  <2>10. Sequences[h] # <<>>
    BY <2>1 DEF s
  <2>11. Abstract!Rotate(h)
    BY <1>1, <2>8, <2>9, <2>10 DEF Abstract!Rotate
  <2> QED BY <2>11 DEF Abstract!Next
<1> QED BY <1>2, <1>3

\* The four list_splice functions are Splice, or leave all as it is.
LEMMA SpliceStep ==
  ASSUME ListInv, ListInv', NEW l \in Heads, NEW h \in Heads, Splice(l, h) \/ SpliceInit(l, h)
  PROVE  Abstract!Next \/ UNCHANGED Abstract!lvars
<1> DEFINE S == Live \ {l}
           front == __list_splice(link, l, h, link.next[h])
           back == __list_splice(link, l, link.prev[h], h)
<1>1. /\ l \in Heads \cap Live /\ h \in Heads \cap Live /\ l # h
      /\ l \in Usable /\ h \in Usable
      /\ Known(link, Live, Sequences) /\ Sound(link, Live)
      /\ Sequences = ListsOf(link, Live)
  BY MappedNow DEF Splice, SpliceInit
<1>2. CASE link.next[l] = l
  <2>1. link' = link /\ stale' = stale
    BY <1>2 DEF Splice, SpliceInit, list_empty, list_splice, list_splice_tail,
         list_splice_init, list_splice_tail_init
  <2> QED BY <2>1 DEF Abstract!lvars, Sequences, Usable, OnNone, Entries, Linked, list_empty
<1>3. CASE link.next[l] # l
  <2>1. /\ ListsOf(front, S) = Joined(Sequences, l, h, Sequences[l] \o Sequences[h])
        /\ ListsOf(back, S) = Joined(Sequences, l, h, Sequences[h] \o Sequences[l])
    BY <1>1, <1>3, SpliceLists
  <2>2. Sound(front, S) /\ Sound(back, S)
    <3>1. Ring(link, Live)
      BY <1>1 DEF Sound
    <3>2. link.prev[h] \in Live /\ link.next[link.prev[h]] = h
      BY <1>1, <3>1 DEF Ring
    <3>3. Sound(front, S)
      BY <1>1, <1>3, SpliceSound
    <3>4. Sound(__list_splice(link, l, link.prev[h], link.next[link.prev[h]]), S)
      BY <1>1, <1>3, <3>2, SpliceSound
    <3> QED BY <3>2, <3>3, <3>4
  <2>3. l \in Item \ S /\ S \cup {l} = Live /\ l \notin Nodes
    BY <1>1, ListAssumption DEF Live, Item
  <2>4. /\ Live' \in {S, Live}
        /\ Sequences' \in {Joined(Sequences, l, h, Sequences[l] \o Sequences[h]),
                           Joined(Sequences, l, h, Sequences[h] \o Sequences[l])}
    <3>1. CASE Splice(l, h)
      <4>1. Live' = S /\ link' \in {front, back}
        BY <1>3, <3>1 DEF Splice, Live, list_empty, list_splice, list_splice_tail
      <4> HIDE DEF S, front, back
      <4> QED BY <2>1, <4>1, MappedNext
    <3>2. CASE SpliceInit(l, h)
      <4>1. Live' = Live /\ link' \in {INIT_LIST_HEAD(front, l), INIT_LIST_HEAD(back, l)}
        BY <1>3, <3>2 DEF SpliceInit, Live, list_empty, list_splice, list_splice_tail,
             list_splice_init, list_splice_tail_init
      <4> HIDE DEF S, front, back
      <4>2. /\ ListsOf(INIT_LIST_HEAD(front, l), S \cup {l}) = ListsOf(front, S)
            /\ ListsOf(INIT_LIST_HEAD(back, l), S \cup {l}) = ListsOf(back, S)
        BY <2>2, <2>3, InitLists
      <4> QED BY <2>1, <2>3, <4>1, <4>2, MappedNext
    <3> QED BY <3>1, <3>2
  <2> HIDE DEF front, back
  <2>5. PICK t \in {Sequences[l] \o Sequences[h], Sequences[h] \o Sequences[l]} :
          Sequences' = Joined(Sequences, l, h, t)
    BY <2>4
  <2>6. On(Sequences') = On(Sequences)
    <3>1. /\ Sequences[l] \in Seq(Nodes) /\ Sequences[h] \in Seq(Nodes)
          /\ Sequences \in [Heads -> Seq(Nodes)]
      BY <1>1 DEF Known
    <3>2. ToSet(t) = ToSet(Sequences[l]) \cup ToSet(Sequences[h])
      <4> DEFINE u == Sequences[h]
                 v == Sequences[l]
      <4>1. u \in Seq(Nodes) /\ v \in Seq(Nodes) /\ t \in {v \o u, u \o v}
        BY <2>5, <3>1
      <4> HIDE DEF u, v
      <4>2. ToSet(v \o u) = ToSet(v) \cup ToSet(u) /\ ToSet(u \o v) = ToSet(u) \cup ToSet(v)
        BY <4>1, JoinMembers
      <4>3. ToSet(t) = ToSet(v) \cup ToSet(u)
        BY <4>1, <4>2
      <4> QED BY <4>3 DEF u, v
    <3>3. /\ Sequences'[l] = <<>> /\ Sequences'[h] = t
          /\ \A g \in Heads \ {l, h} : Sequences'[g] = Sequences[g]
      BY <1>1, <2>5, <3>1 DEF Joined
    <3>4. ToSet(Sequences'[l]) = {}
      BY <3>3 DEF ToSet
    <3>5. ToSet(Sequences'[l]) \cup ToSet(Sequences'[h]) =
            ToSet(Sequences[l]) \cup ToSet(Sequences[h])
      BY <3>2, <3>3, <3>4
    <3>6. Shared(Sequences', Sequences, l, h)
      BY <3>3, <3>5 DEF Shared
    <3> QED BY <3>6, SharedOn
  <2>7. Usable' \in {Usable, Usable \ {l}} /\ OnNone' = OnNone
    <3>1. Nodes \cap Live' = Nodes \cap Live
      BY <2>3, <2>4
    <3>2. OnNone' = OnNone
      BY <2>6, <3>1, MappedNow, MappedNext
    <3>3. Usable' \in {Usable, Usable \ {l}}
      <4>1. Live' = S => Usable' = Usable \ {l}
        BY MappedNow, MappedNext
      <4>2. Live' = Live => Usable' = Usable
        BY MappedNow, MappedNext
      <4> QED BY <2>4, <4>1, <4>2
    <3> QED BY <3>2, <3>3
  <2>8. \E joined \in {Sequences[l] \o Sequences[h], Sequences[h] \o Sequences[l]} :
          Sequences' = [Sequences EXCEPT ![l] = <<>>, ![h] = joined]
    BY <2>5 DEF Joined
  <2>9. Abstract!Splice(l, h)
    BY <1>1, <2>7, <2>8 DEF Abstract!Splice
  <2> QED BY <2>9 DEF Abstract!Next
<1> QED BY <1>2, <1>3

\* What is to receive a cut has no entries, and the lists do without it.
LEMMA ReceiverLists ==
  ASSUME ListInv, NEW l, Receives(l)
  PROVE  /\ l \in Heads /\ l \in Item /\ l \notin Nodes
         /\ Sound(link, Live \ {l}) /\ ListsOf(link, Live \ {l}) = Sequences
         /\ Sequences[l] = <<>>
<1>1. /\ l \in Heads /\ Sound(link, Live \ {l}) /\ Sequences = ListsOf(link, Live)
      /\ Sound(link, Live)
  BY ReceiverSound, MappedNow
<1>2. l \in Item /\ l \notin Nodes
  BY <1>1, ListAssumption DEF Item
<1>3. ListsOf(link, Live \ {l}) = Sequences
  <2>1. CASE l \in stale
    <3>1. Live \ {l} = Live
      BY <2>1 DEF Live
    <3> QED BY <1>1, <3>1
  <2>2. CASE l \notin stale
    <3>1. l \in Live /\ link.next[l] = l
      BY <1>2, <2>2 DEF Receives, Live, list_empty
    <3> QED BY <1>1, <3>1, DropLists
  <2> QED BY <2>1, <2>2
<1>4. Sequences[l] = <<>>
  BY <1>1, <1>3, ListFacts DEF Known
<1> QED BY <1>1, <1>2, <1>3, <1>4

\* However many entries are cut off, the lists are halved as Lists says.
LEMMA CutIs ==
  ASSUME ListInv, ListInv', NEW l \in Heads, NEW h \in Usable, l # h,
         Sequences[l] = <<>>, NEW k \in 0 .. Len(Sequences[h]),
         Sequences' = Halved(Sequences, l, h, k), Live' = Live \cup {l}
  PROVE  Abstract!Next
<1>1. h \in Heads /\ Known(link, Live, Sequences) /\ l \notin Nodes
  BY MappedNow, ListAssumption
<1> DEFINE s == Sequences[h]
<1>2. s \in Seq(Nodes) /\ k \in 0 .. Len(s) /\ Sequences \in [Heads -> Seq(Nodes)]
  BY <1>1 DEF Known
<1>3. Sequences' = [Sequences EXCEPT ![l] = SubSeq(s, 1, k), ![h] = SubSeq(s, k + 1, Len(s))]
  BY DEF Halved
<1> HIDE DEF s
<1>4. /\ SubSeq(s, 1, k) \in Seq(Nodes) /\ SubSeq(s, k + 1, Len(s)) \in Seq(Nodes)
      /\ ToSet(SubSeq(s, 1, k)) \cup ToSet(SubSeq(s, k + 1, Len(s))) = ToSet(s)
  BY <1>2, CutMembers
<1>5. On(Sequences') = On(Sequences)
  <2>1. /\ Sequences'[l] = SubSeq(s, 1, k) /\ Sequences'[h] = SubSeq(s, k + 1, Len(s))
        /\ \A g \in Heads \ {l, h} : Sequences'[g] = Sequences[g]
    BY <1>1, <1>2, <1>3, <1>4
  <2>2. ToSet(Sequences[l]) = {}
    BY DEF ToSet
  <2>3. Shared(Sequences', Sequences, l, h)
    BY <1>4, <2>1, <2>2 DEF Shared, s
  <2> QED BY <1>1, <2>3, SharedOn
<1>6. Usable' = Usable \cup {l} /\ OnNone' = OnNone
  <2>1. Nodes \cap Live' = Nodes \cap Live
    BY <1>1
  <2> QED BY <1>5, <2>1, MappedNow, MappedNext
<1>7. Abstract!Cut(l, h, k)
  BY <1>3, <1>6 DEF Abstract!Cut, s
<1> QED BY <1>1, <1>7 DEF Abstract!Next

\* To cut nothing off is to cut off no entries.
LEMMA CutNone ==
  ASSUME NEW L \in [Heads -> Seq(Nodes)], NEW l \in Heads, NEW h \in Heads, l # h, L[l] = <<>>
  PROVE  L = Halved(L, l, h, 0)
<1> DEFINE s == L[h]
<1>1. s \in Seq(Nodes) /\ Len(s) \in Nat
  OBVIOUS
<1> HIDE DEF s
<1>2. SubSeq(s, 1, 0) = <<>>
  BY <1>1
<1>3. SubSeq(s, 0 + 1, Len(s)) = s
  BY <1>1, SubSeqFull
<1> QED BY <1>2, <1>3 DEF Halved, s

\* list_cut_position() and list_cut_before() are Cut, where they do anything.
LEMMA CutStep ==
  ASSUME ListInv, ListInv', NEW l \in Heads, NEW h \in Heads, NEW entry \in Item,
         CutPosition(l, h, entry) \/ CutBefore(l, h, entry)
  PROVE  Abstract!Next \/ UNCHANGED Abstract!lvars
<1> DEFINE S == Live \ {l}
           s == Sequences[h]
<1>1. Receives(l) /\ h \in Usable /\ h # l /\ entry \in Reach(h)
  BY DEF CutPosition, CutBefore
<1>2. /\ l \in Item \ S /\ l \in Heads \ S /\ Sound(link, S) /\ Sequences = ListsOf(link, S)
      /\ Sequences[l] = <<>>
  BY <1>1, ReceiverLists
<1>3. h \in Heads \cap S
  BY <1>1, MappedNow
<1>4. /\ link \in Memory /\ Ring(link, S) /\ S \subseteq Item
      /\ Sequences \in [Heads -> Seq(Nodes)]
      /\ s \in Seq(Nodes) /\ IsInjective(s) /\ Threads(link.next, h, s) /\ ToSet(s) \subseteq S
  <2>1. Known(link, S, Sequences)
    BY <1>2, ListFacts
  <2> QED BY <1>3, <2>1 DEF Known
<1>5. /\ Len(s) \in Nat /\ Around(h, s, 0) = h /\ Around(h, s, Len(s) + 1) = h
      /\ \A k \in 1 .. Len(s) : Around(h, s, k) = s[k] /\ s[k] \in ToSet(s) /\ s[k] # h
  BY <1>3, <1>4, AroundFacts
<1>6. entry \in {h} \cup ToSet(s)
  <2>1. Entries(h) = s
    BY <1>1, EntriesFacts, MappedNow
  <2> QED BY <1>1, <2>1, ReachIs
<1>7. ASSUME stale' = stale \ {l} PROVE Live' = S \cup {l} /\ Live' = Live \cup {l}
  BY <1>2, <1>7 DEF Live
<1>8. ASSUME stale' = stale \ {l}, link' = INIT_LIST_HEAD(link, l)
      PROVE  Abstract!Next
  <2>1. Live' = S \cup {l} /\ Live' = Live \cup {l}
    BY <1>7, <1>8
  <2> HIDE DEF S, s
  <2>2. ListsOf(INIT_LIST_HEAD(link, l), S \cup {l}) = Sequences
    BY <1>2, InitLists
  <2>3. Sequences' = Sequences
    BY <1>8, <2>1, <2>2, MappedNext
  <2>4. Sequences = Halved(Sequences, l, h, 0)
    BY <1>1, <1>2, <1>4, CutNone
  <2>5. 0 \in 0 .. Len(Sequences[h])
    BY <1>5 DEF s
  <2> QED BY <1>1, <1>2, <2>1, <2>3, <2>4, <2>5, CutIs
<1>9. ASSUME stale' = stale \ {l}, NEW k \in 1 .. Len(s),
             link' = __list_cut_position(link, l, h, s[k])
      PROVE  Abstract!Next
  <2>1. Live' = S \cup {l} /\ Live' = Live \cup {l}
    BY <1>7, <1>9
  <2> HIDE DEF S, s
  <2>2. ListsOf(__list_cut_position(link, l, h, s[k]), S \cup {l}) = Halved(Sequences, l, h, k)
    <3> DEFINE e == s[k]
    <3>1. IsEntry(e, Sequences, h, k)
      BY <1>9 DEF s, IsEntry
    <3> HIDE DEF e
    <3>2. ListsOf(__list_cut_position(link, l, h, e), S \cup {l}) = Halved(Sequences, l, h, k)
      BY <1>2, <1>3, <3>1, CutLists
    <3> QED BY <3>2 DEF e
  <2>3. Sequences' = Halved(Sequences, l, h, k)
    BY <1>9, <2>1, <2>2, MappedNext
  <2>4. k \in 0 .. Len(Sequences[h])
    BY <1>5, <1>9 DEF s
  <2> QED BY <1>1, <1>2, <2>1, <2>3, <2>4, CutIs
<1> HIDE DEF S, s
<1>10. CASE CutPosition(l, h, entry)
  <2>1. CASE NothingToCut(link, h, entry)
    <3>1. link' = link /\ stale' = stale
      BY <1>10, <2>1 DEF CutPosition, list_cut_position
    <3> QED BY <3>1 DEF Abstract!lvars, Sequences, Usable, OnNone, Entries, Linked, list_empty
  <2>2. CASE ~NothingToCut(link, h, entry)
    <3>1. stale' = stale \ {l}
      BY <1>10, <2>2 DEF CutPosition
    <3>2. CASE entry = h
      <4>1. link' = INIT_LIST_HEAD(link, l)
        BY <1>10, <2>2, <3>2 DEF CutPosition, list_cut_position
      <4> QED BY <1>8, <3>1, <4>1
    <3>3. CASE entry # h
      <4>1. link' = __list_cut_position(link, l, h, entry)
        BY <1>10, <2>2, <3>3 DEF CutPosition, list_cut_position
      <4>2. PICK k \in 1 .. Len(s) : s[k] = entry
        BY <1>4, <1>6, <3>3, Members
      <4> QED BY <1>9, <3>1, <4>1, <4>2
    <3> QED BY <3>2, <3>3
  <2> QED BY <2>1, <2>2
<1>11. CASE CutBefore(l, h, entry)
  <2>1. stale' = stale \ {l} /\ link' = list_cut_before(link, l, h, entry)
    BY <1>11 DEF CutBefore
  <2>2. CASE link.next[h] = entry
    <3>1. link' = INIT_LIST_HEAD(link, l)
      BY <2>1, <2>2 DEF list_cut_before
    <3> QED BY <1>8, <2>1, <3>1
  <2>3. CASE link.next[h] # entry
    <3> DEFINE last == link.prev[entry]
    <3>1. PICK j \in 1 .. Len(s) + 1 : Around(h, s, j) = entry
      <4>1. CASE entry = h
        <5>1. Len(s) + 1 \in 1 .. Len(s) + 1
          BY <1>5
        <5> QED BY <1>5, <4>1, <5>1
      <4>2. CASE entry \in ToSet(s)
        <5>1. PICK j \in 1 .. Len(s) : s[j] = entry
          BY <1>4, <4>2, Members
        <5>2. j \in 1 .. Len(s) + 1
          BY <1>5
        <5> QED BY <1>5, <5>1, <5>2
      <4> QED BY <1>6, <4>1, <4>2
    <3>2. j # 1
      BY <1>3, <1>4, <2>3, <3>1, FirstLink
    <3> DEFINE k == j - 1
    <3>3. k \in 1 .. Len(s) /\ k \in 0 .. Len(s) /\ k + 1 = j
      BY <1>5, <3>2
    <3> HIDE DEF k
    <3>4. last = s[k]
      <4>1. link.prev[Around(h, s, k + 1)] = Around(h, s, k)
        BY <1>3, <1>4, <3>3, BackLinks
      <4> QED BY <1>5, <3>1, <3>3, <4>1
    <3>5. last \in ToSet(s) /\ last # h
      BY <1>5, <3>3, <3>4
    <3>6. list_cut_before(link, l, h, entry) = __list_cut_position(link, l, h, last)
      <4>1. /\ last \in S /\ link.next[last] = entry /\ entry \in S
            /\ l # last /\ l # entry /\ l # h /\ link.next[h] \in S
        BY <1>1, <1>2, <1>3, <1>4, <1>6, <3>5 DEF Ring
      <4> QED
        BY <1>2, <1>3, <1>4, <2>3, <3>5, <4>1
           DEF list_cut_before, __list_cut_position, Memory
    <3> HIDE DEF last
    <3> QED BY <1>9, <2>1, <3>3, <3>4, <3>6
  <2> QED BY <2>2, <2>3
<1> QED BY <1>10, <1>11

\* Every step is a step of Lists, or changes nothing that can be seen there.
LEMMA NextMaps ==
  ASSUME ListInv, ListInv', [Next]_vars
  PROVE  [Abstract!Next]_(Abstract!lvars)
<1>1. CASE EntryOp
  BY <1>1, InitialiseStep, AddStep, DeleteStep, MoveStep, ReplaceStep DEF EntryOp
<1>2. CASE ListOp
  BY <1>2, RotateStep, SpliceStep, CutStep DEF ListOp
<1>3. ASSUME UNCHANGED <<link, stale>> PROVE UNCHANGED Abstract!lvars
  BY <1>3 DEF Abstract!lvars, Sequences, Usable, OnNone, Entries, Linked, list_empty
<1>4. ASSUME NEW kind, NEW h, Start(kind, h) PROVE UNCHANGED Abstract!lvars
  BY <1>3, <1>4 DEF Start
<1>5. CASE Advance \/ Stop \/ UNCHANGED vars
  BY <1>3, <1>5 DEF Advance, Stop, vars
<1> QED BY <1>1, <1>2, <1>4, <1>5 DEF Next

\* At first no head has entries.
LEMMA InitMaps ==
  ASSUME Init
  PROVE  Abstract!Init
<1>1. ListInv
  BY InitListInv
<1>2. Heads \cap Live = Heads /\ \A h \in Heads : link.next[h] = h
  BY ListAssumption DEF Init, Live, Item
<1>3. \A h \in Heads : Sequences[h] = <<>>
  BY <1>1, <1>2, MappedNow, EmptyLists
<1>4. Sequences = [h \in Heads |-> <<>>]
  BY <1>3 DEF Sequences
<1> QED BY <1>1, <1>2, <1>4, MappedNow DEF Abstract!Init

-----------------------------------------------------------------------------
(* Loops *)

\* The loops.
Walks ==
  [kind : {"entry", "reverse", "safe"}, head : Heads, pos : Item,
   n : Item \cup {LIST_POISON1, LIST_POISON2}, seen : Seq(Nodes), whole : Seq(Nodes)]

\* What is behind the next entry of s is on the list L still, in the same order.
Ahead(L, s, i) ==
  \E d \in 0 .. i + 1 : Len(L) = Len(s) - d /\ \A k \in i + 2 .. Len(s) : L[k - d] = s[k]

Forward(w) ==
  /\ w.pos = Around(w.head, w.whole, Len(w.seen) + 1)
  /\ \A k \in 1 .. Len(w.seen) : w.seen[k] = w.whole[k]

Backward(w) ==
  /\ w.pos = Around(w.head, w.whole, Len(w.whole) - Len(w.seen))
  /\ \A k \in 1 .. Len(w.seen) : w.seen[k] = w.whole[Len(w.whole) + 1 - k]

Prepared(L, w) ==
  /\ Ahead(L, w.whole, Len(w.seen))
  /\ Len(w.seen) < Len(w.whole) => w.n = Around(w.head, w.whole, Len(w.seen) + 2)

\* The loop w over the list L has come by what it should have.
Under(L, w) ==
  /\ w \in Walks
  /\ IsInjective(w.whole)
  /\ Len(w.seen) <= Len(w.whole)
  /\ IF w.kind = "reverse" THEN Backward(w) ELSE Forward(w)
  /\ IF w.kind = "safe" THEN Prepared(L, w) ELSE L = w.whole

WalkInv ==
  walk # NoWalk => walk.head \in Usable /\ Under(Entries(walk.head), walk)

\* What a loop consists of.
LEMMA WalkFields ==
  ASSUME NEW w \in Walks
  PROVE  /\ w.kind \in {"entry", "reverse", "safe"} /\ w.head \in Heads /\ w.pos \in Item
         /\ w.n \in Item \cup {LIST_POISON1, LIST_POISON2}
         /\ w.seen \in Seq(Nodes) /\ Len(w.seen) \in Nat
         /\ w.whole \in Seq(Nodes) /\ Len(w.whole) \in Nat
BY DEF Walks

\* A loop that is not back at the head has an entry to come by.
LEMMA NotAtEnd ==
  ASSUME NEW L, walk # NoWalk, Under(L, walk), ~AtEnd
  PROVE  /\ Len(walk.seen) + 1 \in 1 .. Len(walk.whole)
         /\ Len(walk.whole) - Len(walk.seen) \in 1 .. Len(walk.whole)
         /\ walk.pos \in Nodes
         /\ walk.kind # "reverse" => walk.pos = walk.whole[Len(walk.seen) + 1]
         /\ walk.kind = "reverse" => walk.pos = walk.whole[Len(walk.whole) - Len(walk.seen)]
<1> DEFINE i == Len(walk.seen)
           N == Len(walk.whole)
           s == walk.whole
<1>1. walk \in Walks /\ i <= N
  BY DEF Under
<1>2. walk.kind # "none" /\ walk.pos # walk.head
  BY <1>1, WalkFields DEF AtEnd
<1>3. /\ i \in Nat /\ N \in Nat /\ s \in Seq(Nodes) /\ DOMAIN s = 1 .. N
      /\ \A k \in 1 .. N : s[k] \in Nodes
  <2>1. i \in Nat /\ N \in Nat /\ s \in Seq(Nodes)
    BY <1>1, WalkFields
  <2> QED BY <2>1, AroundFacts
<1>4. walk.kind # "reverse" => walk.pos = Around(walk.head, s, i + 1)
  BY DEF Under, Forward
<1>5. walk.kind = "reverse" => walk.pos = Around(walk.head, s, N - i)
  BY DEF Under, Backward
<1> HIDE DEF i, N, s
<1>6. CASE walk.kind = "reverse"
  <2>1. N - i \in 1 .. N /\ walk.pos = s[N - i]
    BY <1>2, <1>5, <1>6 DEF Around, N, s
  <2>2. i + 1 \in 1 .. N
    BY <1>3, <2>1
  <2> QED BY <1>3, <1>6, <2>1, <2>2 DEF i, N, s
<1>7. CASE walk.kind # "reverse"
  <2>1. i + 1 \in 1 .. N /\ walk.pos = s[i + 1]
    BY <1>2, <1>4, <1>7 DEF Around, N, s
  <2>2. N - i \in 1 .. N
    BY <1>3, <2>1
  <2> QED BY <1>3, <1>7, <2>1, <2>2 DEF i, N, s
<1> QED BY <1>6, <1>7

\* A loop that begins has come by nothing and is at the first entry.
LEMMA StartUnder ==
  ASSUME ListInv, NEW h \in Usable, NEW kind \in {"entry", "reverse", "safe"},
         NEW w, w = [kind |-> kind, head |-> h, pos |-> first_entry(kind, h),
                     n |-> link.next[first_entry(kind, h)],
                     seen |-> <<>>, whole |-> Entries(h)]
  PROVE  Under(Entries(h), w)
<1> DEFINE s == Entries(h)
           pos == first_entry(kind, h)
<1>1. /\ h \in Heads \cap Live /\ s \in Seq(Nodes) /\ IsInjective(s)
      /\ Threads(link.next, h, s) /\ ToSet(s) \subseteq Live
  BY EntriesFacts
<1>2. link \in Memory /\ Ring(link, Live) /\ Live \subseteq Item
  BY DEF ListInv, Sound
<1>3. /\ Len(s) \in Nat /\ \A k \in 0 .. Len(s) : link.next[Around(h, s, k)] = Around(h, s, k + 1)
  BY <1>1, AroundFacts DEF Threads
<1> HIDE DEF s
<1>4. pos \in Item /\ link.next[pos] \in Item \cup {LIST_POISON1, LIST_POISON2}
  <2>1. pos \in Live
    BY <1>1, <1>2 DEF Ring, first_entry
  <2> HIDE DEF pos
  <2> QED BY <1>2, <2>1 DEF Memory
<1> DEFINE n == link.next[pos]
<1>5. /\ w.kind = kind /\ w.head = h /\ w.pos = pos /\ w.n = n
      /\ w.seen = <<>> /\ w.whole = s /\ Len(w.seen) = 0 /\ w \in Walks
  <2>1. w = [kind |-> kind, head |-> h, pos |-> pos, n |-> n, seen |-> <<>>, whole |-> s]
    BY DEF s
  <2> HIDE DEF pos, n
  <2>2. n \in Item \cup {LIST_POISON1, LIST_POISON2}
    BY <1>4 DEF n
  <2> QED BY <1>1, <1>4, <2>1, <2>2 DEF Walks
<1>6. CASE kind = "reverse"
  <2>1. pos = Around(h, s, Len(s))
    BY <1>1, <1>2, <1>6, LastLink DEF first_entry
  <2> HIDE DEF pos, n
  <2>2. Backward(w)
    <3>1. Len(w.whole) - Len(w.seen) = Len(s)
      BY <1>3, <1>5
    <3>2. \A k \in 1 .. Len(w.seen) : FALSE
      BY <1>5
    <3> QED BY <1>5, <2>1, <3>1, <3>2 DEF Backward
  <2> QED BY <1>1, <1>3, <1>5, <1>6, <2>2 DEF Under, s
<1>7. CASE kind # "reverse"
  <2>1. pos = Around(h, s, 1)
    BY <1>1, <1>7, FirstLink DEF first_entry
  <2>2. 0 < Len(s) => n = Around(h, s, 2)
    BY <1>3, <2>1
  <2> HIDE DEF pos, n
  <2>3. Forward(w)
    <3>1. \A k \in 1 .. Len(w.seen) : FALSE
      BY <1>5
    <3> QED BY <1>5, <2>1, <3>1 DEF Forward
  <2>4. Prepared(s, w)
    <3>1. Ahead(s, s, 0)
      <4>1. Len(s) = Len(s) - 0 /\ \A k \in 2 .. Len(s) : k - 0 = k
        BY <1>3
      <4>2. 0 \in 0 .. 0 + 1 /\ 0 + 2 = 2
        OBVIOUS
      <4> QED BY <4>1, <4>2 DEF Ahead
    <3> QED BY <1>5, <2>2, <3>1 DEF Prepared
  <2> QED BY <1>1, <1>3, <1>5, <1>7, <2>3, <2>4 DEF Under, s
<1> QED BY <1>6, <1>7

\* What the safe loop has read ahead is next on the list still.
LEMMA NextAhead ==
  ASSUME NEW f, NEW h \in Heads, NEW L, Threads(f, h, L), NEW s \in Seq(Nodes),
         NEW i \in Nat, Ahead(L, s, i), i + 2 <= Len(s)
  PROVE  f[s[i + 2]] = Around(h, s, i + 3)
<1>1. /\ Len(L) \in Nat /\ \A k \in 0 .. Len(L) : f[Around(h, L, k)] = Around(h, L, k + 1)
      /\ Len(s) \in Nat
  BY AroundFacts DEF Threads
<1>2. PICK d \in 0 .. i + 1 : /\ Len(L) = Len(s) - d
                              /\ \A k \in i + 2 .. Len(s) : L[k - d] = s[k]
  BY DEF Ahead
<1> DEFINE j == (i + 2) - d
<1>3. j \in 1 .. Len(L) /\ L[j] = s[i + 2]
  BY <1>1, <1>2
<1>4. j + 1 = (i + 3) - d
  BY <1>2
<1> HIDE DEF j
<1>5. f[s[i + 2]] = Around(h, L, j + 1)
  BY <1>1, <1>3 DEF Around
<1>6. CASE i + 3 <= Len(s)
  <2>1. j + 1 \in 1 .. Len(L) /\ L[j + 1] = s[i + 3] /\ i + 3 \in 1 .. Len(s)
    BY <1>1, <1>2, <1>4, <1>6
  <2> QED BY <1>5, <2>1 DEF Around
<1>7. CASE ~(i + 3 <= Len(s))
  <2>1. j + 1 \notin 1 .. Len(L) /\ i + 3 \notin 1 .. Len(s)
    BY <1>1, <1>2, <1>4, <1>7
  <2> QED BY <1>5, <2>1 DEF Around
<1> QED BY <1>6, <1>7

\* The entry the safe loop is at may go, if it is on the list at all.
LEMMA RestAhead ==
  ASSUME NEW L \in Seq(Nodes), IsInjective(L), NEW s \in Seq(Nodes), IsInjective(s),
         NEW i \in Nat, i + 1 \in 1 .. Len(s), Ahead(L, s, i)
  PROVE  Ahead(RemoveFirst(L, s[i + 1]), s, i)
<1>1. /\ Len(L) \in Nat /\ Len(s) \in Nat /\ DOMAIN L = 1 .. Len(L) /\ DOMAIN s = 1 .. Len(s)
  BY LenProperties
<1>2. PICK d \in 0 .. i + 1 : /\ Len(L) = Len(s) - d
                              /\ \A k \in i + 2 .. Len(s) : L[k - d] = s[k]
  BY DEF Ahead
<1>3. CASE s[i + 1] \notin ToSet(L)
  BY <1>3, RemoveFirstOfNone
<1>4. CASE s[i + 1] \in ToSet(L)
  <2>1. PICK j \in 1 .. Len(L) : L[j] = s[i + 1]
    BY <1>4, Members
  <2>2. j <= (i + 1) - d
    <3> SUFFICES ASSUME j > (i + 1) - d PROVE FALSE
      BY <1>1, <1>2
    <3> DEFINE k == j + d
    <3>1. k \in i + 2 .. Len(s) /\ k - d = j /\ k # i + 1 /\ k \in 1 .. Len(s)
      BY <1>1, <1>2
    <3> HIDE DEF k
    <3>2. s[k] = s[i + 1]
      BY <1>2, <2>1, <3>1
    <3> QED BY <1>1, <3>1, <3>2 DEF IsInjective
  <2> DEFINE R == RemoveAt(L, j)
  <2>3. RemoveFirst(L, s[i + 1]) = R
    BY <2>1, RemoveFirstIs
  <2>4. /\ Len(R) = Len(L) - 1
        /\ \A k \in 1 .. Len(L) - 1 : R[k] = IF k < j THEN L[k] ELSE L[k + 1]
    BY RemoveAtFacts
  <2> HIDE DEF R
  <2>5. d + 1 \in 0 .. i + 1 /\ Len(R) = Len(s) - (d + 1)
    BY <1>1, <1>2, <2>2, <2>4
  <2>6. ASSUME NEW k \in i + 2 .. Len(s) PROVE R[k - (d + 1)] = s[k]
    <3> DEFINE q == k - (d + 1)
    <3>1. q \in 1 .. Len(L) - 1 /\ ~(q < j) /\ q + 1 = k - d
      BY <1>1, <1>2, <2>2
    <3> HIDE DEF q
    <3>2. R[q] = L[k - d]
      BY <2>4, <3>1
    <3> QED BY <1>2, <3>2 DEF q
  <2>7. Ahead(R, s, i)
    <3> DEFINE e == d + 1
    <3>1. e \in 0 .. i + 1 /\ Len(R) = Len(s) - e /\ \A k \in i + 2 .. Len(s) : R[k - e] = s[k]
      BY <2>5, <2>6
    <3> HIDE DEF e
    <3> QED BY <3>1 DEF Ahead
  <2> QED BY <2>3, <2>7
<1> QED BY <1>3, <1>4

\* The body of the safe loop takes the entry it is at off the list.
LEMMA BodyUnder ==
  ASSUME ListInv, WalkInv, walk # NoWalk, ~AtEnd, walk.kind = "safe",
         NEW L, L = Entries(walk.head)
  PROVE  Under(RemoveFirst(L, walk.pos), walk)
<1>1. walk.head \in Usable /\ Under(L, walk)
  BY DEF WalkInv
<1>2. walk \in Walks /\ IsInjective(walk.whole) /\ Prepared(L, walk)
  BY <1>1 DEF Under
<1>3. walk.whole \in Seq(Nodes) /\ Len(walk.seen) \in Nat
  BY <1>2, WalkFields
<1>4. Len(walk.seen) + 1 \in 1 .. Len(walk.whole) /\ walk.pos = walk.whole[Len(walk.seen) + 1]
  BY <1>1, NotAtEnd
<1>5. L \in Seq(Nodes) /\ IsInjective(L)
  BY <1>1, EntriesFacts
<1>6. Ahead(RemoveFirst(L, walk.pos), walk.whole, Len(walk.seen))
  <2> DEFINE s == walk.whole
             i == Len(walk.seen)
  <2>1. /\ s \in Seq(Nodes) /\ IsInjective(s) /\ i \in Nat /\ i + 1 \in 1 .. Len(s)
        /\ Ahead(L, s, i) /\ walk.pos = s[i + 1]
    BY <1>2, <1>3, <1>4 DEF Prepared
  <2> HIDE DEF s, i
  <2>2. Ahead(RemoveFirst(L, s[i + 1]), s, i)
    BY <1>5, <2>1, RestAhead
  <2> QED BY <2>1, <2>2 DEF s, i
<1> QED BY <1>1, <1>2, <1>6 DEF Under, Prepared

\* A loop that goes on has come by one entry more, the right one.
LEMMA AdvanceUnder ==
  ASSUME ListInv, WalkInv, walk # NoWalk, ~AtEnd, NEW L, L = Entries(walk.head),
         NEW w, w = [walk EXCEPT !.pos = next_entry,
                                 !.n = IF next_entry \in Item THEN link.next[next_entry] ELSE @,
                                 !.seen = Append(@, walk.pos)]
  PROVE  Under(L, w)
<1> DEFINE i == Len(walk.seen)
           s == walk.whole
           N == Len(s)
           h == walk.head
           pos == next_entry
           n == IF pos \in Item THEN link.next[pos] ELSE walk.n
           seen == Append(walk.seen, walk.pos)
<1>1. h \in Usable /\ Under(L, walk)
  BY DEF WalkInv
<1>2. walk \in Walks /\ IsInjective(s) /\ i <= N
  BY <1>1 DEF Under
<1>3. /\ walk.kind \in {"entry", "reverse", "safe"} /\ h \in Heads
      /\ s \in Seq(Nodes) /\ N \in Nat /\ walk.seen \in Seq(Nodes) /\ i \in Nat
      /\ walk.n \in Item \cup {LIST_POISON1, LIST_POISON2}
  BY <1>2, WalkFields
<1>4. /\ i + 1 \in 1 .. N /\ N - i \in 1 .. N /\ walk.pos \in Nodes
      /\ walk.kind # "reverse" => walk.pos = s[i + 1]
      /\ walk.kind = "reverse" => walk.pos = s[N - i]
  BY <1>1, NotAtEnd
<1>5. /\ h \in Heads \cap Live /\ L \in Seq(Nodes) /\ IsInjective(L)
      /\ Threads(link.next, h, L) /\ ToSet(L) \subseteq Live
  BY <1>1, EntriesFacts
<1>6. link \in Memory /\ Ring(link, Live) /\ Live \subseteq Item
  BY DEF ListInv, Sound
<1>7. \A k \in 0 .. N + 1 : Around(h, s, k) \in Item
  BY <1>3, AroundFacts DEF Around, Item
<1>8. /\ w = [walk EXCEPT !.pos = pos, !.n = n, !.seen = seen]
  OBVIOUS
<1>9. /\ seen \in Seq(Nodes) /\ Len(seen) = i + 1 /\ seen[i + 1] = walk.pos
      /\ \A k \in 1 .. i : seen[k] = walk.seen[k]
  BY <1>3, <1>4, AppendFacts
<1>10. /\ walk.kind # "safe" => L = s
       /\ walk.kind = "safe" => Ahead(L, s, i) /\ (i < N => walk.n = Around(h, s, i + 2))
       /\ walk.kind # "reverse" => \A k \in 1 .. i : walk.seen[k] = s[k]
       /\ walk.kind = "reverse" => \A k \in 1 .. i : walk.seen[k] = s[N + 1 - k]
  BY <1>1, <1>2 DEF Under, Prepared, Forward, Backward
<1>11. walk.kind # "reverse" => pos = Around(h, s, i + 2)
  <2>1. CASE walk.kind = "entry"
    <3>1. link.next[Around(h, s, i + 1)] = Around(h, s, (i + 1) + 1)
      BY <1>3, <1>4, <1>5, <1>10, <2>1 DEF Threads
    <3>2. (i + 1) + 1 = i + 2 /\ Around(h, s, i + 1) = walk.pos
      BY <1>3, <1>4, <2>1 DEF Around
    <3> QED BY <2>1, <3>1, <3>2 DEF next_entry
  <2>2. CASE walk.kind = "safe"
    <3>1. i < N
      BY <1>3, <1>4
    <3> QED BY <1>10, <2>2, <3>1 DEF next_entry
  <2> QED BY <1>3, <2>1, <2>2
<1>12. walk.kind = "reverse" => pos = Around(h, s, N - (i + 1))
  <2> SUFFICES ASSUME walk.kind = "reverse" PROVE pos = Around(h, s, N - (i + 1))
    OBVIOUS
  <2> DEFINE k == N - (i + 1)
  <2>1. k \in 0 .. N /\ k + 1 = N - i /\ L = s
    <3> HIDE DEF N, i, s
    <3>1. N \in Nat /\ i \in Nat /\ N - i \in 1 .. N
      BY <1>3, <1>4
    <3>2. k \in 0 .. N /\ k + 1 = N - i
      BY <3>1
    <3> QED BY <1>10, <3>2
  <2> HIDE DEF k
  <2>2. link.prev[Around(h, L, k + 1)] = Around(h, L, k)
    BY <1>5, <1>6, <2>1, BackLinks
  <2>3. Around(h, s, k + 1) = walk.pos
    BY <1>4, <2>1 DEF Around
  <2> QED BY <2>1, <2>2, <2>3 DEF next_entry, k
<1>13. pos \in Item
  <2>1. i + 2 \in 0 .. N + 1 /\ N - (i + 1) \in 0 .. N + 1
    <3> HIDE DEF N, i, s
    <3>1. N \in Nat /\ i \in Nat /\ i + 1 \in 1 .. N
      BY <1>3, <1>4
    <3> QED BY <3>1
  <2> QED BY <1>7, <1>11, <1>12, <2>1
<1> HIDE DEF pos
<1>14. n = link.next[pos] /\ n \in Item \cup {LIST_POISON1, LIST_POISON2}
  BY <1>6, <1>13 DEF Memory
<1> HIDE DEF n, seen
<1>15. /\ w.kind = walk.kind /\ w.head = h /\ w.pos = pos /\ w.n = n /\ w.seen = seen
       /\ w.whole = s /\ w \in Walks
  BY <1>2, <1>8, <1>9, <1>13, <1>14 DEF Walks
<1> HIDE DEF i, s, h
<1>16. i + 1 <= N
  BY <1>3, <1>4
<1>17. CASE walk.kind = "reverse"
  <2>1. ASSUME NEW k \in 1 .. i + 1 PROVE seen[k] = s[N + 1 - k]
    <3>1. CASE k = i + 1
      <4>1. N + 1 - k = N - i
        BY <1>3, <3>1
      <4> QED BY <1>4, <1>9, <1>17, <3>1, <4>1
    <3>2. CASE k # i + 1
      <4>1. k \in 1 .. i
        BY <1>3, <3>2
      <4> QED BY <1>9, <1>10, <1>17, <4>1
    <3> QED BY <3>1, <3>2
  <2>2. Backward(w)
    BY <1>9, <1>12, <1>15, <1>17, <2>1 DEF Backward
  <2> QED BY <1>2, <1>9, <1>10, <1>15, <1>16, <1>17, <2>2 DEF Under
<1>18. CASE walk.kind # "reverse"
  <2>1. ASSUME NEW k \in 1 .. i + 1 PROVE seen[k] = s[k]
    <3>1. CASE k = i + 1
      BY <1>4, <1>9, <1>18, <3>1
    <3>2. CASE k # i + 1
      <4>1. k \in 1 .. i
        BY <1>3, <3>2
      <4> QED BY <1>9, <1>10, <1>18, <4>1
    <3> QED BY <3>1, <3>2
  <2>2. (i + 1) + 1 = i + 2 /\ (i + 1) + 2 = i + 3
    BY <1>3
  <2>3. Forward(w)
    BY <1>9, <1>11, <1>15, <1>18, <2>1, <2>2 DEF Forward
  <2>4. CASE walk.kind = "safe"
    <3>1. PICK d \in 0 .. i + 1 : /\ Len(L) = N - d
                                  /\ \A k \in i + 2 .. N : L[k - d] = s[k]
      BY <1>10, <2>4 DEF Ahead
    <3>2. Ahead(L, s, i + 1)
      <4>1. d \in 0 .. (i + 1) + 1 /\ \A k \in (i + 1) + 2 .. N : k \in i + 2 .. N
        BY <1>3
      <4> QED BY <3>1, <4>1 DEF Ahead
    <3>3. ASSUME i + 1 < N PROVE n = Around(h, s, i + 3)
      <4>1. i + 2 \in 1 .. N /\ i + 2 <= N
        BY <1>3, <3>3
      <4>2. pos = s[i + 2]
        BY <1>11, <1>18, <4>1 DEF Around
      <4>3. link.next[s[i + 2]] = Around(h, s, i + 3)
        BY <1>3, <1>5, <1>10, <2>4, <4>1, NextAhead
      <4> QED BY <1>14, <4>2, <4>3
    <3>4. Prepared(L, w)
      BY <1>9, <1>15, <2>2, <3>2, <3>3 DEF Prepared
    <3> QED BY <1>2, <1>9, <1>15, <1>16, <1>18, <2>3, <2>4, <3>4 DEF Under
  <2>5. CASE walk.kind # "safe"
    BY <1>2, <1>9, <1>10, <1>15, <1>16, <1>18, <2>3, <2>5 DEF Under
  <2> QED BY <2>4, <2>5
<1> QED BY <1>17, <1>18

\* At first there is no loop.
LEMMA InitWalk ==
  Init => WalkInv
BY DEF Init, WalkInv

\* Neither the loops nor what their bodies may do disturbs it.
LEMMA NextWalk ==
  ASSUME ListInv, WalkInv, [Next]_vars
  PROVE  WalkInv'
<1>1. CASE (EntryOp \/ ListOp) /\ UNCHANGED walk /\ KeepsWalk
  <2> SUFFICES ASSUME walk # NoWalk
               PROVE  walk.head \in Usable' /\ Under(Chain(link'.next, walk.head), walk)
    BY <1>1 DEF WalkInv, Entries
  <2>1. walk.head \in Usable /\ Under(Entries(walk.head), walk)
    BY DEF WalkInv
  <2>2. walk.head \in Usable'
    BY <1>1, <2>1 DEF KeepsWalk, Usable
  <2>3. CASE Chain(link'.next, walk.head) = Entries(walk.head)
    BY <2>1, <2>2, <2>3
  <2>4. CASE /\ walk.kind = "safe"
             /\ Chain(link'.next, walk.head) = RemoveFirst(Entries(walk.head), walk.pos)
    <3>1. ~AtEnd
      BY <1>1 DEF KeepsWalk
    <3> QED BY <2>2, <2>4, <3>1, BodyUnder
  <2> QED BY <1>1, <2>3, <2>4 DEF KeepsWalk
<1>2. ASSUME NEW kind \in {"entry", "reverse", "safe"}, NEW h \in Heads, Start(kind, h)
      PROVE  WalkInv'
  <2>1. h \in Usable /\ Usable' = Usable /\ Entries(h)' = Entries(h)
    BY <1>2 DEF Start, Usable, Entries
  <2>2. walk'.head = h /\ Under(Entries(h), walk')
    BY <1>2, <2>1, StartUnder DEF Start
  <2>3. Chain(link.next, h) = Entries(h)
    BY DEF Entries
  <2> QED BY <1>2, <2>1, <2>2, <2>3 DEF WalkInv, Start, Entries
<1>3. CASE Advance
  <2>1. walk # NoWalk /\ ~AtEnd /\ link' = link /\ stale' = stale
    BY <1>3 DEF Advance
  <2>2. Under(Entries(walk.head), walk')
    BY <1>3, <2>1, AdvanceUnder DEF Advance
  <2>3. walk'.head = walk.head
    <3>1. walk \in Walks
      BY <2>1 DEF WalkInv, Under
    <3> QED BY <1>3, <3>1 DEF Advance, Walks
  <2> QED BY <2>1, <2>2, <2>3 DEF WalkInv, Usable, Entries
<1>4. CASE Stop
  BY <1>4 DEF Stop, WalkInv
<1>5. CASE UNCHANGED vars
  BY <1>5 DEF vars, WalkInv, Usable, Entries
<1> QED BY <1>1, <1>2, <1>3, <1>4, <1>5 DEF Next

\* A loop that is back at the head has come by everything.
LEMMA InvImpliesWalkSeesAll ==
  ASSUME WalkInv
  PROVE  WalkSeesAll
<1> SUFFICES ASSUME AtEnd
             PROVE  walk.seen = IF walk.kind = "reverse" THEN Reverse(walk.whole) ELSE walk.whole
  BY DEF WalkSeesAll
<1> DEFINE i == Len(walk.seen)
           s == walk.whole
           N == Len(s)
           h == walk.head
<1>1. walk # NoWalk
  BY DEF AtEnd, NoWalk
<1>2. Under(Entries(h), walk) /\ walk \in Walks
  BY <1>1 DEF WalkInv, Under
<1>3. h \in Heads /\ s \in Seq(Nodes) /\ N \in Nat /\ walk.seen \in Seq(Nodes) /\ i \in Nat /\ i <= N
  BY <1>2, WalkFields DEF Under
<1>4. walk.pos = h
  BY <1>2, WalkFields DEF AtEnd
<1>5. \A k \in 1 .. N : Around(h, s, k) # h
  BY <1>3, AroundFacts
<1> HIDE DEF h
<1>6. CASE walk.kind = "reverse"
  <2>1. Backward(walk)
    BY <1>2, <1>6 DEF Under
  <2>2. i = N
    <3>1. N - i \notin 1 .. N
      BY <1>4, <1>5, <2>1 DEF Backward, h
    <3> HIDE DEF i, N, s
    <3> QED BY <1>3, <3>1
  <2>3. \A k \in 1 .. N : walk.seen[k] = s[N + 1 - k]
    BY <2>1, <2>2 DEF Backward
  <2>4. /\ Reverse(s) \in Seq(Nodes) /\ Len(Reverse(s)) = N
        /\ \A k \in 1 .. N : Reverse(s)[k] = s[N + 1 - k]
    <3> HIDE DEF s
    <3>1. \A k \in 1 .. N : (N - k) + 1 \in 1 .. N /\ (N - k) + 1 = N + 1 - k
      BY <1>3
    <3>2. Reverse(s) = [k \in 1 .. N |-> s[(N - k) + 1]]
      BY DEF Reverse
    <3>3. \A k \in 1 .. N : s[k] \in Nodes
      BY <1>3, ElementOfSeq
    <3> QED BY <1>3, <3>1, <3>2, <3>3
  <2>5. walk.seen = Reverse(s)
    <3> HIDE DEF s
    <3> DEFINE r == Reverse(s)
    <3> HIDE DEF r
    <3>1. r \in Seq(Nodes) /\ Len(r) = N /\ \A k \in 1 .. N : walk.seen[k] = r[k]
      BY <2>3, <2>4 DEF r
    <3> QED BY <1>3, <2>2, <3>1, SeqEqual DEF r
  <2> QED BY <1>6, <2>5
<1>7. CASE walk.kind # "reverse"
  <2>1. Forward(walk)
    BY <1>2, <1>7 DEF Under
  <2>2. i = N
    <3>1. i + 1 \notin 1 .. N
      BY <1>4, <1>5, <2>1 DEF Forward, h
    <3> QED BY <1>3, <3>1
  <2>3. \A k \in 1 .. N : walk.seen[k] = s[k]
    BY <2>1, <2>2 DEF Forward
  <2> QED BY <1>3, <1>7, <2>2, <2>3, SeqEqual
<1> QED BY <1>6, <1>7

-----------------------------------------------------------------------------
(* What holds of every behaviour *)

\* The links stay sound.
LEMMA ListInvariant ==
  Spec => []ListInv
PROOF
  <1>1. Init => ListInv
    BY InitListInv
  <1>2. ListInv /\ [Next]_vars => ListInv'
    BY NextSound
  <1> QED
    BY <1>1, <1>2, PTL DEF Spec

\* The fields of what is in use point to what is in use, and never to poison:
\* no sequence of calls that keeps the contract leaves a dangling link.
THEOREM LinksStayInUse ==
  Spec => []TypeOK
BY ListInvariant, InvImpliesTypeOK, PTL

\* After any sequence of calls next and prev undo each other, and what can be
\* reached from one head cannot be reached from another, however many entries
\* and heads there are.
THEOREM ListsStayApart ==
  Spec => []WellLinked
BY ListInvariant, InvImpliesWellLinked, PTL

\* An entry is on one list, once, if list_empty() is false of it and on none if
\* it is true, after any sequence of calls: what the assertions of sched.c and
\* the loops of pa2.c take for granted.
THEOREM EntriesOnOneList ==
  Spec => []OnOneList
BY ListInvariant, InvImpliesOnOneList, PTL

\* list_head.h does to its pointers what Lists does to sequences, call by call
\* and for any number of entries and of heads: an entry is put where the caller
\* asked for, the others keep their order, and what an operation leaves behind
\* says of itself whether it is on a list.
THEOREM PointersAreSequences ==
  Spec => ImplementsLists
<1>1. Init => Abstract!Init
  BY InitMaps
<1>2. ListInv /\ ListInv' /\ [Next]_vars => [Abstract!Next]_(Abstract!lvars)
  BY NextMaps
<1> QED BY <1>1, <1>2, ListInvariant, PTL DEF Spec, ImplementsLists, Abstract!Spec

\* list_for_each_entry(), its reverse and its safe form come by every entry that
\* was on the list, once and in order, whatever the body does to other lists and,
\* in the safe form, when it takes the entry at hand off.
THEOREM LoopsSeeAll ==
  Spec => []WalkSeesAll
<1>1. Init => WalkInv
  BY InitWalk
<1>2. ListInv /\ WalkInv /\ [Next]_vars => WalkInv'
  BY NextWalk
<1>3. WalkInv => WalkSeesAll
  BY InvImpliesWalkSeesAll
<1> QED BY <1>1, <1>2, <1>3, ListInvariant, PTL DEF Spec
=============================================================================
