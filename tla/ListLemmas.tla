----------------------------- MODULE ListLemmas -----------------------------
(***************************************************************************)
(* Facts about what becomes of sequences in the lists of the simulators:   *)
(* adding an entry (list_add_tail, list_add), taking one out (list_del),   *)
(* cutting a list and joining two; and about the loops over them, which    *)
(* the models write as recursive functions: that these have a value.       *)
(***************************************************************************)
EXTENDS Integers, SequencesExt, SequenceTheorems, WellFoundedInduction, TLAPS

\* What the set of the entries of a list is.
LEMMA Members ==
  ASSUME NEW S, NEW s \in Seq(S)
  PROVE  /\ ToSet(s) \subseteq S
         /\ \A e : e \in ToSet(s) <=> \E i \in 1 .. Len(s) : s[i] = e
         /\ ToSet(s) = {} <=> s = <<>>
         /\ DOMAIN s = 1 .. Len(s)
<1>1. /\ DOMAIN s = 1 .. Len(s)
      /\ Len(s) \in Nat
  BY LenProperties
<1>2. ToSet(s) \subseteq S /\ \A e : e \in ToSet(s) <=> \E i \in 1 .. Len(s) : s[i] = e
  BY <1>1, ElementOfSeq DEF ToSet
<1>3. ToSet(s) = {} <=> s = <<>>
  <2>1. CASE s = <<>>
    BY <2>1, <1>2
  <2>2. CASE s # <<>>
    <3>1. Len(s) >= 1
      BY <2>2, <1>1, EmptySeq
    <3>2. s[1] \in ToSet(s)
      BY <3>1, <1>1, <1>2
    <3> QED BY <2>2, <3>2
  <2> QED BY <2>1, <2>2
<1> QED BY <1>1, <1>2, <1>3

\* An index of a list is a position in it, and an entry stands there.
LEMMA Entry ==
  ASSUME NEW S, NEW s \in Seq(S), NEW i \in DOMAIN s
  PROVE  i \in 1 .. Len(s) /\ s[i] \in S /\ s[i] \in ToSet(s)
BY Members, ElementOfSeq

\* list_add_tail(): the list keeps its entries and gains one, at its tail.
LEMMA AppendFacts ==
  ASSUME NEW S, NEW s \in Seq(S), NEW e \in S
  PROVE  /\ Append(s, e) \in Seq(S)
         /\ Len(Append(s, e)) = Len(s) + 1
         /\ \A i \in 1 .. Len(s) : Append(s, e)[i] = s[i]
         /\ Append(s, e)[Len(s) + 1] = e
         /\ ToSet(Append(s, e)) = ToSet(s) \cup {e}
         /\ IsInjective(s) /\ e \notin ToSet(s) => IsInjective(Append(s, e))
<1>1. /\ Append(s, e) \in Seq(S)
      /\ Len(s) \in Nat
      /\ Len(Append(s, e)) = Len(s) + 1
      /\ \A i \in 1 .. Len(s) : Append(s, e)[i] = s[i]
      /\ Append(s, e)[Len(s) + 1] = e
  BY LenProperties
<1>2. ToSet(Append(s, e)) = ToSet(s) \cup {e}
  <2>1. \A x : x \in ToSet(Append(s, e)) <=>
               \E i \in 1 .. Len(s) + 1 : Append(s, e)[i] = x
    BY <1>1, Members
  <2>2. \A x : x \in ToSet(s) <=> \E i \in 1 .. Len(s) : s[i] = x
    BY Members
  <2>3. ASSUME NEW x \in ToSet(Append(s, e)), x # e
        PROVE  x \in ToSet(s)
    <3>1. PICK i \in 1 .. Len(s) + 1 : Append(s, e)[i] = x
      BY <2>1, <2>3
    <3>2. i \in 1 .. Len(s)
      BY <1>1, <2>3, <3>1
    <3> QED BY <1>1, <2>2, <3>1, <3>2
  <2>4. ASSUME NEW x \in ToSet(s) \cup {e}
        PROVE  x \in ToSet(Append(s, e))
    <3>1. CASE x \in ToSet(s)
      <4>1. PICK i \in 1 .. Len(s) : s[i] = x
        BY <2>2, <3>1
      <4>2. i \in 1 .. Len(s) + 1 /\ Append(s, e)[i] = x
        BY <1>1, <4>1
      <4> QED BY <2>1, <4>2
    <3>2. CASE x = e
      <4>1. Len(s) + 1 \in 1 .. Len(s) + 1
        BY <1>1
      <4> QED BY <1>1, <2>1, <3>2, <4>1
    <3> QED BY <2>4, <3>1, <3>2
  <2> QED BY <2>3, <2>4
<1>3. ASSUME IsInjective(s), e \notin ToSet(s)
      PROVE  IsInjective(Append(s, e))
  <2>1. DOMAIN Append(s, e) = 1 .. Len(s) + 1 /\ DOMAIN s = 1 .. Len(s)
    BY <1>1, Members
  <2>2. \A i \in 1 .. Len(s) : s[i] # e
    BY <1>3, Members
  <2> QED BY <1>1, <1>3, <2>1, <2>2 DEF IsInjective
<1> QED BY <1>1, <1>2, <1>3

\* The same facts entry by entry.
LEMMA AppendEntries ==
  ASSUME NEW S, NEW s \in Seq(S), NEW e \in S
  PROVE  /\ \A j \in DOMAIN Append(s, e) :
              \/ j \in DOMAIN s /\ Append(s, e)[j] = s[j]
              \/ j = Len(s) + 1 /\ Append(s, e)[j] = e
         /\ \A j \in DOMAIN s : j \in DOMAIN Append(s, e) /\ Append(s, e)[j] = s[j]
         /\ Len(s) + 1 \in DOMAIN Append(s, e) /\ Append(s, e)[Len(s) + 1] = e
         /\ Len(s) + 1 \notin DOMAIN s
<1>1. /\ Len(s) \in Nat
      /\ DOMAIN s = 1 .. Len(s)
      /\ DOMAIN Append(s, e) = 1 .. Len(s) + 1
  BY AppendFacts, LenProperties
<1> QED BY <1>1, AppendFacts

\* list_del(): the entries before i stay where they are, those after it move
\* up, and nothing else changes.
LEMMA RemoveAtFacts ==
  ASSUME NEW S, NEW s \in Seq(S), NEW i \in 1 .. Len(s)
  PROVE  /\ RemoveAt(s, i) \in Seq(S)
         /\ Len(RemoveAt(s, i)) = Len(s) - 1
         /\ \A j \in 1 .. Len(s) - 1 :
              RemoveAt(s, i)[j] = IF j < i THEN s[j] ELSE s[j + 1]
<1> DEFINE a == SubSeq(s, 1, i - 1)
           b == SubSeq(s, i + 1, Len(s))
<1>1. Len(s) \in Nat /\ \A j \in 1 .. Len(s) : s[j] \in S
  BY LenProperties, ElementOfSeq
<1>2. /\ a \in Seq(S)
      /\ Len(a) = i - 1
      /\ \A j \in 1 .. i - 1 : a[j] = s[j]
  BY <1>1, SubSeqProperties
<1>3. /\ b \in Seq(S)
      /\ Len(b) = Len(s) - i
      /\ \A j \in 1 .. Len(s) - i : b[j] = s[i + j]
  BY <1>1, SubSeqProperties
<1> HIDE DEF a, b
<1>4. /\ a \o b \in Seq(S)
      /\ Len(a \o b) = Len(a) + Len(b)
      /\ \A j \in 1 .. Len(a) + Len(b) :
           (a \o b)[j] = IF j <= Len(a) THEN a[j] ELSE b[j - Len(a)]
  BY <1>2, <1>3, ConcatProperties
<1>5. RemoveAt(s, i) = a \o b
  BY DEF RemoveAt, a, b
<1>6. Len(a) + Len(b) = Len(s) - 1
  BY <1>1, <1>2, <1>3
<1>7. ASSUME NEW j \in 1 .. Len(s) - 1
      PROVE  RemoveAt(s, i)[j] = IF j < i THEN s[j] ELSE s[j + 1]
  <2> USE <1>1
  <2>1. j \in 1 .. Len(a) + Len(b)
    BY <1>6
  <2>2. RemoveAt(s, i)[j] = IF j <= i - 1 THEN a[j] ELSE b[j - (i - 1)]
    BY <1>2, <1>4, <1>5, <2>1
  <2>3. CASE j < i
    <3>1. j <= i - 1 /\ j \in 1 .. i - 1
      BY <2>3
    <3> QED BY <1>2, <2>2, <2>3, <3>1
  <2>4. CASE ~(j < i)
    <3>1. ~(j <= i - 1) /\ j - (i - 1) \in 1 .. Len(s) - i
      BY <2>4
    <3>2. i + (j - (i - 1)) = j + 1
      OBVIOUS
    <3> QED BY <1>3, <2>2, <2>4, <3>1, <3>2
  <2> QED BY <2>3, <2>4
<1> QED BY <1>4, <1>5, <1>6, <1>7

\* The same facts without the positions.
LEMMA RemoveAtMembers ==
  ASSUME NEW S, NEW s \in Seq(S), NEW i \in DOMAIN s
  PROVE  /\ \A j \in DOMAIN RemoveAt(s, i) :
              \E k \in DOMAIN s \ {i} : RemoveAt(s, i)[j] = s[k]
         /\ \A k \in DOMAIN s \ {i} :
              \E j \in DOMAIN RemoveAt(s, i) : RemoveAt(s, i)[j] = s[k]
         /\ \A j, k \in DOMAIN RemoveAt(s, i) :
              j # k => \E m, n \in DOMAIN s \ {i} :
                         m # n /\ RemoveAt(s, i)[j] = s[m] /\ RemoveAt(s, i)[k] = s[n]
         /\ ToSet(RemoveAt(s, i)) \subseteq ToSet(s)
         /\ ToSet(s) = ToSet(RemoveAt(s, i)) \cup {s[i]}
<1>0. /\ DOMAIN s = 1 .. Len(s) /\ i \in 1 .. Len(s)
      /\ DOMAIN RemoveAt(s, i) = 1 .. Len(RemoveAt(s, i))
  BY RemoveAtFacts, LenProperties
<1>1. /\ Len(s) \in Nat
      /\ RemoveAt(s, i) \in Seq(S)
      /\ Len(RemoveAt(s, i)) = Len(s) - 1
      /\ \A j \in 1 .. Len(s) - 1 :
           RemoveAt(s, i)[j] = IF j < i THEN s[j] ELSE s[j + 1]
  BY <1>0, RemoveAtFacts, LenProperties
<1>2. ASSUME NEW j \in 1 .. Len(RemoveAt(s, i))
      PROVE  \E k \in 1 .. Len(s) \ {i} : RemoveAt(s, i)[j] = s[k]
  <2>1. CASE j < i
    BY <1>1, <2>1
  <2>2. CASE j >= i
    <3>1. j + 1 \in 1 .. Len(s) \ {i}
      BY <1>1, <2>2
    <3> QED BY <1>1, <2>2, <3>1
  <2>3. j \in Nat /\ i \in Nat
    BY <1>0, <1>1
  <2>4. j < i \/ j >= i
    BY <2>3
  <2> QED BY <2>1, <2>2, <2>4
<1>3. ASSUME NEW k \in 1 .. Len(s) \ {i}
      PROVE  \E j \in 1 .. Len(RemoveAt(s, i)) : RemoveAt(s, i)[j] = s[k]
  <2>1. CASE k < i
    <3>1. k \in 1 .. Len(RemoveAt(s, i))
      BY <1>1, <2>1
    <3> QED BY <1>1, <2>1, <3>1
  <2>2. CASE k > i
    <3>1. k - 1 \in 1 .. Len(RemoveAt(s, i)) /\ ~(k - 1 < i)
      BY <1>1, <2>2
    <3>2. RemoveAt(s, i)[k - 1] = s[(k - 1) + 1]
      BY <1>1, <3>1
    <3>3. (k - 1) + 1 = k
      OBVIOUS
    <3> QED BY <3>1, <3>2, <3>3
  <2> QED BY <2>1, <2>2
<1>7. ASSUME NEW j \in DOMAIN RemoveAt(s, i), NEW k \in DOMAIN RemoveAt(s, i), j # k
      PROVE  \E m, n \in DOMAIN s \ {i} :
               m # n /\ RemoveAt(s, i)[j] = s[m] /\ RemoveAt(s, i)[k] = s[n]
  <2> DEFINE at(x) == IF x < i THEN x ELSE x + 1
  <2>0. j \in 1 .. Len(s) - 1 /\ k \in 1 .. Len(s) - 1
    BY <1>0, <1>1
  <2>1. at(j) \in DOMAIN s \ {i} /\ at(k) \in DOMAIN s \ {i} /\ at(j) # at(k)
    BY <1>0, <1>1, <1>7, <2>0
  <2>2. RemoveAt(s, i)[j] = s[at(j)] /\ RemoveAt(s, i)[k] = s[at(k)]
    BY <1>1, <2>0
  <2> HIDE DEF at
  <2> QED BY <2>1, <2>2
<1>4. ASSUME NEW x \in ToSet(RemoveAt(s, i))
      PROVE  x \in ToSet(s)
  <2>1. PICK j \in 1 .. Len(RemoveAt(s, i)) : RemoveAt(s, i)[j] = x
    BY <1>1, <1>4, Members
  <2>2. PICK k \in 1 .. Len(s) \ {i} : RemoveAt(s, i)[j] = s[k]
    BY <1>2
  <2> QED BY <2>1, <2>2, Members
<1>5. ASSUME NEW x \in ToSet(s), x # s[i]
      PROVE  x \in ToSet(RemoveAt(s, i))
  <2>1. PICK k \in 1 .. Len(s) : s[k] = x
    BY <1>5, Members
  <2>2. k \in 1 .. Len(s) \ {i}
    BY <1>5, <2>1
  <2>3. PICK j \in 1 .. Len(RemoveAt(s, i)) : RemoveAt(s, i)[j] = x
    BY <1>3, <2>1, <2>2
  <2> QED BY <1>1, <2>3, Members
<1>6. s[i] \in ToSet(s)
  BY <1>0, Members
<1>8. ToSet(s) = ToSet(RemoveAt(s, i)) \cup {s[i]}
  BY <1>4, <1>5, <1>6
<1>10. /\ \A j \in DOMAIN RemoveAt(s, i) :
            \E k \in DOMAIN s \ {i} : RemoveAt(s, i)[j] = s[k]
       /\ \A k \in DOMAIN s \ {i} :
            \E j \in DOMAIN RemoveAt(s, i) : RemoveAt(s, i)[j] = s[k]
  BY <1>0, <1>2, <1>3
<1>11. \A j, k \in DOMAIN RemoveAt(s, i) :
         j # k => \E m, n \in DOMAIN s \ {i} :
                    m # n /\ RemoveAt(s, i)[j] = s[m] /\ RemoveAt(s, i)[k] = s[n]
  BY <1>7
<1> QED BY <1>4, <1>8, <1>10, <1>11

\* The entries that are left stay in order.
LEMMA RemoveAtOrder ==
  ASSUME NEW S, NEW s \in Seq(S), NEW i \in DOMAIN s,
         NEW j \in DOMAIN RemoveAt(s, i), NEW k \in DOMAIN RemoveAt(s, i)
  PROVE  \E m, n \in DOMAIN s :
           /\ RemoveAt(s, i)[j] = s[m] /\ RemoveAt(s, i)[k] = s[n]
           /\ m < n => j < k
<1>1. /\ DOMAIN s = 1 .. Len(s) /\ Len(s) \in Nat /\ i \in 1 .. Len(s)
      /\ RemoveAt(s, i) \in Seq(S)
      /\ DOMAIN RemoveAt(s, i) = 1 .. Len(s) - 1
      /\ \A x \in 1 .. Len(s) - 1 :
           RemoveAt(s, i)[x] = IF x < i THEN s[x] ELSE s[x + 1]
  <2>1. DOMAIN s = 1 .. Len(s) /\ Len(s) \in Nat /\ i \in 1 .. Len(s)
    BY LenProperties, Members
  <2> QED BY <2>1, RemoveAtFacts, LenProperties
<1> DEFINE m == IF j < i THEN j ELSE j + 1
           n == IF k < i THEN k ELSE k + 1
<1>2. m \in 1 .. Len(s) /\ n \in 1 .. Len(s) /\ (m < n => j < k)
  BY <1>1
<1>3. RemoveAt(s, i)[j] = s[m] /\ RemoveAt(s, i)[k] = s[n]
  BY <1>1
<1> QED BY <1>1, <1>2, <1>3

\* Taking an entry out of a list without duplicates.
LEMMA RemoveAtInjective ==
  ASSUME NEW S, NEW s \in Seq(S), NEW i \in 1 .. Len(s), IsInjective(s)
  PROVE  /\ IsInjective(RemoveAt(s, i))
         /\ ToSet(RemoveAt(s, i)) = ToSet(s) \ {s[i]}
<1>1. /\ Len(s) \in Nat
      /\ RemoveAt(s, i) \in Seq(S)
      /\ Len(RemoveAt(s, i)) = Len(s) - 1
      /\ \A j \in 1 .. Len(s) - 1 :
           RemoveAt(s, i)[j] = IF j < i THEN s[j] ELSE s[j + 1]
  BY RemoveAtFacts, LenProperties
<1>2. DOMAIN RemoveAt(s, i) = 1 .. Len(s) - 1 /\ DOMAIN s = 1 .. Len(s)
  BY <1>1, Members
<1>3. ASSUME NEW j \in 1 .. Len(s) - 1, NEW k \in 1 .. Len(s) - 1,
             RemoveAt(s, i)[j] = RemoveAt(s, i)[k]
      PROVE  j = k
  <2> DEFINE at(n) == IF n < i THEN n ELSE n + 1
  <2>1. at(j) \in 1 .. Len(s) /\ at(k) \in 1 .. Len(s)
    BY <1>1
  <2>2. RemoveAt(s, i)[j] = s[at(j)] /\ RemoveAt(s, i)[k] = s[at(k)]
    BY <1>1
  <2>3. at(j) = at(k)
    BY <1>2, <1>3, <2>1, <2>2 DEF IsInjective
  <2> QED BY <1>1, <2>3
<1>4. s[i] \notin ToSet(RemoveAt(s, i))
  <2>1. \A j \in 1 .. Len(s) - 1 : RemoveAt(s, i)[j] # s[i]
    BY <1>1, <1>2 DEF IsInjective
  <2> QED BY <1>1, <2>1, Members
<1>5. IsInjective(RemoveAt(s, i))
  BY <1>2, <1>3 DEF IsInjective
<1> QED BY <1>4, <1>5, RemoveAtMembers

\* Taking the k-th out of a list without duplicates is taking out what it is.
LEMMA RemoveFirstIs ==
  ASSUME NEW S, NEW s \in Seq(S), IsInjective(s), NEW k \in 1 .. Len(s)
  PROVE  RemoveFirst(s, s[k]) = RemoveAt(s, k)
<1> DEFINE Q == {i \in 1 .. Len(s) : s[i] = s[k]}
<1>1. DOMAIN s = 1 .. Len(s) /\ Len(s) \in Nat
  BY LenProperties
<1>2. Q = {k}
  BY <1>1 DEF IsInjective
<1>3. Min(Q) = k
  <2> HIDE DEF Q
  <2> QED BY <1>1, <1>2 DEF Min
<1>4. SelectInSeq(s, LAMBDA v : v = s[k]) = IF Q # {} THEN Min(Q) ELSE 0
  BY DEF SelectInSeq
<1>5. SelectInSeq(s, LAMBDA v : v = s[k]) = k
  <2> HIDE DEF Q
  <2> QED BY <1>2, <1>3, <1>4
<1> QED BY <1>5 DEF RemoveFirst

\* What is on no list cannot be taken off it.
LEMMA RemoveFirstOfNone ==
  ASSUME NEW S, NEW s \in Seq(S), NEW e, e \notin ToSet(s)
  PROVE  RemoveFirst(s, e) = s
<1>1. \A i \in 1 .. Len(s) : s[i] # e
  BY Members
<1> QED BY <1>1 DEF RemoveFirst

\* What is on two lists put together.
LEMMA JoinMembers ==
  ASSUME NEW S, NEW u \in Seq(S), NEW v \in Seq(S)
  PROVE  ToSet(u \o v) = ToSet(u) \cup ToSet(v)
<1> DEFINE t == u \o v
           p == Len(u)
           q == Len(v)
<1>1. /\ t \in Seq(S) /\ Len(t) = p + q /\ p \in Nat /\ q \in Nat
      /\ \A j \in 1 .. p + q : t[j] = IF j <= p THEN u[j] ELSE v[j - p]
  BY ConcatProperties, LenProperties
<1>2. /\ \A e : e \in ToSet(u) <=> \E i \in 1 .. p : u[i] = e
      /\ \A e : e \in ToSet(v) <=> \E i \in 1 .. q : v[i] = e
  BY Members
<1> HIDE DEF t, p, q
<1>3. \A e : e \in ToSet(t) <=> \E i \in 1 .. p + q : t[i] = e
  BY <1>1, Members
<1>4. ASSUME NEW i \in 1 .. p + q PROVE t[i] \in ToSet(u) \cup ToSet(v)
  <2>1. CASE i <= p
    BY <1>1, <1>2, <2>1
  <2>2. CASE ~(i <= p)
    <3>1. i - p \in 1 .. q
      BY <1>1, <2>2
    <3> QED BY <1>1, <1>2, <2>2, <3>1
  <2> QED BY <2>1, <2>2
<1>5. ASSUME NEW i \in 1 .. p PROVE u[i] \in ToSet(t)
  <2>1. i \in 1 .. p + q /\ i <= p
    BY <1>1
  <2> QED BY <1>1, <1>3, <2>1
<1>6. ASSUME NEW i \in 1 .. q PROVE v[i] \in ToSet(t)
  <2>1. p + i \in 1 .. p + q /\ ~(p + i <= p) /\ (p + i) - p = i
    BY <1>1
  <2> QED BY <1>1, <1>3, <2>1
<1>7. ToSet(t) = ToSet(u) \cup ToSet(v)
  BY <1>2, <1>3, <1>4, <1>5, <1>6
<1> QED BY <1>7 DEF t

\* What is on a list with one more in front, or behind.
LEMMA FrontMembers ==
  ASSUME NEW S, NEW s \in Seq(S), NEW e \in S
  PROVE  ToSet(<<e>> \o s) = ToSet(s) \cup {e}
<1> DEFINE t == <<e>>
<1>1. t \in Seq(S) /\ ToSet(t) = {e}
  BY DEF ToSet
<1> HIDE DEF t
<1>2. ToSet(t \o s) = ToSet(t) \cup ToSet(s)
  BY <1>1, JoinMembers
<1> QED BY <1>1, <1>2 DEF t

LEMMA BackMembers ==
  ASSUME NEW S, NEW s \in Seq(S), NEW e \in S
  PROVE  ToSet(Append(s, e)) = ToSet(s) \cup {e}
<1> DEFINE t == <<e>>
<1>1. t \in Seq(S) /\ ToSet(t) = {e} /\ Append(s, e) = s \o t
  BY AppendIsConcat DEF ToSet
<1> HIDE DEF t
<1>2. ToSet(s \o t) = ToSet(s) \cup ToSet(t)
  BY <1>1, JoinMembers
<1> QED BY <1>1, <1>2

\* Taking an entry off a list without duplicates leaves the others.
LEMMA RemoveFirstMembers ==
  ASSUME NEW S, NEW s \in Seq(S), IsInjective(s), NEW e
  PROVE  /\ RemoveFirst(s, e) \in Seq(S)
         /\ ToSet(RemoveFirst(s, e)) = ToSet(s) \ {e}
<1>1. CASE e \in ToSet(s)
  <2>1. PICK k \in 1 .. Len(s) : s[k] = e
    BY <1>1, Members
  <2>2. RemoveFirst(s, e) = RemoveAt(s, k)
    BY <2>1, RemoveFirstIs
  <2> QED BY <2>1, <2>2, RemoveAtInjective, RemoveAtFacts
<1>2. CASE e \notin ToSet(s)
  BY <1>2, RemoveFirstOfNone
<1> QED BY <1>1, <1>2

\* Cut in two, a sequence keeps what it holds.
LEMMA CutMembers ==
  ASSUME NEW S, NEW s \in Seq(S), NEW k \in 0 .. Len(s)
  PROVE  /\ SubSeq(s, 1, k) \in Seq(S) /\ SubSeq(s, k + 1, Len(s)) \in Seq(S)
         /\ ToSet(SubSeq(s, 1, k)) \cup ToSet(SubSeq(s, k + 1, Len(s))) = ToSet(s)
<1> DEFINE n == Len(s)
           u == SubSeq(s, 1, k)
           v == SubSeq(s, k + 1, n)
<1>1. n \in Nat /\ \A j \in 1 .. n : s[j] \in S
  BY LenProperties, ElementOfSeq
<1>k. k \in 0 .. n
  OBVIOUS
<1>members. \A e : e \in ToSet(s) <=> \E i \in 1 .. n : s[i] = e
  BY Members
<1> HIDE DEF n
<1>2. u \in Seq(S) /\ Len(u) = k /\ \A j \in 1 .. k : u[j] = s[j]
  <2>1. k \in Int /\ 1 \in Int /\ \A j \in 1 .. k : s[j] \in S
    BY <1>1, <1>k
  <2>2. /\ u \in Seq(S) /\ Len(u) = (IF 1 <= k THEN k - 1 + 1 ELSE 0)
        /\ \A j \in 1 .. k - 1 + 1 : u[j] = s[1 + j - 1]
    BY <2>1, SubSeqProperties
  <2> HIDE DEF u
  <2>3. ASSUME NEW j \in 1 .. k PROVE u[j] = s[j]
    <3>1. j \in 1 .. k - 1 + 1 /\ 1 + j - 1 = j
      BY <2>1
    <3> QED BY <2>2, <3>1
  <2>4. Len(u) = k
    BY <1>1, <1>k, <2>2
  <2> QED BY <2>2, <2>3, <2>4
<1>3. v \in Seq(S) /\ Len(v) = n - k /\ \A j \in 1 .. n - k : v[j] = s[k + j]
  <2>1. k + 1 \in Int /\ n \in Int /\ \A j \in k + 1 .. n : s[j] \in S
    BY <1>1, <1>k
  <2>2. /\ v \in Seq(S) /\ Len(v) = (IF k + 1 <= n THEN n - (k + 1) + 1 ELSE 0)
        /\ \A j \in 1 .. n - (k + 1) + 1 : v[j] = s[k + 1 + j - 1]
    BY <2>1, SubSeqProperties
  <2> HIDE DEF v
  <2>3. ASSUME NEW j \in 1 .. n - k PROVE v[j] = s[k + j]
    <3>1. j \in 1 .. n - (k + 1) + 1 /\ k + 1 + j - 1 = k + j
      BY <1>1, <1>k
    <3> QED BY <2>2, <3>1
  <2>4. Len(v) = n - k
    BY <1>1, <1>k, <2>2
  <2> QED BY <2>2, <2>3, <2>4
<1> HIDE DEF u, v
<1>4. /\ \A e : e \in ToSet(u) <=> \E i \in 1 .. k : u[i] = e
      /\ \A e : e \in ToSet(v) <=> \E i \in 1 .. n - k : v[i] = e
  BY <1>2, <1>3, Members
<1>5. ASSUME NEW i \in 1 .. k PROVE u[i] \in ToSet(s)
  <2>1. i \in 1 .. n
    BY <1>1, <1>k
  <2> QED BY <1>members, <1>2, <2>1
<1>6. ASSUME NEW i \in 1 .. n - k PROVE v[i] \in ToSet(s)
  <2>1. k + i \in 1 .. n
    BY <1>1, <1>k
  <2> QED BY <1>members, <1>3, <2>1
<1>7. ASSUME NEW i \in 1 .. n PROVE s[i] \in ToSet(u) \cup ToSet(v)
  <2>1. CASE i <= k
    BY <1>1, <1>k, <1>2, <1>4, <2>1
  <2>2. CASE ~(i <= k)
    <3>1. i - k \in 1 .. n - k /\ k + (i - k) = i
      BY <1>1, <1>k, <2>2
    <3> QED BY <1>3, <1>4, <3>1
  <2> QED BY <2>1, <2>2
<1>8. ToSet(u) \cup ToSet(v) = ToSet(s)
  BY <1>members, <1>4, <1>5, <1>6, <1>7
<1> QED BY <1>2, <1>3, <1>8 DEF u, v, n

\* list_rotate_left(): the first entry is taken out and appended.
LEMMA RotateIs ==
  ASSUME NEW S, NEW s \in Seq(S), s # <<>>
  PROVE  /\ Len(s) \in Nat /\ 1 \in 1 .. Len(s)
         /\ Append(RemoveAt(s, 1), s[1]) = Append(Tail(s), Head(s))
<1>1. Len(s) \in Nat /\ Len(s) # 0
  BY EmptySeq, LenProperties
<1>2. 1 \in 1 .. Len(s)
  BY <1>1
<1> DEFINE t == RemoveAt(s, 1)
<1>3. t \in Seq(S) /\ Len(t) = Len(s) - 1 /\ \A j \in 1 .. Len(s) - 1 : t[j] = s[j + 1]
  <2>1. /\ t \in Seq(S) /\ Len(t) = Len(s) - 1
        /\ \A j \in 1 .. Len(s) - 1 : t[j] = IF j < 1 THEN s[j] ELSE s[j + 1]
    BY <1>2, RemoveAtFacts
  <2> QED BY <1>1, <2>1
<1> HIDE DEF t
<1>4. /\ Tail(s) \in Seq(S) /\ Len(Tail(s)) = Len(s) - 1 /\ Head(s) = s[1]
      /\ \A j \in 1 .. Len(s) - 1 : Tail(s)[j] = s[j + 1]
  BY <1>1, HeadTailProperties
<1>5. t = Tail(s)
  BY <1>3, <1>4, SeqEqual
<1> QED BY <1>1, <1>2, <1>4, <1>5 DEF t

-----------------------------------------------------------------------------
(* Loops *)

\* A set of naturals that is not empty has a minimum.
LEMMA LeastExists ==
  ASSUME NEW S, S \subseteq Nat, S # {}
  PROVE  \E i \in S : \A j \in S : i <= j
<1> DEFINE R == OpToRel(<, Nat)
<1>1. \A x, y \in Nat : <<y, x>> \in R <=> y < x
  BY DEF OpToRel
<1>2. IsWellFoundedOn(R, Nat)
  BY NatLessThanWellFounded
<1> HIDE DEF R
<1>3. \E x \in S : \A y \in S : ~(<<y, x>> \in R)
  BY <1>2, WFMin
<1>4. PICK x \in S : \A y \in S : ~(<<y, x>> \in R)
  BY <1>3
<1>5. \A y \in S : ~(y < x)
  BY <1>1, <1>4
<1> QED BY <1>4, <1>5

\* Induction, of a set: the least number outside it would have a predecessor.
LEMMA SetInduction ==
  ASSUME NEW S, 0 \in S, \A n \in Nat : n \in S => n + 1 \in S
  PROVE  Nat \subseteq S
<1> SUFFICES ASSUME Nat \ S # {} PROVE FALSE
  OBVIOUS
<1>1. PICK n \in Nat \ S : \A j \in Nat \ S : n <= j
  BY LeastExists
<1>2. n - 1 \in Nat /\ n - 1 \in S
  BY <1>1
<1> QED BY <1>1, <1>2

\* What a loop computes in m rounds, of which the k-th makes F[k][x] of x.
Rounds(g, m, F, S, x0) ==
  /\ g \in [0 .. m -> S]
  /\ g[0] = x0
  /\ \A k \in 1 .. m : g[k] = F[k][g[k - 1]]

\* What the rounds compute exists,
LEMMA RoundsExist ==
  ASSUME NEW S, NEW x0 \in S, NEW F \in [Nat -> [S -> S]], NEW m \in Nat
  PROVE  \E g : Rounds(g, m, F, S, x0)
<1> DEFINE T == {n \in Nat : \E g : Rounds(g, n, F, S, x0)}
<1>1. 0 \in T
  <2>1. Rounds([k \in 0 .. 0 |-> x0], 0, F, S, x0)
    BY DEF Rounds
  <2> QED BY <2>1
<1>2. ASSUME NEW n \in Nat, n \in T PROVE n + 1 \in T
  <2>1. PICK g : Rounds(g, n, F, S, x0)
    BY <1>2
  <2> DEFINE h == [k \in 0 .. n + 1 |-> IF k = n + 1 THEN F[n + 1][g[n]] ELSE g[k]]
  <2>2. g[n] \in S /\ F[n + 1] \in [S -> S]
    BY <2>1 DEF Rounds
  <2>3. h \in [0 .. n + 1 -> S]
    BY <2>1, <2>2 DEF Rounds
  <2>4. h[0] = x0
    BY <2>1 DEF Rounds
  <2>5. ASSUME NEW k \in 1 .. n + 1 PROVE h[k] = F[k][h[k - 1]]
    <3>1. CASE k = n + 1
      BY <3>1
    <3>2. CASE k # n + 1
      BY <2>1, <3>2 DEF Rounds
    <3> QED BY <3>1, <3>2
  <2> HIDE DEF h
  <2>6. Rounds(h, n + 1, F, S, x0)
    BY <2>3, <2>4, <2>5 DEF Rounds
  <2> QED BY <2>6
<1> HIDE DEF T
<1>3. Nat \subseteq T
  BY <1>1, <1>2, SetInduction
<1> QED BY <1>3 DEF T

\* and does not depend on how many are to follow.
LEMMA RoundsAgree ==
  ASSUME NEW S, NEW x0, NEW F, NEW m \in Nat, NEW n \in Nat, m <= n,
         NEW g, NEW h, Rounds(g, m, F, S, x0), Rounds(h, n, F, S, x0)
  PROVE  \A k \in 0 .. m : g[k] = h[k]
<1> DEFINE T == {k \in Nat : k <= m => g[k] = h[k]}
<1>1. 0 \in T
  BY DEF Rounds
<1>2. ASSUME NEW k \in Nat, k \in T PROVE k + 1 \in T
  <2> SUFFICES ASSUME k + 1 <= m PROVE g[k + 1] = h[k + 1]
    OBVIOUS
  <2>1. g[k] = h[k]
    BY <1>2
  <2>2. k + 1 \in 1 .. m /\ k + 1 \in 1 .. n /\ (k + 1) - 1 = k
    OBVIOUS
  <2>3. g[k + 1] = F[k + 1][g[k]] /\ h[k + 1] = F[k + 1][h[k]]
    BY <2>2 DEF Rounds
  <2> QED BY <2>1, <2>3
<1> HIDE DEF T
<1>3. Nat \subseteq T
  BY <1>1, <1>2, SetInduction
<1> QED BY <1>3 DEF T

\* A recursive definition of the values after any number of rounds.
IsLoop(f, F, x0) == f = [k \in Nat |-> IF k = 0 THEN x0 ELSE F[k][f[k - 1]]]

\* A function that is so defined exists, which is all that it takes for its
\* definition to hold.
LEMMA LoopExists ==
  ASSUME NEW S, NEW x0 \in S, NEW F \in [Nat -> [S -> S]]
  PROVE  \E f : IsLoop(f, F, x0)
<1> DEFINE G(m) == CHOOSE g : Rounds(g, m, F, S, x0)
           f == [k \in Nat |-> G(k)[k]]
<1>1. \A m \in Nat : Rounds(G(m), m, F, S, x0)
  BY RoundsExist
<1> HIDE DEF G
<1>2. f \in [Nat -> S]
  BY <1>1 DEF Rounds
<1>3. ASSUME NEW k \in Nat
      PROVE  f[k] = IF k = 0 THEN x0 ELSE F[k][f[k - 1]]
  <2>1. CASE k = 0
    BY <1>1, <2>1 DEF Rounds
  <2>2. CASE k # 0
    <3>1. k - 1 \in Nat /\ k - 1 <= k /\ k \in 1 .. k /\ k - 1 \in 0 .. k - 1
      BY <2>2
    <3>2. G(k)[k] = F[k][G(k)[k - 1]]
      BY <1>1, <3>1 DEF Rounds
    <3>3. G(k - 1)[k - 1] = G(k)[k - 1]
      BY <1>1, <3>1, RoundsAgree
    <3> QED BY <2>2, <3>1, <3>2, <3>3
  <2> QED BY <2>1, <2>2
<1> HIDE DEF f
<1>4. IsLoop(f, F, x0)
  BY <1>2, <1>3 DEF IsLoop
<1> QED BY <1>4

\* The same for a loop over a list of n entries.
LEMMA ListLoopExists ==
  ASSUME NEW S, NEW x0 \in S, NEW n \in Nat, NEW F \in [1 .. n -> [S -> S]]
  PROVE  \E f : Rounds(f, n, F, S, x0)
<1> DEFINE F2 == [k \in Nat |-> IF k \in 1 .. n THEN F[k] ELSE [x \in S |-> x]]
<1>1. F2 \in [Nat -> [S -> S]] /\ \A k \in 1 .. n : F2[k] = F[k]
  OBVIOUS
<1> HIDE DEF F2
<1>2. PICK f : Rounds(f, n, F2, S, x0)
  BY <1>1, RoundsExist
<1>3. Rounds(f, n, F, S, x0)
  BY <1>1, <1>2 DEF Rounds
<1> QED BY <1>3
=============================================================================
