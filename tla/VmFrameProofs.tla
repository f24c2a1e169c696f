--------------------------- MODULE VmFrameProofs ---------------------------
(***************************************************************************)
(* The counts of the frames and the answers of the TLB, for every size of  *)
(* the memory, of the page tables and of the TLB: mapcounts[] counts the   *)
(* PTEs of each frame, a page that can be written is alone in its frame,   *)
(* the first TLB entry of a mapped page says what its PTE says, and no     *)
(* access is answered with another frame or refused without reason.        *)
(***************************************************************************)
EXTENDS VmProofs

-----------------------------------------------------------------------------
(* Frames *)

\* The counters are wide enough for all the PTEs there can be.
CountersSuffice == MaxProcesses * (NR_PDES_PER_PAGE * NR_PTES_PER_PAGE) <= UINT_MAX

\* Mappings, Counted and Private, of page tables and counts.
MappingsIn(tables, f) ==
  {m \in Process \X Vpn : tables[m[1]][m[2]] # NULL /\ tables[m[1]][m[2]].pfn = f}

Counts(tables, counts) ==
  \A f \in Pfn : counts[f] = Cardinality(MappingsIn(tables, f))

Alone(tables) ==
  \A m, n \in Process \X Vpn :
    m # n /\ tables[m[1]][m[2]] # NULL /\ tables[n[1]][n[2]] # NULL
      /\ tables[m[1]][m[2]].rw = READWRITE
      => tables[m[1]][m[2]].pfn # tables[n[1]][n[2]].pfn

\* The invariant of VmSpace and its parts, of the tables and counts of a state.
LEMMA FramesAsCounted ==
  /\ Counted <=> Counts(pt, mapcounts)
  /\ Counted' <=> Counts(pt', mapcounts')
  /\ Private <=> Alone(pt)
  /\ Private' <=> Alone(pt')
BY DEF Counted, Counts, Private, Alone, Mappings, MappingsIn

\* What a table of page tables may hold.
Tables == [Process -> [Vpn -> Pte \cup {NULL}]]

\* There are as many mappings of a frame as PTEs, at most.
LEMMA MappingsAreFinite ==
  ASSUME NEW tables, NEW f
  PROVE  /\ IsFiniteSet(MappingsIn(tables, f))
         /\ Cardinality(MappingsIn(tables, f)) \in Nat
         /\ Cardinality(MappingsIn(tables, f))
              <= MaxProcesses * (NR_PDES_PER_PAGE * NR_PTES_PER_PAGE)
<1> DEFINE pages == NR_PDES_PER_PAGE * NR_PTES_PER_PAGE
<1>1. pages \in Nat \ {0} /\ MaxProcesses \in Nat \ {0}
  BY VmAssumption
<1> HIDE DEF pages
<1>2. Vpn = 0 .. pages - 1 /\ Process = 1 .. MaxProcesses
  BY DEF Vpn, Process, pages
<1>3. /\ IsFiniteSet(Vpn) /\ Cardinality(Vpn) = pages
      /\ IsFiniteSet(Process) /\ Cardinality(Process) = MaxProcesses
  BY <1>1, <1>2, FS_Interval
<1>4. IsFiniteSet(Process \X Vpn) /\ Cardinality(Process \X Vpn) = MaxProcesses * pages
  BY <1>3, FS_Product
<1>5. MappingsIn(tables, f) \in SUBSET (Process \X Vpn)
  BY DEF MappingsIn
<1>6. /\ IsFiniteSet(MappingsIn(tables, f))
      /\ Cardinality(MappingsIn(tables, f)) <= MaxProcesses * pages
  BY <1>4, <1>5, FS_Subset
<1> QED BY <1>6, FS_CardinalityType DEF pages

\* The page tables with one entry replaced.
With(tables, h, vpn, pte) == [tables EXCEPT ![h] = [tables[h] EXCEPT ![vpn] = pte]]

\* Replacing one entry of a page table changes no other entry.
LEMMA WithFacts ==
  ASSUME NEW tables \in Tables, NEW h \in Process, NEW vpn \in Vpn,
         NEW pte \in Pte \cup {NULL}
  PROVE  /\ With(tables, h, vpn, pte) \in Tables
         /\ With(tables, h, vpn, pte)[h][vpn] = pte
         /\ \A m \in Process \X Vpn :
              m # <<h, vpn>> => With(tables, h, vpn, pte)[m[1]][m[2]] = tables[m[1]][m[2]]
         /\ \A f : MappingsIn(With(tables, h, vpn, pte), f) =
                     IF pte # NULL /\ pte.pfn = f
                     THEN MappingsIn(tables, f) \cup {<<h, vpn>>}
                     ELSE MappingsIn(tables, f) \ {<<h, vpn>>}
<1> DEFINE after == With(tables, h, vpn, pte)
<1>1. after \in Tables
  BY DEF With, Tables
<1>2. \A g \in Process, v \in Vpn :
        after[g][v] = IF g = h /\ v = vpn THEN pte ELSE tables[g][v]
  BY DEF With, Tables
<1> HIDE DEF after
<1>3. \A m \in Process \X Vpn :
        /\ m[1] \in Process /\ m[2] \in Vpn
        /\ m = <<h, vpn>> <=> m[1] = h /\ m[2] = vpn
  OBVIOUS
<1>4. /\ after[h][vpn] = pte
      /\ \A m \in Process \X Vpn : m # <<h, vpn>> => after[m[1]][m[2]] = tables[m[1]][m[2]]
  BY <1>2, <1>3
<1>5. <<h, vpn>> \in Process \X Vpn /\ <<h, vpn>>[1] = h /\ <<h, vpn>>[2] = vpn
  OBVIOUS
<1>6. ASSUME NEW f
      PROVE  MappingsIn(after, f) = IF pte # NULL /\ pte.pfn = f
                                    THEN MappingsIn(tables, f) \cup {<<h, vpn>>}
                                    ELSE MappingsIn(tables, f) \ {<<h, vpn>>}
  <2> DEFINE M == Process \X Vpn
             e == <<h, vpn>>
  <2>1. e \in M /\ after[e[1]][e[2]] = pte
    BY <1>4, <1>5
  <2>2. \A m \in M : m # e => after[m[1]][m[2]] = tables[m[1]][m[2]]
    BY <1>4
  <2>3. /\ MappingsIn(after, f) = {m \in M : after[m[1]][m[2]] # NULL /\ after[m[1]][m[2]].pfn = f}
        /\ MappingsIn(tables, f) = {m \in M : tables[m[1]][m[2]] # NULL /\ tables[m[1]][m[2]].pfn = f}
    BY DEF MappingsIn
  <2> HIDE DEF M, e
  <2>4. MappingsIn(after, f) = IF pte # NULL /\ pte.pfn = f
                               THEN MappingsIn(tables, f) \cup {e}
                               ELSE MappingsIn(tables, f) \ {e}
    BY <2>1, <2>2, <2>3
  <2> QED BY <2>4 DEF e
<1> QED BY <1>1, <1>4, <1>6 DEF after

\* alloc_page() takes a frame that nobody maps: the count is right again, and
\* the page is the only one there.
LEMMA MapsFresh ==
  ASSUME NEW tables \in Tables, NEW counts \in [Pfn -> 0 .. UINT_MAX],
         NEW h \in Process, NEW vpn \in Vpn, NEW pte \in Pte,
         tables[h][vpn] = NULL, counts[pte.pfn] = 0,
         Counts(tables, counts), Alone(tables)
  PROVE  /\ Counts(With(tables, h, vpn, pte),
                   [counts EXCEPT ![pte.pfn] = Incremented(counts[pte.pfn])])
         /\ Alone(With(tables, h, vpn, pte))
<1> DEFINE after == With(tables, h, vpn, pte)
           fresh == pte.pfn
           e     == <<h, vpn>>
<1>1. fresh \in Pfn /\ pte # NULL
  BY NullAssumption DEF Pte
<1>2. /\ \A f : IsFiniteSet(MappingsIn(tables, f))
      /\ \A f : e \notin MappingsIn(tables, f)
  <2>1. \A f : IsFiniteSet(MappingsIn(tables, f))
    BY MappingsAreFinite
  <2>2. \A f : e \notin MappingsIn(tables, f)
    BY DEF MappingsIn
  <2> QED BY <2>1, <2>2
<1>3. MappingsIn(tables, fresh) = {}
  <2>1. Cardinality(MappingsIn(tables, fresh)) = 0
    BY <1>1 DEF Counts
  <2> QED BY <1>1, <1>2, <2>1, FS_EmptySet
<1>4. /\ after[h][vpn] = pte
      /\ \A m \in Process \X Vpn : m # e => after[m[1]][m[2]] = tables[m[1]][m[2]]
      /\ MappingsIn(after, fresh) = {e}
      /\ \A f \in Pfn \ {fresh} : MappingsIn(after, f) = MappingsIn(tables, f)
  <2>1. /\ after[h][vpn] = pte
        /\ \A m \in Process \X Vpn : m # e => after[m[1]][m[2]] = tables[m[1]][m[2]]
        /\ \A f : MappingsIn(after, f) = IF f = fresh THEN MappingsIn(tables, f) \cup {e}
                                                     ELSE MappingsIn(tables, f) \ {e}
    BY <1>1, WithFacts
  <2> HIDE DEF after, e, fresh
  <2>2. MappingsIn(after, fresh) = {e}
    BY <1>3, <2>1
  <2>3. ASSUME NEW f \in Pfn \ {fresh} PROVE MappingsIn(after, f) = MappingsIn(tables, f)
    <3>1. MappingsIn(after, f) = MappingsIn(tables, f) \ {e}
      BY <2>1
    <3> QED BY <1>2, <3>1
  <2> QED BY <2>1, <2>2, <2>3
<1>5. Incremented(0) = 1
  BY VmAssumption DEF Incremented
<1> DEFINE counted == [counts EXCEPT ![fresh] = Incremented(counts[fresh])]
<1>6. counted[fresh] = 1 /\ \A f \in Pfn \ {fresh} : counted[f] = counts[f]
  BY <1>1, <1>5
<1> HIDE DEF after, fresh, e, counted
<1>7. Counts(after, counted)
  <2>1. Cardinality(MappingsIn(after, fresh)) = 1
    BY <1>4, FS_Singleton
  <2> QED BY <1>4, <1>6, <2>1 DEF Counts
<1>8. ASSUME NEW m \in Process \X Vpn, NEW n \in Process \X Vpn, m # n,
             after[m[1]][m[2]] # NULL, after[n[1]][n[2]] # NULL,
             after[m[1]][m[2]].rw = READWRITE
      PROVE  after[m[1]][m[2]].pfn # after[n[1]][n[2]].pfn
  <2>1. \A x \in Process \X Vpn :
          /\ x # e /\ after[x[1]][x[2]] # NULL => after[x[1]][x[2]].pfn # fresh
          /\ x = e => after[x[1]][x[2]].pfn = fresh
    <3>1. after[e[1]][e[2]].pfn = fresh
      BY <1>4 DEF e, fresh
    <3>2. \A x \in Process \X Vpn : x # e => x \notin MappingsIn(after, fresh)
      BY <1>4
    <3> QED BY <3>1, <3>2 DEF MappingsIn
  <2>2. CASE m # e /\ n # e
    BY <1>4, <1>8, <2>2 DEF Alone
  <2>3. CASE m = e \/ n = e
    BY <1>8, <2>1, <2>3
  <2> QED BY <2>2, <2>3
<1>9. Alone(after)
  BY <1>8 DEF Alone
<1> QED BY <1>7, <1>9 DEF after, counted, fresh

\* A page that goes takes one from the count of its frame, which is not 0.
LEMMA Unmaps ==
  ASSUME NEW tables \in Tables, NEW counts \in [Pfn -> 0 .. UINT_MAX],
         NEW h \in Process, NEW vpn \in Vpn, tables[h][vpn] # NULL,
         Counts(tables, counts), Alone(tables)
  PROVE  LET pfn == tables[h][vpn].pfn IN
         /\ counts[pfn] >= 1
         /\ Counts(With(tables, h, vpn, NULL), [counts EXCEPT ![pfn] = counts[pfn] - 1])
         /\ Alone(With(tables, h, vpn, NULL))
<1> DEFINE after == With(tables, h, vpn, NULL)
           pfn   == tables[h][vpn].pfn
           e     == <<h, vpn>>
<1>1. pfn \in Pfn
  BY DEF Tables, Pte
<1>2. \A f : IsFiniteSet(MappingsIn(tables, f)) /\ Cardinality(MappingsIn(tables, f)) \in Nat
  BY MappingsAreFinite
<1>3. e \in MappingsIn(tables, pfn) /\ \A f : f # pfn => e \notin MappingsIn(tables, f)
  BY DEF MappingsIn
<1>4. /\ after[h][vpn] = NULL
      /\ \A m \in Process \X Vpn : m # e => after[m[1]][m[2]] = tables[m[1]][m[2]]
      /\ \A f : MappingsIn(after, f) = MappingsIn(tables, f) \ {e}
  BY WithFacts
<1> DEFINE counted == [counts EXCEPT ![pfn] = counts[pfn] - 1]
<1>5. counted[pfn] = counts[pfn] - 1 /\ \A f \in Pfn \ {pfn} : counted[f] = counts[f]
  BY <1>1
<1>6. after[e[1]][e[2]] = NULL
  BY <1>4
<1> HIDE DEF after, pfn, e, counted
<1>7. counts[pfn] >= 1
  <2>1. MappingsIn(tables, pfn) # {}
    BY <1>3
  <2>2. Cardinality(MappingsIn(tables, pfn)) # 0
    BY <1>2, <2>1, FS_EmptySet
  <2> QED BY <1>1, <1>2, <2>2 DEF Counts
<1>8. Counts(after, counted)
  <2>1. ASSUME NEW f \in Pfn
        PROVE  counted[f] = Cardinality(MappingsIn(after, f))
    <3>1. CASE f = pfn
      <4>1. Cardinality(MappingsIn(after, f)) = Cardinality(MappingsIn(tables, f)) - 1
        BY <1>2, <1>3, <1>4, <3>1, FS_RemoveElement
      <4> QED BY <1>1, <1>5, <3>1, <4>1 DEF Counts
    <3>2. CASE f # pfn
      <4>1. MappingsIn(after, f) = MappingsIn(tables, f)
        BY <1>3, <1>4, <3>2
      <4> QED BY <1>5, <3>2, <4>1 DEF Counts
    <3> QED BY <3>1, <3>2
  <2> QED BY <2>1 DEF Counts
<1>9. Alone(after)
  <2>1. ASSUME NEW m \in Process \X Vpn, NEW n \in Process \X Vpn, m # n,
               after[m[1]][m[2]] # NULL, after[n[1]][n[2]] # NULL,
               after[m[1]][m[2]].rw = READWRITE
        PROVE  after[m[1]][m[2]].pfn # after[n[1]][n[2]].pfn
    <3>1. m # e /\ n # e
      BY <1>6, <2>1
    <3> QED BY <1>4, <2>1, <3>1 DEF Alone
  <2> QED BY <2>1 DEF Alone
<1> QED BY <1>7, <1>8, <1>9 DEF after, pfn, counted

\* A page that is alone in its frame may become writable.
LEMMA Upgrades ==
  ASSUME NEW tables \in Tables, NEW counts \in [Pfn -> 0 .. UINT_MAX],
         NEW h \in Process, NEW vpn \in Vpn, NEW pte \in Pte,
         tables[h][vpn] # NULL, pte.pfn = tables[h][vpn].pfn,
         ~(counts[pte.pfn] > 1), Counts(tables, counts), Alone(tables)
  PROVE  Counts(With(tables, h, vpn, pte), counts) /\ Alone(With(tables, h, vpn, pte))
<1> DEFINE after == With(tables, h, vpn, pte)
           pfn   == pte.pfn
           e     == <<h, vpn>>
<1>1. pfn \in Pfn /\ pte # NULL
  BY NullAssumption DEF Pte
<1>2. \A f : IsFiniteSet(MappingsIn(tables, f)) /\ Cardinality(MappingsIn(tables, f)) \in Nat
  BY MappingsAreFinite
<1>3. e \in MappingsIn(tables, pfn) /\ \A f : f # pfn => e \notin MappingsIn(tables, f)
  BY DEF MappingsIn
<1>4. /\ after[h][vpn] = pte
      /\ \A m \in Process \X Vpn : m # e => after[m[1]][m[2]] = tables[m[1]][m[2]]
      /\ \A f : MappingsIn(after, f) = IF f = pfn THEN MappingsIn(tables, f) \cup {e}
                                                  ELSE MappingsIn(tables, f) \ {e}
  BY <1>1, WithFacts
<1>5. after[e[1]][e[2]].pfn = pfn
  BY <1>4
<1> HIDE DEF after, pfn, e
<1>6. ASSUME NEW f PROVE MappingsIn(after, f) = MappingsIn(tables, f)
  <2>1. CASE f = pfn
    <3>1. MappingsIn(after, f) = MappingsIn(tables, f) \cup {e}
      BY <1>4, <2>1
    <3> QED BY <1>3, <2>1, <3>1
  <2>2. CASE f # pfn
    <3>1. MappingsIn(after, f) = MappingsIn(tables, f) \ {e}
      BY <1>4, <2>2
    <3> QED BY <1>3, <2>2, <3>1
  <2> QED BY <2>1, <2>2
<1>7. MappingsIn(tables, pfn) = {e}
  <2> DEFINE S == MappingsIn(tables, pfn)
  <2>1. IsFiniteSet(S) /\ Cardinality(S) \in Nat /\ e \in S
    BY <1>2, <1>3
  <2>2. Cardinality(S) <= 1
    BY <1>1, <2>1 DEF Counts, pfn
  <2> HIDE DEF S
  <2>3. IsFiniteSet(S \ {e}) /\ Cardinality(S \ {e}) = Cardinality(S) - 1
    BY <2>1, FS_RemoveElement
  <2>4. Cardinality(S \ {e}) \in Nat
    BY <2>3, FS_CardinalityType
  <2>5. Cardinality(S \ {e}) = 0
    BY <2>1, <2>2, <2>3, <2>4
  <2>6. S \ {e} = {}
    BY <2>3, <2>5, FS_EmptySet
  <2> QED BY <2>1, <2>6 DEF S
<1>8. Counts(after, counts)
  BY <1>6 DEF Counts
<1>9. ASSUME NEW m \in Process \X Vpn, NEW n \in Process \X Vpn, m # n,
             after[m[1]][m[2]] # NULL, after[n[1]][n[2]] # NULL,
             after[m[1]][m[2]].rw = READWRITE
      PROVE  after[m[1]][m[2]].pfn # after[n[1]][n[2]].pfn
  <2>1. \A x \in Process \X Vpn :
          x # e /\ after[x[1]][x[2]] # NULL => after[x[1]][x[2]].pfn # pfn
    <3>1. \A x \in Process \X Vpn : x # e => x \notin MappingsIn(after, pfn)
      BY <1>6, <1>7
    <3> QED BY <3>1 DEF MappingsIn
  <2>2. CASE m # e /\ n # e
    BY <1>4, <1>9, <2>2 DEF Alone
  <2>3. CASE m = e \/ n = e
    BY <1>5, <1>9, <2>1, <2>3
  <2> QED BY <2>2, <2>3
<1>10. Alone(after)
  BY <1>9 DEF Alone
<1> QED BY <1>8, <1>10 DEF after

\* The page comes to a frame that the counts have for free.
TakesFrame(counts, vpn, rw) ==
  \E f \in Pfn :
    /\ counts[f] = 0
    /\ mapcounts' = [counts EXCEPT ![f] = Incremented(counts[f])]
    /\ pt' = With(pt, current, vpn, [rw |-> rw, pfn |-> f, private |-> rw])

\* What alloc_page() does to the counts and the page tables.
LEMMA AllocPageFrames ==
  ASSUME NEW counts, NEW vpn, NEW rw, AllocPage(counts, vpn, rw)
  PROVE  \/ FreeFrames(counts) = {} /\ mapcounts' = counts /\ UNCHANGED pt
         \/ TakesFrame(counts, vpn, rw)
<1>1. CASE FreeFrames(counts) = {}
  BY <1>1 DEF AllocPage
<1>2. CASE FreeFrames(counts) # {}
  <2>1. PICK f \in Least(FreeFrames(counts)) :
          /\ mapcounts' = [counts EXCEPT ![f] = Incremented(counts[f])]
          /\ pt' = [pt EXCEPT ![current][vpn] = [rw |-> rw, pfn |-> f, private |-> rw]]
    BY <1>2 DEF AllocPage
  <2>2. f \in Pfn /\ counts[f] = 0
    BY <2>1 DEF Least, FreeFrames
  <2> QED BY <2>1, <2>2 DEF With, TakesFrame
<1> QED BY <1>1, <1>2

\* A fork maps every page of the parent once more, in the child.
LEMMA ForkFrames ==
  ASSUME TypeOK, OnlyForked, Unborn, CountersSuffice, NEW p \in Pid, Fork(p),
         Counts(pt, mapcounts), Alone(pt)
  PROVE  Counts(pt', mapcounts') /\ Alone(pt')
<1> DEFINE child == forked + 1
           cow   == CopyOnWriteTable(pt[current])
<1>1. /\ child \in Process /\ current \in Process
      /\ \A h \in Process : pt'[h] = IF h \in {current, child} THEN cow ELSE pt[h]
  BY ForkFacts DEF TypeOK
<1>2. current # child /\ child > forked /\ forked \in Nat
  BY DEF OnlyForked, TypeOK, Process
<1>3. \A v \in Vpn : pt[child][v] = NULL
  BY <1>1, <1>2 DEF Unborn
<1>4. \A v \in Vpn :
        /\ cow[v] = NULL <=> pt[current][v] = NULL
        /\ pt[current][v] # NULL => cow[v].rw = READ /\ cow[v].pfn = pt[current][v].pfn
  BY <1>1, CopyOnWriteTableFacts DEF TypeOK
<1>5. mapcounts' = [f \in Pfn |->
                      (mapcounts[f] + Cardinality(PagesIn(f))) % (UINT_MAX + 1)]
  BY DEF Fork
<1> HIDE DEF child, cow
<1>6. ASSUME NEW f \in Pfn
      PROVE  mapcounts'[f] = Cardinality(MappingsIn(pt', f))
  <2> DEFINE old == MappingsIn(pt, f)
             new == {child} \X PagesIn(f)
  <2>1. \A m \in Process \X Vpn :
          /\ m[1] \in Process /\ m[2] \in Vpn
          /\ m \in MappingsIn(pt', f) <=> pt'[m[1]][m[2]] # NULL /\ pt'[m[1]][m[2]].pfn = f
          /\ m \in old <=> pt[m[1]][m[2]] # NULL /\ pt[m[1]][m[2]].pfn = f
          /\ m \in new <=> m[1] = child /\ m[2] \in PagesIn(f)
          /\ m[2] \in PagesIn(f) <=> pt[current][m[2]] # NULL /\ pt[current][m[2]].pfn = f
    BY DEF MappingsIn, PagesIn
  <2>2. ASSUME NEW m \in Process \X Vpn
        PROVE  /\ m \in MappingsIn(pt', f) <=> m \in old \/ m \in new
               /\ ~(m \in old /\ m \in new)
    <3>1. CASE m[1] = child
      BY <1>1, <1>3, <1>4, <2>1, <3>1
    <3>2. CASE m[1] = current
      BY <1>1, <1>2, <1>4, <2>1, <3>2
    <3>3. CASE m[1] \notin {current, child}
      BY <1>1, <2>1, <3>3
    <3> QED BY <3>1, <3>2, <3>3
  <2>3. old \subseteq Process \X Vpn /\ MappingsIn(pt', f) \subseteq Process \X Vpn
    BY DEF MappingsIn
  <2>4. new \subseteq Process \X Vpn
    BY <1>1 DEF PagesIn
  <2>5. IsFiniteSet(PagesIn(f))
    <3>1. IsFiniteSet(Vpn)
      BY VmAssumption, FS_Interval DEF Vpn
    <3> QED BY <3>1, FS_Subset DEF PagesIn
  <2> DEFINE n == Cardinality(PagesIn(f))
  <2>6. n \in Nat
    BY <2>5, FS_CardinalityType
  <2>7. IsFiniteSet(new) /\ Cardinality(new) = n
    <3>1. IsFiniteSet({child}) /\ Cardinality({child}) = 1
      BY FS_Singleton
    <3>2. IsFiniteSet(new) /\ Cardinality(new) = 1 * n
      BY <2>5, <3>1, FS_Product
    <3> QED BY <2>6, <3>2
  <2>8. IsFiniteSet(old) /\ Cardinality(old) \in Nat /\ Cardinality(old) = mapcounts[f]
    BY MappingsAreFinite DEF Counts
  <2>9. /\ IsFiniteSet(MappingsIn(pt', f)) /\ Cardinality(MappingsIn(pt', f)) \in Nat
        /\ Cardinality(MappingsIn(pt', f)) <= UINT_MAX
    <3> DEFINE most == MaxProcesses * (NR_PDES_PER_PAGE * NR_PTES_PER_PAGE)
    <3>1. /\ IsFiniteSet(MappingsIn(pt', f)) /\ Cardinality(MappingsIn(pt', f)) \in Nat
          /\ Cardinality(MappingsIn(pt', f)) <= most
      BY MappingsAreFinite
    <3>2. most \in Nat /\ most <= UINT_MAX /\ UINT_MAX \in Nat
      BY VmAssumption DEF CountersSuffice
    <3> HIDE DEF most
    <3> QED BY <3>1, <3>2
  <2> HIDE DEF old, new, n
  <2>10. MappingsIn(pt', f) = old \cup new /\ old \cap new = {}
    BY <2>2, <2>3, <2>4
  <2>11. Cardinality(old \cup new) = Cardinality(old) + Cardinality(new) - Cardinality(old \cap new)
    BY <2>7, <2>8, FS_Union
  <2>12. Cardinality(old \cap new) = 0
    BY <2>10, FS_EmptySet
  <2>13. Cardinality(MappingsIn(pt', f)) = mapcounts[f] + n
    BY <2>6, <2>7, <2>8, <2>10, <2>11, <2>12
  <2>14. mapcounts'[f] = (mapcounts[f] + n) % (UINT_MAX + 1)
    BY <1>5 DEF n
  <2> DEFINE sum == mapcounts[f] + n
  <2>15. sum \in Nat /\ sum <= UINT_MAX /\ UINT_MAX \in Nat
    BY <2>9, <2>13, VmAssumption
  <2> HIDE DEF sum
  <2>16. sum % (UINT_MAX + 1) = sum
    BY <2>15
  <2> QED BY <2>13, <2>14, <2>16 DEF sum
<1>7. Counts(pt', mapcounts')
  BY <1>6 DEF Counts
<1>8. ASSUME NEW m \in Process \X Vpn, NEW n \in Process \X Vpn, m # n,
             pt'[m[1]][m[2]] # NULL, pt'[n[1]][n[2]] # NULL,
             pt'[m[1]][m[2]].rw = READWRITE
      PROVE  pt'[m[1]][m[2]].pfn # pt'[n[1]][n[2]].pfn
  <2>1. m[1] \in Process /\ m[2] \in Vpn /\ n[1] \in Process /\ n[2] \in Vpn
    OBVIOUS
  <2>2. m[1] \notin {current, child} /\ pt'[m[1]] = pt[m[1]]
    <3>1. READ # READWRITE
      BY DEF READ, READWRITE
    <3> QED BY <1>1, <1>4, <1>8, <2>1, <3>1
  <2>3. CASE n[1] \in {current, child}
    <3> DEFINE k == <<current, n[2]>>
    <3>1. k \in Process \X Vpn /\ k[1] = current /\ k[2] = n[2]
      BY <1>1, <2>1
    <3>2. m # k
      BY <2>2, <3>1
    <3>3. pt[k[1]][k[2]] # NULL /\ pt[k[1]][k[2]].pfn = pt'[n[1]][n[2]].pfn
      BY <1>1, <1>4, <1>8, <2>1, <2>3, <3>1
    <3> HIDE DEF k
    <3> QED BY <1>8, <2>2, <3>1, <3>2, <3>3 DEF Alone
  <2>4. CASE n[1] \notin {current, child}
    BY <1>1, <1>8, <2>1, <2>2, <2>4 DEF Alone
  <2> QED BY <2>3, <2>4
<1>9. Alone(pt')
  BY <1>8 DEF Alone
<1> QED BY <1>7, <1>9

\* What FaultCopies does when it finds a frame: the page leaves the frame it
\* shares and comes to one of its own.
LEMMA CopyFrames ==
  ASSUME TypeOK, FaultCopies, ~Starves, Counts(pt, mapcounts), Alone(pt)
  PROVE  Counts(pt', mapcounts') /\ Alone(pt')
<1> DEFINE vpn     == req.vpn
           counts  == [mapcounts EXCEPT ![Frame] = mapcounts[Frame] - 1]
           without == With(pt, current, vpn, NULL)
<1>1. FaultHandled /\ Shared /\ AllocPage(counts, vpn, READWRITE)
  BY DEF FaultCopies
<1>2. /\ vpn \in Vpn /\ pt[current][vpn] # NULL /\ Frame \in Pfn
      /\ current \in Process /\ pt \in Tables
      /\ Frame = pt[current][vpn].pfn
  BY <1>1, CopyOnWriteFacts, NullAssumption DEF TypeOK, Tables, Frame
<1>3. counts \in [Pfn -> 0 .. UINT_MAX]
  BY <1>1, <1>2, UncountedType
<1>4. Counts(without, counts) /\ Alone(without)
  BY <1>2, Unmaps DEF TypeOK
<1>5. without \in Tables /\ without[current][vpn] = NULL
  BY <1>2, WithFacts
<1>6. FreeFrames(counts) # {}
  <2>1. FreeFrames(mapcounts) # {}
    BY <1>1 DEF Starves, FaultHandled
  <2>2. FreeFrames(mapcounts) \subseteq FreeFrames(counts)
    BY <1>1, <1>2 DEF FreeFrames, Shared, TypeOK
  <2> QED BY <2>1, <2>2
<1> HIDE DEF counts
<1>7. PICK f \in Pfn :
        /\ counts[f] = 0
        /\ mapcounts' = [counts EXCEPT ![f] = Incremented(counts[f])]
        /\ pt' = With(pt, current, vpn, [rw |-> READWRITE, pfn |-> f, private |-> READWRITE])
  <2>1. TakesFrame(counts, vpn, READWRITE)
    BY <1>1, <1>6, AllocPageFrames
  <2> QED BY <2>1 DEF TakesFrame
<1> DEFINE pte == [rw |-> READWRITE, pfn |-> f, private |-> READWRITE]
<1>8. pte \in Pte /\ pte.pfn = f
  BY DEF Pte
<1>9. With(pt, current, vpn, pte) = With(without, current, vpn, pte)
  BY <1>2 DEF With, Tables
<1> HIDE DEF without, pte
<1>10. /\ Counts(With(without, current, vpn, pte),
                 [counts EXCEPT ![f] = Incremented(counts[f])])
       /\ Alone(With(without, current, vpn, pte))
  BY <1>2, <1>3, <1>4, <1>5, <1>7, <1>8, MapsFresh
<1> QED BY <1>7, <1>9, <1>10 DEF pte

\* No step disturbs the counts: it leaves them alone, or is an alloc_page(), a
\* free, a fork or a fault, for each of which a lemma says so.
LEMMA FrameStep ==
  ASSUME MemoryInv, Unborn, CountersSuffice, MapcountsExact, WritersAreAlone,
         [PNext]_pvars
  PROVE  (MapcountsExact /\ WritersAreAlone)'
<1> SUFFICES ASSUME ~starved' PROVE Counts(pt', mapcounts') /\ Alone(pt')
  BY FramesAsCounted DEF MapcountsExact, WritersAreAlone
<1> USE DEF MemoryInv
<1>1. ~starved /\ (~Starves \/ UNCHANGED <<pt, mapcounts>>)
  <2>1. CASE PNext
    BY <2>1 DEF PNext
  <2>2. CASE UNCHANGED pvars
    BY <2>2 DEF pvars, vars, memory
  <2> QED BY <2>1, <2>2
<1>2. /\ Counts(pt, mapcounts) /\ Alone(pt)
      /\ pt \in Tables /\ mapcounts \in [Pfn -> 0 .. UINT_MAX] /\ current \in Process
  BY <1>1, FramesAsCounted DEF MapcountsExact, WritersAreAlone, TypeOK, Tables
<1>3. ASSUME NEW vpn \in Vpn, NEW rw \in {READ, READWRITE}, Alloc(vpn, rw)
      PROVE  Counts(pt', mapcounts') /\ Alone(pt')
  <2>1. CASE Translates(READ, vpn)
    BY <1>2, <1>3, <2>1 DEF Alloc, memory
  <2>2. CASE ~Translates(READ, vpn)
    <3>1. AllocPage(mapcounts, vpn, rw) /\ pt[current][vpn] = NULL
      BY <1>3, <2>2, MappedTranslates DEF Alloc
    <3>2. CASE mapcounts' = mapcounts /\ UNCHANGED pt
      BY <1>2, <3>2
    <3>3. ASSUME NEW f \in Pfn, mapcounts[f] = 0,
                 mapcounts' = [mapcounts EXCEPT ![f] = Incremented(mapcounts[f])],
                 pt' = With(pt, current, vpn, [rw |-> rw, pfn |-> f, private |-> rw])
          PROVE  Counts(pt', mapcounts') /\ Alone(pt')
      <4> DEFINE pte == [rw |-> rw, pfn |-> f, private |-> rw]
      <4>1. pte \in Pte /\ pte.pfn = f
        BY DEF Pte
      <4> HIDE DEF pte
      <4>2. /\ Counts(With(pt, current, vpn, pte),
                      [mapcounts EXCEPT ![f] = Incremented(mapcounts[f])])
            /\ Alone(With(pt, current, vpn, pte))
        BY <1>2, <3>1, <3>3, <4>1, MapsFresh
      <4> QED BY <3>3, <4>2 DEF pte
    <3>4. \/ FreeFrames(mapcounts) = {} /\ mapcounts' = mapcounts /\ UNCHANGED pt
          \/ TakesFrame(mapcounts, vpn, rw)
      BY <3>1, AllocPageFrames
    <3> QED BY <3>2, <3>3, <3>4 DEF TakesFrame
  <2> QED BY <2>1, <2>2
<1>4. ASSUME NEW vpn \in Vpn, Free(vpn)
      PROVE  Counts(pt', mapcounts') /\ Alone(pt')
  <2>1. CASE pt[current][vpn] = NULL
    BY <1>2, <1>4, <2>1 DEF Free
  <2>2. CASE pt[current][vpn] # NULL
    <3> DEFINE pfn == pt[current][vpn].pfn
    <3>1. /\ pt' = With(pt, current, vpn, NULL)
          /\ mapcounts' = [mapcounts EXCEPT ![pfn] = Decremented(mapcounts[pfn])]
      BY <1>4, <2>2 DEF Free, With
    <3>2. /\ mapcounts[pfn] >= 1
          /\ Counts(With(pt, current, vpn, NULL),
                    [mapcounts EXCEPT ![pfn] = mapcounts[pfn] - 1])
          /\ Alone(With(pt, current, vpn, NULL))
      BY <1>2, <2>2, Unmaps
    <3> HIDE DEF pfn
    <3>3. Decremented(mapcounts[pfn]) = mapcounts[pfn] - 1
      BY <3>2 DEF Decremented
    <3> QED BY <3>1, <3>2, <3>3
  <2> QED BY <2>1, <2>2
<1>5. CASE FaultCopies
  <2>1. CASE ~Starves
    BY <1>2, <1>5, <2>1, CopyFrames
  <2>2. CASE UNCHANGED <<pt, mapcounts>>
    BY <1>2, <2>2
  <2> QED BY <1>1, <2>1, <2>2
<1>6. CASE FaultUpgrades
  <2> DEFINE pte == [rw |-> READWRITE, pfn |-> Frame, private |-> READWRITE]
  <2>1. /\ pt' = With(pt, current, req.vpn, pte)
        /\ mapcounts' = mapcounts
    BY <1>6, FaultUpgradesFacts DEF With
  <2>2. FaultHandled /\ ~Shared
    BY <1>6 DEF FaultUpgrades
  <2>3. /\ req.vpn \in Vpn /\ pt[current][req.vpn] # NULL /\ Frame \in Pfn
        /\ Frame = pt[current][req.vpn].pfn
    BY <2>2, CopyOnWriteFacts, NullAssumption DEF Frame
  <2>4. pte \in Pte /\ pte.pfn = Frame
    BY <2>3 DEF Pte
  <2> HIDE DEF pte
  <2>5. ~(mapcounts[pte.pfn] > 1)
    BY <2>2, <2>4 DEF Shared
  <2> QED BY <1>2, <2>1, <2>3, <2>4, <2>5, Upgrades
<1>7. ASSUME NEW p \in Pid, Fork(p)
      PROVE  Counts(pt', mapcounts') /\ Alone(pt')
  BY <1>2, <1>7, ForkFrames
<1>8. CASE UNCHANGED <<pt, mapcounts>>
  BY <1>2, <1>8
<1>9. Hit \/ (\E p \in Pid : SwitchTo(p)) \/ UNCHANGED memory => UNCHANGED <<pt, mapcounts>>
  BY HitFacts, SwitchFacts DEF memory
<1> QED BY <1>3, <1>4, <1>5, <1>6, <1>7, <1>8, <1>9, Steps, QuietFacts

\* A process that has not been forked maps nothing: page tables are written for
\* the current process and for the child of a fork only.
LEMMA UnbornStep == MemoryInv /\ Unborn /\ [PNext]_pvars => Unborn'
<1> SUFFICES ASSUME MemoryInv, Unborn, [PNext]_pvars PROVE Unborn'
  OBVIOUS
<1> USE DEF MemoryInv
<1>0. current \in Process /\ current <= forked /\ forked \in Nat
  BY DEF OnlyForked, TypeOK, Process
<1>1. ASSUME UNCHANGED forked,
             \A h \in Process : h # current => pt'[h] = pt[h]
      PROVE  Unborn'
  BY <1>0, <1>1 DEF Unborn, Process
<1>2. ASSUME NEW p \in Pid, Fork(p) PROVE Unborn'
  <2>1. /\ forked' = forked + 1
        /\ \A h \in Process : h \notin {current, forked + 1} => pt'[h] = pt[h]
    BY <1>2, ForkFacts
  <2>2. \A h \in Process : h > forked' => h > forked /\ h \notin {current, forked + 1}
    BY <1>0, <2>1 DEF Process
  <2> QED BY <2>1, <2>2 DEF Unborn
<1>3. ASSUME NEW vpn \in Vpn, NEW rw \in {READ, READWRITE}, Alloc(vpn, rw)
      PROVE  UNCHANGED forked /\ \A h \in Process : h # current => pt'[h] = pt[h]
  BY <1>3, AllocFacts DEF Maps, TypeOK
<1>4. ASSUME NEW vpn \in Vpn, Free(vpn)
      PROVE  UNCHANGED forked /\ \A h \in Process : h # current => pt'[h] = pt[h]
  BY <1>4, FreeFacts DEF TypeOK
<1>5. ASSUME FaultCopies \/ FaultUpgrades
      PROVE  UNCHANGED forked /\ \A h \in Process : h # current => pt'[h] = pt[h]
  BY <1>5, FaultFacts DEF TypeOK
<1>6. Hit => UNCHANGED <<forked, pt>>
  BY HitFacts
<1>7. ASSUME NEW p \in Pid, SwitchTo(p) PROVE UNCHANGED <<forked, pt>>
  BY <1>7, SwitchFacts
<1>8. UNCHANGED <<system, memory>> => UNCHANGED <<forked, pt>>
  BY DEF system, memory
<1> QED BY <1>1, <1>2, <1>3, <1>4, <1>5, <1>6, <1>7, <1>8, Steps, QuietFacts

-----------------------------------------------------------------------------
(* The retries *)

\* A walk finds a PTE that permits the access, and only such a one.
LEMMA WalkFinds ==
  ASSUME TypeOK, InDirectory, NEW vpn \in Vpn, NEW rw
  PROVE  Walk(rw, vpn) # {} <=>
           pt[current][vpn] # NULL
             /\ (rw \in {WRITE, READWRITE} => pt[current][vpn].rw = READWRITE)
BY DEF Walk, TypeOK, InDirectory

\* A fault that is handled leaves a PTE that permits the access, or there was
\* no frame for it.
LEMMA HandledRetries ==
  ASSUME MemoryInv, FaultCopies \/ FaultUpgrades
  PROVE  \/ /\ pt'[current][req.vpn] # NULL /\ pt'[current][req.vpn].rw = READWRITE
            /\ PdIndex(req.vpn) \in pdes'[current]
         \/ /\ FreeFrames(mapcounts') = {} /\ FreeFrames(mapcounts) = {}
            /\ Starves /\ UNCHANGED pt
<1> USE DEF MemoryInv
<1>1. /\ req.vpn \in Vpn /\ pt[current][req.vpn] \in Pte /\ current \in Process
      /\ Frame \in Pfn /\ UNCHANGED pdes /\ PdIndex(req.vpn) \in pdes[current]
      /\ FaultHandled
  BY CopyOnWriteFacts, FaultFacts DEF TypeOK, FaultCopies, FaultUpgrades
<1>2. \A f \in Pfn :
        LET pte == [rw |-> READWRITE, pfn |-> f, private |-> READWRITE] IN
        /\ pte # NULL
        /\ With(pt, current, req.vpn, pte)[current][req.vpn] = pte
  <2>1. ASSUME NEW pte PROVE With(pt, current, req.vpn, pte)[current][req.vpn] = pte
    BY <1>1 DEF With, TypeOK
  <2>2. \A f \in Pfn : [rw |-> READWRITE, pfn |-> f, private |-> READWRITE] \in Pte
    BY DEF Pte
  <2> QED BY <2>1, <2>2, NullAssumption
<1>3. CASE FaultCopies
  <2> DEFINE counts == [mapcounts EXCEPT ![Frame] = mapcounts[Frame] - 1]
  <2>1. Shared /\ AllocPage(counts, req.vpn, READWRITE)
    BY <1>3 DEF FaultCopies
  <2>2. FreeFrames(mapcounts) \subseteq FreeFrames(counts)
    BY <1>1, <2>1 DEF FreeFrames, Shared, TypeOK
  <2> HIDE DEF counts
  <2>3. CASE FreeFrames(counts) = {}
    <3>1. mapcounts' = counts /\ UNCHANGED pt
      BY <2>1, <2>3 DEF AllocPage
    <3>2. Starves
      BY <1>1, <2>1, <2>2, <2>3 DEF Starves, FaultHandled
    <3> QED BY <2>2, <2>3, <3>1, <3>2
  <2>4. CASE TakesFrame(counts, req.vpn, READWRITE)
    BY <1>1, <1>2, <2>4 DEF TakesFrame
  <2> QED BY <2>1, <2>3, <2>4, AllocPageFrames
<1>4. CASE FaultUpgrades
  BY <1>1, <1>2, <1>4, FaultUpgradesFacts DEF With
<1> QED BY <1>3, <1>4

\* While __access_memory() goes round its loop the request stays what it was,
\* and the second turn is begun only when the fault was handled.
LEMMA RetryStep ==
  ASSUME MemoryInv, RetryInv, [PNext]_pvars
  PROVE  RetryInv'
<1> USE DEF MemoryInv
<1>1. starved => starved'
  BY DEF PNext, pvars
<1>2. CASE pc' \notin {"translate", "fault"}
  BY <1>2 DEF RetryInv
<1>3. ASSUME NEW vpn \in Vpn, NEW rw \in {READ, WRITE, READWRITE}, Access(vpn, rw)
      PROVE  RetryInv'
  BY <1>3 DEF Access, RetryInv
<1>4. CASE UNCHANGED vars
  <2>1. /\ UNCHANGED <<pc, nr_retries>>
        /\ UNCHANGED FreeFrames(mapcounts)
        /\ UNCHANGED Walk(req.rw, req.vpn) /\ UNCHANGED Translates(req.rw, req.vpn)
    BY <1>4 DEF vars, memory, system, access, FreeFrames, Walk, Translates, Hits, Entries
  <2> QED BY <1>1, <2>1 DEF RetryInv
<1>5. CASE Miss
  <2>1. /\ pc = "translate" /\ pc' = "fault" /\ nr_retries' = nr_retries + 1
        /\ nr_retries \in 0 .. 1
        /\ ~Translates(req.rw, req.vpn)
        /\ UNCHANGED FreeFrames(mapcounts)
        /\ UNCHANGED Translates(req.rw, req.vpn)
    BY <1>5 DEF Miss, TypeOK, memory, system, FreeFrames, Walk, Translates, Hits, Entries
  <2>2. nr_retries = 1 => starved /\ FreeFrames(mapcounts) = {}
    BY <2>1 DEF RetryInv, Translates
  <2> QED BY <1>1, <2>1, <2>2 DEF RetryInv
<1>6. CASE (FaultCopies \/ FaultUpgrades) /\ pc' = "translate"
  <2>1. /\ pc = "fault" /\ UNCHANGED <<req, nr_retries, current, ptbr>>
        /\ req.vpn \in Vpn /\ current = ptbr
    BY <1>6, CopyOnWriteFacts DEF FaultCopies, FaultUpgrades, FaultHandled, TypeOK
  <2>2. CASE FreeFrames(mapcounts') = {} /\ Starves
    <3>1. starved'
      BY <1>6, <2>1, <2>2 DEF PNext, pvars, vars
    <3>2. (FreeFrames(mapcounts) = {})'
      BY <2>2 DEF FreeFrames
    <3> QED BY <1>6, <3>1, <3>2 DEF RetryInv
  <2>3. CASE /\ pt'[current][req.vpn] # NULL /\ pt'[current][req.vpn].rw = READWRITE
             /\ PdIndex(req.vpn) \in pdes'[current]
    <3>1. pt'[current][req.vpn] \in (Walk(req.rw, req.vpn))'
      BY <2>1, <2>3 DEF Walk, PdIndex
    <3> QED BY <1>6, <3>1 DEF RetryInv
  <2> QED BY <1>6, <2>2, <2>3, HandledRetries
<1>7. ASSUME \/ \E vpn \in Vpn, rw \in {READ, READWRITE} : Alloc(vpn, rw)
             \/ \E vpn \in Vpn : Free(vpn)
             \/ \E p \in Pid : SwitchTo(p) \/ Fork(p)
             \/ Hit \/ FaultCrashes \/ FaultDenied \/ Exit
      PROVE  pc' \notin {"translate", "fault"}
  BY <1>7 DEF Alloc, Free, SwitchTo, Fork, Hit, FaultCrashes, FaultDenied, Exit, Return
<1>8. Terminating => UNCHANGED vars
  BY DEF Terminating
<1>9. (FaultCopies \/ FaultUpgrades) => pc' \in {"translate", "prompt"}
  BY CopyOnWriteFacts DEF FaultCopies, FaultUpgrades
<1> QED BY <1>2, <1>3, <1>4, <1>5, <1>6, <1>7, <1>8, <1>9, Steps

-----------------------------------------------------------------------------
(* The first entry of a page *)

\* The second part of CacheInv, of a TLB t, a page table and a page.
FirstAgrees(t, table, vpn) ==
  table[vpn] # NULL =>
    \A i \in Slot :
      /\ t[i] # NULL /\ t[i].vpn = vpn
      /\ \A j \in Slot : t[j] # NULL /\ t[j].vpn = vpn => i <= j
      => table[vpn].pfn = t[i].pfn /\ table[vpn].rw >= t[i].rw

\* The page has moved, and the retry is to come.
Retrying(vpn) ==
  /\ pc = "translate" /\ nr_retries = 1 /\ vpn = req.vpn
  /\ req.rw # READ /\ pt[current][vpn].rw = READWRITE

\* CacheInv in terms of FirstAgrees.
LEMMA CacheInvFirst ==
  ASSUME TypeOK
  PROVE  CacheInv <=>
           /\ ~print_tlb_result => \A i \in Slot : tlb[i] = NULL
           /\ \A vpn \in Vpn : FirstAgrees(tlb, pt[current], vpn) \/ Retrying(vpn)
<1>1. ASSUME NEW vpn \in Vpn, pt[current][vpn] # NULL, NEW i \in Slot
      PROVE  /\ i \in Least(Entries(vpn)) <=>
                  /\ tlb[i] # NULL /\ tlb[i].vpn = vpn
                  /\ \A j \in Slot : tlb[j] # NULL /\ tlb[j].vpn = vpn => i <= j
             /\ tlb[i].vpn = vpn =>
                  (Agrees(i) <=> pt[current][vpn].pfn = tlb[i].pfn
                                   /\ pt[current][vpn].rw >= tlb[i].rw)
  BY <1>1 DEF Least, Entries, Agrees
<1>2. \A vpn \in Vpn : \A i \in Least(Entries(vpn)) : i \in Slot /\ tlb[i].vpn = vpn
  BY DEF Least, Entries
<1>3. ASSUME NEW vpn \in Vpn
      PROVE  (FirstAgrees(tlb, pt[current], vpn) \/ Retrying(vpn)) <=>
               (pt[current][vpn] # NULL =>
                  \A i \in Least(Entries(vpn)) : Agrees(i) \/ Retrying(vpn))
  BY <1>1, <1>2 DEF FirstAgrees
<1> QED BY <1>3 DEF CacheInv, Retrying

\* An inserted entry is the first one for its page, and the entries of the
\* other pages stay where they are.
LEMMA RefilledFirst ==
  ASSUME TypeOK, TlbInv, NEW vpn \in Vpn, NEW rw \in {READ, WRITE, READWRITE},
         NEW v \in Vpn
  PROVE  \/ FirstAgrees(tlb, pt[current], v)
         \/ v = vpn /\ print_tlb_result /\ Hits(rw, vpn) = {} /\ Walk(rw, vpn) # {}
         => FirstAgrees(Refilled(rw, vpn), pt[current], v)
<1> DEFINE inserts == print_tlb_result /\ Hits(rw, vpn) = {} /\ Walk(rw, vpn) # {}
           t       == Refilled(rw, vpn)
           table   == pt[current]
<1>1. CASE ~inserts
  BY <1>1 DEF Refilled
<1>2. CASE inserts
  <2> DEFINE new   == [vpn |-> vpn, rw |-> table[vpn].rw, pfn |-> table[vpn].pfn]
             slots == SlotsFor(vpn)
  <2>1. /\ table[vpn] \in Pte /\ pt[ptbr][vpn] = table[vpn]
    BY <1>2, WalkFacts
  <2>2. t = [i \in Slot |-> IF i \in Least(slots) THEN new ELSE tlb[i]]
    BY <1>2, <2>1 DEF Refilled, Inserted
  <2>3. /\ new # NULL /\ new.vpn = vpn
        /\ new.rw = table[vpn].rw /\ new.pfn = table[vpn].pfn
        /\ table[vpn].rw \in Nat
    <3>1. new \in TlbEntry
      BY <2>1 DEF Pte, TlbEntry
    <3> QED BY <2>1, <3>1, NullAssumption DEF Pte, READ, READWRITE
  <2>4. \A i \in Slot : tlb[i] # NULL /\ tlb[i].vpn = vpn => i \in slots
    BY VmAssumption DEF TlbInv, SlotsFor, Slot
  <2>5. /\ \A i \in Least(slots) :
             /\ i \in Slot /\ i \in slots /\ (tlb[i] = NULL \/ tlb[i].vpn = vpn)
             /\ \A j \in slots : i <= j
        /\ slots # {} => Least(slots) # {}
    <3>1. slots \subseteq Nat /\ slots \subseteq Slot
      BY VmAssumption DEF SlotsFor, Slot
    <3>2. \A i \in slots : tlb[i] = NULL \/ tlb[i].vpn = vpn
      BY DEF SlotsFor
    <3> HIDE DEF slots
    <3> QED BY <3>1, <3>2, LeastExists DEF Least
  <2> HIDE DEF new, t, slots, table
  <2>6. CASE v # vpn
    <3>1. \A i \in Slot : /\ t[i] # NULL /\ t[i].vpn = v <=> tlb[i] # NULL /\ tlb[i].vpn = v
                          /\ t[i] # NULL /\ t[i].vpn = v => t[i] = tlb[i]
      BY <2>2, <2>3, <2>5, <2>6
    <3>2. FirstAgrees(tlb, table, v) => FirstAgrees(t, table, v)
      BY <3>1 DEF FirstAgrees
    <3> QED BY <2>6, <3>2 DEF t, table
  <2>7. CASE v = vpn
    <3>1. ASSUME NEW i \in Slot, t[i] # NULL, t[i].vpn = vpn,
                 \A j \in Slot : t[j] # NULL /\ t[j].vpn = vpn => i <= j
          PROVE  table[vpn].pfn = t[i].pfn /\ table[vpn].rw >= t[i].rw
      <4>1. CASE i \in Least(slots)
        <5>1. t[i] = new
          BY <2>2, <4>1
        <5>2. table[vpn].rw >= table[vpn].rw
          BY <2>3
        <5> QED BY <2>3, <5>1, <5>2
      <4>2. CASE i \notin Least(slots)
        <5>1. i \in slots
          BY <2>2, <2>4, <3>1, <4>2
        <5>2. PICK k \in Least(slots) : TRUE
          BY <2>5, <5>1
        <5>3. k \in Slot /\ t[k] = new /\ k <= i
          BY <2>2, <2>5, <5>1, <5>2
        <5>4. i <= k
          BY <2>3, <3>1, <5>3
        <5>5. i = k
          BY <5>3, <5>4 DEF Slot
        <5> QED BY <4>2, <5>2, <5>5
      <4> QED BY <4>1, <4>2
    <3>2. FirstAgrees(t, table, v)
      BY <2>7, <3>1 DEF FirstAgrees
    <3> QED BY <3>2 DEF t, table
  <2> QED BY <2>6, <2>7
<1> QED BY <1>1, <1>2

\* What is removed is for the page that goes.
LEMMA ForgottenFirst ==
  ASSUME NEW t, NEW table \in [Vpn -> Pte \cup {NULL}], NEW vpn \in Vpn, NEW v \in Vpn,
         FirstAgrees(t, table, v)
  PROVE  FirstAgrees(Forgotten(t, vpn), [table EXCEPT ![vpn] = NULL], v)
<1> DEFINE found == {i \in Slot : t[i] # NULL /\ t[i].vpn = vpn}
           u     == Forgotten(t, vpn)
           after == [table EXCEPT ![vpn] = NULL]
<1>1. u = [i \in Slot |-> IF i \in Least(found) THEN NULL ELSE t[i]]
  BY DEF Forgotten
<1>2. \A i \in Least(found) : i \in Slot /\ t[i] # NULL /\ t[i].vpn = vpn
  BY DEF Least
<1>3. after[v] = IF v = vpn THEN NULL ELSE table[v]
  OBVIOUS
<1> HIDE DEF u, found, after
<1>4. CASE v = vpn
  <2>1. FirstAgrees(u, after, v)
    BY <1>3, <1>4 DEF FirstAgrees
  <2> QED BY <2>1 DEF u, after
<1>5. CASE v # vpn
  <2>1. \A i \in Slot : /\ u[i] # NULL /\ u[i].vpn = v <=> t[i] # NULL /\ t[i].vpn = v
                        /\ u[i] # NULL /\ u[i].vpn = v => u[i] = t[i]
    BY <1>1, <1>2, <1>5
  <2>2. FirstAgrees(u, after, v)
    BY <1>3, <1>5, <2>1 DEF FirstAgrees
  <2> QED BY <2>2 DEF u, after
<1> QED BY <1>4, <1>5

\* A change of one page touches the entries of no other.
LEMMA UpdatedFirst ==
  ASSUME TypeOK, NEW vpn \in Vpn, NEW pte, NEW v \in Vpn, v # vpn,
         FirstAgrees(tlb, pt[current], v)
  PROVE  FirstAgrees(tlb, [pt[current] EXCEPT ![vpn] = pte], v)
<1>1. [pt[current] EXCEPT ![vpn] = pte][v] = pt[current][v]
  BY DEF TypeOK
<1> QED BY <1>1 DEF FirstAgrees

-----------------------------------------------------------------------------
\* No step but a fault disturbs the first entries, and one that does is retried.
LEMMA FirstStep ==
  ASSUME MemoryInv, TlbInv, CacheInv, RetryInv, [PNext]_pvars, NEW v \in Vpn
  PROVE  FirstAgrees(tlb', pt'[current'], v) \/ Retrying(v)'
<1> USE DEF MemoryInv
<1>0. /\ FirstAgrees(tlb, pt[current], v) \/ Retrying(v)
      /\ pc # "translate" => FirstAgrees(tlb, pt[current], v)
      /\ ~print_tlb_result => \A i \in Slot : tlb[i] = NULL
      /\ current \in Process /\ pt[current] \in [Vpn -> Pte \cup {NULL}]
  BY CacheInvFirst DEF Retrying, TypeOK
<1>1. ASSUME NEW vpn \in Vpn, NEW rw \in {READ, READWRITE}, Alloc(vpn, rw)
      PROVE  FirstAgrees(tlb', pt'[current'], v)
  <2>1. FirstAgrees(tlb, pt[current], v)
    BY <1>0, <1>1 DEF Alloc
  <2>2. CASE UNCHANGED <<pt, current>> /\ tlb' = Refilled(READ, vpn)
    BY <2>1, <2>2, RefilledFirst
  <2>3. CASE /\ pt[current][vpn] = NULL
             /\ tlb' = tlb /\ current' = current
             /\ Maps(vpn, rw)
    <3>1. PICK pte : pt'[current'] = [pt[current] EXCEPT ![vpn] = pte]
      BY <1>0, <2>3 DEF Maps, TypeOK
    <3>2. CASE v # vpn
      BY <2>1, <2>3, <3>1, <3>2, UpdatedFirst
    <3>3. CASE v = vpn
      <4>1. ~Translates(READ, vpn)
        <5>1. CASE Translates(READ, vpn)
          <6>1. pt' = pt
            BY <1>1, <5>1 DEF Alloc, memory
          <6>2. pt'[current][vpn] # NULL
            <7>1. PICK f \in Pfn :
                    pt' = [pt EXCEPT ![current] = [pt[current] EXCEPT ![vpn] =
                             [rw |-> rw, pfn |-> f, private |-> rw]]]
              BY <2>3 DEF Maps
            <7>2. [rw |-> rw, pfn |-> f, private |-> rw] \in Pte
              BY DEF Pte
            <7>3. pt'[current][vpn] = [rw |-> rw, pfn |-> f, private |-> rw]
              BY <1>0, <7>1 DEF TypeOK
            <7> QED BY <7>2, <7>3, NullAssumption
          <6> QED BY <2>3, <6>1, <6>2
        <5> QED BY <5>1
      <4>2. \A i \in Slot : tlb[i] # NULL => tlb[i].vpn # vpn
        <5>1. ASSUME NEW i \in Slot, tlb[i] # NULL
              PROVE  tlb[i].rw >= READ /\ print_tlb_result
          <6>1. tlb[i] \in TlbEntry
            BY <5>1 DEF TypeOK
          <6>2. tlb[i].rw \in {READ, READWRITE}
            BY <6>1 DEF TlbEntry
          <6> QED BY <1>0, <5>1, <6>2 DEF READ, READWRITE
        <5> QED BY <4>1, <5>1 DEF Translates, Hits, Entries
      <4> QED BY <2>3, <3>3, <4>2 DEF FirstAgrees
    <3> QED BY <3>2, <3>3
  <2> QED BY <1>1, <2>2, <2>3, AllocFacts
<1>2. ASSUME NEW vpn \in Vpn, Free(vpn)
      PROVE  FirstAgrees(tlb', pt'[current'], v)
  <2>1. FirstAgrees(Refilled(READ, vpn), pt[current], v)
    BY <1>0, <1>2, RefilledFirst DEF Free
  <2>2. CASE pt[current][vpn] = NULL
    <3>1. tlb' = Refilled(READ, vpn) /\ UNCHANGED <<pt, current>>
      BY <1>2, <2>2, FreeFacts DEF Free
    <3> QED BY <2>1, <3>1
  <2>3. CASE pt[current][vpn] # NULL
    <3>1. tlb' = Forgotten(Refilled(READ, vpn), vpn)
      BY <1>2, <2>3 DEF Free
    <3>2. pt'[current'] = [pt[current] EXCEPT ![vpn] = NULL]
      BY <1>2, <2>3, FreeFacts DEF TypeOK
    <3> QED BY <1>0, <2>1, <3>1, <3>2, ForgottenFirst
  <2> QED BY <2>2, <2>3
<1>3. CASE Hit
  <2>1. /\ req.vpn \in Vpn /\ req.rw \in {READ, WRITE, READWRITE}
        /\ tlb' = Refilled(req.rw, req.vpn) /\ UNCHANGED <<pt, current>>
        /\ Translates(req.rw, req.vpn)
    BY <1>3, HitFacts DEF Hit
  <2>2. CASE FirstAgrees(tlb, pt[current], v)
    BY <2>1, <2>2, RefilledFirst
  <2>3. CASE Retrying(v)
    <3>1. v = req.vpn /\ req.rw # READ
      BY <2>3 DEF Retrying
    <3>2. CASE ~print_tlb_result
      <4>1. tlb' = tlb
        BY <2>1, <3>2 DEF Refilled
      <4> QED BY <1>0, <2>1, <3>2, <4>1 DEF FirstAgrees
    <3>3. CASE print_tlb_result /\ Hits(req.rw, req.vpn) = {}
      <4>1. Walk(req.rw, req.vpn) # {}
        BY <2>1, <3>3 DEF Translates
      <4> QED BY <2>1, <3>1, <3>3, <4>1, RefilledFirst
    <3>4. CASE Hits(req.rw, req.vpn) # {}
      <4>1. tlb' = tlb
        BY <2>1, <3>4 DEF Refilled
      <4>2. PICK k \in Slot : tlb[k] # NULL /\ tlb[k].vpn = v /\ tlb[k].rw >= req.rw
        BY <3>1, <3>4 DEF Hits, Entries
      <4>3. tlb[k].rw = READWRITE
        <5>1. tlb[k] \in TlbEntry
          BY <4>2 DEF TypeOK
        <5>2. tlb[k].rw \in {READ, READWRITE} /\ req.rw \in {WRITE, READWRITE}
          BY <2>1, <3>1, <5>1 DEF TlbEntry
        <5> QED BY <4>2, <5>2 DEF READ, WRITE, READWRITE
      <4>4. /\ \A j \in Slot : tlb[j] # NULL /\ tlb[j].vpn = v => k <= j
            /\ pt[current][v].pfn = tlb[k].pfn /\ pt[current][v].rw >= tlb[k].rw
        BY <4>2, <4>3 DEF TlbInv, NoStaleWrite, Agrees
      <4>5. \A i \in Slot : i <= k /\ k <= i => i = k
        BY <4>2 DEF Slot
      <4>6. FirstAgrees(tlb, pt[current], v)
        BY <4>2, <4>4, <4>5 DEF FirstAgrees
      <4> QED BY <2>1, <4>1, <4>6
    <3> QED BY <3>2, <3>3, <3>4
  <2> QED BY <1>0, <2>2, <2>3
<1>4. CASE FaultCopies \/ FaultUpgrades
  <2>1. /\ req.vpn \in Vpn /\ pt[current][req.vpn] \in Pte
        /\ pt[current][req.vpn].rw = READ
        /\ UNCHANGED <<current, tlb>>
        /\ FaultHandled /\ pc = "fault" /\ CopyOnWrite
        /\ FirstAgrees(tlb, pt[current], v)
    BY <1>0, <1>4, FaultFacts DEF FaultCopies, FaultUpgrades, FaultHandled
  <2>2. CASE UNCHANGED pt
    BY <2>1, <2>2
  <2>3. CASE v # req.vpn
    <3>1. CASE ~(UNCHANGED pt)
      <4>1. PICK pte : pt' = [pt EXCEPT ![current] = [pt[current] EXCEPT ![req.vpn] = pte]]
        BY <1>4, <3>1, FaultFacts
      <4>2. pt'[current'] = [pt[current] EXCEPT ![req.vpn] = pte]
        BY <1>0, <2>1, <4>1 DEF TypeOK
      <4> QED BY <2>1, <2>3, <4>2, UpdatedFirst
    <3> QED BY <2>2, <3>1
  <2>4. CASE v = req.vpn /\ FaultUpgrades
    <3>1. pt' = [pt EXCEPT ![current] = [pt[current] EXCEPT ![req.vpn] =
                  [rw |-> READWRITE, pfn |-> Frame, private |-> READWRITE]]]
      BY <2>4, FaultUpgradesFacts
    <3>2. /\ pt'[current'][v].rw = READWRITE
          /\ pt'[current'][v].pfn = pt[current][v].pfn
      BY <1>0, <2>1, <2>4, <3>1 DEF Frame, TypeOK
    <3>3. \A i \in Slot : tlb[i] # NULL => READWRITE >= tlb[i].rw
      <4>1. ASSUME NEW i \in Slot, tlb[i] # NULL PROVE tlb[i].rw \in {READ, READWRITE}
        <5>1. tlb[i] \in TlbEntry
          BY <4>1 DEF TypeOK
        <5> QED BY <5>1 DEF TlbEntry
      <4> QED BY <4>1 DEF READ, READWRITE
    <3>4. pt[current][v] # NULL
      BY <2>1, <2>4, NullAssumption
    <3> QED BY <2>1, <3>2, <3>3, <3>4 DEF FirstAgrees
  <2>5. CASE v = req.vpn /\ FaultCopies /\ pc' = "translate" /\ ~(UNCHANGED pt)
    <3>1. nr_retries' = 1 /\ UNCHANGED <<req, current>>
      <4>1. nr_retries < 2 /\ UNCHANGED <<nr_retries, req, current>>
        BY <2>1, <2>5, CopyOnWriteFacts
      <4>2. nr_retries \in 0 .. 2 /\ nr_retries >= 1
        BY <2>1 DEF TypeOK, RetryInv
      <4> QED BY <4>1, <4>2
    <3>2. req.rw # READ
      BY <2>1 DEF CopyOnWrite, READ
    <3>3. pt'[current][req.vpn].rw = READWRITE
      BY <2>5, HandledRetries
    <3> QED BY <2>5, <3>1, <3>2, <3>3 DEF Retrying
  <2>6. CASE FaultCopies /\ pc' = "prompt"
    <3>1. nr_retries = 2
      <4>1. ~(nr_retries < 2)
        BY <2>1, <2>6 DEF FaultHandled
      <4>2. nr_retries \in 0 .. 2
        BY <2>1 DEF TypeOK
      <4> QED BY <4>1, <4>2
    <3>2. FreeFrames(mapcounts) = {}
      BY <2>1, <3>1 DEF RetryInv
    <3> DEFINE counts == [mapcounts EXCEPT ![Frame] = mapcounts[Frame] - 1]
    <3>3. AllocPage(counts, req.vpn, READWRITE) /\ Frame \in Pfn /\ Shared
      BY <2>6, CopyOnWriteFacts DEF FaultCopies
    <3>4. FreeFrames(counts) = {}
      <4>1. \A f \in Pfn : mapcounts[f] # 0
        BY <3>2 DEF FreeFrames
      <4>2. \A f \in Pfn : counts[f] # 0
        BY <3>3, <4>1 DEF TypeOK, Shared
      <4> QED BY <4>2 DEF FreeFrames
    <3> HIDE DEF counts
    <3>5. UNCHANGED pt
      BY <3>3, <3>4 DEF AllocPage
    <3> QED BY <2>2, <3>5
  <2>7. pc' \in {"translate", "prompt"}
    BY <2>1, CopyOnWriteFacts
  <2> QED BY <1>4, <2>2, <2>3, <2>4, <2>5, <2>6, <2>7
<1>5. ASSUME NEW p \in Pid, SwitchTo(p) \/ Fork(p)
      PROVE  FirstAgrees(tlb', pt'[current'], v)
  <2>1. tlb' = [i \in Slot |-> IF i < NR_PAGEFRAMES THEN NULL ELSE tlb[i]]
    BY <1>5, SwitchFacts, ForkFacts
  <2>2. \A i \in Slot : tlb'[i] = NULL
    BY <2>1 DEF TlbInv
  <2> QED BY <2>2 DEF FirstAgrees
<1>6. ASSUME UNCHANGED <<print_tlb_result, system, memory, tlb>>, FirstAgrees(tlb, pt[current], v)
      PROVE  FirstAgrees(tlb', pt'[current'], v)
  BY <1>6 DEF system, memory
<1>7. CASE Miss
  <2>1. /\ pc = "translate" /\ ~Translates(req.rw, req.vpn) /\ req.vpn \in Vpn
        /\ UNCHANGED <<print_tlb_result, system, memory, tlb>>
    BY <1>7 DEF Miss, TypeOK
  <2>2. CASE pt[current][v] = NULL
    BY <1>6, <2>1, <2>2 DEF FirstAgrees
  <2>3. CASE pt[current][v] # NULL
    <3>1. Walk(req.rw, req.vpn) = {}
      BY <2>1 DEF Translates
    <3>2. ~Retrying(v)
      BY <2>1, <2>3, <3>1, WalkFinds DEF Retrying
    <3> QED BY <1>0, <1>6, <2>1, <3>2
  <2> QED BY <2>2, <2>3
<1>8. CASE UNCHANGED vars
  <2>1. UNCHANGED <<tlb, pt, current>> /\ UNCHANGED Retrying(v)
    BY <1>8 DEF vars, system, memory, access, Retrying
  <2> QED BY <1>0, <2>1
<1>9. ASSUME \/ \E vpn \in Vpn, rw \in {READ, WRITE, READWRITE} : Access(vpn, rw)
             \/ FaultCrashes \/ FaultDenied \/ Exit
      PROVE  FirstAgrees(tlb', pt'[current'], v)
  <2>1. pc # "translate"
    BY <1>9 DEF Access, FaultCrashes, FaultDenied, Exit
  <2>2. UNCHANGED <<print_tlb_result, system, memory, tlb>>
    BY <1>9, QuietFacts
  <2> QED BY <1>0, <1>6, <2>1, <2>2
<1>10. Terminating => UNCHANGED vars
  BY DEF Terminating
<1> QED BY <1>1, <1>2, <1>3, <1>4, <1>5, <1>7, <1>8, <1>9, <1>10, Steps

\* The TLB part of the invariant survives every step.
LEMMA CacheStep ==
  ASSUME MemoryInv, TlbInv, CacheInv, RetryInv, [PNext]_pvars
  PROVE  CacheInv'
<1> USE DEF MemoryInv
<1>1. \A v \in Vpn : FirstAgrees(tlb', pt'[current'], v) \/ Retrying(v)'
  BY FirstStep
<1>2. ~print_tlb_result' => \A i \in Slot : tlb'[i] = NULL
  <2>0. ~print_tlb_result => \A i \in Slot : tlb[i] = NULL
    BY DEF CacheInv
  <2>1. ASSUME NEW vpn \in Vpn, NEW rw \in {READ, READWRITE}, Alloc(vpn, rw)
        PROVE  UNCHANGED print_tlb_result /\ (print_tlb_result \/ UNCHANGED tlb)
    BY <2>1 DEF Alloc, Refilled
  <2>2. ASSUME NEW vpn \in Vpn, Free(vpn)
        PROVE  ~print_tlb_result' => \A i \in Slot : tlb'[i] = NULL
    <3>1. /\ UNCHANGED print_tlb_result
          /\ ~print_tlb_result => tlb' = tlb \/ tlb' = Forgotten(tlb, vpn)
      BY <2>2 DEF Free, Refilled
    <3> QED BY <2>0, <3>1 DEF Forgotten
  <2>3. Hit => UNCHANGED print_tlb_result /\ (print_tlb_result \/ UNCHANGED tlb)
    BY DEF Hit, Refilled
  <2>4. FaultCopies \/ FaultUpgrades => UNCHANGED <<print_tlb_result, tlb>>
    BY FaultFacts
  <2>5. ASSUME NEW p \in Pid, SwitchTo(p) \/ Fork(p)
        PROVE  ~print_tlb_result' => \A i \in Slot : tlb'[i] = NULL
    <3>1. /\ UNCHANGED print_tlb_result
          /\ tlb' = [i \in Slot |-> IF i < NR_PAGEFRAMES THEN NULL ELSE tlb[i]]
      BY <2>5, SwitchFacts, ForkFacts
    <3> QED BY <2>0, <3>1
  <2> QED BY <2>0, <2>1, <2>2, <2>3, <2>4, <2>5, Steps, QuietFacts
<1>3. \A v \in Vpn, i \in Slot :
        /\ (i \in Least(Entries(v)))' <=>
             /\ tlb'[i] # NULL /\ tlb'[i].vpn = v
             /\ \A j \in Slot : tlb'[j] # NULL /\ tlb'[j].vpn = v => i <= j
        /\ pt'[current'][v] # NULL /\ tlb'[i].vpn = v =>
             (Agrees(i)' <=> pt'[current'][v].pfn = tlb'[i].pfn
                               /\ pt'[current'][v].rw >= tlb'[i].rw)
  BY DEF Least, Entries, Agrees
<1>4. \A v \in Vpn : \A i : (i \in Least(Entries(v)))' => i \in Slot
  BY DEF Least, Entries
<1>5. ASSUME NEW v \in Vpn, pt'[current'][v] # NULL, NEW i, (i \in Least(Entries(v)))'
      PROVE  Agrees(i)' \/ Retrying(v)'
  BY <1>1, <1>3, <1>4, <1>5 DEF FirstAgrees
<1> QED BY <1>2, <1>5 DEF CacheInv, Retrying

\* The inductive invariant.
LEMMA VmInvStep == VmInv /\ [PNext]_pvars => VmInv'
<1> SUFFICES ASSUME VmInv, [PNext]_pvars PROVE VmInv'
  OBVIOUS
<1>1. MemoryInv /\ Unborn /\ TlbInv /\ CacheInv /\ RetryInv
  BY DEF VmInv, MemoryInv
<1>2. MemoryInv' /\ Unborn' /\ TlbInv' /\ CacheInv' /\ RetryInv'
  BY <1>1, MemoryStep, UnbornStep, TlbStep, CacheStep, RetryStep
<1> QED BY <1>2 DEF VmInv, MemoryInv

\* The simulator starts with empty page tables and an empty TLB.
LEMMA VmInvInit == PInit => VmInv
<1> SUFFICES ASSUME PInit PROVE VmInv
  OBVIOUS
<1>1. MemoryInv
  BY MemoryInit DEF PInit
<1>2. \A h \in Process, vpn \in Vpn : pt[h][vpn] = NULL
  BY DEF PInit, Init
<1>3. \A i \in Slot : tlb[i] = NULL
  BY DEF PInit, Init
<1>4. pc = "prompt"
  BY DEF PInit, Init
<1>5. current \in Process
  BY <1>1 DEF MemoryInv, TypeOK
<1>6. CacheInv
  BY <1>2, <1>3, <1>5 DEF CacheInv
<1>7. Unborn /\ TlbInv /\ RetryInv
  BY <1>2, <1>3, <1>4 DEF Unborn, TlbInv, NoStaleWrite, RetryInv
<1> QED BY <1>1, <1>6, <1>7 DEF VmInv, MemoryInv

\* The page tables, the TLB and the retries stay in the states that the
\* handlers count on.
THEOREM InvariantHolds == PSpec => []VmInv
BY VmInvInit, VmInvStep, PTL DEF PSpec

\* With the TLB on, what lookup_tlb() answers between two commands is what
\* the walk would answer, for every page that is mapped.
THEOREM TlbAnswersAsThePte == PSpec => []CachedWhileMapped
<1>1. VmInv => CachedWhileMapped
  <2> SUFFICES ASSUME VmInv, pc = "prompt", NEW vpn \in Vpn, NEW rw \in {READ, READWRITE},
                      pt[current][vpn] # NULL, NEW i \in Least(Hits(rw, vpn))
               PROVE  Agrees(i)
    BY DEF CachedWhileMapped
  <2>1. /\ i \in Slot /\ tlb[i] # NULL /\ tlb[i].vpn = vpn /\ tlb[i].rw >= rw
        /\ print_tlb_result
        /\ \A j \in Hits(rw, vpn) : i <= j
    BY DEF Least, Hits, Entries
  <2>2. \A j \in Slot : tlb[j] # NULL => tlb[j].rw \in {READ, READWRITE}
    <3>1. ASSUME NEW j \in Slot, tlb[j] # NULL PROVE tlb[j] \in TlbEntry
      BY <3>1 DEF VmInv, TypeOK
    <3> QED BY <3>1 DEF TlbEntry
  <2>3. CASE rw = READ
    <3>1. \A j \in Entries(vpn) : j \in Hits(rw, vpn)
      BY <2>1, <2>2, <2>3 DEF Hits, Entries, READ, READWRITE
    <3>2. i \in Least(Entries(vpn))
      BY <2>1, <3>1 DEF Least, Entries
    <3> QED BY <3>2 DEF VmInv, CacheInv
  <2>4. CASE rw = READWRITE
    <3>1. tlb[i].rw = READWRITE
      BY <2>1, <2>2, <2>4 DEF READ, READWRITE
    <3> QED BY <2>1, <3>1 DEF VmInv, TlbInv, NoStaleWrite
  <2> QED BY <2>3, <2>4
<1> QED BY <1>1, InvariantHolds, PTL

-----------------------------------------------------------------------------
\* The frame counts.
\* The inductive invariant for the counts.
FrameInv == VmInv /\ MapcountsExact /\ WritersAreAlone

\* The counts are inductive together with VmInv.
LEMMA FramesCorrect ==
  ASSUME CountersSuffice
  PROVE  PSpec => []FrameInv
<1>1. PInit => FrameInv
  <2> SUFFICES ASSUME PInit PROVE FrameInv
    OBVIOUS
  <2>1. \A m \in Process \X Vpn : pt[m[1]][m[2]] = NULL
    BY DEF PInit, Init
  <2>2. ASSUME NEW f \in Pfn PROVE mapcounts[f] = Cardinality(Mappings(f))
    <3>1. Mappings(f) = {}
      BY <2>1 DEF Mappings
    <3>2. mapcounts[f] = 0
      BY DEF PInit, Init
    <3> QED BY <3>1, <3>2, FS_EmptySet
  <2>3. MapcountsExact
    BY <2>2 DEF MapcountsExact, Counted
  <2>4. WritersAreAlone
    BY <2>1 DEF WritersAreAlone, Private
  <2> QED BY <2>3, <2>4, VmInvInit DEF FrameInv
<1>2. FrameInv /\ [PNext]_pvars => FrameInv'
  <2> SUFFICES ASSUME FrameInv, [PNext]_pvars PROVE FrameInv'
    OBVIOUS
  <2>1. (MapcountsExact /\ WritersAreAlone)'
    BY FrameStep DEF FrameInv, VmInv, MemoryInv
  <2>2. VmInv'
    BY VmInvStep DEF FrameInv
  <2> QED BY <2>1, <2>2 DEF FrameInv
<1> QED BY <1>1, <1>2, PTL DEF PSpec

\* As long as no copy-on-write fault has found memory full, mapcounts[] is
\* right: however many allocs, frees, forks and faults there were, every count
\* is the number of PTEs that map the frame.
THEOREM MapcountsAreExact ==
  ASSUME CountersSuffice
  PROVE  PSpec => []MapcountsExact
BY FramesCorrect, PTL DEF FrameInv

\* Under the same condition no process writes into a page of another one
\* without a fault.
THEOREM WritersStayAlone ==
  ASSUME CountersSuffice
  PROVE  PSpec => []WritersAreAlone
BY FramesCorrect, PTL DEF FrameInv

-----------------------------------------------------------------------------
(* The answers *)

\* Every answer of __access_memory() comes from a step that may give it.
LEMMA AnswerStep == VmInv /\ [PNext]_pvars => [Answer]_pvars
<1> SUFFICES ASSUME VmInv, [PNext]_pvars, pc' = "prompt", pc \in {"translate", "fault"}
             PROVE  /\ pc = "translate" => Permits(req.vpn, req.rw) \/ ReadsFreed
                    /\ pc = "fault" /\ ~starved' => ~Permits(req.vpn, req.rw)
  BY DEF Answer
<1>0. /\ TypeOK /\ InDirectory /\ ReadOnlyStaysSo /\ MemoryInv
      /\ req.vpn \in Vpn /\ req.rw \in {READ, WRITE, READWRITE}
      /\ current \in Process /\ pt[current] \in [Vpn -> Pte \cup {NULL}]
  BY DEF VmInv, MemoryInv, TypeOK
<1>1. pt[current][req.vpn] # NULL =>
        /\ pt[current][req.vpn].rw \in {READ, READWRITE}
        /\ pt[current][req.vpn].private \in {READ, READWRITE}
        /\ pt[current][req.vpn].rw = READWRITE => pt[current][req.vpn].private = READWRITE
  <2>1. pt[current][req.vpn] # NULL => pt[current][req.vpn] \in Pte
    BY <1>0
  <2> QED BY <1>0, <2>1 DEF Pte, ReadOnlyStaysSo
<1>2. ASSUME Hit PROVE pc = "translate" /\ (Permits(req.vpn, req.rw) \/ ReadsFreed)
  <2>1. pc = "translate" /\ Translates(req.rw, req.vpn)
    BY <1>2 DEF Hit
  <2>2. CASE Walk(req.rw, req.vpn) # {}
    <3>1. /\ pt[current][req.vpn] # NULL
          /\ req.rw \in {WRITE, READWRITE} => pt[current][req.vpn].rw = READWRITE
      BY <1>0, <2>2, WalkFinds
    <3> QED BY <1>0, <1>1, <2>1, <3>1 DEF Permits
  <2>3. CASE Hits(req.rw, req.vpn) # {}
    <3>1. PICK i \in Slot : /\ tlb[i] # NULL /\ tlb[i].vpn = req.vpn
                            /\ tlb[i].rw >= req.rw /\ print_tlb_result
      BY <2>3 DEF Hits, Entries
    <3>2. CASE req.rw = READ
      BY <2>1, <3>1, <3>2 DEF Permits, ReadsFreed
    <3>3. CASE req.rw # READ
      <4>1. tlb[i] \in TlbEntry
        BY <1>0, <3>1 DEF TypeOK
      <4>2. tlb[i].rw \in {READ, READWRITE} /\ req.rw \in {WRITE, READWRITE}
        BY <1>0, <3>3, <4>1 DEF TlbEntry
      <4>3. tlb[i].rw = READWRITE
        BY <3>1, <4>2 DEF READ, WRITE, READWRITE
      <4>4. pt[current][req.vpn] # NULL /\ pt[current][req.vpn].rw >= READWRITE
        BY <3>1, <4>3 DEF VmInv, TlbInv, NoStaleWrite, Agrees
      <4>5. pt[current][req.vpn].rw = READWRITE
        BY <1>1, <4>4 DEF READ, READWRITE
      <4> QED BY <1>1, <2>1, <4>4, <4>5 DEF Permits
    <3> QED BY <3>2, <3>3
  <2> QED BY <2>1, <2>2, <2>3 DEF Translates
<1>3. ASSUME FaultDenied PROVE pc = "fault" /\ ~Permits(req.vpn, req.rw)
  <2>1. pc = "fault" /\ ~CopyOnWrite /\ ~Translates(req.rw, req.vpn)
    BY <1>3 DEF FaultDenied, VmInv, RetryInv
  <2>2. Walk(req.rw, req.vpn) = {}
    BY <2>1 DEF Translates
  <2>3. SUFFICES ASSUME Permits(req.vpn, req.rw) PROVE FALSE
    BY <2>1
  <2>4. pt[current][req.vpn] # NULL
    BY <2>3 DEF Permits
  <2>5. req.rw \in {WRITE, READWRITE} /\ pt[current][req.vpn].rw # READWRITE
    BY <1>0, <2>2, <2>4, WalkFinds
  <2>6. req.rw # READ /\ req.rw > READ
    BY <2>5 DEF READ, WRITE, READWRITE
  <2>7. pt[current][req.vpn].private = READWRITE /\ READWRITE # READ
    BY <2>3, <2>6 DEF Permits, READ, READWRITE
  <2>8. CopyOnWrite
    BY <1>1, <2>4, <2>5, <2>6, <2>7 DEF CopyOnWrite
  <2> QED BY <2>1, <2>8
<1>4. ASSUME FaultCopies \/ FaultUpgrades PROVE pc = "fault" /\ starved'
  <2>1. pc = "fault" /\ (nr_retries < 2 => pc' = "translate")
    BY <1>4 DEF FaultCopies, FaultUpgrades, FaultHandled
  <2>2. nr_retries = 2
    <3>1. nr_retries \in 0 .. 2
      BY <1>0, <2>1 DEF TypeOK
    <3> QED BY <2>1, <3>1
  <2>3. starved
    BY <2>1, <2>2 DEF VmInv, RetryInv
  <2> QED BY <2>1, <2>3 DEF PNext, pvars
<1>5. ASSUME \/ \E vpn \in Vpn, rw \in {READ, READWRITE} : Alloc(vpn, rw)
             \/ \E vpn \in Vpn : Free(vpn)
             \/ \E p \in Pid : SwitchTo(p) \/ Fork(p)
             \/ \E vpn \in Vpn, rw \in {READ, WRITE, READWRITE} : Access(vpn, rw)
             \/ Miss \/ FaultCrashes \/ Exit \/ Terminating \/ UNCHANGED vars
      PROVE  FALSE
  BY <1>5 DEF Alloc, Free, SwitchTo, Fork, Access, Miss, FaultCrashes, Exit, Terminating, vars
<1> QED BY <1>2, <1>3, <1>4, <1>5, Steps

\* The memory unit and the fault handler together give every access the answer
\* that the page was allocated for, in whatever state forks, faults and
\* switches have left the frames and the TLB.
THEOREM AccessesAnsweredRightly == PSpec => AnsweredRightly
BY AnswerStep, InvariantHolds, PTL DEF PSpec, AnsweredRightly
=============================================================================
