------------------------------ MODULE VmProofs ------------------------------
(***************************************************************************)
(* What the virtual-memory simulator guarantees, for every size of the     *)
(* memory, of the page tables and of the TLB: type correctness, with what  *)
(* each action does to the state as lemmas; read-only pages stay read-only,*)
(* no TLB entry permits a write that the PTE forbids, and the simulator    *)
(* implements separate address spaces.                                     *)
(***************************************************************************)
EXTENDS VmProps, ListLemmas, FiniteSetTheorems, TLAPS

SlotType == TlbEntry \cup {NULL}

\* A page has its place in some directory.
LEMMA PdIndexType == ASSUME NEW vpn \in Vpn PROVE PdIndex(vpn) \in Directory
BY DEF Directory

\* What a walk finds is a PTE of the current process.
LEMMA WalkFacts ==
  ASSUME TypeOK, NEW vpn \in Vpn, NEW rw, Walk(rw, vpn) # {}
  PROVE  /\ pt[current][vpn] \in Pte
         /\ pt[ptbr][vpn] = pt[current][vpn]
         /\ rw \in {WRITE, READWRITE} => pt[current][vpn].rw = READWRITE
BY DEF TypeOK, Walk

\* __translate() leaves a well-typed TLB.
LEMMA RefilledType ==
  ASSUME TypeOK, NEW vpn \in Vpn, NEW rw
  PROVE  Refilled(rw, vpn) \in [Slot -> SlotType]
<1>1. CASE print_tlb_result /\ Hits(rw, vpn) = {} /\ Walk(rw, vpn) # {}
  <2>1. pt[ptbr][vpn] \in Pte
    BY <1>1, WalkFacts
  <2>2. [vpn |-> vpn, rw |-> pt[ptbr][vpn].rw, pfn |-> pt[ptbr][vpn].pfn] \in TlbEntry
    BY <2>1 DEF Pte, TlbEntry
  <2> QED BY <1>1, <2>2 DEF Refilled, Inserted, TypeOK, SlotType
<1>2. CASE ~(print_tlb_result /\ Hits(rw, vpn) = {} /\ Walk(rw, vpn) # {})
  BY <1>2 DEF Refilled, TypeOK, SlotType
<1> QED BY <1>1, <1>2

\* The current process gets the page vpn, in some frame.
Maps(vpn, rw) ==
  \E f \in Pfn :
    /\ pdes' = [pdes EXCEPT ![current] = pdes[current] \cup {PdIndex(vpn)}]
    /\ pt' = [pt EXCEPT ![current] = [pt[current] EXCEPT ![vpn] =
                [rw |-> rw, pfn |-> f, private |-> rw]]]

\* alloc_page() keeps types, whatever its caller did to the counts, and writes
\* at most one PTE, of the current process.
LEMMA AllocPageFacts ==
  ASSUME TypeOK, NEW counts \in [Pfn -> 0 .. UINT_MAX], NEW vpn \in Vpn,
         NEW rw \in {READ, READWRITE}, AllocPage(counts, vpn, rw)
  PROVE  /\ mapcounts' \in [Pfn -> 0 .. UINT_MAX]
         /\ pdes' \in [Process -> SUBSET Directory]
         /\ pt' \in [Process -> [Vpn -> Pte \cup {NULL}]]
         /\ UNCHANGED <<pt, pdes>> \/ Maps(vpn, rw)
<1>1. CASE FreeFrames(counts) = {}
  BY <1>1 DEF AllocPage, TypeOK
<1>2. CASE FreeFrames(counts) # {}
  <2>1. PICK f \in Least(FreeFrames(counts)) :
          /\ mapcounts' = [counts EXCEPT ![f] = Incremented(counts[f])]
          /\ pdes' = [pdes EXCEPT ![current] = pdes[current] \cup {PdIndex(vpn)}]
          /\ pt' = [pt EXCEPT ![current][vpn] =
                      [rw |-> rw, pfn |-> f, private |-> rw]]
    BY <1>2 DEF AllocPage
  <2>2. f \in Pfn
    BY <2>1 DEF Least, FreeFrames
  <2>3. Incremented(counts[f]) \in 0 .. UINT_MAX
    BY <2>2, VmAssumption DEF Incremented
  <2>4. PdIndex(vpn) \in Directory
    BY PdIndexType
  <2>5. [rw |-> rw, pfn |-> f, private |-> rw] \in Pte
    BY <2>2 DEF Pte
  <2>6. mapcounts' \in [Pfn -> 0 .. UINT_MAX]
    BY <2>1, <2>2, <2>3
  <2>7. pdes' \in [Process -> SUBSET Directory]
    BY <2>1, <2>4 DEF TypeOK
  <2>8. pt' = [pt EXCEPT ![current] = [pt[current] EXCEPT ![vpn] =
                 [rw |-> rw, pfn |-> f, private |-> rw]]]
    BY <2>1
  <2>9. pt' \in [Process -> [Vpn -> Pte \cup {NULL}]]
    BY <2>5, <2>8 DEF TypeOK
  <2>10. Maps(vpn, rw)
    BY <2>1, <2>2, <2>8 DEF Maps
  <2> QED BY <2>6, <2>7, <2>9, <2>10
<1> QED BY <1>1, <1>2

\* A fork shares the pages of a table and keeps what they were allocated for.
LEMMA CopyOnWriteTableFacts ==
  ASSUME NEW table \in [Vpn -> Pte \cup {NULL}]
  PROVE  /\ CopyOnWriteTable(table) \in [Vpn -> Pte \cup {NULL}]
         /\ \A vpn \in Vpn :
              /\ CopyOnWriteTable(table)[vpn] = NULL <=> table[vpn] = NULL
              /\ table[vpn] # NULL =>
                   /\ CopyOnWriteTable(table)[vpn].rw = READ
                   /\ CopyOnWriteTable(table)[vpn].pfn = table[vpn].pfn
                   /\ CopyOnWriteTable(table)[vpn].private = table[vpn].private
<1>1. ASSUME NEW vpn \in Vpn, table[vpn] # NULL
      PROVE  /\ [table[vpn] EXCEPT !.rw = READ] \in Pte
             /\ [table[vpn] EXCEPT !.rw = READ].rw = READ
             /\ [table[vpn] EXCEPT !.rw = READ].pfn = table[vpn].pfn
             /\ [table[vpn] EXCEPT !.rw = READ].private = table[vpn].private
  <2>1. table[vpn] \in Pte
    BY <1>1
  <2> QED BY <2>1 DEF Pte
<1> QED BY <1>1, NullAssumption DEF CopyOnWriteTable

-----------------------------------------------------------------------------
(* Type correctness *)

LEMMA TypeInit == Init => TypeOK
<1> SUFFICES ASSUME Init PROVE TypeOK
  OBVIOUS
<1>1. pid \in [Process -> Pid \cup {NULL}]
  BY VmAssumption DEF Init
<1>2. 1 \in Process /\ processes \in Seq(Process)
  BY VmAssumption DEF Process, Init
<1>3. \A f \in Pfn : 0 \in 0 .. UINT_MAX
  BY VmAssumption
<1> QED BY <1>1, <1>2, <1>3 DEF Init, TypeOK

\* __alloc_page() allocates or ends the simulation.
LEMMA AllocType ==
  ASSUME TypeOK, NEW vpn \in Vpn, NEW rw \in {READ, READWRITE}, Alloc(vpn, rw)
  PROVE  TypeOK'
<1>1. /\ tlb' = Refilled(READ, vpn)
      /\ pc = "prompt" /\ pc' \in {"prompt", "done"}
      /\ UNCHANGED <<print_tlb_result, forked, pid, processes, current, ptbr,
                     req, nr_retries>>
  BY DEF Alloc, system, access
<1>2. tlb' \in [Slot -> TlbEntry \cup {NULL}]
  BY <1>1, RefilledType DEF SlotType
<1>3. /\ mapcounts' \in [Pfn -> 0 .. UINT_MAX]
      /\ pdes' \in [Process -> SUBSET Directory]
      /\ pt' \in [Process -> [Vpn -> Pte \cup {NULL}]]
  <2>1. CASE Translates(READ, vpn)
    BY <2>1 DEF Alloc, memory, TypeOK
  <2>2. CASE ~Translates(READ, vpn)
    <3>1. AllocPage(mapcounts, vpn, rw)
      BY <2>2 DEF Alloc
    <3> QED BY <3>1, AllocPageFacts DEF TypeOK
  <2> QED BY <2>1, <2>2
<1> QED BY <1>1, <1>2, <1>3 DEF TypeOK

\* What a successful __free_page() does to the memory.
LEMMA FreeFacts ==
  ASSUME TypeOK, NEW vpn \in Vpn, Free(vpn)
  PROVE  /\ mapcounts' \in [Pfn -> 0 .. UINT_MAX]
         /\ \/ pt[current][vpn] = NULL /\ UNCHANGED pt
            \/ /\ pt[current][vpn] # NULL
               /\ pt' = [pt EXCEPT ![current] = [pt[current] EXCEPT ![vpn] = NULL]]
         /\ pt' \in [Process -> [Vpn -> Pte \cup {NULL}]]
         /\ UNCHANGED <<print_tlb_result, forked, pid, processes, current, ptbr,
                        pdes, req, nr_retries, pc>>
<1>1. UNCHANGED <<print_tlb_result, forked, pid, processes, current, ptbr, pdes,
                  req, nr_retries, pc>>
  BY DEF Free, system, access
<1>2. CASE pt[current][vpn] = NULL
  BY <1>1, <1>2 DEF Free, TypeOK
<1>3. CASE pt[current][vpn] # NULL
  <2> DEFINE pfn == pt[current][vpn].pfn
  <2>1. /\ pt' = [pt EXCEPT ![current][vpn] = NULL]
        /\ mapcounts' = [mapcounts EXCEPT ![pfn] = Decremented(mapcounts[pfn])]
    BY <1>3 DEF Free
  <2>2. pfn \in Pfn
    BY <1>3 DEF TypeOK, Pte
  <2> HIDE DEF pfn
  <2>3. Decremented(mapcounts[pfn]) \in 0 .. UINT_MAX
    BY <2>2, VmAssumption DEF Decremented, TypeOK
  <2>4. mapcounts' \in [Pfn -> 0 .. UINT_MAX]
    BY <2>1, <2>2, <2>3 DEF TypeOK
  <2>5. pt' = [pt EXCEPT ![current] = [pt[current] EXCEPT ![vpn] = NULL]]
    BY <2>1
  <2>6. pt' \in [Process -> [Vpn -> Pte \cup {NULL}]]
    BY <2>5 DEF TypeOK
  <2> QED BY <1>1, <1>3, <2>4, <2>5, <2>6
<1> QED BY <1>2, <1>3

LEMMA FreeType ==
  ASSUME TypeOK, NEW vpn \in Vpn, Free(vpn)
  PROVE  TypeOK'
<1>1. Refilled(READ, vpn) \in [Slot -> SlotType]
  BY RefilledType
<1>2. \/ tlb' = Refilled(READ, vpn)
      \/ tlb' = Forgotten(Refilled(READ, vpn), vpn)
  BY DEF Free
<1>3. tlb' \in [Slot -> SlotType]
  BY <1>1, <1>2 DEF Forgotten, SlotType
<1> QED BY <1>3, FreeFacts DEF TypeOK, SlotType

\* The page of a copy-on-write fault.
LEMMA CopyOnWriteFacts ==
  ASSUME TypeOK, FaultHandled
  PROVE  /\ req.vpn \in Vpn
         /\ pt[current][req.vpn] \in Pte
         /\ pt[current][req.vpn].private = READWRITE
         /\ Frame \in Pfn
         /\ PdIndex(req.vpn) \in pdes[current]
         /\ \/ pc' = "translate" /\ nr_retries < 2 /\ UNCHANGED <<req, nr_retries>>
            \/ pc' = "prompt" /\ req' = NULL /\ nr_retries' = 0
         /\ UNCHANGED <<print_tlb_result, forked, pid, processes, current, ptbr, tlb>>
<1>1. pc = "fault" /\ req \in [vpn : Vpn, rw : {READ, WRITE, READWRITE}]
  BY DEF TypeOK, FaultHandled
<1>2. req.vpn \in Vpn
  BY <1>1
<1>3. pt[current][req.vpn] \in Pte /\ pt[current][req.vpn].private # READ
  BY <1>2 DEF FaultHandled, CopyOnWrite, TypeOK
<1>4. pt[current][req.vpn].private = READWRITE /\ Frame \in Pfn
  BY <1>3 DEF Pte, Frame
<1>5. PdIndex(req.vpn) \in pdes[current]
  BY DEF FaultHandled
<1>6. \/ pc' = "translate" /\ nr_retries < 2 /\ UNCHANGED <<req, nr_retries>>
      \/ pc' = "prompt" /\ req' = NULL /\ nr_retries' = 0
  BY DEF FaultHandled, Return, access
<1>7. UNCHANGED <<print_tlb_result, forked, pid, processes, current, ptbr, tlb>>
  BY DEF FaultHandled, system
<1> QED BY <1>2, <1>3, <1>4, <1>5, <1>6, <1>7

\* The counts that FaultCopies hands to alloc_page().
LEMMA UncountedType ==
  ASSUME TypeOK, Frame \in Pfn, Shared
  PROVE  [mapcounts EXCEPT ![Frame] = mapcounts[Frame] - 1] \in [Pfn -> 0 .. UINT_MAX]
BY VmAssumption DEF TypeOK, Shared

LEMMA FaultCopiesType ==
  ASSUME TypeOK, FaultCopies
  PROVE  TypeOK'
<1>1. FaultHandled /\ Shared
  BY DEF FaultCopies
<1> DEFINE counts == [mapcounts EXCEPT ![Frame] = mapcounts[Frame] - 1]
<1>2. AllocPage(counts, req.vpn, READWRITE)
  BY DEF FaultCopies
<1>3. counts \in [Pfn -> 0 .. UINT_MAX] /\ req.vpn \in Vpn
  BY <1>1, CopyOnWriteFacts, UncountedType
<1> HIDE DEF counts
<1>4. /\ mapcounts' \in [Pfn -> 0 .. UINT_MAX]
      /\ pdes' \in [Process -> SUBSET Directory]
      /\ pt' \in [Process -> [Vpn -> Pte \cup {NULL}]]
  BY <1>2, <1>3, AllocPageFacts
<1>5. pc = "fault"
  BY <1>1 DEF FaultHandled
<1> QED BY <1>1, <1>4, <1>5, CopyOnWriteFacts DEF TypeOK

\* What FaultUpgrades does to the page table.
LEMMA FaultUpgradesFacts ==
  ASSUME TypeOK, FaultUpgrades
  PROVE  /\ pt' = [pt EXCEPT ![current] = [pt[current] EXCEPT ![req.vpn] =
                     [rw |-> READWRITE, pfn |-> Frame, private |-> READWRITE]]]
         /\ pt' \in [Process -> [Vpn -> Pte \cup {NULL}]]
         /\ UNCHANGED <<pdes, mapcounts>>
<1>1. /\ FaultHandled
      /\ pt' = [pt EXCEPT ![current] = [pt[current] EXCEPT ![req.vpn] =
                  [pt[current][req.vpn] EXCEPT !.rw = READWRITE]]]
      /\ UNCHANGED <<pdes, mapcounts>>
  BY DEF FaultUpgrades
<1>2. [pt[current][req.vpn] EXCEPT !.rw = READWRITE]
        = [rw |-> READWRITE, pfn |-> Frame, private |-> READWRITE]
  BY <1>1, CopyOnWriteFacts DEF Pte, Frame
<1>3. [rw |-> READWRITE, pfn |-> Frame, private |-> READWRITE] \in Pte
  BY <1>1, CopyOnWriteFacts DEF Pte
<1> QED BY <1>1, <1>2, <1>3, CopyOnWriteFacts DEF TypeOK

LEMMA FaultUpgradesType ==
  ASSUME TypeOK, FaultUpgrades
  PROVE  TypeOK'
<1>1. FaultHandled /\ pc = "fault"
  BY DEF FaultUpgrades, FaultHandled
<1> QED BY <1>1, FaultUpgradesFacts, CopyOnWriteFacts DEF TypeOK

\* What a fork does, entry by entry.
LEMMA ForkFacts ==
  ASSUME TypeOK, NEW p \in Pid, Fork(p)
  PROVE  /\ forked + 1 \in Process
         /\ forked' = forked + 1 /\ current' = forked + 1 /\ ptbr' = forked + 1
         /\ pdes' = [pdes EXCEPT ![forked + 1] = pdes[current]]
         /\ \A h \in Process :
              pt'[h] = IF h \in {current, forked + 1}
                       THEN CopyOnWriteTable(pt[current]) ELSE pt[h]
         /\ pt' \in [Process -> [Vpn -> Pte \cup {NULL}]]
         /\ mapcounts' \in [Pfn -> 0 .. UINT_MAX]
         /\ processes' = Append(processes, current)
         /\ tlb' = [i \in Slot |-> IF i < NR_PAGEFRAMES THEN NULL ELSE tlb[i]]
         /\ pid' \in [Process -> Pid \cup {NULL}]
         /\ pc = "prompt"
         /\ UNCHANGED <<print_tlb_result, req, nr_retries, pc>>
<1> DEFINE child == forked + 1
           table == CopyOnWriteTable(pt[current])
<1>1. child \in Process
  BY VmAssumption DEF Fork, TypeOK, Process
<1>2. /\ forked' = child /\ current' = child /\ ptbr' = child
      /\ pid' = [pid EXCEPT ![child] = p]
      /\ pdes' = [pdes EXCEPT ![child] = pdes[current]]
      /\ pt' = [pt EXCEPT ![child] = table, ![current] = table]
      /\ mapcounts' = [f \in Pfn |->
                        (mapcounts[f] + Cardinality(PagesIn(f))) % (UINT_MAX + 1)]
      /\ processes' = Append(processes, current)
      /\ tlb' = [i \in Slot |-> IF i < NR_PAGEFRAMES THEN NULL ELSE tlb[i]]
      /\ pc = "prompt"
      /\ UNCHANGED <<print_tlb_result, req, nr_retries, pc>>
  BY DEF Fork, Flush, access
<1>3. table \in [Vpn -> Pte \cup {NULL}]
  BY CopyOnWriteTableFacts DEF TypeOK
<1>4. ASSUME NEW f \in Pfn
      PROVE  (mapcounts[f] + Cardinality(PagesIn(f))) % (UINT_MAX + 1) \in 0 .. UINT_MAX
  <2>1. IsFiniteSet(PagesIn(f))
    <3>1. IsFiniteSet(Vpn)
      BY VmAssumption, FS_Interval DEF Vpn
    <3> QED BY <3>1, FS_Subset DEF PagesIn
  <2>2. Cardinality(PagesIn(f)) \in Nat
    BY <2>1, FS_CardinalityType
  <2>3. mapcounts[f] \in Nat
    BY DEF TypeOK
  <2> DEFINE sum == mapcounts[f] + Cardinality(PagesIn(f))
  <2>4. sum \in Nat
    BY <2>2, <2>3
  <2> HIDE DEF sum
  <2>5. sum % (UINT_MAX + 1) \in 0 .. UINT_MAX
    BY <2>4, VmAssumption
  <2> QED BY <2>5 DEF sum
<1> HIDE DEF child, table
<1>5. mapcounts' \in [Pfn -> 0 .. UINT_MAX]
  BY <1>2, <1>4
<1>6. /\ pt' \in [Process -> [Vpn -> Pte \cup {NULL}]]
      /\ \A h \in Process :
           pt'[h] = IF h \in {current, child} THEN table ELSE pt[h]
  BY <1>1, <1>2, <1>3 DEF TypeOK
<1>7. pid' \in [Process -> Pid \cup {NULL}]
  BY <1>1, <1>2 DEF TypeOK
<1> QED BY <1>1, <1>2, <1>5, <1>6, <1>7 DEF child, table

LEMMA ForkType ==
  ASSUME TypeOK, NEW p \in Pid, Fork(p)
  PROVE  TypeOK'
<1>1. Append(processes, current) \in Seq(Process)
  BY AppendFacts DEF TypeOK
<1>2. pdes' \in [Process -> SUBSET Directory]
  BY ForkFacts DEF TypeOK
<1>3. tlb' \in [Slot -> TlbEntry \cup {NULL}]
  BY ForkFacts DEF TypeOK
<1> QED BY <1>1, <1>2, <1>3, ForkFacts DEF TypeOK

\* What a switch to an existing process does.
LEMMA SwitchFacts ==
  ASSUME TypeOK, NEW p \in Pid, SwitchTo(p)
  PROVE  /\ \E i \in DOMAIN processes :
              /\ current' = processes[i] /\ ptbr' = processes[i]
              /\ processes' = RemoveAt(processes, i)
         /\ current' \in Process
         /\ processes' \in Seq(Process)
         /\ tlb' = [i \in Slot |-> IF i < NR_PAGEFRAMES THEN NULL ELSE tlb[i]]
         /\ pc = "prompt"
         /\ UNCHANGED <<print_tlb_result, forked, pid, pdes, pt, mapcounts,
                        req, nr_retries, pc>>
<1>1. PICK i \in Least(Waiting(p)) :
        /\ current' = processes[i]
        /\ ptbr' = processes[i]
        /\ processes' = RemoveAt(processes, i)
  BY DEF SwitchTo
<1>2. i \in DOMAIN processes
  BY DEF Least, Waiting
<1>3. i \in 1 .. Len(processes)
  BY <1>2, LenProperties DEF TypeOK
<1>4. current' \in Process /\ processes' \in Seq(Process)
  BY <1>1, <1>3, ElementOfSeq, RemoveAtFacts DEF TypeOK
<1>5. /\ tlb' = [k \in Slot |-> IF k < NR_PAGEFRAMES THEN NULL ELSE tlb[k]]
      /\ pc = "prompt"
      /\ UNCHANGED <<print_tlb_result, forked, pid, pdes, pt, mapcounts,
                     req, nr_retries, pc>>
  BY DEF SwitchTo, Flush, memory, access
<1> QED BY <1>1, <1>2, <1>4, <1>5

LEMMA SwitchType ==
  ASSUME TypeOK, NEW p \in Pid, SwitchTo(p)
  PROVE  TypeOK'
<1>1. tlb' \in [Slot -> TlbEntry \cup {NULL}]
  BY SwitchFacts DEF TypeOK
<1>2. ptbr' = current'
  BY SwitchFacts
<1> QED BY <1>1, <1>2, SwitchFacts DEF TypeOK

\* The steps of an access that change no memory.
LEMMA QuietFacts ==
  ASSUME TypeOK,
         \/ \E vpn \in Vpn, rw \in {READ, WRITE, READWRITE} : Access(vpn, rw)
         \/ Miss \/ FaultCrashes \/ FaultDenied \/ Exit \/ Terminating
         \/ UNCHANGED vars
  PROVE  TypeOK' /\ UNCHANGED <<print_tlb_result, system, memory, tlb>>
<1>1. ASSUME NEW vpn \in Vpn, NEW rw \in {READ, WRITE, READWRITE}, Access(vpn, rw)
      PROVE  TypeOK' /\ UNCHANGED <<print_tlb_result, system, memory, tlb>>
  BY <1>1 DEF Access, TypeOK, system, memory
<1>2. CASE Miss
  <2>1. pc = "translate" /\ nr_retries \in 0 .. 1
    BY <1>2 DEF Miss, TypeOK
  <2> QED BY <1>2, <2>1 DEF Miss, TypeOK, system, memory
<1>3. CASE FaultCrashes
  BY <1>3 DEF FaultCrashes, TypeOK, system, memory, access
<1>4. CASE FaultDenied
  BY <1>4 DEF FaultDenied, Return, TypeOK, system, memory
<1>5. CASE Exit
  BY <1>5 DEF Exit, TypeOK, system, memory, access
<1>6. CASE Terminating \/ UNCHANGED vars
  BY <1>6 DEF Terminating, vars, TypeOK, system, memory, access
<1> QED BY <1>1, <1>2, <1>3, <1>4, <1>5, <1>6

\* __access_memory() when the page translates.
LEMMA HitFacts ==
  ASSUME TypeOK, Hit
  PROVE  /\ TypeOK'
         /\ req.vpn \in Vpn /\ req.rw \in {READ, WRITE, READWRITE}
         /\ tlb' = Refilled(req.rw, req.vpn)
         /\ UNCHANGED <<print_tlb_result, forked, pid, processes, current, ptbr,
                        pdes, pt, mapcounts>>
<1>1. /\ req.vpn \in Vpn /\ req.rw \in {READ, WRITE, READWRITE}
      /\ tlb' = Refilled(req.rw, req.vpn)
      /\ pc' = "prompt" /\ req' = NULL /\ nr_retries' = 0
      /\ UNCHANGED <<print_tlb_result, forked, pid, processes, current, ptbr,
                     pdes, pt, mapcounts>>
  BY DEF Hit, Return, TypeOK, system, memory
<1>2. tlb' \in [Slot -> TlbEntry \cup {NULL}]
  BY <1>1, RefilledType DEF SlotType
<1>3. TypeOK'
  BY <1>1, <1>2 DEF TypeOK
<1> QED BY <1>1, <1>3

\* Every step of the simulator, by what it does to the memory.
LEMMA Steps ==
  ASSUME [PNext]_pvars
  PROVE  \/ \E vpn \in Vpn, rw \in {READ, READWRITE} : Alloc(vpn, rw)
         \/ \E vpn \in Vpn : Free(vpn)
         \/ Hit
         \/ FaultCopies
         \/ FaultUpgrades
         \/ \E p \in Pid : SwitchTo(p)
         \/ \E p \in Pid : Fork(p)
         \/ \/ \E vpn \in Vpn, rw \in {READ, WRITE, READWRITE} : Access(vpn, rw)
            \/ Miss \/ FaultCrashes \/ FaultDenied \/ Exit \/ Terminating
            \/ UNCHANGED vars
BY DEF PNext, pvars, Next, Command, Handling

LEMMA TypeStep ==
  ASSUME TypeOK, [PNext]_pvars
  PROVE  TypeOK'
<1>1. ASSUME NEW vpn \in Vpn, NEW rw \in {READ, READWRITE}, Alloc(vpn, rw)
      PROVE  TypeOK'
  BY <1>1, AllocType
<1>2. ASSUME NEW vpn \in Vpn, Free(vpn) PROVE TypeOK'
  BY <1>2, FreeType
<1>3. ASSUME NEW p \in Pid, SwitchTo(p) PROVE TypeOK'
  BY <1>3, SwitchType
<1>4. ASSUME NEW p \in Pid, Fork(p) PROVE TypeOK'
  BY <1>4, ForkType
<1> QED BY <1>1, <1>2, <1>3, <1>4, Steps, HitFacts, FaultCopiesType,
           FaultUpgradesType, QuietFacts

\* Whatever is typed at the prompt, the page tables, the TLB and the counts
\* stay well formed: every PTE names a frame that exists, no counter leaves
\* its range and the page table in use is that of the current process.
THEOREM TypeCorrect == PSpec => []TypeOK
<1>1. PInit => TypeOK
  BY TypeInit DEF PInit
<1>2. TypeOK /\ [PNext]_pvars => TypeOK'
  BY TypeStep
<1> QED BY <1>1, <1>2, PTL DEF PSpec

-----------------------------------------------------------------------------
(* Page tables and separate address spaces *)

\* The part of the invariant that is about page tables.
MemoryInv == TypeOK /\ InDirectory /\ OnlyForked /\ ReadOnlyStaysSo

\* A mapped page is found by a walk for reading, so that alloc_page() and
\* free_page() are right to ask __translate() about it.
LEMMA MappedTranslates ==
  ASSUME TypeOK, InDirectory, NEW vpn \in Vpn, pt[current][vpn] # NULL
  PROVE  Walk(READ, vpn) # {} /\ Translates(READ, vpn)
<1>1. PdIndex(vpn) \in pdes[ptbr] /\ pt[ptbr][vpn] # NULL
  BY DEF TypeOK, InDirectory
<1>2. pt[ptbr][vpn] \in Walk(READ, vpn)
  BY <1>1 DEF Walk, READ, WRITE, READWRITE
<1> QED BY <1>2 DEF Translates

\* What a successful alloc does, besides what AllocPageFacts says.
LEMMA AllocFacts ==
  ASSUME TypeOK, InDirectory, NEW vpn \in Vpn, NEW rw \in {READ, READWRITE},
         Alloc(vpn, rw)
  PROVE  /\ UNCHANGED <<print_tlb_result, forked, processes, current>>
         /\ \/ UNCHANGED <<pt, pdes>> /\ tlb' = Refilled(READ, vpn)
            \/ pt[current][vpn] = NULL /\ tlb' = tlb /\ Maps(vpn, rw)
<1>1. /\ UNCHANGED <<print_tlb_result, forked, processes, current>>
      /\ tlb' = Refilled(READ, vpn)
  BY DEF Alloc, system
<1>2. CASE Translates(READ, vpn)
  BY <1>1, <1>2 DEF Alloc, memory
<1>3. CASE ~Translates(READ, vpn)
  <2>1. AllocPage(mapcounts, vpn, rw) /\ mapcounts \in [Pfn -> 0 .. UINT_MAX]
    BY <1>3 DEF Alloc, TypeOK
  <2>2. pt[current][vpn] = NULL
    BY <1>3, MappedTranslates
  <2>3. tlb' = tlb
    BY <1>1, <1>3 DEF Refilled, Translates
  <2>4. UNCHANGED <<pt, pdes>> \/ Maps(vpn, rw)
    BY <2>1, AllocPageFacts
  <2> QED BY <1>1, <2>2, <2>3, <2>4
<1> QED BY <1>2, <1>3

\* What a copy-on-write fault does: the page changes its frame or becomes
\* writable, or nothing happens; it was writable from the start.
LEMMA FaultFacts ==
  ASSUME TypeOK, FaultCopies \/ FaultUpgrades
  PROVE  /\ req.vpn \in Vpn
         /\ pt[current][req.vpn] \in Pte
         /\ pt[current][req.vpn].rw = READ
         /\ pt[current][req.vpn].private = READWRITE
         /\ UNCHANGED <<print_tlb_result, forked, processes, current, tlb, pdes>>
         /\ \/ UNCHANGED pt
            \/ \E f \in Pfn :
                 pt' = [pt EXCEPT ![current] = [pt[current] EXCEPT ![req.vpn] =
                          [rw |-> READWRITE, pfn |-> f, private |-> READWRITE]]]
<1>0. FaultHandled
  BY DEF FaultCopies, FaultUpgrades
<1>1. /\ req.vpn \in Vpn
      /\ pt[current][req.vpn] \in Pte
      /\ pt[current][req.vpn].rw = READ
      /\ pt[current][req.vpn].private = READWRITE
      /\ UNCHANGED <<print_tlb_result, forked, processes, current, tlb>>
  BY <1>0, CopyOnWriteFacts DEF FaultHandled, CopyOnWrite
<1>2. CASE FaultCopies
  <2> DEFINE counts == [mapcounts EXCEPT ![Frame] = mapcounts[Frame] - 1]
  <2>1. counts \in [Pfn -> 0 .. UINT_MAX] /\ AllocPage(counts, req.vpn, READWRITE)
    BY <1>0, <1>2, CopyOnWriteFacts, UncountedType DEF FaultCopies
  <2> HIDE DEF counts
  <2>2. UNCHANGED <<pt, pdes>> \/ Maps(req.vpn, READWRITE)
    BY <1>1, <2>1, AllocPageFacts
  <2>3. pdes[current] \cup {PdIndex(req.vpn)} = pdes[current]
    BY <1>0, CopyOnWriteFacts
  <2>4. UNCHANGED pdes
    <3>1. CASE Maps(req.vpn, READWRITE)
      <4>1. pdes' = [pdes EXCEPT ![current] = pdes[current]]
        BY <2>3, <3>1 DEF Maps
      <4>2. pdes = [h \in Process |-> pdes[h]]
        BY DEF TypeOK
      <4> QED BY <4>1, <4>2
    <3> QED BY <2>2, <3>1
  <2> QED BY <1>1, <2>2, <2>4 DEF Maps
<1>3. CASE FaultUpgrades
  <2>1. Frame \in Pfn
    BY <1>0, CopyOnWriteFacts
  <2> QED BY <1>1, <1>3, <2>1, FaultUpgradesFacts
<1> QED BY <1>2, <1>3

-----------------------------------------------------------------------------
(* Page tables *)

LEMMA MemoryInit == Init => MemoryInv
<1> SUFFICES ASSUME Init PROVE MemoryInv
  OBVIOUS
<1>1. TypeOK
  BY TypeInit
<1>2. \A h \in Process, vpn \in Vpn : pt[h][vpn] = NULL
  BY DEF Init
<1>3. current = 1 /\ forked = 1 /\ DOMAIN processes = {}
  BY DEF Init
<1> QED BY <1>1, <1>2, <1>3 DEF MemoryInv, InDirectory, OnlyForked, ReadOnlyStaysSo

LEMMA ForkMemory ==
  ASSUME MemoryInv, NEW p \in Pid, Fork(p)
  PROVE  (InDirectory /\ OnlyForked /\ ReadOnlyStaysSo)'
<1> USE DEF MemoryInv
<1> DEFINE child == forked + 1
<1>0. /\ child \in Process /\ child # current /\ forked \in Nat
      /\ current \in Process
      /\ pt[current] \in [Vpn -> Pte \cup {NULL}]
  <2>1. child \in Process
    BY ForkFacts
  <2>2. forked \in Nat /\ current \in 1 .. forked
    BY DEF TypeOK, OnlyForked, Process
  <2>3. current \in Process /\ pt[current] \in [Vpn -> Pte \cup {NULL}]
    BY DEF TypeOK
  <2> QED BY <2>1, <2>2, <2>3
<1>1. /\ forked' = child /\ current' = child
      /\ pdes' = [pdes EXCEPT ![child] = pdes[current]]
      /\ \A h \in Process :
           pt'[h] = IF h \in {current, child}
                    THEN CopyOnWriteTable(pt[current]) ELSE pt[h]
      /\ processes' = Append(processes, current)
  BY ForkFacts
<1> HIDE DEF child
<1>2. ASSUME NEW h \in Process, NEW vpn \in Vpn, pt'[h][vpn] # NULL
      PROVE  PdIndex(vpn) \in pdes'[h] /\ pt'[h][vpn].rw = READWRITE
                => /\ PdIndex(vpn) \in pdes'[h]
                   /\ pt'[h][vpn].private = READWRITE
  <2>1. CASE h \in {current, child}
    <3>1. pt[current][vpn] # NULL /\ pt'[h][vpn].rw = READ
      BY <1>0, <1>1, <1>2, <2>1, CopyOnWriteTableFacts
    <3> QED BY <3>1 DEF READ, READWRITE
  <2>2. CASE h \notin {current, child}
    BY <1>1, <1>2, <2>2 DEF ReadOnlyStaysSo
  <2> QED BY <2>1, <2>2
<1>3. ASSUME NEW h \in Process, NEW vpn \in Vpn, pt'[h][vpn] # NULL
      PROVE  PdIndex(vpn) \in pdes'[h]
  <2>1. CASE h \in {current, child}
    <3>1. pt[current][vpn] # NULL
      BY <1>0, <1>1, <1>3, <2>1, CopyOnWriteTableFacts
    <3>2. PdIndex(vpn) \in pdes[current]
      BY <1>0, <3>1 DEF InDirectory
    <3> QED BY <1>0, <1>1, <2>1, <3>2 DEF TypeOK
  <2>2. CASE h \notin {current, child}
    BY <1>0, <1>1, <1>3, <2>2 DEF InDirectory, TypeOK
  <2> QED BY <2>1, <2>2
<1>4. ReadOnlyStaysSo'
  BY <1>2, <1>3 DEF ReadOnlyStaysSo
<1>5. InDirectory'
  BY <1>3 DEF InDirectory
<1>6. ASSUME NEW i \in DOMAIN Append(processes, current)
      PROVE  Append(processes, current)[i] \in 1 .. forked
  <2>1. \/ i \in DOMAIN processes /\ Append(processes, current)[i] = processes[i]
        \/ Append(processes, current)[i] = current
    BY AppendEntries DEF TypeOK
  <2> QED BY <2>1 DEF OnlyForked
<1>7. 1 .. forked \subseteq 1 .. child /\ child \in 1 .. child
  BY <1>0 DEF child
<1>8. OnlyForked'
  BY <1>1, <1>6, <1>7 DEF OnlyForked
<1> QED BY <1>4, <1>5, <1>8

LEMMA MemoryStep ==
  ASSUME MemoryInv, [PNext]_pvars
  PROVE  MemoryInv'
<1> USE DEF MemoryInv
<1>0. TypeOK'
  BY TypeStep
<1>1. ASSUME NEW vpn \in Vpn, NEW rw \in {READ, READWRITE}, Alloc(vpn, rw)
      PROVE  (InDirectory /\ OnlyForked /\ ReadOnlyStaysSo)'
  <2>1. OnlyForked'
    BY <1>1, AllocFacts DEF OnlyForked
  <2>2. CASE UNCHANGED <<pt, pdes>>
    BY <2>1, <2>2 DEF InDirectory, ReadOnlyStaysSo
  <2>3. ASSUME Maps(vpn, rw)
        PROVE  (InDirectory /\ ReadOnlyStaysSo)'
    <3>1. InDirectory'
      BY <2>3 DEF Maps, InDirectory, TypeOK
    <3>2. ReadOnlyStaysSo'
      BY <2>3 DEF Maps, ReadOnlyStaysSo, TypeOK
    <3> QED BY <3>1, <3>2
  <2> QED BY <1>1, <2>1, <2>2, <2>3, AllocFacts
<1>2. ASSUME NEW vpn \in Vpn, Free(vpn)
      PROVE  (InDirectory /\ OnlyForked /\ ReadOnlyStaysSo)'
  <2>1. UNCHANGED <<forked, processes, current, pdes>>
    BY <1>2, FreeFacts
  <2>2. \A h \in Process, v \in Vpn : pt'[h][v] # NULL => pt'[h][v] = pt[h][v]
    <3>1. CASE UNCHANGED pt
      BY <3>1
    <3>2. CASE pt' = [pt EXCEPT ![current] = [pt[current] EXCEPT ![vpn] = NULL]]
      BY <3>2 DEF TypeOK
    <3> QED BY <1>2, <3>1, <3>2, FreeFacts
  <2> QED BY <2>1, <2>2 DEF InDirectory, OnlyForked, ReadOnlyStaysSo
<1>3. ASSUME Hit
      PROVE  (InDirectory /\ OnlyForked /\ ReadOnlyStaysSo)'
  BY <1>3, HitFacts DEF InDirectory, OnlyForked, ReadOnlyStaysSo
<1>4. ASSUME FaultCopies \/ FaultUpgrades
      PROVE  (InDirectory /\ OnlyForked /\ ReadOnlyStaysSo)'
  <2>1. /\ req.vpn \in Vpn /\ pt[current][req.vpn] # NULL
        /\ UNCHANGED <<forked, processes, current, pdes>>
    BY <1>4, FaultFacts, NullAssumption
  <2>2. CASE UNCHANGED pt
    BY <2>1, <2>2 DEF InDirectory, OnlyForked, ReadOnlyStaysSo
  <2>3. ASSUME NEW f \in Pfn,
               pt' = [pt EXCEPT ![current] = [pt[current] EXCEPT ![req.vpn] =
                        [rw |-> READWRITE, pfn |-> f, private |-> READWRITE]]]
        PROVE  (InDirectory /\ OnlyForked /\ ReadOnlyStaysSo)'
    <3>1. InDirectory'
      BY <2>1, <2>3 DEF InDirectory, TypeOK
    <3>2. ReadOnlyStaysSo'
      BY <2>1, <2>3 DEF ReadOnlyStaysSo, TypeOK
    <3> QED BY <2>1, <3>1, <3>2 DEF OnlyForked
  <2> QED BY <1>4, <2>2, <2>3, FaultFacts
<1>5. ASSUME NEW p \in Pid, SwitchTo(p)
      PROVE  (InDirectory /\ OnlyForked /\ ReadOnlyStaysSo)'
  <2>1. PICK i \in DOMAIN processes :
          current' = processes[i] /\ processes' = RemoveAt(processes, i)
    BY <1>5, SwitchFacts
  <2>2. UNCHANGED <<forked, pdes, pt>>
    BY <1>5, SwitchFacts
  <2>3. \A j \in DOMAIN RemoveAt(processes, i) :
          RemoveAt(processes, i)[j] \in 1 .. forked
    BY RemoveAtMembers DEF TypeOK, OnlyForked
  <2>4. OnlyForked'
    BY <2>1, <2>2, <2>3 DEF OnlyForked
  <2> QED BY <2>2, <2>4 DEF InDirectory, ReadOnlyStaysSo
<1>6. ASSUME NEW p \in Pid, Fork(p)
      PROVE  (InDirectory /\ OnlyForked /\ ReadOnlyStaysSo)'
  BY <1>6, ForkMemory
<1>7. ASSUME UNCHANGED <<print_tlb_result, system, memory, tlb>>
      PROVE  (InDirectory /\ OnlyForked /\ ReadOnlyStaysSo)'
  BY <1>7 DEF system, memory, InDirectory, OnlyForked, ReadOnlyStaysSo
<1> QED BY <1>0, <1>1, <1>2, <1>3, <1>4, <1>5, <1>6, <1>7, Steps, QuietFacts

LEMMA MemoryCorrect == PSpec => []MemoryInv
<1>1. PInit => MemoryInv
  BY MemoryInit DEF PInit
<1>2. MemoryInv /\ [PNext]_pvars => MemoryInv'
  BY MemoryStep
<1> QED BY <1>1, <1>2, PTL DEF PSpec

\* However often it is inherited and whoever faults on it, a page that was
\* allocated for reading never becomes writable.
THEOREM ReadOnlyNeverWritable == PSpec => []ReadOnlyStaysSo
BY MemoryCorrect, PTL DEF MemoryInv

-----------------------------------------------------------------------------
(* The TLB *)

\* TlbInv, of a TLB t and a page table.
Fits(t, table) ==
  \A i \in Slot : t[i] # NULL =>
    /\ i < NR_PAGEFRAMES
    /\ t[i].rw = READWRITE =>
         /\ table[t[i].vpn] # NULL
         /\ table[t[i].vpn].pfn = t[i].pfn
         /\ table[t[i].vpn].rw >= t[i].rw
         /\ \A j \in Slot : t[j] # NULL /\ t[j].vpn = t[i].vpn => i <= j

LEMMA TlbInvFits == TlbInv <=> Fits(tlb, pt[current])
BY DEF TlbInv, NoStaleWrite, Agrees, Fits

LEMMA TlbInvFitsNext == TlbInv' <=> Fits(tlb', pt'[current'])
BY DEF TlbInv, NoStaleWrite, Agrees, Fits

\* An entry is inserted only when none permits the access: the new one cannot
\* come before an older one that permits writes.
LEMMA RefilledFits ==
  ASSUME TypeOK, NEW vpn \in Vpn, NEW rw \in {READ, WRITE, READWRITE},
         Fits(tlb, pt[current])
  PROVE  Fits(Refilled(rw, vpn), pt[current])
<1>1. CASE ~(print_tlb_result /\ Hits(rw, vpn) = {} /\ Walk(rw, vpn) # {})
  BY <1>1 DEF Refilled
<1>2. CASE print_tlb_result /\ Hits(rw, vpn) = {} /\ Walk(rw, vpn) # {}
  <2> DEFINE table == pt[current]
             new   == [vpn |-> vpn, rw |-> table[vpn].rw, pfn |-> table[vpn].pfn]
             t     == Refilled(rw, vpn)
  <2>1. /\ table[vpn] \in Pte
        /\ pt[ptbr][vpn] = table[vpn]
    BY <1>2, WalkFacts
  <2>2. t = [i \in Slot |-> IF i \in Least(SlotsFor(vpn)) THEN new ELSE tlb[i]]
    BY <1>2, <2>1 DEF Refilled, Inserted
  <2>3. new # NULL /\ new.vpn = vpn /\ new.rw = table[vpn].rw /\ new.pfn = table[vpn].pfn
    <3>1. new \in TlbEntry
      BY <2>1 DEF Pte, TlbEntry
    <3> QED BY <3>1, NullAssumption
  <2>4. table[vpn] # NULL /\ table[vpn].rw \in Nat
    BY <2>1, NullAssumption DEF Pte, READ, READWRITE
  <2>5. \A i \in Slot : tlb[i] # NULL /\ tlb[i].vpn = vpn => tlb[i].rw # READWRITE
    BY <1>2 DEF Hits, Entries, READ, WRITE, READWRITE
  <2>6. \A i \in Slot : tlb[i] # NULL /\ tlb[i].vpn = vpn => i \in SlotsFor(vpn)
    BY VmAssumption DEF Fits, SlotsFor, Slot
  <2>7. \A i \in Least(SlotsFor(vpn)) :
          i < NR_PAGEFRAMES /\ \A j \in SlotsFor(vpn) : i <= j
    BY VmAssumption DEF Least, SlotsFor
  <2> HIDE DEF table, new, t
  <2>8. ASSUME NEW i \in Slot, t[i] # NULL
        PROVE  /\ i < NR_PAGEFRAMES
               /\ t[i].rw = READWRITE =>
                    /\ table[t[i].vpn] # NULL
                    /\ table[t[i].vpn].pfn = t[i].pfn
                    /\ table[t[i].vpn].rw >= t[i].rw
                    /\ \A j \in Slot : t[j] # NULL /\ t[j].vpn = t[i].vpn => i <= j
    <3>1. CASE i \in Least(SlotsFor(vpn))
      <4>1. t[i] = new
        BY <2>2, <3>1
      <4>2. ASSUME NEW j \in Slot, t[j] # NULL, t[j].vpn = vpn
            PROVE  i <= j
        <5>1. CASE j \in Least(SlotsFor(vpn))
          BY <3>1, <5>1 DEF Least
        <5>2. CASE j \notin Least(SlotsFor(vpn))
          <6>1. t[j] = tlb[j]
            BY <2>2, <5>2
          <6> QED BY <2>6, <2>7, <3>1, <4>2, <6>1
        <5> QED BY <5>1, <5>2
      <4>3. table[vpn].rw >= table[vpn].rw
        BY <2>4
      <4> QED BY <2>3, <2>4, <2>7, <3>1, <4>1, <4>2, <4>3
    <3>2. CASE i \notin Least(SlotsFor(vpn))
      <4>1. t[i] = tlb[i]
        BY <2>2, <3>2
      <4>2. i < NR_PAGEFRAMES
        BY <2>8, <4>1 DEF Fits
      <4>3. ASSUME t[i].rw = READWRITE
            PROVE  /\ table[t[i].vpn] # NULL
                   /\ table[t[i].vpn].pfn = t[i].pfn
                   /\ table[t[i].vpn].rw >= t[i].rw
        BY <2>8, <4>1, <4>3 DEF Fits, table
      <4>4. ASSUME t[i].rw = READWRITE, NEW j \in Slot,
                   t[j] # NULL, t[j].vpn = t[i].vpn
            PROVE  i <= j
        <5>1. t[i].vpn # vpn
          BY <2>5, <2>8, <4>1, <4>4
        <5>2. t[j] = tlb[j]
          BY <2>2, <2>3, <4>4, <5>1
        <5> QED BY <2>8, <4>1, <4>4, <5>2 DEF Fits
      <4> QED BY <4>2, <4>3, <4>4
    <3> QED BY <3>1, <3>2
  <2>9. Fits(t, table)
    BY <2>8 DEF Fits
  <2> QED BY <2>9 DEF t, table
<1> QED BY <1>1, <1>2

\* free_page() removes the first entry for the page: none that permits writes
\* is left.
LEMMA ForgottenFits ==
  ASSUME NEW t, NEW table \in [Vpn -> Pte \cup {NULL}], NEW vpn \in Vpn,
         t \in [Slot -> SlotType], Fits(t, table)
  PROVE  Fits(Forgotten(t, vpn), [table EXCEPT ![vpn] = NULL])
<1> DEFINE found == {i \in Slot : t[i] # NULL /\ t[i].vpn = vpn}
           u     == Forgotten(t, vpn)
<1>1. u = [i \in Slot |-> IF i \in Least(found) THEN NULL ELSE t[i]]
  BY DEF Forgotten
<1>2. \A i \in Slot : u[i] # NULL => i \notin Least(found) /\ u[i] = t[i]
  BY <1>1
<1>3. ASSUME NEW i \in Slot, u[i] # NULL, u[i].rw = READWRITE
      PROVE  u[i].vpn # vpn
  <2>1. i \notin Least(found) /\ u[i] = t[i]
    BY <1>2, <1>3
  <2>2. SUFFICES ASSUME t[i].vpn = vpn PROVE FALSE
    BY <2>1
  <2>3. \A j \in Slot : t[j] # NULL /\ t[j].vpn = vpn => i <= j
    BY <1>3, <2>1, <2>2 DEF Fits
  <2>4. i \in Least(found)
    BY <1>3, <2>1, <2>2, <2>3 DEF Least
  <2> QED BY <2>1, <2>4
<1> HIDE DEF u
<1>4. \A i \in Slot : u[i] # NULL => u[i].vpn \in Vpn
  BY <1>2 DEF SlotType, TlbEntry
<1> DEFINE after == [table EXCEPT ![vpn] = NULL]
<1>5. \A i \in Slot : u[i] # NULL /\ u[i].rw = READWRITE =>
        after[u[i].vpn] = table[u[i].vpn]
  BY <1>3, <1>4
<1> HIDE DEF after
<1>6. ASSUME NEW i \in Slot, u[i] # NULL
      PROVE  /\ i < NR_PAGEFRAMES
             /\ u[i].rw = READWRITE =>
                  /\ after[u[i].vpn] # NULL
                  /\ after[u[i].vpn].pfn = u[i].pfn
                  /\ after[u[i].vpn].rw >= u[i].rw
                  /\ \A j \in Slot : u[j] # NULL /\ u[j].vpn = u[i].vpn => i <= j
  <2>1. u[i] = t[i] /\ \A j \in Slot : u[j] # NULL => u[j] = t[j]
    BY <1>2, <1>6
  <2> QED BY <1>5, <1>6, <2>1 DEF Fits
<1>7. Fits(u, after)
  BY <1>6 DEF Fits
<1> QED BY <1>7 DEF u, after

\* A switch leaves no entry.
LEMMA FlushedFits ==
  ASSUME TypeOK, Fits(tlb, pt[current]), NEW table
  PROVE  Fits([i \in Slot |-> IF i < NR_PAGEFRAMES THEN NULL ELSE tlb[i]], table)
BY DEF Fits

\* The TLB fits a page table that differs in a page it permits no writes to.
LEMMA UpdatedFits ==
  ASSUME TypeOK, Fits(tlb, pt[current]), NEW vpn \in Vpn, NEW pte,
         pt[current][vpn] = NULL \/ pt[current][vpn].rw = READ
  PROVE  Fits(tlb, [pt[current] EXCEPT ![vpn] = pte])
<1> DEFINE table == pt[current]
           u     == [table EXCEPT ![vpn] = pte]
<1>1. ASSUME NEW i \in Slot, tlb[i] # NULL, tlb[i].rw = READWRITE
      PROVE  u[tlb[i].vpn] = table[tlb[i].vpn]
  <2>1. tlb[i].vpn # vpn
    BY <1>1 DEF Fits, READ, READWRITE
  <2> QED BY <2>1, <1>1 DEF TypeOK, TlbEntry
<1> HIDE DEF u
<1>2. Fits(tlb, u)
  BY <1>1 DEF Fits
<1> QED BY <1>2 DEF u

LEMMA TlbStep ==
  ASSUME MemoryInv, TlbInv, [PNext]_pvars
  PROVE  TlbInv'
<1> USE DEF MemoryInv
<1> SUFFICES Fits(tlb', pt'[current'])
  BY TlbInvFitsNext
<1>0. Fits(tlb, pt[current]) /\ pt[current] \in [Vpn -> Pte \cup {NULL}]
  BY TlbInvFits DEF TypeOK
<1>1. ASSUME NEW vpn \in Vpn, NEW rw \in {READ, READWRITE}, Alloc(vpn, rw)
      PROVE  Fits(tlb', pt'[current'])
  <2>1. CASE UNCHANGED <<pt, current>> /\ tlb' = Refilled(READ, vpn)
    BY <1>0, <2>1, RefilledFits
  <2>2. CASE /\ pt[current][vpn] = NULL
             /\ tlb' = tlb /\ current' = current
             /\ Maps(vpn, rw)
    <3>1. PICK f \in Pfn :
            pt' = [pt EXCEPT ![current] = [pt[current] EXCEPT ![vpn] =
                     [rw |-> rw, pfn |-> f, private |-> rw]]]
      BY <2>2 DEF Maps
    <3>2. pt'[current'] = [pt[current] EXCEPT ![vpn] =
                             [rw |-> rw, pfn |-> f, private |-> rw]]
      BY <2>2, <3>1 DEF TypeOK
    <3> QED BY <1>0, <2>2, <3>2, UpdatedFits
  <2> QED BY <1>1, <2>1, <2>2, AllocFacts
<1>2. ASSUME NEW vpn \in Vpn, Free(vpn)
      PROVE  Fits(tlb', pt'[current'])
  <2>1. /\ Fits(Refilled(READ, vpn), pt[current])
        /\ Refilled(READ, vpn) \in [Slot -> SlotType]
    BY <1>0, RefilledFits, RefilledType
  <2>2. CASE pt[current][vpn] = NULL
    <3>1. tlb' = Refilled(READ, vpn) /\ UNCHANGED <<pt, current>>
      BY <1>2, <2>2, FreeFacts DEF Free
    <3> QED BY <2>1, <3>1
  <2>3. CASE pt[current][vpn] # NULL
    <3>1. tlb' = Forgotten(Refilled(READ, vpn), vpn)
      BY <1>2, <2>3 DEF Free
    <3>2. pt'[current'] = [pt[current] EXCEPT ![vpn] = NULL]
      BY <1>2, <2>3, FreeFacts DEF TypeOK
    <3> QED BY <1>0, <2>1, <3>1, <3>2, ForgottenFits
  <2> QED BY <2>2, <2>3
<1>3. CASE Hit
  BY <1>0, <1>3, HitFacts, RefilledFits
<1>4. CASE FaultCopies \/ FaultUpgrades
  <2>1. /\ req.vpn \in Vpn /\ pt[current][req.vpn].rw = READ
        /\ UNCHANGED <<current, tlb>>
    BY <1>4, FaultFacts
  <2>2. CASE UNCHANGED pt
    BY <1>0, <2>1, <2>2
  <2>3. ASSUME NEW f \in Pfn,
               pt' = [pt EXCEPT ![current] = [pt[current] EXCEPT ![req.vpn] =
                        [rw |-> READWRITE, pfn |-> f, private |-> READWRITE]]]
        PROVE  Fits(tlb', pt'[current'])
    <3>1. pt'[current'] = [pt[current] EXCEPT ![req.vpn] =
                             [rw |-> READWRITE, pfn |-> f, private |-> READWRITE]]
      BY <2>1, <2>3 DEF TypeOK
    <3> QED BY <1>0, <2>1, <3>1, UpdatedFits
  <2> QED BY <1>4, <2>2, <2>3, FaultFacts
<1>5. ASSUME NEW p \in Pid, SwitchTo(p) \/ Fork(p)
      PROVE  Fits(tlb', pt'[current'])
  BY <1>0, <1>5, SwitchFacts, ForkFacts, FlushedFits
<1>6. ASSUME UNCHANGED <<print_tlb_result, system, memory, tlb>>
      PROVE  Fits(tlb', pt'[current'])
  BY <1>0, <1>6 DEF system, memory
<1> QED BY <1>1, <1>2, <1>3, <1>4, <1>5, <1>6, Steps, QuietFacts

LEMMA TlbCorrect == PSpec => [](MemoryInv /\ TlbInv)
<1>1. PInit => MemoryInv /\ TlbInv
  BY MemoryInit DEF PInit, TlbInv, NoStaleWrite, Init
<1>2. MemoryInv /\ TlbInv /\ [PNext]_pvars => (MemoryInv /\ TlbInv)'
  BY MemoryStep, TlbStep
<1> QED BY <1>1, <1>2, PTL DEF PSpec

\* No entry of the TLB permits a write that the page table of the running
\* process does not permit in the same frame, at any point of any sequence of
\* allocs, frees, accesses, faults, forks and switches.
THEOREM TlbNeverPermitsStaleWrites == PSpec => []NoStaleWrite
BY TlbCorrect, PTL DEF TlbInv

-----------------------------------------------------------------------------
(* The address spaces *)

\* What a process sees of a page table entry.
Seen(pte) == IF pte = NULL THEN NULL ELSE pte.private

\* A change of one entry of the current process, as a change of its space.
LEMMA SpaceUpdate ==
  ASSUME TypeOK, NEW vpn \in Vpn, NEW pte,
         pt' = [pt EXCEPT ![current] = [pt[current] EXCEPT ![vpn] = pte]]
  PROVE  space' = [space EXCEPT ![current][vpn] = Seen(pte)]
<1>1. current \in Process
  BY DEF TypeOK
<1> DEFINE after == [space EXCEPT ![current][vpn] = Seen(pte)]
<1>2. \A h \in Process, v \in Vpn : pt'[h][v] = IF h = current /\ v = vpn THEN pte ELSE pt[h][v]
  BY DEF TypeOK
<1>3. \A h \in Process, v \in Vpn : space'[h][v] = Seen(pt'[h][v])
  BY DEF space, Seen
<1>4. \A h \in Process, v \in Vpn : space[h][v] = Seen(pt[h][v])
  BY DEF space, Seen
<1>5. /\ DOMAIN space = Process /\ \A h \in Process : DOMAIN space[h] = Vpn
      /\ DOMAIN space' = Process /\ \A h \in Process : DOMAIN space'[h] = Vpn
      /\ \A h \in Process : space[h] = [v \in Vpn |-> space[h][v]]
      /\ \A h \in Process : space'[h] = [v \in Vpn |-> space'[h][v]]
      /\ space = [h \in Process |-> space[h]]
      /\ space' = [h \in Process |-> space'[h]]
  BY DEF space
<1> HIDE DEF after
<1>6. ASSUME NEW h \in Process
      PROVE  space'[h] = IF h = current THEN [space[h] EXCEPT ![vpn] = Seen(pte)]
                                        ELSE space[h]
  BY <1>2, <1>3, <1>4, <1>5
<1> QED BY <1>1, <1>5, <1>6

LEMMA SpaceUnchanged == UNCHANGED pt => UNCHANGED space
BY DEF space

LEMMA SpaceFork ==
  ASSUME MemoryInv, NEW p \in Pid, Fork(p)
  PROVE  Space!Fork
<1> USE DEF MemoryInv
<1>1. /\ forked + 1 \in Process /\ forked' = forked + 1 /\ current' = forked + 1
      /\ \A h \in Process :
           pt'[h] = IF h \in {current, forked + 1}
                    THEN CopyOnWriteTable(pt[current]) ELSE pt[h]
  BY ForkFacts
<1>2. current \in Process /\ pt[current] \in [Vpn -> Pte \cup {NULL}]
  BY DEF TypeOK
<1>3. ASSUME NEW h \in Process
      PROVE  space'[h] = IF h = forked + 1 THEN space[current] ELSE space[h]
  <2>1. space'[h] = [v \in Vpn |-> Seen(pt'[h][v])]
    BY DEF space, Seen
  <2>2. \A g \in Process : space[g] = [v \in Vpn |-> Seen(pt[g][v])]
    BY DEF space, Seen
  <2>3. CASE h \in {current, forked + 1}
    <3>1. pt'[h] = CopyOnWriteTable(pt[current])
      BY <1>1, <2>3
    <3>2. \A v \in Vpn : Seen(pt'[h][v]) = Seen(pt[current][v])
      BY <1>2, <3>1, CopyOnWriteTableFacts DEF Seen
    <3>3. space'[h] = space[current]
      BY <1>2, <2>1, <2>2, <3>2
    <3> QED BY <2>3, <3>3
  <2>4. CASE h \notin {current, forked + 1}
    BY <1>1, <2>1, <2>2, <2>4
  <2> QED BY <2>3, <2>4
<1>4. /\ DOMAIN space' = Process /\ DOMAIN space = Process
      /\ space' = [h \in Process |-> space'[h]]
  BY DEF space
<1>5. space' = [space EXCEPT ![forked'] = space[current]]
  BY <1>1, <1>3, <1>4
<1> QED BY <1>1, <1>5 DEF Space!Fork

LEMMA SpaceInit == Init => Space!Init
<1> SUFFICES ASSUME Init PROVE Space!Init
  OBVIOUS
<1>1. \A h \in Process, v \in Vpn : pt[h][v] = NULL
  BY DEF Init
<1>2. space = [h \in Process |-> [v \in Vpn |-> NULL]]
  BY <1>1 DEF space
<1> QED BY <1>2 DEF Init, Space!Init

LEMMA SpaceStep ==
  ASSUME MemoryInv, [PNext]_pvars
  PROVE  [Space!Next]_(Space!svars)
<1> USE DEF MemoryInv
<1>0. /\ current \in Process
      /\ \A v \in Vpn : space[current][v] = Seen(pt[current][v])
  BY DEF TypeOK, space, Seen
<1>1. ASSUME NEW vpn \in Vpn, NEW rw \in {READ, READWRITE}, Alloc(vpn, rw)
      PROVE  [Space!Next]_(Space!svars)
  <2>1. UNCHANGED <<forked, current>>
    BY <1>1, AllocFacts
  <2>2. CASE UNCHANGED <<pt, pdes>>
    BY <2>1, <2>2, SpaceUnchanged DEF Space!svars
  <2>3. CASE pt[current][vpn] = NULL /\ Maps(vpn, rw)
    <3>1. PICK f \in Pfn :
            pt' = [pt EXCEPT ![current] = [pt[current] EXCEPT ![vpn] =
                     [rw |-> rw, pfn |-> f, private |-> rw]]]
      BY <2>3 DEF Maps
    <3> DEFINE pte == [rw |-> rw, pfn |-> f, private |-> rw]
    <3>2. Seen(pte) = rw
      <4>1. pte \in Pte
        BY DEF Pte
      <4> QED BY <4>1, NullAssumption DEF Seen
    <3>3. pt' = [pt EXCEPT ![current] = [pt[current] EXCEPT ![vpn] = pte]]
      BY <3>1
    <3> HIDE DEF pte
    <3>4. space' = [space EXCEPT ![current][vpn] = Seen(pte)]
      BY <3>3, SpaceUpdate
    <3>5. space[current][vpn] = NULL
      BY <1>0, <2>3 DEF Seen
    <3>6. Space!Alloc(vpn, rw)
      BY <2>1, <3>2, <3>4, <3>5 DEF Space!Alloc
    <3> QED BY <3>6 DEF Space!Next
  <2> QED BY <1>1, <2>2, <2>3, AllocFacts
<1>2. ASSUME NEW vpn \in Vpn, Free(vpn)
      PROVE  [Space!Next]_(Space!svars)
  <2>1. UNCHANGED <<forked, current>>
    BY <1>2, FreeFacts
  <2>2. CASE UNCHANGED pt
    BY <2>1, <2>2, SpaceUnchanged DEF Space!svars
  <2>3. CASE /\ pt[current][vpn] # NULL
             /\ pt' = [pt EXCEPT ![current] = [pt[current] EXCEPT ![vpn] = NULL]]
    <3>1. space' = [space EXCEPT ![current][vpn] = Seen(NULL)]
      BY <2>3, SpaceUpdate
    <3>2. Seen(pt[current][vpn]) # NULL
      <4>1. pt[current][vpn] \in Pte
        BY <2>3 DEF TypeOK
      <4>2. pt[current][vpn].private \in Nat
        BY <4>1 DEF Pte, READ, READWRITE
      <4> QED BY <2>3, <4>2, NullAssumption DEF Seen
    <3>3. Space!Free(vpn)
      BY <1>0, <2>1, <3>1, <3>2 DEF Space!Free, Seen
    <3> QED BY <3>3 DEF Space!Next
  <2> QED BY <1>2, <2>2, <2>3, FreeFacts
<1>3. CASE Hit
  BY <1>3, HitFacts, SpaceUnchanged DEF Space!svars
<1>4. ASSUME FaultCopies \/ FaultUpgrades
      PROVE  [Space!Next]_(Space!svars)
  <2>1. /\ req.vpn \in Vpn
        /\ pt[current][req.vpn] \in Pte
        /\ pt[current][req.vpn].private = READWRITE
        /\ UNCHANGED <<forked, current>>
    BY <1>4, FaultFacts
  <2>2. CASE UNCHANGED pt
    BY <2>1, <2>2, SpaceUnchanged DEF Space!svars
  <2>3. ASSUME NEW f \in Pfn,
               pt' = [pt EXCEPT ![current] = [pt[current] EXCEPT ![req.vpn] =
                        [rw |-> READWRITE, pfn |-> f, private |-> READWRITE]]]
        PROVE  [Space!Next]_(Space!svars)
    <3> DEFINE pte == [rw |-> READWRITE, pfn |-> f, private |-> READWRITE]
    <3>1. pte # NULL /\ pte.private = READWRITE
      <4>1. pte \in Pte
        BY DEF Pte
      <4> QED BY <4>1, NullAssumption
    <3>2. pt' = [pt EXCEPT ![current] = [pt[current] EXCEPT ![req.vpn] = pte]]
      BY <2>3
    <3> HIDE DEF pte
    <3>3. space' = [space EXCEPT ![current][req.vpn] = Seen(pte)]
      BY <2>1, <3>2, SpaceUpdate
    <3>4. Seen(pte) = space[current][req.vpn]
      BY <1>0, <2>1, <3>1, NullAssumption DEF Seen
    <3>5. space = [space EXCEPT ![current][req.vpn] = space[current][req.vpn]]
      BY <1>0, <2>1 DEF space
    <3> QED BY <2>1, <3>3, <3>4, <3>5 DEF Space!svars
  <2> QED BY <1>4, <2>2, <2>3, FaultFacts
<1>5. ASSUME NEW p \in Pid, SwitchTo(p)
      PROVE  [Space!Next]_(Space!svars)
  <2>1. PICK i \in DOMAIN processes : current' = processes[i]
    BY <1>5, SwitchFacts
  <2>2. current' \in 1 .. forked
    BY <2>1 DEF OnlyForked
  <2>3. UNCHANGED <<forked, space>>
    BY <1>5, SwitchFacts, SpaceUnchanged
  <2> QED BY <2>2, <2>3 DEF Space!Switch, Space!Next
<1>6. ASSUME NEW p \in Pid, Fork(p)
      PROVE  [Space!Next]_(Space!svars)
  BY <1>6, SpaceFork DEF Space!Next
<1>7. ASSUME UNCHANGED <<print_tlb_result, system, memory, tlb>>
      PROVE  [Space!Next]_(Space!svars)
  BY <1>7, SpaceUnchanged DEF system, memory, Space!svars
<1> QED BY <1>1, <1>2, <1>3, <1>4, <1>5, <1>6, <1>7, Steps, QuietFacts

\* Whatever the frames, the faults, the TLB and the sharing do, a process has
\* exactly the pages that it allocated or inherited and has not freed, for what
\* they were allocated for.
THEOREM SimulatorImplementsSpaces == PSpec => ImplementsSpace
<1>1. PInit => Space!Init
  BY SpaceInit DEF PInit
<1>2. MemoryInv /\ [PNext]_pvars => [Space!Next]_(Space!svars)
  BY SpaceStep
<1> QED BY <1>1, <1>2, MemoryCorrect, PTL DEF PSpec, ImplementsSpace, Space!Spec
=============================================================================
