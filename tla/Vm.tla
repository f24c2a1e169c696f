--------------------------------- MODULE Vm ---------------------------------
(***************************************************************************)
(* The virtual-memory simulator of OS-PA3: the commands and the fault-and- *)
(* retry loop of vm.c, and the page tables, frame counts, copy-on-write,   *)
(* TLB and process switch of pa3.c.                                        *)
(*                                                                         *)
(* The commands come from the prompt in any order.  A struct process is    *)
(* known by its number: 1 is init, the others in the order of the forks.   *)
(* Page tables hold NULL for an invalid PTE and the TLB holds NULL for an  *)
(* invalid entry, as no code looks at the rest of an invalid one.          *)
(***************************************************************************)
EXTENDS Integers, SequencesExt

CONSTANTS
  NR_PDES_PER_PAGE,  \* vm.h
  NR_PTES_PER_PAGE,
  NR_PAGEFRAMES,
  NR_TLB_ENTRIES,
  UINT_MAX,          \* what an unsigned counter holds after 0 - 1
  Pid,               \* the process ids the user types, 0 among them
  MaxProcesses,      \* bound on the number of forks
  TlbOptions,        \* whether option -t is given, a subset of BOOLEAN
  NULL

ASSUME VmAssumption ==
  /\ NR_PDES_PER_PAGE \in Nat \ {0}
  /\ NR_PTES_PER_PAGE \in Nat \ {0}
  /\ NR_PAGEFRAMES \in Nat \ {0}
  /\ NR_TLB_ENTRIES \in Nat
  /\ NR_PAGEFRAMES <= NR_TLB_ENTRIES
  /\ UINT_MAX \in Nat \ {0}
  /\ 0 \in Pid
  /\ MaxProcesses \in Nat \ {0}
  /\ TlbOptions \subseteq BOOLEAN

Vpn     == 0 .. NR_PDES_PER_PAGE * NR_PTES_PER_PAGE - 1
Pfn     == 0 .. NR_PAGEFRAMES - 1
Slot    == 0 .. NR_TLB_ENTRIES - 1
Process == 1 .. MaxProcesses

PdIndex(vpn) == vpn \div NR_PTES_PER_PAGE
Directory    == {PdIndex(vpn) : vpn \in Vpn}

READ      == 1
WRITE     == 2
READWRITE == 3

\* Valid entries.  __make_rwflag() always sets the read bit.
Pte      == [rw : {READ, READWRITE}, pfn : Pfn, private : {READ, READWRITE}]
TlbEntry == [vpn : Vpn, rw : {READ, READWRITE}, pfn : Pfn]

ASSUME NullAssumption == NULL \notin Pte \cup TlbEntry \cup Nat

VARIABLES
  print_tlb_result,  \* option -t, without which the TLB is not used
  forked,            \* number of struct process in existence
  pid,               \* process -> its pid
  pdes,              \* process -> the page directories it has
  pt,                \* process -> vpn -> PTE
  mapcounts,
  tlb,
  processes,         \* the list of processes that are not running
  current,
  ptbr,              \* the process whose page table is in use
  req,               \* the access under way: [vpn, rw]
  nr_retries,
  pc                 \* prompt, translate, fault, done or crashed

memory == <<pdes, pt, mapcounts>>
system == <<forked, pid, processes, current, ptbr>>
access == <<req, nr_retries>>
vars   == <<print_tlb_result, system, memory, tlb, access, pc>>

Least(I) == {i \in I : \A j \in I : i <= j}

Incremented(n) == IF n = UINT_MAX THEN 0 ELSE n + 1
Decremented(n) == IF n = 0 THEN UINT_MAX ELSE n - 1

-----------------------------------------------------------------------------
(* lookup_tlb(), insert_tlb() and __translate() *)

Entries(vpn) == {i \in Slot : tlb[i] # NULL /\ tlb[i].vpn = vpn}

\* The entries lookup_tlb() accepts; the first one is the answer.
Hits(rw, vpn) == {i \in Entries(vpn) : print_tlb_result /\ tlb[i].rw >= rw}

\* The PTEs that serve the access: none or one.
Walk(rw, vpn) ==
  {pte \in {pt[ptbr][vpn]} :
     /\ PdIndex(vpn) \in pdes[ptbr]
     /\ pte # NULL
     /\ rw \in {WRITE, READWRITE} => pte.rw = READWRITE}

Translates(rw, vpn) == Hits(rw, vpn) # {} \/ Walk(rw, vpn) # {}

\* Mutant: an existing entry is not updated.
SlotsEmpty(vpn) == {i \in 0 .. NR_PAGEFRAMES - 1 : tlb[i] = NULL}

\* insert_tlb() takes the first slot that holds vpn or nothing.
SlotsFor(vpn) ==
  {i \in 0 .. NR_PAGEFRAMES - 1 : tlb[i] = NULL \/ tlb[i].vpn = vpn}

Inserted(vpn, pte) ==
  [i \in Slot |-> IF i \in Least(SlotsFor(vpn))
                  THEN [vpn |-> vpn, rw |-> pte.rw, pfn |-> pte.pfn] ELSE tlb[i]]

\* The TLB after __translate().
Refilled(rw, vpn) ==
  IF print_tlb_result /\ Hits(rw, vpn) = {} /\ Walk(rw, vpn) # {}
  THEN Inserted(vpn, pt[ptbr][vpn]) ELSE tlb

-----------------------------------------------------------------------------
(* __alloc_page() and alloc_page() *)

FreeFrames(counts) == {f \in Pfn : counts[f] = 0}

\* alloc_page() by a caller that has left mapcounts at counts.
AllocPage(counts, vpn, rw) ==
  IF FreeFrames(counts) = {}
  THEN mapcounts' = counts /\ UNCHANGED <<pt, pdes>>
  ELSE \E f \in Least(FreeFrames(counts)) :
         /\ mapcounts' = [counts EXCEPT ![f] = Incremented(counts[f])]
         /\ pdes' = [pdes EXCEPT ![current] = pdes[current] \cup {PdIndex(vpn)}]
         /\ pt' = [pt EXCEPT ![current][vpn] =
                     [rw |-> rw, pfn |-> f, private |-> rw]]

\* An alloc that fails, because vpn is mapped or memory is full, ends the
\* simulation.
Alloc(vpn, rw) ==
  /\ pc = "prompt"
  /\ tlb' = Refilled(READ, vpn)
  /\ IF Translates(READ, vpn)
     THEN pc' = "done" /\ UNCHANGED memory
     ELSE /\ AllocPage(mapcounts, vpn, rw)
          /\ pc' = IF FreeFrames(mapcounts) = {} THEN "done" ELSE "prompt"
  /\ UNCHANGED <<print_tlb_result, system, access>>

-----------------------------------------------------------------------------
(* __free_page() and free_page() *)

\* The TLB t without its first entry for vpn.
Forgotten(t, vpn) ==
  LET found == {i \in Slot : t[i] # NULL /\ t[i].vpn = vpn}
  IN  [i \in Slot |-> IF i \in Least(found) THEN NULL ELSE t[i]]

\* A free of a page that does not translate changes nothing.
Free(vpn) ==
  /\ pc = "prompt"
  /\ Translates(READ, vpn)
  /\ IF pt[current][vpn] # NULL
     THEN LET pfn == pt[current][vpn].pfn IN
          /\ pt' = [pt EXCEPT ![current][vpn] = NULL]
          /\ mapcounts' = [mapcounts EXCEPT ![pfn] = Decremented(mapcounts[pfn])]
          /\ tlb' = Forgotten(Refilled(READ, vpn), vpn)
     ELSE UNCHANGED <<pt, mapcounts>> /\ tlb' = Refilled(READ, vpn)
  /\ UNCHANGED <<print_tlb_result, system, pdes, access, pc>>

-----------------------------------------------------------------------------
(* __access_memory() and handle_page_fault() *)

\* read is an access with READ, write one with WRITE, access r and access w
\* are READ and READWRITE.
Access(vpn, rw) ==
  /\ pc = "prompt"
  /\ req' = [vpn |-> vpn, rw |-> rw]
  /\ nr_retries' = 0
  /\ pc' = "translate"
  /\ UNCHANGED <<print_tlb_result, system, memory, tlb>>

\* __access_memory() returns, and its variables are gone.
Return == pc' = "prompt" /\ req' = NULL /\ nr_retries' = 0

Hit ==
  /\ pc = "translate"
  /\ Translates(req.rw, req.vpn)
  /\ tlb' = Refilled(req.rw, req.vpn)
  /\ Return
  /\ UNCHANGED <<print_tlb_result, system, memory>>

Miss ==
  /\ pc = "translate"
  /\ ~Translates(req.rw, req.vpn)
  /\ nr_retries' = nr_retries + 1
  /\ pc' = "fault"
  /\ UNCHANGED <<print_tlb_result, system, memory, tlb, req>>

\* The fault handler reads a PTE through a directory that is not there.
FaultCrashes ==
  /\ pc = "fault"
  /\ PdIndex(req.vpn) \notin pdes[current]
  /\ pc' = "crashed"
  /\ UNCHANGED <<print_tlb_result, system, memory, tlb, access>>

\* Mutant: read-only pages are not told from shared ones.
CopyOnWriteAny ==
  pt[current][req.vpn] # NULL /\ pt[current][req.vpn].rw = READ /\ req.rw > READ

\* Mutant: an access with both bits is not taken for a write.
CopyOnWriteExactly ==
  LET pte == pt[current][req.vpn] IN
  pte # NULL /\ pte.private # READ /\ pte.rw = READ /\ req.rw = WRITE

\* A write to a page that is writable but was shared by a fork.
CopyOnWrite ==
  LET pte == pt[current][req.vpn] IN
  /\ pte # NULL
  /\ pte.private # READ
  /\ pte.rw = READ
  /\ req.rw > READ

FaultDenied ==
  /\ pc = "fault"
  /\ PdIndex(req.vpn) \in pdes[current]
  /\ ~CopyOnWrite
  /\ Return
  /\ UNCHANGED <<print_tlb_result, system, memory, tlb>>

\* The frame of the page that faults, and whether others use it.
Frame  == pt[current][req.vpn].pfn
Shared == mapcounts[Frame] > 1

FaultHandled ==
  /\ pc = "fault"
  /\ PdIndex(req.vpn) \in pdes[current]
  /\ CopyOnWrite
  /\ IF nr_retries < 2 THEN pc' = "translate" /\ UNCHANGED access ELSE Return
  /\ UNCHANGED <<print_tlb_result, system, tlb>>

\* The result of alloc_page() is ignored: when memory is full the page stays
\* where it is, with a mapping less in mapcounts.
FaultCopies ==
  /\ FaultHandled
  /\ Shared
  /\ AllocPage([mapcounts EXCEPT ![Frame] = mapcounts[Frame] - 1],
               req.vpn, READWRITE)

FaultUpgrades ==
  /\ FaultHandled
  /\ ~Shared
  /\ pt' = [pt EXCEPT ![current][req.vpn].rw = READWRITE]
  /\ UNCHANGED <<pdes, mapcounts>>

-----------------------------------------------------------------------------
(* switch_process() *)

\* Mutant: the TLB survives the switch.
FlushNothing == UNCHANGED tlb

Flush == tlb' = [i \in Slot |-> IF i < NR_PAGEFRAMES THEN NULL ELSE tlb[i]]

\* The positions of the processes with pid p in the list.
Waiting(p) == {i \in DOMAIN processes : pid[processes[i]] = p}

\* Mutant: the page table base register stays.
SwitchToKeepsPtbr(p) ==
  /\ pc = "prompt"
  /\ \E i \in Least(Waiting(p)) :
       /\ current' = processes[i]
       /\ processes' = RemoveAt(processes, i)
  /\ Flush
  /\ UNCHANGED <<print_tlb_result, forked, pid, ptbr, memory, access, pc>>

\* The process that was running is not put into the list.
SwitchTo(p) ==
  /\ pc = "prompt"
  /\ \E i \in Least(Waiting(p)) :
       /\ current' = processes[i]
       /\ ptbr' = processes[i]
       /\ processes' = RemoveAt(processes, i)
  /\ Flush
  /\ UNCHANGED <<print_tlb_result, forked, pid, memory, access, pc>>

\* Mutant: the pages stay writable.
WritableTable(table) == table

\* Mutant: what the pages were allocated for is forgotten.
ForgetfulTable(table) ==
  [vpn \in Vpn |-> IF table[vpn] = NULL THEN NULL
                   ELSE [table[vpn] EXCEPT !.rw = READ, !.private = READ]]

\* The page table that parent and child have after a fork.
CopyOnWriteTable(table) ==
  [vpn \in Vpn |-> IF table[vpn] = NULL THEN NULL
                   ELSE [table[vpn] EXCEPT !.rw = READ]]

\* Mutant: only the pages that were writable are counted.
WritablePagesIn(f) ==
  {vpn \in Vpn : pt[current][vpn] # NULL /\ pt[current][vpn].rw = READWRITE
                 /\ pt[current][vpn].pfn = f}

\* The pages of the current process in frame f.
PagesIn(f) == {vpn \in Vpn : pt[current][vpn] # NULL /\ pt[current][vpn].pfn = f}

\* The child gets the next struct process.
Fork(p) ==
  /\ pc = "prompt"
  /\ Waiting(p) = {}
  /\ forked < MaxProcesses
  /\ LET child == forked + 1 IN
     /\ forked' = child
     /\ pid' = [pid EXCEPT ![child] = p]
     /\ pdes' = [pdes EXCEPT ![child] = pdes[current]]
     /\ pt' = [pt EXCEPT ![child]   = CopyOnWriteTable(pt[current]),
                         ![current] = CopyOnWriteTable(pt[current])]
     /\ mapcounts' = [f \in Pfn |->
                        (mapcounts[f] + Cardinality(PagesIn(f))) % (UINT_MAX + 1)]
     /\ current' = child
     /\ ptbr' = child
  /\ processes' = Append(processes, current)
  /\ Flush
  /\ UNCHANGED <<print_tlb_result, access, pc>>

-----------------------------------------------------------------------------
\* exit, or the end of the input.
Exit ==
  /\ pc = "prompt"
  /\ pc' = "done"
  /\ UNCHANGED <<print_tlb_result, system, memory, tlb, access>>

Terminating == pc \in {"done", "crashed"} /\ UNCHANGED vars

Init ==
  /\ print_tlb_result \in TlbOptions
  /\ forked = 1
  /\ pid = [h \in Process |-> IF h = 1 THEN 0 ELSE NULL]
  /\ pdes = [h \in Process |-> {}]
  /\ pt = [h \in Process |-> [vpn \in Vpn |-> NULL]]
  /\ mapcounts = [f \in Pfn |-> 0]
  /\ tlb = [i \in Slot |-> NULL]
  /\ processes = <<>>
  /\ current = 1
  /\ ptbr = 1
  /\ req = NULL
  /\ nr_retries = 0
  /\ pc = "prompt"

\* What the program does by itself, once it has a command.
Handling ==
  Hit \/ Miss \/ FaultCrashes \/ FaultDenied \/ FaultCopies \/ FaultUpgrades

Command ==
  \/ \E vpn \in Vpn : \/ \E rw \in {READ, READWRITE} : Alloc(vpn, rw)
                      \/ Free(vpn)
                      \/ \E rw \in {READ, WRITE, READWRITE} : Access(vpn, rw)
  \/ \E p \in Pid : SwitchTo(p) \/ Fork(p)
  \/ Exit

Next == Command \/ Handling \/ Terminating

Spec == Init /\ [][Next]_vars
=============================================================================
