------------------------------ MODULE VmProps -------------------------------
(***************************************************************************)
(* What the virtual-memory simulator must guarantee.                       *)
(*                                                                         *)
(* A copy-on-write fault that finds no free frame leaves the frame counts  *)
(* wrong for good, so the properties of the counts are about the runs in   *)
(* which that has not happened; starved records it.                        *)
(***************************************************************************)
EXTENDS Vm

VARIABLE
  starved  \* a copy-on-write fault has found memory full

pvars == <<vars, starved>>

\* handle_page_fault() calls alloc_page() in vain.
Starves ==
  /\ pc = "fault" /\ CopyOnWrite /\ Shared
  /\ FreeFrames(mapcounts) = {}

PInit == Init /\ starved = FALSE

PNext == Next /\ starved' = (starved \/ Starves)

PSpec == PInit /\ [][PNext]_pvars

\* The type invariant.
TypeOK ==
  /\ print_tlb_result \in TlbOptions
  /\ forked \in Process
  /\ pid \in [Process -> Pid \cup {NULL}]
  /\ pdes \in [Process -> SUBSET Directory]
  /\ pt \in [Process -> [Vpn -> Pte \cup {NULL}]]
  /\ mapcounts \in [Pfn -> 0 .. UINT_MAX]
  /\ tlb \in [Slot -> TlbEntry \cup {NULL}]
  /\ processes \in Seq(Process)
  /\ current \in Process
  /\ ptbr = current
  /\ pc \in {"prompt", "translate", "fault", "done", "crashed"}
  /\ IF pc \in {"translate", "fault", "crashed"}
     THEN req \in [vpn : Vpn, rw : {READ, WRITE, READWRITE}]
     ELSE req = NULL
  /\ nr_retries \in IF pc = "translate" THEN 0 .. 1 ELSE 0 .. 2

-----------------------------------------------------------------------------
(* What the proofs need besides *)

\* A mapped page has its page directory.
InDirectory ==
  \A h \in Process, vpn \in Vpn : pt[h][vpn] # NULL => PdIndex(vpn) \in pdes[h]

\* Nobody runs or waits that has not been forked.
OnlyForked ==
  /\ current \in 1 .. forked
  /\ \A i \in DOMAIN processes : processes[i] \in 1 .. forked

\* A process that has not been forked maps nothing, so that the child's pages
\* are the only new mappings of a fork.
Unborn == \A h \in Process, vpn \in Vpn : h > forked => pt[h][vpn] = NULL

-----------------------------------------------------------------------------
(* Frames *)

Mappings(f) ==
  {m \in Process \X Vpn : pt[m[1]][m[2]] # NULL /\ pt[m[1]][m[2]].pfn = f}

\* mapcounts[f] is the number of PTEs that map f, over all processes: what
\* alloc_page() takes for free is free, and what the fault handler takes for
\* its own is its own.
Counted == \A f \in Pfn : mapcounts[f] = Cardinality(Mappings(f))

MapcountsExact == ~starved => Counted

\* A frame that one process may write without a fault is mapped by nobody
\* else: after a fork the first write of either side goes to a copy.
Private ==
  \A m, n \in Process \X Vpn :
    LET e == pt[m[1]][m[2]]  f == pt[n[1]][n[2]] IN
    m # n /\ e # NULL /\ f # NULL /\ e.rw = READWRITE => e.pfn # f.pfn

WritersAreAlone == ~starved => Private

\* A page allocated for reading never becomes writable, through any number of
\* forks and faults.
ReadOnlyStaysSo ==
  \A h \in Process, vpn \in Vpn :
    pt[h][vpn] # NULL /\ pt[h][vpn].rw = READWRITE => pt[h][vpn].private = READWRITE

-----------------------------------------------------------------------------
(* The TLB *)

\* Between commands the TLB answers as the PTE does for every page that is
\* mapped, and at no time is an entry that permits writes out of date: forks,
\* faults and frees change PTEs behind its back.
Agrees(i) ==
  LET pte == pt[current][tlb[i].vpn] IN
  pte # NULL /\ pte.pfn = tlb[i].pfn /\ pte.rw >= tlb[i].rw

CachedWhileMapped ==
  pc = "prompt" => \A vpn \in Vpn, rw \in {READ, READWRITE} :
    pt[current][vpn] # NULL => \A i \in Least(Hits(rw, vpn)) : Agrees(i)

NoStaleWrite == \A i \in Slot : tlb[i] # NULL /\ tlb[i].rw = READWRITE => Agrees(i)

\* The inductive invariant behind NoStaleWrite: the entry that permits writes
\* is the first one for its page, so that a free removes that one, and every
\* valid entry is in the part that a switch flushes.
TlbInv ==
  /\ NoStaleWrite
  /\ \A i, j \in Slot :
       tlb[i] # NULL /\ tlb[j] # NULL /\ tlb[i].vpn = tlb[j].vpn
         /\ tlb[i].rw = READWRITE => i <= j
  /\ \A i \in Slot : tlb[i] # NULL => i < NR_PAGEFRAMES

\* No entry is left of a time without the TLB, and the first entry for a mapped
\* page agrees with its PTE, unless a fault has just moved the page: the retry
\* that comes next puts its entry at or before the old one.
CacheInv ==
  /\ ~print_tlb_result => \A i \in Slot : tlb[i] = NULL
  /\ \A vpn \in Vpn : pt[current][vpn] # NULL =>
       \A i \in Least(Entries(vpn)) :
         \/ Agrees(i)
         \/ /\ pc = "translate" /\ nr_retries = 1 /\ vpn = req.vpn
            /\ req.rw # READ /\ pt[current][vpn].rw = READWRITE

-----------------------------------------------------------------------------
(* The retries *)

\* A fault is an access that does not translate, and the retry after a fault
\* that was handled does, unless there was no frame; then there is none the
\* second time either.
RetryInv ==
  /\ pc = "fault" => nr_retries >= 1 /\ ~Translates(req.rw, req.vpn)
  /\ pc = "translate" /\ nr_retries = 1 =>
       Walk(req.rw, req.vpn) # {} \/ (starved /\ FreeFrames(mapcounts) = {})
  /\ pc = "fault" /\ nr_retries = 2 => starved /\ FreeFrames(mapcounts) = {}

\* The inductive invariant of the proofs, but for MapcountsExact and
\* WritersAreAlone, which are inductive beside it.
VmInv ==
  /\ TypeOK /\ InDirectory /\ OnlyForked /\ Unborn
  /\ ReadOnlyStaysSo /\ TlbInv /\ CacheInv /\ RetryInv

-----------------------------------------------------------------------------
(* Steps *)

\* What the page was allocated for permits the access.
Permits(vpn, rw) ==
  /\ pt[current][vpn] # NULL
  /\ rw = READ \/ pt[current][vpn].private = READWRITE

\* A page that has been freed may still be read through the TLB (FreedIsDenied).
ReadsFreed ==
  print_tlb_result /\ req.rw = READ /\ pt[current][req.vpn] = NULL

\* An access succeeds if and only if the page was allocated for it, whoever
\* shares the page: a fault that is handled is followed by a retry that
\* succeeds, and nothing else gets through but reads of freed pages.
Answer ==
  pc' = "prompt" =>
    /\ pc = "translate" => Permits(req.vpn, req.rw) \/ ReadsFreed
    /\ pc = "fault" /\ ~starved' => ~Permits(req.vpn, req.rw)

AnsweredRightly == [][Answer]_pvars

-----------------------------------------------------------------------------
(* The address spaces that the processes see *)

\* What pages were allocated for is kept in private.
space ==
  [h \in Process |-> [vpn \in Vpn |->
     IF pt[h][vpn] = NULL THEN NULL ELSE pt[h][vpn].private]]

Space == INSTANCE VmSpace WITH Permission <- {READ, READWRITE}

\* Sharing, faults, full memory and the TLB stay invisible: the simulator
\* implements processes with address spaces of their own.
ImplementsSpace == Space!Spec

-----------------------------------------------------------------------------
(* What the documents say and the code does not do *)

\* README.md:29: "when a page frame `x` is mapped to three processes,
\* `mapcounts[x]` should be 3."
CountedAlways == Counted

\* pa3.c:272: "The @current process at the moment should be put into the
\* @processes list, and @current should be replaced to the requested process."
NobodyLost ==
  \A h \in 1 .. forked : h = current \/ h \in ToSet(processes)

\* README.md:33: "The page table should be set so that subsequent accesses to
\* the freed VPN should be denied by MMU."
FreedIsDenied ==
  \A vpn \in Vpn : pt[current][vpn] = NULL => ~Translates(READ, vpn)

\* The comment at pa3.c:220-225 names as the first cause of a fault "page
\* directory is invalid", and wants the situation identified.
FaultsAreHandled == pc # "crashed"
=============================================================================
