# A TLA+ model of 24-1-OS-PA

The repository holds three operating-systems assignments in C: a small shell
(`OS-PA1`, *mash*), a scheduler simulator (`OS-PA2`, *sched*) and a
virtual-memory simulator (`OS-PA3`, *vm*).  Each is a framework (`mash.c`,
`sched.c`, `vm.c`) calling the assignment's own file (`pa1.c`, `pa2.c`,
`pa3.c`), on top of the list library `list_head.h`.

This directory models them in TLA+, checks the models with TLC and proves the
central results with TLAPS.

## Inventory

| Component | State | Operations | Interacts through | Hard behaviour |
|---|---|---|---|---|
| PA2 framework `sched.c` | `ticks`, `__forkqueue`, `current`, per process `status`, `age`, requests to make and held | fork on schedule, main loop, request, release, exit | callbacks of `struct scheduler`, `readyqueue`, `resources[]`, `current` | order of the steps of a tick; a process handed from list to list; quitting |
| PA2 policies `pa2.c` | `readyqueue`, `resources[].owner/waitqueue`, `prio` | `schedule`, `acquire`, `release` of 8 schedulers | the framework's globals | barging, lost wake-ups, starvation, priority inversion, nested requests |
| PA3 framework `vm.c` | `current`, `processes`, `ptbr`, `mapcounts[]`, `tlb[]` | the commands `alloc`, `free`, `read`, `write`, `access`, `switch`; `__translate()` and the fault-and-retry loop | `alloc_page()`, `free_page()`, `handle_page_fault()`, `switch_process()`, `lookup_tlb()`, `insert_tlb()` | retry after a fault, cached translations |
| PA3 memory `pa3.c` | page tables, frame counts, TLB slots | the six functions above | the framework's globals | copy-on-write sharing, full memory, stale TLB entries, forks |
| PA1 shell `mash.c`, `parser.c`, `pa1.c` | `stack` (the aliases), tokens, working directory | read a line, translate its aliases, `cd`, `alias`, `exit`, a program, a pipeline | `fork`, `execvp`, `pipe`, `dup2`, `wait`, `waitpid` | two children and a pipe, who closes which end, end of file, zombies, every call that may fail; chained aliases |
| `list_head.h` (three copies, the same but for two includes) | `next` and `prev` of every item | add, delete, replace, move, rotate, cut, splice, and loops | everything above | several fields of one item written in one operation, deletion while iterating |
| `toy.c`, `pipe.c` | none | example programs run by the shell | | not part of the system |

What makes them correct:

* **Scheduler.**  A process is always in exactly one place; resources are used
  exclusively, from the declared age for the declared time; no wake-up is lost;
  the simulation ends, and leaves nobody behind unless requests deadlock; each
  policy keeps its promise (turns under round robin, no starvation under aging,
  no blocking under the ceiling protocol, no inversion under inheritance).
* **Virtual memory.**  `mapcounts[]` counts the mappings; a write never reaches a
  frame another process still uses; a read-only page is never written; the TLB
  agrees with the page table of the current process; no process is lost.
* **Shell.**  A pipeline delivers everything and ends, no descriptor is left
  open that keeps a reader waiting, every child is waited for, whichever calls
  fail; alias translation ends, unless an alias mentions itself, with one
  replacement per word and alias.
* **Lists.**  The pointer operations implement sequences; lists never run into
  each other; a loop comes by every entry.

## Modules

| Module | Content |
|---|---|
| `Sched` | the state machine of `sched.c` with the policies of `pa2.c` |
| `Resources` | the abstract specification of the resources: what `acquire()` and `release()` promise |
| `SchedProps` | the properties of `Sched`, its inductive invariant and the mapping to `Resources` |
| `SchedHistory` | `Sched` with a record of who overtook whom and who asked when, for the promises of the policies |
| `MCSched`, `MCSchedHistory` | scripts for TLC |
| `ListLemmas` | lemmas about sequences as lists (append, removal, cutting, joining) and about loops over them |
| `SchedTypeProofs`, `SchedProofs`, `SchedPolicyProofs` | proofs: types, placement and the contract of resources; well-formed scripts and how long they take; what the policies promise |
| `Vm` | the state machine of `vm.c` with the functions of `pa3.c` |
| `VmSpace` | the abstract specification: separate address spaces |
| `VmProps` | the properties of `Vm`, its inductive invariant and the refinement mapping |
| `MCVm` | the constraint of one TLC run |
| `VmProofs`, `VmFrameProofs` | proofs: types, TLB and refinement; frame counts, caching and retries |
| `PickLoop` | the selection loops of `pa2.c`, step by step, against what `Sched` says they find |
| `MashAlias` | reading a line, and the translation of aliases |
| `MashPipe` | the processes of a command: pipe, forks, descriptors, programs, waits |
| `Mash` | the shell: `MashAlias` and `MashPipe` with the builtins between them |
| `MashProps`, `MCMash` | its properties; the lines for TLC |
| `MashProofs` | proofs |
| `ListHead` | `list_head.h` at the level of its pointers, with loops |
| `Lists` | the abstract specification: heads with sequences of entries |
| `ListProps`, `MCList` | the properties of `ListHead` and the refinement mapping; the instance for TLC |
| `ListProofs` | proofs |

### `Sched`

A tick of `__do_simulation()` is a run of steps, and `pc` says which comes next:

    fork*  schedule  (acquire* (block | run))  release*   -> next tick

| Code | Action |
|---|---|
| one iteration of `__fork_on_schedule()` that forks; its end | `Fork`, `ForkDone` |
| `schedule()` returns `current` (fcfs, sjf) | `ScheduleKeep` |
| `schedule()` takes a process off the ready queue | `SchedulePick` |
| `schedule()` returns `NULL`: idle tick or end of the loop | `ScheduleNone` |
| an assertion of `__exit_process()` fails | `ExitAborts` |
| `acquire()` returns true / false | `Grant` / `Block` |
| all requests granted: `age++` and `--duration` of everything held | `Run` |
| `release()` of one resource; none left | `Release`, `ReleaseDone` |

The three `Schedule` actions include what the main loop does with `prev` before
it looks at the result of `schedule()`, in the order of the code (`Decommissioned`
first, then `RUNNING` for the one picked, who may be the same process).  The
loops over the ready queue and the wait queues are `First(queue, key)`: the first
entry with the least key.  `PickLoop` has the loops as the code writes them, and
`LoopsPickFirst` says that they end there: for `pa_schedule()`, which increments
priorities while it compares them with `<=`, because the best so far has already
been incremented when a later one is compared with it.  The `--duration` of all held
resources is done in `Run` and the releases in `Release`; the code interleaves them per entry, with no difference since
`release()` looks at no duration.

Processes are numbered by their position in the script file, because the code
links `struct process` nodes and never compares pids.  A failed `assert()` ends
the program: `pc = "aborted"`.  The only nondeterminism is the input: the policy
and the script.

Definitions marked *Mutant* are one-line bugs.  No other definition uses them:
each shows that some property would notice the bug.

### `Resources` and the refinement

`Resources` is what a process may rely on: a resource is taken only when free, by a
process that is awake and asks for it; who asks in vain sleeps until it is woken;
only the owner gives a resource back, and that wakes one of the sleepers, if there
are any, and nobody else.  There are no ticks, queues or priorities in it.  `Sched`
implements it under the mapping

    asks[p]      =  the resources of p's next requests, when it is old enough
    sleepers[r]  =  the processes on r's wait queue

with `owner` as it is.  `Grant` is `Take`, `Block` is `Sleep`, `Release` is
`GiveBack`, `Run` is `Work` when the process comes to the age of a request; the
rest are stutters.  The eight policies differ in whom `GiveBack` wakes and in who
gets to `Take`.  This holds on every script, up to a failed assertion.

### `Vm`

`pc` is where the program is: at the prompt, in the fault-and-retry loop of
`__access_memory()` (`translate`, `fault`), ended, or crashed.

| Code | Action |
|---|---|
| `alloc`: `__alloc_page()` with its `__translate()`, `alloc_page()` | `Alloc` |
| `free`: `__free_page()` with its `__translate()`, `free_page()` | `Free` |
| `read`, `write`, `access`: start of `__access_memory()` | `Access` |
| `__translate()` succeeds, the command returns | `Hit` |
| `__translate()` fails, `nr_retries++` | `Miss` |
| `handle_page_fault()` reads through a missing directory | `FaultCrashes` |
| `handle_page_fault()` refuses | `FaultDenied` |
| `handle_page_fault()` with a shared frame: uncount, `alloc_page()` | `FaultCopies` |
| `handle_page_fault()` with a frame of its own: make it writable | `FaultUpgrades` |
| `switch_process()` to a process on the list | `SwitchTo` |
| `switch_process()` to a pid that is not: fork | `Fork` |
| `exit`, end of the input | `Exit` |

`FaultHandled` is what the last two faults share: the test `nr_retries < 2` of the
loop after a handler that reports success.  `Refilled` is the side effect of every
`__translate()`: `lookup_tlb()` and, after a walk, `insert_tlb()`.

Decisions that a reader of the code may ask about:

* `print_tlb_result` is a constant of a run.  Without `-t` neither `lookup_tlb()` nor
  `insert_tlb()` is called, so it is part of the state and not of the printing.
* `pc` distinguishes only the points between which something could matter.  The
  program is sequential, and the nondeterminism is the user's.
* Invalid page table and TLB entries are `NULL`, whatever bits they still hold:
  every reader of an entry looks at its valid bit first.
* The TLB has `NR_TLB_ENTRIES` slots, but `insert_tlb()` and the flush loop only go
  up to `NR_PAGEFRAMES`.  Both constants are kept, with the order the header has.
* `mapcounts[]` is unsigned: it wraps at `UINT_MAX`, upwards as well as downwards.
* `malloc()` is taken to return zeroes.  `switch_process()` writes only the entries
  the parent has and reads all of them later; the program frees no memory that
  these calls could get back.
* A failed `alloc` ends the simulation (`__do_simulation()` returns).  A fork needs
  `forked < MaxProcesses`, a bound of the model.
* Page numbers are those the tables have.  `alloc` and `free` do not check them;
  what lies behind `pdes[]` is out of scope.
* A process is its `struct process`, not its pid.  `switch` to the pid of the
  *current* process forks, because only the list is searched (`pa3.c:290`): two
  processes then share a pid, and `Waiting` finds the first.

### `VmSpace` and the refinement

`VmSpace` is what the simulator promises: every process has an address space, a
function from pages to permissions; `alloc` and `free` change that of the current
process, a fork copies it, a switch changes who is current.  Frames, counts,
copy-on-write and the TLB do not exist there.  `Vm` implements it under the
mapping

    space[h][vpn]  =  NULL if pt[h][vpn] is invalid, else pt[h][vpn].private

with `forked` and `current` as they are.  The `private` field is where the code
remembers what a page was allocated for.  All accesses and faults are stutters.
The refinement holds even in the runs where memory runs full during a fault:
the counts go wrong, the spaces do not.

### `MashAlias`, `MashPipe`, `Mash`

`pc` is where the shell is: at the prompt, in `run_command()` before (`run`),
in (`scan`) and after (`decide`) the translation, at one of the calls that
start a command, or back in `main()`.  The children have a `state` of their own,
and run whenever they like.

| Code | Action |
|---|---|
| `fgets()` and `parse_command()`; end of the input | `ReadLine`, `EndOfInput` |
| `exit` | `Exit` |
| start of the loop over the aliases, or none are there | `Begin` |
| a token that is not the name of the alias; one that is | `SkipToken`, `ReplaceToken` |
| the next alias; the NULL behind the last token | `NextAlias`, `EndScan` |
| `cd`, with or without a pipeline | `ChangeDirectory`, `ChangeSomewhere` |
| `alias` with words, without | `DefineAlias`, `ListAliases` |
| nothing is left of the command | `Nothing` |
| neither: a pipeline or a simple command | `StartPrograms` |
| `pipe()`, the two `fork()`s and `close()`s, the two `waitpid()`s | `CreatePipe`, `ForkLeft`, `CloseWrite`, `ForkRight`, `CloseRead`, `WaitLeft`, `WaitRight` |
| `fork()`, `wait()` of a simple command | `ForkOnly`, `WaitOnly` |
| `dup2()`, `close()`, `execvp()` of a child | `Redirect`, `CloseOther`, `ExecWorks`, `ExecFails` |
| the program (external): writes a line, reads one, is killed by SIGPIPE, ends | `Write`, `Consume`, `Killed`, `Finish` |
| `run_command()` has returned | `Back` |

`pipe()` and each `fork()` may fail.  A `fork()` that fails leaves the child in
`noPid`: the code takes -1 for a pid and passes it to `waitpid()`, for which it
means any child.  `WaitOnly` without a child returns at once with either result,
because `status` was never set.

The kernel is modelled from its use.  A process has a set of ends of the pipe
open, the copies that `dup2()` makes at the standard streams among them; a read
sees the end of the input when the pipe is empty and nobody has a writing end; a
write to a pipe that is full waits, and kills when nobody has a reading end.
What the programs do is the environment's choice: how many lines the left one
writes, whether the right one reads its input, and the exit status.

The memory behind the tokens is `array`.  A replacement allocates room for
exactly the words and not for the NULL behind them; when the last word is
replaced by nothing, the NULL goes one entry further still and leaves one that
was never set (`short`).  From then on the command may crash where that entry is
looked at, or when it returns, or never.  Nothing the shell forgets to free is
modelled.

### `ListHead`, `Lists` and the refinement

A function of `list_head.h` is an operator that maps a memory, the contents of
every `next` and `prev`, to a memory.  Assignments that read what an earlier one
wrote are written in the same order.  The actions apply them under the contract
the header states or its comments imply: what is unlinked is linked, what is
linked is not, two lists differ, the entry at which a list is cut is on it.
`stale` holds what must be initialised or linked before it is used again: entries
after `list_del()`, entries replaced, heads after `list_splice()`.

`walk` is a loop: `list_for_each_entry`, its reverse or its safe form.  While it is
under way the body may do what it likes to other lists and, in the safe form,
take the entry it is at off the list (`KeepsWalk`), as `__fork_on_schedule()`
does.

`Lists` is what the users see: for every head a sequence.  `ListHead` implements
it under the mapping that reads each sequence off the pointers (`Entries`).

## Runs

| Run | Instance | Why it is enough |
|---|---|---|
| `sched_mixed` | 8 policies, 3 processes, 2 resources, 456 well-formed and 216 ill-formed scripts | single, repeated, simultaneous and crosswise nested use; three processes give an owner, a waiter that was woken and one that overtakes it; a start at tick 9 makes the idle ticks happen; urgent processes that come late and live long test the liveness; the ill-formed scripts make assertions of `__exit_process()` fail |
| `sched_prio` | 5 policies, 4 processes, 1 resource, 4 levels of priority | owner, two waiters of different priority and a bystander between them: the inversion of the textbooks |
| `vm_cow` | 3 processes, 2 pages, 3 frames, no TLB | a frame shared by three, then by two; with two pages each, more mappings wanted than frames |
| `vm_tlb` | 2 processes, 2 directories, 4 frames, TLB | more slots than pages, so that holes and second entries happen; one slot beyond the loops |
| `mash` | 20 lines, 2 aliases, a pipe for 2 lines, up to 3 lines written | aliases without a text, of another alias, of themselves in front and behind; pipelines with an end missing, a program missing, a reader that does not read; the writer fills the pipe and blocks |
| `list` | 3 entries, 2 heads, 1 loop | a list of three has an inner entry, neighbours that are heads and neighbours that are not; two heads for every operation on two lists; a loop and one more list to move its entry to |
| `inherit_nested`, `vm_full_counts`, `vm_lost`, `vm_tlb_stale`, `vm_no_directory`, `alias_twice` | the instance in the `.cfg` | counterexamples, see below |

Bounds, all of them: the script sets; `UINT_MAX = 65535`; `MaxProcesses`; in the
shell `Lines`, `MaxAliases` (a further definition ends the run, `full`),
`MaxTokens` (a command that grows beyond it counts as one that grows forever,
`runaway`), `Capacity` and `MaxLines`; and the constraint
`UntilStarved` of `vm_cow`, which does not follow a run beyond a copy-on-write
fault that finds memory full.  From there on the counts are wrong (see
`vm_full_counts`) and the properties that depend on them are conditional on
`~starved` anyway; the constraint keeps the unconditional ones of that run within
the same states.  `starved` is a history variable that records the event and
influences nothing.

`MaxTokens` is 195 because of `Room` in `MashProps`: a line has up to 5 words, a text
made of one up to 3, so one alias makes at most 15 words of a line, unless it
makes itself; a text made of 15 words has up to 13, so two make at most 195.
`RoomForAllLines`, an assumption of `MCMash` that TLC evaluates, says that these
numbers leave room for every translation that ends, which is the hypothesis of
`OnlySelfMadeRunsAway`.

`CHECK_DEADLOCK` is on for the scheduler, the memory and the lists, whose models
stutter explicitly where the program has ended.  It is off for the shell: a
session ends.  That no command hangs is `ShellComesBack`.

### What the properties say

* `EveryoneInOnePlace`, `HeldAsDeclared`, `NoLostWakeup`: nothing is lost or
  duplicated between the lists, resources are used as the script declares, and
  waking one waiter per release suffices.
* `AssertsHold`, `ExitedClean`: no assertion fails on a well-formed script, and on
  any script nobody exits owing something.
* `QuitsOnlyInDeadlock`, `NoDeadlockUnlessNested`, `Termination`, `EveryoneExits`:
  what the end of a simulation may look like, and that it comes.
* `EndsInTime`, `CountsDown`: by which tick at the latest, and that no step of the
  main loop can be taken without end.
* `ImplementsResources`: the contract of `Resources`.
* `CeilingKeepsTheCpu`, `InheritanceHolds`, `TakeTurns`, `AgingPreventsStarvation`,
  `GoesToTheMostUrgent`: what each policy is for.
* `MapcountsExact`, `WritersAreAlone`, `ReadOnlyStaysSo`, `AnsweredRightly`,
  `ImplementsSpace`: copy-on-write is invisible and frames are accounted for.
* `CachedWhileMapped`, `NoStaleWrite`: the TLB is transparent for mapped pages and
  never permits a write that the page table forbids.
* `LoopsPickFirst`: the selection loops find what `First` says.
* `TranslatedByAge`, `NamesDistinct`, `RunawayIsSelfMade`: what translation yields,
  compared with a definition that has no index and no array; what a second
  definition of an alias does; and which aliases never end.
* `NothingLeftBehind`, `ReportsItsOwn`, `ReaderGetsAll`, `ShellComesBack`: processes and
  pipes, whatever fails and in whatever order programs end.
* `WellLinked`, `OnOneList`, `WalkSeesAll`, `ImplementsLists`: links, membership, loops,
  and what the list functions promise.

Every property of a passing run is broken by at least one of the *Mutant*
definitions; `PROJECT.json` says which.

### Fairness

`Sched` assumes weak fairness of its next-state relation: the main loop never
blocks, so a step that can be taken is taken.  Nothing is assumed about the
policies: that they starve nobody follows from finite lives and is what
`EveryoneExits` checks.  `Mash` assumes weak fairness of the shell's own steps and of
each child's: the kernel runs whoever can run, a blocked read, write or wait
returns once it can, and programs end when they have written what they have and
seen the end of what they read.  The user owes nothing.  `Vm` and `ListHead` have
no fairness and no liveness properties: the user may stop typing, the caller may
stop calling.

## Where code and documents disagree

With a run that shows it (details in `PROJECT.json`):

* `inherit_nested`: `pip_release()` drops an inheritance that is still due
  (`pa2.c:572`).
* `vm_full_counts`: a fault that finds memory full corrupts `mapcounts[]`
  (`pa3.c:252`); the next fault gives a shared frame to a writer.
* `vm_lost`: a switch loses the process that was running (`pa3.c:293`).
* `vm_tlb_stale`: a freed page can be read through a second TLB entry
  (`pa3.c:107`).
* `vm_no_directory`: a fault in an unused directory crashes (`pa3.c:237`).
* `alias_twice`: a word that came out of an alias is translated again by an older
  one (`pa1.c:62`).

Met while modelling, visible in the model, without a run of their own:

* Aging does not stop at `MAX_PRIO` (`pa2.c:431`), which the assignment gives as the
  limit.  What stops it is that others run out: a priority never gets beyond the
  highest of the script plus the number of other processes (`AgedInTurn`).
* Without priorities a resource does not always go to the first that asked
  (`pa2.c:102`): between the release and the turn of the process that was woken
  another one may take it.
* The array of a translated command is too short by the NULL at its end
  (`pa1.c:101`), and by one more if the last word has an empty alias.
* When a replacement leaves no word in the place of the alias, the word behind it
  moves there and is passed over (`pa1.c:64`).
* `pcp_release()` resets the priority while another resource is held
  (`pa2.c:485`), so the ceiling is lost for nested requests; `CeilingKeepsTheCpu` is
  therefore about scripts without nesting.
* With equal remaining time `stcf_schedule()` prefers the ready queue to the
  current process (`pa2.c:256`).
* The main loop ends while processes are blocked (`sched.c:351`);
  `QuitsOnlyInDeadlock` says when.
* `switch` with the pid of the current process forks a second one of that pid.
* The assertion at `vm.c:156` computes `ACCESS_READ ^ ACCESS_WRITE`, which is 3, so
  an access with both bits passes; both handlers treat it as a write.

## Proofs

Assumptions on the constants: `SchedAssumption` in `Sched`, `VmAssumption` and
`NullAssumption` in `Vm`, `ListAssumption` in `ListHead` (which says among other
things that there are finitely many entries), `MashAliasAssumption` and
`MashPipeAssumption` in the shell, which TLC evaluates in every run.  No bound of
the runs is assumed: scripts, numbers of processes, resources, pages, frames,
TLB slots, list entries and heads, lines, aliases, and the room in a pipe are
arbitrary.  Two theorems have a hypothesis of their own, `CountersSuffice`: the
PTEs of all processes together are no more than `UINT_MAX`.  In the program that
is 2^32 - 1 against 256 PTEs per process, each of which takes memory.  One has
`RoomSuffices`: `MaxTokens`, a bound of the model and not of the program, is large
enough for `MaxAliases` and the longest line.

| Module | Theorem | Property |
|---|---|---|
| `SchedTypeProofs` | `TypeCorrect` | `TypeOK` |
| | `ExitsAreClean` | `ExitedClean` |
| | `ResourcesAreKept` | `ImplementsResources` |
| `SchedProofs` | `NoAssertionFails` | `AssertsHold` |
| | `NobodyIsLost` | `EveryoneInOnePlace` |
| | `ExclusiveUse` | `OwnersHold` |
| | `UsedAsDeclared` | `HeldAsDeclared` |
| | `WakeupsAreNotLost` | `NoLostWakeup` |
| | `OnlyDeadlocksAreLeft` | `QuitsOnlyInDeadlock` |
| | `SimulationEndsInTime` | `EndsInTime` |
| | `EveryStepCounts` | `CountsDown` |
| `SchedPolicyProofs` | `InvariantHolds` | `IInv` |
| | `NoDeadlock` | `NoDeadlockUnlessNested` |
| | `CeilingHolds` | `CeilingKeepsTheCpu` |
| | `InheritanceWorks` | `InheritanceHolds` |
| | `ResourcesGoToTheMostUrgent` | `GoesToTheMostUrgent` |
| | `TurnsAreTaken` | `TakeTurns` |
| | `AgingWorks` | `AgingPreventsStarvation` |
| | `LoopsFindTheFirst` | `LoopsPickFirst` |
| `VmProofs` | `TypeCorrect` | `TypeOK` |
| | `ReadOnlyNeverWritable` | `ReadOnlyStaysSo` |
| | `TlbNeverPermitsStaleWrites` | `NoStaleWrite` |
| | `SimulatorImplementsSpaces` | `ImplementsSpace` |
| `VmFrameProofs` | `InvariantHolds` | `VmInv` |
| | `MapcountsAreExact` (with `CountersSuffice`) | `MapcountsExact` |
| | `WritersStayAlone` (with `CountersSuffice`) | `WritersAreAlone` |
| | `TlbAnswersAsThePte` | `CachedWhileMapped` |
| | `AccessesAnsweredRightly` | `AnsweredRightly` |
| `MashProofs` | `CleanPrompt` | `NothingLeftBehind` |
| | `OwnResult` | `ReportsItsOwn` |
| | `PipelineDelivers` | `ReaderGetsAll` |
| | `TypeCorrect` | `TypeOK` |
| | `NoNameTwice` | `NamesDistinct` |
| | `TranslatesByAge` | `TranslatedByAge` |
| | `PassesRunOut` | every round of a pass brings its end nearer |
| | `OnlySelfMadeRunsAway` (with `RoomSuffices`) | `RunawayIsSelfMade` |
| `ListProofs` | `LinksStayInUse` | `TypeOK` |
| | `ListsStayApart` | `WellLinked` |
| | `EntriesOnOneList` | `OnOneList` |
| | `PointersAreSequences` | `ImplementsLists` |
| | `LoopsSeeAll` | `WalkSeesAll` |

`OwnersHold`, `IInv` and `VmInv` are proved and in no run: the properties of the runs
say what they are for.  Each was an invariant of a TLC run before it was proved,
and so was `RoomInv`, with the numbers of `RoomForAllLines`.

`ListLemmas` has what they share: what appending, removing, cutting and joining do
to the entries of a sequence, and how to reason about a loop.  Where an argument
goes along a list or counts rounds, it is by `SetInduction`: a set of naturals
that has 0 and with each number the next has them all, because the least number
outside would have a predecessor in it.  A recursive function in the models
(`PickedBy`, `parse_command`, `Pass`, `Stages`, `Along`, `Total`) is a choice of a
function that satisfies its equation; `RoundsExist`, `LoopExists` and
`ListLoopExists` say that there is one, and with that the equation holds.

**Scheduler, every script.**  `TypeOK` and `SomeoneRuns` (somebody is current while
somebody is executed) are inductive together.  `ExitedClean` is about ill-formed
scripts too, where `Core` below fails; it takes `AnyScript`, what is left of the
placement of processes when nobody keeps its promises: no one is on two lists,
the current process is on none unless it has just been blocked, and who owns a
resource has it on its list of held ones.

`ResourcesAreKept` takes `AnyScript` as well: the current process is asleep nowhere,
and whoever is on a wait queue asks for what it waits for, so a waiter that is
woken sleeps for nothing else.

**Scheduler, well-formed scripts.**  `Core`, of which no part is inductive alone.
`Placement` needs `Dispatch` (who is current at which step) to see that `schedule()`
files `current` away exactly when it is on no list.  The assertions of
`__exit_process()` need `Timing`: a process whose age reaches its lifespan has no
request left and holds nothing, because every use ends at the latest then and
`Run` ages the holder and its uses together (`DeclaredUse`).  `Promised` is
preserved by a release because it wakes the first waiter, by a grant because the
resource is then owned, and by a block because a resource is only refused while
owned.  `QuitsOnlyInDeadlock` follows: at the end nobody is ready or running, so a
free resource has no waiters, and an owner that has not exited is blocked.

**Scheduler, time.**  `Ahead` is what a process has before it: the ticks of its life
and until its start, and three for each request, to fall asleep, to be woken and
to give back.  `TimeInv` says that the ticks so far and the sum of `Ahead` over all
processes stay within `Budget`, which is that sum at the start.  A tick in which
somebody runs takes one from its life, and a tick in which somebody falls asleep
takes one from its requests; a release wakes one waiter, to which it gives one
back, and loses two itself.  An idle tick is paid for by a process yet to start:
whoever is due has been forked before anybody is scheduled (`DueForks`), so the
one that `__forkqueue` still has is not.  `SimulationEndsInTime` follows because `Ahead`
is never negative, and `EveryStepCounts` from the same facts with the steps inside
a tick counted along.

**Scheduler, nothing nested.**  `NoDeadlock` takes `NestInv`: what a process holds and
what it still has to ask for are different lines of its script, nothing is held
before its time, so it holds one thing at a time and asks for nothing meanwhile.
A blocked owner would ask at its present age while inside the use of another
line, and `NonNested` says that uses do not overlap.  `CeilingHolds` adds
`CeilingPrios`: a priority is that of the script or, for who holds something,
`MAX_PRIO`, so the holder is the only one at the ceiling and the loop has to pick
it again.  `InheritanceWorks` adds `UrgentInv` for the one moment that
`pip_acquire()` does not look at: when a resource changes hands, the new owner is
the most urgent of those that were promised it (`PromisedToTheTop`), and nobody in
the ready queue is more urgent than who executes (`TopRuns`).

**Scheduler, with a history.**  `HSpec` records steps and restricts none
(`HistorySteps`), so all of the above holds for it.  `ResourcesGoToTheMostUrgent`
needs `AskingInv`: who has asked for a resource and not got it still does, asleep or
woken.  The condition `ByUrgency` names the policies it is about; under inheritance
without its provisos a priority that was lent is taken back while the process
waits, and the claim is false.  `TurnsAreTaken` keeps `InTurn`: who has been
overtaken stands in the queue, in front of all its peers that have overtaken it.
`AgingWorks` keeps `AgedInTurn`.  A priority is that of the script plus the times
its process was overtaken.  Let M be the highest priority of the script.  Whoever
joins the queue, forked, woken or preempted, has at most M, so nobody is newly
preferred to a process above M, while each pick that passes it over removes one
of those preferred to it and raises it by one: their number plus its priority
never grows beyond M + `NrProcesses` - 1, which is what a process that has just
come to M can have at most.

**Selection loops.**  `PickLoopFinds` proves for any comparison that agrees with a key
that the loop ends at the first entry with the least key.  For `pa_schedule()` the
agreement is the point: the best so far has been incremented and the entry
compared has not, so `<=` on the one is `<` on the other.

**Virtual memory.**  `VmInv` is `TypeOK`, `InDirectory` (a mapped page has its
directory), `OnlyForked` and `Unborn` (nobody is current, waits or maps anything
before it is forked), `ReadOnlyStaysSo`, `TlbInv`, `CacheInv` and `RetryInv`.
`InDirectory` makes a failed walk for reading mean that the page is not mapped,
which `Alloc` relies on.  `NoStaleWrite` is not inductive: `free_page()` removes the
*first* entry for a page, so one must know that an entry which permits writes is
the first of its page, and that all entries are in the part that the flush
reaches; `TlbInv` says so.  An insertion keeps it because it happens only when no
entry permits the access, so there is no older writable entry behind it.
`CacheInv` is `CachedWhileMapped` with its one exception, the page that a fault has
just moved and whose retry is to come.  `RetryInv` says that a retry after a
handled fault translates; `AccessesAnsweredRightly` rests on it.  `MapcountsExact` and
`WritersAreAlone` are inductive together beside `VmInv`: `MapsFresh`, `Unmaps` and
`Upgrades` say what one changed PTE does to the set of mappings of each frame, and
`ForkFrames` that a child has a mapping for every one of its parent's, which
`Unborn` makes new ones.  The refinement theorem goes action by action:
`SpaceUpdate` turns the change of one PTE into the change of one entry of the
address space, faults keep `private`, and `CopyOnWriteTable` keeps it for both
sides of a fork.

**Shell, processes.**  `MashInv` has a part for each question.  `Attendance` says who
exists at which point of `run_command()`: a child that is still to be waited for
exists exactly if its `fork()` succeeded, so two waits, of which one may be for any
child, leave nobody.  `Descriptors` says who has the pipe open, and that a dead
process has nothing.  `Delivery` counts lines, and says that a writer that ended
with lines still to write has left nobody who reads and nobody to be forked who
could: the shell's own reading end keeps `SIGPIPE` away until the right-hand
process has one.  With these a reader that saw the end of its input has no writer
before it.  The half of the shell that handles words enters only through
`WordSteps`: it starts no process and leaves the pipe alone.

**Shell, words.**  `ShellInv` adds the types of the words and where the indices stand.
`NoNameTwice` keeps `NamesInv`: as long as no text mentions the name of an alias and
none is empty, the words the pass has been over, and the words that come out of
it, are no names of the aliases done with; so the word that `alias` defines,
which has been through all passes, is none.  For `TranslatesByAge` the invariant
`StagesInv` compares the tokens in the middle of a pass with two finished lines:
up to the index they are what `Pass` makes of the first words of the line before,
from there on they are the rest of that line (`DoneTo`).  The exception is a text
that mentions its own alias, where the pass replaces words it has put in itself;
then it will never be finished (`Doomed`).  `PassesRunOut` is the other side: unless
the alias has its own name behind its first word, each round of the inner loop
leaves fewer words to replace or comes closer to the end.  `OnlySelfMadeRunsAway`
adds up how far a translation can get meanwhile.  The invariant `RoomInv` is about
numbers b[n], enough words for a command that n aliases have translated.  During
a pass it weighs the words there are and those that are to be replaced, each by
a text of the most words it may have: a replacement takes from the second what
it adds to the first, because what it puts in is not replaced again (`PassFits`).
Texts stay as short as they should (`TextsFit`) because an alias command is
translated by the older aliases, then loses its first two words, and has a
blank between any two of the others (`JoinedLength`).

**Lists, links.**  That `next` and `prev` undo each other is preserved by looking at
the fields an operation writes.  It is not enough: after `list_cut_position()` one
must know that the two halves do not meet, and before `list_splice()` that the
lists differ as cycles and not only as heads.  So `ListInv` says that every item
in use can be given an owner and a place such that `next` leads to the next place,
and from the last one to the owner (`Owned`, `InOrder`).  Every operation has a lemma
that gives the owners and places after it.  For an insertion, all places are
doubled to make room for one more; for a cut, the entries up to it change their
owner; for a splice, those behind it move up.  `ListsStayApart` then follows because
what is reached from a head has that head as its owner.

**Lists, sequences.**  From owners and places `ThreadExists` makes the sequence that
`next` runs along from a head, and `EntriesFacts` shows that `Entries` reads off that
one.  `Known` says which sequence every head has; each operation has a lemma about
what it does to it, put together from lemmas about single threads (`FrontThreads`,
`CutThreads`, `JoinThreads` and so on).  `PointersAreSequences` maps each action of
`ListHead` to the action of `Lists` with the same effect.  For `LoopsSeeAll` the
invariant `WalkInv` says where a loop stands: what it has seen and what is still
ahead of it, on the list as the body leaves it, make up the list as it was, in
the safe form also after the body has taken away the entry at hand.

Only model-checked:

* `Termination`, `EveryoneExits` and `ShellComesBack`: liveness under fairness is
  beyond the prover.  For the scheduler `EveryStepCounts` is what remains of
  `Termination` without fairness, and `NoDeadlock` of `EveryoneExits`.
* The counterexamples.

## Not modelled

* `parser.c` of `OS-PA2` and `OS-PA3`: splitting a line into words.  The models start
  from parsed commands and scripts.  That of `OS-PA1` is `parse_command` in
  `MashAlias`, where words and blanks are values and not characters.
* Messages and the printing commands (`show`, `dump_status()`, the list that `alias`
  prints): no state changes.
* Reading the script file (`sched.c`, `__load_script()`): the set of scripts is a
  constant, and includes ill-formed ones.
* Memory: what the shell never frees, and what a page number beyond the tables or a
  line of more than 31 words overwrites.  Only the array that `run_command()` makes
  itself is followed (`array`).
* `hlist` of `list_head.h`, which nothing uses, and the macros that start or end a
  loop elsewhere (`_continue`, `_from`): they step like those modelled.
* `toy.c`, `pipe.c`: example programs for the shell.

The lists of the scheduler, the simulator and the shell remain sequences in their
modules: `ListHead` shows that this is what the pointers amount to.

## What could come next

`Sched` composed with `Lists`, so that the contract of each list call (what is added
is on no list) becomes an invariant of the scheduler; now `EveryoneInOnePlace` says
so for the sequences, and `ListedOnce` for ill-formed scripts.
