# A TLA+ model of the CAITOA operating system simulator

The program simulates a small multiprocessor operating system: CPU threads that
interpret programs, a loader thread that admits them, a multilevel queue
scheduler, a slot timer that moves all threads in step, and paged virtual memory
with swapping. This directory holds TLA+ modules that model it, TLC
configurations that check them, and TLAPS proofs. The model is of the program as
its `Makefile` and `include/os-cfg.h` build it: `MLQ_SCHED`, `MM_PAGING`, `MM64`.

`PROJECT.json` gives for every definition the source lines it stands for, and
lists the runs, the deliberate faults that each property has been seen to
detect (the operators marked *Mutant* in the modules), the disagreements found
between code and comments, the hazards, and the theorems.

## 1. Inventory

### Components

| component | source | state it keeps | operations |
|---|---|---|---|
| timer | `timer.c` | `_time`, list of devices; for each of them the flags `done`, `fsh`, two mutexes, two condition variables | `attach_event`, `start_timer`, `next_slot`, `detach_event`, `stop_timer`, the timer thread |
| process queues | `queue.c` | array of at most `MAX_QUEUE_SIZE` pointers | `enqueue`, `dequeue`, `purgequeue` |
| scheduler | `sched.c` | `mlq_ready_queue`, `running_list`, `curr_prio`, `curr_slot_cnt` | `get_proc`, `put_proc`, `add_proc` |
| simulator threads | `os.c` | `done`; per CPU `proc`, `time_left` | `cpu_routine`, `ld_routine`, `main` |
| process memory area | `libmem.c`, `mm-vm.c` | area end, `sbrk`, free regions, symbol table | `liballoc`, `libfree`, growth by `sys_memmap` |
| kernel address space | `libmem.c` | the pointer `krnl->mm`, `mmvm_lock`, the kernel's area | `libkmem_malloc`, cache pools, copies from and to user memory |
| paging | `mm64.c`, `libmem.c` | five-level page table, FIFO list of pages | mapping, page fault, replacement |
| physical memory | `mm-memphy.c` | free frame lists and bytes of RAM and swap | get, put a frame, read, write |
| system calls | `syscall.c`, `sys_mem.c`, `sys_listsyscall.c`, `libstd.c` | none of their own | `sys_memmap`, `listsyscall` |
| interpreter, program loader | `cpu.c`, `loader.c` | `pc`, registers, code of a process | `run`, `load` |
| obsolete | `mem.c`, `paging.c`, `mm.c` | - | not used by this build |

### Interaction

`main` attaches one timer device for each CPU and one for the loader, starts the
timer, creates the threads, joins them and stops the timer. In every slot a CPU
asks the scheduler for a process when it needs one, executes one instruction and
calls `next_slot`; the loader gives one process to `add_proc` in a slot. The
timer ends the slot when every device has arrived or detached. An instruction
may allocate, free, read or write memory: these calls put the process's `mm`
into the shared pointer `krnl->mm` for their duration, and reach `mm-vm.c` and
the physical memory through the system call `sys_memmap`, which finds the
calling process by searching the scheduler's running list.

### Hard behaviours, and what would make each component correct

* **Timer.** Condition variables, one flag guarded by two different mutexes,
  counters of one scan used after another scan, memory freed at the end. It is
  correct if a slot ends only when every device is done with it, no wakeup is
  lost, nothing races, and all waits end.
* **Scheduler.** Several CPUs and the loader take and give in any order, the
  state of the round survives between calls, queues are bounded and drop
  silently, finished processes are freed while a list still points at them. It
  is correct if each process is in exactly one place and no level waits for
  longer than one round.
* **Simulator threads.** A flag read after an unsuccessful `get_proc`; a
  quantum that belongs to a CPU and not to a process. Correct if every process
  runs to its end in whole quanta, CPUs neither idle beside waiting work nor
  stop too early, and all threads end.
* **Memory area.** Long sequences of calls on one list spliced in place.
  Correct if no byte is owned twice.
* **Kernel address space.** A shared pointer switched and restored by several
  CPUs, with and without the lock. Correct if each call works in the memory it
  is meant for.
* **Paging, physical memory.** Multi-step page faults, frames at their limit,
  failures that are ignored. Correct if no frame belongs to two pages, and a
  byte written is the byte read after any swapping in between.

The full list, line by line, is under `hazards` in `PROJECT.json`.

## 2. Modules

| module | models | kind |
|---|---|---|
| `SlotClock` | what `timer.c` promises its callers | abstract specification |
| `Timer` | `timer.c` down to mutexes and condition variables, and the part of `main` that uses it | detailed; implements `SlotClock` |
| `ProcQueue` | `queue.c` | operators on sequences |
| `Scheduler` | `sched.c`; extends `ProcQueue` | component |
| `FairDispatch` | what `sched.c` promises the CPU threads | abstract specification |
| `MLQPolicy` | `Scheduler` with a history of who was served while whom waited | observer; implements `FairDispatch` |
| `OsSim` | `os.c`: composes `Scheduler` and `SlotClock` with the CPU and loader loops | composition |
| `RegionAllocator` | what `liballoc` and `libfree` promise | abstract specification |
| `SysMemmap` | the search of `sys_mem.c` for the caller, on `Scheduler` | composition |
| `UserAlloc` | `libmem.c`, `mm-vm.c` for the area of one process | detailed; implements `RegionAllocator` |
| `Memory` | what a program finds in its variables: `UserAlloc` and `Paging` joined by `inc_vma_limit`, with the bytes of the frames (`liballoc`, `libfree`, `libread`, `libwrite`) | composition |
| `KernelMM` | the switching of `krnl->mm`, and `__kmalloc` beside it | component |
| `PageTable` | page table entries of `mm.h`, `mm64.c` and the walk of five levels | operators on entries |
| `Paging` | frames, page tables, FIFO lists, faults and swap of all processes (`mm64.c`, `mm-memphy.c`, `mm-vm.c`, `libmem.c`); extends `PageTable` | component |
| `MCScheduler`, `MCOsSim`, `MCUserAlloc`, `MCKernelMM`, `MCPaging`, `MCMemory`, `MCSysMemmap` | constants for TLC | |
| `SequenceLemmas` | lemmas on sequences | proofs |
| `TimerProofs`, `SchedulerProofs`, `UserAllocProofs`, `KernelMMProofs`, `PagingProofs`, `OsSimProofs`, `MemoryProofs` | theorems | proofs |

### How state and actions correspond to the code

**Timer.** `dpc`, `tpc`, `mpc` are the places of the device threads, the timer
thread and `main`. A critical section is two actions, taking the mutex and
doing the rest, so that a thread can be seen about to touch a flag. A wait on a
condition variable is a place of its own that a signal, or a spurious wakeup,
leaves. A device is its position in `dev_list`; `attach_event` puts devices at
the head, so the list shrinks to the front by decreasing a number.
`timer_state_lock` protects single accesses and is part of the actions that
make them. `_time` saturates at `TimeCap`: nothing in the timer reads it.

**Queues and scheduler.** A queue is a sequence of processes. The scheduler's
functions hold `queue_lock` throughout, so each is one action; the walk of
`get_mlq_proc` over the levels becomes "the nearest level that is not empty",
and `Count` is the counter after the resets on the way there. `loaded` and
`finished` are the processes given to `add_proc` and to `free`. Process
descriptors are distinct: that `malloc` may hand out the memory of a freed one
again is left out (see *Not modelled*). In `Scheduler` the CPUs and the loader
call in any order; `OsSim` has the order of `os.c`. `FairDispatch` leaves open
which level goes next. It keeps what a caller can rely on: where each process
is, that the smallest `priority` of a level goes first, and how often a level may be
preferred to another one that waits, which `MLQPolicy` counts in `served`.

**OsSim.** One pass of the loop of `cpu_routine` takes up to three actions,
which are cut where another thread's call to the scheduler, or its access to
`done`, can come between: looking at the process ("top"), asking for the next
one ("next") and testing `done` ("recheck"). `next_slot` and `detach_event` are
`Arrive` and `Leave` of the slot clock; that the timer really is a slot clock
is checked by the run `timer` and, fairness aside, proved. The configuration is
chosen in the initial state.

**SysMemmap.** `__sys_memmap` does not take `queue_lock`, so each round of its
loop over the running list is an action (`Look`), between which other CPUs call the
scheduler. The search ends with the caller or with a stub (`TakeStub`), for which
`SYSMEM_INC_OP` does nothing. Kernel allocations come here without `mmvm_lock`,
hence several searches may go on at once.

**UserAlloc.** `__alloc` and `__free` hold `mmvm_lock`, so a call is one action;
there is one process, since no region structure is shared between processes.
Finding a region is `AllocFromFreeList`, growing the area through `sys_memmap`
is `AllocAtSbrk`, inside which `IncVmaLimit` is `inc_vma_limit` with its two
cases. `CallerFound` says whether `sys_memmap` finds the caller in the running list:
the runs and the theorems take `{TRUE}`, and the run `sys_memmap` shows
when that fails. A symbol table entry starts with zeroes or with what `malloc`
left. A program frees what it has allocated.

**KernelMM.** Save, switch, work, restore and unlock are one action each, since
the unlocked calls of other CPUs can come between any two of them. A CPU stands
for the process it runs. What a user operation does to the memory is left out;
since every path to the end restores the pointer, `Restore` covers all returns.
`__kmalloc` takes no lock, and is one action for each of its accesses to what
another CPU may change, which all go through `krnl->mm` as it is then:
* it finds the area (`Kmalloc`), and in it a free region (`KmallocFromFreeList`)
  or none (`SearchFails`); then it reads `sbrk` (`ReadOldSbrk`);
* `sys_memmap` finds the caller in the running list or does not, by
  `CallerFound`. If not, nothing grows (`MissCaller`), and `__kmalloc` does not
  look;
* if so, `inc_vma_limit` finds the area and its `sbrk` again
  (`EnterIncVmaLimit`). In case 1 the request fits (`FitsArea`), `sbrk` moves and
  the rest becomes free regions (`AdvanceSbrk`). In case 2 (`ExceedsArea`) the area
  is compared with the one that `krnl->mm` has by then, which may refuse the
  growth (`OverlapRefused`), or it grows (`GrowArea`) and `sbrk` follows
  (`CommitSbrk`);
* the region is entered in the symbol table (`RecordRegion`).

Requests are of one page each; an address is an area and a page in it. Only the
kernel's area is followed: where `__kmalloc` has come upon a process's area, that
one may have room, a free region, or neither. Local variables go back to their
initial values when the code is done with them. A program allocates once, into a
register of its own: two programs that name the same register share it by design.

**Paging.** `pgd` is the page table as a function from page numbers to entries;
`WalkInjective` in `PagingProofs` is why it may be one. An entry is a record of
its two marks and of the number in its low bits, of which `Fpn` and `Swp` read
different parts, so that an entry for swap read as one for RAM gives what the
code gets. `inc_vma_limit` maps pages by numbers of 4096 bytes and an access
goes by numbers of 256 bytes in the same table: areas are counted in pages of
4096, and `Ratio` is 16 in the code. `liballoc`, `libread` and `libwrite` hold
`mmvm_lock` from their first access to their last, hence one action each:
`Grow` (an allocation that makes the area grow), `Read` and `Write`, each with
the page fault in it if there is one. A fault follows `pg_getpage` line by
line: `mswp` after two copies in the same direction, entries of victim and
target, list of free swap frames, FIFO list. A frame holds the page that was
last written to it, or `Blank`. Two variables are history: `replaced` is set by
the first replacement and read by `Isolated` only; `remapped` has the pages whose
frame a growth dropped by mapping them again, and these frames. Such a page is in the
FIFO list twice, since `enlist_pgn_node` does not look for it. It can then be
evicted twice, and the second time gives away frame 0, which the entry of an evicted
page reads as. An access goes by page numbers of 14 bits (`PAGING_PGN`): beyond
4 MB of area they would wrap. In the code `MaxPgn` is 2^14 - 1, and
`PagingAssumption` keeps areas below that; `PageOf` of `Memory` relies on it. `fifo_pgn`, which
`init_mm` leaves unset, starts as NULL. The kernel's own area takes its frames
from the same list; it is left out.

**Memory.** One process has its variables followed; the others use the same
frames. `Heap` is `UserAlloc` with the area that `Paging` maps, `area[Self]`
pages of 4096 bytes: an allocation that does not fit is `AllocAtSbrk` of the one
and `Grow` of the other, together in one action, as `inc_vma_limit` does both.
`storage` gives each frame its bytes, each told by who wrote it; `written` is a
history of what each variable may rely on. A read or write goes to page
`PageOf` and byte `ByteOf` of the address that the region begins at, with the
page fault of `Paging` if need be; one that finds no page fails without telling. The process
writes inside its variables.

## 3. Runs

Passing runs explore all reachable states of their instance, with one exception
that *Bounds* gives for `memory`.

| run | instance | shows |
|---|---|---|
| `timer` | 3 devices, time up to 2 | `NoDataRace`, `NoLostWakeup`, `TimerOutlivesDevices`, that `Timer` implements `SlotClock` with its fairness, that `next_slot` and `main` return |
| `scheduler` | 2 CPUs, 5 processes, levels with budgets 3, 2, 1 | `NoProcessLost`, `OnePlace`, `RunningListExact`, `NoLevelOverserved`, and that the scheduler implements `FairDispatch` |
| `sys_memmap` | 2 CPUs, 2 processes | counterexample: a running process that `sys_memmap` does not find |
| `os_sim` | 2 CPUs, 3 processes, 216 configurations | `NoCpuStopsEarly`, `NoIdlingBesideWork`, `WholeQuanta`, `EveryProcessFinishes`, `BusyCpuStops` |
| `idle_cpu` | the same | counterexample: an idle CPU never stops, `main` does not return |
| `user_alloc` | 3 variables, sizes 0 to 3, pages of 2, area of up to 6 | `NoOverlap`, and that `UserAlloc` implements `RegionAllocator` |
| `kernel_mm` | 3 CPUs, no copies, `sys_memmap` finding its caller or not | under the lock, user operations work in their own memory and leave the pointer restored, whatever kernel allocations do beside them |
| `kmalloc_race` | 3 CPUs that only allocate kernel memory, `sys_memmap` finding its caller each time | counterexample: two CPUs with the same kernel region |
| `copy_race` | 3 CPUs that copy | counterexample: `krnl->mm` stays a process's for good |
| `paging` | 2 processes, 11 frames, 2 swap frames, areas of up to 2 pages, 5 page numbers | `VictimsKnown`, `FramesInReach`, `FreeFramesUnused`, `SwapConserved`, and `Isolated` until the first replacement |
| `page_loss` | the same | counterexample: a page brought in by a fault shows the data of the one evicted for it |
| `memory` | 2 variables of one process, another process, 7 frames of 2 bytes, area of up to 2 pages | `ReadsBack`: a variable keeps what was written to it; `VariablesInArea` |

The type invariants are checked with them. TLC looks for deadlock in every run:
that `main` has returned is an explicit action (`Terminated`) in `Timer` and
`OsSim`, so that any other state without a successor would be reported.

### Bounds

* **Three devices** are the least with a first, a middle and a last container;
  the timer visits them one at a time and each relates to the timer only. The
  proofs cover any number.
* **Five processes, three levels, two CPUs**: two levels with two processes, so
  that a level can be served again while another one waits, all wrap-arounds of
  the round, and processes that differ in `priority` within a level and that do
  not. The queue bound (5) is that of the processes. The proofs cover all values.
* **OsSim**: sizes 1, 2 and 5 with a quantum of 2 end before, at and after the
  end of a quantum; arrival at 0 or 2 makes processes come while CPUs idle, run
  or finish; `TimeCap` is the last arrival, after which no thread reads the time.
* **UserAlloc**: requests of nothing, less than a page, a page and more than a
  page; three variables give a free list with three regions and fragments.
  The variables are symmetric. The proofs cover all values.
* **KernelMM**: two CPUs suffice for each counterexample; three give chains of
  saved pointers, and free regions in the kernel's area, which come of a late
  write of `sbrk` by one CPU between two others. The CPUs are symmetric. The proofs cover any number.
* **Paging**: 11 frames are three growths and two frames left, so that a fourth
  growth fails and gives back what it took. An area of up to two pages grows by
  two at once, which maps the pages 0 to 2 and leaves page 3 to fault when it is
  read (`Ratio` is 2), or by one twice, which maps the pages 1 and 2 again. Page
  4 is outside every area, where only a write reaches. The fields are scaled with the
  memory: `FpnSpan` and `TypSpan` are 16 and 2 in place of 8192 and 32, which
  keeps their overlap. The processes are symmetric. The proofs cover all values
  with `NumFrames <= FpnSpan`.
* **Memory**: requests of 1 and 3 bytes are less than a frame and more than one,
  in an area that grows by 4 bytes, two frames; 7 frames are two growths, of
  the same process or of two, and one to spare for a page fault. Offsets 0 and 2 of
  a variable are in different pages. The other process writes to one page
  outside of its first growth. `FewRegions` stops at states after a replacement,
  of which `ReadsBack` promises nothing, and at free lists of more than three
  regions, which a program makes by growing two variables in turn and freeing
  both; every kind of splice is met before. The proofs cover all values, and
  the states that `FewRegions` stops at.

### Fairness

`Timer`: every thread that can take a step eventually takes one (the threads are
scheduled by the operating system), and a thread that finds a mutex free again
and again gets it; the latter is needed only because spurious wakeups may keep
taking the mutex, and POSIX does not let them happen for ever. Spurious
wakeups themselves are not fair. `SlotClock`: the tick comes while somebody
waits for it; this is the part of fairness that the run `timer` derives from
that of the threads. `OsSim`: weak fairness of each thread and of that tick.
A CPU need not be fair to instructions: `run` always returns.

## 4. Proofs

All theorems hold for every value of the constants allowed by the named
assumptions in the modules (`TimerAssumption`, `SchedulerAssumption`,
`UserAllocAssumption`, `KernelMMAssumption`, `PageTableAssumption`,
`PagingAssumption`, `MemoryAssumption`, `OsSimAssumption`).

**TimerProofs.** The inductive invariant is the conjunction of `LockInv` (who is
inside a critical section owns its mutex), `LifeInv` (the order of thread
creation and ends), `FlagInv` (`done` only while the device is in `next_slot`;
`fsh` exactly when it has left), `ScanInv` (containers behind the first scan or
ahead of the second are done or finished) and `CountInv` (the two counters agree
only if all counted devices are finished). Race freedom needs them together: the
mutexes do not exclude the two writers of `done`, the scan does. From it follow
`NoDataRace`, `NoLostWakeup`, `TimerOutlivesDevices`, and that every step of
`Timer` is a step of `SlotClock` or a stutter under the mapping of
`ImplementsSlotClock`, where a flag not yet cleared after a tick (`Stale`) does
not count as arrived.

**SchedulerProofs.** `TypeOK` contains the bound of the counter by the budget of
the current level. `OnePlace` is inductive with it; `NoProcessLost` needs
`OnePlace` to know that the queue a process is put into has room, by counting
its distinct elements (`QueueHasRoom`); `RunningListExact` likewise. The first lemmas
say what `Dequeued`, `Purged` and `Enqueue` do to the elements of a queue.
`NoLevelOverserved` is not inductive. `PolicyInv` relates
what a level `l` took while `w` waited to the position of the round: nothing if
the round has yet to pass `l` on its way to `w`, at most the counter
`curr_slot_cnt` if `l` is being served, and at most the budget otherwise.
`FairDispatchImplemented` puts these together: a call that dispatches from `l` finds
every waiting level short of the budget of `l`, because `PolicyInv` holds after the
call; that it moves one process and no other follows from `OnePlace`, and that an
enqueue adds its process from the room that `Fits` gives.
`CallerFoundUnlessMoved` is about `SearchFindsCaller`, which the run `sys_memmap`
refutes: it holds as long as no `put_mlq_proc` comes during a search
(`NoPutDuringSearch`) and `Fits`. `SearchInv` says that the entries a search has
passed are not its caller's; dispatches only append to the list (`ListPrefix`),
arrivals and ends leave it alone, and `RunningListExact` has the caller among the
entries still to come. So it would do to hold `queue_lock` against `put_mlq_proc`
alone.

**OsSimProofs.** Every step of a thread is a step of `Scheduler` or leaves its
variables alone (`ImplementsScheduler`), so that its theorems hold of the
simulator too and the proofs here may use them. `ThreadInv` relates the place of
a CPU in its loop to the slot and to what it holds. On top of it:
* `QuantumInv`: what a process has run and what its CPU has left in `time_left`
  are together a whole number of quanta, or the process is at its end. It is
  kept because a CPU without a process has no time left, which is why
  `time_left = 0` at `os.c:73` matters. It implies `WholeQuanta`.
* `IdleInv`: beside an idle CPU there wait at most as many processes as there
  are CPUs that have just put one back and will take one, and one more that the loader
  has brought in this slot. At the end of the slot no CPU is of the former kind,
  which is `NoIdlingBesideWork`.
* `PartInv`: once the loader's last process came in an earlier slot, there are at
  most as many unfinished processes as CPUs that are neither at the test of
  `done` nor stopped. A CPU comes to that test when nothing waits, and then each
  unfinished process is on another CPU (`OnePerCpu`, by the pigeonhole
  principle). It gives `NoCpuStopsEarly`, for as many processes as a queue takes
  (`Fits`): when `enqueue` drops one, no CPU holds it.

**UserAllocProofs.** `NoOverlap` is inductive together with `AreaInv`: the area
is always used up to its end (so the first case of `inc_vma_limit` never
occurs for a request of more than nothing), and the free list is never empty.
`AllocatorImplemented` maps each call to a call of `RegionAllocator`. The
assumption is `CallerFound = {TRUE}`; without it `NoOverlap` is false.

**KernelMMProofs.** `TypeCorrect` holds of all calls. `OwnMemory` and
`PointerRestored` assume that no call copies between user and kernel memory, as in
the run `kernel_mm`; the run `copy_race` shows that `Restored` is false
otherwise. The invariant adds to the properties who holds `mmvm_lock` at which
place (`LockInv`) and that what the holder has saved is the kernel's pointer
(`SavedInv`).

Two theorems say what the races are due to. Both have all calls, copies too, but take
it that no two of them overlap (`Alone`), which is what a lock round every call
would bring about and the code does not.
`SerialCallsAreSafe`: then each call works in its own memory, and the pointer is
restored. `SerialRegionsApart`: if moreover `sys_memmap` finds its caller each
time (`FALSE \notin CallerFound`), `KernelRegionsApart` holds. The second
hypothesis is not about memory calls: a `put_proc` of another CPU can make the search
fail (run `sys_memmap`), the area then stays as it is, and the next call, alone
as it may be, gets the same region. Without either hypothesis
`KernelRegionsApart` is false.
The proof has three parts. `AreaInv`: the area ends at `sbrk` except between `GrowArea`
and `CommitSbrk`, and has no free region, so that case 1 does not occur.
`KmallocInv` follows what `__kmalloc` has read through its steps. `RegionInv`: no
region of the symbol table reaches the page that is being allocated.

**PagingProofs.** `IInv` conjoins the properties with `EntryInv` (an entry
that is not present is empty, and the low bits of any other one are the number of
a frame), `ListedInv` (a listed page is present), `SwapInv` (the first free swap frame is frame 0), `FreeInv` (no entry
names a free frame, and frame 0 is free only until something is mapped) and
`BlankInv` (a free frame has not been written). They hold for a reason that
looks accidental: an entry
that faults is always empty, so its "swap frame" is 0; the first victim goes to
swap frame 0, which is returned at once, so 0 is the head of the list again for
the next one. Hence swap is never used up, and the entry of an evicted page
reads as frame 0, which is in RAM and never free. `ListKeepsStep` is about what can
become a victim: every page that has a frame is listed, and every listed page has one
and is listed once, unless it has been mapped again; one that has been may still be
listed after its eviction. `FramesLostByRemapping` says that frames get out of
reach by such mappings only, neither in the rollback of a growth that finds too few
of them nor in a fault, where the frame of the victim passes to the page that
faults. The bound of `NumFrames` by
`FpnSpan` is needed for `FreeFramesUnused` and `Isolated`: otherwise two frames
have the same number in an entry.

**MemoryProofs.** The proof composes the two below it. Every step of `Memory` is a
step of `Paging` and a step of `UserAlloc`, or leaves the variables of the one or the
other alone (`BothSteps`), so that `IInv` of `PagingProofs` and `IInv` of the instance
`HeapProofs` of `UserAllocProofs`, whose assumption follows from `MemoryAssumption`
(`HeapAssumption`), are kept by what is proved there. A growth needs a
calculation: the bytes that `UserAlloc` adds are the pages that `Paging` adds
(`GrowthSize`). `MemInv` adds `BytesTyped` (only bytes of a variable are written),
`UnusedInv` (a variable not yet allocated has none) and `ReadsBack`. That a write
destroys no other byte has three parts: two variables have no address in common
(`OwnBytes`, from `NoOverlap`), page and byte tell an address (`SameAddress`), and two
pages, of one process or of two, have no frame in common before the first
replacement (`OtherFrames`, from `Isolated`). `VariablesInArea` comes of `AreaInv`:
`sbrk` is the end of the area. It is about the size of the area and does not say that the
pages are mapped, which those of a failed growth are not. `ImplementsPaging` and
`ImplementsVariables` say that the theorems about the two parts hold of the whole. As in
`UserAllocProofs`, `sys_memmap` finds its caller. The proof has no counterpart of
`FewRegions`: it covers the states that the run `memory` leaves out.

Only model-checked: all liveness properties and the fairness part
of `ImplementsSlotClock`, since neither `ENABLED` nor liveness under fairness is in
reach of the installed provers. Every safety invariant that a passing run checks
is proved.

## 5. Disagreements found

1. `sys_memmap` searches the running list without `queue_lock` (`sys_mem.c:35`)
   and may not find its caller, when another CPU takes an earlier entry off the
   list meanwhile; it then does nothing, and `__alloc` believes it did. The same
   comes of 50 finished processes, which the list keeps (`os.c:71`) until it is
   full and drops running ones.
2. A CPU that is idle when the loader finishes never stops (`os.c:63-66`), and
   the program hangs.
3. Kernel allocations take no lock (`libmem.c:556`): two of them can enter the
   same region, and one that overlaps a user operation of another CPU can find
   that process's memory in `krnl->mm` (`libmem.c:530`). Two that do not overlap
   get the same region, too, if the first one's `sys_memmap` ran into
   disagreement 1 (`libmem.c:566` does not look at what it did).
4. Unlocked copies can restore each other's pointer (`libmem.c:844`).
5. A page fault copies RAM to swap twice and never swap to RAM
   (`mm-vm.c:51`, against `libmem.c:278-281`), so that the page brought in shows
   the data of its victim. Nor is an evicted page ever brought back, since
   `pte_set_swap` marks it as present.

Each has a run. One more needs none: the comment at `queue.c:31-33` takes it that
the elements of one level have the same `priority`, so that its queue is first in,
first out. The level is the field `prio`, from the configuration file, and
`priority` comes from the process file; `Best` picks by the latter. Nor does a
victim always have a "current RAM frame number", as `libmem.c:259` calls it: a page
that was mapped again can be evicted twice (`VictimsKnown` excepts it).

## 6. Not modelled

* The pages of the kernel's own area, `vmap_pgd_memset` (which only a program's
  own system call `SYSMEM_MAP_OP` reaches), `init_pte` and `free_pcb_memph`
  (which nothing calls), sequential memory devices (which `os.c` does not make),
  and RAM with more frames than an entry can name.
* The cache pools of the kernel: `kcpooltbl` is never allocated, so that
  `libkmem_cache_pool_create` and `libkmem_cache_alloc` return -1 and change
  nothing. `krnl_pgd`, which `__kmalloc` fills and nothing reads.
* Writes of a program beyond the end of a variable, which `__write` does not
  stop: `Paging` has them, `Memory` does not, as what they destroy is what the
  program asked for. The direct requests of the instruction `syscall`.
* That a page mapped again by the next growth loses what it held, and its old
  frame is out of use for ever, is in the model (`VmapPageRange`, `Dropped`,
  `MappedByGrowth`); `ReadsBack` and `FramesInReach` except it.
* What happens after a use of freed memory: a process descriptor at the address
  of a freed one (so that a stale entry of the running list is that of a process
  not yet dispatched), and the fields read through stale entries.
* Overflow of `int` in `__alloc` and `get_free_vmrg_area` (sizes beyond 2^31),
  region numbers outside the symbol table, freeing a variable that was never
  allocated.
* Parsing of configuration and program files, and all output.
* `mem.c`, `paging.c`, `mm.c` and the scheduler without `MLQ_SCHED`, which this
  build does not use.

## 7. Plan

Done, in this order: timer with its abstract clock, scheduler, the two together
in `OsSim`, the memory area with its abstract allocator, the switching of
`krnl->mm`, page tables and paging, kernel allocations, the memory of a program
from variables to frames, the scheduler's abstract dispatcher; theorems about all of
them. Next:

1. The pages of the kernel's area, which `inc_vma_limit` maps like a user's, in
   `Paging`; requests that a program makes with the instruction `syscall`.
2. Exhaustion: more processes on a level than a queue takes, as a variant of
   `OsSim`, and what then becomes of `EveryProcessFinishes`.
