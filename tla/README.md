# A verification development for AKOS

AKOS is a small graphical kernel for a single 32-bit x86 processor: a
preemptive scheduler, processes with their own page directories, a window
system, file systems on a floppy and in memory, a shell and a few user
programs. This directory holds TLA+ models of its logic, the TLC
configurations that check them on small instances, and proofs for TLAPS of most
of the invariants and of both refinements.

## 1. The system

| part | code | state it keeps | operations | what is hard |
|---|---|---|---|---|
| scheduler | `kernel/scheduler.c`, the stubs of `kernel/kernel_entry.asm` | `_readyQueue`, `_currentTask`, each thread's state, wake-up time and stack | dispatch, tick, sleep, suspend, wake, fork, disable/enable | preemption between any two instructions; the head of the queue *is* the running thread; marked threads reaped by the dispatcher, which runs with interrupts off |
| processes | `kernel/process.c` | `processList`, `threadList`, `livingThreads`, file descriptors, the break | create, terminate, insert, find | a program can run before its creator has finished entering it; two killers; kernel and user processes end differently |
| kernel heap | `kernel/heap.c` | bitmap of 8-byte blocks, counter, a length word before each allocation | kmalloc, kcalloc, kfree | search, then marking, without a lock; word boundaries of the search |
| physical and virtual memory | `kernel/pmm.c`, `vmm.c`, `pde.c`, `pte.c` | frame bitmap and counter, directories and tables, `_cur_directory` | regions, allocate, free, map, unmap, share, release a directory | shared kernel tables must never be freed with a process; every private frame must be |
| window system | `kernel/window_sys.c` | windows in depth order, the working window, a ring of 20 operations with a spin lock, an event ring of 10 per window | create, move, close, focus, display, events | interrupt handlers enqueue operations and close windows; a lock held by an interrupted thread |
| input | `drivers/keyboard.c`, `drivers/mouse.c` | modifier keys, packet phase, cursor, drag | handle irq 1 and 12 | they wake threads that may be about to suspend |
| shell | `kernel/shell.c` | line buffer, command table, environment | read a line, run a command, kill | check-then-suspend; waiting for programs by polling |
| interrupts, system calls | `kernel/irq.c`, `isrs.c`, `idt.c`, `sysapi.c` | handler table | dispatch, fault | a fault handler that turns interrupts on again |
| loader | `kernel/loader.c` | - | load a PE image | runs in the new address space |
| file systems | `kernel/vfs.c`, `drivers/tmpfsys.c`, `drivers/fat12fsys.c` | block and cluster chains, directories, open files | open, read, write, create, delete | chains and lengths in agreement at block boundaries; a full disk half way |
| floppy, DMA | `drivers/floppy.c`, `drivers/dma.c` | irq flag, one DMA buffer | read and write a sector | one flag and one buffer for all callers |
| timer | `drivers/timer.c` | tick counter | wait, sleep | a counter its users reset |
| user library | `root/cstdlib/*` | the user heap over `sbrk` | malloc, free | the same bitmap, growing memory |
| user programs | `root/bin`, `root/script` | - | the editor, games, tests | several threads of one program by `fork` (`party.c` forks five times) |
| drawing, text, clock, network card | `drivers/screen.c`, `utils/graphics.c`, `drivers/cmos.c`, `drivers/rtl8139.c` | frame buffer | draw, print | none that other parts decide on |

The parts interact in four ways.

* *Calls with the scheduler disabled.* `disable_scheduling()` nulls
  `_currentTask`; both scheduler stubs return at once when it is null. This is
  the kernel's only general mutual exclusion. It does not stop other interrupt
  handlers, does not nest and has no owner: `enable_scheduling()` declares
  whatever heads the ready queue to be the running thread.
* *Interrupts.* Irq 0 enters the scheduler. The keyboard and mouse handlers put
  operations in the window system's ring and wake suspended threads.
* *Shared memory.* All kernel code works on the same lists in the kernel's part
  of every address space.
* *Deferred release.* The exit of a process only marks its threads; the
  dispatcher frees their stacks, and with the last thread the page directory and
  the descriptor, when the thread next comes to the head of the queue.

### What makes each part correct

* scheduler: the executing thread heads the queue; no thread is queued twice;
  the dispatcher returns, starves nobody and frees nothing in use; sleepers wake.
* processes: descriptors are freed exactly once, after their last thread; ids
  name one process; whoever exits is completely cleaned up.
* allocators: live allocations are disjoint, inside the arena, and the counter
  agrees with the bitmap; all is returned in the end.
* address spaces: a frame belongs to one owner unless it is shared on purpose;
  kernel tables outlive every process.
* window system: every operation enqueued is performed once, in order; the
  working window exists; events reach the window they were meant for.
* file systems: chains are disjoint and acyclic, lengths match chains, what was
  written is what is read.

`PROJECT.json` lists the hazards found in the code, each at its line, with the
properties that watch it.

## 2. The modules

In order of importance; each module is small enough to be read next to the
code it stands for.

| module | models | abstract specification / composition |
|---|---|---|
| `ReadyQueue` | the list operations of `scheduler.c` | used by `Scheduler` |
| `Scheduler` | dispatch, tick, blocking, creation, fork, exit | - |
| `SchedulerProofs` | its inductive invariant, ten theorems: the queue, exclusion, counts and lifetimes of descriptors, wake-up times | - |
| `WinsysQueue` | the operation ring and its spin lock, threads and the mouse interrupt | implements `OperationQueue`, a FIFO |
| `WinsysQueueProofs` | its inductive invariant, four theorems, the refinement | - |
| `WindowList` | depth order, focus, creation, removal, release of a process's windows | takes the ring as a FIFO |
| `WindowListProofs` | its inductive invariant and four theorems | - |
| `KernelHeap` | the bitmap allocator | implements `Allocator` |
| `KernelHeapProofs` | its inductive invariant, four theorems, the refinement | - |
| `PhysMem` | frames: bitmap, counter, regions | used by `AddressSpaces` |
| `AddressSpaces` | directories and pages; loader, creation, fork, `sbrk`, windows, exit | composes `PhysMem` and the memory side of processes and windows |
| `AddressSpacesProofs` | its inductive invariant and two theorems | - |
| `EventRing` | the events of a window: the handlers against the program | carries the FIFO it should be (`evQueue`) |
| `EventRingProofs` | its inductive invariant and one theorem | - |
| `Fat12` | the file system on the floppy, with power cuts | a file is a sequence of bytes (`fatText`) |
| `TmpFs` | the file system in memory | a file is a sequence of bytes (`tmpText`) |
| `Floppy` | the driver and the controller | a disk is a function from sectors (`flText`) |
| `Vfs` | descriptors, the locks of the switch | composes `Floppy` |
| `VfsProofs` | the inductive invariant of `Vfs` over `Floppy`, four theorems | - |
| `TextEditor` | `tedit`: lines in regions, the cursor | plain lines (`edText`) |
| `TextEditorProofs` | its inductive invariant and one more theorem | - |
| `MC...` | instances for TLC | `MCKernel` and `MCStorage` hold several modules, see section 7 |

Left for proof: the file systems (section 12 says what that needs). Left to
model: the end of kernel processes, two killers at once, a process killed inside
a file call.

## 3. The scheduler models

### Correspondence

`ReadyQueue` treats `_readyQueue` as a sequence of threads. `InsertPrioritized`
is both prioritized insertions (by value and of an entry), which put the new
entry *after* the first entry of lower priority, and so never in front of the
head; `Rotate` is the remove-and-insert of one turn of `scheduler_dispatch`.

| `Scheduler` | code |
|---|---|
| `queue`, `current` | `_readyQueue`, `_currentTask` (`NoTask` is null) |
| `cpu`, `mode` | whose registers are loaded; whether the processor is inside `scheduler_dispatch`, and from which stub |
| `curdir` | `_cur_directory` and cr3 |
| `flags`, `delta` | `thread.state`, `thread.sleepTimeDelta` |
| `pc`, `arg` | the point a thread has reached in a kernel operation and its operand |
| `reg` | what the operation has read and is about to use: the end of a list walk, the threads seen in `threadList`, the loaded `livingThreads` |
| `linked`, `living` | `process.threadList`, `process.livingThreads` |
| `space` | the process's descriptor and page directory: not yet allocated, allocated, freed |
| `next` | `process.next`, and `processList` as the successor of null; `Listed` is what it leads to |
| `Tick`, `Schedule` | `scheduler_isr` and `scheduler_raw` up to the call of the dispatcher |
| `DispatchSkip`, `DispatchReap`, `DispatchBlocked`, `DispatchRun` | the four ways a turn of the loop ends, the last with the count-down of `scheduler_tick` and the switch of stack and directory |
| `SleepFlag`, `SleepDelta`, `Suspend` | `thread_sleep` in its two steps, `thread_suspend` |
| `Unsuspend` | `unsuspend_suspended_threads` from an input interrupt |
| `CreateBegin` ... `InsertThreadToProc` | `createProcess` in the steps between which it can be preempted |
| `Fork` | `fork`, one critical section |
| `TerminateLookup` ... `TerminateMark` | `terminateProcess`, `terminateProcessById` of a user process, by a thread of its own |

A step of the model is a stretch of code that no other thread can observe half
done: a critical section, a single assignment, or code with interrupts off.
Where the code has several assignments with scheduling enabled
(`thread_sleep`, the end of `createProcess`, the start of
`terminateProcessById`) each is a step, and so is a walk over a list that is
followed by an assignment at the place it found: `insert_process` and
`removeProcessFromList` read `processList` and then write one link, so two of
them can undo one another (a process that is entered behind one that is being
taken out is lost, one that is taken out can stay), and
`insert_thread_to_proc` is four steps: the walk over `threadList`, the link,
the load of `livingThreads` and the store of one more.

### The runs

`MCScheduler` gives the instances: the window server (never blocks), the shell,
a program with one thread to fork, and a second program.

| run | instance | shows |
|---|---|---|
| `scheduler_safety` | four threads, all of which may block; the shell may start `mainB`, `mainA` runs from the start and may fork `childA` | `TypeOK`, `RunningIsHead`, `QueueSound`, `ParentsLive`, `LivingCounts`, `MarkedOnlyYields`, `SleepArmed`, `OwnAddressSpace`, `CriticalSections` |
| `scheduler_live` | four threads, nobody starts programs | `DispatchReturns`, `EveryoneRuns`, `SleepersWake`, `TerminatedIsFreed` |
| `sleep_race` | two threads | *violated*: `SleepEnds`. A tick between the flag and the wake-up time of `thread_sleep` loses the sleeper for good |
| `exit_race` | three threads, the shell starts `mainA` | *violated*: `TerminatedIsFreed`. A program that exits before `insert_thread_to_proc` is never reaped |

The safety instance has no window server: the shell's `kill` can end it. With the
server in the queue `DispatchSkip` never happens, because a high-priority thread
that does not block is always second behind a running user thread, so its page
directory is loaded before a marked thread comes up. TLC explores the instance
with it too, with the same result.

Bounds. Four threads are enough for every relation the queue knows: two
priorities, two threads of one process, a thread being created while another
exits. `SleepMs = {10}` is one tick: longer sleeps only repeat the count-down.
The safety instance keeps apart two things that go wrong together: a program
that forks *while its creator has not yet counted its main thread* loses a count
(either the creator stores over the child's count, or the child exits first) and
`livingThreads` drops to zero with a thread queued: `LivingCounts` and
`ParentsLive` are violated when one program is both created and forked in an
instance. It is the consequence of the order of `process.c:280-282` shown by
`exit_race`. When the only thread of a started program exits before it is
counted, the count ends at zero without ever having passed through one: the
descriptor is never freed, and as the process has no thread in the queue any
more, `LivingCounts` says nothing of it. In the same way
`SleepMs = {5}` violates `SleepArmed`: a sleep shorter than a tick has no
wake-up time. User programs call `sleep(30)` and `sleep(1000/60)`, so the
instance keeps to sleeps of a tick or more.

Fairness. `WF(Dispatch)`: the loop runs with interrupts off, nothing can hold it
up. `SF(Tick)`: the timer does not stop, and although a given interrupt may fall
into a critical section and be ignored, the sections are a few hundred
instructions against a 10 ms period, so not all do. `SF(KernelStep(t))`: a thread
that gets the processor again and again gets further with the operation it is in;
it is strong because preemption disables the step over and over. Nothing is
assumed about which operations programs call, nor that input ever comes.
`Awake` holds the window server, whose loop polls its ring and never blocks:
without such a thread the dispatcher can spin for ever.

### The proofs

`SchedulerProofs` proves, for any finite or infinite sets of threads and
processes, any priorities and any `PHASE`:

| theorem | states |
|---|---|
| `Invariance` | `Spec => []IInv` |
| `TypeCorrect` | `TypeOK` |
| `HeadRuns` | `RunningIsHead` |
| `QueueStaysSound` | `QueueSound` |
| `SchedulingExcludes` | `CriticalSections` |
| `MarkedStops` | `MarkedOnlyYields` |
| `RunsAtHome` | `OwnAddressSpace` |

Assumptions: `PrioAssumption` and `SchedulerAssumption`, the shape of the
constants; TLC evaluates them in every run.

`RunningIsHead` is not inductive alone. That an operation finds its caller at
the head needs `CriticalSections` (otherwise `current` says nothing about the
caller); that `queue_insert` adds no duplicate needs `QueueSound` together with
`OneCreator` (a thread being created is out of the queue, no longer fresh, and
known to one creator only); that the operands are threads or processes is
`Operands`; `LoadedDirectory` says which page directory is loaded inside and
outside a creator's critical section. `IInv` is the conjunction of these with
`TypeOK` and `MarkedOnlyYields`. The lemmas on `InsertPrioritized`, `Rotate` and
`Append` give head, members and absence of duplicates; then one lemma per action
shows that each conjunct survives.

Three more theorems, for the same constants:

| theorem | states | hypothesis |
|---|---|---|
| `LivingThreadsCount` | `LivingCounts` | `StartedDoNotFork` |
| `ParentsStayLive` | `ParentsLive` | `StartedDoNotFork` |
| `SleepersArmed` | `SleepArmed` | `LongSleeps` |

The first two are proved together (`CountInv /\ LifeInv`). `CountInv` says that
`livingThreads` of a process that is there from the start is the number of its
threads in the queue, and follows a started process through its creation: zero
as long as the main thread is fresh, being created, or queued and not counted,
zero also in the creator's register when it is about to store, and one from then
on. That only a started process has a creator, and only one, is `CreatorsLive`
and `OneCreator`. `ParentsLive` rests on the count: the dispatcher frees a
descriptor when it falls to zero, and the count then says that no thread of the
process is left in the queue.

The two hypotheses are the two restrictions of the runs, now stated for any
constants. `StartedDoNotFork`: a program that is started by another has one
thread; those that run from the start may fork. Without it a program that forks
before its creator has counted it can lose its descriptor, as above. `LongSleeps`:
no sleep is shorter than a tick, as in every program of the repository.

Liveness is model-checked only: the prover does not reason about fairness.

## 4. The operation ring

`WinsysQueue` models `winsys_enqueue_to_winsys_listener`,
`winsys_dequeue_from_winsys_listener`, `winsys_listener` and the spin lock of
`kernel_entry.asm`, each access to a shared variable a step.

| `WinsysQueue` | code |
|---|---|
| `ring`, `index`, `start`, `end`, `lock` | `winsys_queue`, `winsys_queue_index`, `_start`, `_end`, `_lock` |
| `pc`, `op` | the point each context has reached, the operation it enqueues or performs |
| a context `<<t, n>>` | the thread `t`, or the `n`-th mouse handler on top of it; whatever is below a handler stands still until it returns |
| `Call`, `Interrupt`, `InterruptMove` | a thread calls the enqueue; irq 12 comes with a click that focuses or moves a window, or with anything else |
| `Event`, `Woken`, `Unscheduled` | the rest of the handler: the wake-up of the window's threads, `_currentTask` 0 meanwhile |
| `Check` | the early return `window_sys.c:222-226` |
| `EnqueueAcquire`, `Store`, `Count`, `Release` | `:228` to `:235` |
| `Poll`, `Choose`, `DequeueAcquire`, `Take`, `Drop`, `Free`, `Perform` | one turn of the listener |

`OperationQueue` is the abstract FIFO: operations are enqueued, dequeued in
order, and performed one at a time.

| run | instance | shows |
|---|---|---|
| `winsys_ring` | two producers, the listener, two mouse handlers on top of it | `TypeOK`, `OneHolder`, `SelfSpinsInWakeUp`, `RefinesQueue`, `OperationsPerformed` |
| `winsys_self_spin` | one handler on top of a producer | *violated*: `NeverSelfSpin`. The early return looks only at the window server's own thread; any other thread interrupted with the lock in hand leaves the handler spinning for ever |

Handlers nest. `mouse_handler` acknowledges its interrupt before its body
(`mouse.c:103`) and the stub has executed `sti`, so the next irq 12 may come at
any point of it. That matters at one place: while a handler wakes the threads of
a window, `unsuspend_suspended_threads` has set `_currentTask` to 0, and
`get_running_process` tells a handler that comes just then nothing. Its early
return does not fire, and if the listener below, or any other thread, has the
lock, it spins, with scheduling disabled, for a lock nobody can release: the
machine stands still. TLC finds it in fourteen steps when `winsys_ring` is asked
for `NeverSelfSpin`. `SelfSpinsInWakeUp` says that on the listener's thread this
is the only way to it, `OperationsPerformed` that it is the only way for an
operation not to be performed (`Stuck`), and deadlock is not checked because the
system does stop there.

Bounds. `Size = 3`, `Burst = 2`: two operations in the ring or on their way are
enough for the indices to wrap and for an order to be lost, two producers and
two handlers to compete for the lock, and for the ring to be one short of full.
Two handlers are the shortest nest. `Burst < Size` is a real
restriction, and deliberate. The lock is also the back-pressure: whoever fills
the last slot keeps it (`:234`), and the listener, which has compared the index
with the size *before* (`:197`), then neither acquires nor needs to. The two
looks can disagree. If the listener reads an index below the size and a
producer then fills the ring and keeps the lock, the listener spins for a lock
that only it could release. If the listener reads a full ring that the filler
has not yet tested at `:234`, the listener empties a slot, the filler sees room
and releases a lock it may not hold any more. With `Burst = Size` TLC finds
both within seconds; the code says nothing about the full ring that these runs
would contradict, so they are described here and not kept as a run.

Fairness. Strong fairness for each producer's `Enqueue`, each handler and
`Listen`: the scheduler runs every thread again and again (`EveryoneRuns` of
section 3) and the handlers with the thread they interrupted. Strong, because an interrupt stops a thread for a
while and the lock may be taken each time a spinner looks. No operation and no
interrupt is assumed to come.

`WinsysQueueProofs` proves, for any finite set of producers, any operations and
any size of the ring:

| theorem | states | hypothesis |
|---|---|---|
| `RingInvariance` | `IInv` | `Roomy` |
| `RingTypeCorrect` | `TypeOK` | `Roomy` |
| `LockExcludes` | `OneHolder` | `Roomy` |
| `HandlersSpinInWakeUp` | `SelfSpinsInWakeUp` | `Roomy`, `OnListener` |
| `RingImplementsQueue` | `RefinesQueue` | `Roomy` |

`Roomy` is `Burst < Size`, the restriction of the run, for the reason given
there. `OnListener` says that handlers interrupt the listener only;
`winsys_self_spin` shows what happens otherwise. The depth of the nest is any.

`OneHolder` is not inductive. That neither side takes the way of the full ring
needs `RoomLeft`: the operations counted and those on their way stay within the
burst. That the listener takes an operation and not an old slot needs
`SomeThere`, and the refinement needs `RingFilled`, which says where in the ring
each pending operation lies, modulo the size, while an enqueuer is between its
store and its count too. The abstract enqueue is the step `Count`, the abstract
dequeue `Take`, the abstract finish `Perform`; every other step is a stutter.

## 5. The window list

`WindowList` has the list by its pointers, because it is written under
`winsys_win_list_lock` and read without it. Each write is a step, and each node
an unlocked reader visits is one.

| `WindowList` | code |
|---|---|
| `head`, `next`, `id`, `owner`, `working` | `win_list`, `WINDOW.next`, `.id`, `.parent_pid`, `working_window` |
| `used` | the windows the heap holds |
| `handles` | the ids in a program's own copies of its windows (`memcpy` at `:444`) |
| `ops` | the ring of section 4, as the FIFO it implements |
| `TakeFocus`, `Focus`, `Detach`, `AppendLast`, `Cut` | `winsys_set_working_window_operation` and its three writes |
| `TakeRemove`, `RemoveUnlink`, `Refocus`, `Free` | `winsys_remove_window_operation`, `winsys_remove_window_user` |
| `Create`, `Scan`, `TakeId`, `Link`, `Announce`, `Copy` | `winsys_create_win_user` with `winsys_get_free_id` walking the list |
| `CloseOwn` | the system call `winsys_remove_window` of a program that runs on (`sysapi.c:16`, `tedit.c:799`) |
| `Terminate`, `ReleasePass`, `ReleaseFound`, `ReleaseNone` | the end of a process, `winsys_remove_windows_by_pid` |
| `Stop` | the marking of its threads, which follows (`process.c:550`) |
| `Click`, `SendClick` | the mouse handler: the window under the cursor, then the operation |
| `Send` | an enqueuing; a handler on top of the listener drops its operation when the lock of the ring is taken (`:222`) |

| run | instance | shows |
|---|---|---|
| `windows_focus` | the desktop, two programs and two windows they create, which they or the mouse may close, and a mouse that clicks | `TypeOK`, `ListSound`, `FocusAlive`, `FocusInFront` |
| `windows_release` | one program, no mouse | *violated*: `WindowsReleased`. A program ends while the listener has its window out of the list; the release does not meet the window and it stays |

Bounds. Three windows are the least for which taking one from the middle,
from the end and from the front differ. `MaxCreated = 2`: either program creates
both, or each one, and a window closed and freed is created again with the
same memory and the same id. `MaxOps = 1` leaves one operation in the ring
beside the one in the listener's hands. `Handlers` is the set of runs of the
mouse handler that may be under way, since irq 12 interrupts itself
(`mouse.c:103`); the run has one, the theorems any number. A program has one
thread that deals with windows, and the desktop's window is the only one of the
kernel. Both programs may have ended, so the run may stop. `windows_release` is
without the mouse, so that what its trace shows is the walk alone: a mouse
handler can also lose the removal because it drops it.

What the run says and does not say. Ids are *not* unique: `winsys_get_free_id`
may miss a window that is being moved. In this instance `ListSound` and
`FocusAlive` hold all the same; `FocusInFront` is stated for lists without such a
pair, and makes an exception of the window whose program was closed between
linking it and asking for the focus. Removals go by id too: a program that closes
its window (`CloseOwn`) and then ends may have the same id removed twice, and
the second time it may be another program's.
Between `:508` and `:509` the list is a circle, under the lock, which readers do not take: a
handler that interrupts the listener there never returns, and endless clicking
can keep a reader walking, so nothing is promised about walks ending. Besides
the race of `windows_release` the release has a second gap: it enqueues the
removal of the first window it meets only (`:1163`). `Link` holds
`winsys_win_list_lock` within one step; a program closed by the mouse between
`:423` and `:437` would leave the lock taken and is not modelled.

`WindowListProofs` proves, for any finite set of windows, any programs and any
bounds:

| theorem | states | hypothesis |
|---|---|---|
| `WindowInvariance` | `IInv` | `NoReuse` |
| `WindowTypes` | `TypeOK` | `NoReuse` |
| `ListStaysSound` | `ListSound` | `NoReuse` |
| `FocusStaysAlive` | `FocusAlive` | `NoReuse` |
| `FocusComesInFront` | `FocusInFront` | `NoReuse` |

`IInv` describes the list as a path (`ListPath`): from `head` the pointers lead
through different windows to null or, while the list is cut, back into it. With
that each of the listener's writes is an operation on a sequence: taking out of
it, putting behind it. `Order`, a part of the path, says who is in front of the
window with the focus: only windows for which an operation is still on its way.
`Ids` keeps the desktop in the list, `Creators` says that a window belongs to its
creator alone until it is linked, and `Hand` what the listener has in hand at
each of its steps.

`NoReuse` is there because the proof found a case that the run is too small for.
`winsys_get_free_id` walks the list without the lock. The window it stands at may
be closed and freed, and `kcalloc` may hand the same memory to another program:
the walk goes on in a cleared window, ends there, and may return id 1, the
desktop's. The program that gets this id and closes its window closes the desktop
in its place. It takes three creations: a program creates a window, closes it and
creates another while a second program searches from the first one. With
`MaxCreated = 3` TLC comes to a state in which the desktop is closed and the list
empty; the code then has no `working_window`, so `FocusAlive` fails; with two creations the step cannot happen, and TLC
checks the four invariants without the hypothesis (and has checked `IInv` on the
same instance). `NoReuse` excludes this one step only: that the
window at which the search of a running program stands is allocated again. Under
it the desktop is never closed, and `winsys_remove_window_user` of the last
window is not reached.

`MaxCreated` bounds the windows for TLC; the theorems hold for any value.

Fairness (`windows_release` only): the listener, the handler and each program's
creation and release steps go on; nobody is obliged to create, end or click.

## 6. The kernel heap

| `KernelHeap` | code |
|---|---|
| `map`, `used` | `_alloc_memory_map`, as the set of its bits that are 1, and `_alloc_used_blocks` |
| `header` | the length word in front of each allocation |
| `pc`, `want`, `scan` | a caller's point in `kmalloc`, the blocks it wants, and `i*32+j`, `current_seq_len`, `current_set_first_index` |
| `Kmalloc` | entry and rounding (`heap.c:18-23`) |
| `Check`, `Fail` | the counter's test, and the two ways to return null |
| `SkipWord`, `TestSet`, `TestFree` | one turn of `_alloc_mmap_first_free_s` |
| `Mark`, `WriteHeader`, `Kfree` | the marking loop, the length word, `kfree` |

The marking and the freeing loops are a step each: nothing in them depends on
what others do. `Allocator` is the abstract promise: what is given out was free
and lies in the arena; a request is refused only if no gap is large enough.

| run | instance | shows |
|---|---|---|
| `heap_one` | part `heap` of `MCKernel`: one caller, eight blocks in words of two, requests of 1, 2, 3 and 9 blocks | `TypeOK`, `Disjoint`, `CounterAgrees`, `ImplementsAllocator` |
| `heap_race` | `KernelHeap` itself with two callers | *violated*: `CounterAgrees`. Both find the same blocks before either marks them |

Bounds. Words of two bits and four of them give runs inside a word, across a
boundary and across a full word; the request of 64 bytes needs more blocks than
the arena has. `BlockSize = 8` and `DescSize = 4` are the code's.

`KernelHeapProofs` proves, for any arena, word length, block size and request
sizes, under the hypothesis `OneCaller` (calls do not overlap: what the code
assumes and `heap_race` shows it does not ensure):

| theorem | states |
|---|---|
| `HeapInvariance` | `[]IInv` |
| `HeapTypeCorrect` | `[]TypeOK` |
| `AllocationsDisjoint` | `[]Disjoint` |
| `CounterCounts` | `[]CounterAgrees` |
| `HeapImplementsAllocator` | `ImplementsAllocator`, by a step simulation |

Assumption: `HeapAssumption`, the shape of the constants. `Disjoint` is not
inductive: that the blocks to be marked are free rests on `Scanned` (the current
run is free) and `Found`; that kmalloc refuses only for want of a gap rests on
`NothingMissed`, the loop invariant of the search (every run passed over is
interrupted by a used block, every gap of the wanted length too), and on the
counter agreeing with the map; that an area is new rests on `Owned` and `Asks`.
The cardinality arguments use the library's theorems on unions, differences and
intervals. Sizes are natural numbers: `size + 4` wrapping at 2^32 is not
modelled.

## 7. Runs that hold several modules

`MCKernel` extends `KernelHeap`, `AddressSpaces` and `EventRing`; `MCStorage`
extends `Fat12`, `TmpFs`, `Vfs` and `TextEditor`. The modules of one instance
share no state. A variable `part`, chosen at the start, says which of them takes
steps; the others keep their initial state. A behaviour of such an instance is
a behaviour of one module, so every property is checked as it would be in a run
of its own, and the fairness of a module is assumed only where it is the part.
Nothing is claimed about the modules interleaved. The number of calls in a
behaviour is bounded, so both runs may stop and deadlock is not checked there.

| run | part | properties |
|---|---|---|
| `heap_one` | `heap` | section 6 |
| | `spaces` | `FramesOwned`, `HeapMapped` |
| | `events` | `EventsOrdered`, `EventsServed` |
| `storage` | `fat` | `FatChains`, `FatLeaks`, `FatReadsBack` |
| | `tmp` | `TmpBlocksOwned`, `TmpFilesKept` |
| | `vfs` | `FloppyDelivers`, `FdsKept`, `FloppyReturns` |
| | `editor` | `TextKept` |
| `tmpfs_ids` | `TmpFs` itself | *violated*: `TmpIdsUnique` |

`StorageTypeOK` is the type invariant of the four parts of `storage`;
`FramesOwned` and `EventsOrdered` contain those of their modules. The `vfs` part
of `StorageTypeOK` is `VfsTypeOK`, which is proved.

## 8. Frames and address spaces

`PhysMem` has the manager as a record of the bitmap and the counter.
`AddressSpaces` numbers the virtual pages, `TablePages` to a page table; table 0
is the kernel's and is shared by every directory. A page has four units, in which
images and `sbrk` count, so that an end may lie inside a page. The bases of the
code (`USER_KERNEL_STACK_ALLOC_BASE`, `USER_SPACE`, `KERNEL_STACK_ALLOC_BASE`)
are constants that divide the pages above table 0 into areas: images and, from
above, user stacks; kernel stacks of programs; windows; kernel stacks of kernel
processes.

| `AddressSpaces` | code |
|---|---|
| `spMem`, `spDirs`, `spCur` | the frames, the directories with their tables and pages, `_cur_directory` |
| `spKernel` | the directories of the window server and the shell, and the shell's stack; set at the start |
| `spProcs` | descriptors: `pid`, `pageDirectory`, the image, `brk`, the stacks of each thread |
| `spWins` | the windows of programs in the server: page, owner, removal enqueued |
| `createProcess`, `CreateFails`, `load_executable` | creation from the shell or a program, with the creator's stack mapped meanwhile; the loader finds no image |
| `fork`, `inc_proc_brk` | a thread's two stacks; the heap's end and the pages up to it |
| `winsys_create_win_user`, `winsys_remove_window`, `winsys_remove_windows_by_pid`, `winsys_remove_window_user` | the buffer in the program's user space, shared with the server, and its release |
| `terminateProcessById`, `DispatchTerminated` | image, heap and user stacks; later each kernel stack, and with the last one the directory |
| `vmmngr_switch_pdirectory` | another process runs |

`SpaceInit` runs `pmmngr_init_memory_regions`, `vmmngr_initialize` and
`scheduler_initialize`: the initial state is computed, not given.

`FramesOwned` says that every frame in use has exactly one owner, that every
owned frame is in use, and that the loaded directory exists. Leaks, double frees
and the release of the kernel's table all break it. `HeapMapped` ties `brk` to
the page tables.

Bounds: 60 frames, two descriptors, two images (one whose sections end inside a
page), five calls: enough for two programs to run at once, fork, grow across a
page, open a window each and end in either order. A call is taken only if it
leaves a frame (`Left`) and finds an absent page in the area it searches. When
the frames run out, `vmmngr_alloc_virt` maps nothing and the kernel faults at the
next access; when an area is full, the search runs on into the next. Neither is
modelled.

What the run says and does not say.
* One call at a time: `pmmngr_alloc_block` has the race of `kmalloc`
  (`heap_race`), search first and mark later.
* The counter is *not* the number of bits. Frame 0 is marked again without being
  counted, and a region reserved twice is counted twice. `FramesOwned` says it
  is off by the amount it has after start-up and never more.
* The page of a window belongs to the server, which frees it while the program
  may still have it mapped. Only the first window of a process that ends is
  released (section 5); the others keep their frames, with the server as owner.
* `load_executable` fails only before it maps anything, so a failed creation
  returns every frame.
* While a program is being created, the page of the calling thread's *own* kernel
  stack is mapped in the new directory and unmapped at the end (`CallerStacks`).
  A thread made by `fork` has its stack in another page than the main thread, and
  `createProcess` gives the new main thread the first absent page: the page that is
  unmapped must not be that one. It is not, because the caller's page is present
  while the search runs.

`AddressSpacesProofs` proves, for any number of frames and processes, any
layout, any executables and any calls:

| theorem | states |
|---|---|
| `SpaceInvariant` | `SpaceInv`, the inductive invariant |
| `FramesOwnedTheorem` | `FramesOwned` |
| `HeapMappedTheorem` | `HeapMapped` |

Assumptions, which TLC evaluates in `heap_one`: `PhysMemAssumption` and
`LayoutAssumption`, the shape of the constants and the order of the areas;
`BootAssumption`, that the regions the firmware reports lie in memory and frame 0
is in use; `ImagesAssumption`, the shape of the executables: linked on a page
boundary above table 0, with room for the heap below the stacks, the pages of
the sections inside the image, and its last page in a section if the heap starts
inside it. The last is what `inc_proc_brk` relies on, which takes the page of the
old end for mapped.

`FramesOwned` counts; the proof does not. Whatever may hold a frame is a *spot*: a
directory itself, one of its tables but the kernel's, one of its pages that owns
(`H` names those pages). `Holding` is the function from spots to frames, and
`Owns` says that memory agrees with it: no two spots hold the same frame, and the
frames in use are those held, those in use at the start and the kernel's table.
Three lemmas are all that is needed of the manager: a spot gains a free frame
(`Gain`), a set of spots loses its frames (`Lose`), a frame moves from one spot to
another (`Move`). `Sound` adds the shape of the directories and that each has the
kernel's table. Above them every function of `vmm.c` has its lemma: what it fills,
empties or lends and that `Sound` survives; a window's page is first owned by the
program's spot and moves to the server's when it is shared (`ShareMoves`).

`SpaceInv` is `Sound` for the pages that own between calls (all, but of windows
only the server's), with what the calls rely on: two processes have two
directories, neither the server's nor the shell's (so `DispatchTerminated` frees
nobody else's); the pages that a directory has lie in the image, the heap, the
recorded stacks and the windows (so after the end of the last thread none is left
that owns a frame, and freeing tables and directory leaks nothing); a running
program has its sections, its heap up to `brk` and its stacks; every descriptor's
`brk` lies between the image's end and the limit. The loops over pages and
sections are recursive functions; that they exist, and what they leave at each
turn, is proved by induction along an interval (`IntervalInduction`), which
follows from the least element of a set of numbers and needs no operator as
parameter. `Left` is read backwards through the loops: what is left at the end was
left at each turn (`Takes`), so every allocation found a frame. Then one lemma per
action.

## 9. The events of a window

`EventRing` has `winsys_enqueue_to_event_handler` and
`winsys_dequeue_from_event_handler` access by access, the handlers around the
first and `get_shell_input` around the second.

| `EventRing` | code |
|---|---|
| `events` | the ring: `event_type` and `event_data` of each slot |
| `evShell`, `evTaken`, `evI`, `evCopy` | the point the shell has reached, whether `e` is an event, the slot it shifts into, what it has read for it |
| `evHandler`, `evSuspended` | where each handler is, with its event and its slot; `THREAD_SUSPENDED` |
| `keyboard_handler`, `EvFind`, `EvStoreType`, `EvStoreData`, `EvWake` | a key, the first invalid slot, the event word by word, `unsuspend_suspended_threads` |
| `EvLook`, `EvSuspend`, `EvResume` | the test of the first slot and `thread_suspend` |
| `EvTake` ... `EvLast`, `EvTest` | the first event, the shift slot by slot and word by word, the last slot |

An event carries one mark in both words, so that half of one is told from half of
another; the modifier keys are part of it, because the handler puts them
there. The data of an invalid slot counts as nothing.

Handlers overlap. The mouse handler acknowledges before its body (mouse.c:103)
and the interrupt dispatcher again after it, and the second one releases
whatever is in service by then, the keyboard's interrupt included. The model has
several handlers in any interleaving, which contains the nesting on one thread.

`evQueue` is the FIFO the ring should be: an event counts as put when its type is
stored. The ring is not this FIFO. An event stored during a shift may be
overwritten, take the data of another, or lie behind a gap; so may one whose
handler is between finding the slot and storing the second word when the shift
begins or ends; and two handlers that find the same slot store one event over
the other. `EventsOrdered` says exactly how far the damage goes: if one event
comes in a shift, that event alone may be lost or changed, and every other is
there, in order and once, and whole as soon as its handler has stored the second
word. `evVoid` ends the claim until the ring is clean, in the cases named.
`EventsServed` is about the lost wake-up between `EvLook` and `EvSuspend`: the
shell may sleep with an event before it, but the next key helps.

Bounds: three slots, two handlers and five marks, so that one is always left to
draw. A shift of three slots has a first, a middle and a last move, and the ring
can be full. Once the claims are void the handlers come one at a time
(`EvVoidHandlers`), because nothing is then said of what they store. Fairness
(`EvFairness`): the shell and every handler go on, *and keys keep coming*; the
last is what the property depends on, and a person at the keyboard presses
again. The state is finite, so the number of keys is not bounded.

`EventRingProofs` proves `EventsOrdered` (`EventsStayOrdered`) for a ring of any
size and any number of handlers and marks, without a hypothesis beyond
`EventRingAssumption`. Between shifts (`Still`) the slots are `evQueue`, but for
the data that a handler is about to store (`Half`), and at most one handler has
found a slot, the one behind the last event. The work is in the shift, where the
ring is never in order: `Moving` says what the slots before and behind `evI`
hold, the word-wise copy included, and that a handler storing data does so
behind the known events; `Empty` that nothing lies behind these as long as none was
put, and `Single` that one put during the shift is in at most one place when the
shift ends: it may have been stored in front of the shift and be carried along, or
behind it and stay. `EvKept` names the events put before the shift.

## 10. The file systems and the floppy

### FAT12

A call computes the sector writes it will make, in the order of the code;
`FatSectorWritten` carries them out one by one, and `FatRestart` may come between
any two. What survives is `fatDisk`.

| `Fat12` | code |
|---|---|
| `fatDisk` | the table, the root directory, the data clusters (bytes, or entries of a subdirectory) |
| `fatFile` | the `FILE`: cluster, position, length, `abs_position`, `eof`, parent sector |
| `fatPending` | the writes still to make |
| `Open`, `CreateWrites`, `LengthWrites`, `Occupy`, `Round` | `fat12fsys_open` with its two directory searches, `fat12fsys_create`, `fat12fsys_update_flen`, `fat12fsys_occupy_free_cluster`, one turn of `fat12fsys_rw` |

`FatChains` holds at every moment, also half way through an operation and after
a power cut: a cluster is marked before it is linked, so chains neither meet nor
lead into free clusters. `FatLeaks` bounds what a power cut can lose to one
cluster.

The two sector writes of the table count as one unless the entry lies in both
(clusters 341, 682, ...; `Straddling` in the model). A power cut between them
leaves an entry with bits of two values (`Torn`): a chain that was being linked
then leads off the disk, and `FatChains` says that this is the only way a chain
may lose its end, one chain a power cut. When the new bits happen to make an end
mark again the chain is as it was before the write, which the model also has.

`FatReadsBack` compares files with what was written. Its limits are the code's:
* `fat12fsys_read` does not advance `abs_position`. A handle that has read and
  then writes counts the writes alone: write 3, read 3, write 1 leaves the length
  3 for four bytes, and the last is out of reach of a reader who trusts it. The
  bytes are claimed for such a file, its length is not (`fatBehind`);
* with a length behind its position a write that ends within a cluster subtracts
  more than is left (fat12fsys.c:524). The unsigned rest is huge, and the write
  goes on with what lies behind the buffer until the disk is full. The run
  contains this; the file holds what was written, followed by the rest;
* in a subdirectory the handle starts from an uninitialised `abs_position`
  (`Garbage`), so the length there is not claimed;
* after `eof` a write lands wherever the handle was left, and a full disk
  (`FatFull`) ends a write silently; the model then claims nothing about that
  file. It does not follow a handle that has left the disk.

Bounds: four data clusters of three bytes, the entry of the second in two sectors
of the table, one root sector of two entries, six calls, one power cut, lengths 1
and 4: chains of up to four clusters, a full root, a full disk, a name that is
taken in another case, one that is too long, and a read before a write. `Modulus`
is 64 for 2^32, larger than the disk.

### The file system in memory

`TmpFs` has the area as blocks with type, file id, parent and child links and
data. `TmpBlocksOwned` says that blocks, links and directory records agree;
`TmpFilesKept` that the blocks hold what was written, whatever happens to other
files. Both hold as long as ids are unique. Bytes do not all come back:
`tfsys_read` compares the position in the file with the place in the block it is
in (tmpfsys.c:173), so it copies from the first block and passes over every byte
behind it. `TmpFilesKept` states the read half as what the code does: a read
delivers the part of its bytes that lies in the first block, and nothing else.
`tmpfs_ids` shows that they are not: `get_next_fid` counts the blocks in front of
the first free one, and rewriting a long file makes such a hole. Six blocks,
six calls. Nothing in the code looks for the end of the area or of a directory's
block; the model stops there (`TmpRoom`).

### Descriptors, locks, the driver

`Floppy` has one conversation with the controller per sector: motor, seek,
result, transfer, result, motor. The controller may fail any command. `Vfs` puts
the descriptors and the three locks of `vfs.c` above it.

| `Vfs`, `Floppy` | code |
|---|---|
| `flpydsk_irq_finished`, `floppy_dmabuf`, `flMotor` | the flag, the buffer, the motor |
| `flCall` | the point each thread has reached, its tries, whether it failed |
| `vfsLock`, `vfsFds` | the static locks of `volOpenFile`, `volReadFile`, `volWriteFile`; `process.file_descs` |
| `FlMotorOn` ... `FlModify` | `flpydsk_read_sector`, `flpydsk_write_sector`, and the change `fat12fsys_rw` makes in the buffer |
| `FdcSeeks`, `FdcTransfers` | the controller (not in the code) |
| `Call`, `acquireLock`, `Return`, `fclose`, `Terminate` | the system calls and the end of a process |

The locks exclude calls of one kind only: a read and a write, or two creations,
may be in the driver at once and take each other's interrupt and buffer. What the
controller makes of two mixed commands is its own, so the model stops there
(`flMixed`) and the properties speak of all behaviours up to that point. Within
them `FloppyDelivers` says that sectors are what was written through retries and
through other calls that failed, `FloppyReturns` that every call comes back, and
`FdsKept` that descriptors lead to their files. Four things the code does are
built into the model and worth knowing: a transfer that failed twenty times
counts as done (`floppy.c:462`); a failed seek leaves the motor on and returns
address 0, which the file system reads and writes (`Junk`); `close_fd` cannot
close the first of several descriptors; a descriptor's number is one more than
the highest open. A sector whose write failed holds what nobody knows
(`NotKnown`).

Bounds: two programs, three sectors on two heads, two tries each instead of ten
and twenty, three calls in a behaviour. Fairness (`VfsFairness`): threads go on,
and the controller ends what it began, with or without an error.

`VfsProofs` proves, for any programs and files, any disk, geometry and numbers of
tries:

| theorem | states |
|---|---|
| `VfsInvariance` | `VfsIInv` |
| `VfsTypes` | `VfsTypeOK` |
| `FloppyKeepsSectors` | `FloppyDelivers` |
| `DescriptorsKept` | `FdsKept` |

Assumptions: `FloppyAssumption`, the shape of the geometry, with sector 0 on the
disk, which is where a failed seek leads; `VfsAssumption`, files on the floppy lie
on it.

`FloppyDelivers` is about the ends of calls; the invariant must say where a
conversation stands. `Talking` ties the call's point to the controller's: what it
is busy with, whether its interrupt has come, and that the address and direction
it was given are the call's. That `chs` leads back to the call's sector and to no
other is the lemma `Geometry`, from uniqueness of quotient and remainder.
`Delivering` says what buffer and disk hold at that point, a retry and a failure
included. `Alone` is the other half: as long as `flMixed` is not set one call is in
the driver, and `Locking` that a lock is held by the one call behind it.
`FdsKept` is inductive (`Kept`) with the types of the descriptors: the number that
`append_fd_to_process` gives is above all in the list, and `close_fd` takes out
the entry it finds or none.

## 11. The text editor

`TextEditor` has the lines of `tedit` as sequences of regions, each a buffer and
a fill count, and the cursor as the code keeps it: line, column and region.

| `TextEditor` | code |
|---|---|
| `load_file`, `write_file` | the same |
| `advance_cursor_left` ... `advance_cursor_down` | the same; `ToLine` is the search the last two share |
| `Insert`, `Split` | `append_at_position` for a character and for Enter |
| `Delete`, `Join` | `remove_at_position` behind a character and in the first column |
| `insert_at_position` | the same, for the mode that writes over |
| `Arrow`, `Type`, `ToggleInsert`, `Escape` | the keys of `_main` |

`edText` is what the same keys make of plain lines. `TextKept` says that the
chains of regions hold that text, that only the last region of a line has room,
and that saving writes it. The code goes astray at the edges of regions, and the
model ends a behaviour there and says so (`edAstray`):
* Enter in the last column of a region writes the LF past the buffer; Enter in
  the first column of a full region with more behind it copies past the new one;
* backspace at the start of a region deletes in the wrong one, because the
  pointer is moved only afterwards; with an empty last region it frees that region
  instead of shortening the one before;
* backspace in the first column takes two characters from the last region of the
  line above, also when it holds fewer, or when they are not CR and LF;
* in the mode that writes over, CR and LF in different regions are not seen as
  the end of the line;
* moving up or down, and joining lines, may leave the pointer in another region
  than the column, or the column behind the end; the 128th character of a
  region without successor leaves the pointer null.

These are listed as a hazard of the editor. No document or test says otherwise,
so they are not findings.

Bounds: regions of four characters, a line of two regions, three lines, one
character to type, six keys (with seven the result is the same). Scrolling
(`fit_screen_to_cursor`) and drawing are left out.

`TextEditorProofs` proves, for regions of any size above two, any file and any
keys:

| theorem | states |
|---|---|
| `EditorInvariant` | `EdInv`, the inductive invariant |
| `TextStaysKept` | `TextKept` |

Assumptions: `EditorAssumption`, evaluated in `storage`. The file is not the empty
list of lines, and an LF is the last character of its line: `load_file` begins a
line at every LF and one at the start.

`TextKept` is not inductive: a key finds its place by the cursor, so `EdInv` adds
that the cursor is not misplaced as long as the editor has not gone astray, and
that an LF is at the end of a line only, without which writing over would stop at
the wrong place. `FlatLine` concatenates; the proof speaks of places instead.
`Holds` says that place `Start(r) + i + 1` of the text is cell `i` of region
`r`, for all regions and cells in use; `Place` that every place is one of these,
and one only (quotient and remainder); `HoldsOne` that a line so holds one text,
which is `FlatLine`. The loops of the code are recursive functions, over regions
(`FlatLine`) or characters (`PutChars`); that they exist and what each turn leaves
is proved by induction along an interval. Then each operation has its lemma:
loading and joining append (`PutCharsHolds`), `ShiftUp` moves the tail one place
up through all regions, `ShiftDown` one place down, `Split` cuts. The `Plain...`
lemmas say what the same key makes of the plain line, and `KeyHolds` joins the
two. The cursor lemmas (`LeftFollows` ...) show that the move after a key keeps
the lines and stays among them.

## 12. What is not modelled

Drawing, fonts, printing, the clock, the network card and PCI decide nothing
other parts rely on. The boot code is straight-line. The shell's commands and line
editor call what is modelled elsewhere.

What stays with TLC:
* liveness, because the prover does not handle fairness: `DispatchReturns`,
  `EveryoneRuns`, `SleepersWake`, `TerminatedIsFreed`, `OperationsPerformed`,
  `EventsServed`, `FloppyReturns`;
* `FatChains`, `FatLeaks`, `FatReadsBack`, `TmpBlocksOwned`, `TmpFilesKept`: walks
  along chains of blocks or clusters are folds whose every step depends on links
  that the call in progress rewrites. They would have to be restated as paths, as
  in `WindowList`, with an invariant for each sector write in between;
* `StorageTypeOK` but for the part of `Vfs` and, in `EdInv`, most of that of the
  editor.

Left out although the code is exposed to it:
* two killers at once, a process killed from an interrupt, and one killed inside
  a file call, which leaves the lock of `vfs.c` taken for good. Each needs the
  whole of `Scheduler` around every step of the other part;
* kernel processes that end: the descriptor is freed by the killer and read
  later by the dispatcher;
* ids of threads and processes given out again;
* a window freed under the mouse handler that holds a pointer to its ring;
* exhaustion of frames, of the area of `TmpFs`, and `size + 4` wrapping in
  `kmalloc`.

`PROJECT.json` lists these hazards with the reason in a note.
