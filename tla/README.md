# TinyRT: a TLA+ model of the kernel

TinyRT is a small preemptive real-time kernel for one RISC-V core (ESP32-C3).
This directory holds TLA+ modules that model its kernel, TLC configurations that
check them on small instances, and proofs that TLAPS checks for every instance.
Paths below are relative to the repository.

## 1. Inventory

| Component | State it keeps | Operations | What makes it correct |
|---|---|---|---|
| Scheduler (`src/kernel/sched.c`) | `current_task`, 32 ready lists and the bit mask over them, timeout list, deleted list, time slice, lock count, `resched_pending` | enqueue, remove, pop highest, pick next, tick, wake expired, lock and unlock, reschedule from a trap | every READY task is on the list of its priority, the mask says which lists are not empty, the highest priority runs, equal priorities share the CPU, a lock keeps the CPU and defers the switch |
| Tasks (`src/kernel/task.c`) | a TCB per task (state, priority, wakeup, wait result, handle, two list nodes), `task_count` | create, delete, exit, yield, sleep, clean-up by the idle task | no task is lost, delays are kept, a TCB is freed once and only when nothing refers to it |
| Wait queues (`src/kernel/wait_queue.c`) | a list of waiters per object | block with and without timeout, wake one or all, from tasks and interrupts | priority order, a wait returns with a reason, timeout and wake exclude each other |
| Semaphores (`src/kernel/semaphore.c`) | count, limit, destroyed flag, waiters | create, destroy, wait, timed wait, trywait, post, post from interrupt | tokens are conserved, nobody sleeps beside a token, destruction leaves nobody behind |
| Mutexes (`src/kernel/mutex.c`) | owner, lock count, waiters | lock, timed lock, trylock, unlock, create, destroy | one owner, hand-over to the first waiter |
| Message queues (`src/kernel/msg_queue.c`) | ring buffer, readers, writers | send, send to front, receive, peek, interrupt variants, create, destroy | FIFO, bounded, no lost wake |
| Software timers (`src/kernel/timer.c`) | sorted timer list, tick counter | create, start, stop, destroy, run expired | the list holds the active timers in the order of their deadlines; a trap runs every timer that is due, as often as it is due, and none early or destroyed |
| Handle table (`src/kernel/handle.c`) | entries with object, type, rights, generation | alloc, lookup, close, valid | a handle means one object until it is closed and nothing after |
| Heap (`src/kernel/malloc.c`) | list of blocks, each with a header | malloc, free, calloc, realloc, queries | blocks tile the heap, what is handed out is disjoint and large enough, nothing leaks, free neighbours are merged |
| Boot and idle (`src/kernel/kernel.c`) | none of its own | kernel_init, app_main, rtos_start, idle_task | the first task starts with a consistent scheduler; idle reclaims memory |
| Traps (`boards/esp32c3/hal.c`, `startup.c`) | trap frame, `tick_count` | systick, other interrupts, ecall | wakes what is due, then switches if needed |
| Board registers, linker script, logger, tools, demo, tests | | | not kernel state |

How they interact: tasks call the objects; the objects block and wake through
wait queues; these change the scheduler's lists inside a critical section
(interrupts off); `task_yield` executes an `ecall`, and the trap handler, which
also runs for ticks and interrupts, chooses the next task. Interrupt handlers
post semaphores, wake waiters and run timer callbacks. All objects are named by
handles.

What is hard: a trap can come between any two instructions outside a critical
section, and `task_yield` and `task_create` work on the ready lists outside of
one; timeouts race wakes; ticks are coalesced and wrap; a handle is looked up in
one critical section and its object used in another; deletion can hit a task in
any state; timer callbacks change the list that the loop around them works off;
`realloc` works on its block with interrupts on; `app_main` runs before the timer
list exists. The list `hazards` in PROJECT.json names these places by line.

## 2. Modules

| Module | What it models |
|---|---|
| `Sched` | `sched.c`: the structure `scheduler_t` and the scheduling fields of all TCBs as one record, and one operator per C function from record to record, under its C name |
| `WaitQueue` | `wait_queue.c`, in the same form |
| `Kernel` | the running system: boot, tasks, lock, wait-queue calls, task life cycle, idle task, traps. One action per critical section, per trap phase, and per step where an interrupt can come in between |
| `KernelProps` | the properties of the kernel and the fairness they assume |
| `KObject` | what semaphores, mutexes, message queues and timers share: creation, lookup, the second critical section, blocking, destruction, use after release |
| `Semaphore`, `Mutex` | `semaphore.c` and `mutex.c` on top of `Kernel` and `KObject` |
| `MsgRing` | the ring buffer of `msg_queue.c` as operators on a record |
| `MsgQueue` | `msg_queue.c` on top of `Kernel`, `KObject` and `MsgRing` |
| `BoundedQueue` | abstract specification: what a message queue promises, each operation a step of its own; `MsgQueue` implements it |
| `HandleRegistry` | abstract specification: what a handle table promises |
| `Handle` | `handle.c`: the table itself, shown to implement `HandleRegistry` |
| `Timer` | `timer.c` on top of `Kernel` and `KObject`: tasks, handlers and callbacks that use timers, and `timer_run_expired` in the trap |
| `TimerBoot` | `Timer` with an `app_main` that starts timers before `timer_init` |
| `Allocator` | abstract specification: what the heap promises |
| `Heap` | `malloc.c`: the blocks with their addresses and headers, shown to implement `Allocator` |
| `MCKernel`, `MCSemaphore`, `MCMutex`, `MCMsgQueue`, `MCTimer`, `MCTimerBoot`, `MCHeap`, `MCHandle` | model values, symmetry and views for TLC |
| `ListLemmas` | lemmas about insertion into and removal from sequences |
| `KernelProofs` | the type theorem of the kernel, what each operator of `Sched` and `WaitQueue` does to the lists, the mask and the states of a scheduler record, the inductive invariant of the lists with the theorems that follow from it, and what is left of it after a fault (`Orderly`) |
| `KernelAlways` | the invariants on top of it: what also holds after a fault, time and the timeout list, the idle task, the life cycle of a TCB, and the theorems that follow from them |
| `HandleProofs` | the theorems about the handle table |
| `HeapProofs` | the inductive invariant of the heap, its theorems and the refinement of `Allocator` |
| `ObjectProofs` | the inductive invariants of the objects, semaphores and mutexes on top of `KernelAlways`, and their theorems |
| `MsgProofs` | the same for message queues, lemmas about the ring buffer, and the refinement of `BoundedQueue` |
| `TimerProofs` | the inductive invariant of the software timers on top of `KernelAlways`, and their theorems |

Operators marked MUTANT are single wrong versions of a definition, one for each
property of each run; TLC finds the property violated when the wrong version is
used. They take no part in the specifications.

### How the model stands for the code

- **Lists.** A list is the sequence of its TCBs. A TCB has one `state_list` node,
  so `StateListDel` takes it off whichever of the ready, wait and deleted lists it
  is on; `timeout_list` is separate. The mask is a set of priorities.
  `master_task_list` is left out: only the dump function reads it.
- **Concurrency.** There is one core. `Runs(t)` (t is `current_task`, no trap is
  being handled) guards every task step. `trap` is set by the action that raises
  a trap and cleared by `TrapReturn`; between them only trap steps are enabled. A
  critical section is one action; loops inside one (`wake_all`) keep interrupts
  out by their program counter (`Masked`).
- **Program counters.** `pc[t]` says where a task is, `ret[t]` where its current
  `task_yield` or `arch_yield` returns to, `reg[t]` holds the locals that survive
  an interruption. `task_yield` is five steps: the test with the store of
  `TASK_READY`, the link, the load and the store of `mask |= bit`, the `ecall`.
  `task_create` is eight, since it runs with interrupts on from `malloc` to the
  store of the handle.
- **Windows.** A trap that hits one of the unprotected windows of the ready list
  and the mask (`Window`) adds "torn" to `fault`. A trap between the load and the
  store of `task_count++` is not a fault; the store adds "torn" if it overwrites a change
  that another task made in between (`count_store`). Deleting a task amid its own creation or one it is making
  adds "orphan"; touching a freed TCB or semaphore adds "uaf". The passing runs
  explore everything up to the first fault and check that state too (constraint
  `NoFaultYet`); the properties that such a fault breaks say `fault = {}`. What the
  windows lead to is shown by the runs `race_stall` and `ready_corrupt`, in which
  faults are followed.
- **Time.** `tick` counts modulo `TickMod`, which stands for 2^32, and the signed
  comparison of `timer_expired` splits the range in half as the code does. A tick
  interrupt advances it by 1 to `MaxJump`, since `tick_count` is read from the
  hardware counter. `left` is a history variable: the ticks a task still has to
  wait to get what it asked for. Asked for a delay of d, the code waits for d
  changes of the tick counter.
- **Traps.** `SysTick` or `Irq` or `arch_yield` raises the trap,
  `sched_wake_expired` wakes one due task per step, `TrapReturn` is the rest of
  `do_trap`. An interrupt handler that is not the tick does nothing to the kernel
  or makes one of the `from_isr` calls. In `Timer` the trap also runs
  `timer_run_expired`, one round of its loop per step, after the expired tasks.
- **Errors.** A call that fails without changing state (bad argument, no memory,
  bad handle) is a stuttering step.
- **Objects.** A semaphore, mutex or message queue is a block `o` of the heap with
  its wait queues `Queues[o]`. A lookup is the first critical section of a call, the
  second one does the work. Destruction is mark, wake all (one waiter per step,
  interrupts off), close, free, and other tasks can run after each of the last
  three. `call[t].o` becomes `None` when the object is freed while t still has a
  pointer to it; using it then adds "uaf" to `fault`. A lookup that fails is a
  stuttering step.
- **Histories of objects.** `balance` counts the tokens of a semaphore as its callers
  see them, `held` the locks that returned ERR_OK less the unlocks, `out` the last call on
  a message queue that moved a message or was refused: its operation, the queue, the error
  code and the message.
- **Message queues.** A message is one value (padding to `cap` bytes and the length
  check are left out). Data is read from the caller's buffer in the step that sends,
  so the message is chosen there. A woken call goes back to the start of its loop
  with its whole timeout, as in the code; `call[t].woken` remembers that.
  `trt_msg_q_is_full`, `is_empty` and `count` change nothing; the operators they
  call are used by the actions and by the refinement mapping.
- **Timers.** `tm` is the list and the fields of all timers as one record; `tleft` is
  a history variable, the ticks until each timer's deadline, negative when it is
  late. Delays are in ticks; `Period` is the period of all periodic timers.
  `trt_timer_start` is three steps: lookup, the test of the callback, the critical
  section. `Handler` is what a callback, or an interrupt handler, may do in one trap
  step: start or stop a timer, wake a task, or nothing. A timer started on the way
  to its destruction adds "torn" to `fault`, two destroyers of one timer add "uaf".
- **Timers in the boot code.** `timer_list` is zero until `timer_init`. Walking it
  from the null pointer is undefined; `app_main_timer_start` chooses between the
  outcomes the build can have: the walk never ends or its load traps again and
  again (`hung`), or the timer is linked to memory that `timer_init` does not know.
- **Heap.** A block is its address, its size and its free flag; the list is a
  sequence. A pointer is the address behind the header. `size_t` wraps at `SizeMax`.
  `malloc`, `free` and the queries are one step each; `realloc` is up to five, since
  it reads its block, allocates, copies and frees with interrupts on in between. A
  client frees and reallocates only what it holds; the bytes are not modelled.
  `given` counts the pointers handed out and not taken back,
  `split_beside_free` remembers that a realloc has shrunk a block in front of a free
  one.
- **Handles.** The packing of index and generation is kept (16 bits each);
  `GenMax` is the largest generation, 65535 in the code. `issued` is a history
  variable: what every handle was given out for, and how many times its entry was
  closed since. In `Kernel` the table is reduced to entries with objects.

## 3. Runs

All runs have two application tasks and the idle task unless noted.

| Run | Question | Result |
|---|---|---|
| `sched` | yield, sleep, lock against ticks and interrupts: timeouts, deferred switch, preemption | holds, 0.7 million states |
| `life` | create, delete, exit, reclaim, while tasks sleep, lock the scheduler, wait on a queue with and without timeout and are woken; an object of `app_main` may hold one of the two handles, so that `task_create` fails after the new task was linked and counted: lists, mask, count, freed TCBs, waiters and the order they are served in | holds, 1.6 million |
| `live` | a ready task that nobody outranks gets the CPU; a deleted task is freed | holds |
| `sem` | a semaphore under all its operations | holds, 1.4 million |
| `mutex` | a recursive mutex under all its operations | holds, 0.3 million |
| `msgq` | a message queue of length two under all its operations, of tasks and interrupt handlers, and its destruction: FIFO (`BoundedQueue`), no lost wake, no waiter left behind | holds, 1.2 million |
| `timer` | two timers under all operations of tasks, callbacks and handlers, with late ticks | holds, 0.6 million |
| `heap` | two clients of the heap: tiling, sizes, leaks, fragments, `Allocator` | holds, 0.3 million |
| `handle` | the handle table and its abstract specification | holds |
| `race_stall` | `tests/task_delay_race_test.c`: a sleeping worker never stalls | **violated** |
| `ready_corrupt` | the assertion "ready queue corrupt" of `sched.c` is never met | **violated** |
| `timer_boot` | `tests/handle_object_test.c`: a timer started in `app_main` fires | **violated** |

### What the three violations show

`race_stall`: `task_yield` (`src/kernel/task.c:259-263`) stores `TASK_READY` and then
links the task, with interrupts on. A tick in between sees a current task that is
not RUNNING and switches; `sched_pick_next` requeues only RUNNING tasks. The task
is READY and on no list, for ever. In `task_delay_ticks` the window opens when the
timeout comes between the end of the critical section and `task_yield`.

`ready_corrupt`: the same `task_yield` sets the ready bit by a load and a store
(`src/kernel/sched.c:61`). If it is switched out in between and popped again as the
last of its priority, its store brings back the bit of an empty list.

Both disappear if `task_yield` does its work inside a critical section; the other
runs show that everything else holds as long as the windows are not hit.

`timer_boot`: `kernel_main` calls `app_main` and then `rtos_start`, which calls
`timer_init` (`src/kernel/kernel.c:54`). A timer started by `app_main`, as in
`tests/handle_object_test.c:85`, is inserted into a list that is still zero: the boot
hangs, or the timer is marked active and on no list, and never fires. It disappears
if `timer_init` is called by `kernel_init`.

### Bounds and why they are enough

Two tasks and the idle task give every pairing of a running and an interfering
task, of equal and of different priority (`CreatePrio` holds two levels above
idle), and queues of length two, the shortest in which order matters.
`RTOS_TIME_SLICE_TICKS` = 2 makes a slice end neither at once nor never. `TickMod`
= 8 with delays up to 2 and jumps up to 2 lets deadlines be skipped and the counter
wrap many times; `TickMod` = 4 is used where delays are 1. `MaxLock` = 1: nesting only
counts. `RTOS_HANDLE_MAX` = 2, less the one an object holds in `life`, makes the table run full. `GenMax` = 3 lets the
generation go round. `MaxNest` = 2 lets a mutex be locked twice by its owner. `SemMax` and `SemCnt` of 0 and 1 include a semaphore that can
never be posted without a waiter. The message queue run has one priority
and a time slice of one tick, with which any interleaving of the two tasks is
possible: more priorities only exclude some of them and reorder the waiters, which
the run `life` is about. Its calls do not wait at all or wait for one tick
(`Timeouts`); a call that waits for ever is one whose timeout does not come, and
blocks by the code that `sem` and `mutex` run. The queue has length 2, the shortest with an
order to keep: it has three slots, round which head and tail run both ways, is empty, full or
in between, and holds two messages that differ, so that every wrong place for a message shows.

Two timers are the least that have an order; with delays and periods of 1 and systicks
of up to 2 ticks a periodic timer is due twice in one trap, a one-shot timer started
by its callback comes between, and `TickMod` = 8 wraps. The heap of 24 bytes, with
alignment 2 and headers of 4, has room for four smallest blocks or two of size 6, so
that splits, failed splits, merges on both sides and exhaustion all happen; 31 is the
largest size and wraps, and a count of 6 makes `calloc` overflow. More of either
repeats these cases.

`SYMMETRY Slots` permutes the TCB slots other than idle: the heap may return any
block, and no action names one. `VIEW` identifies states that differ by a shift of
the tick counter (every comparison is of differences modulo `TickMod`) and in
values that are written before they are read again. Neither is used in the
liveness runs. The view of the message queue run also hides the arguments of calls
that have returned, or will find the queue destroyed. The deadlock check is on in every run: traps can always come, and a
corrupted kernel spins (`CorruptLoop`). In `Timer` and `TimerBoot` what follows a fault, or
a hung boot, is stuttering (`Undefined`, `BootHangs`).

### Fairness

`LiveSpec` assumes that the boot code finishes (WF), that a trap is handled to its
end (WF), that the tick interrupt, which stays pending until taken, is not put off
for ever (SF), and that a task which is inside the kernel and scheduled again and
again gets on with it (SF): a millisecond passes between two ticks, and
instructions execute in it. Nothing is assumed of application code: a task may
compute for ever. `ReadyTaskRuns` and `WorkerNeverStalls` exclude behaviours in
which the scheduler is locked for ever, `DeletedIsFreed` those in which the system
is never idle again. `BootSpec` assumes the same of the boot code, the tick and the
trap, as long as the boot does not hang.

`LoopRunsDown` is the termination of `timer_run_expired` as a safety property: each round
leaves fewer rounds to do.

## 4. Proofs

All proofs are checked by TLAPS for every value of the constants that satisfies
the named assumptions (`SchedAssumption`, `KernelAssumption`, `HandleAssumption`,
`HeapAssumption`, `ObjectAssumption`, `SemAssumption`, `MutexAssumption`, `RingAssumption`,
`MsgQueueAssumption`, `TimerAssumption`). Five theorems on the objects have the hypothesis that tasks stay (`TasksStay`), one
of them also one on the arguments of `trt_sem_create` (`LimitsHold`); both are explained
below, and the runs of the objects meet them.

- `KernelProofs!TypeCorrect`: `Spec => []TypeOK`. `TypeOK` is not inductive: a
  task in `task_create`, `task_delete` or the idle task's clean-up uses the TCB
  pointer in `reg`, and a waker its queue, so the induction needs that these are
  set where they are used (`LocalsOK`). The proof has one lemma per scheduler
  operator (the record it returns is a `Scheduler`) and one per group of actions;
  the list operations rest on `ListLemmas`.
- `KernelProofs!ListsCorrect`: `Spec => [](TypeInv /\ (fault = {} => ListInv))`. `ListInv` is
  the inductive invariant behind the list properties, for every number of tasks,
  priorities and wait queues:
  `Sound(k, Unlinked, BitUnderway)` (no TCB is on a list twice, the lists a TCB is on
  are those of its state, the mask has the bits of the lists that are not empty, every
  READY task is linked, one task runs), up to the TCBs that are about to be linked and the
  bits that are about to be set;
  `WindowOK` (only the current task is in a window, and the mask it has loaded is still the
  mask), without which its store would bring back an old bit;
  `CurrentOK` (the state of the task that executes follows from where it is), which says
  which state a trap finds;
  `CreateOK` (a task in `task_create` and the TCB it creates are alive, and two
  tasks never create the same TCB), `FreeOK` (the TCB that the idle task is about to free is
  DELETED and off the deleted list), `LockOK` (the task that holds the scheduler locked
  runs and is outside of the blocking code, so that no block and no switch happens under
  the lock), `BootOK` (before the scheduler starts only `app_main` runs).
  The guard `fault = {}` is part of the statement: the runs `race_stall` and
  `ready_corrupt` show that the lists are wrong after a fault. There is one lemma per operator
  of the code for each part, and one per group of actions.
- `NoTaskIsLost`, `MaskIsRight` and the action property `TickPreempts` follow from
  `ListsCorrect`: `TasksAreReachable`, `MaskMatchesLists`, `TickRunsHighest`. For the last,
  the mask must be right and the current task must be the one that was taken from
  the highest list, or stay at least as high as every list.
- `HandleProofs!TypeCorrect`, `MeaningKept`, `Refinement`: from the inductive
  invariant `Inv` = `TypeOK`, `TableInv` (a used entry has an object, a type and a
  generation that is not 0) and `IssuedInv` (an issued handle with age 0 finds its
  entry; one with age n is n generations behind its entry on the circle of GenMax
  generations, hence different from it). `Refinement` maps the open handles of the
  table to the set of the registry and shows that each call is a registry call.

- `KernelAlways!AlwaysCorrect`: `Spec => [](TypeInv /\ ListsOK /\ AlwaysInv)`. `AlwaysInv` is what
  holds of the kernel even after a trap has hit a window, where `ListInv` is lost; it has no
  guard `fault = {}`. Its parts: `Orderly` (no list holds a TCB twice; one in a wait queue is
  BLOCKED and on no other queue or ready list, the deleted list holds DELETED ones and the
  ready lists none of them, the wait queues are sorted), `RunsAt` (the states in which a
  task can execute at its program counter), `WaitAt` (a task inside a wait has a
  wait result, or is BLOCKED on a queue, or deleted), `UnusedAt` (a free slot is at no
  program counter of the kernel), `EarlyOK` (no fault and no waiter before the start), and
  `BootOK`, `FreeOK` and `LockOK` from above. `Tame` is the lemma behind `WaitAt`: what any operator may do to a
  task that does not execute is to wake it with a result, delete it, create it or switch it.
  From `AlwaysInv` follow `WaitsEndForAReason`
  (`WaitReturnsWithReason`) and the action property `LockKeepsCpu` (`LockedKeepsCpu`).
- `ServedInOrder` is the action property `FirstComeFirstServed`: a task that starts to wait gets
  behind every waiter of no lower priority and in front of the others, nothing moves one
  waiter past another, and whoever is woken was in front. So waiters are served by priority,
  and equals in the order they came. `Served` says what a
  step may do to a wait queue: leave it, insert one task in front of the first waiter
  of lower priority, take one out that is not woken, or wake the head. The lemmas
  `InsertKeeps`, `RemoveKeeps` and `TailKeeps` show that each of these keeps the order of the
  others, given that the queue is sorted and holds nobody twice (`Orderly`), and
  `NextQueues` that every step of the kernel is one of them.
- `SwitchIsOwed` (`DeferredSwitchIsOwed`) needs `OwedInv`: with the lock, the switch is
  noted in `resched_pending`; without it, a trap is on or the current task is in
  `task_yield`, which it cannot leave but by a trap. `Asked` says what every operator of the
  scheduler leaves alone of the lock and the flag.
- `DelaysAreNotCutShort` (`NoEarlyTimeout`) needs `ClockInv`: every deadline a task waits for,
  on the timeout list or in the loop of `task_delay_ticks`, is exactly as many ticks ahead of
  `tick_count`, modulo its range, as its delay still has to run, or it has passed. This is
  where delays below half the range are used. `CreatesOther` is needed with it: a
  `task_create` never initialises the TCB of a task that is waiting.
- `DueTasksAreWoken` (`DueTasksAreAwake`) needs `DueInv`: the timeout list falls in `Lateness`, the
  signed distance (`Signed`) from each deadline to `tick_count`, and outside a trap every entry is
  still ahead. The order is one of integers, while the code compares modulo 2^32: `SignedExpired` and
  `SignedBetween` say that the two agree as long as all distances are below half the range. They are:
  outside a trap none is late, a tick adds `MaxJump` at most, and a new deadline is a delay ahead.
  `Falling` carries the order through insertion and removal for any such function. A late tick moves all distances alike, so the order survives
  the wrap; `sched_wake_expired` may then stop at the first entry that has not expired.
- `LifeCorrect`: `Spec => []LifeInv`, the life cycle of a TCB. It rests on a fact that nothing in the
  code states, `IdleLast`: the idle task, the only one that frees, runs only when no ready task
  is amid a call. Until it has run once it stands on the ready list of priority 0 in front of every
  other; afterwards it is chosen only with the ready lists empty. `LifeOK` then says
  where a TCB can be held: `PlacesOK` (only a task amid a create, a delete or the cleanup holds one,
  no such task is blocked, and a TCB that is not linked yet has not started), `HandlesOK` (an entry
  of the handle table names a live task that has this handle, or whose creator is about to store it)
  and `TargetsOK` (a live task that has looked up a TCB for `task_delete` still finds it
  allocated). From it follow `FreedTasksAreUnreachable` (`FreedIsUnreachable`) and
  `FreedTasksAreNotUsed` (`NoUseAfterFree`); the latter also holds after a fault, because a fault
  is never taken back. `TasksAreCounted` (`TaskCountExact`) adds `CountOK`: `task_count` is the number of
  live tasks without those whose creator has not counted them yet. Between the load and the
  store of `task_count++` any trap may come and other tasks may be created and deleted; the count
  stays exact in between, and after the store too unless it overwrites a change they made, which
  is the fault "torn" and the lost increment of `src/kernel/task.c:115`. The stores and decrements are counted one by one with the
  cardinality theorems of the library.
- `HeapProofs!HeapCorrect`: `HeapInv` is inductive for every heap, alignment, header size and
  set of clients. `Tiles` says that each block ends where the next begins, and includes that
  the addresses rise along the list: that follows from the first only by induction over the
  list. `BlocksInv` adds that a list without `split_beside_free` has no two free
  neighbours. `Clients` says that the block under every pointer held, and under the two a realloc
  works on, is in use and nobody else's; `CountInv` that as many blocks are in use as
  pointers are out.
  `TilingKept`, `HoldingsKept`, `NothingLeaks`, `CopyStaysInside` and `PiecesMerge` follow.
  `Refinement` maps the holdings of the clients, and the pointers inside a realloc, to the
  regions of `Allocator`, and shows every step to be a step of it or none.

- `ObjectProofs` and `MsgProofs` stand on `AlwaysInv`, so their theorems hold whatever the
  unprotected windows have done. The kernel's own steps are reduced to one fact, `HandsOff`: no
  task is put on a wait queue by them, and none is told that an object woke it.
  `ObjectInv` is the invariant of `KObject`: a call that is under way has the locals
  its place needs, one task at most destroys an object, it has found the wait
  queues empty before it frees it (`FreedHasNoWaiter`), and only a live object is used.
  `SemInv`, `MutexInv` and `MsgInv` add the data of each kind. From them follow
  `SemTypeCorrect`, `MsgTypeCorrect`, the three theorems on `FreedHasNoWaiter`,
  `NoTokenIdles` (`NoWaiterBesideToken`) and `WaitersHaveAnOwner`
  (`NoWaiterWithoutOwner`).
- `MsgProofs!MsgRefinement` (`RefinesQueue`): the ring buffer is read as a sequence, and the lemmas
  `PutAppends`, `PutFrontPrepends` and `RemoveTakesHead` say what the C operators do
  to it, for any length and any place of head and tail. Every step of a call is then
  the step of `BoundedQueue` that belongs to its operation, or none: `Send` only appends,
  `SendFront` only prepends, `Receive` takes the front message off and `Peek` does not, and
  `Refuse` tells a full queue from an empty one. `out` carries the operation, so that one cannot pass for
  another. That is FIFO with overtaking by send_front only, and each message received once.
- `MutexTypeCorrect`, `MutualExclusion` (`HolderOwns`) and `HandOverIsKnown`
  (`OwnerKnows`) need `WaitsInv`, what the waiting tasks know of their waits: a task on a
  queue of an object is inside a call on that object, and a wait that is over has the
  result of the waker. `OwnInv` adds that the owner of a mutex either holds it, with the
  count of the mutex, or has been woken with it and is on its way to return ERR_OK,
  and that nobody else is. `TokensNeverLost` (`TokensConserved`) counts in the same way
  (`TokenInv`): the balance of a semaphore is its count and the woken waiters that have not
  returned.
- `MsgProofs!NobodyIsMissed` (`NobodyMissed`): the property is not inductive, since one lost wake would
  be hidden by another waiter that happens to look. `Attended` counts: while readers
  wait, the queue has at most as many messages as there are tasks about to look
  for one; while writers wait, it has at most as much room as there are tasks about to
  send. `KindsKnown` (readers wait to receive or peek, writers to send) and `CallersLive`
  complete it. A peek that finds a message wakes the next reader, which is what keeps the
  count.

- `TimerProofs` proves `TimerListCorrect` (`TimerListSound`), `NoTimerIsForgotten` (`DueTimersRun`) and
  `TimersFireOnTime` (`NoEarlyFire`) from `TimerInv`, for any number of timers, any
  width of the counter and any period and delays that stay below half its range with a late tick added. Its core is `InOrder(T, L, now)`: the list holds the active timers, each
  once, sorted by how late they are, no timer is later than one tick interrupt can make it, and
  each deadline is as many ticks from `now` as the history `tleft` says. Every C operator of
  `timer.c` has a lemma: `timer_unlink` leaves a list that is in order but for one timer
  (`Detached`), `timer_insert_locked` puts it back (`InsertInOrder`), and start, stop, set-up and one round
  of `timer_run_expired` are made of the two. Since a callback acts on the list that such a round
  leaves, `HandlerInOrder` is stated for any list in order and serves interrupts and
  callbacks alike. `HeadTimer` says that the head is due exactly when some timer is, so that the loop
  may look at the head only. `ListOK` adds that only a usable timer has a callback, and `CallsOK`
  that a call which is about to free a timer has destroyed it; that is why a timer in the list is never a freed
  one. Everything is promised up to the first fault, where the model of the timers stops.

Trying to prove these led to two hypotheses, each the trace of a behaviour of the code:

- `TasksStay`: no task is created or deleted while the objects are in use. A waiter that is
  deleted after it was woken takes the token, the mutex or the wake with it
  (`src/kernel/semaphore.c:137` gives the token to the waiter, not to the count), and a
  new task in the same TCB inherits the ownership of a mutex. Without it
  `TokensConserved`, `HolderOwns`, `OwnerKnows` and `NobodyMissed` are false; the code
  promises nothing for that case.
- `LimitsHold`: `trt_sem_create` with a limit and a count that are both negative raises the
  count to 0 and leaves the limit (`src/kernel/semaphore.c:34-40`), so that the count
  is above its limit from the start. All other arguments are covered.

They also showed places where the model could not be reasoned about: CASE
expressions with overlapping guards in `sched_on_tick_slice`, `Requeue` and
`task_delete_obj`, which TLC reads from the top and the semantics of TLA+ does not (the
guards are exclusive now), an `ObjectAssumption` that let two objects share a wait
queue, and a `MsgQueueAssumption` that did not tell "no queue" from the contents of one in
`BoundedQueue`.

Only model-checked:

- `LoopRunsDown` of the timers: the rounds left are a sum over the list, and its definition
  (`FoldLeft`, which takes an operator) is beyond the provers. `TimerBoot` shows a fault.
- Liveness (`ReadyTaskRuns`, `DeletedIsFreed`) and everything that depends on fairness:
  the prover has neither ENABLED nor the rules for fairness.

## 5. Not modelled

The conversion of microseconds to ticks, and delays of 2^31 ticks or more;
`trt_wait_q_wake_all_from_isr` (no caller); deletion of tasks that wait on or own an
object, about which the code promises nothing; operations on objects other than
creation, and the start of timers, in `app_main`; callbacks that restart their timer
without a delay; functions that only read (`trt_timer_active`, `trt_msg_q_count`,
dumps); traps before the scheduler has started, other than the exception of
`TimerBoot`; that a sleeping task eventually wakes is covered as a safety property
(`DueTasksAreAwake`), not as liveness; register set-up, context save and restore,
linker script, logging, host tools, demo application: data and register writes
without kernel state.

## 6. Plan

The modules of section 2, the runs of section 3 and the proofs of section 4 are
complete: every invariant and every action property that a passing run checks is a
theorem, except `LoopRunsDown`. What a change of the code would call for:

1. With `task_yield` inside a critical section, `Window` loses its steps of `task_yield`; the runs
   `race_stall` and `ready_corrupt` should then pass, and `WindowOK` and `BitUnderway` are only about
   `task_create`.
2. With the test of the callback inside the critical section of `trt_timer_start`, `timer_start_check` and
   `timer_start` become one action and the lemmas `StartCheckTimers` and `StartTimers` one lemma.
3. With `timer_init` called by `kernel_init`, the run `timer_boot` should pass, and `TimerInv` can
   let `app_main` start timers.
