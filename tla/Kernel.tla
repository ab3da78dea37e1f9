------------------------------- MODULE Kernel -------------------------------
(***************************************************************************)
(* The kernel as it runs: tasks (src/kernel/task.c), the idle task and the *)
(* boot sequence (src/kernel/kernel.c), the trap handler (do_trap in       *)
(* boards/esp32c3/hal.c) and the locking of the scheduler, over the        *)
(* operators of Sched and WaitQueue.                                       *)
(*                                                                         *)
(* There is one core.  A task moves only while it is current_task and no   *)
(* trap is being handled.  A critical section and a trap run with          *)
(* interrupts off: a critical section is one action, or a sequence of      *)
(* actions at a program counter in Masked; a trap is the sequence from the *)
(* action that raises it to TrapReturn.  Everywhere else a trap can come   *)
(* between two actions.  The windows in which task.c changes the ready     *)
(* lists with interrupts on are separate actions.  fault records what      *)
(* nothing in the code prevents: a trap that hits such a window, or a      *)
(* task_count++ that overwrites a change made since it loaded the counter  *)
(* ("torn"), a task deleted amid its own task_create or the one that       *)
(* creates it, so that its handle or TCB is lost ("orphan"), an access to  *)
(* a freed TCB ("uaf").                                                    *)
(***************************************************************************)
EXTENDS WaitQueue

CONSTANTS
    Calls,              \* the API calls the application makes
    CreatePrio,         \* priorities it creates tasks with
    Delays,             \* delays and timeouts in ticks
    MaxJump,            \* bound: ticks one systick trap can account for
    MaxLock,            \* bound: nesting of sched_lock
    RTOS_TASK_MAX,
    RTOS_HANDLE_MAX

(* timer_expired can only order deadlines that are less than half the      *)
(* range of the tick counter away.  "object" stands for the objects of the *)
(* handle table that are not tasks.                                        *)
ASSUME KernelAssumption ==
    /\ CreatePrio \subseteq Prio
    /\ Delays \subseteq 0..(TickMod \div 2 - 1)
    /\ MaxJump \in 1..(TickMod \div 2 - 1)
    /\ MaxLock \in Nat
    /\ RTOS_TASK_MAX \in Nat \ {0}
    /\ RTOS_HANDLE_MAX \in Nat
    /\ "object" \notin Task

Handle == 1..RTOS_HANDLE_MAX

VARIABLES
    k,          \* scheduler_t and the scheduling fields of the TCBs
    tick,       \* tick_count
    trap,       \* the trap being handled, or "none"
    boot,       \* progress of kernel_main
    pc,         \* where each task is
    ret,        \* where its task_yield or arch_yield returns to
    reg,        \* its locals that live across a point where it can be interrupted
    task_count,
    hnd,        \* the field handle of each TCB
    htab,       \* the objects of the handle table (generations: module Handle)
    left,       \* history: ticks until the delay last asked for has passed
    owed,       \* history: a tick wanted to switch while the scheduler was locked
    fault       \* history: unprotected windows that were hit

vars == <<k, tick, trap, boot, pc, ret, reg, task_count, hnd, htab, left, owed, fault>>

taskvars == <<task_count, hnd, htab>>
history == <<left, owed, fault>>

Locals ==
    [mask : SUBSET Prio, count : Nat, due : Ticks, obj : Task \cup {None},
     h : Handle \cup {0}, q : WaitQ \cup {None}]

NoReg == [mask |-> {}, count |-> 0, due |-> 0, obj |-> None, h |-> 0, q |-> None]

(* Program counters of task_yield, task_delay_ticks, the wait queue calls, *)
(* task_create, task_delete and idle_task; "run" is application code.      *)
YieldPc == {"y_chk", "y_enq", "y_load", "y_store", "ecall"}
CreatePc == {"c_link", "c_load", "c_store", "c_cload", "c_cstore", "c_hnd", "c_set", "c_fail"}
IdlePc == {"i_clean", "i_free", "i_en", "i_wfi"}

(* The calls of the kernel objects, in the modules that extend this one:   *)
(* the handle has been looked up, the waiters are being woken, the handle  *)
(* is to be closed, the memory to be freed, the wait is over.              *)
ObjectPc == {"o_op", "o_crit", "o_wake", "o_close", "o_free", "o_ret"}

Pc == {"run", "sl_loop", "sl_crit", "wq_all", "wq_ret", "d_obj"}
        \cup YieldPc \cup CreatePc \cup IdlePc \cup ObjectPc

(* Where task_yield and arch_yield return to. *)
RetPc == {"run", "sl_loop", "wq_ret", "o_ret", "ecall"}

Masked == {"wq_all", "o_wake"}

(* The ready list or the mask is between two of the writes that belong     *)
(* together.                                                               *)
Window == {"y_enq", "y_load", "y_store", "c_load", "c_store"}

TypeOK ==
    /\ k \in Scheduler
    /\ tick \in Ticks
    /\ trap \in {"none", "tick", "irq", "ecall"}
    /\ boot \in {"kernel_init", "app_main", "done"}
    /\ pc \in [Task -> Pc]
    /\ ret \in [Task -> RetPc]
    /\ reg \in [Task -> Locals]
    /\ task_count \in Nat
    /\ hnd \in [Task -> Handle \cup {0}]
    /\ htab \in [Handle -> Task \cup {None, "object"}]
    /\ left \in [Task -> Nat]
    /\ owed \in BOOLEAN
    /\ fault \in SUBSET {"torn", "orphan", "uaf"}

Init ==
    /\ k = sched_init
    /\ tick = 0
    /\ trap = "none"
    /\ boot = "kernel_init"
    /\ pc = [t \in Task |-> "run"]
    /\ ret = [t \in Task |-> "run"]
    /\ reg = [t \in Task |-> NoReg]
    /\ task_count = 0
    /\ hnd = [t \in Task |-> 0]
    /\ htab = [h \in Handle |-> None]
    /\ left = [t \in Task |-> 0]
    /\ owed = FALSE
    /\ fault = {}

Goto(t, p) == pc' = [pc EXCEPT ![t] = p]

(* task_yield() called at the point where p is what follows. *)
CallYield(t, p) ==
    /\ Goto(t, "y_chk")
    /\ ret' = [ret EXCEPT ![t] = p]

FreeSlots == {u \in Task \ {Idle} : k.state[u] = "UNUSED"}
FreeHandles == {h \in Handle : htab[h] = None}

-----------------------------------------------------------------------------
(* Boot: kernel_main runs kernel_init, app_main and rtos_start on the boot *)
(* stack with interrupts off.                                              *)

(* The fields task_create_kernel gives a new TCB. *)
InitTcb(s, u, p) ==
    [s EXCEPT !.state[u] = "READY", !.prio[u] = p, !.wakeup[u] = 0,
              !.timer[u] = FALSE, !.wres[u] = "NONE"]

kernel_init ==
    /\ boot = "kernel_init"
    /\ k' = [sched_ready_enqueue(InitTcb(k, Idle, 0), Idle) EXCEPT !.idle = Idle]
    /\ pc' = [pc EXCEPT ![Idle] = "i_clean"]
    /\ task_count' = 1
    /\ boot' = "app_main"
    /\ UNCHANGED <<tick, trap, ret, reg, hnd, htab, history>>

(* task_create from app_main: nothing can come in between. *)
app_main_create(p) ==
    /\ boot = "app_main"
    /\ task_count < RTOS_TASK_MAX
    /\ \E u \in FreeSlots :
        LET s == sched_ready_enqueue(InitTcb(k, u, p), u)
        IN IF FreeHandles # {}
           THEN /\ k' = s
                /\ hnd' = [hnd EXCEPT ![u] = Min(FreeHandles)]
                /\ htab' = [htab EXCEPT ![Min(FreeHandles)] = u]
                /\ task_count' = task_count + 1
           ELSE /\ k' = sched_mark_deleted(s, u)
                /\ UNCHANGED taskvars
    /\ UNCHANGED <<tick, trap, boot, pc, ret, reg, history>>

(* app_main creates an object of another kind, which keeps its handle. *)
app_main_object ==
    /\ boot = "app_main"
    /\ "object" \in Calls
    /\ FreeHandles # {}
    /\ \A h \in Handle : htab[h] # "object"
    /\ htab' = [htab EXCEPT ![Min(FreeHandles)] = "object"]
    /\ UNCHANGED <<k, tick, trap, boot, pc, ret, reg, task_count, hnd, history>>

(* sched_pick_next, then task_start_first sets started and enters the task. *)
rtos_start ==
    /\ boot = "app_main"
    /\ k' = [sched_pick_next(k) EXCEPT !.started = TRUE]
    /\ boot' = "done"
    /\ UNCHANGED <<tick, trap, pc, ret, reg, taskvars, history>>

-----------------------------------------------------------------------------
(* Tasks *)

Runs(t) == k.started /\ trap = "none" /\ k.current = t /\ ~k.corrupt

At(t, p) == Runs(t) /\ pc[t] = p

(* A call the application makes from task t. *)
Call(t, c) == t # Idle /\ At(t, "run") /\ c \in Calls

task_yield(t) ==
    /\ Call(t, "yield")
    /\ CallYield(t, "run")
    /\ UNCHANGED <<k, tick, trap, boot, reg, taskvars, history>>

(* task_yield up to the call of sched_ready_enqueue. *)
yield_check(t) ==
    /\ At(t, "y_chk")
    /\ IF sched_is_locked(k)
       THEN /\ k' = sched_set_pending(k)
            /\ Goto(t, ret[t])
       ELSE IF k.state[t] = "RUNNING" /\ ~sched_current_is_idle(k)
            THEN /\ k' = [k EXCEPT !.state[t] = "READY"]
                 /\ Goto(t, "y_enq")
            ELSE /\ Goto(t, "ecall")
                 /\ UNCHANGED k
    /\ UNCHANGED <<tick, trap, boot, ret, reg, taskvars, history>>

yield_link(t) ==
    /\ At(t, "y_enq")
    /\ IF EnqueueRefused(k, t)
       THEN /\ Goto(t, "ecall")
            /\ UNCHANGED k
       ELSE /\ k' = ready_link(k, t)
            /\ Goto(t, "y_load")
    /\ UNCHANGED <<tick, trap, boot, ret, reg, taskvars, history>>

(* mask |= bit: a load and a store. *)
mask_load(t, from, to) ==
    /\ At(t, from)
    /\ reg' = [reg EXCEPT ![t].mask = k.mask]
    /\ Goto(t, to)
    /\ UNCHANGED <<k, tick, trap, boot, ret, taskvars, history>>

mask_store(t, u, from, to) ==
    /\ At(t, from)
    /\ k' = [k EXCEPT !.mask = reg[t].mask \cup {k.prio[u]}]
    /\ reg' = [reg EXCEPT ![t].mask = {}]
    /\ Goto(t, to)
    /\ UNCHANGED <<tick, trap, boot, ret, taskvars, history>>

(* arch_yield: raises the trap; do_trap moves mepc past the ecall.  Code   *)
(* that loops on arch_yield returns to "ecall".                            *)
arch_yield(t) ==
    /\ At(t, "ecall")
    /\ trap' = "ecall"
    /\ Goto(t, ret[t])
    /\ UNCHANGED <<k, tick, boot, ret, reg, taskvars, history>>

task_yield_step(t) ==
    \/ yield_check(t)
    \/ yield_link(t)
    \/ mask_load(t, "y_load", "y_store")
    \/ mask_store(t, t, "y_store", "ecall")
    \/ arch_yield(t)

-----------------------------------------------------------------------------
(* task_sleep(d): task_delay_ticks *)

task_sleep(t, d) ==
    /\ Call(t, "sleep")
    /\ IF sched_is_locked(k)
       THEN /\ k' = sched_set_pending(k)
            /\ UNCHANGED <<pc, reg, left>>
       ELSE /\ reg' = [reg EXCEPT ![t].due = (tick + d) % TickMod]
            /\ left' = [left EXCEPT ![t] = d]
            /\ Goto(t, "sl_loop")
            /\ UNCHANGED k
    /\ UNCHANGED <<tick, trap, boot, ret, taskvars, owed, fault>>

sleep_done(t) ==
    /\ reg' = [reg EXCEPT ![t].due = 0]
    /\ Goto(t, "run")
    /\ UNCHANGED <<k, ret>>

sleep_loop(t) ==
    /\ At(t, "sl_loop")
    /\ IF timer_expired(tick, reg[t].due)
       THEN sleep_done(t)
       ELSE /\ Goto(t, "sl_crit")
            /\ UNCHANGED <<k, ret, reg>>
    /\ UNCHANGED <<tick, trap, boot, taskvars, history>>

sleep_block(t) ==
    /\ At(t, "sl_crit")
    /\ IF timer_expired(tick, reg[t].due)
       THEN sleep_done(t)
       ELSE /\ k' = LET b == [k EXCEPT !.wakeup[t] = reg[t].due,
                                       !.timer[t] = TRUE,
                                       !.wres[t] = "NONE",
                                       !.state[t] = "BLOCKED"]
                    IN sched_timeout_insert(sched_ready_remove(b, t), t)
            /\ CallYield(t, "sl_loop")
            /\ UNCHANGED reg
    /\ UNCHANGED <<tick, trap, boot, taskvars, history>>

-----------------------------------------------------------------------------
(* sched_lock, sched_unlock *)

sched_lock(t) ==
    /\ Call(t, "lock")
    /\ k.lock < MaxLock
    /\ k' = [k EXCEPT !.lock = @ + 1]
    /\ UNCHANGED <<tick, trap, boot, pc, ret, reg, taskvars, history>>

(* MUTANT: sched_unlock counts below zero. *)
unlock_underflow(t) ==
    /\ Call(t, "lock")
    /\ k' = [k EXCEPT !.lock = @ - 1]
    /\ UNCHANGED <<pc, ret>>
    /\ UNCHANGED <<tick, trap, boot, reg, taskvars, history>>

sched_unlock(t) ==
    /\ Call(t, "lock")
    /\ k.lock > 0
    /\ IF k.lock = 1 /\ k.pending
       THEN /\ k' = [k EXCEPT !.lock = 0, !.pending = FALSE]
            /\ CallYield(t, "run")
       ELSE /\ k' = [k EXCEPT !.lock = @ - 1]
            /\ UNCHANGED <<pc, ret>>
    /\ UNCHANGED <<tick, trap, boot, reg, taskvars, history>>

-----------------------------------------------------------------------------
(* The task-context calls of wait_queue.c *)

trt_wait_q_block(t, q) ==
    /\ Call(t, "wait")
    /\ k' = trt_wait_q_block_locked(k, q)
    /\ IF BlockRefused(k) THEN UNCHANGED <<pc, ret>> ELSE CallYield(t, "wq_ret")
    /\ UNCHANGED <<tick, trap, boot, reg, taskvars, history>>

trt_wait_q_block_ticks(t, q, d) ==
    /\ Call(t, "timedwait")
    /\ d > 0
    /\ k' = trt_wait_q_block_ticks_locked(k, q, d, tick)
    /\ IF BlockRefused(k)
       THEN UNCHANGED <<pc, ret, left>>
       ELSE /\ CallYield(t, "wq_ret")
            /\ left' = [left EXCEPT ![t] = d]
    /\ UNCHANGED <<tick, trap, boot, reg, taskvars, owed, fault>>

(* The result is read from the TCB, and the call returns. *)
wait_return(t) ==
    /\ At(t, "wq_ret")
    /\ Goto(t, "run")
    /\ UNCHANGED <<k, tick, trap, boot, ret, reg, taskvars, history>>

trt_wait_q_wake_one(t, q) ==
    /\ Call(t, "wake")
    /\ k' = trt_wait_q_wake_one_locked(k, q)
    /\ UNCHANGED <<tick, trap, boot, pc, ret, reg, taskvars, history>>

trt_wait_q_wake_all(t, q) ==
    /\ Call(t, "wake")
    /\ k.wq[q] # <<>>
    /\ reg' = [reg EXCEPT ![t].q = q]
    /\ Goto(t, "wq_all")
    /\ UNCHANGED <<k, tick, trap, boot, ret, taskvars, history>>

(* One round of the loop of trt_wait_q_wake_all_result_locked, with        *)
(* interrupts off; the last one leaves the critical section.               *)
wake_all_round(t, from, result, p) ==
    LET q == reg[t].q
    IN /\ At(t, from)
       /\ k' = trt_wait_q_wake_one_result_locked(k, q, result)
       /\ IF Len(k.wq[q]) <= 1
          THEN /\ Goto(t, p)
               /\ reg' = [reg EXCEPT ![t].q = None]
          ELSE UNCHANGED <<pc, reg>>
       /\ UNCHANGED <<tick, trap, boot, ret, taskvars, history>>

-----------------------------------------------------------------------------
(* task_delete and task_exit *)

(* trt_handle_lookup refuses a handle that is not a task's. *)
task_delete(t, h) ==
    /\ Call(t, "delete")
    /\ htab[h] \in Task
    /\ reg' = [reg EXCEPT ![t].obj = htab[h]]
    /\ Goto(t, "d_obj")
    /\ UNCHANGED <<k, tick, trap, boot, ret, taskvars, history>>

(* MUTANT: the handle of a deleted task stays open. *)
leave_handle_open(u) ==
    /\ hnd' = [hnd EXCEPT ![u] = 0]
    /\ UNCHANGED htab

CloseHandle(u) ==
    /\ htab' = IF hnd[u] = 0 THEN htab ELSE [htab EXCEPT ![hnd[u]] = None]
    /\ hnd' = [hnd EXCEPT ![u] = 0]

(* Some other task is still in the task_create of u, or u in one of its own. *)
Unpublished(t, u) ==
    \/ pc[u] \in CreatePc
    \/ \E c \in Task \ {t} : pc[c] \in CreatePc /\ reg[c].obj = u

(* MUTANT: the TCB is freed at once, not by the idle task. *)
delete_frees_at_once(t, u, p) ==
    CASE k.state[u] = "UNUSED" ->
           /\ fault' = fault \cup {"uaf"}
           /\ Goto(t, p)
           /\ UNCHANGED <<k, taskvars>>
      [] k.state[u] # "UNUSED" /\ (u = Idle \/ k.state[u] = "DELETED") ->
           /\ Goto(t, p)
           /\ UNCHANGED <<k, taskvars, fault>>
      [] OTHER ->
           LET d == sched_mark_deleted(k, u)
           IN /\ CloseHandle(u)
              /\ k' = [d EXCEPT !.deleted = RemoveFirst(@, u), !.state[u] = "UNUSED"]
              /\ task_count' = task_count - 1
              /\ UNCHANGED fault
              /\ Goto(t, IF u = t THEN "ecall" ELSE p)

(* task_delete_obj(u) called by t, where p follows if it returns.  u may   *)
(* have been freed since the caller got hold of it.                        *)
task_delete_obj(t, u, p) ==
    CASE k.state[u] = "UNUSED" ->
           /\ fault' = fault \cup {"uaf"}
           /\ Goto(t, p)
           /\ UNCHANGED <<k, taskvars>>
      [] /\ k.state[u] # "UNUSED"
         /\ u = Idle \/ k.state[u] = "DELETED" \/ (u = t /\ sched_is_locked(k)) ->
           /\ Goto(t, p)
           /\ UNCHANGED <<k, taskvars, fault>>
      [] OTHER ->
           /\ CloseHandle(u)
           /\ k' = [sched_mark_deleted(k, u) EXCEPT !.pending = @ \/ u = t]
           /\ task_count' = IF task_count = 0 THEN 0 ELSE task_count - 1
           /\ fault' = IF Unpublished(t, u) THEN fault \cup {"orphan"} ELSE fault
           /\ Goto(t, IF u = t THEN "ecall" ELSE p)

(* Deleting oneself ends in a loop of arch_yield. *)
LoopIfSelf(t, u) == ret' = IF u = t THEN [ret EXCEPT ![t] = "ecall"] ELSE ret

task_delete_found(t) ==
    LET u == reg[t].obj
    IN /\ At(t, "d_obj")
       /\ task_delete_obj(t, u, "run")
       /\ LoopIfSelf(t, u)
       /\ reg' = [reg EXCEPT ![t].obj = None]
       /\ UNCHANGED <<tick, trap, boot, left, owed>>

(* Explicitly, or by returning from the entry function; if the delete is   *)
(* refused because the scheduler is locked, the task yields forever.       *)
task_exit(t) ==
    /\ Call(t, "exit")
    /\ task_delete_obj(t, t, "ecall")
    /\ LoopIfSelf(t, t)
    /\ UNCHANGED <<tick, trap, boot, reg, left, owed>>

-----------------------------------------------------------------------------
(* task_create in a running system: task_create_kernel has interrupts on *)

task_create(t, p) ==
    /\ Call(t, "create")
    /\ task_count < RTOS_TASK_MAX
    /\ \E u \in FreeSlots :
        /\ k' = InitTcb(k, u, p)
        /\ hnd' = [hnd EXCEPT ![u] = 0]
        /\ reg' = [reg EXCEPT ![t].obj = u]
    /\ Goto(t, "c_link")
    /\ UNCHANGED <<tick, trap, boot, ret, task_count, htab, history>>

(* sched_add_task *)
create_link(t) ==
    /\ At(t, "c_link")
    /\ IF EnqueueRefused(k, reg[t].obj)
       THEN /\ Goto(t, "c_cload")
            /\ UNCHANGED k
       ELSE /\ k' = ready_link(k, reg[t].obj)
            /\ Goto(t, "c_load")
    /\ UNCHANGED <<tick, trap, boot, ret, reg, taskvars, history>>

(* task_count++ on a register: a trap may come before the store, and the   *)
(* tasks it switches to may create and delete.                             *)
count_load(t) ==
    /\ At(t, "c_cload")
    /\ reg' = [reg EXCEPT ![t].count = task_count]
    /\ Goto(t, "c_cstore")
    /\ UNCHANGED <<k, tick, trap, boot, ret, taskvars, history>>

count_store(t) ==
    /\ At(t, "c_cstore")
    /\ task_count' = reg[t].count + 1
    /\ reg' = [reg EXCEPT ![t].count = 0]
    /\ fault' = IF reg[t].count = task_count THEN fault ELSE fault \cup {"torn"}
    /\ Goto(t, "c_hnd")
    /\ UNCHANGED <<k, tick, trap, boot, ret, hnd, htab, left, owed>>

(* trt_handle_alloc takes the first free entry; the new task may have run, *)
(* and even have been freed, before.                                       *)
create_handle(t) ==
    /\ At(t, "c_hnd")
    /\ IF FreeHandles # {}
       THEN /\ htab' = [htab EXCEPT ![Min(FreeHandles)] = reg[t].obj]
            /\ reg' = [reg EXCEPT ![t].h = Min(FreeHandles)]
            /\ Goto(t, "c_set")
       ELSE /\ Goto(t, "c_fail")
            /\ UNCHANGED <<htab, reg>>
    /\ UNCHANGED <<k, tick, trap, boot, ret, task_count, hnd, history>>

(* task->handle = handle *)
create_set_handle(t) ==
    /\ At(t, "c_set")
    /\ hnd' = [hnd EXCEPT ![reg[t].obj] = reg[t].h]
    /\ fault' = IF k.state[reg[t].obj] = "UNUSED" THEN fault \cup {"uaf"} ELSE fault
    /\ reg' = [reg EXCEPT ![t] = [@ EXCEPT !.h = 0, !.obj = None]]
    /\ Goto(t, "run")
    /\ UNCHANGED <<k, tick, trap, boot, ret, task_count, htab, left, owed>>

(* MUTANT: the task is taken back without its place in task_count. *)
create_fail_uncounted(t) ==
    /\ At(t, "c_fail")
    /\ k' = sched_mark_deleted(k, reg[t].obj)
    /\ reg' = [reg EXCEPT ![t].obj = None]
    /\ Goto(t, "run")
    /\ UNCHANGED <<tick, trap, boot, ret, taskvars, history>>

(* No handle left: task_delete_kernel. *)
create_fail(t) ==
    /\ At(t, "c_fail")
    /\ task_delete_obj(t, reg[t].obj, "run")
    /\ reg' = [reg EXCEPT ![t].obj = None]
    /\ UNCHANGED <<tick, trap, boot, ret, left, owed>>

task_create_step(t) ==
    \/ create_link(t)
    \/ mask_load(t, "c_load", "c_store")
    \/ mask_store(t, reg[t].obj, "c_store", "c_cload")
    \/ count_load(t)
    \/ count_store(t)
    \/ create_handle(t)
    \/ create_set_handle(t)
    \/ create_fail(t)

-----------------------------------------------------------------------------
(* idle_task: task_cleanup_deleted, enable interrupts, wait for one *)

cleanup_pop ==
    /\ At(Idle, "i_clean")
    /\ IF k.deleted = <<>>
       THEN /\ Goto(Idle, "i_en")
            /\ UNCHANGED <<k, reg>>
       ELSE /\ k' = [k EXCEPT !.deleted = Tail(@)]
            /\ reg' = [reg EXCEPT ![Idle].obj = Head(k.deleted)]
            /\ Goto(Idle, "i_free")
    /\ UNCHANGED <<tick, trap, boot, ret, taskvars, history>>

(* free(task->stack_base); free(task) *)
cleanup_free ==
    LET u == reg[Idle].obj
    IN /\ At(Idle, "i_free")
       /\ k' = [k EXCEPT !.state[u] = "UNUSED", !.prio[u] = 0, !.wakeup[u] = 0]
       /\ pc' = [pc EXCEPT ![Idle] = "i_clean", ![u] = "run"]
       /\ ret' = [ret EXCEPT ![u] = "run"]
       /\ reg' = [reg EXCEPT ![Idle] = NoReg, ![u] = NoReg]
       /\ left' = [left EXCEPT ![u] = 0]
       /\ UNCHANGED <<tick, trap, boot, taskvars, owed, fault>>

idle_enable ==
    /\ At(Idle, "i_en")
    /\ Goto(Idle, "i_wfi")
    /\ UNCHANGED <<k, tick, trap, boot, ret, reg, taskvars, history>>

idle_step == cleanup_pop \/ cleanup_free \/ idle_enable

-----------------------------------------------------------------------------
(* Traps: do_trap *)

CanInterrupt ==
    k.started /\ trap = "none" /\ ~k.corrupt /\ pc[k.current] \notin Masked

(* The interrupt ends a wfi; one that hits a window is recorded. *)
Interrupted ==
    /\ CanInterrupt
    /\ pc' = IF pc[k.current] = "i_wfi" THEN [pc EXCEPT ![k.current] = "i_clean"] ELSE pc
    /\ fault' = IF pc[k.current] \in Window THEN fault \cup {"torn"} ELSE fault

Monus(a, b) == IF a > b THEN a - b ELSE 0

(* SysTick_Handler: tick_count is read from the timer, so a late tick      *)
(* accounts for several.                                                   *)
SysTick(d) ==
    /\ Interrupted
    /\ trap' = "tick"
    /\ tick' = (tick + d) % TickMod
    /\ left' = [t \in Task |-> Monus(left[t], d)]
    /\ UNCHANGED <<k, boot, ret, reg, taskvars, owed>>

(* Another interrupt: its handler does not touch the kernel, or wakes a    *)
(* waiter.                                                                 *)
Irq ==
    /\ Interrupted
    /\ trap' = "irq"
    /\ \/ UNCHANGED k
       \/ "wake" \in Calls /\ \E q \in WaitQ : k' = trt_wait_q_wake_one_from_isr(k, q)
    /\ UNCHANGED <<tick, boot, ret, reg, taskvars, left, owed>>

sched_wake_expired ==
    /\ trap # "none"
    /\ HeadExpired(k, tick)
    /\ k' = sched_wake_expired_one(k)
    /\ UNCHANGED <<tick, trap, boot, pc, ret, reg, taskvars, history>>

MustSwitch == k.state[k.current] # "RUNNING" \/ sched_current_is_idle(k)

SwitchedFromTrap ==
    LET s == IF MustSwitch
             THEN sched_pick_next(k)
             ELSE IF trap = "tick" THEN tick_reschedule(k) ELSE k
    IN IF trap = "tick" \/ s.corrupt THEN s ELSE sched_try_reschedule_from_trap(s)

(* The rest of do_trap once no task is left to wake. *)
TrapReturn ==
    /\ trap # "none"
    /\ ~HeadExpired(k, tick)
    /\ k' = SwitchedFromTrap
    /\ trap' = "none"
    /\ owed' = IF MustSwitch \/ ~sched_is_locked(k)
               THEN FALSE
               ELSE owed \/ (trap = "tick" /\ sched_on_tick_switch(k))
    /\ UNCHANGED <<tick, boot, pc, ret, reg, taskvars, left, fault>>

(* sched_ready_pop_highest found the list of the highest bit empty and     *)
(* spins with interrupts off.                                              *)
CorruptLoop == k.corrupt /\ UNCHANGED vars

-----------------------------------------------------------------------------
Boot ==
    \/ kernel_init
    \/ \E p \in CreatePrio : app_main_create(p)
    \/ app_main_object
    \/ rtos_start

(* Application code calls the kernel. *)
AppCall(t) ==
    \/ task_yield(t)
    \/ \E d \in Delays : task_sleep(t, d)
    \/ sched_lock(t)
    \/ sched_unlock(t)
    \/ \E q \in WaitQ : \/ trt_wait_q_block(t, q)
                        \/ \E d \in Delays : trt_wait_q_block_ticks(t, q, d)
                        \/ trt_wait_q_wake_one(t, q)
                        \/ trt_wait_q_wake_all(t, q)
    \/ \E h \in Handle : task_delete(t, h)
    \/ task_exit(t)
    \/ \E p \in CreatePrio : task_create(t, p)

(* Kernel code continues in the context of task t. *)
KernelStep(t) ==
    \/ task_yield_step(t)
    \/ sleep_loop(t)
    \/ sleep_block(t)
    \/ wait_return(t)
    \/ wake_all_round(t, "wq_all", "OBJECT", "run")
    \/ task_delete_found(t)
    \/ task_create_step(t)
    \/ t = Idle /\ idle_step

Systick == \E d \in 1..MaxJump : SysTick(d)
TrapStep == sched_wake_expired \/ TrapReturn

Next ==
    \/ Boot
    \/ \E t \in Task : AppCall(t) \/ KernelStep(t)
    \/ Systick
    \/ Irq
    \/ TrapStep
    \/ CorruptLoop

Spec == Init /\ [][Next]_vars

=============================================================================
