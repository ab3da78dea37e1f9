---------------------------- MODULE KernelProps ----------------------------
(***************************************************************************)
(* What makes the kernel correct, stated over the state of Kernel, and the *)
(* fairness its liveness properties assume.                                *)
(***************************************************************************)
EXTENDS Kernel, FiniteSets

IsLive(t) == k.state[t] \notin {"UNUSED", "DELETED"}

(* t is a TCB that some running task_create has initialised but not linked. *)
BeingCreated(t) == \E c \in Task : pc[c] = "c_link" /\ reg[c].obj = t

(* t is off the ready lists on purpose although its state is READY: the    *)
(* idle task, a task in task_yield between the store of its state and the  *)
(* link, a TCB under construction.                                         *)
ReadyUnlinked(t) ==
    \/ t = k.idle
    \/ t = k.current /\ pc[t] = "y_enq"
    \/ BeingCreated(t)

(* A READY task waits in a ready list, where a switch can find it, or it   *)
(* will never run again (sched.c sched_ready_enqueue and its callers).     *)
ReadyIsQueued ==
    \A t \in Task : k.state[t] = "READY" => OnReady(k, t) \/ ReadyUnlinked(t)

(* The lists a TCB is on agree with its state: ready lists hold READY      *)
(* tasks of their priority, wait queues BLOCKED tasks, the deleted list    *)
(* DELETED ones; the timeout list holds exactly the tasks that wait on the *)
(* timer; and only current_task is RUNNING.                                *)
ListsMatchStates ==
    /\ \A p \in Prio : \A i \in DOMAIN k.ready[p] :
          k.prio[k.ready[p][i]] = p /\ k.state[k.ready[p][i]] = "READY"
    /\ \A q \in WaitQ : \A i \in DOMAIN k.wq[q] : k.state[k.wq[q][i]] = "BLOCKED"
    /\ \A i \in DOMAIN k.deleted : k.state[k.deleted[i]] = "DELETED"
    /\ \A t \in Task : Contains(k.timeout, t) <=> k.timer[t] /\ k.state[t] = "BLOCKED"
    /\ \A t \in Task : k.state[t] = "RUNNING" => t = k.current

(* A blocked task can be woken: it is in a wait queue or on the timeout    *)
(* list, whatever timeouts, wakes and deletions it raced with.             *)
BlockedIsWakeable ==
    \A t \in Task : k.state[t] = "BLOCKED" => OnWaitQ(k, t) \/ Contains(k.timeout, t)

(* The two together, as long as no trap hit an unprotected window. *)
TasksAreReachable ==
    fault = {} => ReadyIsQueued /\ ListsMatchStates /\ BlockedIsWakeable

(* The priorities of tasks that are linked while their bit is on its way. *)
BitUnderway ==
    {k.prio[t] : t \in {u \in Task : u = k.current /\ pc[u] \in {"y_load", "y_store"}}}
      \cup {k.prio[reg[c].obj] :
               c \in {u \in Task : u = k.current /\ pc[u] \in {"c_load", "c_store"}}}

(* The ready mask says exactly which ready lists are not empty, so that    *)
(* sched_ready_pop_highest never finds an empty one and never misses the   *)
(* highest priority.                                                       *)
MaskMatchesLists ==
    fault = {} =>
      /\ ~k.corrupt
      /\ \A p \in Prio : p \notin BitUnderway =>
            (p \in k.mask <=> k.ready[p] # <<>>)

(* The assertion of sched_ready_pop_highest (sched.c:229): the list of the *)
(* highest bit in the mask is not empty.                                   *)
ReadyQueueNotCorrupt == ~k.corrupt

(* When a trap has been handled, every task whose wakeup time has come has *)
(* been woken, although sched_wake_expired stops at the first that has not *)
(* expired and the tick counter wraps.                                     *)
DueTasksAreAwake ==
    fault = {} /\ trap = "none" =>
        \A t \in Task : k.state[t] = "BLOCKED" /\ k.timer[t] =>
            ~timer_expired(tick, k.wakeup[t])

(* A wait never returns without a reason: when trt_wait_q_block has come   *)
(* back from task_yield, a waker, the timeout or a destroyer has left its  *)
(* wait_result, so the ERR_STATE fallback is dead code.                    *)
WaitReturnsWithReason ==
    \A t \in Task : Runs(t) /\ pc[t] = "wq_ret" => k.wres[t] # "NONE"

(* A switch that a tick wanted while the scheduler was locked is carried   *)
(* out: until then the scheduler is still locked with resched_pending set, *)
(* or sched_unlock has sent the task into task_yield.                      *)
DeferredSwitchIsOwed ==
    owed => \/ k.lock > 0 /\ k.pending
            \/ trap = "none" /\ pc[k.current] \in YieldPc
            \/ trap # "none"

(* A TCB is only freed when nothing can reach it any more: not the         *)
(* scheduler, not a list, not the handle table, and no task that looked it *)
(* up before it was deleted still uses it (task_cleanup_deleted runs in    *)
(* the idle task only).                                                    *)
FreedIsUnreachable ==
    fault = {} =>
        \A t \in Task : k.state[t] = "UNUSED" =>
            /\ t # k.current
            /\ ~OnStateList(k, t)
            /\ ~Contains(k.timeout, t)
            /\ \A h \in Handle : htab[h] # t
            /\ \A c \in Task : reg[c].obj = t => ~IsLive(c)

(* task_count, on which the limit RTOS_TASK_MAX is checked, is the number  *)
(* of live tasks: every way out of task_create and task_delete keeps it    *)
(* so, up to tasks whose task_create has not counted them yet.  Traps may  *)
(* come between the load and the store of task_count++, and other tasks    *)
(* run there; only a store that overwrites a change they made is a fault.  *)
Uncounted ==
    {t \in Task : \E c \in Task : /\ pc[c] \in {"c_link", "c_load", "c_store", "c_cload", "c_cstore"}
                                  /\ reg[c].obj = t
                                  /\ IsLive(c)}
TaskCountExact ==
    fault = {} => task_count = Cardinality({t \in Task : IsLive(t)} \ Uncounted)

(* A TCB is never touched after it was freed, although a handle is looked  *)
(* up in one critical section and its object used in another, unless a     *)
(* task was deleted amid a task_create or a window was hit.                *)
NoUseAfterFree == "uaf" \in fault => fault \cap {"torn", "orphan"} # {}

-----------------------------------------------------------------------------
(* Action properties *)

WaitsIn(q, t) == Contains(k.wq[q], t)

(* u waits in q in front of t. *)
AheadOf(q, u, t) == \E i, j \in DOMAIN k.wq[q] : i < j /\ k.wq[q][i] = u /\ k.wq[q][j] = t

(* Waiters are served by priority, first come first served among equals: a *)
(* task that starts to wait gets behind every waiter of no lower priority  *)
(* and in front of the others, no wake, timeout or deletion moves a waiter *)
(* past another one, and a task that is woken had nobody in front of it    *)
(* (sched_block_current, sched_wake_one).                                  *)
FirstComeFirstServed ==
    [][\A q \in WaitQ : \A t, u \in Task :
          /\ WaitsIn(q, u) /\ WaitsIn(q, u)' /\ WaitsIn(q, t)' =>
                /\ ~WaitsIn(q, t) => IF k.prio[u] >= k.prio[t] THEN AheadOf(q, u, t)'
                                                               ELSE AheadOf(q, t, u)'
                /\ AheadOf(q, u, t) => AheadOf(q, u, t)'
          /\ WaitsIn(q, t) /\ ~WaitsIn(q, t)' /\ k'.wres[t] = "OBJECT" => ~AheadOf(q, u, t)]_vars

(* sched.h: "must not suspend the current task while the scheduler is      *)
(* locked".  Whatever is called or interrupts, a locked scheduler never    *)
(* takes the CPU away.                                                     *)
LockedKeepsCpu == [][k.lock > 0 => k'.current = k.current]_vars

(* After a systick the CPU is not left to a task while one of higher       *)
(* priority is ready, unless the scheduler is locked                       *)
(* (RTOS_SCHED_PREEMPTIVE).                                                *)
TickRunsHighest ==
    [][fault = {} /\ trap = "tick" /\ trap' = "none" =>
         \/ k'.lock > 0
         \/ \A t \in Task : OnReady(k', t) => k'.prio[t] <= k'.prio[k'.current]]_vars

(* A delay is never cut short: a task that gets a timeout, or returns from *)
(* task_sleep, does so after at least as many ticks as it asked for.       *)
NoEarlyTimeout ==
    [][\A t \in Task :
          \/ k.state[t] = "BLOCKED" /\ k'.state[t] = "READY" /\ k'.wres[t] = "TIMEOUT"
          \/ pc[t] \in {"sl_loop", "sl_crit"} /\ pc'[t] = "run" /\ k.state[t] = "RUNNING"
          => left[t] = 0]_vars

-----------------------------------------------------------------------------
(* Fairness.  The boot code runs to its end, the interrupt of the system   *)
(* timer stays pending until it is taken, and a trap ends.  A task inside  *)
(* the kernel that is scheduled again and again advances: a systick comes  *)
(* every millisecond, and instructions execute between two of them.        *)
(* Application code need not make progress.                                *)
Fairness ==
    /\ WF_vars(Boot)
    /\ SF_vars(Systick)
    /\ WF_vars(TrapStep)
    /\ \A t \in Task : SF_vars(KernelStep(t))

LiveSpec == Spec /\ Fairness

(* No live task has a higher priority than t. *)
Topmost(t) == IsLive(t) /\ t # Idle /\ \A u \in Task : IsLive(u) => k.prio[u] <= k.prio[t]

NotLockedForever == []<>(k.lock = 0)

(* rtos_config.h: "equal-priority ready tasks share CPU time".  A ready    *)
(* task that no task outranks gets the CPU, even if the others never       *)
(* yield, provided nobody keeps the scheduler locked for ever.             *)
ReadyTaskRuns ==
    NotLockedForever =>
        \A t \in Task : (k.state[t] = "READY" /\ Topmost(t))
                            ~> (k.current = t \/ ~Topmost(t) \/ fault # {})

(* tests/task_delay_race_test.c: a worker that sleeps in a loop never      *)
(* stalls.  With no task above it, a task that sleeps or is ready gets the *)
(* CPU again.                                                              *)
WorkerNeverStalls ==
    NotLockedForever =>
        \A t \in Task :
            (k.state[t] = "READY" \/ (k.state[t] = "BLOCKED" /\ k.timer[t])) /\ Topmost(t)
                ~> (k.current = t \/ ~Topmost(t))

(* The TCB and stack of a deleted task are returned to the heap if the     *)
(* system is idle again and again.                                         *)
DeletedIsFreed ==
    []<>(k.current = Idle) =>
        \A t \in Task : k.state[t] = "DELETED" ~> (k.state[t] = "UNUSED" \/ fault # {})

=============================================================================
