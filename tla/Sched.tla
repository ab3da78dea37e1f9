------------------------------- MODULE Sched -------------------------------
(***************************************************************************)
(* src/kernel/sched.c: the scheduler_t structure together with the         *)
(* scheduling fields of the task control blocks (TCBs), and the functions  *)
(* that change them.                                                       *)
(*                                                                         *)
(* The whole structure is one record s; a C function that changes it is an *)
(* operator from s to the next s, with the name it has in the source, so   *)
(* that a handler that calls several of them is their composition.         *)
(*                                                                         *)
(* An intrusive list is the sequence of its TCBs.  A TCB has one           *)
(* state_list node, shared by the ready lists, the wait queues and the     *)
(* deleted list, and one timeout_list node.  The ready mask is the set of  *)
(* its one bits.  A null pointer is None, a free TCB slot is "UNUSED".     *)
(***************************************************************************)
EXTENDS Integers, Sequences, SequencesExt

CONSTANTS
    Task,                   \* TCB slots of the heap
    Idle,                   \* the slot of the idle task
    None,                   \* the null pointer
    WaitQ,                  \* the wait queues (trt_wait_q_t) of the objects
    RTOS_PRIORITY_MAX,
    RTOS_TIME_SLICE_TICKS,
    TickMod                 \* tick_count and wakeup are counted modulo this

(* rtos_config.h rejects a time slice below 1; TickMod stands for 2^32. *)
ASSUME SchedAssumption ==
    /\ Idle \in Task
    /\ None \notin Task
    /\ RTOS_PRIORITY_MAX \in Nat
    /\ RTOS_TIME_SLICE_TICKS \in Nat \ {0}
    /\ TickMod \in Nat \ {0}
    /\ TickMod % 2 = 0

Prio == 0..RTOS_PRIORITY_MAX
Ticks == 0..(TickMod - 1)
TaskState == {"UNUSED", "READY", "RUNNING", "BLOCKED", "DELETED"}
WaitResult == {"NONE", "OBJECT", "TIMEOUT", "DESTROYED"}

(* scheduler_t, and the TCB fields state .. wait_result indexed by slot.   *)
(* corrupt records that sched_ready_pop_highest met its "ready queue       *)
(* corrupt" condition and is spinning with interrupts off.                 *)
Scheduler ==
    [ current : Task \cup {None},
      idle : {Idle, None},
      started : BOOLEAN,
      lock : Nat,
      pending : BOOLEAN,
      slice : Nat,
      mask : SUBSET Prio,
      ready : [Prio -> Seq(Task)],
      timeout : Seq(Task),
      deleted : Seq(Task),
      wq : [WaitQ -> Seq(Task)],
      state : [Task -> TaskState],
      prio : [Task -> Prio],
      wakeup : [Task -> Ticks],
      timer : [Task -> BOOLEAN],
      wres : [Task -> WaitResult],
      corrupt : BOOLEAN ]

sched_init ==
    [ current |-> None,
      idle |-> None,
      started |-> FALSE,
      lock |-> 0,
      pending |-> FALSE,
      slice |-> 0,
      mask |-> {},
      ready |-> [p \in Prio |-> <<>>],
      timeout |-> <<>>,
      deleted |-> <<>>,
      wq |-> [q \in WaitQ |-> <<>>],
      state |-> [t \in Task |-> "UNUSED"],
      prio |-> [t \in Task |-> 0],
      wakeup |-> [t \in Task |-> 0],
      timer |-> [t \in Task |-> FALSE],
      wres |-> [t \in Task |-> "NONE"],
      corrupt |-> FALSE ]

-----------------------------------------------------------------------------
(* Ticks.  (int32_t)(a - b) is negative when the difference modulo 2^32    *)
(* lies in the upper half.                                                 *)
(* MUTANT: a deadline expires one tick early. *)
expired_early(now, deadline) == (now + 1 - deadline) % TickMod < TickMod \div 2

timer_expired(now, deadline) == (now - deadline) % TickMod < TickMod \div 2

TickBefore(a, b) == ~timer_expired(a, b)

-----------------------------------------------------------------------------
(* The list primitives of list.h on a TCB's two nodes. *)
OnReady(s, t) == \E p \in Prio : Contains(s.ready[p], t)
OnWaitQ(s, t) == \E q \in WaitQ : Contains(s.wq[q], t)
OnStateList(s, t) == OnReady(s, t) \/ OnWaitQ(s, t) \/ Contains(s.deleted, t)

(* list_del_init(&task->state_list) *)
StateListDel(s, t) ==
    [s EXCEPT !.ready = [p \in Prio |-> RemoveFirst(s.ready[p], t)],
              !.wq = [q \in WaitQ |-> RemoveFirst(s.wq[q], t)],
              !.deleted = RemoveFirst(s.deleted, t)]

(* list_for_each ... list_add_before, list_add_tail: t goes in front of    *)
(* the first entry at one of the places in Overtaken, else to the tail.    *)
InsertBeforeFirst(seq, t, Overtaken) ==
    IF Overtaken = {} THEN Append(seq, t) ELSE InsertAt(seq, Min(Overtaken), t)

-----------------------------------------------------------------------------
(* MUTANT: list_add instead of list_add_tail. *)
link_at_head(s, t) ==
    [s EXCEPT !.ready[s.prio[t]] = <<t>> \o @]

(* sched_ready_enqueue in the two halves an interrupt can separate when    *)
(* the caller runs with interrupts on: linking the TCB, setting the bit.   *)
ready_link(s, t) ==
    [s EXCEPT !.ready[s.prio[t]] = Append(@, t)]

EnqueueRefused(s, t) == s.state[t] = "DELETED" \/ OnStateList(s, t)

sched_ready_enqueue(s, t) ==
    IF EnqueueRefused(s, t)
    THEN s
    ELSE [ready_link(s, t) EXCEPT !.mask = @ \cup {s.prio[t]}]

(* MUTANT: the bit stays set when the last task leaves its list. *)
remove_keeps_bit(s, t) ==
    IF ~OnStateList(s, t) THEN s ELSE StateListDel(s, t)

sched_ready_remove(s, t) ==
    LET r == StateListDel(s, t)
    IN IF ~OnStateList(s, t)
       THEN s
       ELSE IF r.ready[s.prio[t]] = <<>>
            THEN [r EXCEPT !.mask = @ \ {s.prio[t]}]
            ELSE r

sched_timeout_remove(s, t) ==
    [s EXCEPT !.timeout = RemoveFirst(@, t)]

(* MUTANT: the list is kept in arrival order. *)
timeout_append(s, t) ==
    IF ~s.timer[t]
    THEN s
    ELSE [s EXCEPT !.timeout = Append(RemoveFirst(@, t), t)]

sched_timeout_insert(s, t) ==
    LET rest == RemoveFirst(s.timeout, t)
        later == {i \in DOMAIN rest : TickBefore(s.wakeup[t], s.wakeup[rest[i]])}
    IN IF ~s.timer[t]
       THEN s
       ELSE [s EXCEPT !.timeout = InsertBeforeFirst(rest, t, later)]

(* MUTANT: a blocked task is taken off its wait queue but not off the      *)
(* timeout list.                                                           *)
mark_deleted_leaves_timeout(s, t) ==
    IF t = s.idle \/ s.state[t] = "DELETED"
    THEN s
    ELSE LET r == IF s.state[t] = "READY"
                  THEN sched_ready_remove(s, t)
                  ELSE StateListDel(s, t)
         IN [r EXCEPT !.timer[t] = FALSE,
                      !.wres[t] = "NONE",
                      !.state[t] = "DELETED",
                      !.deleted = Append(@, t)]

(* MUTANT: the deleted task is not handed to the idle task. *)
mark_deleted_unlisted(s, t) ==
    IF t = s.idle \/ s.state[t] = "DELETED"
    THEN s
    ELSE [sched_timeout_remove(sched_ready_remove(s, t), t) EXCEPT
             !.timer[t] = FALSE, !.wres[t] = "NONE", !.state[t] = "DELETED"]

sched_mark_deleted(s, t) ==
    IF t = s.idle \/ s.state[t] = "DELETED"
    THEN s
    ELSE LET r == sched_timeout_remove(
                      IF s.state[t] = "READY"
                      THEN sched_ready_remove(s, t)
                      ELSE StateListDel(s, t), t)
         IN [r EXCEPT !.timer[t] = FALSE,
                      !.wres[t] = "NONE",
                      !.state[t] = "DELETED",
                      !.deleted = Append(@, t)]

(* MUTANT: a waiter is queued in front of its equals. *)
block_current_before_equals(s, q) ==
    LET t == s.current
        b == [s EXCEPT !.state[t] = "BLOCKED", !.timer[t] = FALSE]
        r == sched_ready_remove(b, t)
        overtaken == {i \in DOMAIN r.wq[q] : r.prio[r.wq[q][i]] <= r.prio[t]}
    IN [r EXCEPT !.wq[q] = InsertBeforeFirst(@, t, overtaken)]

(* Waiters are kept by falling priority, equal priorities in the order     *)
(* they came.                                                              *)
sched_block_current(s, q) ==
    LET t == s.current
        b == [s EXCEPT !.state[t] = "BLOCKED", !.timer[t] = FALSE]
        r == sched_ready_remove(b, t)
        lower == {i \in DOMAIN r.wq[q] : r.prio[r.wq[q][i]] < r.prio[t]}
    IN [r EXCEPT !.wq[q] = InsertBeforeFirst(@, t, lower)]

(* sched_wake_one on a wait queue that is not empty. *)
sched_wake_one(s, q) ==
    LET t == Head(s.wq[q])
        r == [sched_timeout_remove(s, t) EXCEPT
                 !.wq[q] = Tail(@), !.timer[t] = FALSE, !.state[t] = "READY"]
    IN sched_ready_enqueue(r, t)

-----------------------------------------------------------------------------
(* sched_ready_pop_highest and the caller's assignment of the result to    *)
(* current_task.  s.mask is not empty.                                     *)
sched_ready_pop_highest(s) ==
    LET p == Max(s.mask)
        t == Head(s.ready[p])
    IN IF s.ready[p] = <<>>
       THEN [s EXCEPT !.corrupt = TRUE]
       ELSE [s EXCEPT !.ready[p] = Tail(@),
                      !.mask = IF Tail(s.ready[p]) = <<>> THEN @ \ {p} ELSE @,
                      !.state[t] = "RUNNING",
                      !.current = t]

(* The running task goes back to the tail of its ready list; the idle task *)
(* is never put there, it is what runs when the mask is empty.             *)
Requeue(s) ==
    LET t == s.current
        r == [s EXCEPT !.state[t] = "READY"]
    IN IF t = None \/ s.state[t] # "RUNNING"
       THEN s
       ELSE IF t = s.idle THEN r ELSE sched_ready_enqueue(r, t)

sched_pick_next(s) ==
    LET r == Requeue(s)
    IN IF r.mask # {}
       THEN sched_ready_pop_highest(r)
       ELSE IF r.idle # None
            THEN [r EXCEPT !.state[r.idle] = "RUNNING", !.current = r.idle]
            ELSE r

sched_current_is_idle(s) == s.current # None /\ s.current = s.idle

sched_is_locked(s) == s.lock # 0

sched_set_pending(s) == [s EXCEPT !.pending = TRUE]

sched_has_higher_priority_ready(s) ==
    \E p \in s.mask : p > s.prio[s.current]

(* sched_on_tick returns two things: whether to reschedule, and the new    *)
(* value of time_slice_ticks.                                              *)
on_tick_slice_over(s) ==
    /\ s.ready[s.prio[s.current]] # <<>>
    /\ s.slice + 1 >= RTOS_TIME_SLICE_TICKS

(* MUTANT: the tick ends time slices but does not preempt. *)
on_tick_only_slices(s) ==
    \/ s.state[s.current] # "RUNNING"
    \/ sched_current_is_idle(s)
    \/ s.mask # {} /\ on_tick_slice_over(s)

sched_on_tick_switch(s) ==
    \/ s.state[s.current] # "RUNNING"
    \/ sched_current_is_idle(s)
    \/ sched_has_higher_priority_ready(s)
    \/ s.mask # {} /\ on_tick_slice_over(s)

sched_on_tick_slice(s) ==
    IF sched_on_tick_switch(s)
    THEN 0
    ELSE IF s.mask # {} /\ s.ready[s.prio[s.current]] # <<>> THEN s.slice + 1 ELSE s.slice

(* MUTANT: a switch wanted while locked is not remembered. *)
on_tick_forgets(s) ==
    LET r == [s EXCEPT !.slice = sched_on_tick_slice(s)]
    IN IF ~sched_on_tick_switch(s) \/ sched_is_locked(s) THEN r ELSE sched_pick_next(r)

(* MUTANT: the tick switches although the scheduler is locked. *)
on_tick_ignores_lock(s) ==
    IF sched_on_tick_switch(s)
    THEN sched_pick_next([s EXCEPT !.slice = 0])
    ELSE [s EXCEPT !.slice = sched_on_tick_slice(s)]

(* The tick branch of do_trap: switch, or remember to while locked. *)
tick_reschedule(s) ==
    LET r == [s EXCEPT !.slice = sched_on_tick_slice(s)]
    IN IF ~sched_on_tick_switch(s)
       THEN r
       ELSE IF sched_is_locked(s) THEN sched_set_pending(r) ELSE sched_pick_next(r)

sched_try_reschedule_from_trap(s) ==
    LET r == [s EXCEPT !.pending = FALSE]
    IN IF s.started /\ s.current # None /\ s.pending /\ ~sched_is_locked(s)
       THEN IF \/ s.state[s.current] # "RUNNING"
               \/ sched_current_is_idle(s)
               \/ sched_has_higher_priority_ready(s)
            THEN sched_pick_next(r)
            ELSE r
       ELSE s

(* One round of the loop of sched_wake_expired: the head of the timeout    *)
(* list has expired.                                                       *)
HeadExpired(s, now) ==
    s.timeout # <<>> /\ timer_expired(now, s.wakeup[Head(s.timeout)])

sched_wake_expired_one(s) ==
    LET t == Head(s.timeout)
        r == [s EXCEPT !.timeout = Tail(@)]
        w == [StateListDel(r, t) EXCEPT
                 !.timer[t] = FALSE, !.wres[t] = "TIMEOUT", !.state[t] = "READY"]
    IN IF s.state[t] = "BLOCKED" /\ s.timer[t]
       THEN sched_ready_enqueue(w, t)
       ELSE r

=============================================================================
