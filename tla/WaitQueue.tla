----------------------------- MODULE WaitQueue -----------------------------
(***************************************************************************)
(* src/kernel/wait_queue.c: blocking the current task on a wait queue and  *)
(* waking its waiters, as operators on the scheduler record of Sched.      *)
(* Their callers hold a critical section or run in a trap.                 *)
(***************************************************************************)
EXTENDS Sched

(* The early return of trt_wait_q_block_locked; wq is never null here. *)
BlockRefused(s) == s.current = None \/ sched_is_locked(s)

trt_wait_q_block_locked(s, q) ==
    IF BlockRefused(s)
    THEN sched_set_pending(s)
    ELSE sched_block_current([s EXCEPT !.wres[s.current] = "NONE"], q)

(* timeout_ticks > 0; the zero timeout returns before touching anything. *)
trt_wait_q_block_ticks_locked(s, q, timeout_ticks, now) ==
    LET b == trt_wait_q_block_locked(s, q)
        t == s.current
    IN IF BlockRefused(s)
       THEN b
       ELSE sched_timeout_insert(
                [b EXCEPT !.wakeup[t] = (now + timeout_ticks) % TickMod,
                          !.timer[t] = TRUE,
                          !.wres[t] = "NONE"], t)

(* MUTANT: the reason of the wake is not stored. *)
wake_without_result(s, q, result) ==
    IF s.wq[q] = <<>> THEN s ELSE sched_wake_one(s, q)

(* A wake while the scheduler is locked asks for a reschedule at unlock. *)
trt_wait_q_wake_one_result_locked(s, q, result) ==
    IF s.wq[q] = <<>>
    THEN s
    ELSE LET t == Head(s.wq[q])
             r == sched_wake_one(s, q)
         IN [r EXCEPT !.pending = @ \/ sched_is_locked(s), !.wres[t] = result]

trt_wait_q_wake_one_locked(s, q) ==
    trt_wait_q_wake_one_result_locked(s, q, "OBJECT")

trt_wait_q_wake_one_from_isr(s, q) ==
    IF s.wq[q] = <<>>
    THEN s
    ELSE sched_set_pending(trt_wait_q_wake_one_locked(s, q))

=============================================================================
