------------------------------- MODULE Timer -------------------------------
(***************************************************************************)
(* src/kernel/timer.c: software timers, which the trap handler runs after  *)
(* it has woken the expired tasks (do_trap in boards/esp32c3/hal.c), on    *)
(* top of the kernel with its tasks.                                       *)
(*                                                                         *)
(* tm is the timer list together with the fields of the timers; a C        *)
(* function that changes it is an operator from tm to the next tm.  A task *)
(* looks a timer up and works on it in a later critical section, as with   *)
(* the other objects; trt_timer_start tests the callback in between, with  *)
(* interrupts on.  A timer that is destroyed between this test and the     *)
(* critical section is started all the same (fault "torn"); two destroyers *)
(* that have both looked the timer up both free it (fault "uaf").          *)
(***************************************************************************)
EXTENDS KObject

CONSTANT Period     \* the period of the timers that have one, in ticks

(* Calls of tasks: "start", "start_periodic", "stop", "destroy"; of        *)
(* interrupt handlers and callbacks: "isr_start", "isr_stop", "isr_wake".  *)
(* timer_insert_locked compares a new deadline with one that may be late   *)
(* by a whole systick: together they stay below half the counter's range.  *)
ASSUME TimerAssumption ==
    /\ Period \in Nat \ {0}
    /\ \A d \in Delays \cup {Period} : d + MaxJump < TickMod \div 2
    /\ \A o \in Obj : Queues[o] = <<>>

VARIABLES
    tm,         \* timer_list and the timers
    tleft       \* history: ticks until each timer's deadline, late ones negative

timervars == <<objvars, tm, tleft>>
allvars == <<vars, timervars>>

Starts == {"start", "start_periodic"}

TimerTypeOK ==
    /\ ObjTypeOK
    /\ tm \in [list : Seq(Obj), initialized : BOOLEAN,
               deadline : [Obj -> Ticks], period : [Obj -> {0, Period}],
               callback : [Obj -> BOOLEAN], active : [Obj -> BOOLEAN]]
    /\ tleft \in [Obj -> Int]

TimerInit ==
    /\ ObjInit
    /\ tm = [list |-> <<>>, initialized |-> FALSE,
             deadline |-> [o \in Obj |-> 0], period |-> [o \in Obj |-> 0],
             callback |-> [o \in Obj |-> FALSE], active |-> [o \in Obj |-> FALSE]]
    /\ tleft = [o \in Obj |-> 0]

-----------------------------------------------------------------------------
(* Behind all timers that are due at the same tick or earlier. *)
timer_insert_locked(T, o) ==
    LET later == {i \in DOMAIN T.list : TickBefore(T.deadline[o], T.deadline[T.list[i]])}
    IN [T EXCEPT !.list = InsertBeforeFirst(@, o, later)]

timer_unlink(T, o) == [T EXCEPT !.list = RemoveFirst(@, o)]

timer_setup_obj(T, o, callback) ==
    [T EXCEPT !.deadline[o] = 0, !.period[o] = 0, !.callback[o] = callback, !.active[o] = FALSE]

(* MUTANT: an active timer is linked a second time. *)
start_without_unlink(T, o, delay, period) ==
    timer_insert_locked([T EXCEPT !.deadline[o] = (tick + delay) % TickMod,
                                  !.period[o] = period,
                                  !.active[o] = TRUE], o)

(* The critical section of timer_start_ticks_obj. *)
timer_start_ticks_obj(T, o, delay, period) ==
    LET u == IF T.active[o] THEN timer_unlink(T, o) ELSE T
    IN timer_insert_locked([u EXCEPT !.deadline[o] = (tick + delay) % TickMod,
                                     !.period[o] = period,
                                     !.active[o] = TRUE], o)

timer_stop_obj(T, o) ==
    IF T.active[o] THEN [timer_unlink(T, o) EXCEPT !.active[o] = FALSE] ELSE T

timer_destroy_obj(T, o) == timer_setup_obj(timer_unlink(T, o), o, FALSE)

(* MUTANT: a periodic timer keeps its deadline. *)
expire_keeps_deadline(T) ==
    LET u == timer_unlink(T, Head(T.list))
    IN IF T.period[Head(T.list)] # 0
       THEN timer_insert_locked(u, Head(T.list))
       ELSE [u EXCEPT !.active[Head(T.list)] = FALSE]

(* One round of timer_run_expired, up to the call of the callback. *)
timer_expire(T) ==
    LET o == Head(T.list)
        u == timer_unlink(T, o)
    IN IF T.period[o] # 0
       THEN timer_insert_locked([u EXCEPT !.deadline[o] = (@ + T.period[o]) % TickMod], o)
       ELSE [u EXCEPT !.active[o] = FALSE]

-----------------------------------------------------------------------------
(* Calls of tasks *)

trt_timer_create(o) ==
    /\ Create(o)
    /\ tm' = timer_setup_obj(tm, o, TRUE)
    /\ tleft' = [tleft EXCEPT ![o] = 0]

timer_lookup(t, o, op, d) ==
    /\ Lookup(t, o, op, d)
    /\ UNCHANGED <<tm, tleft>>

PeriodOf(op) == IF op = "start_periodic" THEN Period ELSE 0

(* timer->callback == 0 is tested before the critical section. *)
timer_start_check(t, o) ==
    /\ Operates(t, o, Starts)
    /\ IF tm.callback[o]
       THEN /\ Goto(t, "o_crit")
            /\ UNCHANGED call
       ELSE Return(t)
    /\ UNCHANGED <<k, tick, trap, boot, ret, reg, taskvars, history, obj, tm, tleft>>

timer_start(t, o) ==
    /\ At(t, "o_crit")
    /\ call[t].o = o
    /\ tm' = timer_start_ticks_obj(tm, o, call[t].d, PeriodOf(call[t].op))
    /\ tleft' = [tleft EXCEPT ![o] = call[t].d]
    /\ fault' = IF tm.callback[o] THEN fault ELSE fault \cup {"torn"}
    /\ Return(t)
    /\ UNCHANGED <<k, tick, trap, boot, ret, reg, taskvars, left, owed, obj>>

timer_stop(t, o) ==
    /\ Operates(t, o, {"stop"})
    /\ tm' = timer_stop_obj(tm, o)
    /\ ReturnUnchanged(t)
    /\ UNCHANGED tleft

(* No flag tells a second destroyer that it comes too late. *)
timer_destroy(t, o) ==
    /\ Operates(t, o, {"destroy"})
    /\ tm' = timer_destroy_obj(tm, o)
    /\ obj' = [obj EXCEPT ![o].destroyed = TRUE]
    /\ Goto(t, "o_close")
    /\ UNCHANGED <<k, tick, trap, boot, ret, reg, taskvars, history, call, tleft>>

(* The rest of trt_timer_destroy. *)
trt_timer_destroy(t) ==
    /\ call[t].o # None
    /\ Close(t) \/ Free(t)
    /\ UNCHANGED <<tm, tleft>>

(* The timer was freed since the call looked it up. *)
timer_freed(t) ==
    /\ call[t].o = None
    /\ \E p \in {"o_op", "o_crit", "o_close", "o_free"} : At(t, p)
    /\ UseFreed(t)
    /\ UNCHANGED <<tm, tleft>>

-----------------------------------------------------------------------------
(* Traps *)

(* What the callback of a timer or an interrupt handler may do, with       *)
(* interrupts off, given the timers T and their times L: nothing, start or *)
(* stop a timer, wake a task.  trt_timer_destroy is refused there.  A      *)
(* callback that starts a timer without a delay would keep the trap in its *)
(* loop.                                                                   *)
Handler(T, L) ==
    \/ /\ tm' = T
       /\ tleft' = L
       /\ \/ UNCHANGED k
          \/ "isr_wake" \in ObjOps /\ \E q \in WaitQ : k' = trt_wait_q_wake_one_from_isr(k, q)
    \/ /\ "isr_start" \in ObjOps
       /\ \E o \in Obj, d \in Delays \ {0}, op \in ObjOps \cap Starts :
              /\ obj[o].open
              /\ T.callback[o]
              /\ tm' = timer_start_ticks_obj(T, o, d, PeriodOf(op))
              /\ tleft' = [L EXCEPT ![o] = d]
       /\ UNCHANGED k
    \/ /\ "isr_stop" \in ObjOps
       /\ \E o \in Obj : obj[o].open /\ tm' = timer_stop_obj(T, o)
       /\ tleft' = L
       /\ UNCHANGED k

timer_irq ==
    /\ Interrupted
    /\ trap' = "irq"
    /\ Handler(tm, tleft)
    /\ UNCHANGED <<tick, boot, ret, reg, taskvars, left, owed, objvars>>

timer_systick(d) ==
    /\ SysTick(d)
    /\ tleft' = [o \in Obj |-> IF tm.active[o] THEN tleft[o] - d ELSE 0]
    /\ UNCHANGED <<objvars, tm>>

(* MUTANT: the timers run one tick early. *)
due_early(T) == T.list # <<>> /\ timer_expired(tick + 1, T.deadline[Head(T.list)])

TimerDue(T) == T.list # <<>> /\ timer_expired(tick, T.deadline[Head(T.list)])

(* One round of the loop of timer_run_expired, with the callback. *)
timer_run_expired ==
    /\ trap # "none"
    /\ ~HeadExpired(k, tick)
    /\ TimerDue(tm)
    /\ LET o == Head(tm.list)
       IN Handler(timer_expire(tm), [tleft EXCEPT ![o] = @ + tm.period[o]])
    /\ UNCHANGED <<tick, trap, boot, pc, ret, reg, taskvars, history, objvars>>

(* MUTANT: one timer is run per trap. *)
return_with_timers_due == TrapReturn

(* The loops of sched_wake_expired and timer_run_expired are over. *)
trap_return == TrapReturn /\ ~TimerDue(tm)

(* timer_init, called by rtos_start. *)
timer_init ==
    tm' = [tm EXCEPT !.list = <<>>, !.initialized = TRUE]

-----------------------------------------------------------------------------
TimerCall(t) ==
    \E o \in Obj : \/ \E op \in ObjOps \cap {"stop", "destroy"} : timer_lookup(t, o, op, 0)
                   \/ \E op \in ObjOps \cap Starts, d \in Delays : timer_lookup(t, o, op, d)

TimerStep(t) ==
    \/ \E o \in Obj : \/ timer_start_check(t, o)
                      \/ timer_start(t, o)
                      \/ timer_stop(t, o)
                      \/ timer_destroy(t, o)
    \/ trt_timer_destroy(t)
    \/ timer_freed(t)

TimerBoot ==
    \/ (kernel_init \/ app_main_object \/ \E p \in CreatePrio : app_main_create(p))
         /\ UNCHANGED timervars
    \/ rtos_start /\ timer_init /\ UNCHANGED <<objvars, tleft>>

TimerTrap ==
    \/ (sched_wake_expired \/ trap_return) /\ UNCHANGED timervars
    \/ timer_run_expired

TimerSystick == \E d \in 1..MaxJump : timer_systick(d)

(* What follows a fault is undefined behaviour of the C code. *)
Undefined == fault # {} /\ UNCHANGED allvars

TimerNext ==
    \/ /\ fault = {}
       /\ \/ TimerBoot
          \/ \E o \in Obj : trt_timer_create(o)
          \/ \E t \in Task : \/ (AppCall(t) \/ KernelStep(t)) /\ UNCHANGED timervars
                             \/ TimerCall(t)
                             \/ TimerStep(t)
          \/ TimerSystick
          \/ timer_irq
          \/ TimerTrap
    \/ Undefined

TimerSpec == TimerInit /\ [][TimerNext]_allvars

-----------------------------------------------------------------------------
(* The timer list holds exactly the active timers, each once, in the order *)
(* in which they are due; none of them is destroyed or freed.  Without it  *)
(* timer_run_expired would miss a timer, run one too late, or call through *)
(* freed memory.                                                           *)
TimerListSound ==
    fault = {} =>
        /\ TimerTypeOK
        /\ \A o \in Obj : tm.active[o] <=> Contains(tm.list, o)
        /\ \A i, j \in DOMAIN tm.list :
              i < j => tm.list[i] # tm.list[j] /\ tleft[tm.list[i]] <= tleft[tm.list[j]]
        /\ \A o \in Obj : tm.active[o] => Usable(o) /\ tm.callback[o]

(* A trap is not left before every timer whose time has come has run, as   *)
(* often as its period has passed since, although a late systick accounts  *)
(* for several ticks, callbacks start and stop timers inside the loop, and *)
(* the tick counter wraps.                                                 *)
DueTimersRun ==
    [][fault = {} /\ trap # "none" /\ trap' = "none" =>
          \A o \in Obj : tm.active[o] => tleft[o] > 0]_allvars

(* A callback is never called before the time its timer was started for,   *)
(* nor after its timer was destroyed (tests/destroy_test.c: "timer did not *)
(* fire after destroy").                                                   *)
NoEarlyFire ==
    [][fault = {} /\ trap # "none" /\ trap' = trap /\ tm' # tm =>
          LET o == Head(tm.list) IN tleft[o] <= 0 /\ Usable(o)]_allvars

(* Rounds of the loop that the timers which are due still call for. *)
RoundsLeft(T) ==
    FoldLeft(LAMBDA n, o : IF timer_expired(tick, T.deadline[o])
                           THEN n + 1 + ((tick - T.deadline[o]) % TickMod)
                           ELSE n,
             0, T.list)

(* timer_run_expired comes to an end: every round leaves fewer to do,      *)
(* although it puts periodic timers back into the list that it works off,  *)
(* and callbacks start timers.                                             *)
LoopRunsDown ==
    [][fault = {} /\ trap # "none" /\ trap' = trap /\ <<tm, tleft>>' # <<tm, tleft>> =>
          RoundsLeft(tm') < RoundsLeft(tm)]_allvars

=============================================================================
