----------------------------- MODULE TimerBoot -----------------------------
(***************************************************************************)
(* Timers started by app_main.  kernel_main calls app_main before          *)
(* rtos_start, which calls timer_init: until then timer_list is the zeroed *)
(* structure of .bss and timer_insert_locked follows a null pointer.       *)
(***************************************************************************)
EXTENDS Timer

VARIABLE hung       \* the boot code does not get any further

bootvars == <<allvars, hung>>

BootInit == TimerInit /\ hung = FALSE

(* trt_timer_start in app_main.  The deadline is set and active is 1 when  *)
(* the list is walked from the null pointer.  Where the load faults,       *)
(* do_trap returns to the same instruction for ever, as the scheduler has  *)
(* not started; where it reads zeros the walk goes round for ever; where   *)
(* it reads anything else the timer is linked to address 0.                *)
app_main_timer_start(o, d) ==
    /\ boot = "app_main"
    /\ ~tm.initialized
    /\ obj[o].open
    /\ tm' = [tm EXCEPT !.deadline[o] = (tick + d) % TickMod,
                        !.period[o] = Period,
                        !.active[o] = TRUE]
    /\ tleft' = [tleft EXCEPT ![o] = d]
    /\ hung' \in BOOLEAN
    /\ UNCHANGED <<vars, objvars>>

Going(A) == ~hung /\ A /\ UNCHANGED hung

BootHangs == hung /\ UNCHANGED bootvars

BootNext ==
    \/ Going(TimerNext)
    \/ ~hung /\ \E o \in Obj, d \in Delays : app_main_timer_start(o, d)
    \/ BootHangs

(* Fairness as in KernelProps: the boot code goes on, the interrupt of the *)
(* system timer stays pending until it is taken, a trap ends.              *)
BootSpec ==
    /\ BootInit
    /\ [][BootNext]_bootvars
    /\ WF_bootvars(Going(TimerBoot))
    /\ SF_bootvars(Going(TimerSystick))
    /\ WF_bootvars(Going(TimerTrap))

-----------------------------------------------------------------------------
(* A timer that was started fires, unless it is stopped before;            *)
(* tests/handle_object_test.c starts one in app_main and counts on its     *)
(* callback, every 500 ms, to post a semaphore.                            *)
AppTimerFires ==
    \A o \in Obj :
        tm.active[o] ~> \/ trap # "none" /\ TimerDue(tm) /\ Head(tm.list) = o
                        \/ ~tm.active[o]
                        \/ fault # {}

=============================================================================
