------------------------------ MODULE MCKernel ------------------------------
(* Model values and symmetry for the runs of Kernel. *)
EXTENDS KernelProps, TLC

CONSTANTS idle, task1, task2, q1

MCTask2 == {idle, task1}
MCTask3 == {idle, task1, task2}
MCWaitQ == {q1}
NoWaitQ == {}

(* The heap may return any free block: the slots other than the idle       *)
(* task's are interchangeable.                                             *)
Slots == Permutations(Task \ {Idle})

(* Two states are the same if they differ by a shift of the tick counter   *)
(* or in values that are written before they are read again: every         *)
(* comparison of ticks is one of differences modulo TickMod.               *)
Ahead(x) == (x - tick) % TickMod
Yielding(t) == pc[t] \in YieldPc
Sleeping(t) == \/ pc[t] \in {"sl_loop", "sl_crit"}
               \/ Yielding(t) /\ ret[t] = "sl_loop"
View ==
    << [k EXCEPT !.wakeup = [t \in Task |-> IF k.timer[t] THEN Ahead(k.wakeup[t]) ELSE 0],
                 !.wres = [t \in Task |-> IF Yielding(t) \/ pc[t] = "wq_ret"
                                          THEN k.wres[t] ELSE "NONE"]],
       trap, boot, pc,
       [t \in Task |-> IF Yielding(t) THEN ret[t] ELSE "run"],
       [t \in Task |-> [reg[t] EXCEPT !.due = IF Sleeping(t) THEN Ahead(@) ELSE 0]],
       task_count, hnd, htab,
       [t \in Task |-> IF Sleeping(t) \/ k.timer[t] THEN left[t] ELSE 0],
       owed, fault >>

(* What follows a fault is undefined behaviour of the C code: the state is *)
(* checked but not left.                                                   *)
NoFaultYet == fault = {}

=============================================================================
