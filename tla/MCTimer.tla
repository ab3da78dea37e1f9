------------------------------- MODULE MCTimer ------------------------------
(* Model values, symmetry and view for the runs of Timer. *)
EXTENDS Timer, TLC

CONSTANTS idle, task1, task2, q1, timer1, timer2

MCTask3 == {idle, task1, task2}
MCWaitQ == {q1}
MCObj == {timer1, timer2}
MCQueues == [o \in Obj |-> <<>>]

Slots == Permutations(Task \ {Idle}) \cup Permutations(Obj)

(* See MCKernel: ticks are relative, and values written before they are    *)
(* read again are hidden.                                                  *)
Ahead(x) == (x - tick) % TickMod
Yielding(t) == pc[t] \in YieldPc
View ==
    << [k EXCEPT !.wakeup = [t \in Task |-> IF k.timer[t] THEN Ahead(k.wakeup[t]) ELSE 0],
                 !.wres = [t \in Task |-> IF Yielding(t) \/ pc[t] = "wq_ret"
                                          THEN k.wres[t] ELSE "NONE"]],
       trap, boot, pc,
       [t \in Task |-> IF Yielding(t) THEN ret[t] ELSE "run"],
       reg, task_count, hnd, htab, fault, obj, call,
       [tm EXCEPT !.deadline = [o \in Obj |-> IF tm.active[o] THEN Ahead(@[o]) ELSE 0],
                  !.period = [o \in Obj |-> IF tm.active[o] THEN @[o] ELSE 0]],
       [o \in Obj |-> IF tm.active[o] THEN tleft[o] ELSE 0] >>

NoFaultYet == fault = {}

=============================================================================
