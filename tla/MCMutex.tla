------------------------------ MODULE MCMutex ------------------------------
(* Model values, symmetry and view for the runs of Mutex. *)
EXTENDS Mutex, TLC

CONSTANTS idle, task1, task2, q1, mutex1

MCTask3 == {idle, task1, task2}
MCWaitQ == {q1}
MCObj == {mutex1}
MCQueues == [o \in MCObj |-> <<q1>>]

Slots == Permutations(Task \ {Idle})

(* See MCKernel: ticks are relative, values written before they are read   *)
(* again, and the contents of freed objects, are hidden.                   *)
Ahead(x) == (x - tick) % TickMod
Yielding(t) == pc[t] \in YieldPc
View ==
    << [k EXCEPT !.wakeup = [t \in Task |-> IF k.timer[t] THEN Ahead(k.wakeup[t]) ELSE 0],
                 !.wres = [t \in Task |-> IF Yielding(t) \/ pc[t] = "o_ret"
                                          THEN k.wres[t] ELSE "NONE"]],
       trap, boot, pc,
       [t \in Task |-> IF Yielding(t) THEN ret[t] ELSE "run"],
       reg, task_count, hnd, htab,
       [t \in Task |-> IF k.timer[t] THEN left[t] ELSE 0],
       owed, fault, obj,
       [t \in Task |-> IF pc[t] = "o_op" \/ Yielding(t) \/ pc[t] = "o_ret" THEN call[t]
                       ELSE [call[t] EXCEPT !.op = "none", !.d = 0]],
       [o \in Obj |-> IF obj[o].alloc THEN <<mutex[o], held[o]>> ELSE <<>>] >>

NoFaultYet == fault = {}

=============================================================================
