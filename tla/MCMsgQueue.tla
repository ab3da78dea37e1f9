------------------------------ MODULE MCMsgQueue -----------------------------
(* Model values, symmetry and view for the runs of MsgQueue. *)
EXTENDS MsgQueue, TLC

CONSTANTS idle, task1, task2, q1, q2, queue1, msg1, msg2

MCTask3 == {idle, task1, task2}
MCWaitQ == {q1, q2}
MCObj == {queue1}
MCQueues == [o \in MCObj |-> <<q1, q2>>]

MCMsg == {msg1, msg2}

Slots == Permutations(Task \ {Idle}) \cup Permutations(Msg)

(* See MCKernel: ticks are relative, values written before they are read   *)
(* again, the contents of destroyed queues, and the histories left, owed,  *)
(* of which no property of these runs speaks, are hidden.                  *)
Ahead(x) == (x - tick) % TickMod
Yielding(t) == pc[t] \in YieldPc
Blocks(t) == pc[t] = "o_ret" \/ (Yielding(t) /\ ret[t] = "o_ret")
Waits(t) == Blocks(t) /\ k.wres[t] \in {"NONE", "OBJECT"}

(* What a call still needs of its arguments: none once its object is       *)
(* destroyed, only whether that is freed.                                  *)
Shown(t) ==
    IF call[t].o = None \/ ~Usable(call[t].o) THEN [NoCall EXCEPT !.o = call[t].o]
    ELSE IF Waits(t) THEN [call[t] EXCEPT !.woken = FALSE] ELSE call[t]

View ==
    << [k EXCEPT !.wakeup = [t \in Task |-> IF k.timer[t] THEN Ahead(k.wakeup[t]) ELSE 0],
                 !.wres = [t \in Task |-> IF Waits(t) THEN k.wres[t]
                                          ELSE IF Blocks(t) THEN "TIMEOUT" ELSE "NONE"]],
       trap, boot, pc,
       [t \in Task |-> IF Yielding(t) THEN ret[t] ELSE "run"],
       reg, task_count, hnd, htab,
       fault, obj,
       [t \in Task |-> CASE pc[t] = "o_op" \/ Waits(t) -> Shown(t)
                         [] pc[t] \in {"o_wake", "o_close", "o_free"} -> [call[t] EXCEPT !.d = 0]
                         [] OTHER -> NoCall],
       [o \in Obj |-> IF Usable(o) THEN <<mq[o].qlen, mq[o].tail, Contents(mq[o])>> ELSE <<>>] >>

NoFaultYet == fault = {}

=============================================================================
