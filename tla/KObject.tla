------------------------------ MODULE KObject ------------------------------
(***************************************************************************)
(* What semaphores, mutexes and message queues have in common: tasks use   *)
(* them through handles.  A call first looks the handle up, in one         *)
(* critical section, and then works on the object, in another; destroying  *)
(* an object marks it, wakes its waiters, closes the handle and frees the  *)
(* memory, and other tasks may run in between.  A call that had looked the *)
(* object up before reads freed memory, which is recorded in fault.        *)
(*                                                                         *)
(* The modules of the objects extend this one with the data of the object  *)
(* and the second critical section.                                        *)
(***************************************************************************)
EXTENDS KernelProps

CONSTANTS
    Obj,        \* blocks of the heap for the objects
    Queues,     \* the wait queues of each object, in the order it wakes them
    ObjOps      \* the calls made

(* Each object embeds its own wait queues. *)
ASSUME ObjectAssumption ==
    /\ None \notin Obj
    /\ Queues \in [Obj -> Seq(WaitQ)]
    /\ \A o, p \in Obj : \A i \in DOMAIN Queues[o], j \in DOMAIN Queues[p] :
          Queues[o][i] = Queues[p][j] => o = p /\ i = j
    /\ "none" \notin ObjOps

VARIABLES
    obj,        \* allocated, handle open, flag destroyed
    call        \* the call each task is in: operation, object (None once it is
                \* freed), timeout (None: without), and woken: destroy has woken
                \* waiters, or the call itself was woken and tries again

objvars == <<obj, call>>

NoObj == [alloc |-> FALSE, open |-> FALSE, destroyed |-> FALSE]
NoCall == [op |-> "none", o |-> None, d |-> 0, woken |-> FALSE]

ObjTypeOK ==
    /\ TypeOK
    /\ obj \in [Obj -> [alloc : BOOLEAN, open : BOOLEAN, destroyed : BOOLEAN]]
    /\ call \in [Task -> [op : ObjOps \cup {"none"}, o : Obj \cup {None},
                          d : Delays \cup {0, None}, woken : BOOLEAN]]

ObjInit ==
    /\ Init
    /\ obj = [o \in Obj |-> NoObj]
    /\ call = [t \in Task |-> NoCall]

(* The wait queue of a semaphore or mutex. *)
waiters(o) == Queues[o][1]

Usable(o) == obj[o].alloc /\ ~obj[o].destroyed

-----------------------------------------------------------------------------
(* From a task or from app_main; the object is private until the call      *)
(* returns its handle.                                                     *)
Create(o) ==
    /\ boot = "app_main" \/ \E t \in Task \ {Idle} : At(t, "run")
    /\ ~obj[o].alloc
    /\ obj' = [obj EXCEPT ![o] = [alloc |-> TRUE, open |-> TRUE, destroyed |-> FALSE]]
    /\ UNCHANGED <<vars, call>>

Lookup(t, o, op, d) ==
    /\ t # Idle
    /\ At(t, "run")
    /\ op \in ObjOps
    /\ obj[o].open
    /\ call' = [call EXCEPT ![t] = [op |-> op, o |-> o, d |-> d, woken |-> FALSE]]
    /\ Goto(t, "o_op")
    /\ UNCHANGED <<k, tick, trap, boot, ret, reg, taskvars, history, obj>>

(* t works on object o, which it has looked up for one of the operations. *)
Operates(t, o, ops) ==
    At(t, "o_op") /\ call[t].o = o /\ call[t].op \in ops

Return(t) ==
    /\ Goto(t, "run")
    /\ call' = [call EXCEPT ![t] = NoCall]

(* The object was freed after the lookup. *)
UseFreed(t) ==
    /\ fault' = fault \cup {"uaf"}
    /\ Return(t)
    /\ UNCHANGED <<k, tick, trap, boot, ret, reg, taskvars, left, owed, obj>>

OperateFreed(t) == At(t, "o_op") /\ call[t].o = None /\ UseFreed(t)

(* Every operation returns ERR_DESTROYED (destroy: ERR_STATE) between the  *)
(* destruction of the object and its release.                              *)
OperateGone(t, o) ==
    /\ Operates(t, o, ObjOps)
    /\ obj[o].destroyed
    /\ Return(t)
    /\ UNCHANGED <<k, tick, trap, boot, ret, reg, taskvars, history, obj>>

(* The call returns without having changed the kernel or the object. *)
ReturnUnchanged(t) ==
    /\ Return(t)
    /\ UNCHANGED <<k, tick, trap, boot, ret, reg, taskvars, history, obj>>

(* t blocks on wait queue q, with the timeout of its call if timed. *)
BlockOn(t, q, timed) ==
    /\ k' = IF timed
            THEN trt_wait_q_block_ticks_locked(k, q, call[t].d, tick)
            ELSE trt_wait_q_block_locked(k, q)
    /\ left' = IF timed THEN [left EXCEPT ![t] = call[t].d] ELSE left
    /\ CallYield(t, "o_ret")
    /\ UNCHANGED <<tick, trap, boot, reg, taskvars, owed, fault, objvars>>

(* t has blocked on object o and has not returned yet. *)
Waited(t, o) ==
    /\ call[t].o = o
    /\ pc[t] = "o_ret" \/ (pc[t] \in YieldPc /\ ret[t] = "o_ret")

(* t has been woken by an operation on o and has not returned yet. *)
Granted(t, o) ==
    /\ Waited(t, o)
    /\ k.wres[t] = "OBJECT"
    /\ k.state[t] \in {"READY", "RUNNING"}

-----------------------------------------------------------------------------
(* Destruction *)

HasWaiters(o) == \E i \in DOMAIN Queues[o] : k.wq[Queues[o][i]] # <<>>

Destroy(t, o) ==
    /\ Operates(t, o, {"destroy"})
    /\ Usable(o)
    /\ obj' = [obj EXCEPT ![o].destroyed = TRUE]
    /\ call' = [call EXCEPT ![t].woken = HasWaiters(o)]
    /\ Goto(t, IF HasWaiters(o) THEN "o_wake" ELSE "o_close")
    /\ UNCHANGED <<k, tick, trap, boot, ret, reg, taskvars, history>>

(* One round of trt_wait_q_wake_all_result_locked(.., TASK_WAIT_DESTROYED) *)
(* with interrupts off.                                                    *)
WakeDestroyed(t) ==
    LET o == call[t].o
        i == Min({j \in DOMAIN Queues[o] : k.wq[Queues[o][j]] # <<>>})
        q == Queues[o][i]
        last == Len(k.wq[q]) = 1 /\ \A j \in DOMAIN Queues[o] : j > i => k.wq[Queues[o][j]] = <<>>
    IN /\ At(t, "o_wake")
       /\ k' = trt_wait_q_wake_one_result_locked(k, q, "DESTROYED")
       /\ IF last THEN Goto(t, "o_close") ELSE UNCHANGED pc
       /\ UNCHANGED <<tick, trap, boot, ret, reg, taskvars, history, objvars>>

Close(t) ==
    /\ At(t, "o_close")
    /\ obj' = [obj EXCEPT ![call[t].o].open = FALSE]
    /\ Goto(t, "o_free")
    /\ UNCHANGED <<k, tick, trap, boot, ret, reg, taskvars, history, call>>

(* free(), and a yield if waiters were woken. *)
Free(t) ==
    /\ At(t, "o_free")
    /\ obj' = [obj EXCEPT ![call[t].o] = NoObj]
    /\ call' = [u \in Task |-> CASE u = t -> NoCall
                                 [] u # t /\ call[u].o = call[t].o -> [call[u] EXCEPT !.o = None]
                                 [] OTHER -> call[u]]
    /\ IF call[t].woken THEN CallYield(t, "run") ELSE Goto(t, "run") /\ UNCHANGED ret
    /\ UNCHANGED <<k, tick, trap, boot, reg, taskvars, history>>

-----------------------------------------------------------------------------
(* A freed object has no waiter left in a wait queue, whose head was freed *)
(* with it: a task that looked it up cannot block between the wakes and    *)
(* the release.                                                            *)
FreedHasNoWaiter ==
    \A o \in Obj : ~obj[o].alloc => ~HasWaiters(o)

=============================================================================
