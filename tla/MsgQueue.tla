----------------------------- MODULE MsgQueue ------------------------------
(***************************************************************************)
(* src/kernel/msg_queue.c: message queues used through handles by the      *)
(* tasks and interrupt handlers of Kernel.  A call that finds the queue    *)
(* full, or empty, blocks, and tries again when it is woken.               *)
(***************************************************************************)
EXTENDS KObject, MsgRing

(* Calls: "send", "send_front", "recv", "peek", "isr_send", "isr_recv",    *)
(* "isr_peek", "destroy".  Queues of an object: readers, writers.          *)
(* wait_queue.h is no part of the API: only the objects block and wake.   *)
CONSTANT Timeouts   \* the timeouts passed; None stands for TRT_TIME_FOREVER_US

(* None is neither a message nor a sequence of messages.                  *)
ASSUME MsgQueueAssumption ==
    /\ IsFiniteSet(Task)
    /\ Zero = None
    /\ None \notin Seq(Msg \cup {None})
    /\ Timeouts \subseteq Delays \cup {0, None}
    /\ \A o \in Obj : Len(Queues[o]) >= 2
    /\ Calls \cap {"wait", "timedwait", "wake"} = {}

VARIABLES
    mq,         \* the ring buffer of each queue
    out         \* history: the last call that sent, received, peeked or
                \* was refused: operation, queue, error code and message

mqvars == <<objvars, mq, out>>

readers(o) == Queues[o][1]
writers(o) == Queues[o][2]

Sends == {"send", "send_front"}
Receives == {"recv", "peek"}

Result(op, o, err, m) == [op |-> op, o |-> o, err |-> err, msg |-> m]

Outcome ==
    [op : Sends \cup Receives \cup {"isr_send", "isr_recv", "isr_peek"}, o : Obj,
     err : {"OK", "BUSY"}, msg : Msg \cup {None}]

MsgTypeOK ==
    /\ ObjTypeOK
    /\ mq \in [Obj -> Ring]
    /\ out \in {None} \cup Outcome

MsgInit ==
    /\ ObjInit
    /\ mq \in [Obj -> {msg_q_create_obj(n) : n \in QLen}]
    /\ out = None

-----------------------------------------------------------------------------
trt_msg_q_create(o, n) ==
    /\ Create(o)
    /\ mq' = [mq EXCEPT ![o] = msg_q_create_obj(n)]
    /\ UNCHANGED out

msg_q_lookup(t, o, op, d) ==
    /\ Lookup(t, o, op, d)
    /\ UNCHANGED <<mq, out>>

(* The object is freed or destroyed when the call gets to it. *)
msg_q_gone(t) ==
    /\ OperateFreed(t) \/ \E o \in Obj : OperateGone(t, o)
    /\ UNCHANGED <<mq, out>>

(* The call has done its work, wakes one waiter of q and returns. *)
WakeAndReturn(t, q) ==
    /\ k' = trt_wait_q_wake_one_locked(k, q)
    /\ Return(t)
    /\ UNCHANGED <<tick, trap, boot, ret, reg, taskvars, history, obj>>

msg_q_send_obj(t, o, m) ==
    /\ Operates(t, o, {"send"})
    /\ Usable(o)
    /\ ~msg_q_is_full_obj(mq[o])
    /\ mq' = [mq EXCEPT ![o] = Put(@, m)]
    /\ out' = Result(call[t].op, o, "OK", m)
    /\ WakeAndReturn(t, readers(o))

msg_q_send_front_obj(t, o, m) ==
    /\ Operates(t, o, {"send_front"})
    /\ Usable(o)
    /\ ~msg_q_is_full_obj(mq[o])
    /\ mq' = [mq EXCEPT ![o] = PutFront(@, m)]
    /\ out' = Result(call[t].op, o, "OK", m)
    /\ WakeAndReturn(t, readers(o))

msg_q_recv_obj(t, o) ==
    /\ Operates(t, o, {"recv"})
    /\ Usable(o)
    /\ ~msg_q_is_empty_obj(mq[o])
    /\ mq' = [mq EXCEPT ![o] = RemoveFront(@)]
    /\ out' = Result(call[t].op, o, "OK", AtFront(mq[o]))
    /\ WakeAndReturn(t, writers(o))

(* MUTANT: the wake that brought the caller here is not passed on. *)
peek_without_wake(t, o) ==
    /\ Operates(t, o, {"peek"})
    /\ Usable(o)
    /\ ~msg_q_is_empty_obj(mq[o])
    /\ out' = Result(call[t].op, o, "OK", AtFront(mq[o]))
    /\ ReturnUnchanged(t)
    /\ UNCHANGED mq

(* The message stays, so the next reader is woken. *)
msg_q_peek_obj(t, o) ==
    /\ Operates(t, o, {"peek"})
    /\ Usable(o)
    /\ ~msg_q_is_empty_obj(mq[o])
    /\ out' = Result(call[t].op, o, "OK", AtFront(mq[o]))
    /\ WakeAndReturn(t, readers(o))
    /\ UNCHANGED mq

(* t finds the queue full, or empty. *)
MustWait(t, o) ==
    \/ Operates(t, o, Sends) /\ Usable(o) /\ msg_q_is_full_obj(mq[o])
    \/ Operates(t, o, Receives) /\ Usable(o) /\ msg_q_is_empty_obj(mq[o])

(* Timeout 0: ERR_BUSY. *)
msg_q_busy(t, o) ==
    /\ MustWait(t, o)
    /\ call[t].d = 0
    /\ out' = Result(call[t].op, o, "BUSY", None)
    /\ ReturnUnchanged(t)
    /\ UNCHANGED mq

(* ERR_LOCKED *)
msg_q_locked(t, o) ==
    /\ MustWait(t, o)
    /\ call[t].d # 0
    /\ sched_is_locked(k)
    /\ k' = sched_set_pending(k)
    /\ Return(t)
    /\ UNCHANGED <<tick, trap, boot, ret, reg, taskvars, history, obj, mq, out>>

(* The whole timeout starts again with every turn of the loop. *)
msg_q_block(t, o) ==
    /\ MustWait(t, o)
    /\ call[t].d # 0
    /\ ~sched_is_locked(k)
    /\ BlockOn(t, IF call[t].op \in Sends THEN writers(o) ELSE readers(o), call[t].d # None)
    /\ UNCHANGED <<mq, out>>

(* After task_yield: a wake leads back to the start of the loop. *)
msg_q_wait_result(t) ==
    /\ At(t, "o_ret")
    /\ IF k.wres[t] = "OBJECT"
       THEN /\ Goto(t, "o_op")
            /\ call' = [call EXCEPT ![t].woken = TRUE]
            /\ UNCHANGED <<k, tick, trap, boot, ret, reg, taskvars, history, obj>>
       ELSE ReturnUnchanged(t)
    /\ UNCHANGED <<mq, out>>

(* An interrupt handler looks the handle up and wakes one waiter of q, with *)
(* interrupts off.                                                         *)
FromIsr(op, o, q) ==
    /\ op \in ObjOps
    /\ obj[o].open
    /\ Usable(o)
    /\ Interrupted
    /\ trap' = "irq"
    /\ k' = trt_wait_q_wake_one_from_isr(k, q)
    /\ UNCHANGED <<tick, boot, ret, reg, taskvars, left, owed, objvars>>

trt_msg_q_send_from_isr(o, m) ==
    /\ ~msg_q_is_full_obj(mq[o])
    /\ mq' = [mq EXCEPT ![o] = Put(@, m)]
    /\ out' = Result("isr_send", o, "OK", m)
    /\ FromIsr("isr_send", o, readers(o))

trt_msg_q_recv_from_isr(o) ==
    /\ ~msg_q_is_empty_obj(mq[o])
    /\ mq' = [mq EXCEPT ![o] = RemoveFront(@)]
    /\ out' = Result("isr_recv", o, "OK", AtFront(mq[o]))
    /\ FromIsr("isr_recv", o, writers(o))

trt_msg_q_peek_from_isr(o) ==
    /\ ~msg_q_is_empty_obj(mq[o])
    /\ out' = Result("isr_peek", o, "OK", AtFront(mq[o]))
    /\ FromIsr("isr_peek", o, readers(o))
    /\ UNCHANGED mq

(* MUTANT: writers are forgotten. *)
destroy_wakes_readers_only(t, o) ==
    /\ Operates(t, o, {"destroy"})
    /\ Usable(o)
    /\ obj' = [obj EXCEPT ![o].destroyed = TRUE]
    /\ Goto(t, IF k.wq[readers(o)] = <<>> THEN "o_close" ELSE "o_wake")
    /\ UNCHANGED <<k, tick, trap, boot, ret, reg, taskvars, history, call, mq, out>>

msg_q_destroy_obj(t, o) ==
    /\ Destroy(t, o)
    /\ UNCHANGED <<mq, out>>

(* The rest of trt_msg_q_destroy. *)
trt_msg_q_destroy(t) ==
    /\ WakeDestroyed(t) \/ Close(t) \/ Free(t)
    /\ UNCHANGED <<mq, out>>

-----------------------------------------------------------------------------
MsgCall(t) ==
    \E o \in Obj : \/ \E op \in Sends \cup Receives, d \in Timeouts :
                          msg_q_lookup(t, o, op, d)
                   \/ msg_q_lookup(t, o, "destroy", 0)

MsgStep(t) ==
    \/ \E o \in Obj :
          \/ \E m \in Msg : msg_q_send_obj(t, o, m) \/ msg_q_send_front_obj(t, o, m)
          \/ msg_q_recv_obj(t, o)
          \/ msg_q_peek_obj(t, o)
          \/ msg_q_busy(t, o)
          \/ msg_q_locked(t, o)
          \/ msg_q_block(t, o)
          \/ msg_q_destroy_obj(t, o)
    \/ msg_q_gone(t)
    \/ msg_q_wait_result(t)
    \/ trt_msg_q_destroy(t)

MsgIrq ==
    \E o \in Obj :
        \/ \E m \in Msg : trt_msg_q_send_from_isr(o, m)
        \/ trt_msg_q_recv_from_isr(o)
        \/ trt_msg_q_peek_from_isr(o)

MsgCreate == \E o \in Obj, n \in QLen : trt_msg_q_create(o, n)

MsgNext ==
    \/ Next /\ UNCHANGED mqvars
    \/ MsgCreate
    \/ \E t \in Task : MsgCall(t) \/ MsgStep(t)
    \/ MsgIrq

MsgSpec == MsgInit /\ [][MsgNext]_<<vars, mqvars>>

-----------------------------------------------------------------------------
(* t has been woken on o and has not tried again yet. *)
Retries(t, o, ops) ==
    /\ call[t].op \in ops
    /\ \/ Granted(t, o)
       \/ pc[t] = "o_op" /\ call[t].o = o /\ call[t].woken

(* While the queue holds messages and readers wait, one has been woken     *)
(* that will look.                                                         *)
NoReaderMissed ==
    \A o \in Obj : Usable(o) /\ k.wq[readers(o)] # <<>> /\ ~msg_q_is_empty_obj(mq[o]) =>
        \E t \in Task : Retries(t, o, Receives)

(* The same for writers, while there is room. *)
NoWriterMissed ==
    \A o \in Obj : Usable(o) /\ k.wq[writers(o)] # <<>> /\ ~msg_q_is_full_obj(mq[o]) =>
        \E t \in Task : Retries(t, o, Sends)

(* No wake is lost on the way to readers and writers, although every send  *)
(* and receive wakes only one, other tasks and interrupt handlers may be   *)
(* faster than the one woken, and that one may only peek: nobody sleeps    *)
(* beside the message, or the room, that it waits for.                     *)
NobodyMissed == NoReaderMissed /\ NoWriterMissed

Queue == INSTANCE BoundedQueue WITH
    Null <- None,
    Limits <- QLen,
    queue <- [o \in Obj |-> IF Usable(o) THEN Contents(mq[o]) ELSE None],
    limit <- [o \in Obj |-> IF Usable(o) THEN mq[o].qlen ELSE 0]

(* Message queues implement bounded FIFO queues: every message sent, from  *)
(* a task or an interrupt handler, goes behind those in the queue, those   *)
(* of send_front before them, recv takes the front message off, peek       *)
(* returns it and leaves it there.  So the ring buffer never loses,        *)
(* duplicates or reorders a message, whoever sends and receives between    *)
(* the tests of a blocked call, and ERR_BUSY means that the queue was full *)
(* for a send and empty for a receive or a peek.                           *)
RefinesQueue == Queue!Spec

=============================================================================
