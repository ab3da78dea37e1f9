---------------------------- MODULE BoundedQueue ----------------------------
(***************************************************************************)
(* What message queues promise their callers: each is a sequence of at     *)
(* most limit messages.  send puts its message behind all others and       *)
(* send_front before them; recv takes the message at the front off and     *)
(* peek leaves it there.  So messages sent are received in the order of    *)
(* sending, each once.  A send that does not wait is refused only if the   *)
(* queue is full, a receive or a peek only if it is empty.  The ring       *)
(* buffer and the blocking of tasks are not visible.                       *)
(***************************************************************************)
EXTENDS Naturals, Sequences

CONSTANTS
    Obj,        \* names of queues
    Msg,        \* messages
    Null,       \* no queue, no message, no call
    Limits      \* possible limits

VARIABLES
    queue,      \* the messages of each queue, Null if there is no queue
    limit,
    out         \* the last call that moved a message or was refused

qvars == <<queue, limit, out>>

(* Operation op on queue o with an error code, and the message passed. *)
Result(op, o, err, m) == [op |-> op, o |-> o, err |-> err, msg |-> m]

Init ==
    /\ queue = [o \in Obj |-> Null]
    /\ limit = [o \in Obj |-> 0]
    /\ out = Null

Create(o) ==
    /\ queue[o] = Null
    /\ queue' = [queue EXCEPT ![o] = <<>>]
    /\ \E n \in Limits : limit' = [limit EXCEPT ![o] = n]
    /\ UNCHANGED out

Destroy(o) ==
    /\ queue[o] # Null
    /\ queue' = [queue EXCEPT ![o] = Null]
    /\ limit' = [limit EXCEPT ![o] = 0]
    /\ UNCHANGED out

HasRoom(o) == queue[o] # Null /\ Len(queue[o]) < limit[o]
HasMessage(o) == queue[o] # Null /\ queue[o] # <<>>

(* At the back. *)
Send(op, o, m) ==
    /\ op \in {"send", "isr_send"}
    /\ out' = Result(op, o, "OK", m)
    /\ HasRoom(o)
    /\ queue' = [queue EXCEPT ![o] = Append(@, m)]
    /\ UNCHANGED limit

(* At the front. *)
SendFront(o, m) ==
    /\ out' = Result("send_front", o, "OK", m)
    /\ HasRoom(o)
    /\ queue' = [queue EXCEPT ![o] = <<m>> \o @]
    /\ UNCHANGED limit

Receive(op, o) ==
    /\ op \in {"recv", "isr_recv"}
    /\ HasMessage(o)
    /\ queue' = [queue EXCEPT ![o] = Tail(@)]
    /\ out' = Result(op, o, "OK", Head(queue[o]))
    /\ UNCHANGED limit

Peek(op, o) ==
    /\ op \in {"peek", "isr_peek"}
    /\ HasMessage(o)
    /\ out' = Result(op, o, "OK", Head(queue[o]))
    /\ UNCHANGED <<queue, limit>>

Refuse(op, o) ==
    /\ out' = Result(op, o, "BUSY", Null)
    /\ queue[o] # Null
    /\ \/ op \in {"send", "send_front"} /\ Len(queue[o]) = limit[o]
       \/ op \in {"recv", "peek"} /\ queue[o] = <<>>
    /\ UNCHANGED <<queue, limit>>

Ops == {"send", "send_front", "recv", "peek", "isr_send", "isr_recv", "isr_peek"}

Next ==
    \E o \in Obj :
        \/ Create(o)
        \/ Destroy(o)
        \/ \E m \in Msg : SendFront(o, m)
        \/ \E op \in Ops : \/ \E m \in Msg : Send(op, o, m)
                           \/ Receive(op, o)
                           \/ Peek(op, o)
                           \/ Refuse(op, o)

Spec == Init /\ [][Next]_qvars

=============================================================================
