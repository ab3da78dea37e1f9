------------------------------ MODULE MsgRing ------------------------------
(***************************************************************************)
(* The ring buffer of src/kernel/msg_queue.c: qlen + 1 slots, messages     *)
(* from tail up to but not including head.  One operator per step of the   *)
(* code, from ring to ring.                                                *)
(***************************************************************************)
EXTENDS Integers, Sequences

CONSTANTS
    Msg,        \* contents of a slot: a message padded with zeros to cap bytes
    Zero,       \* a slot never written
    QLen        \* argument qlen of trt_msg_q_create; a queue of length 0 is refused

ASSUME RingAssumption ==
    /\ QLen \subseteq Nat \ {0}
    /\ Zero \notin Msg

Ring ==
    UNION {[buf : [0 .. n -> Msg \cup {Zero}], qlen : {n}, head : 0 .. n, tail : 0 .. n] : n \in QLen}

msg_q_create_obj(n) ==
    [buf |-> [i \in 0 .. n |-> Zero], qlen |-> n, head |-> 0, tail |-> 0]

(* MUTANT: the index runs past the last slot. *)
next_without_wrap(r, i) == i + 1

msg_q_next(r, i) == (i + 1) % (r.qlen + 1)

msg_q_is_full_obj(r) == msg_q_next(r, r.head) = r.tail

msg_q_is_empty_obj(r) == r.head = r.tail

msg_q_count_obj(r) ==
    IF r.head >= r.tail THEN r.head - r.tail ELSE (r.qlen + 1) - r.tail + r.head

(* MUTANT: send's code, copied: the message goes to the back. *)
put_front_at_head(r, m) == [r EXCEPT !.buf[r.head] = m, !.head = msg_q_next(r, r.head)]

(* send: the slot at head is written, head moves on. *)
Put(r, m) == [r EXCEPT !.buf[r.head] = m, !.head = msg_q_next(r, r.head)]

(* send_front: tail moves back, the slot there is written. *)
PutFront(r, m) ==
    LET i == IF r.tail = 0 THEN r.qlen ELSE r.tail - 1
    IN [r EXCEPT !.buf[i] = m, !.tail = i]

(* recv: the slot at tail is read, tail moves on. *)
AtFront(r) == r.buf[r.tail]
RemoveFront(r) == [r EXCEPT !.tail = msg_q_next(r, r.tail)]

(* The sequence of messages that a ring stands for. *)
Contents(r) ==
    [i \in 1 .. msg_q_count_obj(r) |-> r.buf[(r.tail + i - 1) % (r.qlen + 1)]]

=============================================================================
