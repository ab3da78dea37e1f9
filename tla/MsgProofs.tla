----------------------------- MODULE MsgProofs ------------------------------
(***************************************************************************)
(* Theorems about message queues: the ring buffer keeps its shape and      *)
(* implements BoundedQueue, and no task sleeps beside what it waits for.   *)
(* What the kernel, the other tasks and the destruction of an object do to *)
(* a call is said by the invariants of ObjectProofs.                       *)
(***************************************************************************)
EXTENDS ObjectProofs, MsgQueue

-----------------------------------------------------------------------------

(* The ring buffer.  One round is enough to bring an index back.           *)
LEMMA RoundOnce ==
    ASSUME NEW n \in Nat \ {0}, NEW x \in 0 .. 2 * n - 1
    PROVE  x % n = IF x < n THEN x ELSE x - n
OBVIOUS

(* The slots of a ring in the order of its messages. *)
Slot(r, i) == IF r.tail + i - 1 <= r.qlen THEN r.tail + i - 1 ELSE r.tail + i - 1 - (r.qlen + 1)

(* A ring and its indices. *)
LEMMA RingShape ==
    ASSUME NEW r \in Ring
    PROVE  /\ r.qlen \in QLen /\ r.qlen \in Nat \ {0}
           /\ r.head \in 0 .. r.qlen /\ r.tail \in 0 .. r.qlen
           /\ r.buf \in [0 .. r.qlen -> Msg \cup {Zero}]
           /\ r = [buf |-> r.buf, qlen |-> r.qlen, head |-> r.head, tail |-> r.tail]
BY RingAssumption DEF Ring

(* A record with indices and slots of the right range is a ring. *)
LEMMA RingMade ==
    ASSUME NEW n \in QLen, NEW h \in 0 .. n, NEW a \in 0 .. n,
           NEW b \in [0 .. n -> Msg \cup {Zero}]
    PROVE  [buf |-> b, qlen |-> n, head |-> h, tail |-> a] \in Ring
BY DEF Ring

(* msg_q_next steps to the following slot and wraps past the last one. *)
LEMMA NextSlot ==
    ASSUME NEW r \in Ring, NEW i \in 0 .. r.qlen
    PROVE  /\ msg_q_next(r, i) = IF i = r.qlen THEN 0 ELSE i + 1
           /\ msg_q_next(r, i) \in 0 .. r.qlen
<1> DEFINE n == r.qlen + 1
           x == i + 1
<1>1. n \in Nat \ {0} /\ x \in 0 .. 2 * n - 1 /\ r.qlen \in Nat
    BY RingShape
<1>2. msg_q_next(r, i) = x % n
    BY DEF msg_q_next
<1> HIDE DEF n, x
<1>3. x % n = IF x < n THEN x ELSE x - n
    BY <1>1, RoundOnce
<1>4. msg_q_next(r, i) = IF x < n THEN x ELSE x - n
    BY <1>2, <1>3
<1> QED BY <1>1, <1>4 DEF n, x

(* msg_q_count_obj, and the tests for a full and an empty ring. *)
LEMMA CountShape ==
    ASSUME NEW r \in Ring
    PROVE  /\ msg_q_count_obj(r) \in 0 .. r.qlen
           /\ msg_q_is_empty_obj(r) <=> msg_q_count_obj(r) = 0
           /\ msg_q_is_full_obj(r) <=> msg_q_count_obj(r) = r.qlen
<1>1. /\ r.qlen \in Nat \ {0} /\ r.head \in 0 .. r.qlen /\ r.tail \in 0 .. r.qlen
      /\ msg_q_next(r, r.head) = IF r.head = r.qlen THEN 0 ELSE r.head + 1
    BY RingShape, NextSlot
<1> QED BY <1>1 DEF msg_q_count_obj, msg_q_is_empty_obj, msg_q_is_full_obj

(* The messages of a ring are those of its occupied slots, as many as it counts. *)
LEMMA ContentsShape ==
    ASSUME NEW r \in Ring
    PROVE  /\ Contents(r) \in Seq(Msg \cup {Zero})
           /\ Len(Contents(r)) = msg_q_count_obj(r)
           /\ \A i \in 1 .. msg_q_count_obj(r) :
                 Slot(r, i) \in 0 .. r.qlen /\ Contents(r)[i] = r.buf[Slot(r, i)]
<1> DEFINE n == r.qlen + 1
           c == msg_q_count_obj(r)
<1>1. /\ c \in 0 .. r.qlen /\ r.qlen \in Nat \ {0} /\ r.tail \in 0 .. r.qlen
      /\ r.buf \in [0 .. r.qlen -> Msg \cup {Zero}]
    BY CountShape, RingShape
<1>2. ASSUME NEW i \in 1 .. c
      PROVE  Slot(r, i) \in 0 .. r.qlen /\ (r.tail + i - 1) % (r.qlen + 1) = Slot(r, i)
    <2> DEFINE x == r.tail + i - 1
    <2> HIDE DEF c
    <2>1. n \in Nat \ {0} /\ x \in 0 .. 2 * n - 1
        BY <1>1
    <2> HIDE DEF n, x
    <2>2. x % n = IF x < n THEN x ELSE x - n
        BY <2>1, RoundOnce
    <2>3. Slot(r, i) = (IF x < n THEN x ELSE x - n) /\ Slot(r, i) \in 0 .. r.qlen
        BY <1>1 DEF n, x, Slot
    <2>4. x % n = Slot(r, i)
        BY <2>2, <2>3
    <2> QED BY <2>3, <2>4 DEF n, x
<1>3. Contents(r) = [i \in 1 .. c |-> r.buf[(r.tail + i - 1) % (r.qlen + 1)]]
    BY DEF Contents
<1> HIDE DEF c, n
<1>4. Contents(r) = [i \in 1 .. c |-> r.buf[Slot(r, i)]]
    BY <1>2, <1>3
<1>5. \A i \in 1 .. c : r.buf[Slot(r, i)] \in Msg \cup {Zero}
    BY <1>1, <1>2
<1>6. Contents(r) \in [1 .. c -> Msg \cup {Zero}]
    BY <1>4, <1>5
<1>7. Contents(r) \in Seq(Msg \cup {Zero}) /\ Len(Contents(r)) = c
    BY <1>1, <1>6
<1> QED BY <1>2, <1>4, <1>7 DEF c

(* msg_q_send_obj *)
LEMMA PutAppends ==
    ASSUME NEW r \in Ring, NEW m \in Msg, ~msg_q_is_full_obj(r)
    PROVE  /\ Put(r, m) \in Ring
           /\ Put(r, m).qlen = r.qlen
           /\ msg_q_count_obj(Put(r, m)) = msg_q_count_obj(r) + 1
           /\ Contents(Put(r, m)) = Append(Contents(r), m)
<1> DEFINE p == Put(r, m)
           S == Msg \cup {Zero}
           c == msg_q_count_obj(r)
           a == Append(Contents(r), m)
<1>1. /\ r.qlen \in QLen /\ r.qlen \in Nat \ {0}
      /\ r.head \in 0 .. r.qlen /\ r.tail \in 0 .. r.qlen /\ r.buf \in [0 .. r.qlen -> S]
      /\ r = [buf |-> r.buf, qlen |-> r.qlen, head |-> r.head, tail |-> r.tail]
    BY RingShape
<1>2. PICK h \in 0 .. r.qlen : h = msg_q_next(r, r.head) /\ h = IF r.head = r.qlen THEN 0 ELSE r.head + 1
    BY <1>1, NextSlot
<1>3. PICK b \in [0 .. r.qlen -> S] : b = [r.buf EXCEPT ![r.head] = m]
    BY <1>1
<1>4. p = [buf |-> b, qlen |-> r.qlen, head |-> h, tail |-> r.tail]
    <2>1. p = [r EXCEPT !.buf[r.head] = m, !.head = h]
        BY <1>2 DEF Put
    <2> HIDE DEF p
    <2> QED BY <1>1, <1>3, <2>1
<1>5. p \in Ring /\ p.qlen = r.qlen /\ p.head = h /\ p.tail = r.tail /\ p.buf = b
    <2> HIDE DEF p
    <2> QED BY <1>1, <1>4, RingMade
<1> HIDE DEF p
<1>6. r.tail # h
    BY <1>2 DEF msg_q_is_full_obj
<1>7. msg_q_count_obj(p) = c + 1 /\ c \in Nat
    <2>1. c = IF r.head >= r.tail THEN r.head - r.tail ELSE (r.qlen + 1) - r.tail + r.head
        BY DEF msg_q_count_obj
    <2>2. msg_q_count_obj(p) = IF h >= r.tail THEN h - r.tail ELSE (r.qlen + 1) - r.tail + h
        BY <1>5 DEF msg_q_count_obj
    <2>3. c \in Nat
        BY CountShape, <1>1
    <2> HIDE DEF c
    <2>4. CASE r.head = r.qlen
        BY <1>1, <1>2, <1>6, <2>1, <2>2, <2>3, <2>4
    <2>5. CASE r.head # r.qlen
        <3>1. h = r.head + 1 /\ r.head \in Int /\ r.tail \in Int
            BY <1>1, <1>2, <2>5
        <3>2. CASE r.head >= r.tail
            BY <3>1, <3>2, <2>1, <2>2, <2>3
        <3>3. CASE ~(r.head >= r.tail)
            <4>1. ~(h >= r.tail)
                BY <1>6, <3>1, <3>3
            <4> QED BY <1>1, <3>1, <3>3, <4>1, <2>1, <2>2, <2>3
        <3> QED BY <3>2, <3>3
    <2> QED BY <2>4, <2>5
<1>8. \A i \in 1 .. c : Slot(r, i) # r.head
    <2>1. c = IF r.head >= r.tail THEN r.head - r.tail ELSE (r.qlen + 1) - r.tail + r.head
        BY DEF msg_q_count_obj
    <2> HIDE DEF c
    <2> QED BY <1>1, <1>7, <2>1 DEF Slot
<1>9. Slot(r, c + 1) = r.head
    <2>1. c = IF r.head >= r.tail THEN r.head - r.tail ELSE (r.qlen + 1) - r.tail + r.head
        BY DEF msg_q_count_obj
    <2> HIDE DEF c
    <2> QED BY <1>1, <1>7, <2>1 DEF Slot
<1>10. \A i : Slot(p, i) = Slot(r, i)
    BY <1>5 DEF Slot
<1>11. /\ Contents(r) \in Seq(S) /\ Len(Contents(r)) = c
       /\ \A i \in 1 .. c : Slot(r, i) \in 0 .. r.qlen /\ Contents(r)[i] = r.buf[Slot(r, i)]
       /\ Contents(p) \in Seq(S) /\ Len(Contents(p)) = c + 1
       /\ \A i \in 1 .. c + 1 : Slot(p, i) \in 0 .. r.qlen /\ Contents(p)[i] = b[Slot(p, i)]
    BY <1>5, <1>7, ContentsShape
<1>12. /\ a \in Seq(S) /\ Len(a) = c + 1 /\ a[c + 1] = m
       /\ \A i \in 1 .. c : a[i] = Contents(r)[i]
    BY <1>11, AppendProperties
<1> HIDE DEF a, c
<1>13. ASSUME NEW i \in 1 .. c + 1 PROVE Contents(p)[i] = a[i]
    <2>1. CASE i = c + 1
        <3>1. Contents(p)[i] = b[r.head]
            BY <1>7, <1>9, <1>10, <1>11, <2>1
        <3>2. b[r.head] = m
            BY <1>1, <1>3
        <3> QED BY <1>12, <2>1, <3>1, <3>2
    <2>2. CASE i # c + 1
        <3>1. i \in 1 .. c
            BY <1>7, <2>2
        <3>2. Contents(p)[i] = b[Slot(r, i)] /\ Slot(r, i) \in 0 .. r.qlen
            BY <1>10, <1>11, <3>1
        <3>3. b[Slot(r, i)] = r.buf[Slot(r, i)]
            BY <1>1, <1>3, <1>8, <3>1, <3>2
        <3>4. a[i] = Contents(r)[i] /\ Contents(r)[i] = r.buf[Slot(r, i)]
            BY <1>11, <1>12, <3>1
        <3> QED BY <3>2, <3>3, <3>4
    <2> QED BY <2>1, <2>2
<1>14. Contents(p) = a
    BY <1>11, <1>12, <1>13, SeqEqual
<1> QED BY <1>5, <1>7, <1>14 DEF p, a, c

-----------------------------------------------------------------------------

(* msg_q_send_front_obj *)
LEMMA PutFrontPrepends ==
    ASSUME NEW r \in Ring, NEW m \in Msg, ~msg_q_is_full_obj(r)
    PROVE  /\ PutFront(r, m) \in Ring
           /\ PutFront(r, m).qlen = r.qlen
           /\ msg_q_count_obj(PutFront(r, m)) = msg_q_count_obj(r) + 1
           /\ Contents(PutFront(r, m)) = <<m>> \o Contents(r)
<1> DEFINE p == PutFront(r, m)
           S == Msg \cup {Zero}
           c == msg_q_count_obj(r)
           a == <<m>> \o Contents(r)
<1>1. /\ r.qlen \in QLen /\ r.qlen \in Nat \ {0}
      /\ r.head \in 0 .. r.qlen /\ r.tail \in 0 .. r.qlen /\ r.buf \in [0 .. r.qlen -> S]
      /\ r = [buf |-> r.buf, qlen |-> r.qlen, head |-> r.head, tail |-> r.tail]
      /\ c \in 0 .. r.qlen /\ c # r.qlen
    BY RingShape, CountShape
<1>2. PICK h \in 0 .. r.qlen : h = IF r.tail = 0 THEN r.qlen ELSE r.tail - 1
    BY <1>1
<1>3. PICK b \in [0 .. r.qlen -> S] : b = [r.buf EXCEPT ![h] = m]
    BY <1>1, <1>2
<1>4. p = [buf |-> b, qlen |-> r.qlen, head |-> r.head, tail |-> h]
    <2>1. p = [r EXCEPT !.buf[h] = m, !.tail = h]
        BY <1>2 DEF PutFront
    <2> HIDE DEF p
    <2> QED BY <1>1, <1>3, <2>1
<1>5. p \in Ring /\ p.qlen = r.qlen /\ p.head = r.head /\ p.tail = h /\ p.buf = b
    <2> HIDE DEF p
    <2> QED BY <1>1, <1>4, RingMade
<1> HIDE DEF p
<1>6. c = IF r.head >= r.tail THEN r.head - r.tail ELSE (r.qlen + 1) - r.tail + r.head
    BY DEF msg_q_count_obj
<1>7. msg_q_count_obj(p) = c + 1
    <2>1. msg_q_count_obj(p) = IF r.head >= h THEN r.head - h ELSE (r.qlen + 1) - h + r.head
        BY <1>5 DEF msg_q_count_obj
    <2> HIDE DEF c
    <2>2. CASE r.tail = 0
        <3>1. ~(r.head >= h)
            BY <1>1, <1>2, <1>6, <2>2
        <3> QED BY <1>1, <1>2, <1>6, <2>1, <2>2, <3>1
    <2>3. CASE r.tail # 0
        <3>1. h = r.tail - 1 /\ r.head \in Int /\ r.tail \in Int
            BY <1>1, <1>2, <2>3
        <3>2. CASE r.head >= r.tail
            BY <1>6, <2>1, <3>1, <3>2
        <3>3. CASE ~(r.head >= r.tail)
            <4>1. ~(r.head >= h)
                BY <1>1, <1>6, <3>1, <3>3
            <4> QED BY <1>1, <1>6, <2>1, <3>1, <3>3, <4>1
        <3> QED BY <3>2, <3>3
    <2> QED BY <2>2, <2>3
<1> HIDE DEF c
<1>8. Slot(p, 1) = h
    BY <1>1, <1>2, <1>5 DEF Slot
<1>9. ASSUME NEW i \in 2 .. c + 1 PROVE Slot(p, i) = Slot(r, i - 1) /\ Slot(p, i) # h
    <2>1. /\ Slot(p, i) = IF h + i - 1 <= r.qlen THEN h + i - 1 ELSE h + i - 1 - (r.qlen + 1)
          /\ Slot(r, i - 1) = IF r.tail + (i - 1) - 1 <= r.qlen THEN r.tail + (i - 1) - 1
                              ELSE r.tail + (i - 1) - 1 - (r.qlen + 1)
        BY <1>5 DEF Slot
    <2>2. /\ i \in Int /\ i >= 2 /\ i <= r.qlen /\ h \in Int /\ r.tail \in Int /\ r.qlen \in Int
          /\ 0 <= h /\ h <= r.qlen /\ 0 <= r.tail /\ r.tail <= r.qlen
        BY <1>1
    <2>3. CASE r.tail = 0
        BY <1>2, <2>1, <2>2, <2>3
    <2>4. CASE r.tail # 0
        <3>1. h = r.tail - 1
            BY <1>2, <2>4
        <3>2. CASE h + i - 1 <= r.qlen
            <4>1. Slot(p, i) = h + i - 1
                BY <2>1, <3>2
            <4>2. r.tail + (i - 1) - 1 <= r.qlen
                BY <2>2, <3>1, <3>2
            <4>3. Slot(r, i - 1) = r.tail + (i - 1) - 1
                BY <2>1, <4>2
            <4>4. r.tail + (i - 1) - 1 = h + i - 1 /\ h + i - 1 # h
                BY <2>2, <3>1
            <4> QED BY <4>1, <4>3, <4>4
        <3>3. CASE ~(h + i - 1 <= r.qlen)
            <4>1. Slot(p, i) = h + i - 1 - (r.qlen + 1)
                BY <2>1, <3>3
            <4>2. ~(r.tail + (i - 1) - 1 <= r.qlen)
                BY <2>2, <3>1, <3>3
            <4>3. Slot(r, i - 1) = r.tail + (i - 1) - 1 - (r.qlen + 1)
                BY <2>1, <4>2
            <4>4. /\ r.tail + (i - 1) - 1 - (r.qlen + 1) = h + i - 1 - (r.qlen + 1)
                  /\ h + i - 1 - (r.qlen + 1) # h
                BY <2>2, <3>1
            <4> QED BY <4>1, <4>3, <4>4
        <3> QED BY <3>2, <3>3
    <2> QED BY <2>3, <2>4
<1>10. /\ Contents(r) \in Seq(S) /\ Len(Contents(r)) = c
       /\ \A i \in 1 .. c : Slot(r, i) \in 0 .. r.qlen /\ Contents(r)[i] = r.buf[Slot(r, i)]
       /\ Contents(p) \in Seq(S) /\ Len(Contents(p)) = c + 1
       /\ \A i \in 1 .. c + 1 : Slot(p, i) \in 0 .. r.qlen /\ Contents(p)[i] = b[Slot(p, i)]
    BY <1>5, <1>7, ContentsShape DEF c
<1>11. /\ a \in Seq(S) /\ Len(a) = c + 1
       /\ \A i \in 1 .. c + 1 : a[i] = IF i <= 1 THEN m ELSE Contents(r)[i - 1]
    <2>1. <<m>> \in Seq(S) /\ Len(<<m>>) = 1 /\ <<m>>[1] = m
        OBVIOUS
    <2>2. 1 + c = c + 1
        BY <1>1
    <2>3. \A i \in 1 .. 1 + c : i <= 1 => i = 1
        BY <1>1
    <2> QED BY <1>10, <2>1, <2>2, <2>3, ConcatProperties
<1> HIDE DEF a
<1>12. ASSUME NEW i \in 1 .. c + 1 PROVE Contents(p)[i] = a[i]
    <2>1. CASE i = 1
        <3>1. a[i] = m
            BY <1>11, <2>1
        <3>2. b[h] = m
            BY <1>1, <1>2, <1>3
        <3> QED BY <1>8, <1>10, <2>1, <3>1, <3>2
    <2>2. CASE i # 1
        <3>1. i \in 2 .. c + 1 /\ i - 1 \in 1 .. c /\ ~(i <= 1)
            BY <1>1, <2>2
        <3>2. Contents(p)[i] = b[Slot(r, i - 1)] /\ Slot(r, i - 1) \in 0 .. r.qlen
            BY <1>9, <1>10, <3>1
        <3>3. b[Slot(r, i - 1)] = r.buf[Slot(r, i - 1)]
            BY <1>1, <1>3, <1>9, <3>1, <3>2
        <3>4. a[i] = Contents(r)[i - 1] /\ Contents(r)[i - 1] = r.buf[Slot(r, i - 1)]
            BY <1>10, <1>11, <3>1
        <3> QED BY <3>2, <3>3, <3>4
    <2> QED BY <2>1, <2>2
<1>13. Contents(p) = a
    BY <1>10, <1>11, <1>12, SeqEqual
<1> QED BY <1>5, <1>7, <1>13 DEF p, a, c

(* msg_q_recv_obj *)
LEMMA RemoveTakesHead ==
    ASSUME NEW r \in Ring, ~msg_q_is_empty_obj(r)
    PROVE  /\ RemoveFront(r) \in Ring
           /\ RemoveFront(r).qlen = r.qlen
           /\ msg_q_count_obj(RemoveFront(r)) = msg_q_count_obj(r) - 1
           /\ Contents(r) # <<>>
           /\ AtFront(r) = Head(Contents(r))
           /\ Contents(RemoveFront(r)) = Tail(Contents(r))
<1> DEFINE p == RemoveFront(r)
           S == Msg \cup {Zero}
           c == msg_q_count_obj(r)
           a == Tail(Contents(r))
<1>1. /\ r.qlen \in QLen /\ r.qlen \in Nat \ {0}
      /\ r.head \in 0 .. r.qlen /\ r.tail \in 0 .. r.qlen /\ r.buf \in [0 .. r.qlen -> S]
      /\ r = [buf |-> r.buf, qlen |-> r.qlen, head |-> r.head, tail |-> r.tail]
      /\ c \in 1 .. r.qlen
      /\ r.head # r.tail
    BY RingShape, CountShape DEF msg_q_is_empty_obj
<1>2. PICK h \in 0 .. r.qlen : h = msg_q_next(r, r.tail) /\ h = IF r.tail = r.qlen THEN 0 ELSE r.tail + 1
    BY <1>1, NextSlot
<1>3. p = [buf |-> r.buf, qlen |-> r.qlen, head |-> r.head, tail |-> h]
    <2>1. p = [r EXCEPT !.tail = h]
        BY <1>2 DEF RemoveFront
    <2> HIDE DEF p
    <2> QED BY <1>1, <2>1
<1>4. p \in Ring /\ p.qlen = r.qlen /\ p.head = r.head /\ p.tail = h /\ p.buf = r.buf
    <2> HIDE DEF p
    <2> QED BY <1>1, <1>3, RingMade
<1> HIDE DEF p
<1>5. c = IF r.head >= r.tail THEN r.head - r.tail ELSE (r.qlen + 1) - r.tail + r.head
    BY DEF msg_q_count_obj
<1>6. msg_q_count_obj(p) = c - 1
    <2>1. msg_q_count_obj(p) = IF r.head >= h THEN r.head - h ELSE (r.qlen + 1) - h + r.head
        BY <1>4 DEF msg_q_count_obj
    <2> HIDE DEF c
    <2>2. CASE r.tail = r.qlen
        <3>1. h = 0 /\ r.head >= h /\ ~(r.head >= r.tail)
            BY <1>1, <1>2, <2>2
        <3> QED BY <1>1, <1>5, <2>1, <2>2, <3>1
    <2>3. CASE r.tail # r.qlen
        <3>1. h = r.tail + 1 /\ r.head \in Int /\ r.tail \in Int
            BY <1>1, <1>2, <2>3
        <3>2. CASE r.head >= r.tail
            <4>1. r.head >= h
                BY <1>1, <3>1, <3>2
            <4> QED BY <1>5, <2>1, <3>1, <3>2, <4>1
        <3>3. CASE ~(r.head >= r.tail)
            <4>1. ~(r.head >= h)
                BY <3>1, <3>3
            <4> QED BY <1>1, <1>5, <2>1, <3>1, <3>3, <4>1
        <3> QED BY <3>2, <3>3
    <2> QED BY <2>2, <2>3
<1> HIDE DEF c
<1>7. Slot(r, 1) = r.tail
    BY <1>1 DEF Slot
<1>8. ASSUME NEW i \in 1 .. c - 1 PROVE Slot(p, i) = Slot(r, i + 1)
    BY <1>1, <1>2, <1>4, <1>5 DEF Slot
<1>9. /\ Contents(r) \in Seq(S) /\ Len(Contents(r)) = c
      /\ \A i \in 1 .. c : Slot(r, i) \in 0 .. r.qlen /\ Contents(r)[i] = r.buf[Slot(r, i)]
      /\ Contents(p) \in Seq(S) /\ Len(Contents(p)) = c - 1
      /\ \A i \in 1 .. c - 1 : Contents(p)[i] = r.buf[Slot(p, i)]
    BY <1>4, <1>6, ContentsShape DEF c
<1>10. Contents(r) # <<>>
    BY <1>1, <1>9
<1>11. /\ a \in Seq(S) /\ Len(a) = c - 1
       /\ \A i \in 1 .. c - 1 : a[i] = Contents(r)[i + 1]
    BY <1>9, <1>10, HeadTailProperties
<1>12. AtFront(r) = Head(Contents(r))
    <2>1. Head(Contents(r)) = Contents(r)[1]
        BY <1>9, <1>10
    <2> QED BY <1>1, <1>7, <1>9, <2>1 DEF AtFront
<1> HIDE DEF a
<1>13. ASSUME NEW i \in 1 .. c - 1 PROVE Contents(p)[i] = a[i]
    <2>1. i + 1 \in 1 .. c
        BY <1>1
    <2> QED BY <1>8, <1>9, <1>11, <2>1
<1>14. Contents(p) = a
    BY <1>9, <1>11, <1>13, SeqEqual
<1> QED BY <1>4, <1>6, <1>10, <1>12, <1>14 DEF p, a, c

(* msg_q_create_obj *)
LEMMA CreatedEmpty ==
    ASSUME NEW n \in QLen
    PROVE  /\ msg_q_create_obj(n) \in Ring
           /\ msg_q_create_obj(n).qlen = n
           /\ msg_q_count_obj(msg_q_create_obj(n)) = 0
           /\ Contents(msg_q_create_obj(n)) = <<>>
<1> DEFINE r == msg_q_create_obj(n)
<1>1. n \in Nat
    BY RingAssumption
<1>2. /\ r \in Ring /\ r.qlen = n /\ r.head = 0 /\ r.tail = 0
    BY <1>1, RingMade DEF msg_q_create_obj
<1> HIDE DEF r
<1>3. msg_q_count_obj(r) = 0
    BY <1>2 DEF msg_q_count_obj
<1>4. Contents(r) = <<>>
    BY <1>2, <1>3, ContentsShape, EmptySeq
<1> QED BY <1>2, <1>3, <1>4 DEF r

-----------------------------------------------------------------------------

(* Message queues. *)
MsgData ==
    /\ mq \in [Obj -> Ring]
    /\ out \in {None} \cup Outcome

MsgInv == ObjectInv /\ MsgData

(* The wait queues of a message queue are its own. *)
LEMMA QueuePair ==
    ASSUME NEW o \in Obj
    PROVE  /\ 1 \in DOMAIN Queues[o] /\ 2 \in DOMAIN Queues[o]
           /\ readers(o) = Queues[o][1] /\ readers(o) \in WaitQ
           /\ writers(o) = Queues[o][2] /\ writers(o) \in WaitQ
           /\ readers(o) # writers(o)
           /\ \A p \in Obj : /\ readers(o) = readers(p) => o = p
                             /\ writers(o) = writers(p) => o = p
                             /\ readers(o) # writers(p)
<1>1. ASSUME NEW p \in Obj PROVE 1 \in DOMAIN Queues[p] /\ 2 \in DOMAIN Queues[p]
    <2>1. Queues[p] \in Seq(WaitQ) /\ Len(Queues[p]) >= 2
        BY ObjectAssumption, MsgQueueAssumption
    <2> QED BY <2>1
<1>2. readers(o) \in WaitQ /\ writers(o) \in WaitQ
    BY <1>1, QueuesType DEF readers, writers
<1>3. ASSUME NEW p \in Obj
      PROVE  /\ readers(o) = readers(p) => o = p
             /\ writers(o) = writers(p) => o = p
             /\ readers(o) # writers(p)
    <2>1. /\ 1 \in DOMAIN Queues[o] /\ 2 \in DOMAIN Queues[o]
          /\ 1 \in DOMAIN Queues[p] /\ 2 \in DOMAIN Queues[p]
        BY <1>1
    <2>2. /\ Queues[o][1] = Queues[p][1] => o = p
          /\ Queues[o][2] = Queues[p][2] => o = p
          /\ Queues[o][1] = Queues[p][2] => 1 = 2
        BY <2>1, ObjectAssumption
    <2> QED BY <2>2 DEF readers, writers
<1> QED BY <1>1, <1>2, <1>3 DEF readers, writers

(* A call, or an interrupt handler, that has done its work wakes one waiter. *)
LEMMA WakeAnswers ==
    ASSUME NEW t \in Task, NEW q \in WaitQ, At(t, "o_op"), WakeAndReturn(t, q)
    PROVE  Answers(t)
<1>1. "OBJECT" \in WaitResult \ {"NONE"}
    BY DEF WaitResult
<1>2. Wakes
    BY <1>1 DEF WakeAndReturn, Wakes, trt_wait_q_wake_one_locked
<1> QED BY <1>2 DEF WakeAndReturn, Answers, taskvars, history

(* A timeout is a number of ticks. *)
LEMMA TimedNat ==
    ASSUME ObjectInv, NEW t \in Task, call[t].d # None
    PROVE  call[t].d \in Nat
<1>1. Delays \subseteq Nat
    BY KernelAssumption, SchedAssumption
<1>2. call[t] \in CallRecord
    BY DEF ObjectInv, ObjectData
<1>3. call[t].d \in Delays \cup {0, None}
    BY <1>2 DEF CallRecord
<1>4. call[t].d \in Delays \/ call[t].d = 0
    BY <1>3
<1>5. CASE call[t].d \in Delays
    BY <1>1, <1>5
<1>6. CASE call[t].d = 0
    BY <1>6
<1> QED BY <1>4, <1>5, <1>6

(* A call that blocks is put on the queue of its kind. *)
LEMMA MsgBlocks ==
    ASSUME ObjectInv, NEW t \in Task, NEW o \in Obj, msg_q_block(t, o)
    PROVE  \E timed \in BOOLEAN, i \in DOMAIN Queues[o] :
              /\ Queues[o][i] = IF call[t].op \in Sends THEN writers(o) ELSE readers(o)
              /\ call[t].o = o /\ Usable(o) /\ WaitsOn(t, Queues[o][i], timed)
<1>1. /\ Runs(t) /\ pc[t] = "o_op" /\ call[t].o = o /\ Usable(o) /\ ~sched_is_locked(k)
      /\ BlockOn(t, IF call[t].op \in Sends THEN writers(o) ELSE readers(o), call[t].d # None)
    BY DEF msg_q_block, MustWait, Operates, At
<1>2. PICK timed \in BOOLEAN : timed = (call[t].d # None)
    OBVIOUS
<1>3. PICK i \in DOMAIN Queues[o] :
            Queues[o][i] = IF call[t].op \in Sends THEN writers(o) ELSE readers(o)
    BY QueuePair
<1>4. timed => call[t].d \in Nat
    BY <1>2, TimedNat
<1>5. WaitsOn(t, Queues[o][i], timed)
    BY <1>1, <1>2, <1>3, <1>4 DEF WaitsOn
<1> QED BY <1>1, <1>3, <1>5

(* Every operation of a message queue is one of the steps of KObject. *)
LEMMA MsgStepGoes ==
    ASSUME ObjectInv, NEW t \in Task, MsgStep(t)
    PROVE  UseStep(t) \/ DestroyStep(t)
<1> USE DEF taskvars, history
<1>1. ASSUME NEW o \in Obj, NEW m \in Msg, msg_q_send_obj(t, o, m) \/ msg_q_send_front_obj(t, o, m)
      PROVE  Answers(t)
    BY <1>1, QueuePair, WakeAnswers DEF msg_q_send_obj, msg_q_send_front_obj, Operates
<1>2. ASSUME NEW o \in Obj, msg_q_recv_obj(t, o) \/ msg_q_peek_obj(t, o) PROVE Answers(t)
    BY <1>2, QueuePair, WakeAnswers DEF msg_q_recv_obj, msg_q_peek_obj, Operates
<1>3. ASSUME NEW o \in Obj, msg_q_busy(t, o) PROVE Answers(t)
    BY <1>3 DEF msg_q_busy, MustWait, Operates, ReturnUnchanged, Answers, Wakes
<1>4. ASSUME NEW o \in Obj, msg_q_locked(t, o) PROVE Answers(t)
    BY <1>4 DEF msg_q_locked, MustWait, Operates, Answers, Wakes
<1>5. ASSUME NEW o \in Obj, msg_q_block(t, o) PROVE Waits(t)
    BY <1>5, MsgBlocks DEF Waits
<1>6. ASSUME NEW o \in Obj, msg_q_destroy_obj(t, o) PROVE DestroyStep(t)
    BY <1>6 DEF msg_q_destroy_obj, DestroyStep
<1>7. CASE msg_q_gone(t)
    <2>1. Answers(t)
        BY <1>7 DEF msg_q_gone, OperateFreed, UseFreed, OperateGone, Operates, Answers, Wakes
    <2> QED BY <2>1 DEF UseStep
<1>8. CASE msg_q_wait_result(t)
    <2>1. CASE k.wres[t] = "OBJECT"
        BY <1>8, <2>1 DEF msg_q_wait_result, TriesAgain, UseStep
    <2>2. CASE k.wres[t] # "OBJECT"
        <3>1. Answers(t)
            BY <1>8, <2>2 DEF msg_q_wait_result, ReturnUnchanged, Answers, Wakes
        <3> QED BY <3>1 DEF UseStep
    <2> QED BY <2>1, <2>2
<1>9. CASE trt_msg_q_destroy(t)
    BY <1>9 DEF trt_msg_q_destroy, DestroyStep
<1> QED BY <1>1, <1>2, <1>3, <1>4, <1>5, <1>6, <1>7, <1>8, <1>9 DEF MsgStep, UseStep

(* An interrupt handler wakes one waiter. *)
LEMMA MsgIrqGoes == MsgIrq => IsrWakes
<1> SUFFICES ASSUME MsgIrq PROVE IsrWakes
    OBVIOUS
<1>1. PICK o \in Obj : \E q \in {readers(o), writers(o)} : \E op : FromIsr(op, o, q)
    BY DEF MsgIrq, trt_msg_q_send_from_isr, trt_msg_q_recv_from_isr, trt_msg_q_peek_from_isr
<1>2. PICK q \in {readers(o), writers(o)} : \E op : FromIsr(op, o, q)
    BY <1>1
<1>3. PICK op : FromIsr(op, o, q)
    BY <1>2
<1>4. q \in WaitQ
    BY QueuePair
<1> QED BY <1>3, <1>4 DEF FromIsr, IsrWakes, HandlerWakes, InTrap

(* The calls of msg_queue.c begin with a lookup. *)
LEMMA MsgCallLooks ==
    ASSUME NEW t \in Task, MsgCall(t)
    PROVE  LookupStep /\ UNCHANGED <<k, mq, out, obj>>
<1>1. PICK o \in Obj : \E op, d : msg_q_lookup(t, o, op, d) /\ (d \in Timeouts \/ d = 0)
    BY DEF MsgCall
<1>2. PICK op, d : msg_q_lookup(t, o, op, d) /\ (d \in Timeouts \/ d = 0)
    BY <1>1
<1>3. d \in Delays \cup {0, None} /\ op \in ObjOps
    BY <1>2, MsgQueueAssumption DEF msg_q_lookup, Lookup
<1> QED BY <1>2, <1>3 DEF msg_q_lookup, Lookup, LookupStep

(* Every step of the system is a step of KObject. *)
LEMMA MsgGoes ==
    ASSUME ObjectInv, [MsgNext]_<<vars, mqvars>>
    PROVE  ObjectsOnly /\ ObjectStep
<1>1. ObjectsOnly
    BY MsgQueueAssumption DEF ObjectsOnly
<1>2. ASSUME NEW t \in Task, MsgCall(t) \/ MsgStep(t) PROVE ObjectStep
    BY <1>2, MsgCallLooks, MsgStepGoes DEF ObjectStep, GoesOn
<1>3. ASSUME MsgCreate PROVE ObjectStep
    BY <1>3 DEF MsgCreate, trt_msg_q_create, ObjectStep, GoesOn
<1>4. ASSUME MsgIrq PROVE ObjectStep
    BY <1>4, MsgIrqGoes DEF ObjectStep, GoesOn
<1>5. ASSUME UNCHANGED <<vars, mqvars>> \/ (Next /\ UNCHANGED mqvars) PROVE ObjectStep
    BY <1>5 DEF mqvars, ObjectStep, GoesOn
<1>6. ObjectStep
    BY <1>2, <1>3, <1>4, <1>5 DEF MsgNext
<1> QED BY <1>1, <1>6

(* The objects below it. *)
LEMMA MsgObjects ==
    ASSUME ObjectInv, [MsgNext]_<<vars, mqvars>>
    PROVE  ObjectInv'
BY MsgGoes, ObjectNext

-----------------------------------------------------------------------------

(* The queues that the message queues stand for, as in Queue. *)
AbsQueue == [o \in Obj |-> IF Usable(o) THEN Contents(mq[o]) ELSE None]
AbsLimit == [o \in Obj |-> IF Usable(o) THEN mq[o].qlen ELSE 0]

(* A step of BoundedQueue, or none. *)
Abstract == [Queue!Next]_(Queue!qvars)

(* What the abstract queue and its limit are for one object. *)
LEMMA AbsFacts ==
    ASSUME NEW o \in Obj
    PROVE  /\ AbsQueue[o] = IF Usable(o) THEN Contents(mq[o]) ELSE None
           /\ AbsLimit[o] = IF Usable(o) THEN mq[o].qlen ELSE 0
BY DEF AbsQueue, AbsLimit

(* Nothing happens to the messages. *)
LEMMA AbsSame ==
    ASSUME MsgInv, UNCHANGED <<mq, out>>, \A o \in Obj : Usable(o)' <=> Usable(o)
    PROVE  MsgData' /\ Abstract
<1>1. MsgData'
    BY DEF MsgInv, MsgData
<1>2. AbsQueue' = AbsQueue /\ AbsLimit' = AbsLimit
    BY DEF AbsQueue, AbsLimit
<1> QED BY <1>1, <1>2 DEF Abstract, Queue!qvars, AbsQueue, AbsLimit

(* A queue that is usable holds a sequence of messages, which is not None. *)
LEMMA UsableQueue ==
    ASSUME MsgInv, NEW o \in Obj, Usable(o)
    PROVE  /\ mq[o] \in Ring
           /\ AbsQueue[o] = Contents(mq[o]) /\ AbsLimit[o] = mq[o].qlen
           /\ AbsQueue[o] \in Seq(Msg \cup {None}) /\ AbsQueue[o] # None
           /\ Len(AbsQueue[o]) = msg_q_count_obj(mq[o])
<1>1. mq[o] \in Ring
    BY DEF MsgInv, MsgData
<1>2. AbsQueue[o] = Contents(mq[o]) /\ AbsLimit[o] = mq[o].qlen
    BY AbsFacts
<1>3. Contents(mq[o]) \in Seq(Msg \cup {None}) /\ Len(Contents(mq[o])) = msg_q_count_obj(mq[o])
    BY <1>1, ContentsShape, MsgQueueAssumption
<1> QED BY <1>1, <1>2, <1>3, MsgQueueAssumption

(* One usable queue changes from one ring to another. *)
LEMMA AbsChange ==
    ASSUME MsgInv, NEW o \in Obj, Usable(o), UNCHANGED obj,
           NEW r \in Ring, mq' = [mq EXCEPT ![o] = r], r.qlen = mq[o].qlen
    PROVE  /\ mq' \in [Obj -> Ring]
           /\ AbsQueue' = [AbsQueue EXCEPT ![o] = Contents(r)]
           /\ AbsLimit' = AbsLimit
<1>1. mq \in [Obj -> Ring]
    BY DEF MsgInv, MsgData
<1>2. mq' \in [Obj -> Ring] /\ mq'[o] = r /\ \A u \in Obj \ {o} : mq'[u] = mq[u]
    BY <1>1
<1>3. \A u \in Obj : Usable(u)' <=> Usable(u)
    BY DEF Usable
<1>4. AbsQueue' = [u \in Obj |-> IF Usable(u)' THEN Contents(mq'[u]) ELSE None]
    BY DEF AbsQueue, Contents, msg_q_count_obj
<1>5. AbsQueue' = [AbsQueue EXCEPT ![o] = Contents(r)]
    BY <1>2, <1>3, <1>4 DEF AbsQueue
<1>6. AbsLimit' = AbsLimit
    BY <1>2, <1>3 DEF AbsLimit
<1> QED BY <1>2, <1>5, <1>6

(* A queue that is not full has room in the abstract queue. *)
LEMMA AbsRoom ==
    ASSUME MsgInv, NEW o \in Obj, Usable(o), ~msg_q_is_full_obj(mq[o])
    PROVE  AbsQueue[o] # None /\ Len(AbsQueue[o]) < AbsLimit[o]
<1>1. /\ mq[o] \in Ring /\ AbsLimit[o] = mq[o].qlen /\ AbsQueue[o] # None
      /\ Len(AbsQueue[o]) = msg_q_count_obj(mq[o])
    BY UsableQueue
<1>2. /\ msg_q_count_obj(mq[o]) \in 0 .. mq[o].qlen
      /\ msg_q_count_obj(mq[o]) # mq[o].qlen
      /\ mq[o].qlen \in Nat
    BY <1>1, CountShape, RingShape
<1> QED BY <1>1, <1>2

(* The queue of one object gets a new value, which its ring stands for. *)
LEMMA AbsBecomes ==
    ASSUME MsgInv, NEW o \in Obj, Usable(o), UNCHANGED obj,
           NEW r \in Ring, mq' = [mq EXCEPT ![o] = r], r.qlen = mq[o].qlen
    PROVE  /\ mq' \in [Obj -> Ring]
           /\ \A v : Contents(r) = v => AbsQueue' = [AbsQueue EXCEPT ![o] = v]
           /\ AbsLimit' = AbsLimit
BY AbsChange

(* send: at the back *)
LEMMA AbsSend ==
    ASSUME MsgInv, NEW o \in Obj, NEW m \in Msg, Usable(o), ~msg_q_is_full_obj(mq[o]),
           UNCHANGED obj, mq' = [mq EXCEPT ![o] = Put(@, m)],
           NEW op \in {"send", "isr_send"}, out' = Result(op, o, "OK", m)
    PROVE  MsgData' /\ Abstract
<1>1. mq[o] \in Ring /\ AbsQueue[o] = Contents(mq[o])
    BY UsableQueue
<1>2. PICK r \in Ring : r = Put(mq[o], m)
    BY <1>1, PutAppends
<1>3. r.qlen = mq[o].qlen /\ Contents(r) = Append(AbsQueue[o], m)
    BY <1>1, <1>2, PutAppends
<1>4. /\ mq' \in [Obj -> Ring]
      /\ AbsQueue' = [AbsQueue EXCEPT ![o] = Append(AbsQueue[o], m)]
      /\ AbsLimit' = AbsLimit
    BY <1>2, <1>3, AbsBecomes
<1>5. MsgData'
    BY <1>4 DEF MsgData, Result, Outcome, Sends, Receives
<1>6. Queue!HasRoom(o)
    BY AbsRoom DEF Queue!HasRoom, AbsQueue, AbsLimit
<1>7. AbsQueue' = [AbsQueue EXCEPT ![o] = Append(@, m)]
    BY <1>4 DEF AbsQueue
<1>8. Queue!Send(op, o, m)
    BY <1>4, <1>6, <1>7 DEF Queue!Send, Queue!Result, Result, AbsQueue, AbsLimit
<1> QED BY <1>5, <1>8 DEF Abstract, Queue!Next, Queue!Ops

(* send_front: at the front *)
LEMMA AbsSendFront ==
    ASSUME MsgInv, NEW o \in Obj, NEW m \in Msg, Usable(o), ~msg_q_is_full_obj(mq[o]),
           UNCHANGED obj, mq' = [mq EXCEPT ![o] = PutFront(@, m)],
           out' = Result("send_front", o, "OK", m)
    PROVE  MsgData' /\ Abstract
<1>1. mq[o] \in Ring /\ AbsQueue[o] = Contents(mq[o])
    BY UsableQueue
<1>2. PICK r \in Ring : r = PutFront(mq[o], m)
    BY <1>1, PutFrontPrepends
<1>3. r.qlen = mq[o].qlen /\ Contents(r) = <<m>> \o AbsQueue[o]
    BY <1>1, <1>2, PutFrontPrepends
<1>4. /\ mq' \in [Obj -> Ring]
      /\ AbsQueue' = [AbsQueue EXCEPT ![o] = <<m>> \o AbsQueue[o]]
      /\ AbsLimit' = AbsLimit
    BY <1>2, <1>3, AbsBecomes
<1>5. MsgData'
    BY <1>4 DEF MsgData, Result, Outcome, Sends, Receives
<1>6. Queue!HasRoom(o)
    BY AbsRoom DEF Queue!HasRoom, AbsQueue, AbsLimit
<1>7. AbsQueue' = [AbsQueue EXCEPT ![o] = <<m>> \o @]
    BY <1>4 DEF AbsQueue
<1>8. Queue!SendFront(o, m)
    BY <1>4, <1>6, <1>7 DEF Queue!SendFront, Queue!Result, Result, AbsQueue, AbsLimit
<1> QED BY <1>5, <1>8 DEF Abstract, Queue!Next

(* What the reader of a queue that is not empty finds there. *)
LEMMA AbsFront ==
    ASSUME MsgInv, NEW o \in Obj, Usable(o), ~msg_q_is_empty_obj(mq[o])
    PROVE  /\ Queue!HasMessage(o)
           /\ AtFront(mq[o]) = Head(AbsQueue[o]) /\ AtFront(mq[o]) \in Msg \cup {None}
           /\ RemoveFront(mq[o]) \in Ring /\ RemoveFront(mq[o]).qlen = mq[o].qlen
           /\ Contents(RemoveFront(mq[o])) = Tail(AbsQueue[o])
<1>1. /\ mq[o] \in Ring /\ AbsQueue[o] = Contents(mq[o]) /\ AbsQueue[o] # None
      /\ AbsQueue[o] \in Seq(Msg \cup {None})
    BY UsableQueue
<1>2. /\ RemoveFront(mq[o]) \in Ring /\ RemoveFront(mq[o]).qlen = mq[o].qlen
      /\ AbsQueue[o] # <<>>
      /\ AtFront(mq[o]) = Head(AbsQueue[o])
      /\ Contents(RemoveFront(mq[o])) = Tail(AbsQueue[o])
    BY <1>1, RemoveTakesHead
<1>3. Head(AbsQueue[o]) \in Msg \cup {None}
    BY <1>1, <1>2, HeadTailProperties
<1>4. Queue!HasMessage(o)
    BY <1>1, <1>2 DEF Queue!HasMessage, AbsQueue
<1> QED BY <1>2, <1>3, <1>4

(* recv: the message at the front is taken off. *)
LEMMA AbsReceive ==
    ASSUME MsgInv, NEW o \in Obj, Usable(o), ~msg_q_is_empty_obj(mq[o]),
           UNCHANGED obj, mq' = [mq EXCEPT ![o] = RemoveFront(@)],
           NEW op \in {"recv", "isr_recv"}, out' = Result(op, o, "OK", AtFront(mq[o]))
    PROVE  MsgData' /\ Abstract
<1>1. /\ Queue!HasMessage(o)
      /\ AtFront(mq[o]) = Head(AbsQueue[o]) /\ AtFront(mq[o]) \in Msg \cup {None}
      /\ RemoveFront(mq[o]).qlen = mq[o].qlen
      /\ Contents(RemoveFront(mq[o])) = Tail(AbsQueue[o])
    BY AbsFront
<1>2. PICK r \in Ring : r = RemoveFront(mq[o])
    BY AbsFront
<1>3. /\ mq' \in [Obj -> Ring]
      /\ AbsQueue' = [AbsQueue EXCEPT ![o] = Tail(AbsQueue[o])]
      /\ AbsLimit' = AbsLimit
    BY <1>1, <1>2, AbsBecomes
<1>4. MsgData'
    BY <1>1, <1>3 DEF MsgData, Result, Outcome, Sends, Receives
<1>5. AbsQueue' = [AbsQueue EXCEPT ![o] = Tail(@)]
    BY <1>3 DEF AbsQueue
<1>6. Queue!Receive(op, o)
    BY <1>1, <1>3, <1>5 DEF Queue!Receive, Queue!Result, Result, AbsQueue, AbsLimit
<1> QED BY <1>4, <1>6 DEF Abstract, Queue!Next, Queue!Ops

(* peek: the message at the front stays. *)
LEMMA AbsPeek ==
    ASSUME MsgInv, NEW o \in Obj, Usable(o), ~msg_q_is_empty_obj(mq[o]),
           UNCHANGED <<obj, mq>>,
           NEW op \in {"peek", "isr_peek"}, out' = Result(op, o, "OK", AtFront(mq[o]))
    PROVE  MsgData' /\ Abstract
<1>1. /\ Queue!HasMessage(o)
      /\ AtFront(mq[o]) = Head(AbsQueue[o]) /\ AtFront(mq[o]) \in Msg \cup {None}
    BY AbsFront
<1>2. AbsQueue' = AbsQueue /\ AbsLimit' = AbsLimit
    BY DEF AbsQueue, AbsLimit, Usable
<1>3. MsgData'
    BY <1>1 DEF MsgInv, MsgData, Result, Outcome, Sends, Receives
<1>4. Queue!Peek(op, o)
    BY <1>1, <1>2 DEF Queue!Peek, Queue!Result, Result, AbsQueue, AbsLimit
<1> QED BY <1>3, <1>4 DEF Abstract, Queue!Next, Queue!Ops

(* A call that does not wait is refused: a send by a full queue, a receive *)
(* or a peek by an empty one.                                              *)
LEMMA AbsRefuse ==
    ASSUME MsgInv, NEW o \in Obj, Usable(o), UNCHANGED <<obj, mq>>,
           NEW op, \/ op \in Sends /\ msg_q_is_full_obj(mq[o])
                   \/ op \in Receives /\ msg_q_is_empty_obj(mq[o]),
           out' = Result(op, o, "BUSY", None)
    PROVE  MsgData' /\ Abstract
<1>1. /\ mq[o] \in Ring /\ AbsQueue[o] # None /\ AbsLimit[o] = mq[o].qlen
      /\ AbsQueue[o] \in Seq(Msg \cup {None})
      /\ Len(AbsQueue[o]) = msg_q_count_obj(mq[o])
    BY UsableQueue
<1>2. /\ msg_q_is_full_obj(mq[o]) => Len(AbsQueue[o]) = AbsLimit[o]
      /\ msg_q_is_empty_obj(mq[o]) => AbsQueue[o] = <<>>
    BY <1>1, CountShape
<1>3. AbsQueue' = AbsQueue /\ AbsLimit' = AbsLimit
    BY DEF AbsQueue, AbsLimit, Usable
<1>4. op \in {"send", "send_front", "recv", "peek"}
    BY DEF Sends, Receives
<1>5. MsgData'
    BY <1>4 DEF MsgInv, MsgData, Result, Outcome, Sends, Receives
<1>6. Queue!Refuse(op, o)
    BY <1>1, <1>2, <1>3 DEF Queue!Refuse, Queue!Result, Result, AbsQueue, AbsLimit, Sends, Receives
<1> QED BY <1>4, <1>5, <1>6 DEF Abstract, Queue!Next, Queue!Ops

(* Creation and destruction. *)
LEMMA AbsCreate ==
    ASSUME MsgInv, NEW o \in Obj, NEW n \in QLen, trt_msg_q_create(o, n)
    PROVE  MsgData' /\ Abstract
<1> DEFINE r == msg_q_create_obj(n)
<1>1. r \in Ring /\ r.qlen = n /\ Contents(r) = <<>>
    BY CreatedEmpty
<1>2. /\ ~Usable(o) /\ Usable(o)'
      /\ \A u \in Obj \ {o} : Usable(u)' <=> Usable(u)
      /\ mq' = [mq EXCEPT ![o] = r] /\ out' = out
    BY DEF trt_msg_q_create, Create, Usable, MsgInv, ObjectInv, ObjectData
<1> HIDE DEF r
<1>3. mq \in [Obj -> Ring]
    BY DEF MsgInv, MsgData
<1>4. mq' \in [Obj -> Ring] /\ mq'[o] = r /\ \A u \in Obj \ {o} : mq'[u] = mq[u]
    BY <1>1, <1>2, <1>3
<1>5. AbsQueue' = [u \in Obj |-> IF Usable(u)' THEN Contents(mq'[u]) ELSE None]
    BY DEF AbsQueue, Contents, msg_q_count_obj
<1>6. AbsQueue' = [AbsQueue EXCEPT ![o] = <<>>]
    BY <1>1, <1>2, <1>4, <1>5 DEF AbsQueue
<1>7. AbsLimit' = [AbsLimit EXCEPT ![o] = n]
    BY <1>1, <1>2, <1>4 DEF AbsLimit
<1>8. AbsQueue[o] = None
    BY <1>2, AbsFacts
<1>9. Queue!Create(o)
    BY <1>2, <1>6, <1>7, <1>8 DEF Queue!Create, AbsQueue, AbsLimit
<1>10. MsgData'
    BY <1>2, <1>4 DEF MsgInv, MsgData
<1> QED BY <1>9, <1>10 DEF Abstract, Queue!Next

(* A queue that stops being usable is destroyed in the abstract queue too. *)
LEMMA AbsDestroy ==
    ASSUME MsgInv, NEW o \in Obj, Usable(o), ~Usable(o)', UNCHANGED <<mq, out>>,
           \A u \in Obj \ {o} : Usable(u)' <=> Usable(u)
    PROVE  MsgData' /\ Abstract
<1>1. AbsQueue' = [AbsQueue EXCEPT ![o] = None] /\ AbsLimit' = [AbsLimit EXCEPT ![o] = 0]
    BY DEF AbsQueue, AbsLimit
<1>2. AbsQueue[o] # None
    BY UsableQueue
<1>3. Queue!Destroy(o)
    BY <1>1, <1>2 DEF Queue!Destroy, AbsQueue, AbsLimit
<1>4. MsgData'
    BY DEF MsgInv, MsgData
<1> QED BY <1>3, <1>4 DEF Abstract, Queue!Next

-----------------------------------------------------------------------------

(* The operations of a message queue. *)
LEMMA MsgStepAbstract ==
    ASSUME MsgInv, NEW t \in Task, MsgStep(t)
    PROVE  MsgData' /\ Abstract
<1> USE DEF taskvars, history
<1>1. obj \in [Obj -> [alloc : BOOLEAN, open : BOOLEAN, destroyed : BOOLEAN]]
    BY DEF MsgInv, ObjectInv, ObjectData
<1>2. ASSUME NEW o \in Obj, NEW m \in Msg, msg_q_send_obj(t, o, m) PROVE MsgData' /\ Abstract
    BY <1>2, AbsSend DEF msg_q_send_obj, WakeAndReturn, Operates
<1>12. ASSUME NEW o \in Obj, NEW m \in Msg, msg_q_send_front_obj(t, o, m)
       PROVE  MsgData' /\ Abstract
    BY <1>12, AbsSendFront DEF msg_q_send_front_obj, WakeAndReturn, Operates
<1>3. ASSUME NEW o \in Obj, msg_q_recv_obj(t, o) PROVE MsgData' /\ Abstract
    BY <1>3, AbsReceive DEF msg_q_recv_obj, WakeAndReturn, Operates
<1>13. ASSUME NEW o \in Obj, msg_q_peek_obj(t, o) PROVE MsgData' /\ Abstract
    BY <1>13, AbsPeek DEF msg_q_peek_obj, WakeAndReturn, Operates
<1>4. ASSUME NEW o \in Obj, msg_q_busy(t, o) PROVE MsgData' /\ Abstract
    BY <1>4, AbsRefuse DEF msg_q_busy, MustWait, ReturnUnchanged, Operates
<1>5. ASSUME UNCHANGED <<obj, mq, out>> PROVE MsgData' /\ Abstract
    BY <1>5, AbsSame DEF Usable
<1>6. ASSUME NEW o \in Obj, msg_q_locked(t, o) PROVE MsgData' /\ Abstract
    BY <1>5, <1>6 DEF msg_q_locked
<1>7. ASSUME NEW o \in Obj, msg_q_block(t, o) PROVE MsgData' /\ Abstract
    BY <1>5, <1>7 DEF msg_q_block, BlockOn, objvars
<1>8. ASSUME NEW o \in Obj, msg_q_destroy_obj(t, o) PROVE MsgData' /\ Abstract
    <2>1. /\ Usable(o) /\ obj' = [obj EXCEPT ![o].destroyed = TRUE] /\ UNCHANGED <<mq, out>>
        BY <1>8 DEF msg_q_destroy_obj, Destroy
    <2>2. ~Usable(o)' /\ \A u \in Obj \ {o} : Usable(u)' <=> Usable(u)
        BY <1>1, <2>1 DEF Usable
    <2> QED BY <2>1, <2>2, AbsDestroy
<1>9. CASE msg_q_gone(t)
    BY <1>5, <1>9 DEF msg_q_gone, OperateFreed, UseFreed, OperateGone
<1>10. CASE msg_q_wait_result(t)
    BY <1>5, <1>10 DEF msg_q_wait_result, ReturnUnchanged
<1>11. CASE trt_msg_q_destroy(t)
    <2>1. UNCHANGED <<mq, out>>
        BY <1>11 DEF trt_msg_q_destroy
    <2>2. ASSUME WakeDestroyed(t) PROVE \A u \in Obj : Usable(u)' <=> Usable(u)
        BY <2>2 DEF WakeDestroyed, objvars, Usable
    <2>3. ASSUME Close(t) PROVE \A u \in Obj : Usable(u)' <=> Usable(u)
        <3>1. obj' = [obj EXCEPT ![call[t].o].open = FALSE]
            BY <2>3 DEF Close
        <3>2. \A u \in Obj : obj'[u].alloc = obj[u].alloc /\ obj'[u].destroyed = obj[u].destroyed
            BY <1>1, <3>1
        <3> QED BY <3>2 DEF Usable
    <2>4. ASSUME Free(t) PROVE \A u \in Obj : Usable(u)' <=> Usable(u)
        <3>1. /\ obj' = [obj EXCEPT ![call[t].o] = NoObj]
              /\ call[t].o # None /\ obj[call[t].o].destroyed
            BY <2>4 DEF Free, At, MsgInv, ObjectInv, CallAt, Destroys
        <3>2. call[t].o \in Obj
            BY <3>1 DEF MsgInv, ObjectInv, ObjectData, CallRecord
        <3>3. obj'[call[t].o] = NoObj /\ \A u \in Obj \ {call[t].o} : obj'[u] = obj[u]
            BY <1>1, <3>1, <3>2
        <3> QED BY <3>1, <3>3 DEF Usable, NoObj
    <2> QED BY <1>11, <2>1, <2>2, <2>3, <2>4, AbsSame DEF trt_msg_q_destroy
<1> QED BY <1>2, <1>3, <1>4, <1>6, <1>7, <1>8, <1>9, <1>10, <1>11, <1>12, <1>13 DEF MsgStep

(* Every step of the system. *)
LEMMA MsgAbstract ==
    ASSUME MsgInv, [MsgNext]_<<vars, mqvars>>
    PROVE  MsgData' /\ Abstract
<1>1. ASSUME UNCHANGED <<obj, mq, out>> PROVE MsgData' /\ Abstract
    BY <1>1, AbsSame DEF Usable
<1>2. ASSUME NEW t \in Task, MsgCall(t) PROVE MsgData' /\ Abstract
    BY <1>1, <1>2, MsgCallLooks
<1>3. ASSUME NEW t \in Task, MsgStep(t) PROVE MsgData' /\ Abstract
    BY <1>3, MsgStepAbstract
<1>4. CASE MsgCreate
    BY <1>4, AbsCreate DEF MsgCreate
<1>5. ASSUME NEW o \in Obj, NEW m \in Msg, trt_msg_q_send_from_isr(o, m)
      PROVE  MsgData' /\ Abstract
    BY <1>5, AbsSend DEF trt_msg_q_send_from_isr, FromIsr, objvars
<1>6. ASSUME NEW o \in Obj, trt_msg_q_recv_from_isr(o) PROVE MsgData' /\ Abstract
    BY <1>6, AbsReceive DEF trt_msg_q_recv_from_isr, FromIsr, objvars
<1>8. ASSUME NEW o \in Obj, trt_msg_q_peek_from_isr(o) PROVE MsgData' /\ Abstract
    BY <1>8, AbsPeek DEF trt_msg_q_peek_from_isr, FromIsr, objvars
<1>7. CASE UNCHANGED <<vars, mqvars>> \/ (Next /\ UNCHANGED mqvars)
    BY <1>1, <1>7 DEF mqvars, objvars
<1> QED BY <1>2, <1>3, <1>4, <1>5, <1>6, <1>7, <1>8 DEF MsgNext, MsgIrq

(* The invariant of the message queues. *)
LEMMA MsgAlways == MsgSpec => []MsgInv
<1>1. MsgInit => MsgInv
    <2> SUFFICES ASSUME MsgInit PROVE MsgInv
        OBVIOUS
    <2>1. ObjectInv
        BY ObjectInit DEF MsgInit
    <2>2. \A n \in QLen : msg_q_create_obj(n) \in Ring
        BY CreatedEmpty
    <2>3. mq \in [Obj -> Ring]
        BY <2>2 DEF MsgInit
    <2>4. out \in {None} \cup Outcome
        BY DEF MsgInit
    <2> QED BY <2>1, <2>3, <2>4 DEF MsgInv, MsgData
<1>2. MsgInv /\ [MsgNext]_<<vars, mqvars>> => MsgInv'
    BY MsgObjects, MsgAbstract DEF MsgInv
<1> QED BY <1>1, <1>2, PTL DEF MsgSpec

(* Every variable of the message queues keeps its type: head and tail stay *)
(* inside the buffer of msg_queue.c, whatever its length.                  *)
THEOREM MsgTypeCorrect == MsgSpec => []MsgTypeOK
<1>1. MsgInv => MsgTypeOK
    BY DEF MsgInv, MsgData, ObjectInv, ObjectData, CallRecord, KernelInv, TypeInv,
        MsgTypeOK, ObjTypeOK
<1> QED BY <1>1, MsgAlways, PTL

(* trt_msg_q_destroy frees no queue with a task among its readers or       *)
(* writers.                                                                *)
THEOREM MsgFreedUnwaited == MsgSpec => []FreedHasNoWaiter
<1>1. MsgInv => FreedHasNoWaiter
    BY DEF MsgInv, ObjectInv
<1> QED BY <1>1, MsgAlways, PTL

(* msg_queue.c implements bounded FIFO queues, for any number of queues,   *)
(* lengths, messages and tasks: every call is the step of its own          *)
(* operation, or none.  A send goes to the back, a send_front to the       *)
(* front, a receive takes the front message off, a peek leaves it; a send  *)
(* is refused only by a full queue, a receive or a peek by an empty one.   *)
THEOREM MsgRefinement == MsgSpec => RefinesQueue
<1>1. MsgInit => Queue!Init
    <2> SUFFICES ASSUME MsgInit PROVE Queue!Init
        OBVIOUS
    <2>1. \A o \in Obj : ~Usable(o)
        BY DEF MsgInit, ObjInit, NoObj, Usable
    <2> QED BY <2>1 DEF MsgInit, Queue!Init, Queue!Result, Result
<1>2. MsgInv /\ [MsgNext]_<<vars, mqvars>> => [Queue!Next]_(Queue!qvars)
    BY MsgAbstract DEF Abstract
<1> QED BY <1>1, <1>2, MsgAlways, PTL DEF MsgSpec, RefinesQueue, Queue!Spec

-----------------------------------------------------------------------------
(* The readers and writers that have been woken and will look: as long as  *)
(* readers wait, there are at least as many as the queue has messages, and *)
(* as long as writers wait, as many as it has room.                        *)
Lookers(o, ops) == {x \in Task : Retries(x, o, ops)}

Attended(o) ==
    Usable(o) =>
        /\ k.wq[readers(o)] # <<>> =>
               msg_q_count_obj(mq[o]) <= Cardinality(Lookers(o, Receives))
        /\ k.wq[writers(o)] # <<>> =>
               mq[o].qlen - msg_q_count_obj(mq[o]) <= Cardinality(Lookers(o, Sends))

(* Readers wait to receive or peek, writers to send. *)
KindsKnown ==
    \A o \in Obj, x \in Task : /\ Contains(k.wq[readers(o)], x) => call[x].op \in Receives
                               /\ Contains(k.wq[writers(o)], x) => call[x].op \in Sends

(* A call that works on an object is not that of a deleted task. *)
CallersLive == \A x \in Task : pc[x] = "o_op" => k.state[x] # "DELETED"

LookInv == MsgInv /\ WaitsInv /\ CallersLive /\ KindsKnown /\ \A o \in Obj : Attended(o)

(* Of two sets one of which has all of the other but t. *)
LEMMA AllButOne ==
    ASSUME NEW A \in SUBSET Task, NEW B \in SUBSET Task, NEW t, A \ {t} \subseteq B
    PROVE  /\ Cardinality(A) \in Nat /\ Cardinality(B) \in Nat
           /\ Cardinality(A) <= Cardinality(B) + 1
           /\ t \notin A => Cardinality(A) <= Cardinality(B)
<1>1. IsFiniteSet(A) /\ IsFiniteSet(B)
    BY MsgQueueAssumption, FS_Subset
<1>2. Cardinality(A) \in Nat /\ Cardinality(B) \in Nat
    BY <1>1, FS_CardinalityType
<1>3. Cardinality(A \ {t}) = IF t \in A THEN Cardinality(A) - 1 ELSE Cardinality(A)
    BY <1>1, FS_RemoveElement
<1>4. Cardinality(A \ {t}) <= Cardinality(B)
    BY <1>1, FS_Subset
<1> QED BY <1>2, <1>3, <1>4

(* And of two sets where the second has one element more. *)
LEMMA OneJoins ==
    ASSUME NEW A \in SUBSET Task, NEW B \in SUBSET Task, NEW t, A \ {t} \subseteq B,
           NEW h, h \in B, h \notin A
    PROVE  /\ Cardinality(A) <= Cardinality(B)
           /\ t \notin A => Cardinality(A) + 1 <= Cardinality(B)
<1>1. B \ {h} \in SUBSET Task /\ A \ {t} \subseteq B \ {h}
    OBVIOUS
<1>2. /\ Cardinality(A) \in Nat /\ Cardinality(B \ {h}) \in Nat
      /\ Cardinality(A) <= Cardinality(B \ {h}) + 1
      /\ t \notin A => Cardinality(A) <= Cardinality(B \ {h})
    BY <1>1, AllButOne
<1>3. IsFiniteSet(B)
    BY MsgQueueAssumption, FS_Subset
<1>4. Cardinality(B) \in Nat /\ Cardinality(B \ {h}) = Cardinality(B) - 1
    BY <1>3, FS_RemoveElement, FS_CardinalityType
<1> QED BY <1>2, <1>4

(* The lookers before and after a step. *)
LEMMA LookersShape ==
    ASSUME NEW o \in Obj, NEW ops
    PROVE  /\ Lookers(o, ops) \in SUBSET Task /\ Lookers(o, ops)' \in SUBSET Task
           /\ Cardinality(Lookers(o, ops)) \in Nat /\ Cardinality(Lookers(o, ops)') \in Nat
           /\ \A x \in Task : /\ x \in Lookers(o, ops) <=> Retries(x, o, ops)
                              /\ x \in Lookers(o, ops)' <=> Retries(x, o, ops)'
<1>1. Lookers(o, ops) \in SUBSET Task /\ Lookers(o, ops)' \in SUBSET Task
    BY DEF Lookers
<1>2. IsFiniteSet(Lookers(o, ops)) /\ IsFiniteSet(Lookers(o, ops)')
    BY <1>1, MsgQueueAssumption, FS_Subset
<1>3. Cardinality(Lookers(o, ops)) \in Nat /\ Cardinality(Lookers(o, ops)') \in Nat
    BY <1>2, FS_CardinalityType
<1> QED BY <1>1, <1>3 DEF Lookers

(* The lookers of a queue all go on, apart from t. *)
LookOn(t, o, ops) == \A x \in Task \ {t} : Retries(x, o, ops) => Retries(x, o, ops)'

(* One task more is going to look. *)
Joins(o, ops) == \E h \in Task : ~Retries(h, o, ops) /\ Retries(h, o, ops)'

(* How many will look. *)
LEMMA LookersCount ==
    ASSUME NEW o \in Obj, NEW ops, NEW t, LookOn(t, o, ops)
    PROVE  /\ Cardinality(Lookers(o, ops)) \in Nat /\ Cardinality(Lookers(o, ops)') \in Nat
           /\ Cardinality(Lookers(o, ops)) <= Cardinality(Lookers(o, ops)') + 1
           /\ t \notin Lookers(o, ops) => Cardinality(Lookers(o, ops)) <= Cardinality(Lookers(o, ops)')
           /\ Joins(o, ops) => Cardinality(Lookers(o, ops)) <= Cardinality(Lookers(o, ops)')
           /\ Joins(o, ops) /\ t \notin Lookers(o, ops) =>
                  Cardinality(Lookers(o, ops)) + 1 <= Cardinality(Lookers(o, ops)')
<1>1. PICK A \in SUBSET Task : A = Lookers(o, ops)
    BY LookersShape
<1>2. PICK B \in SUBSET Task : B = Lookers(o, ops)'
    BY LookersShape
<1>3. A \ {t} \subseteq B
    BY <1>1, <1>2, LookersShape DEF LookOn
<1>4. /\ Cardinality(A) \in Nat /\ Cardinality(B) \in Nat
      /\ Cardinality(A) <= Cardinality(B) + 1
      /\ t \notin A => Cardinality(A) <= Cardinality(B)
    BY <1>3, AllButOne
<1>5. ASSUME Joins(o, ops)
      PROVE  /\ Cardinality(A) <= Cardinality(B)
             /\ t \notin A => Cardinality(A) + 1 <= Cardinality(B)
    <2>1. PICK h \in Task : h \notin A /\ h \in B
        BY <1>1, <1>2, <1>5, LookersShape DEF Joins
    <2> QED BY <1>3, <2>1, OneJoins
<1> QED BY <1>1, <1>2, <1>4, <1>5

(* Its wait queues were not empty if they are not. *)
DrainsOf(o) ==
    /\ k'.wq[readers(o)] # <<>> => k.wq[readers(o)] # <<>>
    /\ k'.wq[writers(o)] # <<>> => k.wq[writers(o)] # <<>>

(* A queue stays attended when the lookers grow with what there is to find. *)
LEMMA AttendedStays ==
    ASSUME NEW o \in Obj, Attended(o), Usable(o)' => Usable(o), DrainsOf(o),
           Usable(o) /\ k.wq[readers(o)] # <<>> =>
               msg_q_count_obj(mq'[o]) - msg_q_count_obj(mq[o])
                   <= Cardinality(Lookers(o, Receives)') - Cardinality(Lookers(o, Receives)),
           Usable(o) /\ k.wq[writers(o)] # <<>> =>
               msg_q_count_obj(mq[o]) - msg_q_count_obj(mq'[o])
                   <= Cardinality(Lookers(o, Sends)') - Cardinality(Lookers(o, Sends)),
           mq[o] \in Ring, mq'[o] \in Ring, mq'[o].qlen = mq[o].qlen
    PROVE  Attended(o)'
<1> SUFFICES ASSUME Usable(o)'
             PROVE  /\ k'.wq[readers(o)] # <<>> =>
                           msg_q_count_obj(mq'[o]) <= Cardinality(Lookers(o, Receives)')
                    /\ k'.wq[writers(o)] # <<>> =>
                           mq'[o].qlen - msg_q_count_obj(mq'[o]) <= Cardinality(Lookers(o, Sends)')
    BY DEF Attended, readers, writers
<1>1. /\ msg_q_count_obj(mq[o]) \in Int /\ msg_q_count_obj(mq'[o]) \in Int /\ mq[o].qlen \in Int
    BY CountShape, RingShape
<1>2. /\ Cardinality(Lookers(o, Receives)) \in Nat /\ Cardinality(Lookers(o, Receives)') \in Nat
      /\ Cardinality(Lookers(o, Sends)) \in Nat /\ Cardinality(Lookers(o, Sends)') \in Nat
    BY LookersShape
<1>4. ASSUME k'.wq[readers(o)] # <<>>
      PROVE  msg_q_count_obj(mq'[o]) <= Cardinality(Lookers(o, Receives)')
    <2>1. k.wq[readers(o)] # <<>>
        BY <1>4 DEF DrainsOf
    <2>2. msg_q_count_obj(mq[o]) <= Cardinality(Lookers(o, Receives))
        BY <2>1 DEF Attended
    <2> QED BY <1>1, <1>2, <2>1, <2>2
<1>5. ASSUME k'.wq[writers(o)] # <<>>
      PROVE  mq'[o].qlen - msg_q_count_obj(mq'[o]) <= Cardinality(Lookers(o, Sends)')
    <2>1. k.wq[writers(o)] # <<>>
        BY <1>5 DEF DrainsOf
    <2>2. mq[o].qlen - msg_q_count_obj(mq[o]) <= Cardinality(Lookers(o, Sends))
        BY <2>1 DEF Attended
    <2> QED BY <1>1, <1>2, <2>1, <2>2
<1> QED BY <1>4, <1>5

(* So it does when its ring is not touched and nobody who will look is lost. *)
LEMMA AttendedSame ==
    ASSUME MsgInv, NEW o \in Obj, Attended(o), Usable(o)' => Usable(o), DrainsOf(o), mq'[o] = mq[o],
           NEW t, Usable(o) => /\ LookOn(t, o, Receives) /\ LookOn(t, o, Sends)
                               /\ t \notin Lookers(o, Receives) \cup Lookers(o, Sends)
    PROVE  Attended(o)'
<1>1. mq[o] \in Ring
    BY DEF MsgInv, MsgData
<1>2. msg_q_count_obj(mq[o]) \in Int
    BY <1>1, CountShape
<1>3. ASSUME Usable(o)
      PROVE  /\ Cardinality(Lookers(o, Receives)) <= Cardinality(Lookers(o, Receives)')
             /\ Cardinality(Lookers(o, Sends)) <= Cardinality(Lookers(o, Sends)')
    BY <1>3, LookersCount
<1>4. /\ Cardinality(Lookers(o, Receives)) \in Nat /\ Cardinality(Lookers(o, Receives)') \in Nat
      /\ Cardinality(Lookers(o, Sends)) \in Nat /\ Cardinality(Lookers(o, Sends)') \in Nat
    BY LookersShape
<1>5. ASSUME Usable(o)
      PROVE  /\ msg_q_count_obj(mq'[o]) - msg_q_count_obj(mq[o])
                   <= Cardinality(Lookers(o, Receives)') - Cardinality(Lookers(o, Receives))
             /\ msg_q_count_obj(mq[o]) - msg_q_count_obj(mq'[o])
                   <= Cardinality(Lookers(o, Sends)') - Cardinality(Lookers(o, Sends))
    BY <1>2, <1>3, <1>4, <1>5
<1> QED BY <1>1, <1>5, AttendedStays

(* Or when it is full, or empty, and only those look no more whom this concerns. *)
LEMMA AttendedVain ==
    ASSUME MsgInv, NEW o \in Obj, Attended(o), Usable(o)' => Usable(o), mq'[o] = mq[o], NEW t,
           Usable(o) =>
             \/ /\ msg_q_is_full_obj(mq[o])
                /\ LookOn(t, o, Receives) /\ t \notin Lookers(o, Receives)
                /\ k'.wq[readers(o)] # <<>> => k.wq[readers(o)] # <<>>
             \/ /\ msg_q_is_empty_obj(mq[o])
                /\ LookOn(t, o, Sends) /\ t \notin Lookers(o, Sends)
                /\ k'.wq[writers(o)] # <<>> => k.wq[writers(o)] # <<>>
    PROVE  Attended(o)'
<1> SUFFICES ASSUME Usable(o)'
             PROVE  /\ k'.wq[readers(o)] # <<>> =>
                           msg_q_count_obj(mq[o]) <= Cardinality(Lookers(o, Receives)')
                    /\ k'.wq[writers(o)] # <<>> =>
                           mq[o].qlen - msg_q_count_obj(mq[o]) <= Cardinality(Lookers(o, Sends)')
    BY DEF Attended, readers, writers
<1>1. mq[o] \in Ring /\ Usable(o)
    BY DEF MsgInv, MsgData
<1>2. /\ msg_q_count_obj(mq[o]) \in Int /\ mq[o].qlen \in Int
      /\ msg_q_is_empty_obj(mq[o]) => msg_q_count_obj(mq[o]) = 0
      /\ msg_q_is_full_obj(mq[o]) => msg_q_count_obj(mq[o]) = mq[o].qlen
    BY <1>1, CountShape, RingShape
<1>3. /\ Cardinality(Lookers(o, Receives)) \in Nat /\ Cardinality(Lookers(o, Receives)') \in Nat
      /\ Cardinality(Lookers(o, Sends)) \in Nat /\ Cardinality(Lookers(o, Sends)') \in Nat
    BY LookersShape
<1>4. CASE /\ msg_q_is_full_obj(mq[o])
           /\ LookOn(t, o, Receives) /\ t \notin Lookers(o, Receives)
           /\ k'.wq[readers(o)] # <<>> => k.wq[readers(o)] # <<>>
    <2>1. Cardinality(Lookers(o, Receives)) <= Cardinality(Lookers(o, Receives)')
        BY <1>4, LookersCount
    <2>2. k.wq[readers(o)] # <<>> => msg_q_count_obj(mq[o]) <= Cardinality(Lookers(o, Receives))
        BY <1>1 DEF Attended
    <2> QED BY <1>2, <1>3, <1>4, <2>1, <2>2
<1>5. CASE /\ msg_q_is_empty_obj(mq[o])
           /\ LookOn(t, o, Sends) /\ t \notin Lookers(o, Sends)
           /\ k'.wq[writers(o)] # <<>> => k.wq[writers(o)] # <<>>
    <2>1. Cardinality(Lookers(o, Sends)) <= Cardinality(Lookers(o, Sends)')
        BY <1>5, LookersCount
    <2>2. k.wq[writers(o)] # <<>> =>
              mq[o].qlen - msg_q_count_obj(mq[o]) <= Cardinality(Lookers(o, Sends))
        BY <1>1 DEF Attended
    <2> QED BY <1>2, <1>3, <1>5, <2>1, <2>2
<1> QED BY <1>1, <1>4, <1>5

-----------------------------------------------------------------------------
(* The types. *)
LEMMA LookTypes ==
    ASSUME LookInv
    PROVE  /\ MsgInv /\ WaitsInv /\ CallersLive /\ KindsKnown /\ ObjectInv /\ WaitersKnown
           /\ k \in Scheduler /\ Orderly(k) /\ KernelInv /\ pc \in [Task -> Pc]
           /\ call \in [Task -> CallRecord] /\ mq \in [Obj -> Ring]
           /\ obj \in [Obj -> [alloc : BOOLEAN, open : BOOLEAN, destroyed : BOOLEAN]]
           /\ \A o \in Obj : Attended(o)
BY DEF LookInv, MsgInv, MsgData, WaitsInv, ObjectInv, ObjectData, KernelInv, TypeInv, TypeOK, AlwaysInv

(* A waiter is blocked, and it stays in the call it waits in. *)
LEMMA KindsKept ==
    ASSUME LookInv, Leaves(k, k'), \A x \in Task : k.state[x] = "BLOCKED" => call'[x].op = call[x].op
    PROVE  KindsKnown'
<1> SUFFICES ASSUME NEW o \in Obj, NEW x \in Task
             PROVE  /\ Contains(k'.wq[readers(o)], x) => call'[x].op \in Receives
                    /\ Contains(k'.wq[writers(o)], x) => call'[x].op \in Sends
    BY DEF KindsKnown, readers, writers
<1>1. readers(o) \in WaitQ /\ writers(o) \in WaitQ
    BY QueuePair
<1>2. \A w \in WaitQ : Contains(k.wq[w], x) => k.state[x] = "BLOCKED"
    BY LookTypes DEF Orderly, Seat
<1>3. /\ Contains(k.wq[readers(o)], x) => call[x].op \in Receives
      /\ Contains(k.wq[writers(o)], x) => call[x].op \in Sends
    BY LookTypes DEF KindsKnown
<1> QED BY <1>1, <1>2, <1>3 DEF Leaves

(* What Retries says, now and in the next state. *)
LEMMA RetriesMeans ==
    ASSUME NEW x \in Task, NEW o \in Obj, NEW ops
    PROVE  /\ Retries(x, o, ops) <=> /\ call[x].op \in ops
                                     /\ \/ Granted(x, o)
                                        \/ pc[x] = "o_op" /\ call[x].o = o /\ call[x].woken
           /\ Retries(x, o, ops)' <=> /\ call'[x].op \in ops
                                      /\ \/ Granted(x, o)'
                                         \/ pc'[x] = "o_op" /\ call'[x].o = o /\ call'[x].woken
           /\ Retries(x, o, ops) => call[x].o = o
BY DEF Retries, Granted, Waited

(* Where t does not look. *)
LEMMA LooksElsewhere ==
    ASSUME NEW t \in Task, NEW u \in Obj, NEW ops, call[t].o # u \/ call[t].op \notin ops
    PROVE  t \notin Lookers(u, ops)
BY LookersShape, RetriesMeans

(* A call that returns leaves the others looking. *)
LEMMA AnswerLooks ==
    ASSUME LookInv, NEW t \in Task, Answers(t)
    PROVE  /\ \A u \in Obj : /\ LookOn(t, u, Receives) /\ LookOn(t, u, Sends)
                             /\ DrainsOf(u)
           /\ KindsKnown'
<1>1. /\ Alone(t) /\ ~ObjWait(t)' /\ k.state[t] = "RUNNING" /\ k \in Scheduler /\ Orderly(k)
      /\ ObjectInv /\ Wakes
    BY LookTypes, AnswerFacts DEF Answers
<1>2. Leaves(k, k') /\ (Quietly \/ \E h, result : Rouses(h, result))
    BY <1>1, WakesLeave
<1>3. \A x \in Task \ {t}, u \in Obj : Granted(x, u) => Granted(x, u)'
    <2>1. CASE Quietly
        BY <1>1, <2>1, QuietGrants
    <2>2. ASSUME NEW h, NEW result, Rouses(h, result)
          PROVE  \A x \in Task \ {t}, u \in Obj : Granted(x, u) => Granted(x, u)'
        BY <1>1, <2>2, RouseGrants
    <2> QED BY <1>2, <2>1, <2>2
<1>4. ASSUME NEW u \in Obj, NEW ops PROVE LookOn(t, u, ops)
    BY <1>1, <1>3, RetriesMeans DEF LookOn, Alone
<1>5. Drains
    BY <1>1, WakesTame DEF Drains
<1>6. \A u \in Obj : DrainsOf(u)
    BY <1>5, QueuePair DEF Drains, DrainsOf
<1>7. KindsKnown'
    <2>1. \A x \in Task : k.state[x] = "BLOCKED" => call'[x].op = call[x].op
        BY <1>1 DEF Alone
    <2> QED BY <1>2, <2>1, KindsKept
<1> QED BY <1>4, <1>6, <1>7

(* The waiter that is woken first is going to look. *)
LEMMA WaiterJoins ==
    ASSUME LookInv, NEW o \in Obj, NEW i \in {1, 2}, k.wq[Queues[o][i]] # <<>>,
           NEW h, h = Head(k.wq[Queues[o][i]]), Rouses(h, "OBJECT"), call'[h] = call[h],
           \A u \in Obj : Waited(h, u) => Granted(h, u)'
    PROVE  Joins(o, IF i = 1 THEN Receives ELSE Sends)
<1>1. PICK q \in WaitQ : q = Queues[o][i] /\ i \in DOMAIN Queues[o]
    BY QueuePair
<1>2. h \in Task /\ k \in Scheduler /\ Contains(k.wq[q], h)
    <2>1. k.wq[q] \in Seq(Task) /\ h \in Task /\ k \in Scheduler
        BY <1>1, LookTypes DEF Rouses, Scheduler
    <2>2. k.wq[q] # <<>> /\ h = Head(k.wq[q])
        BY <1>1
    <2>3. Contains(k.wq[q], Head(k.wq[q]))
        BY <2>1, <2>2, TailShape
    <2> QED BY <2>1, <2>2, <2>3
<1>3. ObjWait(h) /\ call[h].o = o
    BY <1>1, <1>2, LookTypes DEF WaitersKnown
<1>4. call[h].op \in IF i = 1 THEN Receives ELSE Sends
    BY <1>1, <1>2, LookTypes DEF KindsKnown, readers, writers
<1>5. Waited(h, o) /\ pc[h] # "o_op"
    BY <1>2, <1>3, WaitedMeans DEF ObjWait, YieldPc
<1>6. ~Granted(h, o)
    BY DEF Granted, Rouses
<1>7. Granted(h, o)'
    BY <1>5
<1> QED BY <1>2, <1>4, <1>5, <1>6, <1>7, RetriesMeans DEF Joins

(* A call wakes the first waiter of its object. *)
LEMMA CallJoins ==
    ASSUME LookInv, NEW t \in Task, NEW o \in Obj, NEW i \in {1, 2}, k.wq[Queues[o][i]] # <<>>,
           Answers(t), k' = trt_wait_q_wake_one_locked(k, Queues[o][i])
    PROVE  Joins(o, IF i = 1 THEN Receives ELSE Sends)
<1>1. /\ Alone(t) /\ ~ObjWait(t)' /\ k.state[t] = "RUNNING" /\ k \in Scheduler /\ Orderly(k)
    BY LookTypes, AnswerFacts
<1>2. Queues[o][i] \in WaitQ
    BY QueuePair
<1>3. PICK h : h = Head(k.wq[Queues[o][i]])
    OBVIOUS
<1>4. Rouses(h, "OBJECT")
    BY <1>1, <1>2, <1>3, WakeRouses DEF trt_wait_q_wake_one_locked, WaitResult
<1>5. h \in Task \ {t} /\ call'[h] = call[h]
    BY <1>1, <1>4 DEF Rouses, Alone
<1>6. \A u \in Obj : Waited(h, u) => Granted(h, u)'
    BY <1>1, <1>4, <1>5, RouseGrants
<1> QED BY <1>3, <1>4, <1>5, <1>6, WaiterJoins

-----------------------------------------------------------------------------
(* A message is put in the queue. *)
LEMMA SendAttends ==
    ASSUME LookInv, NEW t \in Task, NEW o \in Obj, NEW m \in Msg,
           msg_q_send_obj(t, o, m) \/ msg_q_send_front_obj(t, o, m)
    PROVE  KindsKnown' /\ \A u \in Obj : Attended(u)'
<1>1. /\ At(t, "o_op") /\ call[t].o = o /\ call[t].op \in Sends /\ Usable(o) /\ obj' = obj
      /\ ~msg_q_is_full_obj(mq[o]) /\ WakeAndReturn(t, readers(o))
      /\ mq' = [mq EXCEPT ![o] = Put(@, m)] \/ mq' = [mq EXCEPT ![o] = PutFront(@, m)]
    BY DEF msg_q_send_obj, msg_q_send_front_obj, Operates, Sends, WakeAndReturn
<1>2. readers(o) \in WaitQ /\ readers(o) = Queues[o][1]
    BY QueuePair
<1>3. Answers(t) /\ k' = trt_wait_q_wake_one_locked(k, Queues[o][1])
    BY <1>1, <1>2, WakeAnswers DEF WakeAndReturn
<1>4. /\ \A u \in Obj : LookOn(t, u, Receives) /\ LookOn(t, u, Sends) /\ DrainsOf(u)
      /\ KindsKnown'
    BY <1>3, AnswerLooks
<1>5. call[t].op \notin Receives
    BY <1>1 DEF Sends, Receives
<1>6. \A u \in Obj : Usable(u)' <=> Usable(u)
    BY <1>1 DEF Usable
<1>7. /\ mq[o] \in Ring /\ mq'[o] \in Ring /\ mq'[o].qlen = mq[o].qlen
      /\ msg_q_count_obj(mq'[o]) = msg_q_count_obj(mq[o]) + 1
    <2>1. mq[o] \in Ring /\ (mq'[o] = Put(mq[o], m) \/ mq'[o] = PutFront(mq[o], m))
        BY <1>1, LookTypes
    <2>2. CASE mq'[o] = Put(mq[o], m)
        BY <1>1, <2>1, <2>2, PutAppends
    <2>3. CASE mq'[o] = PutFront(mq[o], m)
        BY <1>1, <2>1, <2>3, PutFrontPrepends
    <2> QED BY <2>1, <2>2, <2>3
<1>8. Attended(o)'
    <2>1. k.wq[readers(o)] # <<>> => Joins(o, Receives)
        BY <1>2, <1>3, CallJoins
    <2>2. t \notin Lookers(o, Receives)
        BY <1>5, LooksElsewhere
    <2>3. k.wq[readers(o)] # <<>> =>
              Cardinality(Lookers(o, Receives)) + 1 <= Cardinality(Lookers(o, Receives)')
        BY <1>4, <2>1, <2>2, LookersCount
    <2>4. Cardinality(Lookers(o, Sends)) <= Cardinality(Lookers(o, Sends)') + 1
        BY <1>4, LookersCount
    <2>5. /\ Cardinality(Lookers(o, Receives)) \in Nat /\ Cardinality(Lookers(o, Receives)') \in Nat
          /\ Cardinality(Lookers(o, Sends)) \in Nat /\ Cardinality(Lookers(o, Sends)') \in Nat
          /\ msg_q_count_obj(mq[o]) \in Int
        BY <1>7, LookersShape, CountShape
    <2>6. k.wq[readers(o)] # <<>> =>
              msg_q_count_obj(mq'[o]) - msg_q_count_obj(mq[o])
                  <= Cardinality(Lookers(o, Receives)') - Cardinality(Lookers(o, Receives))
        BY <1>7, <2>3, <2>5
    <2>7. msg_q_count_obj(mq[o]) - msg_q_count_obj(mq'[o])
              <= Cardinality(Lookers(o, Sends)') - Cardinality(Lookers(o, Sends))
        BY <1>7, <2>4, <2>5
    <2> QED BY <1>4, <1>6, <1>7, <2>6, <2>7, LookTypes, AttendedStays
<1>9. ASSUME NEW u \in Obj \ {o} PROVE Attended(u)'
    <2>1. mq'[u] = mq[u]
        BY <1>1, LookTypes
    <2>2. t \notin Lookers(u, Receives) \cup Lookers(u, Sends)
        BY <1>1, LooksElsewhere
    <2> QED BY <1>4, <1>6, <2>1, <2>2, LookTypes, AttendedSame
<1> QED BY <1>4, <1>8, <1>9

(* A message is taken out of it. *)
LEMMA ReceiveAttends ==
    ASSUME LookInv, NEW t \in Task, NEW o \in Obj, msg_q_recv_obj(t, o)
    PROVE  KindsKnown' /\ \A u \in Obj : Attended(u)'
<1>1. /\ At(t, "o_op") /\ call[t].o = o /\ call[t].op \in Receives /\ Usable(o) /\ obj' = obj
      /\ ~msg_q_is_empty_obj(mq[o]) /\ WakeAndReturn(t, writers(o))
      /\ mq' = [mq EXCEPT ![o] = RemoveFront(@)]
    BY DEF msg_q_recv_obj, Operates, Receives, WakeAndReturn
<1>2. writers(o) \in WaitQ /\ writers(o) = Queues[o][2]
    BY QueuePair
<1>3. Answers(t) /\ k' = trt_wait_q_wake_one_locked(k, Queues[o][2])
    BY <1>1, <1>2, WakeAnswers DEF WakeAndReturn
<1>4. /\ \A u \in Obj : LookOn(t, u, Receives) /\ LookOn(t, u, Sends) /\ DrainsOf(u)
      /\ KindsKnown'
    BY <1>3, AnswerLooks
<1>5. call[t].op \notin Sends
    BY <1>1 DEF Sends, Receives
<1>6. \A u \in Obj : Usable(u)' <=> Usable(u)
    BY <1>1 DEF Usable
<1>7. /\ mq[o] \in Ring /\ mq'[o] \in Ring /\ mq'[o].qlen = mq[o].qlen
      /\ msg_q_count_obj(mq'[o]) = msg_q_count_obj(mq[o]) - 1
    <2>1. mq[o] \in Ring /\ mq'[o] = RemoveFront(mq[o])
        BY <1>1, LookTypes
    <2> QED BY <1>1, <2>1, RemoveTakesHead
<1>8. Attended(o)'
    <2>1. k.wq[writers(o)] # <<>> => Joins(o, Sends)
        BY <1>2, <1>3, CallJoins
    <2>2. t \notin Lookers(o, Sends)
        BY <1>5, LooksElsewhere
    <2>3. k.wq[writers(o)] # <<>> =>
              Cardinality(Lookers(o, Sends)) + 1 <= Cardinality(Lookers(o, Sends)')
        BY <1>4, <2>1, <2>2, LookersCount
    <2>4. Cardinality(Lookers(o, Receives)) <= Cardinality(Lookers(o, Receives)') + 1
        BY <1>4, LookersCount
    <2>5. /\ Cardinality(Lookers(o, Receives)) \in Nat /\ Cardinality(Lookers(o, Receives)') \in Nat
          /\ Cardinality(Lookers(o, Sends)) \in Nat /\ Cardinality(Lookers(o, Sends)') \in Nat
          /\ msg_q_count_obj(mq[o]) \in Int
        BY <1>7, LookersShape, CountShape
    <2>6. k.wq[writers(o)] # <<>> =>
              msg_q_count_obj(mq[o]) - msg_q_count_obj(mq'[o])
                  <= Cardinality(Lookers(o, Sends)') - Cardinality(Lookers(o, Sends))
        BY <1>7, <2>3, <2>5
    <2>7. msg_q_count_obj(mq'[o]) - msg_q_count_obj(mq[o])
              <= Cardinality(Lookers(o, Receives)') - Cardinality(Lookers(o, Receives))
        BY <1>7, <2>4, <2>5
    <2> QED BY <1>4, <1>6, <1>7, <2>6, <2>7, LookTypes, AttendedStays
<1>9. ASSUME NEW u \in Obj \ {o} PROVE Attended(u)'
    <2>1. mq'[u] = mq[u]
        BY <1>1, LookTypes
    <2>2. t \notin Lookers(u, Receives) \cup Lookers(u, Sends)
        BY <1>1, LooksElsewhere
    <2> QED BY <1>4, <1>6, <2>1, <2>2, LookTypes, AttendedSame
<1> QED BY <1>4, <1>8, <1>9

(* A peek passes the wake on. *)
LEMMA PeekAttends ==
    ASSUME LookInv, NEW t \in Task, NEW o \in Obj, msg_q_peek_obj(t, o)
    PROVE  KindsKnown' /\ \A u \in Obj : Attended(u)'
<1>1. /\ At(t, "o_op") /\ call[t].o = o /\ call[t].op \in Receives /\ obj' = obj
      /\ WakeAndReturn(t, readers(o)) /\ mq' = mq
    BY DEF msg_q_peek_obj, Operates, Receives, WakeAndReturn
<1>2. readers(o) \in WaitQ /\ readers(o) = Queues[o][1]
    BY QueuePair
<1>3. Answers(t) /\ k' = trt_wait_q_wake_one_locked(k, Queues[o][1])
    BY <1>1, <1>2, WakeAnswers DEF WakeAndReturn
<1>4. /\ \A u \in Obj : LookOn(t, u, Receives) /\ LookOn(t, u, Sends) /\ DrainsOf(u)
      /\ KindsKnown'
    BY <1>3, AnswerLooks
<1>5. call[t].op \notin Sends
    BY <1>1 DEF Sends, Receives
<1>6. \A u \in Obj : (Usable(u)' <=> Usable(u)) /\ mq[u] \in Ring
    BY <1>1, LookTypes DEF Usable
<1>7. Attended(o)'
    <2>1. k.wq[readers(o)] # <<>> => Joins(o, Receives)
        BY <1>2, <1>3, CallJoins
    <2>2. t \notin Lookers(o, Sends)
        BY <1>5, LooksElsewhere
    <2>3. k.wq[readers(o)] # <<>> =>
              Cardinality(Lookers(o, Receives)) <= Cardinality(Lookers(o, Receives)')
        BY <1>4, <2>1, LookersCount
    <2>4. Cardinality(Lookers(o, Sends)) <= Cardinality(Lookers(o, Sends)')
        BY <1>4, <2>2, LookersCount
    <2>5. /\ Cardinality(Lookers(o, Receives)) \in Nat /\ Cardinality(Lookers(o, Receives)') \in Nat
          /\ Cardinality(Lookers(o, Sends)) \in Nat /\ Cardinality(Lookers(o, Sends)') \in Nat
          /\ msg_q_count_obj(mq[o]) \in Int
        BY <1>6, LookersShape, CountShape
    <2>6. k.wq[readers(o)] # <<>> =>
              msg_q_count_obj(mq'[o]) - msg_q_count_obj(mq[o])
                  <= Cardinality(Lookers(o, Receives)') - Cardinality(Lookers(o, Receives))
        BY <1>1, <2>3, <2>5
    <2>7. msg_q_count_obj(mq[o]) - msg_q_count_obj(mq'[o])
              <= Cardinality(Lookers(o, Sends)') - Cardinality(Lookers(o, Sends))
        BY <1>1, <2>4, <2>5
    <2> QED BY <1>1, <1>4, <1>6, <2>6, <2>7, LookTypes, AttendedStays
<1>8. ASSUME NEW u \in Obj \ {o} PROVE Attended(u)'
    <2>1. t \notin Lookers(u, Receives) \cup Lookers(u, Sends)
        BY <1>1, LooksElsewhere
    <2> QED BY <1>1, <1>4, <1>6, <2>1, LookTypes, AttendedSame
<1> QED BY <1>4, <1>7, <1>8

(* A call returns unserved from a full or an empty queue. *)
LEMMA RefusedAttends ==
    ASSUME LookInv, NEW t \in Task, NEW o \in Obj, Answers(t), MustWait(t, o), mq' = mq
    PROVE  KindsKnown' /\ \A u \in Obj : Attended(u)'
<1>1. /\ call[t].o = o /\ obj' = obj
      /\ \/ call[t].op \in Sends /\ msg_q_is_full_obj(mq[o])
         \/ call[t].op \in Receives /\ msg_q_is_empty_obj(mq[o])
    BY DEF MustWait, Operates, Answers
<1>2. /\ \A u \in Obj : LookOn(t, u, Receives) /\ LookOn(t, u, Sends) /\ DrainsOf(u)
      /\ KindsKnown'
    BY AnswerLooks
<1>3. \A u \in Obj : Usable(u)' <=> Usable(u)
    BY <1>1 DEF Usable
<1>4. Attended(o)'
    <2>1. CASE call[t].op \in Sends /\ msg_q_is_full_obj(mq[o])
        <3>1. t \notin Lookers(o, Receives)
            BY <2>1, LooksElsewhere DEF Sends, Receives
        <3> QED BY <1>2, <1>3, <2>1, <3>1, LookTypes, AttendedVain DEF DrainsOf
    <2>2. CASE call[t].op \in Receives /\ msg_q_is_empty_obj(mq[o])
        <3>1. t \notin Lookers(o, Sends)
            BY <2>2, LooksElsewhere DEF Sends, Receives
        <3> QED BY <1>2, <1>3, <2>2, <3>1, LookTypes, AttendedVain DEF DrainsOf
    <2> QED BY <1>1, <2>1, <2>2
<1>5. ASSUME NEW u \in Obj \ {o} PROVE Attended(u)'
    <2>1. t \notin Lookers(u, Receives) \cup Lookers(u, Sends)
        BY <1>1, LooksElsewhere
    <2> QED BY <1>2, <1>3, <2>1, LookTypes, AttendedSame
<1> QED BY <1>2, <1>4, <1>5

(* A call returns that was not to look. *)
LEMMA IdleAttends ==
    ASSUME LookInv, NEW t \in Task, Answers(t), mq' = mq,
           \A u \in Obj : Usable(u) => t \notin Lookers(u, Receives) \cup Lookers(u, Sends)
    PROVE  KindsKnown' /\ \A u \in Obj : Attended(u)'
<1>1. /\ \A u \in Obj : LookOn(t, u, Receives) /\ LookOn(t, u, Sends) /\ DrainsOf(u)
      /\ KindsKnown'
    BY AnswerLooks
<1>2. \A u \in Obj : Usable(u)' <=> Usable(u)
    BY DEF Usable, Answers
<1> QED BY <1>1, <1>2, LookTypes, AttendedSame

-----------------------------------------------------------------------------
(* Who works on an object after a step on the objects. *)
LEMMA LiveKept ==
    ASSUME LookInv, Quietly \/ \E h, result : Rouses(h, result),
           \A x \in Task : pc'[x] = "o_op" => pc[x] = "o_op" \/ k.state[x] = "RUNNING"
    PROVE  CallersLive'
<1> SUFFICES ASSUME NEW x \in Task, pc'[x] = "o_op" PROVE k'.state[x] # "DELETED"
    BY DEF CallersLive
<1>1. k.state[x] # "DELETED" /\ k.state \in [Task -> TaskState]
    BY LookTypes DEF CallersLive, Scheduler
<1>2. k'.state[x] \in {k.state[x], "READY"}
    BY <1>1 DEF Quietly, Rouses
<1> QED BY <1>1, <1>2

(* No operation is under way for a new call. *)
LEMMA LookupAttends ==
    ASSUME LookInv, NEW t \in Task, MsgCall(t)
    PROVE  CallersLive' /\ KindsKnown' /\ \A u \in Obj : Attended(u)'
<1>1. LookupStep /\ k' = k /\ mq' = mq /\ obj' = obj
    BY MsgCallLooks
<1>2. PICK s \in Task, v \in Obj, op \in ObjOps, d \in Delays \cup {0, None} : Lookup(s, v, op, d)
    BY <1>1 DEF LookupStep
<1>3. /\ Runs(s) /\ pc[s] = "run" /\ Goto(s, "o_op") /\ ret' = ret
      /\ call' = [call EXCEPT ![s] = [op |-> op, o |-> v, d |-> d, woken |-> FALSE]]
    BY <1>2 DEF Lookup, At
<1>4. /\ Alone(s) /\ pc'[s] = "o_op" /\ k.state[s] = "RUNNING"
      /\ call'[s].woken = FALSE /\ ~ObjWait(s)' /\ ~ObjWait(s)
    <2>1. Alone(s) /\ pc'[s] = "o_op"
        BY <1>3, LookTypes, GoesAlone
    <2>2. k.state[s] = "RUNNING"
        BY <1>3, LookTypes, WorkerRuns
    <2>3. call'[s].woken = FALSE
        BY <1>3, LookTypes
    <2> QED BY <1>3, <2>1, <2>2, <2>3 DEF ObjWait, YieldPc
<1>5. GrantsStay
    BY <1>2, LookTypes, LookupWaits
<1>6. ASSUME NEW u \in Obj, NEW ops PROVE LookOn(s, u, ops) /\ s \notin Lookers(u, ops)
    <2>1. LookOn(s, u, ops)
        BY <1>4, <1>5, RetriesMeans DEF LookOn, Alone, GrantsStay
    <2>2. ~Granted(s, u) /\ pc[s] # "o_op"
        BY <1>3, NotYetWaited
    <2> QED BY <2>1, <2>2, LookersShape, RetriesMeans
<1>7. \A u \in Obj : DrainsOf(u) /\ (Usable(u)' <=> Usable(u))
    BY <1>1 DEF DrainsOf, Usable
<1>8. \A u \in Obj : Attended(u)'
    BY <1>1, <1>6, <1>7, LookTypes, AttendedSame
<1>9. KindsKnown'
    <2>1. Leaves(k, k')
        BY <1>1 DEF Leaves
    <2>2. \A x \in Task : k.state[x] = "BLOCKED" => call'[x].op = call[x].op
        BY <1>4 DEF Alone
    <2> QED BY <2>1, <2>2, KindsKept
<1>10. CallersLive'
    BY <1>1, <1>4, LiveKept DEF Quietly, Alone
<1> QED BY <1>8, <1>9, <1>10

(* A call that was woken goes back to the test of its queue. *)
LEMMA RetryAttends ==
    ASSUME LookInv, NEW t \in Task, TriesAgain(t), k.wres[t] = "OBJECT", mq' = mq
    PROVE  KindsKnown' /\ \A u \in Obj : Attended(u)'
<1>1. /\ Runs(t) /\ pc[t] = "o_ret" /\ Goto(t, "o_op") /\ ret' = ret /\ k' = k /\ obj' = obj
      /\ call' = [call EXCEPT ![t].woken = TRUE]
    BY DEF TriesAgain, At
<1>2. call'[t].woken = TRUE /\ call'[t].op = call[t].op /\ call'[t].o = call[t].o
    BY <1>1, LookTypes DEF CallRecord
<1>3. Alone(t) /\ pc'[t] = "o_op" /\ k.state[t] = "RUNNING" /\ ~ObjWait(t)'
    <2>1. Alone(t) /\ pc'[t] = "o_op"
        <3>1. call' = [call EXCEPT ![t] = [call[t] EXCEPT !.woken = TRUE]]
            BY <1>1, LookTypes
        <3> QED BY <1>1, <3>1, LookTypes, GoesAlone
    <2>2. k.state[t] = "RUNNING"
        BY <1>1, LookTypes, WorkerRuns DEF ObjectPc
    <2> QED BY <2>1, <2>2 DEF ObjWait, YieldPc
<1>4. \A x \in Task, u \in Obj : Granted(x, u)' <=> x # t /\ Granted(x, u)
    BY <1>1, <1>3, QuietGrants DEF Quietly
<1>5. ASSUME NEW u \in Obj, NEW ops PROVE LookOn(None, u, ops) /\ None \notin Lookers(u, ops)
    <2>1. ASSUME NEW x \in Task, Retries(x, u, ops) PROVE Retries(x, u, ops)'
        <3>1. CASE x = t
            BY <1>2, <1>3, <2>1, <3>1, RetriesMeans
        <3>2. CASE x # t
            BY <1>3, <1>4, <2>1, <3>2, RetriesMeans DEF Alone
        <3> QED BY <3>1, <3>2
    <2>2. None \notin Task
        BY SchedAssumption
    <2> QED BY <2>1, <2>2, LookersShape DEF LookOn
<1>6. \A u \in Obj : DrainsOf(u) /\ (Usable(u)' <=> Usable(u))
    BY <1>1 DEF DrainsOf, Usable
<1>7. \A u \in Obj : Attended(u)'
    BY <1>5, <1>6, LookTypes, AttendedSame
<1>8. KindsKnown'
    <2>1. Leaves(k, k')
        BY <1>1 DEF Leaves
    <2>2. \A x \in Task : k.state[x] = "BLOCKED" => call'[x].op = call[x].op
        BY <1>3 DEF Alone
    <2> QED BY <2>1, <2>2, KindsKept
<1> QED BY <1>7, <1>8

(* A call blocks on the queue it found full, or empty. *)
LEMMA BlockAttends ==
    ASSUME LookInv, NEW t \in Task, NEW o \in Obj, msg_q_block(t, o)
    PROVE  CallersLive' /\ KindsKnown' /\ \A u \in Obj : Attended(u)'
<1>1. PICK timed \in BOOLEAN, i \in DOMAIN Queues[o] :
              /\ Queues[o][i] = IF call[t].op \in Sends THEN writers(o) ELSE readers(o)
              /\ call[t].o = o /\ Usable(o) /\ WaitsOn(t, Queues[o][i], timed)
    BY LookTypes, MsgBlocks
<1>2. PICK q \in WaitQ : q = Queues[o][i]
    BY QueuesType
<1>3. BlocksOrderly(k, k', t, {q}) /\ k' \in Scheduler
    BY <1>1, <1>2, LookTypes, WaitsOnFacts
<1>4. \A x \in Task, u \in Obj : Granted(x, u)' <=> Granted(x, u)
    BY <1>1, LookTypes, BlockGrants
<1>5. /\ Runs(t) /\ pc[t] = "o_op" /\ Goto(t, "y_chk") /\ ret' = [ret EXCEPT ![t] = "o_ret"]
      /\ call' = call /\ obj' = obj /\ mq' = mq
    BY <1>1 DEF WaitsOn, BlockOn, CallYield, objvars, msg_q_block
<1>6. Alone(t) /\ pc'[t] = "y_chk"
    BY <1>5, LookTypes, GoesAlone
<1>7. /\ \/ call[t].op \in Sends /\ msg_q_is_full_obj(mq[o])
         \/ call[t].op \in Receives /\ msg_q_is_empty_obj(mq[o])
    BY DEF msg_q_block, MustWait, Operates
<1>8. \A u \in Obj : LookOn(t, u, Receives) /\ LookOn(t, u, Sends)
    BY <1>4, <1>6, RetriesMeans DEF LookOn, Alone
<1>9. \A w \in WaitQ \ {q} : k'.wq[w] # <<>> => k.wq[w] # <<>>
    BY <1>3 DEF BlocksOrderly
<1>10. \A u \in Obj : Usable(u)' <=> Usable(u)
    BY <1>5 DEF Usable
<1>11. Attended(o)'
    <2>1. CASE call[t].op \in Sends /\ msg_q_is_full_obj(mq[o])
        <3>1. t \notin Lookers(o, Receives)
            BY <2>1, LooksElsewhere DEF Sends, Receives
        <3>2. readers(o) \in WaitQ \ {q}
            BY <1>1, <1>2, <2>1, QueuePair
        <3> QED BY <1>5, <1>8, <1>9, <1>10, <2>1, <3>1, <3>2, LookTypes, AttendedVain
    <2>2. CASE call[t].op \in Receives /\ msg_q_is_empty_obj(mq[o])
        <3>1. t \notin Lookers(o, Sends) /\ call[t].op \notin Sends
            BY <2>2, LooksElsewhere DEF Sends, Receives
        <3>2. writers(o) \in WaitQ \ {q}
            BY <1>1, <1>2, <3>1, QueuePair
        <3> QED BY <1>5, <1>8, <1>9, <1>10, <2>2, <3>1, <3>2, LookTypes, AttendedVain
    <2> QED BY <1>7, <2>1, <2>2
<1>12. ASSUME NEW u \in Obj \ {o} PROVE Attended(u)'
    <2>1. t \notin Lookers(u, Receives) \cup Lookers(u, Sends)
        BY <1>1, LooksElsewhere
    <2>2. readers(u) \in WaitQ \ {q} /\ writers(u) \in WaitQ \ {q}
        BY <1>1, <1>2, QueuePair
    <2>3. DrainsOf(u)
        BY <1>9, <2>2 DEF DrainsOf
    <2> QED BY <1>5, <1>8, <1>10, <2>1, <2>3, LookTypes, AttendedSame
<1>13. KindsKnown'
    <2> SUFFICES ASSUME NEW u \in Obj, NEW x \in Task
                 PROVE  /\ Contains(k'.wq[readers(u)], x) => call[x].op \in Receives
                        /\ Contains(k'.wq[writers(u)], x) => call[x].op \in Sends
        BY <1>5 DEF KindsKnown, readers, writers
    <2>1. CASE x = t
        <3>1. \A w \in WaitQ : Contains(k'.wq[w], t) <=> w = q
            BY <1>3 DEF BlocksOrderly
        <3>2. CASE call[t].op \in Sends
            <4>1. q = writers(o)
                BY <1>1, <1>2, <3>2
            <4>2. readers(u) # q
                BY <4>1, QueuePair
            <4> QED BY <2>1, <3>1, <3>2, <4>2, QueuePair
        <3>3. CASE call[t].op \notin Sends
            <4>1. q = readers(o) /\ call[t].op \in Receives
                BY <1>1, <1>2, <1>7, <3>3
            <4>2. writers(u) # q
                BY <4>1, QueuePair
            <4> QED BY <2>1, <3>1, <4>1, <4>2, QueuePair
        <3> QED BY <3>2, <3>3
    <2>2. CASE x # t
        <3>1. \A w \in WaitQ : Contains(k'.wq[w], x) <=> Contains(k.wq[w], x)
            BY <1>3, <2>2 DEF BlocksOrderly, SameTask
        <3> QED BY <3>1, QueuePair, LookTypes DEF KindsKnown
    <2> QED BY <2>1, <2>2
<1>14. CallersLive'
    <2> SUFFICES ASSUME NEW x \in Task, pc'[x] = "o_op" PROVE k'.state[x] # "DELETED"
        BY DEF CallersLive
    <2>1. x # t /\ pc[x] = "o_op"
        BY <1>6 DEF Alone
    <2>2. k'.state[x] = k.state[x]
        BY <1>3, <2>1 DEF BlocksOrderly, SameTask
    <2> QED BY <2>1, <2>2, LookTypes DEF CallersLive
<1> QED BY <1>11, <1>12, <1>13, <1>14

-----------------------------------------------------------------------------
(* What a destroyer leaves of the other calls. *)
LEMMA DestroyerAlone ==
    ASSUME LookInv, NEW t \in Task, DestroyStep(t)
    PROVE  /\ Wakes /\ Runs(t) /\ pc[t] \in ObjectPc /\ pc'[t] # "o_op"
           /\ \A u \in Obj, ops \in {Sends, Receives} : t \notin Lookers(u, ops)
           /\ \A x \in Task \ {t} :
                 /\ pc'[x] = pc[x] /\ call'[x].op = call[x].op
                 /\ \A u \in Obj : Usable(u)' /\ call[x].o = u => call'[x] = call[x]
<1>1. /\ pc \in [Task -> Pc] /\ call \in [Task -> CallRecord] /\ ObjectInv
      /\ obj \in [Obj -> [alloc : BOOLEAN, open : BOOLEAN, destroyed : BOOLEAN]]
    BY LookTypes
<1>2. ASSUME NEW o \in Obj, Destroy(t, o)
      PROVE  /\ Wakes /\ Runs(t) /\ pc[t] = "o_op" /\ call[t].op = "destroy"
             /\ pc'[t] # "o_op"
             /\ \A x \in Task \ {t} : pc'[x] = pc[x] /\ call'[x] = call[x]
    <2>1. /\ k' = k /\ Runs(t) /\ pc[t] = "o_op" /\ call[t].op = "destroy"
          /\ call' = [call EXCEPT ![t].woken = HasWaiters(o)]
        BY <1>2 DEF Destroy, Operates, At
    <2>2. PICK p \in {"o_wake", "o_close"} : Goto(t, p)
        BY <1>2 DEF Destroy
    <2> QED BY <1>1, <2>1, <2>2 DEF Goto, Wakes
<1>3. ASSUME WakeDestroyed(t)
      PROVE  /\ Wakes /\ Runs(t) /\ pc[t] = "o_wake" /\ pc'[t] # "o_op"
             /\ \A x \in Task \ {t} : pc'[x] = pc[x] /\ call'[x] = call[x]
    <2>1. /\ Runs(t) /\ pc[t] = "o_wake" /\ UNCHANGED objvars
          /\ Goto(t, "o_close") \/ pc' = pc
          /\ \E q \in WaitQ : k' = trt_wait_q_wake_one_result_locked(k, q, "DESTROYED")
        BY <1>1, <1>3, ServedQueue
    <2> QED BY <1>1, <2>1 DEF Goto, Wakes, WaitResult, objvars
<1>4. ASSUME Close(t)
      PROVE  /\ Wakes /\ Runs(t) /\ pc[t] = "o_close" /\ pc'[t] # "o_op"
             /\ \A x \in Task \ {t} : pc'[x] = pc[x] /\ call'[x] = call[x]
    BY <1>1, <1>4 DEF Close, At, Goto, Wakes
<1>5. ASSUME Free(t)
      PROVE  /\ Wakes /\ Runs(t) /\ pc[t] = "o_free" /\ pc'[t] # "o_op"
             /\ \A x \in Task \ {t} :
                   /\ pc'[x] = pc[x] /\ call'[x].op = call[x].op
                   /\ \A u \in Obj : Usable(u)' /\ call[x].o = u => call'[x] = call[x]
    <2>1. /\ k' = k /\ Runs(t) /\ pc[t] = "o_free" /\ obj' = [obj EXCEPT ![call[t].o] = NoObj]
          /\ Goto(t, "run") \/ Goto(t, "y_chk")
          /\ call' = [u \in Task |-> CASE u = t -> NoCall
                                    [] u # t /\ call[u].o = call[t].o -> [call[u] EXCEPT !.o = None]
                                    [] OTHER -> call[u]]
        BY <1>5 DEF Free, At, CallYield
    <2>2. \A x \in Task \ {t} :
              call'[x] = IF call[x].o = call[t].o THEN [call[x] EXCEPT !.o = None] ELSE call[x]
        BY <2>1
    <2>3. \A x \in Task : [call[x] EXCEPT !.o = None].op = call[x].op
        BY <1>1 DEF CallRecord
    <2>4. ASSUME NEW u \in Obj, Usable(u)' PROVE u # call[t].o
        BY <1>1, <2>1, <2>4 DEF Usable, NoObj
    <2>5. ASSUME NEW x \in Task \ {t} PROVE call'[x].op = call[x].op
        BY <2>2, <2>3
    <2>6. pc'[t] # "o_op" /\ \A x \in Task \ {t} : pc'[x] = pc[x]
        BY <1>1, <2>1 DEF Goto
    <2> QED BY <2>1, <2>2, <2>4, <2>5, <2>6 DEF Wakes
<1>6. /\ Wakes /\ Runs(t) /\ pc[t] \in {"o_op", "o_wake", "o_close", "o_free"} /\ pc'[t] # "o_op"
      /\ pc[t] = "o_op" => call[t].op = "destroy"
      /\ \A x \in Task \ {t} :
            /\ pc'[x] = pc[x] /\ call'[x].op = call[x].op
            /\ \A u \in Obj : Usable(u)' /\ call[x].o = u => call'[x] = call[x]
    BY <1>2, <1>3, <1>4, <1>5 DEF DestroyStep
<1>7. ASSUME NEW u \in Obj, NEW ops \in {Sends, Receives} PROVE ~Retries(t, u, ops)
    <2>1. ~Granted(t, u)
        BY <1>6, NotYetWaited
    <2> QED BY <1>6, <2>1, RetriesMeans DEF Sends, Receives
<1> QED BY <1>6, <1>7, LookersShape DEF ObjectPc

(* The other queues stay attended while one is destroyed. *)
LEMMA DestroyAttends ==
    ASSUME LookInv, NEW t \in Task, DestroyStep(t), mq' = mq
    PROVE  CallersLive' /\ KindsKnown' /\ \A u \in Obj : Attended(u)'
<1>1. /\ Wakes /\ Runs(t) /\ pc[t] \in ObjectPc /\ pc'[t] # "o_op"
      /\ \A u \in Obj, ops \in {Sends, Receives} : t \notin Lookers(u, ops)
      /\ \A x \in Task \ {t} :
            /\ pc'[x] = pc[x] /\ call'[x].op = call[x].op
            /\ \A u \in Obj : Usable(u)' /\ call[x].o = u => call'[x] = call[x]
    BY DestroyerAlone
<1>2. OthersWait
    BY LookTypes, DestroyGrants
<1>3. k.state[t] = "RUNNING" /\ k \in Scheduler /\ Orderly(k)
    BY <1>1, LookTypes, WorkerRuns
<1>4. Leaves(k, k') /\ (Quietly \/ \E h, result : Rouses(h, result))
    BY <1>1, <1>3, WakesLeave
<1>5. \A u \in Obj : DrainsOf(u)
    <2>1. Drains
        BY <1>1, <1>3, WakesTame DEF Drains
    <2> QED BY <2>1, QueuePair DEF Drains, DrainsOf
<1>6. ASSUME NEW u \in Obj, Usable(u)' PROVE Attended(u)'
    <2>1. ASSUME NEW x \in Task \ {t}, NEW ops, Retries(x, u, ops) PROVE Retries(x, u, ops)'
        <3>1. call[x].o = u
            BY <2>1, RetriesMeans
        <3>2. call'[x] = call[x] /\ pc'[x] = pc[x]
            BY <1>1, <1>6, <3>1
        <3>3. Granted(x, u)' <=> Granted(x, u)
            BY <1>2, <1>6 DEF OthersWait
        <3> QED BY <2>1, <3>2, <3>3, RetriesMeans
    <2>2. LookOn(t, u, Receives) /\ LookOn(t, u, Sends)
        BY <2>1 DEF LookOn
    <2>3. Usable(u)' => Usable(u)
        BY <1>2 DEF OthersWait
    <2> QED BY <1>1, <1>5, <2>2, <2>3, LookTypes, AttendedSame
<1>7. ASSUME NEW u \in Obj, ~Usable(u)' PROVE Attended(u)'
    BY <1>7 DEF Attended
<1>8. KindsKnown'
    <2>1. \A x \in Task : k.state[x] = "BLOCKED" => call'[x].op = call[x].op
        BY <1>1, <1>3
    <2> QED BY <1>4, <2>1, KindsKept
<1>9. CallersLive'
    BY <1>1, <1>4, LiveKept
<1> QED BY <1>6, <1>7, <1>8, <1>9

(* Every operation of a message queue. *)
LEMMA StepAttends ==
    ASSUME LookInv, NEW t \in Task, MsgStep(t)
    PROVE  CallersLive' /\ KindsKnown' /\ \A u \in Obj : Attended(u)'
<1> USE DEF taskvars, history
<1>1. ASSUME Answers(t) PROVE CallersLive'
    <2>1. /\ Alone(t) /\ pc'[t] = "run" /\ Wakes /\ k \in Scheduler /\ Orderly(k)
        BY <1>1, LookTypes, AnswerFacts DEF Answers
    <2>2. Quietly \/ \E h, result : Rouses(h, result)
        BY <2>1, WakesLeave
    <2> QED BY <2>1, <2>2, LiveKept DEF Alone
<1>2. ASSUME NEW o \in Obj, NEW m \in Msg, msg_q_send_obj(t, o, m) \/ msg_q_send_front_obj(t, o, m)
      PROVE  CallersLive' /\ KindsKnown' /\ \A u \in Obj : Attended(u)'
    <2>1. Answers(t)
        BY <1>2, QueuePair, WakeAnswers DEF msg_q_send_obj, msg_q_send_front_obj, Operates
    <2> QED BY <1>1, <1>2, <2>1, SendAttends
<1>3. ASSUME NEW o \in Obj, msg_q_recv_obj(t, o) \/ msg_q_peek_obj(t, o)
      PROVE  CallersLive' /\ KindsKnown' /\ \A u \in Obj : Attended(u)'
    <2>1. Answers(t)
        BY <1>3, QueuePair, WakeAnswers DEF msg_q_recv_obj, msg_q_peek_obj, Operates
    <2> QED BY <1>1, <1>3, <2>1, ReceiveAttends, PeekAttends
<1>4. ASSUME NEW o \in Obj, msg_q_busy(t, o) \/ msg_q_locked(t, o)
      PROVE  CallersLive' /\ KindsKnown' /\ \A u \in Obj : Attended(u)'
    <2>1. MustWait(t, o) /\ mq' = mq
        BY <1>4 DEF msg_q_busy, msg_q_locked
    <2>2. Answers(t)
        BY <1>4, <2>1 DEF msg_q_busy, msg_q_locked, MustWait, Operates, ReturnUnchanged, Answers, Wakes
    <2> QED BY <1>1, <2>1, <2>2, RefusedAttends
<1>5. ASSUME NEW o \in Obj, msg_q_block(t, o)
      PROVE  CallersLive' /\ KindsKnown' /\ \A u \in Obj : Attended(u)'
    BY <1>5, BlockAttends
<1>6. CASE msg_q_gone(t)
    <2>1. Answers(t) /\ mq' = mq
        BY <1>6 DEF msg_q_gone, OperateFreed, UseFreed, OperateGone, Operates, Answers, Wakes
    <2>2. \A u \in Obj : call[t].o = u => ~Usable(u)
        BY <1>6, ObjectAssumption DEF msg_q_gone, OperateFreed, OperateGone, Operates, Usable
    <2>3. \A u \in Obj : Usable(u) => t \notin Lookers(u, Receives) \cup Lookers(u, Sends)
        BY <2>2, LooksElsewhere
    <2> QED BY <1>1, <2>1, <2>3, IdleAttends
<1>7. CASE msg_q_wait_result(t) /\ k.wres[t] = "OBJECT"
    <2>1. TriesAgain(t) /\ mq' = mq
        BY <1>7 DEF msg_q_wait_result, TriesAgain
    <2>2. k.state[t] = "RUNNING" /\ k' = k
        BY <2>1, LookTypes, WorkerRuns DEF TriesAgain, At, ObjectPc
    <2>3. \A x \in Task : pc'[x] = "o_op" => pc[x] = "o_op" \/ x = t
        BY <2>1, LookTypes DEF TriesAgain, Goto
    <2>4. CallersLive'
        BY <2>2, <2>3, LiveKept DEF Quietly
    <2> QED BY <1>7, <2>1, <2>4, RetryAttends
<1>8. CASE msg_q_wait_result(t) /\ k.wres[t] # "OBJECT"
    <2>1. Answers(t) /\ mq' = mq /\ pc[t] = "o_ret"
        BY <1>8 DEF msg_q_wait_result, ReturnUnchanged, Answers, Wakes, At
    <2>2. \A u \in Obj : ~Granted(t, u)
        BY <1>8 DEF Granted
    <2>3. \A u \in Obj : t \notin Lookers(u, Receives) \cup Lookers(u, Sends)
        BY <2>1, <2>2, RetriesMeans, LookersShape
    <2> QED BY <1>1, <2>1, <2>3, IdleAttends
<1>9. CASE trt_msg_q_destroy(t) \/ \E o \in Obj : msg_q_destroy_obj(t, o)
    <2>1. DestroyStep(t) /\ mq' = mq
        BY <1>9 DEF trt_msg_q_destroy, msg_q_destroy_obj, DestroyStep
    <2> QED BY <2>1, DestroyAttends
<1> QED BY <1>2, <1>3, <1>4, <1>5, <1>6, <1>7, <1>8, <1>9 DEF MsgStep

-----------------------------------------------------------------------------
(* The kernel on its own. *)
LEMMA KernelAttends ==
    ASSUME LookInv, TasksStay, ObjectsOnly, [Next]_vars, UNCHANGED mqvars
    PROVE  CallersLive' /\ KindsKnown' /\ \A u \in Obj : Attended(u)'
<1>1. /\ WaitsInv /\ ObjectInv /\ KernelInv /\ Settled /\ TypeInv /\ AlwaysInv /\ NoWakeAll
      /\ k \in Scheduler /\ Orderly(k)
      /\ call' = call /\ obj' = obj /\ mq' = mq
    BY LookTypes DEF WaitsInv, KernelInv, ObjectInv, CallAt, NoWakeAll, mqvars, objvars
<1>2. GrantsStay
    BY <1>1, KernelGrants DEF mqvars
<1>3. Drains /\ \A x \in Task : pc'[x] \in CallPc => pc'[x] = pc[x]
    BY <1>1, KernelDrains
<1>4. /\ CallersLive'
      /\ \A x \in Task : pc[x] = "o_op" => pc'[x] = "o_op"
      /\ Leaves(k, k')
    <2>1. CASE ~Boot
        <3>1. KernelKeeps
            BY <1>1, <2>1, KernelRuns
        <3>2. NoneDeleted
            BY <1>1, <2>1, RunDeletesNone
        <3>3. \A x \in Task : pc'[x] = "o_op" => pc[x] = "o_op"
            BY <1>3 DEF CallPc
        <3>4. \A x \in Task : pc[x] = "o_op" => k.state[x] # "DELETED"
            BY LookTypes DEF CallersLive
        <3>5. CallersLive'
            BY <3>2, <3>3, <3>4 DEF CallersLive, NoneDeleted
        <3>6. \A x \in Task : pc[x] = "o_op" => pc'[x] = "o_op"
            BY <3>1, <3>4 DEF KernelKeeps, Stands, CallPc
        <3> QED BY <3>1, <3>5, <3>6 DEF KernelKeeps, HandsOff
    <2>2. CASE Boot
        <3>1. boot # "done"
            BY <2>2 DEF Boot, kernel_init, app_main_create, app_main_object, rtos_start
        <3>2. \A x \in Task : pc'[x] \in {"run"} \cup IdlePc
            BY <1>1, <2>2, BootWaits
        <3>3. \A x \in Task : pc[x] # "o_op"
            <4>1. \A x \in Task : pc'[x] \in {pc[x], "i_clean"}
                BY <1>1, <2>2 DEF TypeInv, TypeOK, Boot, kernel_init, app_main_create,
                    app_main_object, rtos_start
            <4>2. CASE boot = "kernel_init"
                <5>1. \A x \in Task : k.state[x] = "UNUSED"
                    BY <1>1, <4>2 DEF AlwaysInv, BootOK, sched_init
                <5> QED BY <1>1, <5>1 DEF AlwaysInv, UnusedAt, IdlePc
            <4>3. CASE boot # "kernel_init"
                <5>1. pc' = pc
                    BY <2>2, <4>3 DEF Boot, kernel_init, app_main_create, app_main_object, rtos_start
                <5> QED BY <3>2, <5>1 DEF IdlePc
            <4> QED BY <4>2, <4>3
        <3>4. \A w \in WaitQ : k'.wq[w] = <<>>
            BY <1>1, <2>2, <3>1, BootNoWaiter DEF KernelInv, BootLists, AlwaysInv
        <3>5. \A x : ~Contains(<<>>, x)
            BY DEF Contains
        <3> QED BY <3>2, <3>3, <3>4, <3>5 DEF CallersLive, IdlePc, Leaves
    <2> QED BY <2>1, <2>2
<1>5. ASSUME NEW u \in Obj, NEW ops PROVE LookOn(None, u, ops) /\ None \notin Lookers(u, ops)
    <2>1. ASSUME NEW x \in Task, Retries(x, u, ops) PROVE Retries(x, u, ops)'
        BY <1>1, <1>2, <1>4, <2>1, RetriesMeans DEF GrantsStay
    <2>2. None \notin Task
        BY SchedAssumption
    <2> QED BY <2>1, <2>2, LookersShape DEF LookOn
<1>6. \A u \in Obj : DrainsOf(u) /\ (Usable(u)' <=> Usable(u))
    BY <1>1, <1>3, QueuePair DEF Drains, DrainsOf, Usable
<1>7. \A u \in Obj : Attended(u)'
    BY <1>1, <1>5, <1>6, LookTypes, AttendedSame
<1>8. KindsKnown'
    BY <1>1, <1>4, KindsKept
<1> QED BY <1>4, <1>7, <1>8

(* What an interrupt handler does to the calls under way. *)
LEMMA IsrLooks ==
    ASSUME LookInv, NEW o \in Obj, NEW i \in {1, 2}, NEW op, FromIsr(op, o, Queues[o][i])
    PROVE  /\ \A u \in Obj : /\ LookOn(None, u, Receives) /\ LookOn(None, u, Sends)
                             /\ None \notin Lookers(u, Receives) \cup Lookers(u, Sends)
                             /\ DrainsOf(u) /\ (Usable(u)' <=> Usable(u))
           /\ k.wq[Queues[o][i]] # <<>> => Joins(o, IF i = 1 THEN Receives ELSE Sends)
           /\ CallersLive' /\ KindsKnown'
<1>1. PICK q \in WaitQ : q = Queues[o][i]
    BY QueuePair
<1>2. /\ IsrWakes /\ k' = trt_wait_q_wake_one_from_isr(k, q) /\ call' = call /\ obj' = obj
      /\ k \in Scheduler /\ Orderly(k) /\ KernelInv
    BY <1>1, LookTypes DEF FromIsr, IsrWakes, HandlerWakes, InTrap, objvars
<1>3. /\ \A w \in WaitQ : k'.wq[w] # <<>> => k.wq[w] # <<>>
      /\ \A x \in Task : pc'[x] = pc[x] \/ (pc[x] = "i_wfi" /\ pc'[x] = "i_clean")
    BY <1>2, HandlerFacts DEF IsrWakes
<1>4. Leaves(k, k') /\ (Quietly \/ \E h, result : Rouses(h, result))
    BY <1>2, WakesLeave
<1>5. "OBJECT" \in WaitResult \ {"NONE"}
    BY DEF WaitResult
<1>6. IF k.wq[q] = <<>> THEN Quietly ELSE Rouses(Head(k.wq[q]), "OBJECT")
    BY <1>2, <1>5, WakeRouses
<1>7. PICK h : h = Head(k.wq[q])
    OBVIOUS
<1>8. ASSUME k.wq[q] # <<>>
      PROVE  /\ Rouses(h, "OBJECT")
             /\ \A x \in Task, u \in Obj : Granted(x, u)' <=> Granted(x, u) \/ (x = h /\ Waited(h, u))
    <2>1. Rouses(h, "OBJECT")
        BY <1>6, <1>7, <1>8
    <2> QED BY <1>2, <2>1, LookTypes, IsrGrants
<1>9. \A x \in Task, u \in Obj : Granted(x, u) => Granted(x, u)'
    <2>1. CASE k.wq[q] = <<>>
        BY <1>2, <1>6, <2>1, LookTypes, IsrGrants DEF GrantsStay
    <2>2. CASE k.wq[q] # <<>>
        BY <1>8, <2>2
    <2> QED BY <2>1, <2>2
<1>10. ASSUME NEW u \in Obj, NEW ops PROVE LookOn(None, u, ops) /\ None \notin Lookers(u, ops)
    <2>1. ASSUME NEW x \in Task, Retries(x, u, ops) PROVE Retries(x, u, ops)'
        BY <1>2, <1>3, <1>9, <2>1, RetriesMeans
    <2>2. None \notin Task
        BY SchedAssumption
    <2> QED BY <2>1, <2>2, LookersShape DEF LookOn
<1>11. \A u \in Obj : DrainsOf(u) /\ (Usable(u)' <=> Usable(u))
    BY <1>2, <1>3, QueuePair DEF DrainsOf, Usable
<1>12. ASSUME k.wq[Queues[o][i]] # <<>> PROVE Joins(o, IF i = 1 THEN Receives ELSE Sends)
    <2>1. /\ Rouses(h, "OBJECT") /\ h \in Task
          /\ \A u \in Obj : Waited(h, u) => Granted(h, u)'
        BY <1>1, <1>8, <1>12 DEF Rouses
    <2> QED BY <1>1, <1>2, <1>7, <1>12, <2>1, WaiterJoins
<1>13. KindsKnown'
    BY <1>2, <1>4, KindsKept
<1>14. CallersLive'
    BY <1>3, <1>4, LiveKept
<1> QED BY <1>10, <1>11, <1>12, <1>13, <1>14

(* An interrupt handler sends, receives or peeks. *)
LEMMA IrqAttends ==
    ASSUME LookInv, MsgIrq
    PROVE  CallersLive' /\ KindsKnown' /\ \A u \in Obj : Attended(u)'
<1>1. ASSUME NEW o \in Obj, NEW i \in {1, 2}, NEW op, FromIsr(op, o, Queues[o][i]),
             NEW r \in Ring, mq' = [mq EXCEPT ![o] = r], r.qlen = mq[o].qlen,
             \/ i = 1 /\ msg_q_count_obj(r) = msg_q_count_obj(mq[o]) + 1
             \/ i = 2 /\ msg_q_count_obj(r) = msg_q_count_obj(mq[o]) - 1
             \/ r = mq[o]
      PROVE  CallersLive' /\ KindsKnown' /\ \A u \in Obj : Attended(u)'
    <2>1. /\ \A u \in Obj : /\ LookOn(None, u, Receives) /\ LookOn(None, u, Sends)
                            /\ None \notin Lookers(u, Receives) \cup Lookers(u, Sends)
                            /\ DrainsOf(u) /\ (Usable(u)' <=> Usable(u))
          /\ k.wq[Queues[o][i]] # <<>> => Joins(o, IF i = 1 THEN Receives ELSE Sends)
          /\ CallersLive' /\ KindsKnown'
        BY <1>1, IsrLooks
    <2>2. ASSUME NEW u \in Obj, mq'[u] = mq[u] PROVE Attended(u)'
        BY <2>1, <2>2, LookTypes, AttendedSame
    <2>3. mq'[o] = r /\ mq[o] \in Ring /\ \A u \in Obj \ {o} : mq'[u] = mq[u]
        BY <1>1, LookTypes
    <2>4. /\ Cardinality(Lookers(o, Receives)) \in Nat /\ Cardinality(Lookers(o, Receives)') \in Nat
          /\ Cardinality(Lookers(o, Sends)) \in Nat /\ Cardinality(Lookers(o, Sends)') \in Nat
          /\ Cardinality(Lookers(o, Receives)) <= Cardinality(Lookers(o, Receives)')
          /\ Cardinality(Lookers(o, Sends)) <= Cardinality(Lookers(o, Sends)')
          /\ msg_q_count_obj(mq[o]) \in Int /\ msg_q_count_obj(r) \in Int
        BY <2>1, <2>3, LookersCount, CountShape
    <2>5. CASE i = 1 /\ msg_q_count_obj(r) = msg_q_count_obj(mq[o]) + 1
        <3>1. k.wq[readers(o)] # <<>> =>
                  Cardinality(Lookers(o, Receives)) + 1 <= Cardinality(Lookers(o, Receives)')
            BY <2>1, <2>5, LookersCount, QueuePair
        <3>2. k.wq[readers(o)] # <<>> =>
                  msg_q_count_obj(r) - msg_q_count_obj(mq[o])
                      <= Cardinality(Lookers(o, Receives)') - Cardinality(Lookers(o, Receives))
            BY <2>4, <2>5, <3>1
        <3>3. msg_q_count_obj(mq[o]) - msg_q_count_obj(r)
                  <= Cardinality(Lookers(o, Sends)') - Cardinality(Lookers(o, Sends))
            BY <2>4, <2>5
        <3>4. Attended(o)'
            BY <1>1, <2>1, <2>3, <3>2, <3>3, LookTypes, AttendedStays
        <3> QED BY <2>1, <2>2, <2>3, <3>4
    <2>6. CASE i = 2 /\ msg_q_count_obj(r) = msg_q_count_obj(mq[o]) - 1
        <3>1. k.wq[writers(o)] # <<>> =>
                  Cardinality(Lookers(o, Sends)) + 1 <= Cardinality(Lookers(o, Sends)')
            BY <2>1, <2>6, LookersCount, QueuePair
        <3>2. k.wq[writers(o)] # <<>> =>
                  msg_q_count_obj(mq[o]) - msg_q_count_obj(r)
                      <= Cardinality(Lookers(o, Sends)') - Cardinality(Lookers(o, Sends))
            BY <2>4, <2>6, <3>1
        <3>3. msg_q_count_obj(r) - msg_q_count_obj(mq[o])
                  <= Cardinality(Lookers(o, Receives)') - Cardinality(Lookers(o, Receives))
            BY <2>4, <2>6
        <3>4. Attended(o)'
            BY <1>1, <2>1, <2>3, <3>2, <3>3, LookTypes, AttendedStays
        <3> QED BY <2>1, <2>2, <2>3, <3>4
    <2>7. CASE r = mq[o]
        BY <2>1, <2>2, <2>3, <2>7
    <2> QED BY <1>1, <2>5, <2>6, <2>7
<1>2. ASSUME NEW o \in Obj, NEW m \in Msg, trt_msg_q_send_from_isr(o, m)
      PROVE  CallersLive' /\ KindsKnown' /\ \A u \in Obj : Attended(u)'
    <2>1. mq[o] \in Ring
        BY LookTypes
    <2>2. PICK r \in Ring : /\ r = Put(mq[o], m) /\ r.qlen = mq[o].qlen
                            /\ msg_q_count_obj(r) = msg_q_count_obj(mq[o]) + 1
        BY <1>2, <2>1, PutAppends DEF trt_msg_q_send_from_isr
    <2>3. mq' = [mq EXCEPT ![o] = r] /\ FromIsr("isr_send", o, Queues[o][1])
        BY <1>2, <2>2, QueuePair DEF trt_msg_q_send_from_isr
    <2> QED BY <1>1, <2>2, <2>3
<1>3. ASSUME NEW o \in Obj, trt_msg_q_recv_from_isr(o)
      PROVE  CallersLive' /\ KindsKnown' /\ \A u \in Obj : Attended(u)'
    <2>1. mq[o] \in Ring
        BY LookTypes
    <2>2. PICK r \in Ring : /\ r = RemoveFront(mq[o]) /\ r.qlen = mq[o].qlen
                            /\ msg_q_count_obj(r) = msg_q_count_obj(mq[o]) - 1
        BY <1>3, <2>1, RemoveTakesHead DEF trt_msg_q_recv_from_isr
    <2>3. mq' = [mq EXCEPT ![o] = r] /\ FromIsr("isr_recv", o, Queues[o][2])
        BY <1>3, <2>2, QueuePair DEF trt_msg_q_recv_from_isr
    <2> QED BY <1>1, <2>2, <2>3
<1>4. ASSUME NEW o \in Obj, trt_msg_q_peek_from_isr(o)
      PROVE  CallersLive' /\ KindsKnown' /\ \A u \in Obj : Attended(u)'
    <2>1. PICK r \in Ring : r = mq[o]
        BY LookTypes
    <2>2. mq' = [mq EXCEPT ![o] = r] /\ FromIsr("isr_peek", o, Queues[o][1])
        BY <1>4, <2>1, QueuePair, LookTypes DEF trt_msg_q_peek_from_isr
    <2> QED BY <1>1, <2>1, <2>2
<1> QED BY <1>2, <1>3, <1>4 DEF MsgIrq

-----------------------------------------------------------------------------
(* Nobody waits in a new queue. *)
LEMMA CreateAttends ==
    ASSUME LookInv, NEW o \in Obj, NEW n \in QLen, trt_msg_q_create(o, n)
    PROVE  CallersLive' /\ KindsKnown' /\ \A u \in Obj : Attended(u)'
<1>1. /\ k' = k /\ pc' = pc /\ ret' = ret /\ call' = call /\ ~obj[o].alloc
      /\ \A u \in Obj \ {o} : obj'[u] = obj[u] /\ mq'[u] = mq[u]
    BY LookTypes DEF trt_msg_q_create, Create, vars
<1>2. Attended(o)'
    <2>1. k.wq[readers(o)] = <<>> /\ k.wq[writers(o)] = <<>>
        BY <1>1, LookTypes, QueuePair DEF ObjectInv, FreedHasNoWaiter, HasWaiters
    <2> QED BY <1>1, <2>1 DEF Attended, readers, writers
<1>3. ASSUME NEW u \in Obj \ {o} PROVE Attended(u)'
    <2>1. ASSUME NEW ops PROVE LookOn(None, u, ops) /\ None \notin Lookers(u, ops)
        <3>1. \A x \in Task : Granted(x, u)' <=> Granted(x, u)
            BY <1>1 DEF Granted, Waited
        <3>2. None \notin Task
            BY SchedAssumption
        <3> QED BY <1>1, <3>1, <3>2, RetriesMeans, LookersShape DEF LookOn
    <2>2. DrainsOf(u) /\ (Usable(u)' <=> Usable(u))
        BY <1>1 DEF DrainsOf, Usable
    <2> QED BY <1>1, <2>1, <2>2, LookTypes, AttendedSame
<1>4. KindsKnown'
    BY <1>1, LookTypes DEF KindsKnown, readers, writers
<1>5. CallersLive'
    BY <1>1, LookTypes DEF CallersLive
<1> QED BY <1>2, <1>3, <1>4, <1>5

(* Every step of the message queues. *)
LEMMA LookNext ==
    ASSUME LookInv, TasksStay, [MsgNext]_<<vars, mqvars>>
    PROVE  LookInv'
<1>1. ObjectsOnly /\ ObjectStep
    BY LookTypes, MsgGoes
<1>2. MsgInv'
    BY LookTypes, MsgObjects, MsgAbstract DEF MsgInv
<1>3. WaitsInv'
    BY <1>1, LookTypes, WaitNext
<1>4. CallersLive' /\ KindsKnown' /\ \A u \in Obj : Attended(u)'
    <2>1. ASSUME NEW t \in Task, MsgCall(t)
          PROVE  CallersLive' /\ KindsKnown' /\ \A u \in Obj : Attended(u)'
        BY <2>1, LookupAttends
    <2>2. ASSUME NEW t \in Task, MsgStep(t)
          PROVE  CallersLive' /\ KindsKnown' /\ \A u \in Obj : Attended(u)'
        BY <2>2, StepAttends
    <2>3. CASE MsgCreate
        BY <2>3, CreateAttends DEF MsgCreate
    <2>4. CASE MsgIrq
        BY <2>4, IrqAttends
    <2>5. CASE UNCHANGED <<vars, mqvars>> \/ (Next /\ UNCHANGED mqvars)
        BY <1>1, <2>5, KernelAttends
    <2> QED BY <2>1, <2>2, <2>3, <2>4, <2>5 DEF MsgNext
<1> QED BY <1>2, <1>3, <1>4 DEF LookInv

(* The invariant of the message queues of tasks that stay. *)
LEMMA LookAlways == MsgSpec /\ TasksStay => []LookInv
<1>1. MsgInit => LookInv
    <2> SUFFICES ASSUME MsgInit PROVE LookInv
        OBVIOUS
    <2>1. WaitsInv
        BY WaitInit DEF MsgInit
    <2>2. /\ \A o \in Obj : ~Usable(o)
          /\ \A x \in Task : pc[x] # "o_op"
          /\ \A w \in WaitQ : k.wq[w] = <<>>
        BY DEF MsgInit, ObjInit, Init, NoObj, Usable, sched_init
    <2>3. KindsKnown
        <3>1. \A x : ~Contains(<<>>, x)
            BY DEF Contains
        <3> QED BY <2>2, <3>1, QueuePair DEF KindsKnown
    <2>4. MsgInv
        <3>1. \A n \in QLen : msg_q_create_obj(n) \in Ring
            BY CreatedEmpty
        <3>2. mq \in [Obj -> Ring] /\ out \in {None} \cup Outcome
            BY <3>1 DEF MsgInit, Result
        <3> QED BY <2>1, <3>2 DEF MsgInv, MsgData, WaitsInv
    <2> QED BY <2>1, <2>2, <2>3, <2>4 DEF LookInv, Attended, CallersLive
<1>2. LookInv /\ TasksStay /\ [MsgNext]_<<vars, mqvars>> => LookInv'
    BY LookNext
<1> QED BY <1>1, <1>2, StayForEver, PTL DEF MsgSpec

(* No wake of msg_queue.c is lost between the tasks: while there is a      *)
(* message, or room, that a task waits for, a task has been woken that     *)
(* will look, as long as no task is deleted on its way.                    *)
THEOREM NobodyIsMissed == MsgSpec /\ TasksStay => []NobodyMissed
<1>1. LookInv => NobodyMissed
    <2> SUFFICES ASSUME LookInv PROVE NobodyMissed
        OBVIOUS
    <2>1. ASSUME NEW o \in Obj, NEW ops, 0 < Cardinality(Lookers(o, ops))
          PROVE  \E t \in Task : Retries(t, o, ops)
        <3>1. Lookers(o, ops) # {}
            BY <2>1, FS_EmptySet
        <3> QED BY <3>1 DEF Lookers
    <2>2. ASSUME NEW o \in Obj, Usable(o)
          PROVE  /\ k.wq[readers(o)] # <<>> /\ ~msg_q_is_empty_obj(mq[o]) =>
                       0 < Cardinality(Lookers(o, Receives))
                 /\ k.wq[writers(o)] # <<>> /\ ~msg_q_is_full_obj(mq[o]) =>
                       0 < Cardinality(Lookers(o, Sends))
        <3>1. mq[o] \in Ring /\ Attended(o)
            BY LookTypes
        <3>2. /\ msg_q_count_obj(mq[o]) \in 0 .. mq[o].qlen /\ mq[o].qlen \in Nat
              /\ msg_q_is_empty_obj(mq[o]) <=> msg_q_count_obj(mq[o]) = 0
              /\ msg_q_is_full_obj(mq[o]) <=> msg_q_count_obj(mq[o]) = mq[o].qlen
            BY <3>1, CountShape, RingShape
        <3>3. Cardinality(Lookers(o, Receives)) \in Nat /\ Cardinality(Lookers(o, Sends)) \in Nat
            BY LookersShape
        <3> QED BY <2>2, <3>1, <3>2, <3>3 DEF Attended
    <2> QED BY <2>1, <2>2 DEF NobodyMissed, NoReaderMissed, NoWriterMissed
<1> QED BY <1>1, LookAlways, PTL

=============================================================================
