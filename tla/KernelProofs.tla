---------------------------- MODULE KernelProofs ----------------------------
(***************************************************************************)
(* Proofs about Kernel, for any number of tasks, priorities and wait       *)
(* queues, any time slice, any width of the tick counter and any calls:    *)
(* the type of its variables, and what the operators of Sched and          *)
(* WaitQueue do to the lists of a scheduler record s.  Sound says that the *)
(* lists, the states of the TCBs and the ready mask agree; there is one    *)
(* lemma for each operator that changes one of them.  Several operators    *)
(* break the agreement for a moment: Sound has the set of TCBs and the set *)
(* of mask bits that are excused as parameters.                            *)
(*                                                                         *)
(* The second half is about the lists under every interleaving of tasks    *)
(* and traps: the inductive invariant ListInv of Kernel, one lemma for     *)
(* each group of actions, and the theorems that no task is lost, that the  *)
(* ready mask is right and that a tick leaves the CPU to the highest ready *)
(* priority.                                                               *)
(*                                                                         *)
(* The end prepares KernelAlways: sorted lists, Orderly, which is true of  *)
(* the lists even after a fault, and what the operators do to it.          *)
(***************************************************************************)
EXTENDS KernelProps, ListLemmas

-----------------------------------------------------------------------------
(* The operators of Sched and WaitQueue keep the scheduler in its type. *)

(* list_del_init of a TCB. *)
LEMMA StateListDelType ==
    ASSUME NEW s \in Scheduler, NEW t
    PROVE  StateListDel(s, t) \in Scheduler
<1>1. /\ [p \in Prio |-> RemoveFirst(s.ready[p], t)] \in [Prio -> Seq(Task)]
      /\ [q \in WaitQ |-> RemoveFirst(s.wq[q], t)] \in [WaitQ -> Seq(Task)]
      /\ RemoveFirst(s.deleted, t) \in Seq(Task)
    BY RemoveFirstShape DEF Scheduler
<1> QED BY <1>1 DEF StateListDel, Scheduler

(* A list insertion in front of the first of some places. *)
LEMMA InsertType ==
    ASSUME NEW S, NEW seq \in Seq(S), NEW t \in S, NEW O, O \subseteq DOMAIN seq
    PROVE  InsertBeforeFirst(seq, t, O) \in Seq(S)
<1>1. CASE O = {}
    BY <1>1 DEF InsertBeforeFirst
<1>2. CASE O # {}
    <2>1. O \subseteq Nat
        OBVIOUS
    <2>2. Min(O) \in 1..Len(seq)
        BY <1>2, <2>1, MinLeast
    <2> QED BY <1>2, <2>2, InsertAtShape DEF InsertBeforeFirst
<1> QED BY <1>1, <1>2

(* Linking a TCB into its ready list, and setting its bit. *)
LEMMA EnqueueType ==
    ASSUME NEW s \in Scheduler, NEW t \in Task
    PROVE  ready_link(s, t) \in Scheduler /\ sched_ready_enqueue(s, t) \in Scheduler
<1>1. s.prio[t] \in Prio /\ s.ready[s.prio[t]] \in Seq(Task)
    BY DEF Scheduler
<1>2. Append(s.ready[s.prio[t]], t) \in Seq(Task)
    BY <1>1
<1>3. ready_link(s, t) \in Scheduler
    BY <1>1, <1>2 DEF ready_link, Scheduler
<1> QED BY <1>1, <1>3 DEF sched_ready_enqueue, Scheduler

(* Unlinking a TCB, and clearing the bit of an empty list. *)
LEMMA RemoveType ==
    ASSUME NEW s \in Scheduler, NEW t \in Task
    PROVE  sched_ready_remove(s, t) \in Scheduler
<1> DEFINE r == StateListDel(s, t)
<1>1. r \in Scheduler
    BY StateListDelType
<1>2. sched_ready_remove(s, t) \in {s, r, [r EXCEPT !.mask = @ \ {s.prio[t]}]}
    BY DEF sched_ready_remove
<1> HIDE DEF r
<1>3. [r EXCEPT !.mask = @ \ {s.prio[t]}] \in Scheduler
    BY <1>1 DEF Scheduler
<1> QED BY <1>1, <1>2, <1>3

(* The timeout list. *)
LEMMA TimeoutType ==
    ASSUME NEW s \in Scheduler, NEW t \in Task
    PROVE  sched_timeout_remove(s, t) \in Scheduler /\ sched_timeout_insert(s, t) \in Scheduler
<1> DEFINE rest == RemoveFirst(s.timeout, t)
           later == {i \in DOMAIN rest : TickBefore(s.wakeup[t], s.wakeup[rest[i]])}
<1>1. rest \in Seq(Task)
    BY RemoveFirstShape DEF Scheduler
<1>2. InsertBeforeFirst(rest, t, later) \in Seq(Task)
    BY <1>1, InsertType
<1> HIDE DEF rest, later
<1>3. [s EXCEPT !.timeout = rest] \in Scheduler
    BY <1>1 DEF Scheduler
<1>4. [s EXCEPT !.timeout = InsertBeforeFirst(rest, t, later)] \in Scheduler
    BY <1>2 DEF Scheduler
<1> QED BY <1>3, <1>4 DEF sched_timeout_remove, sched_timeout_insert, rest, later

(* Deleting a task. *)
LEMMA MarkDeletedType ==
    ASSUME NEW s \in Scheduler, NEW t \in Task
    PROVE  sched_mark_deleted(s, t) \in Scheduler
<1> DEFINE u == IF s.state[t] = "READY" THEN sched_ready_remove(s, t) ELSE StateListDel(s, t)
           r == sched_timeout_remove(u, t)
<1>1. u \in Scheduler
    BY RemoveType, StateListDelType
<1>2. r \in Scheduler
    BY <1>1, TimeoutType
<1>3. sched_mark_deleted(s, t) = s
      \/ sched_mark_deleted(s, t) = [r EXCEPT !.timer[t] = FALSE, !.wres[t] = "NONE",
                                              !.state[t] = "DELETED", !.deleted = Append(@, t)]
    BY DEF sched_mark_deleted
<1> HIDE DEF r
<1>4. Append(r.deleted, t) \in Seq(Task)
    BY <1>2 DEF Scheduler
<1>5. [r EXCEPT !.timer[t] = FALSE, !.wres[t] = "NONE", !.state[t] = "DELETED",
                !.deleted = Append(@, t)] \in Scheduler
    BY <1>2, <1>4 DEF Scheduler, TaskState, WaitResult
<1> QED BY <1>3, <1>5

(* Blocking the current task on a wait queue. *)
LEMMA BlockCurrentType ==
    ASSUME NEW s \in Scheduler, NEW q \in WaitQ, s.current \in Task
    PROVE  sched_block_current(s, q) \in Scheduler
<1> DEFINE t == s.current
           b == [s EXCEPT !.state[t] = "BLOCKED", !.timer[t] = FALSE]
           r == sched_ready_remove(b, t)
           lower == {i \in DOMAIN r.wq[q] : r.prio[r.wq[q][i]] < r.prio[t]}
<1>1. b \in Scheduler
    BY DEF Scheduler, TaskState
<1>2. r \in Scheduler
    BY <1>1, RemoveType
<1>3. sched_block_current(s, q) = [r EXCEPT !.wq[q] = InsertBeforeFirst(r.wq[q], t, lower)]
    BY DEF sched_block_current
<1> HIDE DEF r
<1>4. InsertBeforeFirst(r.wq[q], t, lower) \in Seq(Task)
    BY <1>2, InsertType DEF Scheduler
<1> DEFINE i == InsertBeforeFirst(r.wq[q], t, lower)
<1> HIDE DEF i
<1>5. [r EXCEPT !.wq[q] = i] \in Scheduler
    BY <1>2, <1>4 DEF Scheduler, i
<1> QED BY <1>3, <1>5 DEF i

(* Waking the first waiter. *)
LEMMA WakeOneType ==
    ASSUME NEW s \in Scheduler, NEW q \in WaitQ, s.wq[q] # <<>>
    PROVE  Head(s.wq[q]) \in Task /\ sched_wake_one(s, q) \in Scheduler
<1> DEFINE t == Head(s.wq[q])
           u == sched_timeout_remove(s, t)
           r == [u EXCEPT !.wq[q] = Tail(@), !.timer[t] = FALSE, !.state[t] = "READY"]
<1>1. t \in Task /\ Tail(s.wq[q]) \in Seq(Task)
    BY DEF Scheduler
<1>2. u \in Scheduler /\ u.wq = s.wq
    BY <1>1, TimeoutType DEF sched_timeout_remove, Scheduler
<1>3. sched_wake_one(s, q) = sched_ready_enqueue(r, t)
    BY DEF sched_wake_one
<1> HIDE DEF t, u
<1>4. r \in Scheduler
    BY <1>1, <1>2 DEF Scheduler, TaskState
<1> HIDE DEF r
<1> QED BY <1>1, <1>3, <1>4, EnqueueType DEF t

(* Taking the first task of the highest priority. *)
LEMMA PopHighestType ==
    ASSUME NEW s \in Scheduler, s.mask # {}
    PROVE  sched_ready_pop_highest(s) \in Scheduler
<1> DEFINE p == Max(s.mask)
           t == Head(s.ready[p])
           m == IF Tail(s.ready[p]) = <<>> THEN s.mask \ {p} ELSE s.mask
<1>1. p \in Prio
    BY SchedAssumption, MaxGreatest DEF Scheduler, Prio
<1>2. CASE s.ready[p] = <<>>
    BY <1>2 DEF sched_ready_pop_highest, Scheduler
<1>3. CASE s.ready[p] # <<>>
    <2>1. t \in Task /\ Tail(s.ready[p]) \in Seq(Task) /\ m \in SUBSET Prio
        BY <1>1, <1>3 DEF Scheduler
    <2>2. sched_ready_pop_highest(s) = [s EXCEPT !.ready[p] = Tail(@), !.mask = m,
                                                 !.state[t] = "RUNNING", !.current = t]
        BY <1>3 DEF sched_ready_pop_highest
    <2> HIDE DEF p, t, m
    <2>3. [s EXCEPT !.ready[p] = Tail(@), !.mask = m, !.state[t] = "RUNNING",
                    !.current = t] \in Scheduler
        BY <1>1, <2>1 DEF Scheduler, TaskState
    <2> QED BY <2>2, <2>3
<1> QED BY <1>2, <1>3

(* The running task goes back to its list. *)
LEMMA RequeueType ==
    ASSUME NEW s \in Scheduler
    PROVE  Requeue(s) \in Scheduler
<1> DEFINE r == [s EXCEPT !.state[s.current] = "READY"]
<1>1. r \in Scheduler
    BY DEF Scheduler, TaskState
<1>2. s.current # None => s.current \in Task
    BY DEF Scheduler
<1>3. \/ Requeue(s) = s
      \/ Requeue(s) = r
      \/ s.current # None /\ Requeue(s) = sched_ready_enqueue(r, s.current)
    BY DEF Requeue
<1> HIDE DEF r
<1> QED BY <1>1, <1>2, <1>3, EnqueueType

(* Choosing the next task. *)
LEMMA PickNextType ==
    ASSUME NEW s \in Scheduler
    PROVE  sched_pick_next(s) \in Scheduler
<1> DEFINE r == Requeue(s)
<1>1. r \in Scheduler
    BY RequeueType
<1>2. r.idle # None => r.idle = Idle /\ Idle \in Task
    BY <1>1, SchedAssumption DEF Scheduler
<1>3. [r EXCEPT !.state[Idle] = "RUNNING", !.current = Idle] \in Scheduler
    BY <1>1, SchedAssumption DEF Scheduler, TaskState
<1> QED BY <1>1, <1>2, <1>3, PopHighestType DEF sched_pick_next

(* What do_trap does to the scheduler. *)
LEMMA TrapType ==
    ASSUME NEW s \in Scheduler
    PROVE  /\ tick_reschedule(s) \in Scheduler
           /\ sched_try_reschedule_from_trap(s) \in Scheduler
<1>1. sched_on_tick_slice(s) \in Nat
    BY DEF sched_on_tick_slice, Scheduler
<1>2. [s EXCEPT !.slice = sched_on_tick_slice(s)] \in Scheduler
    BY <1>1 DEF Scheduler
<1>3. \A r \in Scheduler : sched_set_pending(r) \in Scheduler
    BY DEF sched_set_pending, Scheduler
<1>4. [s EXCEPT !.pending = FALSE] \in Scheduler
    BY DEF Scheduler
<1>5. tick_reschedule(s) \in Scheduler
    BY <1>2, <1>3, PickNextType DEF tick_reschedule
<1>6. sched_try_reschedule_from_trap(s) \in Scheduler
    BY <1>4, PickNextType DEF sched_try_reschedule_from_trap
<1> QED BY <1>5, <1>6

(* One round of sched_wake_expired. *)
LEMMA WakeExpiredType ==
    ASSUME NEW s \in Scheduler, s.timeout # <<>>
    PROVE  sched_wake_expired_one(s) \in Scheduler
<1> DEFINE t == Head(s.timeout)
           r == [s EXCEPT !.timeout = Tail(@)]
           d == StateListDel(r, t)
           w == [d EXCEPT !.timer[t] = FALSE, !.wres[t] = "TIMEOUT", !.state[t] = "READY"]
<1>1. t \in Task /\ Tail(s.timeout) \in Seq(Task)
    BY DEF Scheduler
<1>2. r \in Scheduler
    BY <1>1 DEF Scheduler
<1>3. d \in Scheduler
    BY <1>2, StateListDelType
<1>4. sched_wake_expired_one(s) \in {r, sched_ready_enqueue(w, t)}
    BY DEF sched_wake_expired_one
<1> HIDE DEF d, t, r
<1>5. w \in Scheduler
    BY <1>1, <1>3 DEF Scheduler, TaskState, WaitResult
<1> HIDE DEF w
<1> QED BY <1>1, <1>2, <1>4, <1>5, EnqueueType

(* wait_queue.c *)
LEMMA WaitQueueType ==
    ASSUME NEW s \in Scheduler, NEW q \in WaitQ
    PROVE  /\ trt_wait_q_block_locked(s, q) \in Scheduler
           /\ \A d \in Nat, now \in Ticks :
                 trt_wait_q_block_ticks_locked(s, q, d, now) \in Scheduler
           /\ \A result \in WaitResult :
                 trt_wait_q_wake_one_result_locked(s, q, result) \in Scheduler
           /\ trt_wait_q_wake_one_from_isr(s, q) \in Scheduler
<1>1. \A r \in Scheduler : sched_set_pending(r) \in Scheduler
    BY DEF sched_set_pending, Scheduler
<1>2. trt_wait_q_block_locked(s, q) \in Scheduler
    <2>1. CASE BlockRefused(s)
        BY <1>1, <2>1 DEF trt_wait_q_block_locked
    <2>2. CASE ~BlockRefused(s)
        <3> DEFINE n == [s EXCEPT !.wres[s.current] = "NONE"]
        <3>1. n \in Scheduler /\ n.current \in Task
            BY <2>2 DEF BlockRefused, Scheduler, WaitResult
        <3> HIDE DEF n
        <3>2. sched_block_current(n, q) \in Scheduler
            BY <3>1, BlockCurrentType
        <3> QED BY <2>2, <3>2 DEF trt_wait_q_block_locked, n
    <2> QED BY <2>1, <2>2
<1>3. ASSUME NEW d \in Nat, NEW now \in Ticks
      PROVE  trt_wait_q_block_ticks_locked(s, q, d, now) \in Scheduler
    <2> DEFINE b == trt_wait_q_block_locked(s, q)
               t == s.current
               n == [b EXCEPT !.wakeup[t] = (now + d) % TickMod, !.timer[t] = TRUE,
                              !.wres[t] = "NONE"]
    <2>1. CASE BlockRefused(s)
        BY <1>2, <2>1 DEF trt_wait_q_block_ticks_locked
    <2>2. CASE ~BlockRefused(s)
        <3>1. (now + d) % TickMod \in Ticks
            BY SchedAssumption DEF Ticks
        <3>2. t \in Task
            BY <2>2 DEF BlockRefused, Scheduler
        <3>3. trt_wait_q_block_ticks_locked(s, q, d, now) = sched_timeout_insert(n, t)
            BY <2>2 DEF trt_wait_q_block_ticks_locked
        <3> HIDE DEF b, t
        <3>4. n \in Scheduler
            BY <1>2, <3>1, <3>2 DEF Scheduler, WaitResult, b
        <3> HIDE DEF n
        <3> QED BY <3>2, <3>3, <3>4, TimeoutType
    <2> QED BY <2>1, <2>2
<1>4. ASSUME NEW result \in WaitResult
      PROVE  trt_wait_q_wake_one_result_locked(s, q, result) \in Scheduler
    <2>1. CASE s.wq[q] = <<>>
        BY <2>1 DEF trt_wait_q_wake_one_result_locked
    <2>2. CASE s.wq[q] # <<>>
        <3> DEFINE r == sched_wake_one(s, q)
                   t == Head(s.wq[q])
        <3>1. r \in Scheduler /\ t \in Task
            BY <2>2, WakeOneType
        <3>2. trt_wait_q_wake_one_result_locked(s, q, result) =
                 [r EXCEPT !.pending = r.pending \/ sched_is_locked(s), !.wres[t] = result]
            BY <2>2 DEF trt_wait_q_wake_one_result_locked
        <3> HIDE DEF r, t
        <3> DEFINE b == r.pending \/ sched_is_locked(s)
        <3>3. b \in BOOLEAN
            OBVIOUS
        <3> HIDE DEF b
        <3>4. [r EXCEPT !.pending = b, !.wres[t] = result] \in Scheduler
            BY <3>1, <3>3 DEF Scheduler
        <3> QED BY <3>2, <3>4 DEF b
    <2> QED BY <2>1, <2>2
<1>5. trt_wait_q_wake_one_from_isr(s, q) \in Scheduler
    BY <1>1, <1>4 DEF trt_wait_q_wake_one_from_isr, trt_wait_q_wake_one_locked, WaitResult
<1> QED BY <1>2, <1>3, <1>4, <1>5

-----------------------------------------------------------------------------
(* The type invariant is inductive together with what is known of the      *)
(* locals of a task that is in the middle of a call.                       *)

LocalsOK ==
    \A t \in Task :
        /\ pc[t] \in CreatePc \cup {"d_obj", "i_free"} => reg[t].obj \in Task
        /\ pc[t] = "wq_all" => reg[t].q \in WaitQ

TypeInv == TypeOK /\ LocalsOK

(* A new TCB. *)
LEMMA InitTcbType ==
    ASSUME TypeInv, NEW u \in Task, NEW p \in Prio
    PROVE  InitTcb(k, u, p) \in Scheduler
<1>1. 0 \in Ticks
    BY SchedAssumption DEF Ticks
<1>2. k \in Scheduler
    BY DEF TypeInv, TypeOK
<1> QED BY <1>1, <1>2 DEF InitTcb, Scheduler, TaskState, WaitResult

(* The first free entry of the handle table. *)
LEMMA FreeHandleType == FreeHandles # {} => Min(FreeHandles) \in Handle
<1>1. FreeHandles \subseteq Nat
    BY DEF FreeHandles, Handle
<1> QED BY <1>1, MinLeast DEF FreeHandles

(* Booting. *)
LEMMA BootType ==
    ASSUME TypeInv, Boot
    PROVE  TypeInv'
<1> USE DEF TypeInv
<1>2. CASE kernel_init
    <2>1. sched_ready_enqueue(InitTcb(k, Idle, 0), Idle) \in Scheduler
        BY InitTcbType, EnqueueType, SchedAssumption DEF Prio
    <2>2. k' \in Scheduler
        BY <1>2, <2>1 DEF kernel_init, Scheduler
    <2>3. pc' = [pc EXCEPT ![Idle] = "i_clean"]
        BY <1>2 DEF kernel_init
    <2> QED BY <1>2, <2>2, <2>3 DEF kernel_init, TypeOK, LocalsOK, history, Pc, IdlePc, CreatePc
<1>3. ASSUME NEW p \in CreatePrio, app_main_create(p) PROVE TypeInv'
    <2>1. PICK u \in FreeSlots :
            LET s == sched_ready_enqueue(InitTcb(k, u, p), u)
            IN IF FreeHandles # {}
               THEN /\ k' = s
                    /\ hnd' = [hnd EXCEPT ![u] = Min(FreeHandles)]
                    /\ htab' = [htab EXCEPT ![Min(FreeHandles)] = u]
                    /\ task_count' = task_count + 1
               ELSE /\ k' = sched_mark_deleted(s, u)
                    /\ UNCHANGED taskvars
        BY <1>3 DEF app_main_create
    <2>2. u \in Task /\ p \in Prio
        BY KernelAssumption DEF FreeSlots
    <2> DEFINE s == sched_ready_enqueue(InitTcb(k, u, p), u)
    <2>3. s \in Scheduler
        BY <2>2, InitTcbType, EnqueueType
    <2>4. sched_mark_deleted(s, u) \in Scheduler
        BY <2>2, <2>3, MarkDeletedType
    <2>5. FreeHandles # {} => Min(FreeHandles) \in Handle
        BY FreeHandleType
    <2> HIDE DEF s
    <2>6. /\ k' \in Scheduler
          /\ hnd' \in [Task -> Handle \cup {0}]
          /\ htab' \in [Handle -> Task \cup {None, "object"}]
          /\ task_count' \in Nat
        BY <2>1, <2>2, <2>3, <2>4, <2>5 DEF TypeOK, taskvars, s
    <2> QED BY <1>3, <2>6 DEF app_main_create, TypeOK, LocalsOK, history
<1>4. CASE rtos_start
    <2>1. sched_pick_next(k) \in Scheduler
        BY PickNextType DEF TypeOK
    <2>2. k' \in Scheduler
        BY <1>4, <2>1 DEF rtos_start, Scheduler
    <2> QED BY <1>4, <2>2 DEF rtos_start, TypeOK, LocalsOK, taskvars, history
<1>5. CASE app_main_object
    <2>1. Min(FreeHandles) \in Handle
        BY <1>5, FreeHandleType DEF app_main_object
    <2>2. htab' \in [Handle -> Task \cup {None, "object"}]
        BY <1>5, <2>1 DEF app_main_object, TypeOK
    <2> QED BY <1>5, <2>2 DEF app_main_object, TypeOK, LocalsOK, history
<1> QED BY <1>2, <1>3, <1>4, <1>5 DEF Boot

(* Traps. *)
LEMMA TrapsType ==
    ASSUME TypeInv, Systick \/ Irq \/ TrapStep \/ CorruptLoop
    PROVE  TypeInv'
<1> USE DEF TypeInv
<1>1. ASSUME Interrupted
      PROVE  /\ pc' \in [Task -> Pc]
             /\ fault' \in SUBSET {"torn", "orphan", "uaf"}
             /\ \A t \in Task : pc'[t] = pc[t] \/ pc'[t] = "i_clean"
    BY <1>1 DEF Interrupted, TypeOK, Pc, IdlePc
<1>2. ASSUME NEW d \in 1..MaxJump, SysTick(d) PROVE TypeInv'
    <2>1. Interrupted
        BY <1>2 DEF SysTick
    <2>2. (tick + d) % TickMod \in Ticks
        BY SchedAssumption, KernelAssumption DEF Ticks, TypeOK
    <2>3. \A t \in Task : Monus(left[t], d) \in Nat
        BY KernelAssumption DEF Monus, TypeOK
    <2>4. TypeOK'
        BY <1>1, <1>2, <2>1, <2>2, <2>3 DEF SysTick, TypeOK, taskvars
    <2>5. LocalsOK'
        BY <1>1, <1>2, <2>1 DEF SysTick, LocalsOK, CreatePc
    <2> QED BY <2>4, <2>5
<1>3. CASE Irq
    <2>1. Interrupted /\ k' \in Scheduler
        BY <1>3, WaitQueueType DEF Irq, TypeOK
    <2>2. TypeOK'
        BY <1>1, <1>3, <2>1 DEF Irq, TypeOK, taskvars
    <2>3. LocalsOK'
        BY <1>1, <1>3, <2>1 DEF Irq, LocalsOK, CreatePc
    <2> QED BY <2>2, <2>3
<1>4. CASE sched_wake_expired
    <2>1. k' \in Scheduler
        BY <1>4, WakeExpiredType DEF sched_wake_expired, HeadExpired, TypeOK
    <2> QED BY <1>4, <2>1 DEF sched_wake_expired, TypeOK, LocalsOK, taskvars, history
<1>5. CASE TrapReturn
    <2>1. k' \in Scheduler
        BY <1>5, PickNextType, TrapType DEF TrapReturn, SwitchedFromTrap, TypeOK
    <2>2. owed' \in BOOLEAN
        <3>1. owed' = FALSE \/ owed' = (owed \/ (trap = "tick" /\ sched_on_tick_switch(k)))
            BY <1>5 DEF TrapReturn
        <3> QED BY <3>1
    <2> QED BY <1>5, <2>1, <2>2 DEF TrapReturn, TypeOK, LocalsOK, taskvars
<1>6. CASE CorruptLoop
    BY <1>6 DEF CorruptLoop, vars, TypeOK, LocalsOK
<1> QED BY <1>2, <1>3, <1>4, <1>5, <1>6 DEF Systick, TrapStep

(* Changing one of the locals. *)
LEMMA LocalsUpdate ==
    ASSUME NEW l \in Locals
    PROVE  /\ \A o \in Task \cup {None} : [l EXCEPT !.obj = o] \in Locals
           /\ \A q \in WaitQ \cup {None} : [l EXCEPT !.q = q] \in Locals
           /\ \A d \in Ticks : [l EXCEPT !.due = d] \in Locals
           /\ \A h \in Handle \cup {0}, o \in Task \cup {None} :
                 [l EXCEPT !.h = h, !.obj = o] \in Locals
BY DEF Locals

(* Changing the locals of one task. *)
LEMMA RegType ==
    ASSUME TypeOK, NEW t \in Task, NEW l \in Locals, reg' = [reg EXCEPT ![t] = l]
    PROVE  /\ reg' \in [Task -> Locals]
           /\ reg'[t] = l
           /\ \A u \in Task \ {t} : reg'[u] = reg[u]
BY DEF TypeOK

(* Moving the program counter of one task. *)
LEMMA GotoType ==
    ASSUME TypeInv, NEW t \in Task, NEW p \in Pc, Goto(t, p),
           \A u \in Task \ {t} : reg'[u] = reg[u],
           p \in CreatePc \cup {"d_obj", "i_free"} => reg'[t].obj \in Task,
           p = "wq_all" => reg'[t].q \in WaitQ
    PROVE  pc' \in [Task -> Pc] /\ LocalsOK'
BY DEF TypeInv, TypeOK, LocalsOK, Goto

(* Places at which nothing is assumed of the locals. *)
PlainPc == Pc \ (CreatePc \cup {"d_obj", "i_free", "wq_all"})

(* The application, the waits, the return points and the code of           *)
(* task_yield are such places.                                             *)
LEMMA PlainPlaces ==
    {"run", "sl_loop", "sl_crit", "wq_ret"} \cup RetPc \cup YieldPc \subseteq PlainPc
BY DEF PlainPc, RetPc, Pc, YieldPc, CreatePc, IdlePc, ObjectPc

(* Going to such a place. *)
LEMMA PlainGotoType ==
    ASSUME TypeInv, NEW t \in Task, NEW p \in PlainPc, Goto(t, p),
           \A u \in Task \ {t} : reg'[u] = reg[u]
    PROVE  pc' \in [Task -> Pc] /\ LocalsOK'
BY GotoType DEF PlainPc

(* Calling task_yield with a legal return point keeps the types.           *)
LEMMA CallYieldType ==
    ASSUME TypeInv, NEW t \in Task, NEW p \in RetPc, CallYield(t, p),
           \A u \in Task \ {t} : reg'[u] = reg[u]
    PROVE  pc' \in [Task -> Pc] /\ ret' \in [Task -> RetPc] /\ LocalsOK'
<1>1. "y_chk" \in PlainPc
    BY PlainPlaces DEF YieldPc
<1>2. pc' \in [Task -> Pc] /\ LocalsOK'
    BY <1>1, PlainGotoType DEF CallYield
<1> QED BY <1>2 DEF CallYield, TypeInv, TypeOK

(* task_yield. *)
LEMMA YieldType ==
    ASSUME TypeInv, NEW t \in Task, task_yield(t) \/ task_yield_step(t)
    PROVE  TypeInv'
<1> USE DEF TypeInv, taskvars, history
<1>1. k \in Scheduler /\ ret[t] \in RetPc /\ ret[t] \in PlainPc
    BY PlainPlaces DEF TypeOK
<1>2. CASE task_yield(t)
    <2>1. pc' \in [Task -> Pc] /\ ret' \in [Task -> RetPc] /\ LocalsOK'
        BY <1>2, CallYieldType DEF task_yield, RetPc
    <2> QED BY <1>2, <2>1 DEF task_yield, TypeOK
<1>3. CASE yield_check(t)
    <2>1. k' \in Scheduler
        <3>1. /\ sched_set_pending(k) \in Scheduler
              /\ [k EXCEPT !.state[t] = "READY"] \in Scheduler
            BY <1>1 DEF sched_set_pending, Scheduler, TaskState
        <3> QED BY <1>1, <1>3, <3>1 DEF yield_check
    <2>2. PICK p \in {ret[t], "y_enq", "ecall"} : Goto(t, p)
        BY <1>3 DEF yield_check
    <2>3. p \in PlainPc
        BY <1>1, <2>2, PlainPlaces DEF YieldPc
    <2>4. pc' \in [Task -> Pc] /\ LocalsOK'
        BY <1>3, <2>2, <2>3, PlainGotoType DEF yield_check
    <2> QED BY <1>3, <2>1, <2>4 DEF yield_check, TypeOK
<1>4. CASE yield_link(t)
    <2>1. k' \in Scheduler
        BY <1>1, <1>4, EnqueueType DEF yield_link
    <2>2. PICK p \in {"y_load", "ecall"} : Goto(t, p)
        BY <1>4 DEF yield_link
    <2>3. p \in PlainPc
        BY <2>2, PlainPlaces DEF YieldPc
    <2>4. pc' \in [Task -> Pc] /\ LocalsOK'
        BY <1>4, <2>2, <2>3, PlainGotoType DEF yield_link
    <2> QED BY <1>4, <2>1, <2>4 DEF yield_link, TypeOK
<1>5. CASE mask_load(t, "y_load", "y_store")
    <2>1. reg' \in [Task -> Locals] /\ \A u \in Task \ {t} : reg'[u] = reg[u]
        <3>1. k.mask \in SUBSET Prio
            BY <1>1 DEF Scheduler
        <3> QED BY <1>5, <3>1 DEF mask_load, TypeOK, Locals
    <2>2. pc' \in [Task -> Pc] /\ LocalsOK'
        BY <1>5, <2>1, PlainPlaces, PlainGotoType DEF mask_load, YieldPc
    <2> QED BY <1>5, <2>1, <2>2 DEF mask_load, TypeOK
<1>6. CASE mask_store(t, t, "y_store", "ecall")
    <2>1. reg' \in [Task -> Locals] /\ \A u \in Task \ {t} : reg'[u] = reg[u]
        BY <1>6 DEF mask_store, TypeOK, Locals
    <2>2. pc' \in [Task -> Pc] /\ LocalsOK'
        BY <1>6, <2>1, PlainPlaces, PlainGotoType DEF mask_store, YieldPc
    <2>3. k' \in Scheduler
        <3>1. reg[t].mask \cup {k.prio[t]} \in SUBSET Prio
            BY <1>1 DEF TypeOK, Locals, Scheduler
        <3>2. [k EXCEPT !.mask = reg[t].mask \cup {k.prio[t]}] \in Scheduler
            BY <1>1, <3>1 DEF Scheduler
        <3> QED BY <1>6, <3>2 DEF mask_store
    <2> QED BY <1>6, <2>1, <2>2, <2>3 DEF mask_store, TypeOK
<1>7. CASE arch_yield(t)
    <2>1. pc' \in [Task -> Pc] /\ LocalsOK'
        BY <1>1, <1>7, PlainGotoType DEF arch_yield
    <2> QED BY <1>7, <2>1 DEF arch_yield, TypeOK
<1> QED BY <1>2, <1>3, <1>4, <1>5, <1>6, <1>7 DEF task_yield_step

(* task_sleep, sched_lock and sched_unlock. *)
LEMMA SleepLockType ==
    ASSUME TypeInv, NEW t \in Task,
           \/ \E d \in Delays : task_sleep(t, d)
           \/ sleep_loop(t)
           \/ sleep_block(t)
           \/ sched_lock(t)
           \/ sched_unlock(t)
    PROVE  TypeInv'
<1> USE DEF TypeInv, taskvars, history
<1>1. k \in Scheduler /\ tick \in Ticks /\ 0 \in Ticks
    BY SchedAssumption DEF TypeOK, Ticks
<1>2. ASSUME NEW d \in Delays, task_sleep(t, d)
      PROVE  TypeInv'
    <2>1. (tick + d) % TickMod \in Ticks /\ d \in Nat
        BY <1>1, SchedAssumption, KernelAssumption DEF Ticks
    <2>2. CASE sched_is_locked(k)
        <3>0. k' = [k EXCEPT !.pending = TRUE]
            BY <1>2, <2>2 DEF task_sleep, sched_set_pending
        <3>1. k' \in Scheduler
            BY <1>1, <3>0 DEF Scheduler
        <3> QED BY <1>2, <2>2, <3>1 DEF task_sleep, TypeOK, LocalsOK
    <2>3. CASE ~sched_is_locked(k)
        <3> DEFINE due == (tick + d) % TickMod
        <3>a. reg' = [reg EXCEPT ![t].due = due] /\ left' = [left EXCEPT ![t] = d]
            BY <1>2, <2>3 DEF task_sleep
        <3>b. due \in Ticks
            BY <2>1
        <3> HIDE DEF due
        <3>c. left' \in [Task -> Nat]
            BY <2>1, <3>a DEF TypeOK
        <3>d. reg' \in [Task -> Locals] /\ \A u \in Task \ {t} : reg'[u] = reg[u]
            <4> DEFINE l == [reg[t] EXCEPT !.due = due]
            <4>1. l \in Locals
                BY <3>b, LocalsUpdate DEF TypeOK
            <4>2. reg' = [reg EXCEPT ![t] = l]
                BY <3>a
            <4> HIDE DEF l
            <4> QED BY <4>1, <4>2, RegType
        <3>1. /\ reg' \in [Task -> Locals]
              /\ left' \in [Task -> Nat]
              /\ \A u \in Task \ {t} : reg'[u] = reg[u]
            BY <3>c, <3>d
        <3>2. pc' \in [Task -> Pc] /\ LocalsOK'
            BY <1>2, <2>3, <3>1, PlainPlaces, PlainGotoType DEF task_sleep
        <3> QED BY <1>2, <2>3, <3>1, <3>2 DEF task_sleep, TypeOK
    <2> QED BY <2>2, <2>3
<1>3. ASSUME sleep_done(t)
      PROVE  /\ k' = k /\ ret' = ret
             /\ reg' \in [Task -> Locals]
             /\ pc' \in [Task -> Pc] /\ LocalsOK'
    <2>1. reg' \in [Task -> Locals] /\ \A u \in Task \ {t} : reg'[u] = reg[u]
        BY <1>1, <1>3 DEF sleep_done, TypeOK, Locals
    <2>2. pc' \in [Task -> Pc] /\ LocalsOK'
        BY <1>3, <2>1, PlainPlaces, PlainGotoType DEF sleep_done
    <2> QED BY <1>3, <2>1, <2>2 DEF sleep_done
<1>4. CASE sleep_loop(t)
    <2>1. CASE sleep_done(t)
        BY <1>3, <1>4, <2>1 DEF sleep_loop, TypeOK
    <2>2. CASE Goto(t, "sl_crit") /\ UNCHANGED <<k, ret, reg>>
        <3>1. pc' \in [Task -> Pc] /\ LocalsOK'
            BY <2>2, PlainPlaces, PlainGotoType
        <3> QED BY <1>4, <2>2, <3>1 DEF sleep_loop, TypeOK
    <2> QED BY <1>4, <2>1, <2>2 DEF sleep_loop
<1>5. CASE sleep_block(t)
    <2>1. CASE sleep_done(t)
        BY <1>3, <1>5, <2>1 DEF sleep_block, TypeOK
    <2>2. CASE ~timer_expired(tick, reg[t].due)
        <3> DEFINE b == [k EXCEPT !.wakeup[t] = reg[t].due, !.timer[t] = TRUE,
                                  !.wres[t] = "NONE", !.state[t] = "BLOCKED"]
        <3>1. b \in Scheduler
            BY <1>1 DEF TypeOK, Locals, Scheduler, TaskState, WaitResult
        <3>2. k' = sched_timeout_insert(sched_ready_remove(b, t), t)
            BY <1>5, <2>2 DEF sleep_block
        <3> HIDE DEF b
        <3>3. k' \in Scheduler
            BY <3>1, <3>2, RemoveType, TimeoutType
        <3>4. pc' \in [Task -> Pc] /\ ret' \in [Task -> RetPc] /\ LocalsOK'
            BY <1>5, <2>2, CallYieldType DEF sleep_block, RetPc
        <3> QED BY <1>5, <2>2, <3>3, <3>4 DEF sleep_block, TypeOK
    <2> QED BY <1>5, <2>1, <2>2 DEF sleep_block
<1>6. CASE sched_lock(t)
    <2>1. k' \in Scheduler
        <3> DEFINE n == k.lock + 1
        <3>1. n \in Nat
            BY <1>1 DEF Scheduler
        <3>2. k' = [k EXCEPT !.lock = n]
            BY <1>6 DEF sched_lock
        <3> HIDE DEF n
        <3>3. [k EXCEPT !.lock = n] \in Scheduler
            BY <1>1, <3>1 DEF Scheduler
        <3> QED BY <3>2, <3>3
    <2> QED BY <1>6, <2>1 DEF sched_lock, TypeOK, LocalsOK
<1>7. CASE sched_unlock(t)
    <2>1. k' \in Scheduler
        <3> DEFINE n == k.lock - 1
        <3>1. n \in Nat
            BY <1>1, <1>7 DEF sched_unlock, Scheduler
        <3>2. k' = [k EXCEPT !.lock = 0, !.pending = FALSE] \/ k' = [k EXCEPT !.lock = n]
            BY <1>7 DEF sched_unlock
        <3> HIDE DEF n
        <3>3. /\ [k EXCEPT !.lock = 0, !.pending = FALSE] \in Scheduler
              /\ [k EXCEPT !.lock = n] \in Scheduler
            BY <1>1, <3>1 DEF Scheduler
        <3> QED BY <3>2, <3>3
    <2>2. CASE CallYield(t, "run")
        <3>1. pc' \in [Task -> Pc] /\ ret' \in [Task -> RetPc] /\ LocalsOK'
            BY <1>7, <2>2, CallYieldType DEF sched_unlock, RetPc
        <3> QED BY <1>7, <2>1, <3>1 DEF sched_unlock, TypeOK
    <2>3. CASE UNCHANGED <<pc, ret>>
        BY <1>7, <2>1, <2>3 DEF sched_unlock, TypeOK, LocalsOK
    <2> QED BY <1>7, <2>2, <2>3 DEF sched_unlock
<1> QED BY <1>2, <1>4, <1>5, <1>6, <1>7

(* The calls of wait_queue.c. *)
LEMMA WaitType ==
    ASSUME TypeInv, NEW t \in Task,
           \/ \E q \in WaitQ : \/ trt_wait_q_block(t, q)
                               \/ \E d \in Delays : trt_wait_q_block_ticks(t, q, d)
                               \/ trt_wait_q_wake_one(t, q)
                               \/ trt_wait_q_wake_all(t, q)
           \/ wait_return(t)
           \/ wake_all_round(t, "wq_all", "OBJECT", "run")
    PROVE  TypeInv'
<1> USE DEF TypeInv, taskvars, history
<1>1. k \in Scheduler /\ tick \in Ticks
    BY DEF TypeOK
<1>2. ASSUME NEW q \in WaitQ, trt_wait_q_block(t, q)
      PROVE  TypeInv'
    <2>1. k' \in Scheduler
        BY <1>1, <1>2, WaitQueueType DEF trt_wait_q_block
    <2>2. CASE UNCHANGED <<pc, ret>>
        BY <1>2, <2>1, <2>2 DEF trt_wait_q_block, TypeOK, LocalsOK
    <2>3. CASE CallYield(t, "wq_ret")
        <3>1. pc' \in [Task -> Pc] /\ ret' \in [Task -> RetPc] /\ LocalsOK'
            BY <1>2, <2>3, CallYieldType DEF trt_wait_q_block, RetPc
        <3> QED BY <1>2, <2>1, <3>1 DEF trt_wait_q_block, TypeOK
    <2> QED BY <1>2, <2>2, <2>3 DEF trt_wait_q_block
<1>3. ASSUME NEW q \in WaitQ, NEW d \in Delays, trt_wait_q_block_ticks(t, q, d)
      PROVE  TypeInv'
    <2>1. d \in Nat
        BY KernelAssumption
    <2>2. k' \in Scheduler
        BY <1>1, <1>3, <2>1, WaitQueueType DEF trt_wait_q_block_ticks
    <2>3. CASE UNCHANGED <<pc, ret, left>>
        BY <1>3, <2>2, <2>3 DEF trt_wait_q_block_ticks, TypeOK, LocalsOK
    <2>4. CASE CallYield(t, "wq_ret") /\ left' = [left EXCEPT ![t] = d]
        <3>1. pc' \in [Task -> Pc] /\ ret' \in [Task -> RetPc] /\ LocalsOK'
            BY <1>3, <2>4, CallYieldType DEF trt_wait_q_block_ticks, RetPc
        <3> QED BY <1>3, <2>1, <2>2, <2>4, <3>1 DEF trt_wait_q_block_ticks, TypeOK
    <2> QED BY <1>3, <2>3, <2>4 DEF trt_wait_q_block_ticks
<1>4. ASSUME NEW q \in WaitQ, trt_wait_q_wake_one(t, q)
      PROVE  TypeInv'
    <2>1. k' \in Scheduler
        BY <1>1, <1>4, WaitQueueType
        DEF trt_wait_q_wake_one, trt_wait_q_wake_one_locked, WaitResult
    <2> QED BY <1>4, <2>1 DEF trt_wait_q_wake_one, TypeOK, LocalsOK
<1>5. ASSUME NEW q \in WaitQ, trt_wait_q_wake_all(t, q)
      PROVE  TypeInv'
    <2>1. /\ reg' \in [Task -> Locals]
          /\ \A u \in Task \ {t} : reg'[u] = reg[u]
          /\ reg'[t].q \in WaitQ
        <3> DEFINE l == [reg[t] EXCEPT !.q = q]
        <3>1. reg[t] \in Locals
            BY DEF TypeOK
        <3>2. l \in Locals /\ l.q = q
            BY <3>1, LocalsUpdate DEF Locals
        <3>3. reg' = [reg EXCEPT ![t] = l]
            BY <1>5 DEF trt_wait_q_wake_all
        <3> HIDE DEF l
        <3> QED BY <3>2, <3>3, RegType
    <2>2. "wq_all" \in Pc /\ "wq_all" \notin CreatePc \cup {"d_obj", "i_free"}
        BY DEF Pc, CreatePc
    <2>3. pc' \in [Task -> Pc] /\ LocalsOK'
        BY <1>5, <2>1, <2>2, GotoType DEF trt_wait_q_wake_all
    <2> QED BY <1>5, <2>1, <2>3 DEF trt_wait_q_wake_all, TypeOK
<1>6. CASE wait_return(t)
    <2>1. pc' \in [Task -> Pc] /\ LocalsOK'
        BY <1>6, PlainPlaces, PlainGotoType DEF wait_return
    <2> QED BY <1>6, <2>1 DEF wait_return, TypeOK
<1>7. CASE wake_all_round(t, "wq_all", "OBJECT", "run")
    <2>1. reg[t].q \in WaitQ
        BY <1>7 DEF wake_all_round, At, LocalsOK
    <2>2. k' \in Scheduler
        BY <1>1, <1>7, <2>1, WaitQueueType DEF wake_all_round, WaitResult
    <2>3. CASE UNCHANGED <<pc, reg>>
        BY <1>7, <2>2, <2>3 DEF wake_all_round, TypeOK, LocalsOK
    <2>4. CASE Goto(t, "run") /\ reg' = [reg EXCEPT ![t].q = None]
        <3>1. reg' \in [Task -> Locals] /\ \A u \in Task \ {t} : reg'[u] = reg[u]
            BY <2>4 DEF TypeOK, Locals
        <3>2. pc' \in [Task -> Pc] /\ LocalsOK'
            BY <2>4, <3>1, PlainPlaces, PlainGotoType
        <3> QED BY <1>7, <2>2, <3>1, <3>2 DEF wake_all_round, TypeOK
    <2> QED BY <1>7, <2>3, <2>4 DEF wake_all_round
<1> QED BY <1>2, <1>3, <1>4, <1>5, <1>6, <1>7

(* task_delete_obj. *)
LEMMA DeleteObjType ==
    ASSUME TypeInv, NEW t \in Task, NEW u \in Task, NEW p \in PlainPc, task_delete_obj(t, u, p)
    PROVE  /\ k' \in Scheduler
           /\ task_count' \in Nat
           /\ hnd' \in [Task -> Handle \cup {0}]
           /\ htab' \in [Handle -> Task \cup {None, "object"}]
           /\ fault' \in SUBSET {"torn", "orphan", "uaf"}
           /\ \E r \in PlainPc : Goto(t, r)
<1> USE DEF TypeInv, taskvars
<1>1. k \in Scheduler
    BY DEF TypeOK
<1>2. CASE k.state[u] = "UNUSED"
    BY <1>1, <1>2 DEF task_delete_obj, TypeOK
<1>3. CASE /\ k.state[u] # "UNUSED"
           /\ u = Idle \/ k.state[u] = "DELETED" \/ (u = t /\ sched_is_locked(k))
    BY <1>1, <1>3 DEF task_delete_obj, TypeOK
<1>4. CASE /\ k.state[u] # "UNUSED"
           /\ ~(u = Idle \/ k.state[u] = "DELETED" \/ (u = t /\ sched_is_locked(k)))
    <2>1. /\ CloseHandle(u)
          /\ k' = [sched_mark_deleted(k, u) EXCEPT !.pending = @ \/ u = t]
          /\ task_count' = IF task_count = 0 THEN 0 ELSE task_count - 1
          /\ fault' = IF Unpublished(t, u) THEN fault \cup {"orphan"} ELSE fault
          /\ Goto(t, IF u = t THEN "ecall" ELSE p)
        BY <1>4 DEF task_delete_obj
    <2> DEFINE m == sched_mark_deleted(k, u)
               b == m.pending \/ u = t
    <2>2. m \in Scheduler
        BY <1>1, MarkDeletedType
    <2>3. b \in BOOLEAN
        OBVIOUS
    <2>4. k' = [m EXCEPT !.pending = b]
        BY <2>1
    <2> HIDE DEF m, b
    <2>5. [m EXCEPT !.pending = b] \in Scheduler
        BY <2>2, <2>3 DEF Scheduler
    <2>6. hnd' \in [Task -> Handle \cup {0}] /\ htab' \in [Handle -> Task \cup {None, "object"}]
        BY <2>1 DEF CloseHandle, TypeOK
    <2>7. "ecall" \in PlainPc
        BY PlainPlaces DEF YieldPc
    <2>8. \E r \in PlainPc : Goto(t, r)
        BY <2>1, <2>7
    <2>9. task_count' \in Nat
        BY <2>1 DEF TypeOK
    <2>10. fault' \in SUBSET {"torn", "orphan", "uaf"}
        BY <2>1 DEF TypeOK
    <2> QED BY <2>4, <2>5, <2>6, <2>8, <2>9, <2>10
<1> QED BY <1>2, <1>3, <1>4

(* task_delete and task_exit. *)
LEMMA DeleteType ==
    ASSUME TypeInv, NEW t \in Task,
           (\E h \in Handle : task_delete(t, h)) \/ task_delete_found(t) \/ task_exit(t)
    PROVE  TypeInv'
<1> USE DEF TypeInv, taskvars, history
<1>1. "run" \in PlainPc /\ "ecall" \in PlainPc
    BY PlainPlaces DEF YieldPc
<1>2. \A u : LoopIfSelf(t, u) => ret' \in [Task -> RetPc]
    BY DEF LoopIfSelf, TypeOK, RetPc
<1>3. ASSUME NEW h \in Handle, task_delete(t, h)
      PROVE  TypeInv'
    <2>1. htab[h] \in Task
        BY <1>3 DEF task_delete, TypeOK
    <2>2. /\ reg' \in [Task -> Locals]
          /\ \A u \in Task \ {t} : reg'[u] = reg[u]
          /\ reg'[t].obj \in Task
        BY <1>3, <2>1 DEF task_delete, TypeOK, Locals
    <2>3. pc' \in [Task -> Pc] /\ LocalsOK'
        BY <1>3, <2>2, GotoType DEF task_delete, Pc
    <2> QED BY <1>3, <2>2, <2>3 DEF task_delete, TypeOK
<1>4. CASE task_delete_found(t)
    <2>1. reg[t].obj \in Task
        BY <1>4 DEF task_delete_found, At, LocalsOK
    <2>2. /\ k' \in Scheduler
          /\ task_count' \in Nat
          /\ hnd' \in [Task -> Handle \cup {0}]
          /\ htab' \in [Handle -> Task \cup {None, "object"}]
          /\ fault' \in SUBSET {"torn", "orphan", "uaf"}
          /\ \E r \in PlainPc : Goto(t, r)
        BY <1>1, <1>4, <2>1, DeleteObjType DEF task_delete_found
    <2>3. reg' \in [Task -> Locals] /\ \A u \in Task \ {t} : reg'[u] = reg[u]
        <3> DEFINE l == [reg[t] EXCEPT !.obj = None]
        <3>1. l \in Locals
            BY LocalsUpdate DEF TypeOK
        <3>2. reg' = [reg EXCEPT ![t] = l]
            BY <1>4 DEF task_delete_found
        <3> HIDE DEF l
        <3> QED BY <3>1, <3>2, RegType
    <2>4. pc' \in [Task -> Pc] /\ LocalsOK'
        BY <2>2, <2>3, PlainGotoType
    <2>5. ret' \in [Task -> RetPc]
        BY <1>2, <1>4 DEF task_delete_found
    <2> QED BY <1>4, <2>2, <2>3, <2>4, <2>5 DEF task_delete_found, TypeOK
<1>5. CASE task_exit(t)
    <2>1. /\ k' \in Scheduler
          /\ task_count' \in Nat
          /\ hnd' \in [Task -> Handle \cup {0}]
          /\ htab' \in [Handle -> Task \cup {None, "object"}]
          /\ fault' \in SUBSET {"torn", "orphan", "uaf"}
          /\ \E r \in PlainPc : Goto(t, r)
        BY <1>1, <1>5, DeleteObjType DEF task_exit
    <2>2. pc' \in [Task -> Pc] /\ LocalsOK'
        BY <1>5, <2>1, PlainGotoType DEF task_exit
    <2>3. ret' \in [Task -> RetPc]
        BY <1>2, <1>5 DEF task_exit
    <2> QED BY <1>5, <2>1, <2>2, <2>3 DEF task_exit, TypeOK
<1> QED BY <1>3, <1>4, <1>5

(* task_create. *)
LEMMA CreateType ==
    ASSUME TypeInv, NEW t \in Task,
           (\E p \in CreatePrio : task_create(t, p)) \/ task_create_step(t)
    PROVE  TypeInv'
<1> USE DEF TypeInv, taskvars, history
<1>1. k \in Scheduler
    BY DEF TypeOK
<1>2. CreatePc \subseteq Pc /\ "wq_all" \notin CreatePc
    BY DEF Pc, CreatePc
<1>3. \A p \in CreatePc : At(t, p) => reg[t].obj \in Task
    BY DEF At, LocalsOK
<1>4. ASSUME NEW p \in CreatePrio, task_create(t, p)
      PROVE  TypeInv'
    <2>1. PICK u \in FreeSlots : /\ k' = InitTcb(k, u, p)
                                 /\ hnd' = [hnd EXCEPT ![u] = 0]
                                 /\ reg' = [reg EXCEPT ![t].obj = u]
        BY <1>4 DEF task_create
    <2>2. u \in Task /\ p \in Prio
        BY KernelAssumption DEF FreeSlots
    <2>3. k' \in Scheduler
        BY <2>1, <2>2, InitTcbType
    <2>4. /\ reg' \in [Task -> Locals]
          /\ \A v \in Task \ {t} : reg'[v] = reg[v]
          /\ reg'[t].obj \in Task
        BY <2>1, <2>2 DEF TypeOK, Locals
    <2>5. pc' \in [Task -> Pc] /\ LocalsOK'
        BY <1>2, <1>4, <2>4, GotoType DEF task_create, CreatePc
    <2> QED BY <1>4, <2>1, <2>3, <2>4, <2>5 DEF task_create, TypeOK
<1>5. CASE create_link(t)
    <2>1. reg[t].obj \in Task
        BY <1>3, <1>5 DEF create_link, CreatePc
    <2>2. k' \in Scheduler
        BY <1>1, <1>5, <2>1, EnqueueType DEF create_link
    <2>3. PICK p \in {"c_cload", "c_load"} : Goto(t, p)
        BY <1>5 DEF create_link
    <2>4. p \in CreatePc
        BY <2>3 DEF CreatePc
    <2>5. pc' \in [Task -> Pc] /\ LocalsOK'
        BY <1>2, <1>5, <2>1, <2>3, <2>4, GotoType DEF create_link
    <2> QED BY <1>5, <2>2, <2>5 DEF create_link, TypeOK
<1>6. CASE mask_load(t, "c_load", "c_store")
    <2>1. reg[t].obj \in Task
        BY <1>3, <1>6 DEF mask_load, CreatePc
    <2>2. k.mask \in SUBSET Prio
        BY <1>1 DEF Scheduler
    <2>3. /\ reg' \in [Task -> Locals]
          /\ \A u \in Task \ {t} : reg'[u] = reg[u]
          /\ reg'[t].obj \in Task
        BY <1>6, <2>1, <2>2 DEF mask_load, TypeOK, Locals
    <2>4. pc' \in [Task -> Pc] /\ LocalsOK'
        BY <1>2, <1>6, <2>3, GotoType DEF mask_load, CreatePc
    <2> QED BY <1>6, <2>3, <2>4 DEF mask_load, TypeOK
<1>7. CASE mask_store(t, reg[t].obj, "c_store", "c_cload")
    <2>1. reg[t].obj \in Task
        BY <1>3, <1>7 DEF mask_store, CreatePc
    <2>2. /\ reg' \in [Task -> Locals]
          /\ \A u \in Task \ {t} : reg'[u] = reg[u]
          /\ reg'[t].obj \in Task
        BY <1>7, <2>1 DEF mask_store, TypeOK, Locals
    <2>3. pc' \in [Task -> Pc] /\ LocalsOK'
        BY <1>2, <1>7, <2>2, GotoType DEF mask_store, CreatePc
    <2>4. k' \in Scheduler
        <3> DEFINE m == reg[t].mask \cup {k.prio[reg[t].obj]}
        <3>1. m \in SUBSET Prio
            BY <1>1, <2>1 DEF TypeOK, Locals, Scheduler
        <3>2. k' = [k EXCEPT !.mask = m]
            BY <1>7 DEF mask_store
        <3> HIDE DEF m
        <3>3. [k EXCEPT !.mask = m] \in Scheduler
            BY <1>1, <3>1 DEF Scheduler
        <3> QED BY <3>2, <3>3
    <2> QED BY <1>7, <2>2, <2>3, <2>4 DEF mask_store, TypeOK
<1>8. CASE count_load(t)
    <2>1. reg[t].obj \in Task
        BY <1>3, <1>8 DEF count_load, CreatePc
    <2>2. /\ reg' \in [Task -> Locals]
          /\ \A u \in Task \ {t} : reg'[u] = reg[u]
          /\ reg'[t].obj \in Task
        BY <1>8, <2>1 DEF count_load, TypeOK, Locals
    <2>3. pc' \in [Task -> Pc] /\ LocalsOK'
        BY <1>2, <1>8, <2>2, GotoType DEF count_load, CreatePc
    <2> QED BY <1>8, <2>2, <2>3 DEF count_load, TypeOK
<1>9. CASE count_store(t)
    <2>1. reg[t].obj \in Task
        BY <1>3, <1>9 DEF count_store, CreatePc
    <2>2. /\ reg' \in [Task -> Locals]
          /\ \A u \in Task \ {t} : reg'[u] = reg[u]
          /\ reg'[t].obj \in Task
          /\ task_count' \in Nat
        BY <1>9, <2>1 DEF count_store, TypeOK, Locals
    <2>3. pc' \in [Task -> Pc] /\ LocalsOK'
        BY <1>2, <1>9, <2>2, GotoType DEF count_store, CreatePc
    <2> QED BY <1>9, <2>2, <2>3 DEF count_store, TypeOK
<1>10. CASE create_handle(t)
    <2>1. reg[t].obj \in Task
        BY <1>3, <1>10 DEF create_handle, CreatePc
    <2>2. CASE FreeHandles # {}
        <3>1. Min(FreeHandles) \in Handle
            BY <2>2, FreeHandleType
        <3>2. /\ reg' \in [Task -> Locals]
              /\ \A u \in Task \ {t} : reg'[u] = reg[u]
              /\ reg'[t].obj \in Task
              /\ htab' \in [Handle -> Task \cup {None, "object"}]
            BY <1>10, <2>1, <2>2, <3>1 DEF create_handle, TypeOK, Locals
        <3>3. pc' \in [Task -> Pc] /\ LocalsOK'
            BY <1>2, <1>10, <2>2, <3>2, GotoType DEF create_handle, CreatePc
        <3> QED BY <1>10, <3>2, <3>3 DEF create_handle, TypeOK
    <2>3. CASE FreeHandles = {}
        <3>1. pc' \in [Task -> Pc] /\ LocalsOK'
            BY <1>2, <1>10, <2>1, <2>3, GotoType DEF create_handle, CreatePc
        <3> QED BY <1>10, <2>3, <3>1 DEF create_handle, TypeOK
    <2> QED BY <2>2, <2>3
<1>11. CASE create_set_handle(t)
    <2>1. /\ reg' \in [Task -> Locals]
          /\ \A u \in Task \ {t} : reg'[u] = reg[u]
        <3> DEFINE l == [reg[t] EXCEPT !.h = 0, !.obj = None]
        <3>1. l \in Locals
            BY LocalsUpdate DEF TypeOK
        <3>2. reg' = [reg EXCEPT ![t] = l]
            BY <1>11 DEF create_set_handle
        <3> HIDE DEF l
        <3> QED BY <3>1, <3>2, RegType
    <2>2. pc' \in [Task -> Pc] /\ LocalsOK'
        BY <1>11, <2>1, PlainPlaces, PlainGotoType DEF create_set_handle
    <2>3. hnd' \in [Task -> Handle \cup {0}] /\ fault' \in SUBSET {"torn", "orphan", "uaf"}
        BY <1>11 DEF create_set_handle, TypeOK, Locals
    <2> QED BY <1>11, <2>1, <2>2, <2>3 DEF create_set_handle, TypeOK
<1>12. CASE create_fail(t)
    <2>1. reg[t].obj \in Task
        BY <1>3, <1>12 DEF create_fail, CreatePc
    <2>2. /\ k' \in Scheduler
          /\ task_count' \in Nat
          /\ hnd' \in [Task -> Handle \cup {0}]
          /\ htab' \in [Handle -> Task \cup {None, "object"}]
          /\ fault' \in SUBSET {"torn", "orphan", "uaf"}
          /\ \E r \in PlainPc : Goto(t, r)
        BY <1>12, <2>1, PlainPlaces, DeleteObjType DEF create_fail
    <2>3. reg' \in [Task -> Locals] /\ \A u \in Task \ {t} : reg'[u] = reg[u]
        BY <1>12 DEF create_fail, TypeOK, Locals
    <2>4. pc' \in [Task -> Pc] /\ LocalsOK'
        BY <2>2, <2>3, PlainGotoType
    <2> QED BY <1>12, <2>2, <2>3, <2>4 DEF create_fail, TypeOK
<1> QED BY <1>4, <1>5, <1>6, <1>7, <1>8, <1>9, <1>10, <1>11, <1>12 DEF task_create_step

(* idle_task. *)
LEMMA IdleType ==
    ASSUME TypeInv, idle_step
    PROVE  TypeInv'
<1> USE DEF TypeInv, taskvars, history
<1>1. k \in Scheduler /\ Idle \in Task
    BY SchedAssumption DEF TypeOK
<1>2. {"i_clean", "i_en", "i_wfi"} \subseteq PlainPc
    BY DEF PlainPc, Pc, CreatePc, IdlePc
<1>3. CASE cleanup_pop
    <2>1. CASE k.deleted = <<>>
        <3>1. pc' \in [Task -> Pc] /\ LocalsOK'
            BY <1>1, <1>2, <1>3, <2>1, PlainGotoType DEF cleanup_pop
        <3> QED BY <1>3, <2>1, <3>1 DEF cleanup_pop, TypeOK
    <2>2. CASE k.deleted # <<>>
        <3>1. Head(k.deleted) \in Task /\ Tail(k.deleted) \in Seq(Task)
            BY <1>1, <2>2 DEF Scheduler
        <3>2. [k EXCEPT !.deleted = Tail(@)] \in Scheduler
            BY <1>1, <3>1 DEF Scheduler
        <3>3. /\ reg' \in [Task -> Locals]
              /\ \A u \in Task \ {Idle} : reg'[u] = reg[u]
              /\ reg'[Idle].obj \in Task
            <4> DEFINE o == Head(k.deleted)
                       l == [reg[Idle] EXCEPT !.obj = o]
            <4>1. o \in Task
                BY <3>1
            <4>2. reg' = [reg EXCEPT ![Idle] = l]
                BY <1>3, <2>2 DEF cleanup_pop
            <4> HIDE DEF o
            <4>3. reg[Idle] \in Locals
                BY <1>1 DEF TypeOK
            <4>4. l \in Locals /\ l.obj = o
                BY <4>1, <4>3, LocalsUpdate DEF Locals
            <4> HIDE DEF l
            <4> QED BY <1>1, <4>1, <4>2, <4>4, RegType
        <3>4. "i_free" \in Pc
            BY DEF Pc, IdlePc
        <3>5. pc' \in [Task -> Pc] /\ LocalsOK'
            BY <1>1, <1>3, <2>2, <3>3, <3>4, GotoType DEF cleanup_pop
        <3> QED BY <1>3, <2>2, <3>2, <3>3, <3>5 DEF cleanup_pop, TypeOK
    <2> QED BY <2>1, <2>2
<1>4. CASE cleanup_free
    <2> DEFINE u == reg[Idle].obj
    <2>1. u \in Task
        BY <1>1, <1>4 DEF cleanup_free, At, LocalsOK
    <2>2. 0 \in Ticks /\ 0 \in Prio
        BY SchedAssumption DEF Ticks, Prio
    <2>3. NoReg \in Locals
        BY <2>2 DEF NoReg, Locals
    <2> HIDE DEF u
    <2>4. [k EXCEPT !.state[u] = "UNUSED", !.prio[u] = 0, !.wakeup[u] = 0] \in Scheduler
        BY <1>1, <2>1, <2>2 DEF Scheduler, TaskState
    <2>5. /\ k' \in Scheduler
          /\ pc' = [pc EXCEPT ![Idle] = "i_clean", ![u] = "run"]
          /\ ret' = [ret EXCEPT ![u] = "run"]
          /\ reg' = [reg EXCEPT ![Idle] = NoReg, ![u] = NoReg]
          /\ left' = [left EXCEPT ![u] = 0]
        BY <1>4, <2>4 DEF cleanup_free, u
    <2>6. pc' \in [Task -> Pc] /\ ret' \in [Task -> RetPc] /\ left' \in [Task -> Nat]
        BY <2>5 DEF TypeOK, Pc, IdlePc, RetPc
    <2>7. reg' \in [Task -> Locals]
        BY <2>3, <2>5 DEF TypeOK
    <2>8. LocalsOK'
        BY <2>1, <2>5 DEF LocalsOK, TypeOK, CreatePc
    <2> QED BY <1>4, <2>5, <2>6, <2>7, <2>8 DEF cleanup_free, TypeOK
<1>5. CASE idle_enable
    <2>1. pc' \in [Task -> Pc] /\ LocalsOK'
        BY <1>1, <1>2, <1>5, PlainGotoType DEF idle_enable
    <2> QED BY <1>5, <2>1 DEF idle_enable, TypeOK
<1> QED BY <1>3, <1>4, <1>5 DEF idle_step

(* The initial state. *)
LEMMA InitType == Init => TypeInv
<1> SUFFICES ASSUME Init PROVE TypeInv
    OBVIOUS
<1>1. 0 \in Ticks /\ 0 \in Prio
    BY SchedAssumption DEF Ticks, Prio
<1>2. sched_init \in Scheduler
    BY <1>1, SchedAssumption DEF sched_init, Scheduler, TaskState, WaitResult
<1>3. NoReg \in Locals
    BY <1>1 DEF NoReg, Locals
<1>4. "run" \in Pc /\ "run" \in RetPc
    BY DEF Pc, RetPc
<1>5. TypeOK
    BY <1>1, <1>2, <1>3, <1>4 DEF Init, TypeOK
<1>6. LocalsOK
    BY DEF Init, LocalsOK, CreatePc
<1> QED BY <1>5, <1>6 DEF TypeInv

(* Every step keeps the type. *)
LEMMA NextType == TypeInv /\ [Next]_vars => TypeInv'
<1> SUFFICES ASSUME TypeInv, [Next]_vars PROVE TypeInv'
    OBVIOUS
<1>1. CASE UNCHANGED vars
    BY <1>1 DEF vars, TypeInv, TypeOK, LocalsOK
<1>2. ASSUME NEW t \in Task, AppCall(t) PROVE TypeInv'
    BY <1>2, YieldType, SleepLockType, WaitType, DeleteType, CreateType DEF AppCall
<1>3. ASSUME NEW t \in Task, KernelStep(t) PROVE TypeInv'
    BY <1>3, YieldType, SleepLockType, WaitType, DeleteType, CreateType, IdleType DEF KernelStep
<1> QED BY <1>1, <1>2, <1>3, BootType, TrapsType DEF Next

(* Every variable stays in its type, whatever calls, traps and faults      *)
(* come: in particular current_task, the lists and the locals of a call    *)
(* that was interrupted always name a TCB where the code dereferences one. *)
THEOREM TypeCorrect == Spec => []TypeOK
<1>1. TypeInv => TypeOK
    BY DEF TypeInv
<1> QED BY <1>1, InitType, NextType, PTL DEF Spec

-----------------------------------------------------------------------------
(* The lists.  What ties the TCBs to the lists, the lists to the mask and  *)
(* the current task to its state, of a scheduler record s.                 *)

(* No TCB is on a list twice. *)
NoRepeats(s) ==
    /\ \A p \in Prio : Distinct(s.ready[p])
    /\ \A q \in WaitQ : Distinct(s.wq[q])
    /\ Distinct(s.deleted)
    /\ Distinct(s.timeout)

(* The lists t is on are those of its state. *)
Placed(s, t) ==
    /\ \A p \in Prio : Contains(s.ready[p], t) => s.state[t] = "READY" /\ s.prio[t] = p
    /\ \A q \in WaitQ : Contains(s.wq[q], t) => s.state[t] = "BLOCKED"
    /\ \A q, r \in WaitQ : Contains(s.wq[q], t) /\ Contains(s.wq[r], t) => q = r
    /\ Contains(s.deleted, t) => s.state[t] = "DELETED"
    /\ Contains(s.timeout, t) <=> s.timer[t] /\ s.state[t] = "BLOCKED"
    /\ s.state[t] = "BLOCKED" => OnWaitQ(s, t) \/ Contains(s.timeout, t)

(* The mask has the bits of the lists that are not empty; those in B may   *)
(* be missing.                                                             *)
MaskSound(s, B) ==
    \A p \in Prio : /\ p \in s.mask => s.ready[p] # <<>>
                    /\ s.ready[p] # <<>> => p \in s.mask \/ p \in B

(* A ready task is on its list, those in U may be on none. *)
Queued(s, U) == \A t \in Task : s.state[t] = "READY" => OnReady(s, t) \/ t \in U

OneRuns(s) == \A t \in Task : s.state[t] = "RUNNING" => t = s.current

Sound(s, U, B) ==
    /\ NoRepeats(s)
    /\ \A t \in Task : Placed(s, t)
    /\ MaskSound(s, B)
    /\ Queued(s, U)
    /\ OneRuns(s)
    /\ ~s.corrupt

(* What most operators leave alone: everything but the lists, the mask,    *)
(* the request to reschedule and the fields of one TCB.                    *)
Frame(s, r) ==
    /\ r.current = s.current
    /\ r.idle = s.idle
    /\ r.started = s.started
    /\ r.lock = s.lock
    /\ r.prio = s.prio
    /\ r.corrupt = s.corrupt

(* t is on the same lists with the same fields. *)
SameTask(s, r, t) ==
    /\ \A p \in Prio : Contains(r.ready[p], t) <=> Contains(s.ready[p], t)
    /\ \A q \in WaitQ : Contains(r.wq[q], t) <=> Contains(s.wq[q], t)
    /\ Contains(r.deleted, t) <=> Contains(s.deleted, t)
    /\ Contains(r.timeout, t) <=> Contains(s.timeout, t)
    /\ r.state[t] = s.state[t]
    /\ r.prio[t] = s.prio[t]
    /\ r.timer[t] = s.timer[t]
    /\ r.wres[t] = s.wres[t]

(* A task that is on the same lists is as well placed as before. *)
LEMMA SamePlace ==
    ASSUME NEW s, NEW r, NEW t, SameTask(s, r, t)
    PROVE  /\ Placed(s, t) => Placed(r, t)
           /\ OnReady(r, t) <=> OnReady(s, t)
           /\ OnStateList(r, t) <=> OnStateList(s, t)
BY DEF SameTask, Placed, OnReady, OnWaitQ, OnStateList

(* One task moves, the others stay where they are. *)
LEMMA OneMoves ==
    ASSUME NEW s, NEW r, NEW t \in Task, NEW U, NEW V, NEW B, NEW C,
           Sound(s, U, B),
           NoRepeats(r),
           \A x \in Task \ {t} : SameTask(s, r, x),
           Placed(r, t),
           MaskSound(r, C),
           U \ {t} \subseteq V,
           r.state[t] = "READY" => OnReady(r, t) \/ t \in V,
           r.state[t] = "RUNNING" => t = r.current,
           \A x \in Task \ {t} : s.state[x] = "RUNNING" => x = r.current,
           ~r.corrupt
    PROVE  Sound(r, V, C)
<1>1. \A x \in Task : Placed(r, x)
    BY SamePlace DEF Sound
<1>2. Queued(r, V)
    <2> SUFFICES ASSUME NEW x \in Task, r.state[x] = "READY"
                 PROVE  OnReady(r, x) \/ x \in V
        BY DEF Queued
    <2>1. CASE x # t
        <3>1. SameTask(s, r, x)
            BY <2>1
        <3>2. s.state[x] = "READY" /\ (OnReady(r, x) <=> OnReady(s, x))
            BY <3>1, SamePlace DEF SameTask
        <3>3. OnReady(s, x) \/ x \in U
            BY <3>2 DEF Sound, Queued
        <3> QED BY <2>1, <3>2, <3>3
    <2> QED BY <2>1
<1>3. OneRuns(r)
    BY DEF OneRuns, SameTask
<1> QED BY <1>1, <1>2, <1>3 DEF Sound

-----------------------------------------------------------------------------
(* Taking a TCB off the lists. *)
LEMMA DelEffect ==
    ASSUME NEW s \in Scheduler, NEW t \in Task, NoRepeats(s),
           NEW r, r = StateListDel(s, t)
    PROVE  /\ r \in Scheduler
           /\ NoRepeats(r)
           /\ Frame(s, r)
           /\ r.state = s.state /\ r.timer = s.timer /\ r.wres = s.wres /\ r.mask = s.mask
           /\ r.timeout = s.timeout
           /\ ~OnStateList(r, t)
           /\ \A x \in Task \ {t} : SameTask(s, r, x)
           /\ \A p \in Prio : ~Contains(s.ready[p], t) => r.ready[p] = s.ready[p]
<1>1. r \in Scheduler
    BY StateListDelType
<1>2. /\ r.ready = [p \in Prio |-> RemoveFirst(s.ready[p], t)]
      /\ r.wq = [q \in WaitQ |-> RemoveFirst(s.wq[q], t)]
      /\ r.deleted = RemoveFirst(s.deleted, t)
    BY DEF StateListDel, Scheduler
<1>3. /\ Frame(s, r)
      /\ r.state = s.state /\ r.timer = s.timer /\ r.wres = s.wres
      /\ r.mask = s.mask /\ r.timeout = s.timeout
    BY DEF StateListDel, Scheduler, Frame
<1>4. /\ \A p \in Prio : s.ready[p] \in Seq(Task)
      /\ \A q \in WaitQ : s.wq[q] \in Seq(Task)
      /\ s.deleted \in Seq(Task)
    BY DEF Scheduler
<1>5. ASSUME NEW p \in Prio
      PROVE  /\ Distinct(r.ready[p])
             /\ ~Contains(r.ready[p], t)
             /\ \A x : x # t => (Contains(r.ready[p], x) <=> Contains(s.ready[p], x))
             /\ ~Contains(s.ready[p], t) => r.ready[p] = s.ready[p]
    <2>1. r.ready[p] = RemoveFirst(s.ready[p], t) /\ Distinct(s.ready[p])
        BY <1>2 DEF NoRepeats
    <2> QED BY <1>4, <2>1, RemoveFirstShape, RemoveAbsent
<1>6. ASSUME NEW q \in WaitQ
      PROVE  /\ Distinct(r.wq[q])
             /\ ~Contains(r.wq[q], t)
             /\ \A x : x # t => (Contains(r.wq[q], x) <=> Contains(s.wq[q], x))
    <2>1. r.wq[q] = RemoveFirst(s.wq[q], t) /\ Distinct(s.wq[q])
        BY <1>2 DEF NoRepeats
    <2> QED BY <1>4, <2>1, RemoveFirstShape
<1>7. /\ Distinct(r.deleted)
      /\ ~Contains(r.deleted, t)
      /\ \A x : x # t => (Contains(r.deleted, x) <=> Contains(s.deleted, x))
    <2>1. Distinct(s.deleted)
        BY DEF NoRepeats
    <2> QED BY <1>2, <1>4, <2>1, RemoveFirstShape
<1>8. NoRepeats(r)
    BY <1>3, <1>5, <1>6, <1>7 DEF NoRepeats
<1>9. ~OnStateList(r, t)
    BY <1>5, <1>6, <1>7 DEF OnStateList, OnReady, OnWaitQ
<1>10. \A x \in Task \ {t} : SameTask(s, r, x)
    BY <1>3, <1>5, <1>6, <1>7 DEF SameTask, Frame
<1> QED BY <1>1, <1>3, <1>5, <1>8, <1>9, <1>10

(* A TCB that is on no list does not care. *)
LEMMA RemoveNothing ==
    ASSUME NEW s, NEW t, ~OnStateList(s, t)
    PROVE  sched_ready_remove(s, t) = s
BY DEF sched_ready_remove

(* Linking a ready TCB, with its bit to follow. *)
LEMMA LinkEffect ==
    ASSUME NEW s \in Scheduler, NEW t \in Task, NoRepeats(s), ~OnStateList(s, t),
           NEW r, r = ready_link(s, t)
    PROVE  /\ r \in Scheduler
           /\ NoRepeats(r)
           /\ Frame(s, r)
           /\ r.state = s.state /\ r.timer = s.timer /\ r.wres = s.wres /\ r.mask = s.mask
           /\ r.timeout = s.timeout /\ r.wq = s.wq /\ r.deleted = s.deleted
           /\ \A p \in Prio : Contains(r.ready[p], t) <=> p = s.prio[t]
           /\ \A p \in Prio \ {s.prio[t]} : r.ready[p] = s.ready[p]
           /\ r.ready[s.prio[t]] # <<>>
           /\ \A x \in Task \ {t} : SameTask(s, r, x)
<1> DEFINE n == s.prio[t]
<1>1. r \in Scheduler /\ n \in Prio
    BY EnqueueType DEF Scheduler
<1>2. /\ Frame(s, r)
      /\ r.state = s.state /\ r.timer = s.timer /\ r.wres = s.wres /\ r.mask = s.mask
      /\ r.timeout = s.timeout /\ r.wq = s.wq /\ r.deleted = s.deleted
    BY DEF ready_link, Scheduler, Frame
<1>3. /\ r.ready[n] = Append(s.ready[n], t)
      /\ \A p \in Prio \ {n} : r.ready[p] = s.ready[p]
    BY <1>1 DEF ready_link, Scheduler
<1>4. s.ready[n] \in Seq(Task) /\ Distinct(s.ready[n]) /\ ~Contains(s.ready[n], t)
    BY <1>1 DEF Scheduler, NoRepeats, OnStateList, OnReady
<1>5. \A p \in Prio : ~Contains(s.ready[p], t)
    BY DEF OnStateList, OnReady
<1> HIDE DEF n
<1>6. /\ Distinct(r.ready[n])
      /\ r.ready[n] # <<>>
      /\ \A x : Contains(r.ready[n], x) <=> Contains(s.ready[n], x) \/ x = t
    BY <1>3, <1>4, AppendShape
<1>7. NoRepeats(r)
    BY <1>2, <1>3, <1>6 DEF NoRepeats
<1>8. \A p \in Prio : Contains(r.ready[p], t) <=> p = n
    BY <1>3, <1>5, <1>6
<1>9. \A x \in Task \ {t} : SameTask(s, r, x)
    BY <1>2, <1>3, <1>6 DEF SameTask, Frame
<1> QED BY <1>1, <1>2, <1>3, <1>6, <1>7, <1>8, <1>9 DEF n

(* Linking a ready TCB and setting its bit puts it where it belongs. *)
LEMMA LinkSound ==
    ASSUME NEW s \in Scheduler, NEW t \in Task, NEW U, NEW B, Sound(s, U, B),
           s.state[t] = "READY", ~OnReady(s, t)
    PROVE  /\ ~EnqueueRefused(s, t)
           /\ Sound(ready_link(s, t), U \ {t}, B \cup {s.prio[t]})
           /\ Sound(sched_ready_enqueue(s, t), U \ {t}, B)
           /\ Frame(s, sched_ready_enqueue(s, t))
           /\ Frame(s, ready_link(s, t))
           /\ sched_ready_enqueue(s, t).state = s.state
           /\ ready_link(s, t).state = s.state
           /\ ready_link(s, t).mask = s.mask
           /\ OnReady(sched_ready_enqueue(s, t), t)
           /\ OnReady(ready_link(s, t), t)
           /\ \A x \in Task \ {t} : /\ SameTask(s, sched_ready_enqueue(s, t), x)
                                    /\ SameTask(s, ready_link(s, t), x)
<1> DEFINE r == ready_link(s, t)
           m == [r EXCEPT !.mask = @ \cup {s.prio[t]}]
           n == s.prio[t]
<1>1. Placed(s, t) /\ NoRepeats(s) /\ ~s.corrupt
    BY DEF Sound
<1>2. ~OnStateList(s, t) /\ ~EnqueueRefused(s, t)
    BY <1>1 DEF Placed, OnStateList, OnReady, OnWaitQ, EnqueueRefused
<1>3. /\ r \in Scheduler
      /\ NoRepeats(r)
      /\ Frame(s, r)
      /\ r.state = s.state /\ r.timer = s.timer /\ r.wres = s.wres /\ r.mask = s.mask
      /\ r.timeout = s.timeout /\ r.wq = s.wq /\ r.deleted = s.deleted
      /\ \A p \in Prio : Contains(r.ready[p], t) <=> p = n
      /\ \A p \in Prio \ {n} : r.ready[p] = s.ready[p]
      /\ r.ready[n] # <<>>
      /\ \A x \in Task \ {t} : SameTask(s, r, x)
    BY <1>1, <1>2, LinkEffect
<1>4. n \in Prio
    BY DEF Scheduler
<1>5. sched_ready_enqueue(s, t) = m
    BY <1>2 DEF sched_ready_enqueue
<1> HIDE DEF r, n
<1>6. /\ m.mask = s.mask \cup {n}
      /\ m.ready = r.ready /\ m.wq = r.wq /\ m.deleted = r.deleted /\ m.timeout = r.timeout
      /\ m.state = r.state /\ m.timer = r.timer /\ m.wres = r.wres /\ m.prio = r.prio
      /\ Frame(r, m)
    BY <1>3 DEF Scheduler, Frame, n
<1> HIDE DEF m
<1>7. Placed(r, t) /\ Placed(m, t)
    BY <1>1, <1>2, <1>3, <1>6 DEF Placed, OnWaitQ, OnStateList, Frame, n
<1>8. OnReady(r, t) /\ OnReady(m, t)
    BY <1>3, <1>4, <1>6 DEF OnReady
<1>9. MaskSound(r, B \cup {n}) /\ MaskSound(m, B)
    BY <1>3, <1>4, <1>6 DEF Sound, MaskSound
<1>10. NoRepeats(m) /\ \A x \in Task \ {t} : SameTask(s, m, x)
    BY <1>3, <1>6 DEF NoRepeats, SameTask
<1>11. /\ \A x \in Task \ {t} : s.state[x] = "RUNNING" => x = r.current /\ x = m.current
       /\ ~r.corrupt /\ ~m.corrupt
       /\ r.state[t] # "RUNNING" /\ m.state[t] # "RUNNING"
    BY <1>1, <1>3, <1>6 DEF Sound, OneRuns, Frame
<1>12. Sound(r, U \ {t}, B \cup {n})
    BY <1>3, <1>7, <1>8, <1>9, <1>11, OneMoves
<1>13. Sound(m, U \ {t}, B)
    BY <1>7, <1>8, <1>9, <1>10, <1>11, OneMoves
<1>14. Frame(s, m)
    BY <1>3, <1>6 DEF Frame
<1> QED BY <1>2, <1>3, <1>5, <1>6, <1>8, <1>10, <1>12, <1>13, <1>14 DEF r, n

(* More TCBs may be off their list. *)
LEMMA SoundWeaken ==
    ASSUME NEW s, NEW U, NEW V, NEW B, Sound(s, U, B), U \subseteq V
    PROVE  Sound(s, V, B)
BY DEF Sound, Queued

(* A change of the flags and of the wait result of one task. *)
Similar(s, r) ==
    /\ r.ready = s.ready /\ r.wq = s.wq /\ r.deleted = s.deleted /\ r.timeout = s.timeout
    /\ r.state = s.state /\ r.timer = s.timer /\ r.mask = s.mask
    /\ Frame(s, r)

(* The flags do not matter to the lists. *)
LEMMA SimilarSound ==
    ASSUME NEW s, NEW r, NEW U, NEW B, Sound(s, U, B), Similar(s, r)
    PROVE  /\ Sound(r, U, B)
           /\ \A x : OnReady(r, x) <=> OnReady(s, x)
BY DEF Sound, Similar, NoRepeats, Placed, OnWaitQ, OnReady, MaskSound, Queued, OneRuns, Frame

(* A blocked task is taken off its wait queue and the timeout list, made   *)
(* ready and linked.                                                       *)
LEMMA UnblockSound ==
    ASSUME NEW s \in Scheduler, NEW t \in Task, NEW U, NEW B, Sound(s, U, B),
           s.state[t] = "BLOCKED",
           NEW r \in Scheduler,
           NoRepeats(r), Frame(s, r),
           ~OnStateList(r, t), ~Contains(r.timeout, t),
           r.state[t] = "READY", r.timer[t] = FALSE,
           r.mask = s.mask, r.ready = s.ready,
           \A x \in Task \ {t} : SameTask(s, r, x),
           NEW e, e = sched_ready_enqueue(r, t)
    PROVE  /\ Sound(e, U, B)
           /\ Frame(s, e)
           /\ e.state[t] = "READY"
           /\ OnReady(e, t)
           /\ \A x \in Task \ {t} : SameTask(s, e, x)
<1>1. Placed(r, t) /\ ~OnReady(r, t)
    BY DEF Placed, OnStateList, OnReady, OnWaitQ
<1>2. MaskSound(r, B)
    BY DEF Sound, MaskSound
<1>3. /\ \A x \in Task \ {t} : s.state[x] = "RUNNING" => x = r.current
      /\ ~r.corrupt
    BY DEF Sound, OneRuns, Frame
<1>4. Sound(r, U \cup {t}, B)
    BY <1>1, <1>2, <1>3, OneMoves
<1>5. /\ Sound(e, (U \cup {t}) \ {t}, B)
      /\ Frame(r, e)
      /\ e.state = r.state
      /\ OnReady(e, t)
      /\ \A x \in Task \ {t} : SameTask(r, e, x)
    BY <1>1, <1>4, LinkSound
<1>6. Sound(e, U, B)
    BY <1>5, SoundWeaken
<1>7. Frame(s, e)
    BY <1>5 DEF Frame
<1>8. \A x \in Task \ {t} : SameTask(s, e, x)
    BY <1>5 DEF SameTask
<1> QED BY <1>5, <1>6, <1>7, <1>8

(* Waking the first waiter of a queue. *)
LEMMA WakeOneSound ==
    ASSUME NEW s \in Scheduler, NEW q \in WaitQ, NEW U, NEW B, Sound(s, U, B),
           s.wq[q] # <<>>,
           NEW e, e = sched_wake_one(s, q)
    PROVE  /\ Sound(e, U, B)
           /\ Frame(s, e)
           /\ \E t \in Task : /\ t = Head(s.wq[q])
                              /\ s.state[t] = "BLOCKED"
                              /\ e.state[t] = "READY"
                              /\ OnReady(e, t)
                              /\ \A x \in Task \ {t} : SameTask(s, e, x)
<1> DEFINE t == Head(s.wq[q])
           u == sched_timeout_remove(s, t)
           r == [u EXCEPT !.wq[q] = Tail(@), !.timer[t] = FALSE, !.state[t] = "READY"]
<1>1. /\ s.wq[q] \in Seq(Task) /\ s.timeout \in Seq(Task)
      /\ NoRepeats(s) /\ Distinct(s.wq[q]) /\ Distinct(s.timeout)
    BY DEF Scheduler, Sound, NoRepeats
<1>2. /\ t \in Task /\ Contains(s.wq[q], t)
      /\ Tail(s.wq[q]) \in Seq(Task)
      /\ Distinct(Tail(s.wq[q])) /\ ~Contains(Tail(s.wq[q]), t)
      /\ \A x : x # t => (Contains(Tail(s.wq[q]), x) <=> Contains(s.wq[q], x))
    BY <1>1, TailShape
<1>3. Placed(s, t) /\ s.state[t] = "BLOCKED"
    BY <1>2 DEF Sound, Placed
<1>4. /\ u \in Scheduler
      /\ u.timeout = RemoveFirst(s.timeout, t)
      /\ u.ready = s.ready /\ u.wq = s.wq /\ u.deleted = s.deleted
      /\ u.state = s.state /\ u.timer = s.timer /\ u.mask = s.mask /\ u.wres = s.wres
      /\ Frame(s, u)
    BY <1>2, TimeoutType DEF sched_timeout_remove, Scheduler, Frame
<1>5. e = sched_ready_enqueue(r, t)
    BY DEF sched_wake_one
<1> HIDE DEF t, u
<1>6. /\ r \in Scheduler
      /\ r.timeout = u.timeout
      /\ r.ready = u.ready /\ r.deleted = u.deleted
      /\ r.wq[q] = Tail(u.wq[q])
      /\ \A w \in WaitQ \ {q} : r.wq[w] = u.wq[w]
      /\ r.state[t] = "READY" /\ r.timer[t] = FALSE
      /\ \A x \in Task \ {t} : r.state[x] = u.state[x] /\ r.timer[x] = u.timer[x]
      /\ r.mask = u.mask /\ r.wres = u.wres
      /\ Frame(u, r)
    BY <1>2, <1>4 DEF Scheduler, TaskState, Frame
<1> HIDE DEF r
<1>7. /\ Distinct(u.timeout) /\ ~Contains(u.timeout, t)
      /\ \A x : x # t => (Contains(u.timeout, x) <=> Contains(s.timeout, x))
    BY <1>1, <1>4, RemoveFirstShape
<1>8. NoRepeats(r)
    BY <1>1, <1>2, <1>4, <1>6, <1>7 DEF NoRepeats
<1>9. ~OnStateList(r, t) /\ ~Contains(r.timeout, t)
    <2>1. \A p \in Prio : ~Contains(s.ready[p], t)
        BY <1>3 DEF Placed
    <2>2. \A w \in WaitQ \ {q} : ~Contains(s.wq[w], t)
        BY <1>2, <1>3 DEF Placed
    <2>3. ~Contains(s.deleted, t)
        BY <1>3 DEF Placed
    <2> QED BY <1>2, <1>4, <1>6, <1>7, <2>1, <2>2, <2>3 DEF OnStateList, OnReady, OnWaitQ
<1>10. \A x \in Task \ {t} : SameTask(s, r, x)
    BY <1>2, <1>4, <1>6, <1>7 DEF SameTask, Frame
<1>11. r.mask = s.mask /\ r.ready = s.ready /\ Frame(s, r)
    BY <1>4, <1>6 DEF Frame
<1>12. r \in Scheduler /\ r.state[t] = "READY" /\ r.timer[t] = FALSE /\ t \in Task
    BY <1>2, <1>6
<1>13. /\ Sound(e, U, B)
       /\ Frame(s, e)
       /\ e.state[t] = "READY"
       /\ OnReady(e, t)
       /\ \A x \in Task \ {t} : SameTask(s, e, x)
    BY <1>3, <1>5, <1>8, <1>9, <1>10, <1>11, <1>12, UnblockSound
<1>14. t = Head(s.wq[q])
    BY DEF t
<1> QED BY <1>3, <1>12, <1>13, <1>14

(* The wakes of wait_queue.c. *)
LEMMA WakeResultSound ==
    ASSUME NEW s \in Scheduler, NEW q \in WaitQ, NEW U, NEW B, Sound(s, U, B),
           NEW result \in WaitResult,
           NEW e, \/ e = trt_wait_q_wake_one_result_locked(s, q, result)
                  \/ e = trt_wait_q_wake_one_from_isr(s, q)
    PROVE  /\ Sound(e, U, B)
           /\ Frame(s, e)
           /\ \/ e = s /\ s.wq[q] = <<>>
              \/ \E t \in Task : /\ t = Head(s.wq[q])
                                 /\ s.state[t] = "BLOCKED"
                                 /\ e.state[t] = "READY"
                                 /\ OnReady(e, t)
                                 /\ \A x \in Task \ {t} : SameTask(s, e, x)
<1>1. CASE s.wq[q] = <<>>
    <2>1. e = s
        BY <1>1 DEF trt_wait_q_wake_one_result_locked, trt_wait_q_wake_one_from_isr
    <2> QED BY <1>1, <2>1 DEF Frame
<1>2. CASE s.wq[q] # <<>>
    <2> DEFINE t == Head(s.wq[q])
               w == sched_wake_one(s, q)
    <2>1. /\ t \in Task
          /\ w \in Scheduler
          /\ s.state[t] = "BLOCKED"
          /\ Sound(w, U, B)
          /\ Frame(s, w)
          /\ w.state[t] = "READY"
          /\ OnReady(w, t)
          /\ \A x \in Task \ {t} : SameTask(s, w, x)
        BY <1>2, WakeOneSound, WakeOneType
    <2> DEFINE b == w.pending \/ sched_is_locked(s)
               f(v) == [w EXCEPT !.pending = b, !.wres[t] = v]
               g == [f("OBJECT") EXCEPT !.pending = TRUE]
    <2>2. e = f(result) \/ e = g
        <3>1. \A v : trt_wait_q_wake_one_result_locked(s, q, v) = f(v)
            BY <1>2 DEF trt_wait_q_wake_one_result_locked
        <3>2. trt_wait_q_wake_one_from_isr(s, q)
                 = [trt_wait_q_wake_one_result_locked(s, q, "OBJECT") EXCEPT !.pending = TRUE]
            BY <1>2 DEF trt_wait_q_wake_one_from_isr, trt_wait_q_wake_one_locked,
                        sched_set_pending
        <3> HIDE DEF f
        <3>3. CASE e = trt_wait_q_wake_one_result_locked(s, q, result)
            BY <3>1, <3>3
        <3>4. CASE e = trt_wait_q_wake_one_from_isr(s, q)
            BY <3>1, <3>2, <3>4
        <3> QED BY <3>3, <3>4
    <2> HIDE DEF t, w, b
    <2>3. Similar(w, e) /\ \A x \in Task \ {t} : e.wres[x] = w.wres[x]
        <3>1. ASSUME NEW v
              PROVE  /\ Similar(w, f(v)) /\ Similar(w, [f(v) EXCEPT !.pending = TRUE])
                     /\ \A x \in Task \ {t} :
                           /\ f(v).wres[x] = w.wres[x]
                           /\ [f(v) EXCEPT !.pending = TRUE].wres[x] = w.wres[x]
            BY <2>1 DEF Similar, Frame, Scheduler
        <3> HIDE DEF f
        <3>2. CASE e = f(result)
            BY <3>1, <3>2
        <3>3. CASE e = g
            BY <3>1, <3>3
        <3> QED BY <2>2, <3>2, <3>3
    <2>4. Sound(e, U, B) /\ OnReady(e, t)
        BY <2>1, <2>3, SimilarSound
    <2>5. Frame(s, e)
        BY <2>1, <2>3 DEF Similar, Frame
    <2>6. \A x \in Task \ {t} : SameTask(s, e, x)
        BY <2>1, <2>3 DEF Similar, SameTask, Frame
    <2>7. e.state[t] = "READY"
        BY <2>1, <2>3 DEF Similar
    <2>8. t = Head(s.wq[q])
        BY DEF t
    <2> QED BY <2>1, <2>4, <2>5, <2>6, <2>7, <2>8
<1> QED BY <1>1, <1>2

(* One round of sched_wake_expired. *)
LEMMA WakeExpiredSound ==
    ASSUME NEW s \in Scheduler, NEW U, NEW B, Sound(s, U, B), s.timeout # <<>>,
           NEW e, e = sched_wake_expired_one(s)
    PROVE  /\ Sound(e, U, B)
           /\ Frame(s, e)
           /\ \E t \in Task : /\ s.state[t] = "BLOCKED"
                              /\ e.state[t] = "READY"
                              /\ OnReady(e, t)
                              /\ \A x \in Task \ {t} : SameTask(s, e, x)
<1> DEFINE t == Head(s.timeout)
           r == [s EXCEPT !.timeout = Tail(@)]
           d == StateListDel(r, t)
           w == [d EXCEPT !.timer[t] = FALSE, !.wres[t] = "TIMEOUT", !.state[t] = "READY"]
<1>1. /\ t \in Task /\ Contains(s.timeout, t)
      /\ Tail(s.timeout) \in Seq(Task)
      /\ Distinct(Tail(s.timeout)) /\ ~Contains(Tail(s.timeout), t)
      /\ \A x : x # t => (Contains(Tail(s.timeout), x) <=> Contains(s.timeout, x))
    <2>1. s.timeout \in Seq(Task) /\ Distinct(s.timeout)
        BY DEF Scheduler, Sound, NoRepeats
    <2> QED BY <2>1, TailShape
<1>2. Placed(s, t) /\ s.state[t] = "BLOCKED" /\ s.timer[t]
    BY <1>1 DEF Sound, Placed
<1>3. /\ r \in Scheduler
      /\ r.timeout = Tail(s.timeout)
      /\ r.ready = s.ready /\ r.wq = s.wq /\ r.deleted = s.deleted
      /\ r.state = s.state /\ r.timer = s.timer /\ r.mask = s.mask /\ r.wres = s.wres
      /\ Frame(s, r)
    BY <1>1 DEF Scheduler, Frame
<1>4. e = sched_ready_enqueue(w, t)
    BY <1>2 DEF sched_wake_expired_one
<1> HIDE DEF t, r
<1>5. NoRepeats(r) /\ d = StateListDel(r, t)
    BY <1>1, <1>3 DEF Sound, NoRepeats
<1> HIDE DEF d
<1>6. /\ d \in Scheduler
      /\ NoRepeats(d)
      /\ Frame(r, d)
      /\ d.state = r.state /\ d.timer = r.timer /\ d.mask = r.mask /\ d.timeout = r.timeout
      /\ ~OnStateList(d, t)
      /\ \A x \in Task \ {t} : SameTask(r, d, x)
      /\ \A p \in Prio : ~Contains(r.ready[p], t) => d.ready[p] = r.ready[p]
    <2>0. r \in Scheduler /\ t \in Task /\ NoRepeats(r) /\ d = StateListDel(r, t)
        BY <1>1, <1>3, <1>5
    <2>1. /\ d \in Scheduler
          /\ NoRepeats(d)
          /\ Frame(r, d)
          /\ d.state = r.state /\ d.timer = r.timer /\ d.wres = r.wres /\ d.mask = r.mask
          /\ d.timeout = r.timeout
          /\ ~OnStateList(d, t)
          /\ \A x \in Task \ {t} : SameTask(r, d, x)
          /\ \A p \in Prio : ~Contains(r.ready[p], t) => d.ready[p] = r.ready[p]
        BY ONLY <2>0, DelEffect
    <2> QED BY <2>1
<1>7. d.ready = s.ready
    <2>1. \A p \in Prio : ~Contains(s.ready[p], t)
        BY <1>2 DEF Placed
    <2>2. ASSUME NEW p \in Prio
          PROVE  d.ready[p] = s.ready[p]
        <3>1. ~Contains(r.ready[p], t) /\ r.ready[p] = s.ready[p]
            BY <1>3, <2>1
        <3>2. d.ready[p] = r.ready[p]
            BY <1>6, <3>1
        <3> QED BY <3>1, <3>2
    <2> QED BY <1>6, <2>2 DEF Scheduler
<1>8. /\ w \in Scheduler
      /\ w.timeout = d.timeout
      /\ w.ready = d.ready /\ w.deleted = d.deleted /\ w.wq = d.wq
      /\ w.state[t] = "READY" /\ w.timer[t] = FALSE
      /\ \A x \in Task \ {t} : /\ w.state[x] = d.state[x] /\ w.timer[x] = d.timer[x]
                               /\ w.wres[x] = d.wres[x]
      /\ w.mask = d.mask
      /\ Frame(d, w)
    <2>1. d \in Scheduler /\ t \in Task
        BY <1>1, <1>6
    <2>2. w \in Scheduler
        BY <2>1 DEF Scheduler, TaskState, WaitResult
    <2>3. /\ w.timeout = d.timeout
          /\ w.ready = d.ready /\ w.deleted = d.deleted /\ w.wq = d.wq /\ w.mask = d.mask
        BY <2>1 DEF Scheduler
    <2>4. Frame(d, w)
        BY <2>1 DEF Scheduler, Frame
    <2>5. /\ w.state = [d.state EXCEPT ![t] = "READY"]
          /\ w.timer = [d.timer EXCEPT ![t] = FALSE]
          /\ w.wres = [d.wres EXCEPT ![t] = "TIMEOUT"]
          /\ t \in DOMAIN d.state /\ t \in DOMAIN d.timer
        BY <2>1 DEF Scheduler
    <2> QED BY <2>2, <2>3, <2>4, <2>5
<1> HIDE DEF w
<1>9. NoRepeats(w) /\ ~OnStateList(w, t) /\ ~Contains(w.timeout, t)
    BY <1>1, <1>3, <1>6, <1>8 DEF NoRepeats, OnStateList, OnReady, OnWaitQ
<1>10. Frame(s, w) /\ w.mask = s.mask /\ w.ready = s.ready
    BY <1>3, <1>6, <1>7, <1>8 DEF Frame
<1>11. \A x \in Task \ {t} : SameTask(s, w, x)
    <2>1. \A x \in Task \ {t} : SameTask(s, r, x)
        BY <1>1, <1>3 DEF SameTask, Frame
    <2>2. \A x \in Task \ {t} : SameTask(d, w, x)
        BY <1>8 DEF SameTask, Frame
    <2> QED BY <1>6, <2>1, <2>2 DEF SameTask
<1>12. w \in Scheduler /\ w.state[t] = "READY" /\ w.timer[t] = FALSE /\ t \in Task
    BY <1>1, <1>8
<1>13. /\ Sound(e, U, B)
       /\ Frame(s, e)
       /\ e.state[t] = "READY"
       /\ OnReady(e, t)
       /\ \A x \in Task \ {t} : SameTask(s, e, x)
    BY <1>2, <1>4, <1>9, <1>10, <1>11, <1>12, UnblockSound
<1> QED BY <1>2, <1>12, <1>13

(* Taking a TCB off its list the way sched_mark_deleted does. *)
LEMMA UnlinkEffect ==
    ASSUME NEW s \in Scheduler, NEW t \in Task, NEW B,
           NoRepeats(s), Placed(s, t), MaskSound(s, B),
           NEW r, r = IF s.state[t] = "READY" THEN sched_ready_remove(s, t)
                                              ELSE StateListDel(s, t)
    PROVE  /\ r \in Scheduler
           /\ NoRepeats(r)
           /\ Frame(s, r)
           /\ r.state = s.state /\ r.timer = s.timer /\ r.wres = s.wres /\ r.timeout = s.timeout
           /\ ~OnStateList(r, t)
           /\ \A x \in Task \ {t} : SameTask(s, r, x)
           /\ MaskSound(r, B)
<1> DEFINE d == StateListDel(s, t)
           n == s.prio[t]
           m == [d EXCEPT !.mask = @ \ {n}]
<1>1. d = StateListDel(s, t) /\ n = s.prio[t] /\ n \in Prio
    BY DEF Scheduler
<1>2. \/ r = s /\ ~OnStateList(s, t)
      \/ r = m /\ d.ready[n] = <<>>
      \/ r = d /\ (s.state[t] # "READY" \/ d.ready[n] # <<>>)
    <2>1. sched_ready_remove(s, t) = IF ~OnStateList(s, t)
                                     THEN s
                                     ELSE IF d.ready[n] = <<>> THEN m ELSE d
        BY DEF sched_ready_remove
    <2> HIDE DEF m
    <2> QED BY <1>1, <2>1
<1> HIDE DEF d, n
<1>3. /\ d \in Scheduler
      /\ NoRepeats(d)
      /\ Frame(s, d)
      /\ d.state = s.state /\ d.timer = s.timer /\ d.wres = s.wres
      /\ d.mask = s.mask /\ d.timeout = s.timeout
      /\ ~OnStateList(d, t)
      /\ \A x \in Task \ {t} : SameTask(s, d, x)
      /\ \A p \in Prio : ~Contains(s.ready[p], t) => d.ready[p] = s.ready[p]
    BY <1>1, DelEffect
<1>4. \A p \in Prio \ {n} : d.ready[p] = s.ready[p]
    BY <1>1, <1>3 DEF Placed
<1>5. CASE r = s /\ ~OnStateList(s, t)
    BY <1>5 DEF Frame, SameTask
<1>6. CASE r = d /\ (s.state[t] # "READY" \/ d.ready[n] # <<>>)
    <2>1. d.ready[n] = s.ready[n] \/ d.ready[n] # <<>>
        BY <1>1, <1>3, <1>6 DEF Placed
    <2>2. s.ready[n] = <<>> => d.ready[n] = <<>>
        <3>1. s.ready[n] = <<>> => ~Contains(s.ready[n], t)
            BY <1>1, EmptyShape DEF Scheduler
        <3> QED BY <1>1, <1>3, <3>1
    <2>3. MaskSound(d, B)
        BY <1>1, <1>3, <1>4, <2>1, <2>2 DEF MaskSound
    <2> QED BY <1>3, <1>6, <2>3
<1>7. CASE r = m /\ d.ready[n] = <<>>
    <2>1. m \in Scheduler
        BY <1>3 DEF Scheduler
    <2>2. /\ m.ready = d.ready /\ m.wq = d.wq /\ m.deleted = d.deleted /\ m.timeout = d.timeout
          /\ m.state = d.state /\ m.timer = d.timer /\ m.wres = d.wres /\ m.prio = d.prio
          /\ m.mask = d.mask \ {n}
          /\ Frame(d, m)
        BY <1>3 DEF Scheduler, Frame
    <2> HIDE DEF m
    <2>3. NoRepeats(m) /\ ~OnStateList(m, t)
        BY <1>3, <2>2 DEF NoRepeats, OnStateList, OnReady, OnWaitQ
    <2>4. \A x \in Task \ {t} : SameTask(s, m, x)
        BY <1>3, <2>2 DEF SameTask
    <2>5. MaskSound(m, B)
        BY <1>1, <1>3, <1>4, <1>7, <2>2 DEF MaskSound
    <2>6. Frame(s, m)
        BY <1>3, <2>2 DEF Frame
    <2> QED BY <1>3, <1>7, <2>1, <2>2, <2>3, <2>4, <2>5, <2>6
<1> QED BY <1>2, <1>5, <1>6, <1>7

(* Deleting a task: it leaves its list and the timeout list and joins the  *)
(* deleted list.                                                           *)
LEMMA MarkDeletedSound ==
    ASSUME NEW s \in Scheduler, NEW t \in Task, NEW U, NEW B, Sound(s, U, B),
           t # s.idle, s.state[t] # "DELETED",
           NEW e, e = sched_mark_deleted(s, t)
    PROVE  /\ Sound(e, U, B)
           /\ Frame(s, e)
           /\ e.state[t] = "DELETED"
           /\ ~OnReady(e, t)
           /\ \A x \in Task \ {t} : SameTask(s, e, x)
<1> DEFINE r == IF s.state[t] = "READY" THEN sched_ready_remove(s, t) ELSE StateListDel(s, t)
           u == sched_timeout_remove(r, t)
           l == Append(u.deleted, t)
           f == [u EXCEPT !.timer[t] = FALSE, !.wres[t] = "NONE",
                          !.state[t] = "DELETED", !.deleted = l]
<1>1. NoRepeats(s) /\ Placed(s, t) /\ MaskSound(s, B) /\ ~s.corrupt /\ OneRuns(s)
    BY DEF Sound
<1>2. e = f
    BY DEF sched_mark_deleted
<1>3. r = IF s.state[t] = "READY" THEN sched_ready_remove(s, t) ELSE StateListDel(s, t)
    OBVIOUS
<1> HIDE DEF r
<1>4. /\ r \in Scheduler
      /\ NoRepeats(r)
      /\ Frame(s, r)
      /\ r.state = s.state /\ r.timer = s.timer /\ r.wres = s.wres /\ r.timeout = s.timeout
      /\ ~OnStateList(r, t)
      /\ \A x \in Task \ {t} : SameTask(s, r, x)
      /\ MaskSound(r, B)
    BY <1>1, <1>3, UnlinkEffect
<1>5. u \in Scheduler
    BY <1>4, TimeoutType
<1>6. /\ u.timeout = RemoveFirst(r.timeout, t)
      /\ u.ready = r.ready /\ u.wq = r.wq /\ u.deleted = r.deleted
      /\ u.state = r.state /\ u.timer = r.timer /\ u.mask = r.mask /\ u.wres = r.wres
      /\ Frame(r, u)
    BY <1>4 DEF sched_timeout_remove, Scheduler, Frame
<1>7. /\ Distinct(u.timeout) /\ ~Contains(u.timeout, t)
      /\ \A x : x # t => (Contains(u.timeout, x) <=> Contains(s.timeout, x))
    <2>1. s.timeout \in Seq(Task) /\ Distinct(s.timeout)
        BY <1>1 DEF NoRepeats, Scheduler
    <2> QED BY <1>4, <1>6, <2>1, RemoveFirstShape
<1>8. /\ l \in Seq(Task) /\ Distinct(l) /\ Contains(l, t)
      /\ \A x : x # t => (Contains(l, x) <=> Contains(r.deleted, x))
    <2>1. r.deleted \in Seq(Task) /\ Distinct(r.deleted) /\ ~Contains(r.deleted, t)
        BY <1>4 DEF NoRepeats, Scheduler, OnStateList
    <2> QED BY <1>6, <2>1, AppendShape
<1> HIDE DEF u, l
<1>9. /\ f.timeout = u.timeout /\ f.ready = u.ready /\ f.wq = u.wq /\ f.deleted = l
      /\ f.state[t] = "DELETED" /\ f.timer[t] = FALSE
      /\ \A x \in Task \ {t} : /\ f.state[x] = u.state[x]
                               /\ f.timer[x] = u.timer[x]
                               /\ f.wres[x] = u.wres[x]
      /\ f.mask = u.mask
      /\ Frame(u, f)
    BY <1>5 DEF Scheduler, Frame
<1> HIDE DEF f
<1>10. NoRepeats(f)
    BY <1>4, <1>6, <1>7, <1>8, <1>9 DEF NoRepeats
<1>11. Placed(f, t)
    <2>1. \A p \in Prio : ~Contains(r.ready[p], t)
        BY <1>4 DEF OnStateList, OnReady
    <2>2. \A q \in WaitQ : ~Contains(r.wq[q], t)
        BY <1>4 DEF OnStateList, OnWaitQ
    <2> QED BY <1>6, <1>7, <1>9, <2>1, <2>2 DEF Placed
<1>12. \A x \in Task \ {t} : SameTask(s, f, x)
    <2>1. \A x \in Task \ {t} : SameTask(s, r, x) /\ SameTask(r, f, x)
        BY <1>4, <1>6, <1>7, <1>8, <1>9 DEF SameTask, Frame
    <2> QED BY <2>1 DEF SameTask
<1>13. MaskSound(f, B)
    BY <1>4, <1>6, <1>9 DEF MaskSound
<1>14. Frame(s, f) /\ ~f.corrupt
    BY <1>1, <1>4, <1>6, <1>9 DEF Frame
<1>15. /\ f.state[t] # "READY" /\ f.state[t] # "RUNNING"
       /\ \A x \in Task \ {t} : s.state[x] = "RUNNING" => x = f.current
    BY <1>1, <1>9, <1>14 DEF OneRuns, Frame
<1>16. Sound(f, U, B)
    BY <1>10, <1>11, <1>12, <1>13, <1>14, <1>15, OneMoves
<1>17. ~OnReady(f, t)
    BY <1>4, <1>6, <1>9 DEF OnStateList, OnReady
<1> QED BY <1>2, <1>9, <1>12, <1>14, <1>16, <1>17

-----------------------------------------------------------------------------
(* Insertion in front of the first of some places adds the entry. *)
LEMMA InsertContents ==
    ASSUME NEW S, NEW seq \in Seq(S), NEW t \in S, NEW O, O \subseteq DOMAIN seq,
           Distinct(seq), ~Contains(seq, t),
           NEW r, r = InsertBeforeFirst(seq, t, O)
    PROVE  /\ Distinct(r)
           /\ \A x : Contains(r, x) <=> Contains(seq, x) \/ x = t
<1>1. CASE O = {}
    BY <1>1, AppendShape DEF InsertBeforeFirst
<1>2. CASE O # {}
    <2>1. O \subseteq Nat
        OBVIOUS
    <2>2. Min(O) \in 1..Len(seq)
        BY <1>2, <2>1, MinLeast
    <2> QED BY <1>2, <2>2, InsertAtContents DEF InsertBeforeFirst
<1> QED BY <1>1, <1>2

(* Putting a TCB on the timeout list. *)
LEMMA TimeoutInsertEffect ==
    ASSUME NEW s \in Scheduler, NEW t \in Task, NoRepeats(s), s.timer[t],
           NEW r, r = sched_timeout_insert(s, t)
    PROVE  /\ r \in Scheduler
           /\ NoRepeats(r)
           /\ Frame(s, r)
           /\ r.ready = s.ready /\ r.wq = s.wq /\ r.deleted = s.deleted /\ r.mask = s.mask
           /\ r.state = s.state /\ r.timer = s.timer /\ r.wres = s.wres
           /\ Contains(r.timeout, t)
           /\ \A x : x # t => (Contains(r.timeout, x) <=> Contains(s.timeout, x))
<1> DEFINE rest == RemoveFirst(s.timeout, t)
           later == {i \in DOMAIN rest : TickBefore(s.wakeup[t], s.wakeup[rest[i]])}
           l == InsertBeforeFirst(rest, t, later)
<1>1. r \in Scheduler
    BY TimeoutType
<1>2. r = [s EXCEPT !.timeout = l]
    BY DEF sched_timeout_insert
<1>3. /\ rest \in Seq(Task) /\ Distinct(rest) /\ ~Contains(rest, t)
      /\ \A x : x # t => (Contains(rest, x) <=> Contains(s.timeout, x))
    <2>1. s.timeout \in Seq(Task) /\ Distinct(s.timeout)
        BY DEF Scheduler, NoRepeats
    <2> QED BY <2>1, RemoveFirstShape
<1>4. later \subseteq DOMAIN rest /\ l = InsertBeforeFirst(rest, t, later)
    OBVIOUS
<1> HIDE DEF rest, later, l
<1>5. Distinct(l) /\ \A x : Contains(l, x) <=> Contains(rest, x) \/ x = t
    BY <1>3, <1>4, InsertContents
<1>6. /\ r.timeout = l
      /\ r.ready = s.ready /\ r.wq = s.wq /\ r.deleted = s.deleted /\ r.mask = s.mask
      /\ r.state = s.state /\ r.timer = s.timer /\ r.wres = s.wres
      /\ Frame(s, r)
    BY <1>2 DEF Scheduler, Frame
<1>7. NoRepeats(r)
    BY <1>5, <1>6 DEF NoRepeats
<1> QED BY <1>1, <1>3, <1>5, <1>6, <1>7

(* The running task leaves the CPU's books: it is on the lists of a        *)
(* blocked task and nothing else has changed.                              *)
LEMMA BlockedSound ==
    ASSUME NEW s, NEW t \in Task, NEW U, NEW B, Sound(s, U, B),
           NEW e, NoRepeats(e), Frame(s, e), e.ready = s.ready, e.mask = s.mask,
           s.state[t] = "RUNNING", e.state[t] = "BLOCKED",
           ~Contains(e.deleted, t),
           \A q, r \in WaitQ : Contains(e.wq[q], t) /\ Contains(e.wq[r], t) => q = r,
           Contains(e.timeout, t) <=> e.timer[t],
           OnWaitQ(e, t) \/ Contains(e.timeout, t),
           \A x \in Task \ {t} : SameTask(s, e, x)
    PROVE  Sound(e, U, B)
<1>1. Placed(s, t) /\ OneRuns(s) /\ ~s.corrupt /\ MaskSound(s, B)
    BY DEF Sound
<1>2. Placed(e, t)
    BY <1>1 DEF Placed
<1>3. MaskSound(e, B)
    BY <1>1 DEF MaskSound
<1>4. /\ \A x \in Task \ {t} : s.state[x] = "RUNNING" => x = e.current
      /\ ~e.corrupt
    BY <1>1 DEF OneRuns, Frame
<1>5. e.state[t] # "READY" /\ e.state[t] # "RUNNING"
    OBVIOUS
<1> QED BY <1>2, <1>3, <1>4, <1>5, OneMoves

IsCurrent(s, t) == t = s.current
NoReason(s, t) == [s EXCEPT !.wres[t] = "NONE"]

QueuedOn(s, e, t, q) ==
    /\ NoRepeats(e)
    /\ Frame(s, e)
    /\ e.ready = s.ready /\ e.deleted = s.deleted /\ e.timeout = s.timeout
    /\ e.mask = s.mask
    /\ e.state[t] = "BLOCKED" /\ e.timer[t] = FALSE /\ e.wres[t] = "NONE"
    /\ \A w \in WaitQ : Contains(e.wq[w], t) <=> w = q
    /\ \A x \in Task \ {t} : SameTask(s, e, x)

(* Where sched_block_current puts the running task. *)
LEMMA BlockEffect ==
    ASSUME NEW s \in Scheduler, NEW q \in WaitQ, NEW U, NEW B, Sound(s, U, B),
           NEW t \in Task, IsCurrent(s, t), s.state[t] = "RUNNING",
           NEW e, e = sched_block_current(NoReason(s, t), q)
    PROVE  e \in Scheduler /\ QueuedOn(s, e, t, q)
<1> DEFINE n == NoReason(s, t)
           b == [n EXCEPT !.state[t] = "BLOCKED", !.timer[t] = FALSE]
           lower == {i \in DOMAIN b.wq[q] : b.prio[b.wq[q][i]] < b.prio[t]}
           l == InsertBeforeFirst(b.wq[q], t, lower)
<1>1. Placed(s, t) /\ NoRepeats(s)
    BY DEF Sound
<1>2. ~OnStateList(s, t) /\ ~Contains(s.timeout, t)
    BY <1>1 DEF Placed, OnStateList, OnReady, OnWaitQ
<1>3. n \in Scheduler /\ n.current = t
    BY DEF Scheduler, WaitResult, IsCurrent, NoReason
<1>4. e \in Scheduler
    BY <1>3, BlockCurrentType
<1>5. /\ b.ready = s.ready /\ b.wq = s.wq /\ b.deleted = s.deleted /\ b.timeout = s.timeout
      /\ b.mask = s.mask
      /\ b.state[t] = "BLOCKED" /\ b.timer[t] = FALSE /\ b.wres[t] = "NONE"
      /\ \A x \in Task \ {t} : /\ b.state[x] = s.state[x]
                               /\ b.timer[x] = s.timer[x]
                               /\ b.wres[x] = s.wres[x]
      /\ b \in Scheduler
      /\ Frame(s, b)
    <2>1. /\ n.ready = s.ready /\ n.wq = s.wq /\ n.deleted = s.deleted /\ n.timeout = s.timeout
          /\ n.mask = s.mask /\ n.state = s.state /\ n.timer = s.timer
          /\ n.wres[t] = "NONE" /\ \A x \in Task \ {t} : n.wres[x] = s.wres[x]
          /\ Frame(s, n)
        BY DEF Scheduler, NoReason, Frame
    <2> HIDE DEF n
    <2>2. /\ b.ready = n.ready /\ b.wq = n.wq /\ b.deleted = n.deleted /\ b.timeout = n.timeout
          /\ b.mask = n.mask /\ b.wres = n.wres /\ Frame(n, b)
        BY <1>3 DEF Scheduler, Frame
    <2>3. /\ b.state[t] = "BLOCKED" /\ b.timer[t] = FALSE
          /\ \A x \in Task \ {t} : b.state[x] = n.state[x] /\ b.timer[x] = n.timer[x]
        BY <1>3 DEF Scheduler
    <2>4. b \in Scheduler
        BY <1>3 DEF Scheduler, TaskState
    <2> HIDE DEF b
    <2> QED BY <2>1, <2>2, <2>3, <2>4 DEF Frame
<1>6. e = [b EXCEPT !.wq[q] = l]
    <2>1. ~OnStateList(b, t)
        BY <1>2, <1>5 DEF OnStateList, OnReady, OnWaitQ
    <2>2. sched_ready_remove(b, t) = b
        BY <2>1, RemoveNothing
    <2> HIDE DEF b
    <2> QED BY <1>3, <2>2 DEF sched_block_current, b
<1> HIDE DEF n, b
<1>7. lower \subseteq DOMAIN b.wq[q] /\ l = InsertBeforeFirst(b.wq[q], t, lower)
    OBVIOUS
<1> HIDE DEF lower, l
<1>8. b.wq[q] \in Seq(Task) /\ Distinct(b.wq[q]) /\ ~Contains(b.wq[q], t)
    BY <1>1, <1>2, <1>5 DEF Scheduler, NoRepeats, OnStateList, OnWaitQ
<1>9. Distinct(l) /\ \A x : Contains(l, x) <=> Contains(s.wq[q], x) \/ x = t
    BY <1>5, <1>7, <1>8, InsertContents
<1>10. /\ e.wq[q] = l
       /\ \A w \in WaitQ \ {q} : e.wq[w] = b.wq[w]
       /\ e.ready = b.ready /\ e.deleted = b.deleted /\ e.timeout = b.timeout
       /\ e.mask = b.mask /\ e.state = b.state /\ e.timer = b.timer /\ e.wres = b.wres
       /\ Frame(b, e)
    BY <1>5, <1>6 DEF Scheduler, Frame
<1>11. NoRepeats(e)
    BY <1>1, <1>5, <1>9, <1>10 DEF NoRepeats
<1>12. Frame(s, e)
    BY <1>5, <1>10 DEF Frame
<1>13. \A w \in WaitQ : Contains(e.wq[w], t) <=> w = q
    BY <1>2, <1>5, <1>9, <1>10 DEF OnStateList, OnWaitQ
<1>14. \A x \in Task \ {t} : SameTask(s, e, x)
    BY <1>5, <1>9, <1>10 DEF SameTask, Frame
<1> QED BY <1>4, <1>5, <1>10, <1>11, <1>12, <1>13, <1>14 DEF QueuedOn

(* The running task e blocks. *)
Blocks(s, e, t) ==
    /\ Frame(s, e)
    /\ e.state[t] = "BLOCKED"
    /\ e.wres[t] = "NONE"
    /\ e.mask = s.mask
    /\ ~OnReady(e, t)
    /\ \A x \in Task \ {t} : SameTask(s, e, x)

(* trt_wait_q_block_locked when it is not refused. *)
LEMMA WaitBlockSound ==
    ASSUME NEW s \in Scheduler, NEW q \in WaitQ, NEW U, NEW B, Sound(s, U, B),
           NEW t \in Task, IsCurrent(s, t), s.state[t] = "RUNNING", ~BlockRefused(s),
           NEW e, e = trt_wait_q_block_locked(s, q)
    PROVE  Sound(e, U, B) /\ Blocks(s, e, t)
<1>1. e = sched_block_current(NoReason(s, t), q)
    BY DEF trt_wait_q_block_locked, IsCurrent, NoReason
<1>2. /\ e \in Scheduler
      /\ NoRepeats(e)
      /\ Frame(s, e)
      /\ e.ready = s.ready /\ e.deleted = s.deleted /\ e.timeout = s.timeout
      /\ e.mask = s.mask
      /\ e.state[t] = "BLOCKED" /\ e.timer[t] = FALSE /\ e.wres[t] = "NONE"
      /\ \A w \in WaitQ : Contains(e.wq[w], t) <=> w = q
      /\ \A x \in Task \ {t} : SameTask(s, e, x)
    <2>1. e \in Scheduler /\ QueuedOn(s, e, t, q)
        BY <1>1, BlockEffect
    <2> QED BY <2>1 DEF QueuedOn
<1>3. Placed(s, t)
    BY DEF Sound
<1>4. ~Contains(e.deleted, t) /\ ~Contains(e.timeout, t) /\ OnWaitQ(e, t) /\ ~OnReady(e, t)
    BY <1>2, <1>3 DEF Placed, OnWaitQ, OnReady
<1>5. \A w, v \in WaitQ : Contains(e.wq[w], t) /\ Contains(e.wq[v], t) => w = v
    BY <1>2
<1>6. Contains(e.timeout, t) <=> e.timer[t]
    BY <1>2, <1>4
<1>7. Sound(e, U, B)
    BY <1>2, <1>4, <1>5, <1>6, BlockedSound
<1> QED BY <1>2, <1>4, <1>7 DEF Blocks

(* The same with a timeout. *)
LEMMA TimedBlockSound ==
    ASSUME NEW s \in Scheduler, NEW q \in WaitQ, NEW U, NEW B, Sound(s, U, B),
           NEW t \in Task, IsCurrent(s, t), s.state[t] = "RUNNING", ~BlockRefused(s),
           NEW d \in Nat, NEW now \in Ticks,
           NEW e, e = trt_wait_q_block_ticks_locked(s, q, d, now)
    PROVE  Sound(e, U, B) /\ Blocks(s, e, t)
<1> DEFINE b == trt_wait_q_block_locked(s, q)
           due == (now + d) % TickMod
           n == [b EXCEPT !.wakeup[t] = due, !.timer[t] = TRUE, !.wres[t] = "NONE"]
<1>1. e = sched_timeout_insert(n, t)
    BY DEF trt_wait_q_block_ticks_locked, IsCurrent
<1>2. b = sched_block_current(NoReason(s, t), q)
    BY DEF trt_wait_q_block_locked, IsCurrent, NoReason
<1> HIDE DEF b
<1>3. /\ b \in Scheduler
      /\ NoRepeats(b)
      /\ Frame(s, b)
      /\ b.ready = s.ready /\ b.deleted = s.deleted /\ b.timeout = s.timeout
      /\ b.mask = s.mask
      /\ b.state[t] = "BLOCKED"
      /\ \A w \in WaitQ : Contains(b.wq[w], t) <=> w = q
      /\ \A x \in Task \ {t} : SameTask(s, b, x)
    <2>1. b \in Scheduler /\ QueuedOn(s, b, t, q)
        BY <1>2, BlockEffect
    <2> QED BY <2>1 DEF QueuedOn
<1>4. due \in Ticks
    BY SchedAssumption DEF Ticks
<1> HIDE DEF due
<1>5. /\ n \in Scheduler
      /\ n.ready = b.ready /\ n.deleted = b.deleted /\ n.timeout = b.timeout /\ n.wq = b.wq
      /\ n.mask = b.mask /\ n.state = b.state
      /\ n.timer[t] = TRUE /\ n.wres[t] = "NONE"
      /\ \A x \in Task \ {t} : n.timer[x] = b.timer[x] /\ n.wres[x] = b.wres[x]
      /\ Frame(b, n)
    BY <1>3, <1>4 DEF Scheduler, Frame, WaitResult
<1> HIDE DEF n
<1>6. NoRepeats(n) /\ n.timer[t]
    BY <1>3, <1>5 DEF NoRepeats
<1>7. /\ NoRepeats(e)
      /\ Frame(n, e)
      /\ e.ready = n.ready /\ e.wq = n.wq /\ e.deleted = n.deleted /\ e.mask = n.mask
      /\ e.state = n.state /\ e.timer = n.timer /\ e.wres = n.wres
      /\ Contains(e.timeout, t)
      /\ \A x : x # t => (Contains(e.timeout, x) <=> Contains(n.timeout, x))
    BY <1>1, <1>5, <1>6, TimeoutInsertEffect
<1>8. Placed(s, t)
    BY DEF Sound
<1>9. ~Contains(e.deleted, t) /\ ~OnReady(e, t)
    BY <1>3, <1>5, <1>7, <1>8 DEF Placed, OnReady
<1>10. \A w, v \in WaitQ : Contains(e.wq[w], t) /\ Contains(e.wq[v], t) => w = v
    BY <1>3, <1>5, <1>7
<1>11. \A x \in Task \ {t} : SameTask(s, e, x)
    <2>1. \A x \in Task \ {t} : SameTask(b, e, x)
        BY <1>5, <1>7 DEF SameTask, Frame
    <2> QED BY <1>3, <2>1 DEF SameTask
<1>12. Frame(s, e) /\ e.ready = s.ready /\ e.mask = s.mask
    BY <1>3, <1>5, <1>7 DEF Frame
<1>13. e.state[t] = "BLOCKED" /\ e.wres[t] = "NONE" /\ e.timer[t]
    BY <1>3, <1>5, <1>6, <1>7
<1>14. Sound(e, U, B)
    BY <1>7, <1>9, <1>10, <1>11, <1>12, <1>13, BlockedSound
<1> QED BY <1>9, <1>11, <1>12, <1>13, <1>14 DEF Blocks

(* task_sleep: the running task goes to the timeout list only. *)
LEMMA SleepSound ==
    ASSUME NEW s \in Scheduler, NEW U, NEW B, Sound(s, U, B),
           NEW t \in Task, IsCurrent(s, t), s.state[t] = "RUNNING", NEW due \in Ticks,
           NEW e, e = sched_timeout_insert(sched_ready_remove(
                          [s EXCEPT !.wakeup[t] = due, !.timer[t] = TRUE,
                                    !.wres[t] = "NONE", !.state[t] = "BLOCKED"], t), t)
    PROVE  Sound(e, U, B) /\ Blocks(s, e, t)
<1> DEFINE b == [s EXCEPT !.wakeup[t] = due, !.timer[t] = TRUE,
                          !.wres[t] = "NONE", !.state[t] = "BLOCKED"]
<1>1. Placed(s, t) /\ NoRepeats(s)
    BY DEF Sound
<1>2. ~OnStateList(s, t) /\ ~Contains(s.timeout, t)
    BY <1>1 DEF Placed, OnStateList, OnReady, OnWaitQ
<1>3. /\ b \in Scheduler
      /\ b.ready = s.ready /\ b.wq = s.wq /\ b.deleted = s.deleted /\ b.timeout = s.timeout
      /\ b.mask = s.mask
      /\ b.state[t] = "BLOCKED" /\ b.timer[t] = TRUE /\ b.wres[t] = "NONE"
      /\ \A x \in Task \ {t} : /\ b.state[x] = s.state[x]
                               /\ b.timer[x] = s.timer[x]
                               /\ b.wres[x] = s.wres[x]
      /\ Frame(s, b)
    BY DEF Scheduler, Frame, TaskState, WaitResult
<1>3a. e = sched_timeout_insert(sched_ready_remove(b, t), t)
    OBVIOUS
<1> HIDE DEF b
<1>4. ~OnStateList(b, t) /\ NoRepeats(b) /\ b.timer[t]
    BY <1>1, <1>2, <1>3 DEF OnStateList, OnReady, OnWaitQ, NoRepeats
<1>5. e = sched_timeout_insert(b, t)
    BY <1>3a, <1>4, RemoveNothing
<1>6. /\ NoRepeats(e)
      /\ Frame(b, e)
      /\ e.ready = b.ready /\ e.wq = b.wq /\ e.deleted = b.deleted /\ e.mask = b.mask
      /\ e.state = b.state /\ e.timer = b.timer /\ e.wres = b.wres
      /\ Contains(e.timeout, t)
      /\ \A x : x # t => (Contains(e.timeout, x) <=> Contains(b.timeout, x))
    BY <1>3, <1>4, <1>5, TimeoutInsertEffect
<1>7. ~Contains(e.deleted, t) /\ ~OnReady(e, t) /\ \A w \in WaitQ : ~Contains(e.wq[w], t)
    BY <1>2, <1>3, <1>6 DEF OnStateList, OnReady, OnWaitQ
<1>8. \A x \in Task \ {t} : SameTask(s, e, x)
    BY <1>3, <1>6 DEF SameTask, Frame
<1>9. Frame(s, e) /\ e.ready = s.ready /\ e.mask = s.mask
    BY <1>3, <1>6 DEF Frame
<1>10. e.state[t] = "BLOCKED" /\ e.wres[t] = "NONE" /\ e.timer[t]
    BY <1>3, <1>4, <1>6
<1>11. Sound(e, U, B)
    BY <1>6, <1>7, <1>8, <1>9, <1>10, BlockedSound
<1> QED BY <1>7, <1>8, <1>9, <1>10, <1>11 DEF Blocks

-----------------------------------------------------------------------------
(* What a switch leaves alone. *)
SwitchFrame(s, e) ==
    /\ e.idle = s.idle /\ e.started = s.started /\ e.lock = s.lock
    /\ e.prio = s.prio /\ e.timer = s.timer /\ e.wres = s.wres /\ e.wakeup = s.wakeup
    /\ e.wq = s.wq /\ e.deleted = s.deleted /\ e.timeout = s.timeout
    /\ \A x \in Task : \/ e.state[x] = s.state[x]
                       \/ /\ s.state[x] \in {"READY", "RUNNING"}
                          /\ e.state[x] \in {"READY", "RUNNING"}
    /\ \A x \in Task \ {Idle} :
          s.state[x] = "READY" /\ ~OnReady(s, x) => e.state[x] = "READY" /\ ~OnReady(e, x)

(* The running task has gone back to its ready list. *)
Requeued(s, r) ==
    /\ SwitchFrame(s, r)
    /\ \A x \in Task : r.state[x] # "RUNNING"

(* The running task goes back to the tail of its list. *)
LEMMA RequeueSound ==
    ASSUME NEW s \in Scheduler, NEW U, Sound(s, U, {}), s.idle = Idle,
           NEW r, r = Requeue(s)
    PROVE  Sound(r, U \cup {Idle}, {}) /\ Requeued(s, r)
<1> DEFINE t == s.current
           b == [s EXCEPT !.state[t] = "READY"]
<1>1. Sound(s, U \cup {Idle}, {}) /\ OneRuns(s)
    BY SoundWeaken DEF Sound
<1>2. CASE t = None \/ s.state[t] # "RUNNING"
    <2>1. r = s
        BY <1>2 DEF Requeue
    <2>2. \A x \in Task : s.state[x] # "RUNNING"
        BY <1>1, <1>2, SchedAssumption DEF OneRuns
    <2> QED BY <1>1, <2>1, <2>2 DEF Requeued, SwitchFrame
<1>3. CASE t # None /\ s.state[t] = "RUNNING"
    <2>1. t \in Task
        BY <1>3 DEF Scheduler
    <2>2. IF t = Idle THEN r = b ELSE r = sched_ready_enqueue(b, t)
        BY <1>3 DEF Requeue
    <2>3. Placed(s, t) /\ NoRepeats(s) /\ MaskSound(s, {}) /\ ~s.corrupt
        BY <2>1 DEF Sound
    <2>4. t = s.current
        OBVIOUS
    <2> HIDE DEF t
    <2>5. /\ b \in Scheduler
          /\ b.ready = s.ready /\ b.wq = s.wq /\ b.deleted = s.deleted /\ b.timeout = s.timeout
          /\ b.mask = s.mask /\ b.timer = s.timer /\ b.wres = s.wres /\ b.wakeup = s.wakeup
          /\ b.state[t] = "READY"
          /\ \A x \in Task \ {t} : b.state[x] = s.state[x]
          /\ Frame(s, b)
        BY <2>1 DEF Scheduler, Frame, TaskState
    <2> HIDE DEF b
    <2>6. NoRepeats(b) /\ MaskSound(b, {}) /\ ~b.corrupt
        BY <2>3, <2>5 DEF NoRepeats, MaskSound, Frame
    <2>7. ~OnReady(s, t) /\ ~OnReady(b, t)
        BY <1>3, <2>3, <2>5 DEF Placed, OnReady
    <2>8. Placed(b, t)
        BY <1>3, <2>3, <2>5, <2>7 DEF Placed, OnReady
    <2>9. \A x \in Task \ {t} : SameTask(s, b, x)
        BY <2>5 DEF SameTask, Frame
    <2>10. \A x \in Task \ {t} : s.state[x] # "RUNNING"
        BY <1>1, <2>4 DEF OneRuns
    <2>11. Sound(b, U \cup {Idle, t}, {})
        BY <2>1, <2>5, <2>6, <2>8, <2>9, <2>10, OneMoves
    <2>12. \A x \in Task : b.state[x] # "RUNNING"
        BY <2>5, <2>10
    <2>13. CASE t = Idle
        <3>1. Sound(b, U \cup {Idle}, {})
            BY <2>11, <2>13, SoundWeaken
        <3>2. SwitchFrame(s, b)
            BY <1>3, <2>5, <2>13 DEF SwitchFrame, Frame, OnReady
        <3> QED BY <2>2, <2>12, <2>13, <3>1, <3>2 DEF Requeued
    <2>14. CASE t # Idle
        <3>1. r = sched_ready_enqueue(b, t)
            BY <2>2, <2>14
        <3>2. /\ Sound(r, (U \cup {Idle, t}) \ {t}, {})
              /\ Frame(b, r)
              /\ r.state = b.state
              /\ \A x \in Task \ {t} : SameTask(b, r, x)
            <4>1. /\ b \in Scheduler /\ t \in Task /\ Sound(b, U \cup {Idle, t}, {})
                  /\ b.state[t] = "READY" /\ ~OnReady(b, t)
                BY <2>1, <2>5, <2>7, <2>11
            <4> QED BY <3>1, <4>1, LinkSound
        <3>3. Sound(r, U \cup {Idle}, {})
            BY <3>2, SoundWeaken
        <3>4. /\ r.wq = b.wq /\ r.deleted = b.deleted /\ r.timeout = b.timeout
              /\ r.timer = b.timer /\ r.wres = b.wres /\ r.wakeup = b.wakeup
            BY <2>5, <3>1 DEF sched_ready_enqueue, ready_link, Scheduler
        <3>5. \A x \in Task \ {t} : OnReady(r, x) <=> OnReady(s, x)
            BY <2>9, <3>2 DEF SameTask, OnReady
        <3>6. SwitchFrame(s, r)
            BY <1>3, <2>5, <3>2, <3>4, <3>5 DEF SwitchFrame, Frame
        <3>7. \A x \in Task : r.state[x] # "RUNNING"
            BY <2>12, <3>2
        <3> QED BY <3>3, <3>6, <3>7 DEF Requeued
    <2> QED BY <2>13, <2>14
<1> QED BY <1>2, <1>3

(* The task that was chosen runs and no ready task outranks it. *)
Picked(s, e) ==
    /\ SwitchFrame(s, e)
    /\ e.current \in Task
    /\ e.state[e.current] = "RUNNING"
    /\ \A x \in Task \ {Idle} : s.state[x] = "READY" /\ ~OnReady(s, x) => x # e.current
    /\ \A p \in Prio : e.ready[p] # <<>> => p <= e.prio[e.current]

(* The head of the highest list becomes the current task. *)
LEMMA PopSound ==
    ASSUME NEW s \in Scheduler, NEW U, Sound(s, U, {}), s.mask # {},
           \A x \in Task : s.state[x] # "RUNNING",
           NEW e, e = sched_ready_pop_highest(s)
    PROVE  Sound(e, U, {}) /\ Picked(s, e)
<1> DEFINE p == Max(s.mask)
           t == Head(s.ready[p])
           l == Tail(s.ready[p])
           m == IF l = <<>> THEN s.mask \ {p} ELSE s.mask
           f == [s EXCEPT !.ready[p] = l, !.mask = m, !.state[t] = "RUNNING", !.current = t]
<1>1. p \in s.mask /\ p \in Prio /\ \A y \in s.mask : p >= y
    BY SchedAssumption, MaxGreatest DEF Scheduler, Prio
<1>2. s.ready[p] # <<>> /\ s.ready[p] \in Seq(Task) /\ NoRepeats(s) /\ Distinct(s.ready[p])
    BY <1>1 DEF Sound, MaskSound, NoRepeats, Scheduler
<1>3. e = f
    BY <1>2 DEF sched_ready_pop_highest
<1>4. /\ t \in Task /\ Contains(s.ready[p], t) /\ l \in Seq(Task)
      /\ Distinct(l) /\ ~Contains(l, t)
      /\ \A x : x # t => (Contains(l, x) <=> Contains(s.ready[p], x))
    BY <1>2, TailShape
<1>5. Placed(s, t) /\ s.state[t] = "READY" /\ s.prio[t] = p
    BY <1>1, <1>4 DEF Sound, Placed
<1>5a. /\ m \subseteq s.mask
       /\ \A x \in s.mask : x # p => x \in m
       /\ p \in m <=> l # <<>>
    BY <1>1
<1> HIDE DEF p, t, l, m
<1>6. /\ f.ready[p] = l
      /\ \A x \in Prio \ {p} : f.ready[x] = s.ready[x]
      /\ f.mask = m /\ f.current = t
      /\ f.state[t] = "RUNNING"
      /\ \A x \in Task \ {t} : f.state[x] = s.state[x]
      /\ f.wq = s.wq /\ f.deleted = s.deleted /\ f.timeout = s.timeout
      /\ f.timer = s.timer /\ f.wres = s.wres /\ f.wakeup = s.wakeup /\ f.prio = s.prio
      /\ f.idle = s.idle /\ f.started = s.started /\ f.lock = s.lock /\ f.corrupt = s.corrupt
    BY <1>1, <1>4 DEF Scheduler
<1> HIDE DEF f
<1>7. NoRepeats(f)
    BY <1>2, <1>4, <1>6 DEF NoRepeats
<1>8. \A x \in Task \ {t} : SameTask(s, f, x)
    BY <1>4, <1>6 DEF SameTask
<1>9. ~OnReady(f, t)
    BY <1>4, <1>5, <1>6 DEF Placed, OnReady
<1>10. Placed(f, t)
    BY <1>5, <1>6, <1>9 DEF Placed, OnReady
<1>11. MaskSound(f, {})
    BY <1>1, <1>5a, <1>6 DEF Sound, MaskSound
<1>12. ~f.corrupt
    BY <1>6 DEF Sound
<1>13. Sound(f, U, {})
    BY <1>4, <1>6, <1>7, <1>8, <1>10, <1>11, <1>12, OneMoves
<1>14. \A x \in Prio : f.ready[x] # <<>> => x <= f.prio[f.current]
    BY <1>1, <1>5, <1>5a, <1>6, <1>11 DEF MaskSound
<1>15. OnReady(s, t)
    BY <1>1, <1>4 DEF OnReady
<1>16. \A x \in Task \ {t} : OnReady(f, x) <=> OnReady(s, x)
    BY <1>8 DEF SameTask, OnReady
<1>17. SwitchFrame(s, f)
    BY <1>5, <1>6, <1>15, <1>16 DEF SwitchFrame
<1>18. Picked(s, f)
    BY <1>4, <1>6, <1>14, <1>15, <1>17 DEF Picked
<1> QED BY <1>3, <1>13, <1>18

(* sched_pick_next finds a task: the first of the highest priority, or the *)
(* idle task.                                                              *)
LEMMA PickNextSound ==
    ASSUME NEW s \in Scheduler, NEW U, Sound(s, U, {}), s.idle = Idle,
           s.state[Idle] \in {"READY", "RUNNING"},
           NEW e, e = sched_pick_next(s)
    PROVE  Sound(e, U \cup {Idle}, {}) /\ Picked(s, e)
<1> DEFINE r == Requeue(s)
<1>0. r = Requeue(s)
    OBVIOUS
<1>1. e = IF r.mask # {}
          THEN sched_ready_pop_highest(r)
          ELSE IF r.idle # None
               THEN [r EXCEPT !.state[r.idle] = "RUNNING", !.current = r.idle]
               ELSE r
    BY DEF sched_pick_next
<1> HIDE DEF r
<1>2. Sound(r, U \cup {Idle}, {}) /\ Requeued(s, r)
    BY <1>0, RequeueSound
<1>3. r \in Scheduler
    BY <1>0, RequeueType
<1>4. SwitchFrame(s, r) /\ \A x \in Task : r.state[x] # "RUNNING"
    BY <1>2 DEF Requeued
<1>5. CASE r.mask # {}
    <2>1. e = sched_ready_pop_highest(r)
        BY <1>1, <1>5
    <2>2. Sound(e, U \cup {Idle}, {}) /\ Picked(r, e)
        BY <1>2, <1>3, <1>4, <1>5, <2>1, PopSound
    <2>3. Picked(s, e)
        BY <1>4, <2>2 DEF Picked, SwitchFrame
    <2> QED BY <2>2, <2>3
<1>6. CASE r.mask = {}
    <2> DEFINE f == [r EXCEPT !.state[Idle] = "RUNNING", !.current = Idle]
    <2>1. e = f
        BY <1>1, <1>4, <1>6, SchedAssumption DEF SwitchFrame
    <2>2. r.state[Idle] = "READY"
        BY <1>4, SchedAssumption DEF SwitchFrame
    <2>3. /\ f.ready = r.ready /\ f.mask = r.mask /\ f.current = Idle
          /\ f.state[Idle] = "RUNNING"
          /\ \A x \in Task \ {Idle} : f.state[x] = r.state[x]
          /\ f.wq = r.wq /\ f.deleted = r.deleted /\ f.timeout = r.timeout
          /\ f.timer = r.timer /\ f.wres = r.wres /\ f.wakeup = r.wakeup /\ f.prio = r.prio
          /\ f.idle = r.idle /\ f.started = r.started /\ f.lock = r.lock
          /\ f.corrupt = r.corrupt
        BY <1>3, SchedAssumption DEF Scheduler
    <2> HIDE DEF f
    <2>4. /\ NoRepeats(r) /\ Placed(r, Idle) /\ MaskSound(r, {}) /\ ~r.corrupt
        BY <1>2, SchedAssumption DEF Sound
    <2>5. \A p \in Prio : r.ready[p] = <<>>
        BY <1>6, <2>4 DEF MaskSound
    <2>6. NoRepeats(f) /\ MaskSound(f, {}) /\ ~f.corrupt
        BY <2>3, <2>4 DEF NoRepeats, MaskSound
    <2>7. \A x : ~OnReady(f, x) /\ ~OnReady(r, x)
        BY <1>3, <2>3, <2>5, EmptyShape DEF OnReady, Scheduler
    <2>8. Placed(f, Idle)
        BY <2>2, <2>3, <2>4, <2>7 DEF Placed, OnReady
    <2>9. \A x \in Task \ {Idle} : SameTask(r, f, x)
        BY <2>3 DEF SameTask
    <2>10. Sound(f, U \cup {Idle}, {})
        BY <1>2, <1>4, <2>3, <2>6, <2>8, <2>9, OneMoves, SchedAssumption
    <2>11. SwitchFrame(r, f)
        BY <2>2, <2>3, <2>7 DEF SwitchFrame
    <2>12. SwitchFrame(s, f)
        BY <1>4, <2>11 DEF SwitchFrame
    <2>13. \A p \in Prio : f.ready[p] = <<>>
        BY <2>3, <2>5
    <2>14. Picked(s, f)
        BY <2>3, <2>12, <2>13, SchedAssumption DEF Picked
    <2> QED BY <2>1, <2>10, <2>14
<1> QED BY <1>5, <1>6

(* A switch, or none. *)
Switched(s, e) ==
    /\ SwitchFrame(s, e)
    /\ e.current \in Task
    /\ e.state[e.current] = "RUNNING"
    /\ \A x \in Task \ {Idle} : s.state[x] = "READY" /\ ~OnReady(s, x) => x # e.current
    /\ s.lock > 0 => e.current = s.current

(* No ready task outranks the current one. *)
HighestRuns(s) == \A p \in Prio : s.ready[p] # <<>> => p <= s.prio[s.current]

(* What is known of the scheduler in a trap. *)
TrapReady(s) ==
    /\ s \in Scheduler
    /\ s.idle = Idle /\ s.state[Idle] \in {"READY", "RUNNING"}
    /\ s.current \in Task
    /\ s.lock > 0 => s.state[s.current] = "RUNNING" /\ s.current # Idle

(* A switch in a trap. *)
LEMMA PickInTrap ==
    ASSUME NEW s, TrapReady(s), NEW U, Sound(s, U, {}), Idle \in U, s.lock = 0,
           NEW e, e = sched_pick_next(s)
    PROVE  Sound(e, U, {}) /\ Switched(s, e) /\ TrapReady(e) /\ HighestRuns(e)
<1>1. Sound(e, U \cup {Idle}, {}) /\ Picked(s, e) /\ e \in Scheduler
    BY PickNextSound, PickNextType DEF TrapReady
<1>2. Sound(e, U, {})
    BY <1>1, SoundWeaken
<1>3. Switched(s, e) /\ HighestRuns(e)
    BY <1>1 DEF Picked, Switched, HighestRuns
<1>4. TrapReady(e)
    BY <1>1, SchedAssumption DEF Picked, SwitchFrame, TrapReady
<1> QED BY <1>2, <1>3, <1>4

(* A change of the flags only. *)
LEMMA FlagsInTrap ==
    ASSUME NEW s, TrapReady(s), NEW U, Sound(s, U, {}), NEW r \in Scheduler, Similar(s, r),
           r.wres = s.wres, r.wakeup = s.wakeup
    PROVE  /\ Sound(r, U, {}) /\ TrapReady(r) /\ SwitchFrame(s, r)
           /\ s.state[s.current] = "RUNNING" => Switched(s, r)
           /\ \A e : Switched(r, e) => Switched(s, e)
<1>1. Sound(r, U, {}) /\ \A x : OnReady(r, x) <=> OnReady(s, x)
    BY SimilarSound
<1>2. TrapReady(r)
    BY DEF TrapReady, Similar, Frame
<1>3. SwitchFrame(s, r)
    BY <1>1 DEF Similar, Frame, SwitchFrame
<1>4. ASSUME s.state[s.current] = "RUNNING" PROVE Switched(s, r)
    BY <1>3, <1>4 DEF Similar, Frame, Switched, TrapReady
<1>5. ASSUME NEW e, Switched(r, e) PROVE Switched(s, e)
    BY <1>1, <1>3, <1>5 DEF Similar, Frame, Switched, SwitchFrame
<1> QED BY <1>1, <1>2, <1>3, <1>4, <1>5

(* The tick branch of do_trap. *)
LEMMA TickSound ==
    ASSUME NEW s, TrapReady(s), NEW U, Sound(s, U, {}), Idle \in U,
           s.state[s.current] = "RUNNING",
           NEW e, e = tick_reschedule(s)
    PROVE  Sound(e, U, {}) /\ Switched(s, e) /\ (e.lock > 0 \/ HighestRuns(e))
<1> DEFINE n == sched_on_tick_slice(s)
           r == [s EXCEPT !.slice = n]
<1>1. n \in Nat /\ s \in Scheduler
    BY DEF sched_on_tick_slice, TrapReady, Scheduler
<1>2. e = IF ~sched_on_tick_switch(s)
          THEN r
          ELSE IF sched_is_locked(s) THEN [r EXCEPT !.pending = TRUE] ELSE sched_pick_next(r)
    BY DEF tick_reschedule, sched_set_pending
<1> HIDE DEF n
<1>3. /\ r \in Scheduler /\ Similar(s, r) /\ r.wres = s.wres /\ r.wakeup = s.wakeup
    BY <1>1 DEF Scheduler, Similar, Frame
<1> HIDE DEF r
<1>4. /\ Sound(r, U, {}) /\ TrapReady(r)
      /\ Switched(s, r)
      /\ \A f : Switched(r, f) => Switched(s, f)
    BY <1>3, FlagsInTrap
<1>5. CASE ~sched_on_tick_switch(s)
    <2>1. e = r
        BY <1>2, <1>5
    <2>2. \A p \in s.mask : p <= s.prio[s.current]
        BY <1>1, <1>5 DEF sched_on_tick_switch, sched_has_higher_priority_ready, TrapReady,
                          Scheduler, Prio
    <2>3. HighestRuns(r)
        BY <1>3, <2>2 DEF HighestRuns, Sound, MaskSound, Similar, Frame
    <2> QED BY <1>4, <2>1, <2>3
<1>6. CASE sched_on_tick_switch(s) /\ sched_is_locked(s)
    <2> DEFINE f == [r EXCEPT !.pending = TRUE]
    <2>1. e = f
        BY <1>2, <1>6
    <2>2. f \in Scheduler /\ Similar(r, f) /\ f.wres = r.wres /\ f.wakeup = r.wakeup
        BY <1>3 DEF Scheduler, Similar, Frame
    <2> HIDE DEF f
    <2>3. r.state[r.current] = "RUNNING" /\ f.lock > 0
        BY <1>1, <1>3, <1>6, <2>2 DEF Similar, Frame, sched_is_locked, Scheduler
    <2>4. Sound(f, U, {}) /\ Switched(r, f)
        BY <1>4, <2>2, <2>3, FlagsInTrap
    <2> QED BY <1>4, <2>1, <2>3, <2>4
<1>7. CASE sched_on_tick_switch(s) /\ ~sched_is_locked(s)
    <2>1. e = sched_pick_next(r) /\ r.lock = 0
        BY <1>1, <1>2, <1>3, <1>7 DEF sched_is_locked, Similar, Frame
    <2>2. Sound(e, U, {}) /\ Switched(r, e) /\ HighestRuns(e)
        BY <1>4, <2>1, PickInTrap
    <2> QED BY <1>4, <2>2
<1> QED BY <1>5, <1>6, <1>7

(* sched_try_reschedule_from_trap *)
LEMMA TrySound ==
    ASSUME NEW s, TrapReady(s), NEW U, Sound(s, U, {}), Idle \in U,
           s.state[s.current] = "RUNNING",
           NEW e, e = sched_try_reschedule_from_trap(s)
    PROVE  Sound(e, U, {}) /\ Switched(s, e)
<1> DEFINE r == [s EXCEPT !.pending = FALSE]
<1>0. s \in Scheduler
    BY DEF TrapReady
<1>1. e = s \/ e = r \/ (e = sched_pick_next(r) /\ ~sched_is_locked(s))
    BY DEF sched_try_reschedule_from_trap
<1>2. /\ r \in Scheduler /\ Similar(s, r) /\ r.wres = s.wres /\ r.wakeup = s.wakeup
    BY <1>0 DEF Scheduler, Similar, Frame
<1> HIDE DEF r
<1>3. /\ Sound(r, U, {}) /\ TrapReady(r)
      /\ Switched(s, r)
      /\ \A f : Switched(r, f) => Switched(s, f)
    BY <1>2, FlagsInTrap
<1>4. CASE e = s
    <2>1. Similar(s, s)
        BY DEF Similar, Frame
    <2>2. Switched(s, s)
        BY <1>0, <2>1, FlagsInTrap
    <2> QED BY <1>4, <2>2
<1>5. CASE e = r
    BY <1>3, <1>5
<1>6. CASE e = sched_pick_next(r) /\ ~sched_is_locked(s)
    <2>1. r.lock = 0
        BY <1>2, <1>6 DEF sched_is_locked, Similar, Frame
    <2>2. Sound(e, U, {}) /\ Switched(r, e)
        BY <1>3, <1>6, <2>1, PickInTrap
    <2> QED BY <1>3, <2>2
<1> QED BY <1>1, <1>4, <1>5, <1>6

(* Two switches in a row. *)
LEMMA SwitchedTwice ==
    ASSUME NEW s, NEW r, NEW e, Switched(s, r), Switched(r, e)
    PROVE  Switched(s, e)
BY DEF Switched, SwitchFrame

(* The end of do_trap. *)
LEMMA TrapSwitchSound ==
    ASSUME TrapReady(k), NEW U, Sound(k, U, {}), Idle \in U,
           NEW e, e = SwitchedFromTrap
    PROVE  /\ Sound(e, U, {}) /\ Switched(k, e)
           /\ trap = "tick" => e.lock > 0 \/ HighestRuns(e)
<1> DEFINE s == IF MustSwitch
                THEN sched_pick_next(k)
                ELSE IF trap = "tick" THEN tick_reschedule(k) ELSE k
<1>1. e = IF trap = "tick" \/ s.corrupt THEN s ELSE sched_try_reschedule_from_trap(s)
    BY DEF SwitchedFromTrap
<1>1a. k \in Scheduler /\ k.current # None
    BY SchedAssumption DEF TrapReady
<1>2. /\ Sound(s, U, {}) /\ Switched(k, s)
      /\ trap = "tick" => s.lock > 0 \/ HighestRuns(s)
      /\ s \in Scheduler
    <2>1. CASE MustSwitch
        <3>1. k.lock = 0
            BY <1>1a, <2>1 DEF MustSwitch, TrapReady, sched_current_is_idle, Scheduler
        <3>2. s = sched_pick_next(k)
            BY <2>1
        <3> QED BY <1>1a, <3>1, <3>2, PickInTrap, PickNextType
    <2>2. CASE ~MustSwitch /\ trap = "tick"
        <3>1. s = tick_reschedule(k) /\ k.state[k.current] = "RUNNING"
            BY <2>2 DEF MustSwitch
        <3>2. s \in Scheduler
            BY <1>1a, <3>1, TrapType
        <3> HIDE DEF s
        <3> QED BY <3>1, <3>2, TickSound
    <2>3. CASE ~MustSwitch /\ trap # "tick"
        <3>1. s = k /\ k.state[k.current] = "RUNNING"
            BY <2>3 DEF MustSwitch
        <3>2. Similar(k, k)
            BY DEF Similar, Frame
        <3>3. Switched(k, k)
            BY <1>1a, <3>1, <3>2, FlagsInTrap
        <3> HIDE DEF s
        <3> QED BY <1>1a, <2>3, <3>1, <3>3
    <2> QED BY <2>1, <2>2, <2>3
<1> HIDE DEF s
<1>3. ~s.corrupt
    BY <1>2 DEF Sound
<1>4. CASE trap = "tick"
    BY <1>1, <1>2, <1>4
<1>5. CASE trap # "tick"
    <2>1. e = sched_try_reschedule_from_trap(s)
        BY <1>1, <1>3, <1>5
    <2>2. TrapReady(s) /\ s.state[s.current] = "RUNNING"
        <3>1. /\ SwitchFrame(k, s) /\ s.current \in Task /\ s.state[s.current] = "RUNNING"
              /\ s.lock = k.lock
              /\ k.lock > 0 => s.current = k.current
            BY <1>2 DEF Switched, SwitchFrame
        <3>2. s.idle = Idle /\ s.state[Idle] \in {"READY", "RUNNING"}
            BY <3>1, SchedAssumption DEF TrapReady, SwitchFrame
        <3> QED BY <1>2, <3>1, <3>2 DEF TrapReady
    <2>3. Sound(e, U, {}) /\ Switched(s, e)
        BY <1>2, <2>1, <2>2, TrySound
    <2>4. Switched(k, e)
        BY <1>2, <2>3, SwitchedTwice
    <2> QED BY <1>5, <2>3, <2>4
<1> QED BY <1>4, <1>5

(* The store of READY in task_yield: the task is on no list yet. *)
StoredReady(s, t) == [s EXCEPT !.state[t] = "READY"]

(* Until it is linked the task is one of the excused. *)
LEMMA StoreReadySound ==
    ASSUME NEW s \in Scheduler, NEW t \in Task, NEW U, NEW B, Sound(s, U, B),
           s.state[t] = "RUNNING",
           NEW e, e = StoredReady(s, t)
    PROVE  /\ Sound(e, U \cup {t}, B)
           /\ Frame(s, e)
           /\ e.state[t] = "READY"
           /\ ~OnReady(e, t)
           /\ \A x \in Task \ {t} : SameTask(s, e, x)
<1> DEFINE b == [s EXCEPT !.state[t] = "READY"]
<1>1. Placed(s, t) /\ NoRepeats(s) /\ MaskSound(s, B) /\ ~s.corrupt /\ OneRuns(s)
    BY DEF Sound
<1>2. /\ b.ready = s.ready /\ b.wq = s.wq /\ b.deleted = s.deleted /\ b.timeout = s.timeout
      /\ b.mask = s.mask /\ b.timer = s.timer /\ b.wres = s.wres /\ b.wakeup = s.wakeup
      /\ b.state[t] = "READY"
      /\ \A x \in Task \ {t} : b.state[x] = s.state[x]
      /\ Frame(s, b)
    BY DEF Scheduler, Frame, TaskState
<1>3. e = b
    BY DEF StoredReady
<1> HIDE DEF b
<1>4. NoRepeats(b) /\ MaskSound(b, B) /\ ~b.corrupt
    BY <1>1, <1>2 DEF NoRepeats, MaskSound, Frame
<1>5. ~OnReady(b, t)
    BY <1>1, <1>2 DEF Placed, OnReady
<1>6. Placed(b, t)
    BY <1>1, <1>2, <1>5 DEF Placed, OnReady
<1>7. \A x \in Task \ {t} : SameTask(s, b, x)
    BY <1>2 DEF SameTask, Frame
<1>8. \A x \in Task \ {t} : s.state[x] = "RUNNING" => x = b.current
    BY <1>1, <1>2 DEF OneRuns, Frame
<1>9. Sound(b, U \cup {t}, B)
    BY <1>2, <1>4, <1>6, <1>7, <1>8, OneMoves
<1> QED BY <1>2, <1>3, <1>5, <1>7, <1>9

(* Setting the bit of a list that is not empty. *)
BitSet(s, t) == [s EXCEPT !.mask = s.mask \cup {s.prio[t]}]

(* The bit is no longer excused. *)
LEMMA SetBitSound ==
    ASSUME NEW s \in Scheduler, NEW t \in Task, NEW U, NEW B, NEW C, Sound(s, U, B),
           OnReady(s, t), B \subseteq C \cup {s.prio[t]},
           NEW e, e = BitSet(s, t)
    PROVE  /\ Sound(e, U, C)
           /\ Frame(s, e)
           /\ e.state = s.state
           /\ \A x \in Task : SameTask(s, e, x)
<1> DEFINE n == s.prio[t]
           m == [s EXCEPT !.mask = s.mask \cup {n}]
<1>1. n \in Prio /\ s.ready[n] # <<>> /\ n = s.prio[t]
    <2>1. PICK p \in Prio : Contains(s.ready[p], t)
        BY DEF OnReady
    <2>2. p = n
        BY <2>1 DEF Sound, Placed
    <2> QED BY <2>1, <2>2, EmptyShape DEF Scheduler
<1>2. e = m
    BY DEF BitSet
<1> HIDE DEF n
<1>3. /\ m.mask = s.mask \cup {n}
      /\ m.ready = s.ready /\ m.wq = s.wq /\ m.deleted = s.deleted /\ m.timeout = s.timeout
      /\ m.state = s.state /\ m.timer = s.timer /\ m.wres = s.wres
      /\ Frame(s, m)
    BY DEF Scheduler, Frame
<1> HIDE DEF m
<1>4. NoRepeats(m) /\ ~m.corrupt /\ OneRuns(m)
    BY <1>3 DEF Sound, NoRepeats, OneRuns, Frame
<1>5. \A x \in Task : SameTask(s, m, x)
    BY <1>3 DEF SameTask, Frame
<1>6. \A x \in Task : Placed(m, x) /\ (OnReady(m, x) <=> OnReady(s, x))
    BY <1>5, SamePlace DEF Sound
<1>7. Queued(m, U)
    BY <1>3, <1>6 DEF Sound, Queued
<1>8. MaskSound(m, C)
    BY <1>1, <1>3 DEF Sound, MaskSound
<1> QED BY <1>2, <1>3, <1>4, <1>5, <1>6, <1>7, <1>8 DEF Sound

(* A change of one TCB that is on no list, before and after. *)
LEMMA OffListsSound ==
    ASSUME NEW s, NEW t \in Task, NEW U, NEW V, NEW B, Sound(s, U, B), NEW e,
           e.ready = s.ready, e.wq = s.wq, e.deleted = s.deleted, e.timeout = s.timeout,
           e.mask = s.mask, e.current = s.current, e.corrupt = s.corrupt,
           ~OnStateList(s, t), ~Contains(s.timeout, t),
           e.state[t] \notin {"RUNNING", "BLOCKED"},
           e.state[t] = "READY" => t \in V,
           U \subseteq V,
           \A x \in Task \ {t} : /\ e.state[x] = s.state[x] /\ e.prio[x] = s.prio[x]
                                 /\ e.timer[x] = s.timer[x] /\ e.wres[x] = s.wres[x]
    PROVE  /\ Sound(e, V, B)
           /\ ~OnReady(e, t)
           /\ \A x \in Task \ {t} : SameTask(s, e, x)
<1>1. NoRepeats(s) /\ MaskSound(s, B) /\ ~s.corrupt /\ OneRuns(s)
    BY DEF Sound
<1>2. NoRepeats(e) /\ MaskSound(e, B) /\ ~e.corrupt
    BY <1>1 DEF NoRepeats, MaskSound
<1>3. \A x \in Task \ {t} : SameTask(s, e, x)
    BY DEF SameTask
<1>4. /\ \A p \in Prio : ~Contains(e.ready[p], t)
      /\ \A q \in WaitQ : ~Contains(e.wq[q], t)
      /\ ~Contains(e.deleted, t) /\ ~Contains(e.timeout, t)
    BY DEF OnStateList, OnReady, OnWaitQ
<1>5. Placed(e, t) /\ ~OnReady(e, t)
    BY <1>4 DEF Placed, OnReady
<1>6. \A x \in Task \ {t} : s.state[x] = "RUNNING" => x = e.current
    BY <1>1 DEF OneRuns
<1>7. e.state[t] # "RUNNING" /\ U \ {t} \subseteq V
    OBVIOUS
<1>8. Sound(e, V, B)
    BY <1>2, <1>3, <1>5, <1>6, <1>7, OneMoves
<1> QED BY <1>3, <1>5, <1>8

(* A slot that is not used, or whose TCB has left the deleted list, is on  *)
(* no list.                                                                *)
LEMMA Nowhere ==
    ASSUME NEW s, NEW t \in Task, Placed(s, t),
           \/ s.state[t] = "UNUSED"
           \/ s.state[t] = "DELETED" /\ ~Contains(s.deleted, t)
    PROVE  ~OnStateList(s, t) /\ ~Contains(s.timeout, t)
BY DEF Placed, OnStateList, OnReady, OnWaitQ

(* What the changes of one TCB's fields leave alone. *)
TcbFrame(s, e) ==
    /\ e.current = s.current /\ e.idle = s.idle /\ e.started = s.started /\ e.lock = s.lock
    /\ e.mask = s.mask /\ e.ready = s.ready /\ e.wq = s.wq /\ e.deleted = s.deleted

(* The fields of a new TCB. *)
LEMMA NewTcbSound ==
    ASSUME NEW s \in Scheduler, NEW t \in Task, NEW p \in Prio, NEW U, NEW B, Sound(s, U, B),
           s.state[t] = "UNUSED",
           NEW e, e = InitTcb(s, t, p)
    PROVE  /\ e \in Scheduler
           /\ Sound(e, U \cup {t}, B)
           /\ TcbFrame(s, e)
           /\ e.state[t] = "READY" /\ e.prio[t] = p
           /\ ~OnReady(e, t)
           /\ \A x \in Task \ {t} : SameTask(s, e, x)
<1>0. 0 \in Ticks
    BY SchedAssumption DEF Ticks
<1>1. /\ e \in Scheduler
      /\ TcbFrame(s, e)
      /\ e.timeout = s.timeout /\ e.corrupt = s.corrupt
      /\ e.state[t] = "READY" /\ e.prio[t] = p
      /\ \A x \in Task \ {t} : /\ e.state[x] = s.state[x] /\ e.prio[x] = s.prio[x]
                               /\ e.timer[x] = s.timer[x] /\ e.wres[x] = s.wres[x]
    BY <1>0 DEF InitTcb, Scheduler, TcbFrame, TaskState, WaitResult
<1>2. ~OnStateList(s, t) /\ ~Contains(s.timeout, t)
    BY Nowhere DEF Sound
<1>3. /\ Sound(e, U \cup {t}, B)
      /\ ~OnReady(e, t)
      /\ \A x \in Task \ {t} : SameTask(s, e, x)
    BY <1>1, <1>2, OffListsSound DEF TcbFrame
<1> QED BY <1>1, <1>3

(* The free of a TCB. *)
Freed(s, t) == [s EXCEPT !.state[t] = "UNUSED", !.prio[t] = 0, !.wakeup[t] = 0]

(* The freed TCB is nowhere. *)
LEMMA FreeTcbSound ==
    ASSUME NEW s \in Scheduler, NEW t \in Task, NEW U, NEW B, Sound(s, U, B),
           s.state[t] = "DELETED", ~Contains(s.deleted, t),
           NEW e, e = Freed(s, t)
    PROVE  /\ Sound(e, U, B)
           /\ TcbFrame(s, e)
           /\ e.state[t] = "UNUSED"
           /\ \A x \in Task \ {t} : SameTask(s, e, x)
<1>1. /\ TcbFrame(s, e)
      /\ e.timeout = s.timeout /\ e.corrupt = s.corrupt
      /\ e.state[t] = "UNUSED"
      /\ \A x \in Task \ {t} : /\ e.state[x] = s.state[x] /\ e.prio[x] = s.prio[x]
                               /\ e.timer[x] = s.timer[x] /\ e.wres[x] = s.wres[x]
    BY DEF Freed, Scheduler, TcbFrame
<1>2. ~OnStateList(s, t) /\ ~Contains(s.timeout, t)
    BY Nowhere DEF Sound
<1>3. /\ Sound(e, U, B)
      /\ \A x \in Task \ {t} : SameTask(s, e, x)
    BY <1>1, <1>2, OffListsSound DEF TcbFrame
<1> QED BY <1>1, <1>3

(* task_cleanup_deleted takes the first TCB off the deleted list. *)
PopDeleted(s) == [s EXCEPT !.deleted = Tail(@)]

(* The idle task holds the only reference to the popped TCB. *)
LEMMA PopDeletedSound ==
    ASSUME NEW s \in Scheduler, NEW U, NEW B, Sound(s, U, B), s.deleted # <<>>,
           NEW e, e = PopDeleted(s)
    PROVE  /\ Sound(e, U, B)
           /\ Frame(s, e)
           /\ e.state = s.state /\ e.mask = s.mask /\ e.ready = s.ready
           /\ Head(s.deleted) \in Task
           /\ s.state[Head(s.deleted)] = "DELETED"
           /\ ~Contains(e.deleted, Head(s.deleted))
<1> DEFINE t == Head(s.deleted)
           l == Tail(s.deleted)
<1>1. /\ t \in Task /\ Contains(s.deleted, t)
      /\ Distinct(l) /\ ~Contains(l, t)
      /\ \A x : x # t => (Contains(l, x) <=> Contains(s.deleted, x))
    <2>1. s.deleted \in Seq(Task) /\ Distinct(s.deleted)
        BY DEF Scheduler, Sound, NoRepeats
    <2> QED BY <2>1, TailShape
<1>2. Placed(s, t) /\ s.state[t] = "DELETED"
    BY <1>1 DEF Sound, Placed
<1>3. /\ e.deleted = l
      /\ e.ready = s.ready /\ e.wq = s.wq /\ e.timeout = s.timeout /\ e.mask = s.mask
      /\ e.state = s.state /\ e.timer = s.timer /\ e.wres = s.wres
      /\ Frame(s, e)
    BY DEF PopDeleted, Scheduler, Frame
<1>4. t = Head(s.deleted)
    OBVIOUS
<1> HIDE DEF t, l
<1>5. NoRepeats(e) /\ MaskSound(e, B) /\ ~e.corrupt
    BY <1>1, <1>3 DEF Sound, NoRepeats, MaskSound, Frame
<1>6. \A x \in Task \ {t} : SameTask(s, e, x)
    BY <1>1, <1>3 DEF SameTask, Frame
<1>7. Placed(e, t)
    BY <1>1, <1>2, <1>3 DEF Placed, Frame
<1>8. /\ \A x \in Task \ {t} : s.state[x] = "RUNNING" => x = e.current
      /\ e.state[t] # "RUNNING" /\ e.state[t] # "READY"
    BY <1>2, <1>3 DEF Sound, OneRuns, Frame
<1>9. Sound(e, U, B)
    BY <1>1, <1>5, <1>6, <1>7, <1>8, OneMoves
<1> QED BY <1>1, <1>2, <1>3, <1>4, <1>9

-----------------------------------------------------------------------------
(* The invariant.  As long as no trap has hit an unprotected window and no *)
(* task was deleted amid a task_create, the lists are sound up to the TCBs *)
(* and the bit that a task is about to link and to set.                    *)

Unlinked ==
    {Idle} \cup {t \in Task : (t = k.current /\ pc[t] = "y_enq") \/ BeingCreated(t)}

LinkPc == {"y_enq", "y_load", "y_store"}

(* The idle task exists once it is created, and some task is current once  *)
(* the scheduler is started.                                               *)
BootOK ==
    /\ boot = "kernel_init" => k = sched_init
    /\ boot # "kernel_init" => /\ k.idle = Idle
                               /\ pc[Idle] \in IdlePc
                               /\ k.state[Idle] \in {"READY", "RUNNING"}
    /\ k.started <=> boot = "done"
    /\ k.started => k.current \in Task /\ k.state[k.current] # "UNUSED"
    /\ ~k.started => /\ k.current = None /\ trap = "none" /\ k.lock = 0
                     /\ \A t \in Task \ {Idle} : pc[t] = "run"

(* The state of a task that executes follows from where it is. *)
StateAt(t) ==
    /\ pc[t] = "y_chk" => k.state[t] \in {"RUNNING", "BLOCKED"}
    /\ pc[t] \in LinkPc => k.state[t] = "READY"
    /\ pc[t] \notin LinkPc \cup {"y_chk", "ecall"} => k.state[t] = "RUNNING"

CurrentOK == k.started /\ trap = "none" => StateAt(k.current)

(* Only the current task is in a window, and no trap has come since it     *)
(* entered it: the mask it loaded is still the mask.                       *)
WindowOK ==
    \A t \in Task :
       /\ pc[t] \in Window => k.started /\ t = k.current /\ trap = "none"
       /\ pc[t] = "y_enq" => ~OnReady(k, t)
       /\ pc[t] \in {"y_store", "c_store"} => reg[t].mask = k.mask

(* A task in task_create and the TCB it creates. *)
CreatorOK(t) ==
    pc[t] \in CreatePc =>
        /\ IsLive(t)
        /\ reg[t].obj \in Task \ {t, Idle}
        /\ IsLive(reg[t].obj)
        /\ pc[t] = "c_link" => /\ k.state[reg[t].obj] = "READY"
                               /\ ~OnReady(k, reg[t].obj)
                               /\ reg[t].obj # k.current
        /\ pc[t] \in {"c_load", "c_store"} => k.state[reg[t].obj] = "READY"

CreateOK ==
    /\ \A t \in Task : CreatorOK(t)
    /\ \A t, u \in Task :
          pc[t] \in CreatePc /\ pc[u] \in CreatePc /\ reg[t].obj = reg[u].obj => t = u

(* The TCB the idle task is about to free is on no list. *)
FreeOK ==
    pc[Idle] = "i_free" => /\ reg[Idle].obj # Idle
                           /\ k.state[reg[Idle].obj] = "DELETED"
                           /\ ~Contains(k.deleted, reg[Idle].obj)

(* The task that holds the scheduler locked runs. *)
LockOK ==
    k.lock > 0 => /\ k.current # Idle
                  /\ k.state[k.current] = "RUNNING"
                  /\ pc[k.current] \notin LinkPc \cup {"sl_loop", "sl_crit"}
                  /\ pc[k.current] \in {"y_chk", "ecall"} => ret[k.current] # "sl_loop"

ListInv ==
    /\ Sound(k, Unlinked, BitUnderway)
    /\ BootOK
    /\ CurrentOK
    /\ WindowOK
    /\ CreateOK
    /\ FreeOK
    /\ LockOK

(* More TCBs may be off their list and more bits missing. *)
LEMMA SoundLoosen ==
    ASSUME NEW s, NEW U, NEW V, NEW B, NEW C, Sound(s, U, B), U \subseteq V, B \subseteq C
    PROVE  Sound(s, V, C)
BY DEF Sound, Queued, MaskSound

-----------------------------------------------------------------------------
(* Steps of the current task. *)

(* Outside the windows no bit is under way. *)
LEMMA NoBit ==
    ASSUME pc[k.current] \notin {"y_load", "y_store", "c_load", "c_store"}
    PROVE  BitUnderway = {}
BY DEF BitUnderway

(* The other tasks stay where they are, or are gone. *)
Apart(t) ==
    \A x \in Task \ {t} :
        \/ pc'[x] = pc[x] /\ reg'[x] = reg[x]
        \/ pc'[x] = "run" /\ pc[x] \notin CreatePc /\ x # Idle

(* The tasks in task_create are not disturbed. *)
CreatorsKept(t) ==
    \A c \in Task \ {t} : pc[c] \in CreatePc =>
        /\ IsLive(c)'
        /\ k'.state[reg[c].obj] \notin {"UNUSED", "DELETED"}
        /\ pc[c] = "c_link" => /\ k'.state[reg[c].obj] = "READY"
                               /\ ~OnReady(k', reg[c].obj)

(* What is known of the current task. *)
OwnOK(t) ==
    /\ t = Idle => pc[t] \in IdlePc
    /\ k.state[t] # "UNUSED"
    /\ trap = "none" => StateAt(t)
    /\ pc[t] \in Window => trap = "none"
    /\ pc[t] = "y_enq" => ~OnReady(k, t)
    /\ pc[t] \in {"y_store", "c_store"} => reg[t].mask = k.mask
    /\ CreatorOK(t)
    /\ \A u \in Task \ {t} :
          pc[t] \in CreatePc /\ pc[u] \in CreatePc => reg[t].obj # reg[u].obj
    /\ k.lock > 0 => /\ t # Idle
                     /\ k.state[t] = "RUNNING"
                     /\ pc[t] \notin LinkPc \cup {"sl_loop", "sl_crit"}
                     /\ pc[t] \in {"y_chk", "ecall"} => ret[t] # "sl_loop"

(* What a running task may assume. *)
LEMMA RunsFacts ==
    ASSUME TypeInv, ListInv, NEW t \in Task, Runs(t)
    PROVE  /\ t = k.current /\ k.started /\ trap = "none" /\ boot = "done"
           /\ k \in Scheduler /\ k.idle = Idle
           /\ k.state[Idle] \in {"READY", "RUNNING"}
           /\ OwnOK(t)
           /\ \A x \in Task \ {t} : pc[x] \notin Window
           /\ Sound(k, Unlinked, BitUnderway)
<1>1. t = k.current /\ k.started /\ trap = "none"
    BY DEF Runs
<1>2. boot = "done" /\ k \in Scheduler /\ k.idle = Idle /\ k.state[Idle] \in {"READY", "RUNNING"}
      /\ k.state[t] # "UNUSED" /\ (t = Idle => pc[t] \in IdlePc)
    BY <1>1 DEF ListInv, BootOK, TypeInv, TypeOK
<1>3. StateAt(t)
    BY <1>1 DEF ListInv, CurrentOK
<1>4. OwnOK(t)
    BY <1>1, <1>2, <1>3 DEF ListInv, WindowOK, CreateOK, LockOK, OwnOK
<1>5. \A x \in Task \ {t} : pc[x] \notin Window
    BY <1>1 DEF ListInv, WindowOK
<1> QED BY <1>1, <1>2, <1>4, <1>5 DEF ListInv

(* A step of the current task keeps the invariant if it keeps the lists    *)
(* sound, leaves the tasks in task_create alone and leaves itself in order.*)
LEMMA TaskStep ==
    ASSUME TypeInv, ListInv, NEW t \in Task, Runs(t), Apart(t), boot' = boot,
           k'.current = k.current, k'.idle = k.idle, k'.started = k.started,
           k'.state[Idle] \in {"READY", "RUNNING"},
           Sound(k', Unlinked', BitUnderway'),
           CreatorsKept(t), OwnOK(t)', FreeOK'
    PROVE  ListInv'
<1>1. /\ t = k.current /\ k.started /\ trap = "none" /\ boot = "done"
      /\ k.idle = Idle
      /\ \A x \in Task \ {t} : pc[x] \notin Window
    BY RunsFacts
<1>2. t = k'.current /\ k'.started
    BY <1>1
<1>3. \A x \in Task \ {t} : /\ pc'[x] \notin Window
                            /\ pc'[x] \in CreatePc => pc[x] = pc'[x] /\ reg'[x] = reg[x]
    BY <1>1 DEF Apart, Window, CreatePc
<1>4. BootOK'
    <2>1. pc'[Idle] \in IdlePc
        BY <1>1, SchedAssumption DEF Apart, OwnOK, ListInv, BootOK
    <2> QED BY <1>1, <1>2, <2>1 DEF OwnOK, BootOK
<1>5. CurrentOK'
    BY <1>2 DEF OwnOK, CurrentOK
<1>6. WindowOK'
    <2>1. "y_enq" \in Window /\ "y_store" \in Window /\ "c_store" \in Window
        BY DEF Window
    <2> QED BY <1>2, <1>3, <2>1 DEF OwnOK, WindowOK
<1>7. CreateOK'
    <2>1. ASSUME NEW c \in Task \ {t}
          PROVE  CreatorOK(c)'
        <3> SUFFICES ASSUME pc'[c] \in CreatePc PROVE CreatorOK(c)'
            BY DEF CreatorOK
        <3>1. pc'[c] = pc[c] /\ reg'[c] = reg[c] /\ pc[c] \in CreatePc
            BY <1>3
        <3>2. CreatorOK(c) /\ k.current = t
            BY <1>1 DEF ListInv, CreateOK
        <3>3. pc[c] \notin {"c_load", "c_store"}
            BY <1>1 DEF Window
        <3> QED BY <1>2, <3>1, <3>2, <3>3 DEF CreatorOK, CreatorsKept, IsLive
    <2>2. \A c \in Task : CreatorOK(c)'
        BY <2>1 DEF OwnOK
    <2>3. ASSUME NEW x \in Task, NEW y \in Task, x # y,
                 pc'[x] \in CreatePc, pc'[y] \in CreatePc, reg'[x].obj = reg'[y].obj
          PROVE  FALSE
        <3>1. CASE x # t /\ y # t
            BY <1>3, <2>3, <3>1 DEF ListInv, CreateOK
        <3>2. CASE x = t \/ y = t
            BY <2>3, <3>2 DEF OwnOK
        <3> QED BY <3>1, <3>2
    <2> QED BY <2>2, <2>3 DEF CreateOK
<1>8. LockOK'
    BY <1>2 DEF OwnOK, LockOK
<1> QED BY <1>4, <1>5, <1>6, <1>7, <1>8 DEF ListInv

(* A change of the scheduler that no other task can mind. *)
Gentle(s, r) ==
    /\ r.current = s.current /\ r.idle = s.idle /\ r.started = s.started
    /\ s.state[Idle] \in {"READY", "RUNNING"} => r.state[Idle] \in {"READY", "RUNNING"}
    /\ \A x \in Task : s.state[x] \notin {"UNUSED", "DELETED"}
                          => r.state[x] \notin {"UNUSED", "DELETED"}
    /\ \A x \in Task : s.state[x] = "READY" /\ ~OnReady(s, x)
                          => r.state[x] = "READY" /\ ~OnReady(r, x)
    /\ \A x \in Task : s.state[x] = "DELETED" /\ ~Contains(s.deleted, x)
                          => r.state[x] = "DELETED" /\ ~Contains(r.deleted, x)

(* The flags change. *)
LEMMA SimilarGentle ==
    ASSUME NEW s, NEW r, Similar(s, r)
    PROVE  Gentle(s, r)
BY DEF Similar, Frame, Gentle, OnReady

(* One task changes that was running or blocked. *)
LEMMA OneGentle ==
    ASSUME NEW s, NEW r, Frame(s, r), NEW t \in Task, t # Idle,
           s.state[t] \in {"RUNNING", "BLOCKED"},
           r.state[t] \notin {"UNUSED", "DELETED"},
           \A x \in Task \ {t} : SameTask(s, r, x)
    PROVE  Gentle(s, r)
<1>1. \A x \in Task \ {t} : /\ r.state[x] = s.state[x]
                            /\ OnReady(r, x) <=> OnReady(s, x)
                            /\ Contains(r.deleted, x) <=> Contains(s.deleted, x)
    BY SamePlace DEF SameTask
<1> QED BY <1>1, SchedAssumption DEF Gentle, Frame

(* Task t goes to p, the others stay. *)
Moves(t, p) ==
    /\ pc'[t] = p
    /\ \A x \in Task \ {t} : pc'[x] = pc[x] /\ reg'[x] = reg[x]

(* Goto is such a step. *)
LEMMA GotoMoves ==
    ASSUME TypeInv, NEW t \in Task, NEW p,
           Goto(t, p) \/ (p = pc[t] /\ UNCHANGED pc),
           \/ UNCHANGED reg
           \/ \E l : reg' = [reg EXCEPT ![t] = l]
    PROVE  Moves(t, p)
BY DEF TypeInv, TypeOK, Goto, Moves

(* The lock and the task that holds it. *)
LockedAt(t) ==
    k.lock > 0 => /\ t # Idle
                  /\ k.state[t] = "RUNNING"
                  /\ pc[t] \notin LinkPc \cup {"sl_loop", "sl_crit"}
                  /\ pc[t] \in {"y_chk", "ecall"} => ret[t] # "sl_loop"

(* A TCB is under construction until it is linked. *)
LEMMA UnlinkedKept ==
    ASSUME pc[k.current] # "y_enq",
           \A c \in Task : pc[c] = "c_link" => pc'[c] = "c_link" /\ reg'[c].obj = reg[c].obj
    PROVE  Unlinked \subseteq Unlinked'
BY DEF Unlinked, BeingCreated

(* A gentle step of the current task. *)
LEMMA GentleStep ==
    ASSUME TypeInv, ListInv, NEW t \in Task, Runs(t), Moves(t, pc'[t]), boot' = boot,
           Gentle(k, k'), Sound(k', Unlinked', BitUnderway'),
           OwnOK(t)', t = Idle => FreeOK'
    PROVE  ListInv'
<1>1. /\ t = k.current /\ k.state[Idle] \in {"READY", "RUNNING"}
      /\ Apart(t)
    BY RunsFacts DEF Moves, Apart
<1>2. /\ k'.current = k.current /\ k'.idle = k.idle /\ k'.started = k.started
      /\ k'.state[Idle] \in {"READY", "RUNNING"}
    BY <1>1 DEF Gentle
<1>3. CreatorsKept(t)
    <2> SUFFICES ASSUME NEW c \in Task \ {t}, pc[c] \in CreatePc
                 PROVE  /\ IsLive(c)'
                        /\ k'.state[reg[c].obj] \notin {"UNUSED", "DELETED"}
                        /\ pc[c] = "c_link" => /\ k'.state[reg[c].obj] = "READY"
                                               /\ ~OnReady(k', reg[c].obj)
        BY DEF CreatorsKept
    <2>1. CreatorOK(c)
        BY DEF ListInv, CreateOK
    <2> QED BY <2>1 DEF CreatorOK, Gentle, IsLive
<1>4. FreeOK'
    <2>1. CASE t # Idle
        <3>1. pc'[Idle] = pc[Idle] /\ reg'[Idle] = reg[Idle]
            BY <2>1, SchedAssumption DEF Moves
        <3>2. pc[Idle] = "i_free" => reg[Idle].obj \in Task
            BY SchedAssumption DEF TypeInv, LocalsOK
        <3> QED BY <3>1, <3>2 DEF ListInv, FreeOK, Gentle
    <2> QED BY <2>1
<1> QED BY <1>1, <1>2, <1>3, <1>4, TaskStep

(* One that neither leaves nor enters a window or a task_create. *)
LEMMA PlainStep ==
    ASSUME TypeInv, ListInv, NEW t \in Task, Runs(t), NEW p, Moves(t, p), boot' = boot,
           pc[t] \notin Window \cup {"c_link"},
           p \notin Window \cup CreatePc,
           Gentle(k, k'), Sound(k', Unlinked, {}),
           k'.state[t] # "UNUSED",
           trap' = "none" => StateAt(t)', LockedAt(t)',
           t = Idle => p \in IdlePc /\ FreeOK'
    PROVE  ListInv'
<1>1. t = k.current /\ k'.current = t
    BY RunsFacts DEF Gentle
<1>2. Unlinked \subseteq Unlinked'
    <2>1. pc[k.current] # "y_enq"
        BY <1>1 DEF Window
    <2>2. \A c \in Task : pc[c] = "c_link" => pc'[c] = "c_link" /\ reg'[c].obj = reg[c].obj
        BY DEF Moves
    <2> QED BY <2>1, <2>2, UnlinkedKept
<1>3. Sound(k', Unlinked', BitUnderway')
    BY <1>2, SoundLoosen
<1>4. OwnOK(t)'
    BY DEF OwnOK, CreatorOK, LockedAt, Moves, Window
<1> QED BY <1>3, <1>4, GentleStep DEF Moves

(* The lists at such a place. *)
LEMMA PlainFacts ==
    ASSUME TypeInv, ListInv, NEW t \in Task, Runs(t), pc[t] \notin Window
    PROVE  /\ t = k.current /\ k.started /\ trap = "none" /\ boot = "done"
           /\ k \in Scheduler /\ k.idle = Idle
           /\ k.state[Idle] \in {"READY", "RUNNING"}
           /\ OwnOK(t) /\ StateAt(t) /\ LockedAt(t)
           /\ k.state[t] # "UNUSED"
           /\ Sound(k, Unlinked, {})
<1>1. BitUnderway = {}
    BY RunsFacts, NoBit DEF Window
<1> QED BY <1>1, RunsFacts DEF OwnOK, LockedAt

(* The scheduler is as it was, or with a reschedule asked for. *)
LEMMA SameGentle ==
    ASSUME NEW s, NEW U, NEW B, Sound(s, U, B)
    PROVE  Gentle(s, s)
BY SimilarGentle DEF Similar, Frame

(* sched_set_pending. *)
LEMMA PendingSound ==
    ASSUME NEW s \in Scheduler, NEW U, NEW B, Sound(s, U, B), NEW r, r = sched_set_pending(s)
    PROVE  Similar(s, r) /\ Gentle(s, r) /\ Sound(r, U, B)
<1>1. Similar(s, r)
    BY DEF sched_set_pending, Similar, Frame, Scheduler
<1> QED BY <1>1, SimilarGentle, SimilarSound

(* task_yield, and its steps outside the window. *)
LEMMA YieldInv ==
    ASSUME TypeInv, ListInv, NEW t \in Task,
           task_yield(t) \/ arch_yield(t) \/ wait_return(t)
    PROVE  ListInv'
<1> USE DEF taskvars, history
<1>1. CASE task_yield(t)
    <2>1. Runs(t) /\ pc[t] = "run" /\ t # Idle /\ pc[t] \notin Window \cup {"c_link"}
        BY <1>1 DEF task_yield, Call, At, Window
    <2>2. StateAt(t) /\ LockedAt(t) /\ k.state[t] # "UNUSED" /\ Sound(k, Unlinked, {})
        BY <2>1, PlainFacts
    <2>3. /\ Moves(t, "y_chk") /\ k' = k /\ boot' = boot
          /\ pc'[t] = "y_chk" /\ ret'[t] = "run"
        <3>1. Goto(t, "y_chk") /\ ret' = [ret EXCEPT ![t] = "run"]
            BY <1>1 DEF task_yield, CallYield
        <3>2. Moves(t, "y_chk")
            BY <1>1, <3>1, GotoMoves DEF task_yield
        <3> QED BY <1>1, <3>1, <3>2 DEF task_yield, Moves, TypeInv, TypeOK
    <2>4. "y_chk" \notin Window \cup CreatePc
        BY DEF Window, CreatePc
    <2>5. StateAt(t)' /\ LockedAt(t)'
        BY <2>1, <2>2, <2>3 DEF StateAt, LockedAt, LinkPc
    <2>6. Gentle(k, k') /\ Sound(k', Unlinked, {})
        BY <2>2, <2>3, SameGentle
    <2> QED BY <2>1, <2>2, <2>3, <2>4, <2>5, <2>6, PlainStep
<1>2. CASE arch_yield(t)
    <2>1. Runs(t) /\ pc[t] = "ecall" /\ pc[t] \notin Window \cup {"c_link"}
        BY <1>2 DEF arch_yield, At, Window
    <2>2. /\ StateAt(t) /\ LockedAt(t) /\ k.state[t] # "UNUSED" /\ Sound(k, Unlinked, {})
          /\ t # Idle
        BY <2>1, PlainFacts DEF OwnOK, IdlePc
    <2>3. /\ Moves(t, ret[t]) /\ k' = k /\ boot' = boot /\ ret' = ret /\ trap' = "ecall"
          /\ pc'[t] = ret[t] /\ ret[t] \in RetPc
        <3>1. Moves(t, ret[t])
            BY <1>2, GotoMoves DEF arch_yield
        <3> QED BY <1>2, <3>1 DEF arch_yield, Moves, TypeInv, TypeOK
    <2>4. ret[t] \notin Window \cup CreatePc
        BY <2>3 DEF Window, CreatePc, RetPc
    <2>5. LockedAt(t)'
        BY <2>1, <2>2, <2>3 DEF LockedAt, LinkPc, RetPc
    <2>6. Gentle(k, k') /\ Sound(k', Unlinked, {})
        BY <2>2, <2>3, SameGentle
    <2> QED BY <2>1, <2>2, <2>3, <2>4, <2>5, <2>6, PlainStep
<1>3. CASE wait_return(t)
    <2>1. Runs(t) /\ pc[t] = "wq_ret" /\ pc[t] \notin Window \cup {"c_link"}
        BY <1>3 DEF wait_return, At, Window
    <2>2. /\ StateAt(t) /\ LockedAt(t) /\ k.state[t] # "UNUSED" /\ Sound(k, Unlinked, {})
          /\ t # Idle
        BY <2>1, PlainFacts DEF OwnOK, IdlePc
    <2>3. Moves(t, "run") /\ k' = k /\ boot' = boot /\ ret' = ret /\ pc'[t] = "run"
        <3>1. Moves(t, "run")
            BY <1>3, GotoMoves DEF wait_return
        <3> QED BY <1>3, <3>1 DEF wait_return, Moves
    <2>4. "run" \notin Window \cup CreatePc
        BY DEF Window, CreatePc
    <2>5. StateAt(t)' /\ LockedAt(t)'
        BY <2>1, <2>2, <2>3 DEF StateAt, LockedAt, LinkPc
    <2>6. Gentle(k, k') /\ Sound(k', Unlinked, {})
        BY <2>2, <2>3, SameGentle
    <2> QED BY <2>1, <2>2, <2>3, <2>4, <2>5, <2>6, PlainStep
<1> QED BY <1>1, <1>2, <1>3

(* A step between two places of ordinary code. *)
LEMMA RunningStep ==
    ASSUME TypeInv, ListInv, NEW t \in Task, Runs(t), NEW p, Moves(t, p), boot' = boot,
           pc[t] \notin Window \cup {"c_link"},
           p \notin Window \cup CreatePc,
           Gentle(k, k'), Sound(k', Unlinked, {}),
           k'.state[t] = "RUNNING",
           k'.lock > 0 => /\ t # Idle
                          /\ p \notin {"sl_loop", "sl_crit"}
                          /\ p \in {"y_chk", "ecall"} => ret'[t] # "sl_loop",
           t = Idle => p \in IdlePc /\ FreeOK'
    PROVE  ListInv'
<1>1. p \notin LinkPc /\ pc'[t] = p
    BY DEF Moves, Window, LinkPc
<1>2. StateAt(t)' /\ LockedAt(t)'
    BY <1>1 DEF StateAt, LockedAt
<1> QED BY <1>2, PlainStep

(* Setting locals of the current task. *)
LEMMA RegMoves ==
    ASSUME TypeInv, NEW t \in Task, NEW p, Goto(t, p) \/ (p = pc[t] /\ UNCHANGED pc),
           \/ UNCHANGED reg
           \/ \E l : reg' = [reg EXCEPT ![t].due = l]
           \/ \E l : reg' = [reg EXCEPT ![t].q = l]
           \/ \E l : reg' = [reg EXCEPT ![t].obj = l]
           \/ \E l : reg' = [reg EXCEPT ![t].mask = l]
           \/ \E l : reg' = [reg EXCEPT ![t].count = l]
           \/ \E l : reg' = [reg EXCEPT ![t].h = l]
           \/ \E l : reg' = [reg EXCEPT ![t] = l]
    PROVE  Moves(t, p)
BY DEF TypeInv, TypeOK, Goto, Moves

(* What holds where the application calls the kernel. *)
LEMMA CallFacts ==
    ASSUME TypeInv, ListInv, NEW t \in Task, NEW c, Call(t, c)
    PROVE  /\ Runs(t) /\ pc[t] = "run" /\ t # Idle
           /\ pc[t] \notin Window \cup {"c_link"}
           /\ t = k.current /\ k \in Scheduler /\ k.idle = Idle
           /\ k.state[t] = "RUNNING"
           /\ Sound(k, Unlinked, {}) /\ Gentle(k, k)
           /\ "run" \notin Window \cup CreatePc
           /\ "y_chk" \notin Window \cup CreatePc
<1>1. Runs(t) /\ pc[t] = "run" /\ t # Idle /\ pc[t] \notin Window \cup {"c_link"}
    BY DEF Call, At, Window
<1>2. /\ t = k.current /\ k \in Scheduler /\ k.idle = Idle /\ StateAt(t)
      /\ Sound(k, Unlinked, {}) /\ Gentle(k, k)
    BY <1>1, PlainFacts, SameGentle
<1>3. k.state[t] = "RUNNING"
    BY <1>1, <1>2 DEF StateAt, LinkPc
<1> QED BY <1>1, <1>2, <1>3 DEF Window, CreatePc

(* A change of the lock. *)
Locking(s, r) ==
    /\ r.ready = s.ready /\ r.wq = s.wq /\ r.deleted = s.deleted /\ r.timeout = s.timeout
    /\ r.state = s.state /\ r.timer = s.timer /\ r.wres = s.wres /\ r.mask = s.mask
    /\ r.prio = s.prio /\ r.current = s.current /\ r.idle = s.idle
    /\ r.started = s.started /\ r.corrupt = s.corrupt

(* It does not matter to the lists. *)
LEMMA LockingSound ==
    ASSUME NEW s, NEW r, NEW U, NEW B, Sound(s, U, B), Locking(s, r)
    PROVE  Sound(r, U, B) /\ Gentle(s, r) /\ r.state = s.state
<1>1. Sound(r, U, B)
    BY DEF Locking, Sound, NoRepeats, Placed, OnWaitQ, OnReady, MaskSound, Queued, OneRuns
<1>2. Gentle(s, r)
    BY DEF Locking, Gentle, OnReady
<1> QED BY <1>1, <1>2 DEF Locking

(* The current task blocks and calls task_yield. *)
LEMMA BlockStep ==
    ASSUME TypeInv, ListInv, NEW t \in Task, Runs(t), Moves(t, "y_chk"), boot' = boot,
           pc[t] \notin Window \cup {"c_link"}, t # Idle,
           k.state[t] = "RUNNING", ~(k.lock > 0),
           Sound(k', Unlinked, {}), Blocks(k, k', t)
    PROVE  ListInv'
<1>1. Gentle(k, k')
    BY OneGentle DEF Blocks
<1>2. StateAt(t)' /\ LockedAt(t)' /\ k'.state[t] # "UNUSED"
    BY DEF StateAt, LockedAt, LinkPc, Moves, Blocks, Frame
<1>3. "y_chk" \notin Window \cup CreatePc
    BY DEF Window, CreatePc
<1> QED BY <1>1, <1>2, <1>3, PlainStep

(* task_sleep, sched_lock, sched_unlock. *)
LEMMA SleepLockInv ==
    ASSUME TypeInv, ListInv, NEW t \in Task,
           \/ \E d \in Delays : task_sleep(t, d)
           \/ sched_lock(t)
           \/ sched_unlock(t)
    PROVE  ListInv'
<1> USE DEF taskvars, history
<1>1. ASSUME NEW d \in Delays, task_sleep(t, d) PROVE ListInv'
    <2>0. Call(t, "sleep") /\ boot' = boot /\ ret' = ret
        BY <1>1 DEF task_sleep
    <2>1. /\ Runs(t) /\ pc[t] = "run" /\ t # Idle
          /\ pc[t] \notin Window \cup {"c_link"}
          /\ k \in Scheduler /\ k.state[t] = "RUNNING"
          /\ Sound(k, Unlinked, {}) /\ Gentle(k, k)
          /\ "run" \notin Window \cup CreatePc
        BY <2>0, CallFacts
    <2>2. CASE sched_is_locked(k)
        <3>1. k' = sched_set_pending(k) /\ pc' = pc /\ reg' = reg
            BY <1>1, <2>2 DEF task_sleep
        <3>2. Similar(k, k') /\ Gentle(k, k') /\ Sound(k', Unlinked, {})
            BY <2>1, <3>1, PendingSound
        <3>3. Moves(t, "run")
            BY <2>1, <3>1, RegMoves
        <3>4. k'.state[t] = "RUNNING"
            BY <2>1, <3>2 DEF Similar
        <3> QED BY <2>0, <2>1, <3>2, <3>3, <3>4, RunningStep
    <2>3. CASE ~sched_is_locked(k)
        <3>1. k' = k /\ Goto(t, "sl_loop") /\ reg' = [reg EXCEPT ![t].due = (tick + d) % TickMod]
            BY <1>1, <2>3 DEF task_sleep
        <3>2. Moves(t, "sl_loop")
            BY <3>1, RegMoves
        <3>3. k'.lock = 0
            BY <2>3, <3>1 DEF sched_is_locked
        <3>4. "sl_loop" \notin Window \cup CreatePc
            BY DEF Window, CreatePc
        <3>5. ~(k'.lock > 0) /\ k'.state[t] = "RUNNING" /\ Gentle(k, k') /\ Sound(k', Unlinked, {})
            BY <2>1, <3>1, <3>3
        <3> QED BY <2>0, <2>1, <3>2, <3>4, <3>5, RunningStep
    <2> QED BY <2>2, <2>3
<1>2. CASE sched_lock(t)
    <2>0. Call(t, "lock") /\ boot' = boot /\ ret' = ret /\ reg' = reg /\ pc' = pc
        BY <1>2 DEF sched_lock
    <2>1. /\ Runs(t) /\ pc[t] = "run" /\ t # Idle
          /\ pc[t] \notin Window \cup {"c_link"}
          /\ k \in Scheduler /\ k.state[t] = "RUNNING"
          /\ Sound(k, Unlinked, {}) /\ Gentle(k, k)
          /\ "run" \notin Window \cup CreatePc
        BY <2>0, CallFacts
    <2>2. Locking(k, k')
        BY <1>2, <2>1 DEF sched_lock, Locking, Scheduler
    <2>3. Gentle(k, k') /\ Sound(k', Unlinked, {}) /\ k'.state[t] = "RUNNING"
        BY <2>1, <2>2, LockingSound
    <2>4. Moves(t, "run")
        BY <2>0, <2>1, RegMoves
    <2> QED BY <2>0, <2>1, <2>3, <2>4, RunningStep
<1>3. CASE sched_unlock(t)
    <2>0. Call(t, "lock") /\ boot' = boot /\ reg' = reg
        BY <1>3 DEF sched_unlock
    <2>1. /\ Runs(t) /\ pc[t] = "run" /\ t # Idle
          /\ pc[t] \notin Window \cup {"c_link"}
          /\ k \in Scheduler /\ k.state[t] = "RUNNING"
          /\ Sound(k, Unlinked, {}) /\ Gentle(k, k)
          /\ "run" \notin Window \cup CreatePc
          /\ "y_chk" \notin Window \cup CreatePc
        BY <2>0, CallFacts
    <2>2. Locking(k, k')
        <3>1. \/ \E n, b : k' = [k EXCEPT !.lock = n, !.pending = b]
              \/ \E n : k' = [k EXCEPT !.lock = n]
            BY <1>3 DEF sched_unlock
        <3>2. CASE \E n, b : k' = [k EXCEPT !.lock = n, !.pending = b]
            BY <2>1, <3>2 DEF Locking, Scheduler
        <3>3. CASE \E n : k' = [k EXCEPT !.lock = n]
            BY <2>1, <3>3 DEF Locking, Scheduler
        <3> QED BY <3>1, <3>2, <3>3
    <2>3. Gentle(k, k') /\ Sound(k', Unlinked, {}) /\ k'.state[t] = "RUNNING"
        BY <2>1, <2>2, LockingSound
    <2>4. CASE k.lock = 1 /\ k.pending
        <3>1. k' = [k EXCEPT !.lock = 0, !.pending = FALSE] /\ Goto(t, "y_chk")
            BY <1>3, <2>4 DEF sched_unlock, CallYield
        <3>2. k'.lock = 0
            BY <2>1, <3>1 DEF Scheduler
        <3>3. Moves(t, "y_chk")
            BY <2>0, <3>1, RegMoves
        <3>4. ~(k'.lock > 0)
            BY <3>2
        <3> QED BY <2>0, <2>1, <2>3, <3>3, <3>4, RunningStep
    <2>5. CASE ~(k.lock = 1 /\ k.pending)
        <3>1. pc' = pc
            BY <1>3, <2>5 DEF sched_unlock
        <3>2. Moves(t, "run")
            BY <2>0, <2>1, <3>1, RegMoves
        <3> QED BY <2>0, <2>1, <2>3, <3>2, RunningStep
    <2> QED BY <2>4, <2>5
<1> QED BY <1>1, <1>2, <1>3

(* The steps of task_delay_ticks. *)
LEMMA SleepInv ==
    ASSUME TypeInv, ListInv, NEW t \in Task, sleep_loop(t) \/ sleep_block(t)
    PROVE  ListInv'
<1> USE DEF taskvars, history
<1>1. /\ Runs(t) /\ pc[t] \in {"sl_loop", "sl_crit"} /\ boot' = boot
      /\ pc[t] \notin Window \cup {"c_link"}
    BY DEF sleep_loop, sleep_block, At, Window
<1>2. /\ k \in Scheduler /\ StateAt(t) /\ LockedAt(t) /\ OwnOK(t)
      /\ Sound(k, Unlinked, {}) /\ Gentle(k, k) /\ t = k.current
    BY <1>1, PlainFacts, SameGentle
<1>3. k.state[t] = "RUNNING" /\ ~(k.lock > 0) /\ t # Idle
    BY <1>1, <1>2 DEF StateAt, LockedAt, LinkPc, OwnOK, IdlePc
<1>4. /\ "run" \notin Window \cup CreatePc /\ "y_chk" \notin Window \cup CreatePc
      /\ "sl_crit" \notin Window \cup CreatePc
    BY DEF Window, CreatePc
<1>5. CASE sleep_done(t)
    <2>1. k' = k /\ Goto(t, "run") /\ reg' = [reg EXCEPT ![t].due = 0]
        BY <1>5 DEF sleep_done
    <2>2. Moves(t, "run")
        BY <2>1, RegMoves
    <2>3. ~(k'.lock > 0) /\ k'.state[t] = "RUNNING" /\ Gentle(k, k') /\ Sound(k', Unlinked, {})
        BY <1>2, <1>3, <2>1
    <2> QED BY <1>1, <1>3, <1>4, <2>2, <2>3, RunningStep
<1>6. CASE k' = k /\ Goto(t, "sl_crit") /\ reg' = reg
    <2>1. Moves(t, "sl_crit")
        BY <1>6, RegMoves
    <2>2. ~(k'.lock > 0) /\ k'.state[t] = "RUNNING" /\ Gentle(k, k') /\ Sound(k', Unlinked, {})
        BY <1>2, <1>3, <1>6
    <2> QED BY <1>1, <1>3, <1>4, <2>1, <2>2, RunningStep
<1>7. CASE sleep_block(t) /\ ~timer_expired(tick, reg[t].due)
    <2> DEFINE due == reg[t].due
    <2>1. /\ k' = sched_timeout_insert(sched_ready_remove(
                      [k EXCEPT !.wakeup[t] = due, !.timer[t] = TRUE,
                                !.wres[t] = "NONE", !.state[t] = "BLOCKED"], t), t)
          /\ Goto(t, "y_chk") /\ reg' = reg
        BY <1>7 DEF sleep_block, CallYield
    <2>2. due \in Ticks /\ IsCurrent(k, t)
        BY <1>2 DEF TypeInv, TypeOK, Locals, IsCurrent
    <2> HIDE DEF due
    <2>3. Sound(k', Unlinked, {}) /\ Blocks(k, k', t)
        BY <1>2, <1>3, <2>1, <2>2, SleepSound
    <2>4. Moves(t, "y_chk")
        BY <2>1, RegMoves
    <2> QED BY <1>1, <1>3, <1>4, <2>3, <2>4, BlockStep
<1>8. \/ sleep_done(t)
      \/ k' = k /\ Goto(t, "sl_crit") /\ reg' = reg
      \/ sleep_block(t) /\ ~timer_expired(tick, reg[t].due)
    BY DEF sleep_loop, sleep_block
<1> QED BY <1>5, <1>6, <1>7, <1>8

-----------------------------------------------------------------------------
(* The windows of task_yield and task_create. *)

(* The bit that is under way. *)
LEMMA TheBit ==
    ASSUME k.current \in Task
    PROVE  /\ pc[k.current] \in {"y_load", "y_store"} => BitUnderway = {k.prio[k.current]}
           /\ pc[k.current] \in {"c_load", "c_store"} =>
                 BitUnderway = {k.prio[reg[k.current].obj]}
BY DEF BitUnderway

(* Task u changes while t runs: what the tasks in task_create rely on. *)
LEMMA CreatorsFrame ==
    ASSUME ListInv, NEW t \in Task, NEW u \in Task,
           \A x \in Task \ {u} : SameTask(k, k', x),
           \A c \in Task \ {t} : pc[c] \in CreatePc /\ reg[c].obj = u =>
                 pc[c] # "c_link" /\ k'.state[u] \notin {"UNUSED", "DELETED"},
           u # t /\ pc[u] \in CreatePc => k'.state[u] \notin {"UNUSED", "DELETED"}
    PROVE  CreatorsKept(t)
<1> SUFFICES ASSUME NEW c \in Task \ {t}, pc[c] \in CreatePc
             PROVE  /\ IsLive(c)'
                    /\ k'.state[reg[c].obj] \notin {"UNUSED", "DELETED"}
                    /\ pc[c] = "c_link" => /\ k'.state[reg[c].obj] = "READY"
                                           /\ ~OnReady(k', reg[c].obj)
    BY DEF CreatorsKept
<1>1. CreatorOK(c)
    BY DEF ListInv, CreateOK
<1>2. IsLive(c)'
    <2>1. CASE c = u
        BY <2>1 DEF IsLive
    <2>2. CASE c # u
        BY <1>1, <2>2 DEF CreatorOK, IsLive, SameTask
    <2> QED BY <2>1, <2>2
<1>3. CASE reg[c].obj = u
    BY <1>2, <1>3
<1>4. CASE reg[c].obj # u
    <2>1. reg[c].obj \in Task \ {u} /\ SameTask(k, k', reg[c].obj)
        BY <1>1, <1>4 DEF CreatorOK
    <2>2. OnReady(k', reg[c].obj) <=> OnReady(k, reg[c].obj)
        BY <2>1, SamePlace
    <2> QED BY <1>1, <1>2, <2>1, <2>2 DEF CreatorOK, IsLive, SameTask
<1> QED BY <1>3, <1>4

(* The TCB the idle task is about to free stays off the lists. *)
LEMMA FreeKept ==
    ASSUME TypeInv, ListInv, NEW u \in Task, k.state[u] # "DELETED",
           \A x \in Task \ {u} : SameTask(k, k', x),
           pc'[Idle] = pc[Idle], reg'[Idle] = reg[Idle]
    PROVE  FreeOK'
<1>1. pc[Idle] = "i_free" => reg[Idle].obj \in Task
    BY SchedAssumption DEF TypeInv, LocalsOK
<1> QED BY <1>1 DEF ListInv, FreeOK, SameTask

(* task_yield up to its call of sched_ready_enqueue. *)
LEMMA YieldCheckInv ==
    ASSUME TypeInv, ListInv, NEW t \in Task, yield_check(t)
    PROVE  ListInv'
<1> USE DEF taskvars, history
<1>0. /\ Runs(t) /\ pc[t] = "y_chk" /\ pc[t] \notin Window \cup {"c_link"}
      /\ boot' = boot /\ ret' = ret /\ reg' = reg /\ trap' = trap
    BY DEF yield_check, At, Window
<1>1. /\ t = k.current /\ k \in Scheduler /\ OwnOK(t) /\ LockedAt(t) /\ t # Idle
      /\ k.state[t] # "UNUSED" /\ trap = "none"
      /\ Sound(k, Unlinked, {}) /\ Gentle(k, k)
    BY <1>0, PlainFacts, SameGentle DEF OwnOK, IdlePc
<1>2. CASE sched_is_locked(k)
    <2>1. k' = sched_set_pending(k) /\ Goto(t, ret[t])
        BY <1>2 DEF yield_check
    <2>2. Similar(k, k') /\ Gentle(k, k') /\ Sound(k', Unlinked, {})
        BY <1>1, <2>1, PendingSound
    <2>3. Moves(t, ret[t]) /\ ret[t] \in RetPc
        BY <1>0, <2>1, RegMoves DEF TypeInv, TypeOK
    <2>4. k.lock > 0
        BY <1>1, <1>2 DEF sched_is_locked, Scheduler
    <2>5. k'.state[t] = "RUNNING" /\ ret[t] # "sl_loop"
        BY <1>0, <1>1, <2>2, <2>4 DEF LockedAt, Similar
    <2>6. ret[t] \notin Window \cup CreatePc /\ ret[t] \notin {"sl_loop", "sl_crit"}
        BY <2>3, <2>5 DEF RetPc, Window, CreatePc
    <2> QED BY <1>0, <1>1, <2>2, <2>3, <2>5, <2>6, RunningStep
<1>3. CASE ~sched_is_locked(k) /\ k.state[t] = "RUNNING" /\ ~sched_current_is_idle(k)
    <2>1. k' = StoredReady(k, t) /\ Goto(t, "y_enq")
        BY <1>3 DEF yield_check, StoredReady
    <2>2. /\ Sound(k', Unlinked \cup {t}, {}) /\ Frame(k, k')
          /\ k'.state[t] = "READY" /\ ~OnReady(k', t)
          /\ \A x \in Task \ {t} : SameTask(k, k', x)
        BY <1>1, <1>3, <2>1, StoreReadySound
    <2>3. Gentle(k, k')
        <3>1. k'.state[t] \notin {"UNUSED", "DELETED"} /\ k.state[t] \in {"RUNNING", "BLOCKED"}
            BY <1>3, <2>2
        <3> QED BY <1>1, <2>2, <3>1, OneGentle
    <2>4. Moves(t, "y_enq") /\ pc'[t] = "y_enq"
        BY <1>0, <2>1, RegMoves DEF Moves
    <2>5. Unlinked \cup {t} \subseteq Unlinked'
        <3>1. Unlinked \subseteq Unlinked'
            BY <1>0, <1>1, <2>4, UnlinkedKept DEF Moves
        <3>2. t \in Unlinked'
            BY <1>1, <2>2, <2>4 DEF Unlinked, Frame
        <3> QED BY <3>1, <3>2
    <2>6. Sound(k', Unlinked', BitUnderway')
        BY <2>2, <2>5, SoundLoosen
    <2>7. ~(k'.lock > 0)
        BY <1>3, <2>2 DEF sched_is_locked, Frame
    <2>8. OwnOK(t)'
        BY <1>0, <1>1, <2>2, <2>4, <2>7 DEF OwnOK, CreatorOK, CreatePc, StateAt, LinkPc
    <2> QED BY <1>0, <1>1, <2>3, <2>4, <2>6, <2>8, GentleStep
<1>4. CASE ~sched_is_locked(k) /\ ~(k.state[t] = "RUNNING" /\ ~sched_current_is_idle(k))
    <2>1. k' = k /\ Goto(t, "ecall")
        BY <1>4 DEF yield_check
    <2>2. Moves(t, "ecall") /\ pc'[t] = "ecall"
        BY <1>0, <2>1, RegMoves DEF Moves
    <2>3. ~(k'.lock > 0)
        BY <1>4, <2>1 DEF sched_is_locked
    <2>4. StateAt(t)' /\ LockedAt(t)' /\ "ecall" \notin Window \cup CreatePc
        BY <2>2, <2>3 DEF StateAt, LockedAt, LinkPc, Window, CreatePc
    <2>5. Gentle(k, k') /\ Sound(k', Unlinked, {}) /\ k'.state[t] # "UNUSED"
        BY <1>1, <2>1
    <2> QED BY <1>0, <1>1, <2>2, <2>4, <2>5, PlainStep
<1> QED BY <1>2, <1>3, <1>4

(* The yielding task is linked into its ready list. *)
LEMMA YieldLinkInv ==
    ASSUME TypeInv, ListInv, NEW t \in Task, yield_link(t)
    PROVE  ListInv'
<1> USE DEF taskvars, history
<1>0. /\ Runs(t) /\ pc[t] = "y_enq"
      /\ boot' = boot /\ ret' = ret /\ reg' = reg /\ trap' = trap
    BY DEF yield_link, At
<1>1. /\ t = k.current /\ k.started /\ trap = "none" /\ k \in Scheduler
      /\ k.state[Idle] \in {"READY", "RUNNING"} /\ OwnOK(t)
      /\ Sound(k, Unlinked, BitUnderway)
    BY <1>0, RunsFacts
<1>2. k.state[t] = "READY" /\ ~OnReady(k, t) /\ t # Idle /\ ~(k.lock > 0)
    BY <1>0, <1>1 DEF OwnOK, StateAt, LinkPc, IdlePc
<1>3. BitUnderway = {}
    BY <1>0, <1>1, NoBit
<1>4. ~EnqueueRefused(k, t)
    BY <1>1, <1>2, LinkSound
<1>5. k' = ready_link(k, t) /\ Goto(t, "y_load")
    BY <1>4 DEF yield_link
<1>6. /\ Sound(k', Unlinked \ {t}, {} \cup {k.prio[t]})
      /\ Frame(k, k') /\ k'.state = k.state /\ k'.mask = k.mask /\ OnReady(k', t)
      /\ \A x \in Task \ {t} : SameTask(k, k', x)
    BY <1>1, <1>2, <1>3, <1>5, LinkSound
<1>7. Moves(t, "y_load") /\ pc'[t] = "y_load"
    BY <1>0, <1>5, RegMoves DEF Moves
<1>8. k'.current = t /\ k'.prio = k.prio
    BY <1>1, <1>6 DEF Frame
<1>9. Unlinked \ {t} \subseteq Unlinked'
    BY <1>0, <1>1, <1>7 DEF Unlinked, BeingCreated, Moves
<1>10. BitUnderway' = {k.prio[t]}
    BY <1>7, <1>8, TheBit DEF BitUnderway
<1>11. Sound(k', Unlinked', BitUnderway')
    BY <1>6, <1>9, <1>10, SoundLoosen
<1>12. OwnOK(t)'
    BY <1>0, <1>1, <1>2, <1>6, <1>7 DEF OwnOK, CreatorOK, CreatePc, StateAt, LinkPc, Frame
<1>13. CreatorsKept(t)
    <2>1. \A c \in Task \ {t} : pc[c] \in CreatePc /\ reg[c].obj = t =>
              pc[c] # "c_link" /\ k'.state[t] \notin {"UNUSED", "DELETED"}
        BY <1>1, <1>2, <1>6 DEF ListInv, CreateOK, CreatorOK
    <2> QED BY <1>6, <2>1, CreatorsFrame
<1>14. FreeOK'
    <2>1. pc'[Idle] = pc[Idle] /\ reg'[Idle] = reg[Idle]
        BY <1>2, <1>7, SchedAssumption DEF Moves
    <2> QED BY <1>2, <1>6, <2>1, FreeKept
<1>15. k'.state[Idle] \in {"READY", "RUNNING"} /\ Apart(t)
    BY <1>1, <1>6, <1>7 DEF Moves, Apart
<1> QED BY <1>0, <1>6, <1>11, <1>12, <1>13, <1>14, <1>15, TaskStep DEF Frame

(* Setting a bit disturbs nobody. *)
LEMMA SetBitGentle ==
    ASSUME NEW s, NEW e, Frame(s, e), e.state = s.state, \A x \in Task : SameTask(s, e, x)
    PROVE  Gentle(s, e)
BY SamePlace DEF Gentle, Frame, SameTask

(* mask |= bit in task_yield. *)
LEMMA YieldMaskInv ==
    ASSUME TypeInv, ListInv, NEW t \in Task,
           mask_load(t, "y_load", "y_store") \/ mask_store(t, t, "y_store", "ecall")
    PROVE  ListInv'
<1> USE DEF taskvars, history
<1>0. /\ Runs(t) /\ pc[t] \in {"y_load", "y_store"}
      /\ boot' = boot /\ ret' = ret /\ trap' = trap
    BY DEF mask_load, mask_store, At
<1>1. /\ t = k.current /\ k.started /\ trap = "none" /\ k \in Scheduler
      /\ OwnOK(t) /\ k.current \in Task
      /\ Sound(k, Unlinked, BitUnderway)
    BY <1>0, RunsFacts
<1>2. k.state[t] = "READY" /\ t # Idle /\ ~(k.lock > 0)
    BY <1>0, <1>1 DEF OwnOK, StateAt, LinkPc, IdlePc
<1>3. BitUnderway = {k.prio[t]}
    BY <1>0, <1>1, TheBit
<1>4. CASE mask_load(t, "y_load", "y_store")
    <2>1. /\ k' = k /\ Goto(t, "y_store") /\ reg' = [reg EXCEPT ![t].mask = k.mask]
          /\ pc[t] = "y_load"
        BY <1>4 DEF mask_load, At
    <2>2. Moves(t, "y_store") /\ pc'[t] = "y_store"
        BY <2>1, RegMoves DEF Moves
    <2>3. reg'[t].mask = k.mask
        BY <2>1 DEF TypeInv, TypeOK, Locals
    <2>4. Unlinked \subseteq Unlinked'
        BY <1>1, <2>1, <2>2, UnlinkedKept DEF Moves
    <2>5. BitUnderway' = {k.prio[t]}
        BY <1>1, <2>1, <2>2, TheBit DEF BitUnderway
    <2>6. Gentle(k, k') /\ Sound(k', Unlinked', BitUnderway')
        BY <1>1, <1>3, <2>1, <2>4, <2>5, SameGentle, SoundLoosen
    <2>7. OwnOK(t)'
        BY <1>0, <1>1, <1>2, <2>1, <2>2, <2>3 DEF OwnOK, CreatorOK, CreatePc, StateAt, LinkPc
    <2> QED BY <1>0, <1>2, <2>2, <2>6, <2>7, GentleStep
<1>5. CASE mask_store(t, t, "y_store", "ecall")
    <2>1. /\ k' = [k EXCEPT !.mask = reg[t].mask \cup {k.prio[t]}] /\ Goto(t, "ecall")
          /\ reg' = [reg EXCEPT ![t].mask = {}]
          /\ pc[t] = "y_store"
        BY <1>5 DEF mask_store, At
    <2>2. k' = BitSet(k, t)
        BY <1>1, <2>1 DEF OwnOK, BitSet
    <2>3. OnReady(k, t)
        <3>1. ~BeingCreated(t)
            BY <1>1 DEF BeingCreated, ListInv, CreateOK, CreatorOK, CreatePc
        <3>2. t \notin Unlinked
            BY <1>2, <2>1, <3>1 DEF Unlinked
        <3> QED BY <1>1, <1>2, <3>2 DEF Sound, Queued
    <2>4. /\ Sound(k', Unlinked, {}) /\ Frame(k, k') /\ k'.state = k.state
          /\ \A x \in Task : SameTask(k, k', x)
        BY <1>1, <1>3, <2>2, <2>3, SetBitSound
    <2>5. Gentle(k, k')
        BY <2>4, SetBitGentle
    <2>6. Moves(t, "ecall") /\ pc'[t] = "ecall"
        BY <2>1, RegMoves DEF Moves
    <2>7. Unlinked \subseteq Unlinked'
        BY <1>1, <2>1, <2>6, UnlinkedKept DEF Moves
    <2>8. Sound(k', Unlinked', BitUnderway')
        BY <2>4, <2>7, SoundLoosen
    <2>9. OwnOK(t)'
        BY <1>0, <1>1, <1>2, <2>4, <2>6
        DEF OwnOK, CreatorOK, CreatePc, StateAt, LinkPc, Frame, Window
    <2> QED BY <1>0, <1>2, <2>5, <2>6, <2>8, <2>9, GentleStep
<1> QED BY <1>4, <1>5

(* The same in task_create. *)
LEMMA CreateMaskInv ==
    ASSUME TypeInv, ListInv, NEW t \in Task,
           mask_load(t, "c_load", "c_store") \/ mask_store(t, reg[t].obj, "c_store", "c_cload")
    PROVE  ListInv'
<1> USE DEF taskvars, history
<1> DEFINE u == reg[t].obj
<1>0. /\ Runs(t) /\ pc[t] \in {"c_load", "c_store"}
      /\ boot' = boot /\ ret' = ret /\ trap' = trap
    BY DEF mask_load, mask_store, At
<1>1. /\ t = k.current /\ k.started /\ trap = "none" /\ k \in Scheduler
      /\ OwnOK(t) /\ k.current \in Task
      /\ Sound(k, Unlinked, BitUnderway)
    BY <1>0, RunsFacts
<1>2. /\ k.state[t] = "RUNNING" /\ t # Idle
      /\ u \in Task \ {t, Idle} /\ k.state[u] = "READY" /\ IsLive(u) /\ IsLive(t)
      /\ \A c \in Task \ {t} : pc[c] \in CreatePc => u # reg[c].obj
    BY <1>0, <1>1 DEF OwnOK, StateAt, LinkPc, IdlePc, CreatorOK, CreatePc
<1>3. BitUnderway = {k.prio[u]}
    BY <1>0, <1>1, TheBit
<1>4. CASE mask_load(t, "c_load", "c_store")
    <2>1. /\ k' = k /\ Goto(t, "c_store") /\ reg' = [reg EXCEPT ![t].mask = k.mask]
          /\ pc[t] = "c_load"
        BY <1>4 DEF mask_load, At
    <2>2. Moves(t, "c_store") /\ pc'[t] = "c_store"
        BY <2>1, RegMoves DEF Moves
    <2>3. reg'[t].mask = k.mask /\ reg'[t].obj = u
        BY <2>1 DEF TypeInv, TypeOK, Locals
    <2>4. Unlinked \subseteq Unlinked'
        BY <1>1, <2>1, <2>2, UnlinkedKept DEF Moves
    <2>5. BitUnderway' = {k.prio[u]}
        BY <1>1, <2>1, <2>2, <2>3 DEF BitUnderway
    <2>6. Gentle(k, k') /\ Sound(k', Unlinked', BitUnderway')
        BY <1>1, <1>3, <2>1, <2>4, <2>5, SameGentle, SoundLoosen
    <2>7. OwnOK(t)'
        BY <1>0, <1>1, <1>2, <2>1, <2>2, <2>3
        DEF OwnOK, CreatorOK, CreatePc, StateAt, LinkPc, Moves, IsLive
    <2> QED BY <1>0, <1>2, <2>2, <2>6, <2>7, GentleStep
<1>5. CASE mask_store(t, reg[t].obj, "c_store", "c_cload")
    <2>1. /\ k' = [k EXCEPT !.mask = reg[t].mask \cup {k.prio[u]}] /\ Goto(t, "c_cload")
          /\ reg' = [reg EXCEPT ![t].mask = {}]
          /\ pc[t] = "c_store"
        BY <1>5 DEF mask_store, At
    <2>2. k' = BitSet(k, u)
        BY <1>1, <2>1 DEF OwnOK, BitSet
    <2>3. reg'[t].obj = u
        BY <2>1 DEF TypeInv, TypeOK, Locals
    <2> HIDE DEF u
    <2>4. OnReady(k, u)
        <3>1. ~BeingCreated(u)
            BY <1>2, <2>1 DEF BeingCreated, CreatePc, u
        <3>2. u \notin Unlinked
            BY <1>1, <1>2, <2>1, <3>1 DEF Unlinked
        <3> QED BY <1>1, <1>2, <3>2 DEF Sound, Queued
    <2>5. /\ Sound(k', Unlinked, {}) /\ Frame(k, k') /\ k'.state = k.state
          /\ \A x \in Task : SameTask(k, k', x)
        BY <1>1, <1>2, <1>3, <2>2, <2>4, SetBitSound
    <2>6. Gentle(k, k')
        BY <2>5, SetBitGentle
    <2>7. Moves(t, "c_cload") /\ pc'[t] = "c_cload"
        BY <2>1, RegMoves DEF Moves
    <2>8. Unlinked \subseteq Unlinked'
        BY <1>1, <2>1, <2>7, UnlinkedKept DEF Moves
    <2>9. Sound(k', Unlinked', BitUnderway')
        BY <2>5, <2>8, SoundLoosen
    <2>10. CreatorOK(t)'
        BY <1>2, <2>3, <2>5, <2>7 DEF CreatorOK, IsLive, Frame
    <2>11. OwnOK(t)'
        BY <1>0, <1>1, <1>2, <2>3, <2>5, <2>7, <2>10
        DEF OwnOK, CreatePc, StateAt, LinkPc, Frame, Window, Moves
    <2> QED BY <1>0, <1>2, <2>6, <2>7, <2>9, <2>11, GentleStep
<1> QED BY <1>4, <1>5

-----------------------------------------------------------------------------
(* The wait queue calls. *)

(* Waking a waiter disturbs nobody else and not the lock. *)
LEMMA WakeGentle ==
    ASSUME NEW s \in Scheduler, NEW q \in WaitQ, NEW U, NEW B, Sound(s, U, B),
           s.state[Idle] \in {"READY", "RUNNING"},
           NEW result \in WaitResult,
           NEW e, \/ e = trt_wait_q_wake_one_result_locked(s, q, result)
                  \/ e = trt_wait_q_wake_one_from_isr(s, q)
    PROVE  /\ Sound(e, U, B) /\ Gentle(s, e) /\ e.lock = s.lock
           /\ \A x \in Task : s.state[x] # "BLOCKED" => e.state[x] = s.state[x]
<1>1. Sound(e, U, B) /\ Frame(s, e)
    BY WakeResultSound
<1>2. CASE e = s
    BY <1>1, <1>2, SameGentle
<1>3. CASE e # s
    <2>1. PICK t \in Task : /\ s.state[t] = "BLOCKED" /\ e.state[t] = "READY"
                            /\ \A x \in Task \ {t} : SameTask(s, e, x)
        BY <1>3, WakeResultSound
    <2>2. /\ t # Idle /\ e.state[t] \notin {"UNUSED", "DELETED"}
          /\ s.state[t] \in {"RUNNING", "BLOCKED"}
        BY <2>1
    <2>3. Gentle(s, e)
        BY <1>1, <2>1, <2>2, OneGentle
    <2> QED BY <1>1, <2>1, <2>3 DEF SameTask, Frame
<1> QED BY <1>2, <1>3

(* trt_wait_q_wake_one and trt_wait_q_wake_all. *)
LEMMA WakeInv ==
    ASSUME TypeInv, ListInv, NEW t \in Task,
           \/ \E q \in WaitQ : trt_wait_q_wake_one(t, q) \/ trt_wait_q_wake_all(t, q)
           \/ wake_all_round(t, "wq_all", "OBJECT", "run")
    PROVE  ListInv'
<1> USE DEF taskvars, history
<1>1. ASSUME NEW q \in WaitQ, trt_wait_q_wake_one(t, q) PROVE ListInv'
    <2>0. /\ Call(t, "wake") /\ boot' = boot /\ ret' = ret /\ reg' = reg /\ pc' = pc
          /\ k' = trt_wait_q_wake_one_result_locked(k, q, "OBJECT")
        BY <1>1 DEF trt_wait_q_wake_one, trt_wait_q_wake_one_locked
    <2>1. /\ Runs(t) /\ pc[t] = "run" /\ t # Idle
          /\ pc[t] \notin Window \cup {"c_link"}
          /\ k \in Scheduler /\ k.state[t] = "RUNNING"
          /\ Sound(k, Unlinked, {})
          /\ "run" \notin Window \cup CreatePc
        BY <2>0, CallFacts
    <2>2. k.state[Idle] \in {"READY", "RUNNING"} /\ "OBJECT" \in WaitResult
        BY <2>1, RunsFacts DEF WaitResult
    <2>3. Sound(k', Unlinked, {}) /\ Gentle(k, k') /\ k'.state[t] = "RUNNING"
        BY <1>1, <2>0, <2>1, <2>2, WakeGentle
    <2>4. Moves(t, "run")
        BY <2>0, <2>1, RegMoves
    <2> QED BY <2>0, <2>1, <2>3, <2>4, RunningStep
<1>2. ASSUME NEW q \in WaitQ, trt_wait_q_wake_all(t, q) PROVE ListInv'
    <2>0. /\ Call(t, "wake") /\ boot' = boot /\ ret' = ret /\ k' = k
          /\ reg' = [reg EXCEPT ![t].q = q] /\ Goto(t, "wq_all")
        BY <1>2 DEF trt_wait_q_wake_all
    <2>1. /\ Runs(t) /\ pc[t] = "run" /\ t # Idle
          /\ pc[t] \notin Window \cup {"c_link"}
          /\ k.state[t] = "RUNNING"
          /\ Sound(k, Unlinked, {}) /\ Gentle(k, k)
        BY <2>0, CallFacts
    <2>2. Moves(t, "wq_all")
        BY <2>0, RegMoves
    <2>3. "wq_all" \notin Window \cup CreatePc
        BY DEF Window, CreatePc
    <2> QED BY <2>0, <2>1, <2>2, <2>3, RunningStep
<1>3. CASE wake_all_round(t, "wq_all", "OBJECT", "run")
    <2> DEFINE q == reg[t].q
    <2>0. /\ Runs(t) /\ pc[t] = "wq_all" /\ boot' = boot /\ ret' = ret
          /\ k' = trt_wait_q_wake_one_result_locked(k, q, "OBJECT")
          /\ \/ Goto(t, "run") /\ reg' = [reg EXCEPT ![t].q = None]
             \/ pc' = pc /\ reg' = reg
          /\ pc[t] \notin Window \cup {"c_link"}
        BY <1>3 DEF wake_all_round, At, Window
    <2>1. /\ k \in Scheduler /\ StateAt(t) /\ OwnOK(t)
          /\ Sound(k, Unlinked, {}) /\ k.state[Idle] \in {"READY", "RUNNING"}
        BY <2>0, PlainFacts
    <2>2. k.state[t] = "RUNNING" /\ t # Idle
        BY <2>0, <2>1 DEF StateAt, LinkPc, OwnOK, IdlePc
    <2>3. q \in WaitQ /\ "OBJECT" \in WaitResult
        BY <2>0 DEF TypeInv, LocalsOK, WaitResult
    <2> HIDE DEF q
    <2>4. Sound(k', Unlinked, {}) /\ Gentle(k, k') /\ k'.state[t] = "RUNNING"
        BY <2>0, <2>1, <2>2, <2>3, WakeGentle
    <2>5. CASE Goto(t, "run") /\ reg' = [reg EXCEPT ![t].q = None]
        <3>1. Moves(t, "run") /\ "run" \notin Window \cup CreatePc
            BY <2>5, RegMoves DEF Window, CreatePc
        <3> QED BY <2>0, <2>2, <2>4, <3>1, RunningStep
    <2>6. CASE pc' = pc /\ reg' = reg
        <3>1. Moves(t, "wq_all") /\ "wq_all" \notin Window \cup CreatePc
            BY <2>0, <2>6, RegMoves DEF Window, CreatePc
        <3> QED BY <2>0, <2>2, <2>4, <3>1, RunningStep
    <2> QED BY <2>0, <2>5, <2>6
<1> QED BY <1>1, <1>2, <1>3

(* trt_wait_q_block and trt_wait_q_block_ticks. *)
LEMMA WaitInv ==
    ASSUME TypeInv, ListInv, NEW t \in Task, NEW q \in WaitQ,
           trt_wait_q_block(t, q) \/ \E d \in Delays : trt_wait_q_block_ticks(t, q, d)
    PROVE  ListInv'
<1> USE DEF taskvars, history
<1>0. /\ Call(t, "wait") \/ Call(t, "timedwait")
      /\ boot' = boot /\ reg' = reg
    BY DEF trt_wait_q_block, trt_wait_q_block_ticks
<1>1. /\ Runs(t) /\ pc[t] = "run" /\ t # Idle
      /\ pc[t] \notin Window \cup {"c_link"}
      /\ k \in Scheduler /\ k.state[t] = "RUNNING" /\ t = k.current
      /\ Sound(k, Unlinked, {})
      /\ "run" \notin Window \cup CreatePc
    BY <1>0, CallFacts
<1>2. CASE BlockRefused(k)
    <2>1. k' = sched_set_pending(k) /\ pc' = pc /\ ret' = ret
        BY <1>2 DEF trt_wait_q_block, trt_wait_q_block_ticks, trt_wait_q_block_locked,
                    trt_wait_q_block_ticks_locked
    <2>2. Similar(k, k') /\ Gentle(k, k') /\ Sound(k', Unlinked, {})
        BY <1>1, <2>1, PendingSound
    <2>3. Moves(t, "run")
        BY <1>0, <1>1, <2>1, RegMoves
    <2>4. k'.state[t] = "RUNNING"
        BY <1>1, <2>2 DEF Similar
    <2> QED BY <1>0, <1>1, <2>2, <2>3, <2>4, RunningStep
<1>3. CASE ~BlockRefused(k)
    <2>1. /\ \/ k' = trt_wait_q_block_locked(k, q)
             \/ \E d \in Delays : k' = trt_wait_q_block_ticks_locked(k, q, d, tick)
          /\ Goto(t, "y_chk")
        BY <1>3 DEF trt_wait_q_block, trt_wait_q_block_ticks, CallYield
    <2>2. IsCurrent(k, t) /\ tick \in Ticks /\ Delays \subseteq Nat
        <3>1. TickMod \div 2 - 1 \in Int
            BY SchedAssumption
        <3> QED BY <1>1, <3>1, KernelAssumption DEF IsCurrent, TypeInv, TypeOK
    <2>3. Sound(k', Unlinked, {}) /\ Blocks(k, k', t)
        <3>1. CASE k' = trt_wait_q_block_locked(k, q)
            BY <1>1, <1>3, <2>2, <3>1, WaitBlockSound
        <3>2. ASSUME NEW d \in Delays, k' = trt_wait_q_block_ticks_locked(k, q, d, tick)
              PROVE  Sound(k', Unlinked, {}) /\ Blocks(k, k', t)
            <4>1. d \in Nat
                BY <2>2
            <4> QED BY <1>1, <1>3, <2>2, <3>2, <4>1, TimedBlockSound
        <3> QED BY <2>1, <3>1, <3>2
    <2>4. Moves(t, "y_chk")
        BY <1>0, <2>1, RegMoves
    <2>5. ~(k.lock > 0)
        BY <1>1, <1>3 DEF BlockRefused, sched_is_locked
    <2> QED BY <1>0, <1>1, <2>3, <2>4, <2>5, BlockStep
<1> QED BY <1>2, <1>3

-----------------------------------------------------------------------------
(* task_delete and task_exit. *)

(* sched_mark_deleted, and the reschedule asked for by a task that deletes *)
(* itself.                                                                 *)
MarkedDeleted(s, u, self) == [sched_mark_deleted(s, u) EXCEPT !.pending = @ \/ self]

(* The task is on the deleted list only. *)
LEMMA MarkedSound ==
    ASSUME NEW s \in Scheduler, NEW u \in Task, NEW U, NEW B, Sound(s, U, B),
           u # s.idle, s.state[u] # "DELETED", NEW self,
           NEW e, e = MarkedDeleted(s, u, self)
    PROVE  /\ Sound(e, U, B)
           /\ Frame(s, e)
           /\ e.state[u] = "DELETED"
           /\ \A x \in Task \ {u} : SameTask(s, e, x)
<1> DEFINE d == sched_mark_deleted(s, u)
<1>1. d \in Scheduler /\ Sound(d, U, B) /\ Frame(s, d) /\ d.state[u] = "DELETED"
      /\ \A x \in Task \ {u} : SameTask(s, d, x)
    BY MarkDeletedSound, MarkDeletedType
<1>2. e = [d EXCEPT !.pending = @ \/ self]
    BY DEF MarkedDeleted
<1> HIDE DEF d
<1> DEFINE b == d.pending \/ self
<1>3. e = [d EXCEPT !.pending = b]
    BY <1>2
<1> HIDE DEF b
<1>4. Similar(d, e) /\ e.wres = d.wres
    BY <1>1, <1>3 DEF Similar, Frame, Scheduler
<1>5. Sound(e, U, B)
    BY <1>1, <1>4, SimilarSound
<1>6. Frame(s, e) /\ e.state[u] = "DELETED"
    BY <1>1, <1>4 DEF Similar, Frame
<1>7. \A x \in Task \ {u} : SameTask(s, e, x)
    BY <1>1, <1>4 DEF Similar, SameTask, Frame
<1> QED BY <1>5, <1>6, <1>7

(* task_delete_obj, as long as it hits no freed TCB and no task_create. *)
LEMMA DeleteObjInv ==
    ASSUME TypeInv, ListInv, NEW t \in Task, NEW u \in Task, NEW p, Runs(t),
           pc[t] \notin Window \cup {"c_link"}, k.state[t] = "RUNNING", t # Idle,
           p = "run" \/ (p = "ecall" /\ u = t),
           task_delete_obj(t, u, p), fault = {}, fault' = {},
           boot' = boot, trap' = trap,
           u = t => ret' = [ret EXCEPT ![t] = "ecall"],
           UNCHANGED reg \/ \E l : reg' = [reg EXCEPT ![t].obj = l]
    PROVE  ListInv'
<1>1. /\ t = k.current /\ k \in Scheduler /\ k.idle = Idle /\ k.started /\ trap = "none"
      /\ k.state[Idle] \in {"READY", "RUNNING"}
      /\ Sound(k, Unlinked, {}) /\ Gentle(k, k)
    BY PlainFacts, SameGentle
<1>2. "run" \notin Window \cup CreatePc /\ "ecall" \notin Window \cup CreatePc
    BY DEF Window, CreatePc
<1>3. u = t => ret'[t] = "ecall"
    BY DEF TypeInv, TypeOK
<1>4. k.state[u] # "UNUSED"
    <2>1. k.state[u] = "UNUSED" => fault' = fault \cup {"uaf"}
        BY DEF task_delete_obj
    <2> QED BY <2>1
<1>5. CASE u = Idle \/ k.state[u] = "DELETED" \/ (u = t /\ sched_is_locked(k))
    <2>1. k' = k /\ Goto(t, p)
        BY <1>4, <1>5 DEF task_delete_obj
    <2>2. Moves(t, p)
        BY <2>1, RegMoves
    <2>3. Gentle(k, k') /\ Sound(k', Unlinked, {}) /\ k'.state[t] = "RUNNING"
        BY <1>1, <2>1
    <2>4. p \notin Window \cup CreatePc
        BY <1>2
    <2>5. p \notin {"sl_loop", "sl_crit"} /\ (p \in {"y_chk", "ecall"} => ret'[t] # "sl_loop")
        BY <1>3
    <2> QED BY <2>2, <2>3, <2>4, <2>5, RunningStep
<1>6. CASE ~(u = Idle \/ k.state[u] = "DELETED" \/ (u = t /\ sched_is_locked(k)))
    <2>1. /\ k' = MarkedDeleted(k, u, u = t)
          /\ fault' = IF Unpublished(t, u) THEN fault \cup {"orphan"} ELSE fault
          /\ Goto(t, IF u = t THEN "ecall" ELSE p)
        BY <1>4, <1>6 DEF task_delete_obj, MarkedDeleted
    <2>2. ~Unpublished(t, u)
        BY <2>1
    <2>3. /\ Sound(k', Unlinked, {}) /\ Frame(k, k') /\ k'.state[u] = "DELETED"
          /\ \A x \in Task \ {u} : SameTask(k, k', x)
        <3>1. u # k.idle /\ k.state[u] # "DELETED"
            BY <1>1, <1>6
        <3> QED BY <1>1, <2>1, <3>1, MarkedSound
    <2> DEFINE n == IF u = t THEN "ecall" ELSE "run"
    <2>4. Goto(t, n)
        BY <2>1
    <2>5. Moves(t, n) /\ pc'[t] = n
        BY <2>4, RegMoves DEF Moves
    <2>6. Unlinked \subseteq Unlinked'
        <3>1. pc[k.current] # "y_enq"
            BY <1>1 DEF Window
        <3>2. \A c \in Task : pc[c] = "c_link" => pc'[c] = "c_link" /\ reg'[c].obj = reg[c].obj
            BY <2>5 DEF Moves
        <3> QED BY <3>1, <3>2, UnlinkedKept
    <2>7. Sound(k', Unlinked', BitUnderway')
        BY <2>3, <2>6, SoundLoosen
    <2>8. CreatorsKept(t)
        <3>1. \A c \in Task \ {t} : ~(pc[c] \in CreatePc /\ reg[c].obj = u)
            BY <2>2 DEF Unpublished
        <3>2. pc[u] \notin CreatePc
            BY <2>2 DEF Unpublished
        <3> QED BY <2>3, <3>1, <3>2, CreatorsFrame
    <2>9. FreeOK'
        <3>1. pc'[Idle] = pc[Idle] /\ reg'[Idle] = reg[Idle]
            BY <2>5, SchedAssumption DEF Moves
        <3> QED BY <1>6, <2>3, <3>1, FreeKept
    <2>10. OwnOK(t)'
        <3>1. CASE u = t
            <4>1. pc'[t] = "ecall" /\ ~(k'.lock > 0)
                BY <1>6, <2>3, <2>5, <3>1 DEF sched_is_locked, Frame
            <4> QED BY <2>3, <3>1, <4>1
                    DEF OwnOK, CreatorOK, CreatePc, StateAt, LinkPc, Window
        <3>2. CASE u # t
            <4>1. pc'[t] = "run" /\ k'.state[t] = "RUNNING"
                BY <2>3, <2>5, <3>2 DEF SameTask
            <4> QED BY <4>1 DEF OwnOK, CreatorOK, CreatePc, StateAt, LinkPc, Window
        <3> QED BY <3>1, <3>2
    <2>11. k'.state[Idle] \in {"READY", "RUNNING"} /\ Apart(t)
        BY <1>1, <1>6, <2>3, <2>5, SchedAssumption DEF Moves, Apart, SameTask
    <2> QED BY <2>3, <2>7, <2>8, <2>9, <2>10, <2>11, TaskStep DEF Frame
<1> QED BY <1>5, <1>6

(* The callers of task_delete_obj. *)
LEMMA DeleteInv ==
    ASSUME TypeInv, ListInv, NEW t \in Task, fault = {}, fault' = {},
           \/ \E h \in Handle : task_delete(t, h)
           \/ task_delete_found(t)
           \/ task_exit(t)
           \/ create_fail(t)
    PROVE  ListInv'
<1> USE DEF taskvars, history
<1>1. ASSUME NEW h \in Handle, task_delete(t, h) PROVE ListInv'
    <2>0. /\ Call(t, "delete") /\ boot' = boot /\ ret' = ret /\ k' = k
          /\ reg' = [reg EXCEPT ![t].obj = htab[h]] /\ Goto(t, "d_obj")
        BY <1>1 DEF task_delete
    <2>1. /\ Runs(t) /\ pc[t] = "run" /\ t # Idle
          /\ pc[t] \notin Window \cup {"c_link"}
          /\ k.state[t] = "RUNNING"
          /\ Sound(k, Unlinked, {}) /\ Gentle(k, k)
        BY <2>0, CallFacts
    <2>2. Moves(t, "d_obj")
        BY <2>0, RegMoves
    <2>3. "d_obj" \notin Window \cup CreatePc
        BY DEF Window, CreatePc
    <2> QED BY <2>0, <2>1, <2>2, <2>3, RunningStep
<1>2. CASE task_delete_found(t)
    <2> DEFINE u == reg[t].obj
    <2>0. /\ Runs(t) /\ pc[t] = "d_obj" /\ boot' = boot /\ trap' = trap
          /\ task_delete_obj(t, u, "run") /\ LoopIfSelf(t, u)
          /\ reg' = [reg EXCEPT ![t].obj = None]
          /\ pc[t] \notin Window \cup {"c_link"}
        BY <1>2 DEF task_delete_found, At, Window
    <2>1. StateAt(t) /\ OwnOK(t)
        BY <2>0, PlainFacts
    <2>2. k.state[t] = "RUNNING" /\ t # Idle
        BY <2>0, <2>1 DEF StateAt, LinkPc, OwnOK, IdlePc
    <2>3. u \in Task
        BY <2>0 DEF TypeInv, LocalsOK
    <2> HIDE DEF u
    <2>4. u = t => ret' = [ret EXCEPT ![t] = "ecall"]
        BY <2>0 DEF LoopIfSelf
    <2> QED BY <2>0, <2>2, <2>3, <2>4, DeleteObjInv
<1>3. CASE task_exit(t)
    <2>0. /\ Call(t, "exit") /\ boot' = boot /\ trap' = trap /\ reg' = reg
          /\ task_delete_obj(t, t, "ecall") /\ ret' = [ret EXCEPT ![t] = "ecall"]
        BY <1>3 DEF task_exit, LoopIfSelf
    <2>1. /\ Runs(t) /\ pc[t] = "run" /\ t # Idle
          /\ pc[t] \notin Window \cup {"c_link"}
          /\ k.state[t] = "RUNNING"
        BY <2>0, CallFacts
    <2> QED BY <2>0, <2>1, DeleteObjInv
<1>4. CASE create_fail(t)
    <2> DEFINE u == reg[t].obj
    <2>0. /\ Runs(t) /\ pc[t] = "c_fail" /\ boot' = boot /\ trap' = trap /\ ret' = ret
          /\ task_delete_obj(t, u, "run")
          /\ reg' = [reg EXCEPT ![t].obj = None]
          /\ pc[t] \notin Window \cup {"c_link"}
        BY <1>4 DEF create_fail, At, Window
    <2>1. StateAt(t) /\ OwnOK(t)
        BY <2>0, PlainFacts
    <2>2. k.state[t] = "RUNNING" /\ t # Idle
        BY <2>0, <2>1 DEF StateAt, LinkPc, OwnOK, IdlePc
    <2>3. u \in Task \ {t}
        BY <2>0, <2>1 DEF OwnOK, CreatorOK, CreatePc
    <2> HIDE DEF u
    <2> QED BY <2>0, <2>2, <2>3, DeleteObjInv
<1> QED BY <1>1, <1>2, <1>3, <1>4

-----------------------------------------------------------------------------
(* task_create. *)

(* A new TCB is initialised. *)
LEMMA CreateInv ==
    ASSUME TypeInv, ListInv, NEW t \in Task, NEW p \in CreatePrio, task_create(t, p)
    PROVE  ListInv'
<1> USE DEF taskvars, history
<1>0. PICK u \in FreeSlots : /\ k' = InitTcb(k, u, p)
                             /\ reg' = [reg EXCEPT ![t].obj = u]
    BY DEF task_create
<1>1. /\ Call(t, "create") /\ boot' = boot /\ trap' = trap /\ ret' = ret /\ Goto(t, "c_link")
    BY DEF task_create
<1>2. /\ Runs(t) /\ pc[t] = "run" /\ t # Idle
      /\ k \in Scheduler /\ k.state[t] = "RUNNING" /\ t = k.current
      /\ Sound(k, Unlinked, {})
    BY <1>1, CallFacts
<1>3. u \in Task /\ u # Idle /\ k.state[u] = "UNUSED" /\ u # t /\ p \in Prio
    BY <1>2, KernelAssumption DEF FreeSlots
<1>4. /\ Sound(k', Unlinked \cup {u}, {}) /\ TcbFrame(k, k')
      /\ k'.state[u] = "READY" /\ ~OnReady(k', u)
      /\ \A x \in Task \ {u} : SameTask(k, k', x)
    BY <1>0, <1>2, <1>3, NewTcbSound
<1>5. Moves(t, "c_link") /\ pc'[t] = "c_link" /\ reg'[t].obj = u
    <2>1. Moves(t, "c_link")
        BY <1>0, <1>1, RegMoves
    <2> QED BY <1>0, <2>1 DEF Moves, TypeInv, TypeOK, Locals
<1>6. Unlinked \cup {u} \subseteq Unlinked'
    <2>1. \A c \in Task : pc[c] = "c_link" => pc'[c] = "c_link" /\ reg'[c].obj = reg[c].obj
        BY <1>2, <1>5 DEF Moves
    <2>2. Unlinked \subseteq Unlinked'
        BY <1>2, <2>1, UnlinkedKept
    <2>3. u \in Unlinked'
        BY <1>3, <1>5 DEF Unlinked, BeingCreated
    <2> QED BY <2>2, <2>3
<1>7. Sound(k', Unlinked', BitUnderway')
    BY <1>4, <1>6, SoundLoosen
<1>8. \A c \in Task : pc[c] \in CreatePc => reg[c].obj # u /\ c # u
    BY <1>3 DEF ListInv, CreateOK, CreatorOK, IsLive
<1>9. CreatorsKept(t)
    BY <1>3, <1>4, <1>8, CreatorsFrame
<1>10. FreeOK'
    <2>1. pc'[Idle] = pc[Idle] /\ reg'[Idle] = reg[Idle]
        BY <1>2, <1>5, SchedAssumption DEF Moves
    <2> QED BY <1>3, <1>4, <2>1, FreeKept
<1>11. k'.state[t] = "RUNNING" /\ k'.state[Idle] = k.state[Idle] /\ k'.current = t
       /\ k.state[Idle] \in {"READY", "RUNNING"} /\ trap = "none"
    BY <1>2, <1>3, <1>4, RunsFacts, SchedAssumption DEF SameTask, TcbFrame
<1>12. CreatorOK(t)'
    BY <1>2, <1>3, <1>4, <1>5, <1>11 DEF CreatorOK, IsLive
<1>13. OwnOK(t)'
    BY <1>1, <1>2, <1>5, <1>8, <1>11, <1>12 DEF OwnOK, StateAt, LinkPc, Window, Moves
<1>14. k'.state[Idle] \in {"READY", "RUNNING"} /\ Apart(t)
    BY <1>5, <1>11 DEF Moves, Apart
<1> QED BY <1>1, <1>2, <1>4, <1>7, <1>9, <1>10, <1>13, <1>14, TaskStep DEF TcbFrame

(* sched_add_task links it. *)
LEMMA CreateLinkInv ==
    ASSUME TypeInv, ListInv, NEW t \in Task, create_link(t)
    PROVE  ListInv'
<1> USE DEF taskvars, history
<1> DEFINE u == reg[t].obj
<1>0. /\ Runs(t) /\ pc[t] = "c_link"
      /\ boot' = boot /\ ret' = ret /\ reg' = reg /\ trap' = trap
    BY DEF create_link, At
<1>1. /\ t = k.current /\ k.started /\ trap = "none" /\ k \in Scheduler
      /\ k.state[Idle] \in {"READY", "RUNNING"} /\ OwnOK(t)
      /\ Sound(k, Unlinked, BitUnderway)
    BY <1>0, RunsFacts
<1>2. /\ k.state[t] = "RUNNING" /\ t # Idle
      /\ u \in Task \ {t, Idle} /\ k.state[u] = "READY" /\ ~OnReady(k, u)
      /\ \A c \in Task \ {t} : pc[c] \in CreatePc => u # reg[c].obj
    BY <1>0, <1>1 DEF OwnOK, StateAt, LinkPc, IdlePc, CreatorOK, CreatePc
<1>3. BitUnderway = {}
    BY <1>0, <1>1, NoBit
<1>4. ~EnqueueRefused(k, u)
    BY <1>1, <1>2, LinkSound
<1>5. k' = ready_link(k, u) /\ Goto(t, "c_load")
    BY <1>4 DEF create_link
<1>6. reg'[t].obj = u
    BY <1>0
<1> HIDE DEF u
<1>7. /\ Sound(k', Unlinked \ {u}, {} \cup {k.prio[u]})
      /\ Frame(k, k') /\ k'.state = k.state
      /\ \A x \in Task \ {u} : SameTask(k, k', x)
    BY <1>1, <1>2, <1>3, <1>5, LinkSound
<1>8. Moves(t, "c_load") /\ pc'[t] = "c_load"
    BY <1>0, <1>5, RegMoves DEF Moves
<1>9. k'.current = t /\ k'.prio = k.prio
    BY <1>1, <1>7 DEF Frame
<1>10. Unlinked \ {u} \subseteq Unlinked'
    BY <1>0, <1>1, <1>8 DEF Unlinked, BeingCreated, Moves, u
<1>11. BitUnderway' = {k.prio[u]}
    BY <1>6, <1>8, <1>9 DEF BitUnderway
<1>12. Sound(k', Unlinked', BitUnderway')
    BY <1>7, <1>10, <1>11, SoundLoosen
<1>13. CreatorOK(t)'
    BY <1>2, <1>6, <1>7, <1>8 DEF CreatorOK, IsLive
<1>14. OwnOK(t)'
    BY <1>0, <1>1, <1>2, <1>6, <1>7, <1>8, <1>13
    DEF OwnOK, CreatePc, StateAt, LinkPc, Frame, Moves
<1>15. CreatorsKept(t)
    BY <1>2, <1>7, CreatorsFrame
<1>16. FreeOK'
    <2>1. pc'[Idle] = pc[Idle] /\ reg'[Idle] = reg[Idle]
        BY <1>2, <1>8, SchedAssumption DEF Moves
    <2> QED BY <1>2, <1>7, <2>1, FreeKept
<1>17. k'.state[Idle] \in {"READY", "RUNNING"} /\ Apart(t)
    BY <1>1, <1>7, <1>8 DEF Moves, Apart
<1> QED BY <1>0, <1>7, <1>12, <1>14, <1>15, <1>16, <1>17, TaskStep DEF Frame

(* The rest of task_create leaves the scheduler alone. *)
LEMMA CreatorStep ==
    ASSUME TypeInv, ListInv, NEW t \in Task, Runs(t), k' = k, boot' = boot, trap' = trap,
           pc[t] \in {"c_cload", "c_cstore", "c_hnd"}, NEW p, Moves(t, p),
           p \in {"c_cstore", "c_hnd", "c_set", "c_fail"}, reg'[t].obj = reg[t].obj
    PROVE  ListInv'
<1>1. /\ t = k.current /\ k.started /\ trap = "none"
      /\ OwnOK(t) /\ Sound(k, Unlinked, BitUnderway)
    BY RunsFacts
<1>2. /\ k.state[t] = "RUNNING" /\ t # Idle /\ pc'[t] = p
      /\ reg[t].obj \in Task \ {t, Idle} /\ IsLive(t) /\ IsLive(reg[t].obj)
      /\ \A c \in Task \ {t} : pc[c] \in CreatePc => reg[t].obj # reg[c].obj
    BY <1>1 DEF OwnOK, StateAt, LinkPc, IdlePc, CreatorOK, CreatePc, Moves
<1>3. BitUnderway = {}
    BY <1>1, NoBit
<1>4. Unlinked \subseteq Unlinked'
    BY <1>1, UnlinkedKept DEF Moves
<1>5. Gentle(k, k') /\ Sound(k', Unlinked', BitUnderway')
    BY <1>1, <1>3, <1>4, SameGentle, SoundLoosen
<1>6. CreatorOK(t)'
    BY <1>2 DEF CreatorOK, IsLive
<1>7. OwnOK(t)'
    BY <1>1, <1>2, <1>6 DEF OwnOK, StateAt, LinkPc, Moves
<1> QED BY <1>2, <1>5, <1>7, GentleStep DEF Moves

(* The count and the handle. *)
LEMMA CreateRestInv ==
    ASSUME TypeInv, ListInv, NEW t \in Task,
           count_load(t) \/ count_store(t) \/ create_handle(t) \/ create_set_handle(t)
    PROVE  ListInv'
<1> USE DEF taskvars, history
<1>1. CASE count_load(t)
    <2>1. /\ Runs(t) /\ pc[t] = "c_cload" /\ k' = k /\ boot' = boot /\ trap' = trap
          /\ Goto(t, "c_cstore") /\ reg' = [reg EXCEPT ![t].count = task_count]
        BY <1>1 DEF count_load, At
    <2>2. Moves(t, "c_cstore")
        BY <2>1, RegMoves
    <2>3. reg'[t].obj = reg[t].obj
        BY <2>1 DEF TypeInv, TypeOK, Locals
    <2> QED BY <2>1, <2>2, <2>3, CreatorStep
<1>2. CASE count_store(t)
    <2>1. /\ Runs(t) /\ pc[t] = "c_cstore" /\ k' = k /\ boot' = boot /\ trap' = trap
          /\ Goto(t, "c_hnd") /\ reg' = [reg EXCEPT ![t].count = 0]
        BY <1>2 DEF count_store, At
    <2>2. Moves(t, "c_hnd")
        BY <2>1, RegMoves
    <2>3. reg'[t].obj = reg[t].obj
        BY <2>1 DEF TypeInv, TypeOK, Locals
    <2> QED BY <2>1, <2>2, <2>3, CreatorStep
<1>3. CASE create_handle(t)
    <2>1. /\ Runs(t) /\ pc[t] = "c_hnd" /\ k' = k /\ boot' = boot /\ trap' = trap
          /\ \/ Goto(t, "c_set") /\ reg' = [reg EXCEPT ![t].h = Min(FreeHandles)]
             \/ Goto(t, "c_fail") /\ reg' = reg
        BY <1>3 DEF create_handle, At
    <2>2. reg'[t].obj = reg[t].obj
        BY <2>1 DEF TypeInv, TypeOK, Locals
    <2>3. Moves(t, "c_set") \/ Moves(t, "c_fail")
        BY <2>1, RegMoves
    <2> QED BY <2>1, <2>2, <2>3, CreatorStep
<1>4. CASE create_set_handle(t)
    <2>1. /\ Runs(t) /\ pc[t] = "c_set" /\ k' = k /\ boot' = boot /\ ret' = ret
          /\ Goto(t, "run")
          /\ reg' = [reg EXCEPT ![t] = [reg[t] EXCEPT !.h = 0, !.obj = None]]
          /\ pc[t] \notin Window \cup {"c_link"} /\ "run" \notin Window \cup CreatePc
        BY <1>4 DEF create_set_handle, At, Window, CreatePc
    <2>2. Moves(t, "run")
        BY <2>1, RegMoves
    <2>3. StateAt(t) /\ OwnOK(t) /\ Sound(k, Unlinked, {}) /\ Gentle(k, k)
        BY <2>1, PlainFacts, SameGentle
    <2>4. k.state[t] = "RUNNING" /\ t # Idle
        BY <2>1, <2>3 DEF StateAt, LinkPc, OwnOK, IdlePc
    <2>5. Gentle(k, k') /\ Sound(k', Unlinked, {}) /\ k'.state[t] = "RUNNING"
        BY <2>1, <2>3, <2>4
    <2> QED BY <2>1, <2>2, <2>4, <2>5, RunningStep
<1> QED BY <1>1, <1>2, <1>3, <1>4

-----------------------------------------------------------------------------
(* The idle task. *)

(* task_cleanup_deleted and the rest of idle_task. *)
LEMMA IdleInv ==
    ASSUME TypeInv, ListInv, idle_step
    PROVE  ListInv'
<1> USE DEF taskvars, history
<1>0. /\ Runs(Idle) /\ pc[Idle] \in {"i_clean", "i_free", "i_en"} /\ Idle \in Task
      /\ boot' = boot /\ trap' = trap
      /\ pc[Idle] \notin Window \cup {"c_link"}
    BY SchedAssumption DEF idle_step, cleanup_pop, cleanup_free, idle_enable, At, Window
<1>1. /\ Idle = k.current /\ k \in Scheduler /\ StateAt(Idle) /\ OwnOK(Idle) /\ LockedAt(Idle)
      /\ Sound(k, Unlinked, {}) /\ Gentle(k, k) /\ trap = "none" /\ k.started /\ boot = "done"
    BY <1>0, PlainFacts, SameGentle
<1>2. k.state[Idle] = "RUNNING" /\ ~(k.lock > 0)
    BY <1>0, <1>1 DEF StateAt, LinkPc, LockedAt
<1>3. "i_en" \notin Window \cup CreatePc /\ "i_wfi" \notin Window \cup CreatePc
      /\ "i_en" \in IdlePc /\ "i_wfi" \in IdlePc
    BY DEF Window, CreatePc, IdlePc
<1>4. ASSUME NEW p \in {"i_en", "i_wfi"}, k' = k, Goto(Idle, p), reg' = reg
      PROVE  ListInv'
    <2>1. Moves(Idle, p) /\ pc'[Idle] = p
        BY <1>0, <1>4, RegMoves DEF Moves
    <2>2. FreeOK'
        BY <2>1 DEF FreeOK
    <2>3. Gentle(k, k') /\ Sound(k', Unlinked, {}) /\ k'.state[Idle] = "RUNNING" /\ ~(k'.lock > 0)
        BY <1>1, <1>2, <1>4
    <2> QED BY <1>0, <1>3, <1>4, <2>1, <2>2, <2>3, RunningStep
<1>5. CASE idle_enable
    BY <1>4, <1>5 DEF idle_enable
<1>6. CASE cleanup_pop
    <2>1. CASE k.deleted = <<>>
        BY <1>4, <1>6, <2>1 DEF cleanup_pop
    <2>2. CASE k.deleted # <<>>
        <3> DEFINE u == Head(k.deleted)
        <3>1. /\ k' = PopDeleted(k) /\ Goto(Idle, "i_free")
              /\ reg' = [reg EXCEPT ![Idle].obj = u]
            BY <1>6, <2>2 DEF cleanup_pop, PopDeleted
        <3>2. /\ Sound(k', Unlinked, {}) /\ Frame(k, k')
              /\ k'.state = k.state /\ k'.ready = k.ready
              /\ k.state[u] = "DELETED" /\ ~Contains(k'.deleted, u)
            BY <1>1, <2>2, <3>1, PopDeletedSound
        <3>3. Moves(Idle, "i_free") /\ pc'[Idle] = "i_free" /\ reg'[Idle].obj = u
            <4>1. Moves(Idle, "i_free")
                BY <1>0, <3>1, RegMoves
            <4> QED BY <1>0, <3>1, <4>1 DEF Moves, TypeInv, TypeOK, Locals
        <3> HIDE DEF u
        <3>4. FreeOK'
            BY <1>2, <3>2, <3>3 DEF FreeOK
        <3>5. Unlinked \subseteq Unlinked'
            <4>1. pc[k.current] # "y_enq"
                BY <1>0, <1>1
            <4>2. \A c \in Task : pc[c] = "c_link" => pc'[c] = "c_link" /\ reg'[c].obj = reg[c].obj
                BY <1>0, <3>3 DEF Moves
            <4> QED BY <4>1, <4>2, UnlinkedKept
        <3>6. Sound(k', Unlinked', BitUnderway')
            BY <3>2, <3>5, SoundLoosen
        <3>7. CreatorsKept(Idle)
            BY <3>2 DEF CreatorsKept, ListInv, CreateOK, CreatorOK, IsLive, OnReady
        <3>8. OwnOK(Idle)'
            BY <1>0, <1>1, <1>2, <3>2, <3>3
            DEF OwnOK, CreatorOK, CreatePc, IdlePc, StateAt, LinkPc, Frame, Window
        <3>9. k'.state[Idle] \in {"READY", "RUNNING"} /\ Apart(Idle)
            BY <1>2, <3>2, <3>3 DEF Moves, Apart
        <3> QED BY <1>0, <3>2, <3>4, <3>6, <3>7, <3>8, <3>9, TaskStep DEF Frame
    <2> QED BY <2>1, <2>2
<1>7. CASE cleanup_free
    <2> DEFINE u == reg[Idle].obj
    <2>1. /\ k' = Freed(k, u) /\ pc[Idle] = "i_free"
          /\ pc' = [pc EXCEPT ![Idle] = "i_clean", ![u] = "run"]
          /\ reg' = [reg EXCEPT ![Idle] = NoReg, ![u] = NoReg]
        BY <1>7 DEF cleanup_free, At, Freed
    <2>2. /\ u # Idle /\ k.state[u] = "DELETED" /\ ~Contains(k.deleted, u) /\ u \in Task
        BY <2>1, SchedAssumption DEF ListInv, FreeOK, TypeInv, LocalsOK
    <2> HIDE DEF u
    <2>3. /\ Sound(k', Unlinked, {}) /\ TcbFrame(k, k') /\ k'.state[u] = "UNUSED"
          /\ \A x \in Task \ {u} : SameTask(k, k', x)
        BY <1>1, <2>1, <2>2, FreeTcbSound
    <2>4. /\ pc'[Idle] = "i_clean" /\ pc'[u] = "run"
          /\ \A x \in Task \ {Idle, u} : pc'[x] = pc[x] /\ reg'[x] = reg[x]
        BY <1>0, <2>1, <2>2 DEF TypeInv, TypeOK
    <2>5. \A c \in Task : pc[c] \in CreatePc => reg[c].obj # u /\ c # u
        BY <2>2 DEF ListInv, CreateOK, CreatorOK, IsLive
    <2>6. Apart(Idle)
        BY <2>2, <2>4, <2>5 DEF Apart
    <2>7. FreeOK'
        BY <2>4 DEF FreeOK
    <2>8. Unlinked \subseteq Unlinked'
        <3>1. pc[k.current] # "y_enq"
            BY <1>0, <1>1
        <3>2. \A c \in Task : pc[c] = "c_link" => pc'[c] = "c_link" /\ reg'[c].obj = reg[c].obj
            BY <1>0, <2>4, <2>5 DEF CreatePc
        <3> QED BY <3>1, <3>2, UnlinkedKept
    <2>9. Sound(k', Unlinked', BitUnderway')
        BY <2>3, <2>8, SoundLoosen
    <2>10. CreatorsKept(Idle)
        <3>1. \A c \in Task \ {Idle} : ~(pc[c] \in CreatePc /\ reg[c].obj = u)
            BY <2>5
        <3>2. pc[u] \notin CreatePc
            BY <2>2, <2>5
        <3> QED BY <1>0, <2>2, <2>3, <3>1, <3>2, CreatorsFrame
    <2>11. k'.state[Idle] = "RUNNING" /\ ~(k'.lock > 0)
        BY <1>0, <1>2, <2>2, <2>3 DEF SameTask, TcbFrame
    <2>12. OwnOK(Idle)'
        BY <1>0, <1>1, <2>4, <2>11
        DEF OwnOK, CreatorOK, CreatePc, IdlePc, StateAt, LinkPc, Window
    <2> QED BY <1>0, <2>3, <2>6, <2>7, <2>9, <2>10, <2>11, <2>12, TaskStep DEF TcbFrame
<1> QED BY <1>5, <1>6, <1>7 DEF idle_step

-----------------------------------------------------------------------------
(* Boot. *)

(* Empty lists are sound. *)
LEMMA InitSound == sched_init \in Scheduler /\ Sound(sched_init, {}, {})
<1> DEFINE s == sched_init
<1>1. /\ s.ready = [p \in Prio |-> <<>>] /\ s.wq = [q \in WaitQ |-> <<>>]
      /\ s.deleted = <<>> /\ s.timeout = <<>> /\ s.mask = {}
      /\ s.state = [t \in Task |-> "UNUSED"] /\ s.timer = [t \in Task |-> FALSE]
      /\ s.corrupt = FALSE
    BY DEF sched_init
<1>2. Distinct(<<>>) /\ \A x : ~Contains(<<>>, x)
    BY DEF Distinct, Contains
<1>3. s \in Scheduler
    <2>1. 0 \in Ticks /\ 0 \in Prio
        BY SchedAssumption DEF Ticks, Prio
    <2> QED BY <2>1, SchedAssumption DEF sched_init, Scheduler, TaskState, WaitResult
<1> HIDE DEF s
<1>4. Sound(s, {}, {})
    BY <1>1, <1>2 DEF Sound, NoRepeats, Placed, MaskSound, Queued, OneRuns, OnWaitQ
<1> QED BY <1>3, <1>4 DEF s

(* A new TCB in its ready list. *)
LEMMA NewQueued ==
    ASSUME NEW s \in Scheduler, NEW u \in Task, NEW p \in Prio, NEW U, NEW B, Sound(s, U, B),
           s.state[u] = "UNUSED",
           NEW e, e = sched_ready_enqueue(InitTcb(s, u, p), u)
    PROVE  /\ e \in Scheduler /\ Sound(e, U, B)
           /\ e.current = s.current /\ e.idle = s.idle /\ e.started = s.started
           /\ e.lock = s.lock /\ e.state[u] = "READY"
           /\ \A x \in Task \ {u} : SameTask(s, e, x)
<1> DEFINE a == InitTcb(s, u, p)
<1>1. /\ a \in Scheduler /\ Sound(a, U \cup {u}, B) /\ TcbFrame(s, a)
      /\ a.state[u] = "READY" /\ ~OnReady(a, u)
      /\ \A x \in Task \ {u} : SameTask(s, a, x)
    BY NewTcbSound
<1> HIDE DEF a
<1>2. e = sched_ready_enqueue(a, u)
    BY DEF a
<1>3. /\ Sound(e, (U \cup {u}) \ {u}, B) /\ Frame(a, e) /\ e.state = a.state
      /\ \A x \in Task \ {u} : SameTask(a, e, x)
    BY <1>1, <1>2, LinkSound
<1>4. e \in Scheduler
    BY <1>1, <1>2, EnqueueType
<1>5. Sound(e, U, B)
    BY <1>3, SoundLoosen
<1>6. \A x \in Task \ {u} : SameTask(s, e, x)
    BY <1>1, <1>3 DEF SameTask
<1> QED BY <1>1, <1>3, <1>4, <1>5, <1>6 DEF TcbFrame, Frame

(* The boot code stores idle and started. *)
WithIdle(s) == [s EXCEPT !.idle = Idle]
Started(s) == [s EXCEPT !.started = TRUE]

(* These fields do not matter to the lists. *)
LEMMA WithSound ==
    ASSUME NEW s \in Scheduler, NEW U, NEW B, Sound(s, U, B),
           NEW e, e = WithIdle(s) \/ e = Started(s)
    PROVE  /\ Sound(e, U, B)
           /\ e.state = s.state /\ e.lock = s.lock /\ e.current = s.current
           /\ e.deleted = s.deleted
           /\ e = WithIdle(s) => e.idle = Idle /\ e.started = s.started
           /\ e = Started(s) => e.idle = s.idle /\ e.started
<1>1. /\ e.ready = s.ready /\ e.wq = s.wq /\ e.deleted = s.deleted /\ e.timeout = s.timeout
      /\ e.state = s.state /\ e.timer = s.timer /\ e.wres = s.wres /\ e.mask = s.mask
      /\ e.prio = s.prio /\ e.current = s.current /\ e.corrupt = s.corrupt
      /\ e.lock = s.lock
      /\ e = WithIdle(s) => e.idle = Idle /\ e.started = s.started
      /\ e = Started(s) => e.idle = s.idle /\ e.started
    BY DEF WithIdle, Started, Scheduler
<1> QED BY <1>1 DEF Sound, NoRepeats, Placed, OnWaitQ, OnReady, MaskSound, Queued, OneRuns

(* Before the scheduler is started. *)
LEMMA BootStep ==
    ASSUME boot' = "app_main", k'.idle = Idle, k'.state[Idle] \in {"READY", "RUNNING"},
           ~k'.started, k'.current = None, trap' = "none", k'.lock = 0,
           pc'[Idle] \in IdlePc, \A x \in Task \ {Idle} : pc'[x] = "run",
           Sound(k', {Idle}, {}), FreeOK'
    PROVE  ListInv'
<1>1. \A x \in Task : pc'[x] \notin Window \cup CreatePc \cup LinkPc
    BY DEF Window, CreatePc, IdlePc, LinkPc
<1>2. {Idle} \subseteq Unlinked'
    BY DEF Unlinked
<1>3. Sound(k', Unlinked', BitUnderway')
    BY <1>2, SoundLoosen
<1>4. BootOK'
    BY DEF BootOK
<1>5. CurrentOK' /\ LockOK'
    BY DEF CurrentOK, LockOK
<1>6. WindowOK'
    BY <1>1 DEF WindowOK, Window
<1>7. CreateOK'
    BY <1>1 DEF CreateOK, CreatorOK
<1> QED BY <1>3, <1>4, <1>5, <1>6, <1>7 DEF ListInv

(* What holds in app_main. *)
LEMMA BeforeStart ==
    ASSUME TypeInv, ListInv, boot = "app_main"
    PROVE  /\ k \in Scheduler /\ k.idle = Idle /\ k.state[Idle] \in {"READY", "RUNNING"}
           /\ ~k.started /\ k.current = None /\ trap = "none" /\ k.lock = 0
           /\ pc[Idle] \in IdlePc /\ \A x \in Task \ {Idle} : pc[x] = "run"
           /\ Sound(k, {Idle}, {})
<1>1. /\ k \in Scheduler /\ k.idle = Idle /\ k.state[Idle] \in {"READY", "RUNNING"}
      /\ ~k.started /\ k.current = None /\ trap = "none" /\ k.lock = 0
      /\ pc[Idle] \in IdlePc /\ \A x \in Task \ {Idle} : pc[x] = "run"
    BY DEF ListInv, BootOK, TypeInv, TypeOK
<1>2. Unlinked \subseteq {Idle} /\ BitUnderway \subseteq {}
    BY <1>1, SchedAssumption DEF Unlinked, BeingCreated, BitUnderway, IdlePc
<1>3. Sound(k, {Idle}, {})
    BY <1>2, SoundLoosen DEF ListInv
<1> QED BY <1>1, <1>3

(* kernel_init, app_main and rtos_start. *)
LEMMA BootInv ==
    ASSUME TypeInv, ListInv, Boot
    PROVE  ListInv'
<1> USE DEF taskvars, history
<1>1. CASE kernel_init
    <2> DEFINE b == sched_ready_enqueue(InitTcb(k, Idle, 0), Idle)
    <2>1. /\ k = sched_init /\ boot' = "app_main" /\ trap' = trap
          /\ k' = WithIdle(b) /\ pc' = [pc EXCEPT ![Idle] = "i_clean"]
          /\ boot = "kernel_init"
        BY <1>1 DEF kernel_init, ListInv, BootOK, WithIdle
    <2>2. /\ k \in Scheduler /\ Sound(k, {}, {}) /\ k.state[Idle] = "UNUSED"
          /\ ~k.started /\ k.current = None /\ k.lock = 0
        BY <2>1, InitSound, SchedAssumption DEF sched_init
    <2>3. Idle \in Task /\ 0 \in Prio
        BY SchedAssumption DEF Prio
    <2>4. /\ b \in Scheduler /\ Sound(b, {}, {}) /\ b.state[Idle] = "READY"
          /\ b.current = k.current /\ b.started = k.started /\ b.lock = k.lock
        BY <2>2, <2>3, NewQueued
    <2> HIDE DEF b
    <2>5. /\ Sound(k', {}, {}) /\ k'.state = b.state
          /\ k'.idle = Idle /\ k'.started = b.started /\ k'.lock = b.lock /\ k'.current = b.current
        BY <2>1, <2>4, WithSound
    <2>6. Sound(k', {Idle}, {})
        BY <2>5, SoundLoosen
    <2>7. trap = "none" /\ \A x \in Task \ {Idle} : pc[x] = "run"
        BY <2>2 DEF ListInv, BootOK
    <2>8. pc'[Idle] = "i_clean" /\ \A x \in Task \ {Idle} : pc'[x] = "run"
        BY <2>1, <2>3, <2>7 DEF TypeInv, TypeOK
    <2>9. FreeOK'
        BY <2>8 DEF FreeOK
    <2> QED BY <2>1, <2>2, <2>4, <2>5, <2>6, <2>7, <2>8, <2>9, BootStep DEF IdlePc
<1>2. ASSUME NEW p \in CreatePrio, app_main_create(p) PROVE ListInv'
    <2>0. PICK u \in FreeSlots :
             LET s == sched_ready_enqueue(InitTcb(k, u, p), u)
             IN k' = s \/ k' = sched_mark_deleted(s, u)
        BY <1>2 DEF app_main_create
    <2> DEFINE b == sched_ready_enqueue(InitTcb(k, u, p), u)
    <2>1. /\ k' = b \/ k' = sched_mark_deleted(b, u)
          /\ boot = "app_main" /\ boot' = boot /\ trap' = trap /\ pc' = pc /\ reg' = reg
        BY <1>2, <2>0 DEF app_main_create
    <2>2. /\ k \in Scheduler /\ k.idle = Idle /\ k.state[Idle] \in {"READY", "RUNNING"}
          /\ ~k.started /\ k.current = None /\ trap = "none" /\ k.lock = 0
          /\ pc[Idle] \in IdlePc /\ \A x \in Task \ {Idle} : pc[x] = "run"
          /\ Sound(k, {Idle}, {})
        BY <2>1, BeforeStart
    <2>3. u \in Task \ {Idle} /\ u \in Task /\ k.state[u] = "UNUSED" /\ p \in Prio
        BY KernelAssumption DEF FreeSlots
    <2>4. /\ b \in Scheduler /\ Sound(b, {Idle}, {}) /\ b.state[u] = "READY"
          /\ b.current = k.current /\ b.idle = k.idle
          /\ b.started = k.started /\ b.lock = k.lock
          /\ \A x \in Task \ {u} : SameTask(k, b, x)
        BY <2>2, <2>3, NewQueued
    <2> HIDE DEF b
    <2>5. /\ Sound(k', {Idle}, {}) /\ Frame(b, k')
          /\ \A x \in Task \ {u} : SameTask(b, k', x)
        <3>1. CASE k' = b
            BY <2>4, <3>1 DEF Frame, SameTask
        <3>2. CASE k' = sched_mark_deleted(b, u)
            <4>1. u # b.idle /\ b.state[u] # "DELETED"
                BY <2>2, <2>3, <2>4
            <4> QED BY <2>3, <2>4, <3>2, <4>1, MarkDeletedSound
        <3> QED BY <2>1, <3>1, <3>2
    <2>6. \A x \in Task \ {u} : SameTask(k, k', x)
        BY <2>4, <2>5 DEF SameTask
    <2>7. /\ k'.idle = Idle /\ k'.started = k.started /\ k'.lock = k.lock
          /\ k'.current = k.current /\ k'.state[Idle] = k.state[Idle]
        BY <2>2, <2>3, <2>4, <2>5, <2>6, SchedAssumption DEF Frame, SameTask
    <2>8. FreeOK'
        BY <2>1, <2>3, <2>6, FreeKept
    <2> QED BY <2>1, <2>2, <2>5, <2>7, <2>8, BootStep
<1>3. CASE app_main_object
    <2>1. /\ boot = "app_main" /\ boot' = boot /\ trap' = trap /\ pc' = pc /\ reg' = reg
          /\ k' = k
        BY <1>3 DEF app_main_object
    <2>2. FreeOK'
        BY <2>1 DEF ListInv, FreeOK
    <2> QED BY <2>1, <2>2, BeforeStart, BootStep
<1>4. CASE rtos_start
    <2> DEFINE e == sched_pick_next(k)
    <2>1. /\ boot = "app_main" /\ boot' = "done" /\ trap' = trap /\ pc' = pc /\ reg' = reg
          /\ k' = Started(e)
        BY <1>4 DEF rtos_start, Started
    <2>2. /\ k \in Scheduler /\ k.idle = Idle /\ k.state[Idle] \in {"READY", "RUNNING"}
          /\ ~k.started /\ k.current = None /\ trap = "none" /\ k.lock = 0
          /\ pc[Idle] \in IdlePc /\ \A x \in Task \ {Idle} : pc[x] = "run"
          /\ Sound(k, {Idle}, {})
        BY <2>1, BeforeStart
    <2>3. e \in Scheduler
        BY <2>2, PickNextType
    <2>4. Sound(e, {Idle} \cup {Idle}, {}) /\ Picked(k, e)
        BY <2>2, PickNextSound
    <2> HIDE DEF e
    <2>5. /\ Sound(k', {Idle} \cup {Idle}, {}) /\ k'.state = e.state /\ k'.lock = e.lock
          /\ k'.current = e.current /\ k'.idle = e.idle /\ k'.started /\ k'.deleted = e.deleted
        BY <2>1, <2>3, <2>4, WithSound
    <2>6. /\ k'.lock = 0 /\ k'.idle = Idle /\ k'.current \in Task
          /\ k'.state[k'.current] = "RUNNING" /\ k'.deleted = k.deleted
          /\ k'.state[Idle] \in {"READY", "RUNNING"}
          /\ \A x \in Task : k.state[x] = "DELETED" => k'.state[x] = "DELETED"
        BY <2>2, <2>4, <2>5, SchedAssumption DEF Picked, SwitchFrame
    <2>7. \A x \in Task : pc'[x] \notin Window \cup CreatePc \cup LinkPc
        BY <2>1, <2>2 DEF Window, CreatePc, IdlePc, LinkPc
    <2>8. Sound(k', Unlinked', BitUnderway')
        <3>1. {Idle} \cup {Idle} \subseteq Unlinked'
            BY DEF Unlinked
        <3> QED BY <2>5, <3>1, SoundLoosen
    <2>9. BootOK'
        BY <2>1, <2>2, <2>5, <2>6 DEF BootOK
    <2>10. CurrentOK' /\ LockOK'
        BY <2>6, <2>7 DEF CurrentOK, LockOK, StateAt
    <2>11. WindowOK'
        BY <2>7 DEF WindowOK, Window
    <2>12. CreateOK'
        BY <2>7 DEF CreateOK, CreatorOK
    <2>13. FreeOK'
        <3>1. pc[Idle] = "i_free" => reg[Idle].obj \in Task
            BY SchedAssumption DEF TypeInv, LocalsOK
        <3> QED BY <2>1, <2>6, <3>1 DEF ListInv, FreeOK
    <2> QED BY <2>8, <2>9, <2>10, <2>11, <2>12, <2>13 DEF ListInv
<1> QED BY <1>1, <1>2, <1>3, <1>4 DEF Boot

-----------------------------------------------------------------------------
(* Traps. *)

(* While a trap is taken or handled no task is in a window. *)
LEMMA InTrapStep ==
    ASSUME TypeInv, ListInv, \A t \in Task : pc[t] \notin Window,
           boot' = boot, trap' # "none", k.started, reg' = reg, ret' = ret,
           pc' = pc \/ (pc[k.current] = "i_wfi" /\ pc' = [pc EXCEPT ![k.current] = "i_clean"]),
           Gentle(k, k'), k'.lock = k.lock, Sound(k', Unlinked, {}),
           \A x \in Task : k.state[x] # "BLOCKED" => k'.state[x] = k.state[x]
    PROVE  ListInv'
<1>1. /\ boot # "kernel_init" /\ k.idle = Idle /\ k.state[Idle] \in {"READY", "RUNNING"}
      /\ pc[Idle] \in IdlePc /\ k.current \in Task /\ k.state[k.current] # "UNUSED"
    BY DEF ListInv, BootOK
<1>2. k'.current = k.current /\ k'.idle = k.idle /\ k'.started = k.started
    BY DEF Gentle
<1>3. \A t \in Task : \/ pc'[t] = pc[t]
                      \/ pc[t] = "i_wfi" /\ pc'[t] = "i_clean"
    BY <1>1 DEF TypeInv, TypeOK
<1>4. \A t \in Task : /\ pc'[t] \notin Window
                      /\ pc'[t] \in CreatePc \cup LinkPc => pc'[t] = pc[t]
                      /\ pc[t] \in CreatePc \cup LinkPc => pc'[t] = pc[t]
    BY <1>3 DEF Window, CreatePc, LinkPc
<1>5. Sound(k', Unlinked', BitUnderway')
    <2>1. Unlinked \subseteq Unlinked'
        BY <1>1, <1>4, UnlinkedKept DEF Window, CreatePc
    <2> QED BY <2>1, SoundLoosen
<1>6. BootOK'
    <2>1. pc'[Idle] \in IdlePc /\ k'.state[Idle] \in {"READY", "RUNNING"}
        BY <1>1, <1>3, SchedAssumption DEF IdlePc
    <2>2. k'.state[k'.current] # "UNUSED"
        BY <1>1, <1>2 DEF Gentle
    <2>3. boot' = "done" /\ k'.started
        BY <1>2 DEF ListInv, BootOK
    <2> QED BY <1>1, <1>2, <2>1, <2>2, <2>3 DEF BootOK
<1>7. CurrentOK' /\ WindowOK'
    BY <1>4 DEF CurrentOK, WindowOK, Window
<1>8. CreateOK'
    <2>1. ASSUME NEW c \in Task
          PROVE  CreatorOK(c)'
        <3> SUFFICES ASSUME pc'[c] \in CreatePc PROVE CreatorOK(c)'
            BY DEF CreatorOK
        <3>1. pc'[c] = pc[c] /\ pc[c] \in CreatePc
            BY <1>4
        <3>2. CreatorOK(c)
            BY DEF ListInv, CreateOK
        <3>3. pc[c] \notin {"c_load", "c_store"}
            BY DEF Window
        <3> QED BY <1>2, <3>1, <3>2, <3>3 DEF CreatorOK, Gentle, IsLive
    <2> QED BY <1>4, <2>1 DEF CreateOK, ListInv
<1>9. FreeOK'
    <2>1. pc[Idle] = "i_free" => reg[Idle].obj \in Task
        BY SchedAssumption DEF TypeInv, LocalsOK
    <2>2. pc'[Idle] = "i_free" => pc[Idle] = "i_free"
        BY <1>3, SchedAssumption
    <2> QED BY <2>1, <2>2 DEF ListInv, FreeOK, Gentle
<1>10. LockOK'
    <2> SUFFICES ASSUME k'.lock > 0
                 PROVE  /\ k.current # Idle
                        /\ k'.state[k.current] = "RUNNING"
                        /\ pc'[k.current] \notin LinkPc \cup {"sl_loop", "sl_crit"}
                        /\ pc'[k.current] \in {"y_chk", "ecall"} => ret[k.current] # "sl_loop"
        BY <1>2 DEF LockOK
    <2>1. /\ k.current # Idle /\ k.state[k.current] = "RUNNING"
          /\ pc[k.current] \notin LinkPc \cup {"sl_loop", "sl_crit"}
          /\ pc[k.current] \in {"y_chk", "ecall"} => ret[k.current] # "sl_loop"
        BY DEF ListInv, LockOK
    <2> QED BY <1>1, <1>3, <2>1 DEF LinkPc
<1> QED BY <1>5, <1>6, <1>7, <1>8, <1>9, <1>10 DEF ListInv

(* An interrupt that hits no window. *)
LEMMA InterruptInv ==
    ASSUME TypeInv, ListInv, fault' = {}, Systick \/ Irq
    PROVE  ListInv'
<1> USE DEF taskvars, history
<1>1. /\ Interrupted /\ boot' = boot /\ trap' \in {"tick", "irq"} /\ reg' = reg /\ ret' = ret
      /\ \/ k' = k
         \/ \E q \in WaitQ : k' = trt_wait_q_wake_one_from_isr(k, q)
    BY DEF Systick, SysTick, Irq
<1>2. /\ k.started /\ trap = "none" /\ pc[k.current] \notin Window
      /\ pc' = pc \/ (pc[k.current] = "i_wfi" /\ pc' = [pc EXCEPT ![k.current] = "i_clean"])
    BY <1>1 DEF Interrupted, CanInterrupt
<1>3. \A t \in Task : pc[t] \notin Window
    BY <1>2 DEF ListInv, WindowOK
<1>4. /\ k \in Scheduler /\ k.state[Idle] \in {"READY", "RUNNING"}
      /\ Sound(k, Unlinked, {}) /\ Gentle(k, k)
    <2>1. BitUnderway = {}
        BY <1>2, NoBit DEF Window
    <2> QED BY <1>2, <2>1, SameGentle DEF ListInv, BootOK, TypeInv, TypeOK
<1>5. /\ Gentle(k, k') /\ k'.lock = k.lock /\ Sound(k', Unlinked, {})
      /\ \A x \in Task : k.state[x] # "BLOCKED" => k'.state[x] = k.state[x]
    <2>1. CASE k' = k
        BY <1>4, <2>1
    <2>2. ASSUME NEW q \in WaitQ, k' = trt_wait_q_wake_one_from_isr(k, q)
          PROVE  /\ Gentle(k, k') /\ k'.lock = k.lock /\ Sound(k', Unlinked, {})
                 /\ \A x \in Task : k.state[x] # "BLOCKED" => k'.state[x] = k.state[x]
        <3>1. "OBJECT" \in WaitResult
            BY DEF WaitResult
        <3> QED BY <1>4, <2>2, <3>1, WakeGentle
    <2> QED BY <1>1, <2>1, <2>2
<1> QED BY <1>1, <1>2, <1>3, <1>5, InTrapStep

(* sched_wake_expired. *)
LEMMA WakeExpiredInv ==
    ASSUME TypeInv, ListInv, sched_wake_expired
    PROVE  ListInv'
<1> USE DEF taskvars, history
<1>1. /\ trap # "none" /\ boot' = boot /\ trap' = trap /\ reg' = reg /\ ret' = ret /\ pc' = pc
      /\ k.timeout # <<>> /\ k' = sched_wake_expired_one(k)
    BY DEF sched_wake_expired, HeadExpired
<1>2. /\ \A t \in Task : pc[t] \notin Window
      /\ k.started
    BY <1>1 DEF ListInv, WindowOK, BootOK
<1>3. k \in Scheduler /\ k.state[Idle] \in {"READY", "RUNNING"} /\ Sound(k, Unlinked, {})
    <2>1. k.state[Idle] \in {"READY", "RUNNING"} /\ k.current \in Task
        BY <1>2 DEF ListInv, BootOK
    <2>2. BitUnderway = {}
        BY <1>2, <2>1, NoBit DEF Window
    <2> QED BY <2>1, <2>2 DEF ListInv, TypeInv, TypeOK
<1>4. Sound(k', Unlinked, {}) /\ Frame(k, k')
    BY <1>1, <1>3, WakeExpiredSound
<1>5. PICK t \in Task : /\ k.state[t] = "BLOCKED" /\ k'.state[t] = "READY"
                        /\ \A x \in Task \ {t} : SameTask(k, k', x)
    BY <1>1, <1>3, WakeExpiredSound
<1>6. t # Idle /\ k'.state[t] \notin {"UNUSED", "DELETED"} /\ k.state[t] \in {"RUNNING", "BLOCKED"}
    BY <1>3, <1>5
<1>7. Gentle(k, k')
    BY <1>4, <1>5, <1>6, OneGentle
<1>8. /\ k'.lock = k.lock
      /\ \A x \in Task : k.state[x] # "BLOCKED" => k'.state[x] = k.state[x]
    BY <1>4, <1>5 DEF Frame, SameTask
<1> QED BY <1>1, <1>2, <1>4, <1>7, <1>8, InTrapStep

(* The switch at the end of a trap. *)
LEMMA TrapReturnFacts ==
    ASSUME TypeInv, ListInv, trap # "none"
    PROVE  /\ TrapReady(k) /\ Sound(k, Unlinked, {}) /\ Idle \in Unlinked
           /\ \A t \in Task : pc[t] \notin Window
           /\ k.started /\ boot = "done"
<1>1. /\ \A t \in Task : pc[t] \notin Window
      /\ k.started /\ boot = "done" /\ k.current \in Task /\ k.idle = Idle
      /\ k.state[Idle] \in {"READY", "RUNNING"} /\ k \in Scheduler
    BY DEF ListInv, WindowOK, BootOK, TypeInv, TypeOK
<1>2. BitUnderway = {}
    BY <1>1, NoBit DEF Window
<1>3. TrapReady(k)
    BY <1>1 DEF TrapReady, ListInv, LockOK
<1> QED BY <1>1, <1>2, <1>3 DEF ListInv, Unlinked

(* The rest of do_trap. *)
LEMMA TrapReturnInv ==
    ASSUME TypeInv, ListInv, TrapReturn
    PROVE  ListInv'
<1> USE DEF taskvars, history
<1>1. /\ trap # "none" /\ boot' = boot /\ trap' = "none" /\ reg' = reg /\ ret' = ret /\ pc' = pc
      /\ k' = SwitchedFromTrap
    BY DEF TrapReturn
<1>2. /\ TrapReady(k) /\ Sound(k, Unlinked, {}) /\ Idle \in Unlinked
      /\ \A t \in Task : pc[t] \notin Window
      /\ k.started /\ boot = "done"
    BY <1>1, TrapReturnFacts
<1>3. Sound(k', Unlinked, {}) /\ Switched(k, k')
    BY <1>1, <1>2, TrapSwitchSound
<1>4. /\ k'.idle = Idle /\ k'.started /\ k'.lock = k.lock /\ k'.deleted = k.deleted
      /\ k'.current \in Task /\ k'.state[k'.current] = "RUNNING"
      /\ k'.state[Idle] \in {"READY", "RUNNING"}
      /\ \A x \in Task : \/ k'.state[x] = k.state[x]
                         \/ /\ k.state[x] \in {"READY", "RUNNING"}
                            /\ k'.state[x] \in {"READY", "RUNNING"}
    BY <1>2, <1>3, SchedAssumption DEF Switched, SwitchFrame, TrapReady
<1>5. \A t \in Task : pc[t] \notin LinkPc
    BY <1>2 DEF Window, LinkPc
<1>6. Sound(k', Unlinked', BitUnderway')
    <2>1. Unlinked \subseteq Unlinked'
        BY <1>1, <1>5 DEF Unlinked, BeingCreated, LinkPc
    <2> QED BY <1>3, <2>1, SoundLoosen
<1>7. BootOK'
    BY <1>1, <1>2, <1>4 DEF BootOK, ListInv
<1>8. CurrentOK'
    BY <1>1, <1>4, <1>5 DEF CurrentOK, StateAt
<1>9. WindowOK'
    BY <1>1, <1>2 DEF WindowOK, Window
<1>10. CreateOK'
    <2>1. ASSUME NEW c \in Task
          PROVE  CreatorOK(c)'
        <3> SUFFICES ASSUME pc[c] \in CreatePc PROVE CreatorOK(c)'
            BY <1>1 DEF CreatorOK
        <3>1. CreatorOK(c)
            BY DEF ListInv, CreateOK
        <3>2. pc[c] \notin {"c_load", "c_store"}
            BY <1>2 DEF Window
        <3>3. reg[c].obj \in Task \ {c, Idle} /\ IsLive(c)' /\ IsLive(reg[c].obj)'
            BY <1>1, <1>4, <3>1 DEF CreatorOK, IsLive
        <3>4. pc[c] = "c_link" => /\ k'.state[reg[c].obj] = "READY"
                                  /\ ~OnReady(k', reg[c].obj)
                                  /\ reg[c].obj # k'.current
            BY <1>3, <3>1 DEF CreatorOK, Switched, SwitchFrame
        <3> QED BY <1>1, <3>2, <3>3, <3>4 DEF CreatorOK, IsLive
    <2> QED BY <1>1, <2>1 DEF CreateOK, ListInv
<1>11. FreeOK'
    <2>1. pc[Idle] = "i_free" => reg[Idle].obj \in Task
        BY SchedAssumption DEF TypeInv, LocalsOK
    <2> QED BY <1>1, <1>4, <2>1 DEF ListInv, FreeOK
<1>12. LockOK'
    BY <1>1, <1>3, <1>4 DEF ListInv, LockOK, Switched
<1> QED BY <1>6, <1>7, <1>8, <1>9, <1>10, <1>11, <1>12 DEF ListInv

-----------------------------------------------------------------------------
(* A fault stays recorded. *)
LEMMA FaultStays ==
    ASSUME [Next]_vars
    PROVE  fault \subseteq fault'
<1> USE DEF taskvars, history
<1>1. Boot => fault' = fault
    BY DEF Boot, kernel_init, app_main_create, app_main_object, rtos_start
<1>2. ASSUME NEW t \in Task, NEW u, NEW p, task_delete_obj(t, u, p)
      PROVE  fault \subseteq fault'
    BY <1>2 DEF task_delete_obj
<1>3. ASSUME NEW t \in Task, AppCall(t)
      PROVE  fault \subseteq fault'
    <2>1. task_exit(t) => fault \subseteq fault'
        BY <1>2 DEF task_exit
    <2> QED BY <1>3, <2>1
        DEF AppCall, task_yield, task_sleep, sched_lock, sched_unlock, trt_wait_q_block,
            trt_wait_q_block_ticks, trt_wait_q_wake_one, trt_wait_q_wake_all, task_delete,
            task_create
<1>4. ASSUME NEW t \in Task, KernelStep(t)
      PROVE  fault \subseteq fault'
    <2>1. task_yield_step(t) => fault' = fault
        BY DEF task_yield_step, yield_check, yield_link, mask_load, mask_store, arch_yield
    <2>2. task_delete_found(t) => fault \subseteq fault'
        BY <1>2 DEF task_delete_found
    <2>3. create_fail(t) => fault \subseteq fault'
        BY <1>2 DEF create_fail
    <2>4. task_create_step(t) => fault \subseteq fault'
        BY <2>3 DEF task_create_step, create_link, mask_load, mask_store, count_load,
                    count_store, create_handle, create_set_handle
    <2>5. idle_step => fault' = fault
        BY DEF idle_step, cleanup_pop, cleanup_free, idle_enable
    <2> QED BY <1>4, <2>1, <2>2, <2>4, <2>5
        DEF KernelStep, sleep_loop, sleep_block, wait_return, wake_all_round
<1>5. Systick \/ Irq => fault \subseteq fault'
    BY DEF Systick, SysTick, Irq, Interrupted
<1>6. TrapStep => fault' = fault
    BY DEF TrapStep, sched_wake_expired, TrapReturn
<1>7. CorruptLoop \/ UNCHANGED vars => fault' = fault
    BY DEF CorruptLoop, vars
<1> QED BY <1>1, <1>3, <1>4, <1>5, <1>6, <1>7 DEF Next

(* The inductive invariant. *)
ListsOK == fault = {} => ListInv

(* The invariant holds initially. *)
LEMMA InitLists == Init => ListInv
<1> SUFFICES ASSUME Init PROVE ListInv
    OBVIOUS
<1>1. /\ k = sched_init /\ \A t \in Task : pc[t] = "run"
      /\ ~k.started /\ k.current = None /\ k.lock = 0 /\ trap = "none" /\ boot = "kernel_init"
    BY DEF Init, sched_init
<1>2. Sound(k, Unlinked, BitUnderway)
    BY <1>1, InitSound, SoundLoosen
<1>3. \A x \in Task : pc[x] \notin Window \cup CreatePc
    BY <1>1 DEF Window, CreatePc
<1>4. BootOK /\ CurrentOK /\ LockOK
    BY <1>1 DEF BootOK, CurrentOK, LockOK
<1>5. WindowOK /\ CreateOK /\ FreeOK
    BY <1>1, <1>3, SchedAssumption DEF WindowOK, CreateOK, CreatorOK, FreeOK
<1> QED BY <1>2, <1>4, <1>5 DEF ListInv

(* Every step keeps it. *)
LEMMA NextLists == TypeInv /\ ListsOK /\ [Next]_vars => ListsOK'
<1> SUFFICES ASSUME TypeInv, ListsOK, [Next]_vars, fault' = {} PROVE ListInv'
    BY DEF ListsOK
<1> USE DEF taskvars, history
<1>1. fault = {} /\ ListInv
    BY FaultStays DEF ListsOK
<1>2. CASE Boot
    BY <1>1, <1>2, BootInv
<1>3. ASSUME NEW t \in Task, AppCall(t) PROVE ListInv'
    BY <1>1, <1>3, YieldInv, SleepLockInv, WaitInv, WakeInv, DeleteInv, CreateInv DEF AppCall
<1>4. ASSUME NEW t \in Task, KernelStep(t) PROVE ListInv'
    <2>1. CASE task_yield_step(t)
        BY <1>1, <2>1, YieldCheckInv, YieldLinkInv, YieldMaskInv, YieldInv DEF task_yield_step
    <2>2. CASE task_create_step(t)
        BY <1>1, <2>2, CreateLinkInv, CreateMaskInv, CreateRestInv, DeleteInv DEF task_create_step
    <2> QED BY <1>1, <1>4, <2>1, <2>2, SleepInv, YieldInv, WakeInv, DeleteInv, IdleInv
            DEF KernelStep
<1>5. CASE Systick \/ Irq
    BY <1>1, <1>5, InterruptInv
<1>6. CASE TrapStep
    BY <1>1, <1>6, WakeExpiredInv, TrapReturnInv DEF TrapStep
<1>7. CASE CorruptLoop
    BY <1>1, <1>7 DEF CorruptLoop, ListInv, Sound
<1>8. CASE UNCHANGED vars
    <2>1. /\ k' = k /\ trap' = trap /\ boot' = boot /\ pc' = pc /\ ret' = ret /\ reg' = reg
        BY <1>8 DEF vars
    <2>2. Unlinked' = Unlinked /\ BitUnderway' = BitUnderway
        BY <2>1 DEF Unlinked, BeingCreated, BitUnderway
    <2>3. BootOK' /\ CurrentOK' /\ LockOK'
        BY <1>1, <2>1 DEF ListInv, BootOK, CurrentOK, StateAt, LockOK
    <2>4. WindowOK' /\ FreeOK'
        BY <1>1, <2>1 DEF ListInv, WindowOK, FreeOK
    <2>5. CreateOK'
        BY <1>1, <2>1 DEF ListInv, CreateOK, CreatorOK, IsLive
    <2> QED BY <1>1, <2>1, <2>2, <2>3, <2>4, <2>5 DEF ListInv
<1> QED BY <1>2, <1>3, <1>4, <1>5, <1>6, <1>7, <1>8 DEF Next

(* As long as no fault is recorded, TypeInv and ListInv hold. *)
THEOREM ListsCorrect == Spec => [](TypeInv /\ ListsOK)
<1>1. Init => TypeInv /\ ListsOK
    BY InitType, InitLists DEF ListsOK
<1>2. TypeInv /\ ListsOK /\ [Next]_vars => (TypeInv /\ ListsOK)'
    BY NextType, NextLists
<1> QED BY <1>1, <1>2, PTL DEF Spec

(* What the invariant is for. *)
LEMMA ListsImplyReachable == TypeInv /\ ListsOK => TasksAreReachable /\ MaskMatchesLists
<1> SUFFICES ASSUME TypeInv, ListInv
             PROVE  /\ ReadyIsQueued /\ ListsMatchStates /\ BlockedIsWakeable
                    /\ ~k.corrupt
                    /\ \A p \in Prio : p \notin BitUnderway => (p \in k.mask <=> k.ready[p] # <<>>)
    BY DEF ListsOK, TasksAreReachable, MaskMatchesLists
<1>1. Sound(k, Unlinked, BitUnderway) /\ k \in Scheduler
    BY DEF ListInv, TypeInv, TypeOK
<1>2. ReadyIsQueued
    <2>1. ASSUME NEW t \in Task, t \in Unlinked, k.state[t] = "READY"
          PROVE  ReadyUnlinked(t)
        <3>1. boot # "kernel_init"
            BY <2>1, SchedAssumption DEF ListInv, BootOK, sched_init
        <3> QED BY <2>1, <3>1 DEF Unlinked, ReadyUnlinked, ListInv, BootOK
    <2> QED BY <1>1, <2>1 DEF ReadyIsQueued, Sound, Queued
<1>3. ListsMatchStates
    <2>1. ASSUME NEW seq \in Seq(Task), NEW i \in DOMAIN seq
          PROVE  seq[i] \in Task /\ Contains(seq, seq[i])
        BY <2>1 DEF Contains
    <2>2. ASSUME NEW p \in Prio, NEW i \in DOMAIN k.ready[p]
          PROVE  k.prio[k.ready[p][i]] = p /\ k.state[k.ready[p][i]] = "READY"
        <3>1. k.ready[p] \in Seq(Task)
            BY <1>1 DEF Scheduler
        <3>2. k.ready[p][i] \in Task /\ Contains(k.ready[p], k.ready[p][i])
            BY <2>1, <3>1
        <3> QED BY <1>1, <3>2 DEF Sound, Placed
    <2>3. ASSUME NEW q \in WaitQ, NEW i \in DOMAIN k.wq[q]
          PROVE  k.state[k.wq[q][i]] = "BLOCKED"
        <3>1. k.wq[q] \in Seq(Task)
            BY <1>1 DEF Scheduler
        <3>2. k.wq[q][i] \in Task /\ Contains(k.wq[q], k.wq[q][i])
            BY <2>1, <3>1
        <3> QED BY <1>1, <3>2 DEF Sound, Placed
    <2>4. ASSUME NEW i \in DOMAIN k.deleted
          PROVE  k.state[k.deleted[i]] = "DELETED"
        <3>1. k.deleted \in Seq(Task)
            BY <1>1 DEF Scheduler
        <3>2. k.deleted[i] \in Task /\ Contains(k.deleted, k.deleted[i])
            BY <2>1, <3>1
        <3> QED BY <1>1, <3>2 DEF Sound, Placed
    <2>5. /\ \A t \in Task : Contains(k.timeout, t) <=> k.timer[t] /\ k.state[t] = "BLOCKED"
          /\ \A t \in Task : k.state[t] = "RUNNING" => t = k.current
        BY <1>1 DEF Sound, Placed, OneRuns
    <2> QED BY <2>2, <2>3, <2>4, <2>5 DEF ListsMatchStates
<1>4. BlockedIsWakeable
    BY <1>1 DEF BlockedIsWakeable, Sound, Placed
<1>5. /\ ~k.corrupt
      /\ \A p \in Prio : p \notin BitUnderway => (p \in k.mask <=> k.ready[p] # <<>>)
    BY <1>1 DEF Sound, MaskSound
<1> QED BY <1>2, <1>3, <1>4, <1>5

(* No task is lost (module KernelProps). *)
THEOREM NoTaskIsLost == Spec => []TasksAreReachable
BY ListsCorrect, ListsImplyReachable, PTL

(* The ready mask is right. *)
THEOREM MaskIsRight == Spec => []MaskMatchesLists
BY ListsCorrect, ListsImplyReachable, PTL

(* Only the end of a trap ends it. *)
LEMMA TrapEnds ==
    ASSUME [Next]_vars, trap = "tick", trap' = "none"
    PROVE  TrapReturn /\ fault' = fault
<1> USE DEF taskvars, history
<1>1. ~Boot
    BY DEF Boot, kernel_init, app_main_create, app_main_object, rtos_start
<1>2. ASSUME NEW t \in Task PROVE ~AppCall(t)
    BY DEF AppCall, task_yield, task_sleep, sched_lock, sched_unlock, trt_wait_q_block,
           trt_wait_q_block_ticks, trt_wait_q_wake_one, trt_wait_q_wake_all, task_delete,
           task_exit, task_create, Call, At, Runs
<1>3. ASSUME NEW t \in Task PROVE ~KernelStep(t)
    BY DEF KernelStep, task_yield_step, yield_check, yield_link, mask_load, mask_store,
           arch_yield, sleep_loop, sleep_block, wait_return, wake_all_round,
           task_delete_found, task_create_step, create_link, count_load, count_store,
           create_handle, create_set_handle, create_fail, idle_step, cleanup_pop,
           cleanup_free, idle_enable, At, Runs
<1>4. ~Systick /\ ~Irq
    BY DEF Systick, SysTick, Irq, Interrupted, CanInterrupt
<1>5. ~sched_wake_expired /\ ~CorruptLoop /\ ~UNCHANGED vars
    BY DEF sched_wake_expired, CorruptLoop, vars
<1> QED BY <1>1, <1>2, <1>3, <1>4, <1>5 DEF Next, TrapStep, TrapReturn

(* A tick leaves the CPU to a task of the highest priority that is ready,  *)
(* unless the scheduler is locked (tick_reschedule in the trap handler).   *)
THEOREM TickPreempts == Spec => TickRunsHighest
<1>1. ASSUME TypeInv, ListsOK, TypeInv', ListsOK', [Next]_vars,
             fault = {}, trap = "tick", trap' = "none"
      PROVE  \/ k'.lock > 0
             \/ \A t \in Task : OnReady(k', t) => k'.prio[t] <= k'.prio[k'.current]
    <2>1. k' = SwitchedFromTrap /\ fault' = {} /\ ListInv /\ ListInv'
        BY <1>1, TrapEnds DEF TrapReturn, ListsOK
    <2>2. k'.lock > 0 \/ HighestRuns(k')
        BY <1>1, <2>1, TrapReturnFacts, TrapSwitchSound
    <2>3. \A t \in Task : Placed(k', t)
        BY <2>1 DEF ListInv, Sound
    <2>4. k' \in Scheduler
        BY <1>1 DEF TypeInv, TypeOK
    <2>5. ASSUME NEW t \in Task, NEW p \in Prio, Contains(k'.ready[p], t)
          PROVE  k'.ready[p] # <<>> /\ k'.prio[t] = p
        BY <2>3, <2>4, <2>5, EmptyShape DEF Placed, Scheduler
    <2> QED BY <2>2, <2>5 DEF OnReady, HighestRuns
<1>2. TypeInv /\ ListsOK /\ (TypeInv /\ ListsOK)' /\ [Next]_vars
      => [fault = {} /\ trap = "tick" /\ trap' = "none" =>
            \/ k'.lock > 0
            \/ \A t \in Task : OnReady(k', t) => k'.prio[t] <= k'.prio[k'.current]]_vars
    BY <1>1
<1> QED BY <1>2, ListsCorrect, PTL DEF Spec, TickRunsHighest

-----------------------------------------------------------------------------
(* A list sorted by falling f, for which the priorities are one example.   *)
Falling(l, f) == \A i, j \in 1..Len(l) : i < j => f[l[i]] >= f[l[j]]

(* list_del leaves a sorted list sorted. *)
LEMMA RemoveFalling ==
    ASSUME NEW S, NEW f \in [S -> Int], NEW l \in Seq(S), Falling(l, f), NEW e
    PROVE  Falling(RemoveFirst(l, e), f)
<1>1. CASE ~Contains(l, e)
    BY <1>1, RemoveAbsent
<1>2. CASE Contains(l, e)
    <2>1. PICK n \in 1..Len(l) : RemoveFirst(l, e) = RemoveAt(l, n)
        BY <1>2, FirstPlace
    <2> DEFINE r == RemoveAt(l, n)
    <2>2. /\ Len(r) = Len(l) - 1
          /\ \A i \in 1..(Len(l) - 1) : r[i] = IF i < n THEN l[i] ELSE l[i + 1]
        BY RemoveAtShape
    <2> HIDE DEF r
    <2> SUFFICES ASSUME NEW i \in 1..Len(r), NEW j \in 1..Len(r), i < j
                 PROVE  f[r[i]] >= f[r[j]]
        BY <2>1 DEF Falling, r
    <2>3. CASE j < n
        <3>1. r[i] = l[i] /\ r[j] = l[j] /\ j \in 1..Len(l) /\ i \in 1..Len(l)
            BY <2>2, <2>3
        <3> QED BY <3>1 DEF Falling
    <2>4. CASE i < n /\ ~(j < n)
        <3>1. i < j + 1 /\ j + 1 \in 1..Len(l) /\ i \in 1..Len(l)
            BY <2>2, <2>4
        <3>2. r[i] = l[i] /\ r[j] = l[j + 1]
            BY <2>2, <2>4
        <3> QED BY <3>1, <3>2 DEF Falling
    <2>5. CASE ~(i < n)
        <3>1. /\ r[i] = l[i + 1] /\ r[j] = l[j + 1] /\ i + 1 < j + 1
              /\ j + 1 \in 1..Len(l) /\ i + 1 \in 1..Len(l)
            BY <2>2, <2>5
        <3> QED BY <3>1 DEF Falling
    <2> QED BY <2>3, <2>4, <2>5
<1> QED BY <1>1, <1>2

(* So does taking the first entry. *)
LEMMA TailFalling ==
    ASSUME NEW S, NEW f \in [S -> Int], NEW l \in Seq(S), Falling(l, f), l # <<>>
    PROVE  Falling(Tail(l), f)
<1> DEFINE r == Tail(l)
<1>1. Len(r) = Len(l) - 1 /\ \A i \in 1..Len(r) : r[i] = l[i + 1]
    BY HeadTailProperties
<1> HIDE DEF r
<1>2. \A i, j \in 1..Len(r) : i < j => f[r[i]] >= f[r[j]]
    <2> TAKE i, j \in 1..Len(r)
    <2>1. i + 1 \in 1..Len(l) /\ j + 1 \in 1..Len(l) /\ (i < j => i + 1 < j + 1)
        BY <1>1
    <2> QED BY <1>1, <2>1 DEF Falling
<1> QED BY <1>2 DEF Falling, r

(* sched_block_current puts a task in front of the first of lower priority.*)
LEMMA InsertFalling ==
    ASSUME NEW S, NEW f \in [S -> Int], NEW l \in Seq(S), Falling(l, f), NEW t \in S,
           NEW O, O = {i \in DOMAIN l : f[l[i]] < f[t]}
    PROVE  Falling(InsertBeforeFirst(l, t, O), f)
<1>0. /\ \A i \in 1..Len(l) : l[i] \in S /\ f[l[i]] \in Int
      /\ f[t] \in Int /\ DOMAIN l = 1..Len(l)
    BY ElementOfSeq
<1>1. CASE O = {}
    <2> DEFINE r == Append(l, t)
    <2>1. /\ Len(r) = Len(l) + 1 /\ r[Len(l) + 1] = t
          /\ \A i \in 1..Len(l) : r[i] = l[i]
        BY AppendProperties
    <2>2. \A i \in 1..Len(l) : f[l[i]] >= f[t]
        BY <1>0, <1>1
    <2> HIDE DEF r
    <2>3. Falling(r, f)
        <3> SUFFICES ASSUME NEW i \in 1..Len(r), NEW j \in 1..Len(r), i < j
                     PROVE  f[r[i]] >= f[r[j]]
            BY DEF Falling
        <3>1. CASE j = Len(l) + 1
            BY <2>1, <2>2, <3>1
        <3>2. CASE j # Len(l) + 1
            <4>1. j \in 1..Len(l) /\ i \in 1..Len(l)
                <5>1. Len(l) \in Nat /\ Len(r) = Len(l) + 1
                    BY <2>1
                <5> QED BY <3>2, <5>1
            <4>2. r[i] = l[i] /\ r[j] = l[j]
                BY <2>1, <4>1
            <4> QED BY <4>1, <4>2 DEF Falling
        <3> QED BY <3>1, <3>2
    <2> QED BY <1>1, <2>3 DEF InsertBeforeFirst, r
<1>2. CASE O # {}
    <2> DEFINE n == Min(O)
               r == InsertAt(l, n, t)
    <2>0. O \subseteq Nat
        BY <1>0
    <2>1. n \in O /\ \A y \in O : n <= y
        BY <1>2, <2>0, MinLeast
    <2>2. n \in 1..Len(l) /\ f[l[n]] < f[t]
        BY <1>0, <2>1
    <2> HIDE DEF n
    <2>3. ASSUME NEW i \in 1..Len(l), i < n
          PROVE  f[l[i]] >= f[t]
        <3>1. f[l[i]] \in Int /\ f[t] \in Int /\ i \in DOMAIN l
            BY <1>0
        <3>2. i \notin O
            BY <2>1, <2>2, <2>3
        <3>3. ~(f[l[i]] < f[t])
            BY <3>1, <3>2
        <3> QED BY <3>1, <3>3
    <2>4. /\ Len(r) = Len(l) + 1
          /\ \A i \in 1..(Len(l) + 1) : r[i] = IF i < n THEN l[i] ELSE IF i = n THEN t ELSE l[i - 1]
        <3>1. n \in 1..(Len(l) + 1) /\ t \in S /\ l \in Seq(S)
            BY <2>2
        <3> HIDE DEF r
        <3> QED BY <3>1, InsertAtShape DEF r
    <2> HIDE DEF r
    <2>5. ASSUME NEW i \in 1..Len(l), i >= n
          PROVE  f[l[i]] <= f[l[n]]
        <3>1. f[l[i]] \in Int /\ f[l[n]] \in Int
            BY <1>0, <2>2
        <3>2. CASE i = n
            BY <3>1, <3>2
        <3>3. CASE n < i
            BY <2>2, <3>1, <3>3 DEF Falling
        <3> QED BY <2>2, <2>5, <3>2, <3>3
    <2> DEFINE Place(i) == /\ i < n => f[r[i]] >= f[t] /\ r[i] = l[i] /\ i \in 1..Len(l)
                           /\ i = n => f[r[i]] = f[t]
                           /\ i > n => f[r[i]] <= f[t] /\ r[i] = l[i - 1] /\ i - 1 \in 1..Len(l)
                           /\ f[r[i]] \in Int
    <2>6. ASSUME NEW i \in 1..Len(r) PROVE Place(i)
        <3>4. i \in Int /\ n \in Int /\ n \in 1..Len(l) /\ i \in 1..(Len(l) + 1)
            BY <2>2, <2>4
        <3>5. r[i] = IF i < n THEN l[i] ELSE IF i = n THEN t ELSE l[i - 1]
            BY <2>4, <3>4
        <3>1. CASE i < n
            <4>1. r[i] = l[i] /\ i \in 1..Len(l)
                BY <3>1, <3>4, <3>5
            <4>2. f[l[i]] >= f[t] /\ f[l[i]] \in Int
                BY <1>0, <2>3, <3>1, <4>1
            <4> QED BY <3>1, <3>4, <4>1, <4>2
        <3>2. CASE i = n
            <4>1. r[i] = t
                BY <3>2, <3>4, <3>5
            <4> QED BY <1>0, <3>2, <3>4, <4>1
        <3>3. CASE i > n
            <4>1. r[i] = l[i - 1] /\ i - 1 \in 1..Len(l) /\ i - 1 >= n
                <5>1. i - 1 \in 1..Len(l) /\ i - 1 >= n /\ ~(i < n) /\ i # n
                    BY <3>3, <3>4
                <5> QED BY <3>5, <5>1
            <4>2. f[l[i - 1]] <= f[l[n]] /\ f[l[i - 1]] \in Int /\ f[l[n]] \in Int
                BY <1>0, <2>2, <2>5, <4>1
            <4>3. f[l[i - 1]] <= f[t]
                BY <1>0, <2>2, <4>2
            <4> QED BY <3>3, <3>4, <4>1, <4>2, <4>3
        <3> QED BY <3>1, <3>2, <3>3, <3>4
    <2>7. Falling(r, f)
        <3> SUFFICES ASSUME NEW i \in 1..Len(r), NEW j \in 1..Len(r), i < j
                     PROVE  f[r[i]] >= f[r[j]]
            BY DEF Falling
        <3>4. Place(i) /\ Place(j)
            BY <2>6
        <3>5. i \in Int /\ j \in Int /\ n \in Int /\ i < j /\ f[t] \in Int
            BY <1>0, <2>2
        <3>6. \A x, y \in 1..Len(l) : x < y => f[l[x]] >= f[l[y]]
            BY DEF Falling
        <3>1. CASE j < n
            <4>1. i < n
                BY <3>1, <3>5
            <4>2. r[i] = l[i] /\ i \in 1..Len(l)
                BY <3>4, <4>1
            <4>3. r[j] = l[j] /\ j \in 1..Len(l)
                BY <3>1, <3>4
            <4>4. f[l[i]] >= f[l[j]]
                BY <3>5, <3>6, <4>2, <4>3
            <4> QED BY <4>2, <4>3, <4>4
        <3>2. CASE i <= n /\ n <= j
            <4>1. f[r[i]] >= f[t]
                BY <3>2, <3>4, <3>5
            <4>2. f[r[j]] <= f[t]
                BY <3>2, <3>4, <3>5
            <4>3. f[r[i]] \in Int /\ f[r[j]] \in Int
                BY <3>4
            <4> QED BY <3>5, <4>1, <4>2, <4>3
        <3>3. CASE i > n
            <4>1. j > n /\ i - 1 < j - 1
                BY <3>3, <3>5
            <4>2. r[i] = l[i - 1] /\ i - 1 \in 1..Len(l)
                BY <3>3, <3>4
            <4>3. r[j] = l[j - 1] /\ j - 1 \in 1..Len(l)
                BY <3>4, <4>1
            <4>4. f[l[i - 1]] >= f[l[j - 1]]
                BY <3>6, <4>1, <4>2, <4>3
            <4> QED BY <4>2, <4>3, <4>4
        <3> QED BY <3>1, <3>2, <3>3, <3>5
    <2> QED BY <1>2, <2>7 DEF InsertBeforeFirst, r, n
<1> QED BY <1>1, <1>2

(* Priorities are numbers. *)
LEMMA PrioNumbers ==
    ASSUME NEW s \in Scheduler
    PROVE  s.prio \in [Task -> Int]
BY SchedAssumption DEF Scheduler, Prio

(* The priorities of tasks that are not on it do not matter. *)
LEMMA SameFalling ==
    ASSUME NEW S, NEW f, NEW g, NEW l \in Seq(S), Falling(l, f),
           \A x \in S : Contains(l, x) => g[x] = f[x]
    PROVE  Falling(l, g)
<1>1. \A i \in 1..Len(l) : l[i] \in S /\ Contains(l, l[i])
    BY ElementOfSeq DEF Contains
<1>2. \A i \in 1..Len(l) : g[l[i]] = f[l[i]]
    BY <1>1
<1> QED BY <1>2 DEF Falling

-----------------------------------------------------------------------------
(* What is true of the lists of a scheduler record s even after a fault:   *)
(* a TCB in a wait queue is BLOCKED and nowhere else, one on the deleted   *)
(* list is DELETED, no DELETED one is on a ready list, and the wait queues *)
(* are sorted.                                                             *)
Seat(s, t) ==
    /\ OnReady(s, t) => s.state[t] # "DELETED"
    /\ \A q \in WaitQ : Contains(s.wq[q], t) => s.state[t] = "BLOCKED" /\ ~OnReady(s, t)
    /\ \A q, r \in WaitQ : Contains(s.wq[q], t) /\ Contains(s.wq[r], t) => q = r
    /\ Contains(s.deleted, t) => s.state[t] = "DELETED"

QueuesFall(s) == \A q \in WaitQ : Falling(s.wq[q], s.prio)

Orderly(s) ==
    /\ NoRepeats(s)
    /\ \A t \in Task : Seat(s, t)
    /\ QueuesFall(s)

(* One task moves, the others stay where they are. *)
LEMMA OneSeat ==
    ASSUME NEW s, NEW r, NEW t \in Task, Orderly(s),
           NoRepeats(r), QueuesFall(r), Seat(r, t),
           \A x \in Task \ {t} : SameTask(s, r, x)
    PROVE  Orderly(r)
<1>1. \A x \in Task \ {t} : Seat(r, x)
    BY DEF SameTask, Seat, OnReady, Orderly
<1> QED BY <1>1 DEF Orderly

(* list_del_init, also by way of sched_ready_remove. *)
LEMMA DelOrderly ==
    ASSUME NEW s \in Scheduler, NEW t \in Task, Orderly(s),
           NEW r, r = StateListDel(s, t) \/ r = sched_ready_remove(s, t)
    PROVE  /\ r \in Scheduler
           /\ Orderly(r)
           /\ Frame(s, r)
           /\ r.state = s.state /\ r.timer = s.timer /\ r.wres = s.wres
           /\ r.timeout = s.timeout
           /\ ~OnStateList(r, t)
           /\ \A x \in Task \ {t} : SameTask(s, r, x)
<1> DEFINE d == StateListDel(s, t)
<1>1. NoRepeats(s) /\ QueuesFall(s)
    BY DEF Orderly
<1>2. /\ d \in Scheduler
      /\ NoRepeats(d)
      /\ Frame(s, d)
      /\ d.state = s.state /\ d.timer = s.timer /\ d.wres = s.wres
      /\ d.timeout = s.timeout
      /\ ~OnStateList(d, t)
      /\ \A x \in Task \ {t} : SameTask(s, d, x)
    BY <1>1, DelEffect
<1>3. QueuesFall(d)
    <2>1. \A q \in WaitQ : s.wq[q] \in Seq(Task) /\ Falling(s.wq[q], s.prio)
        BY <1>1 DEF QueuesFall, Scheduler
    <2>2. s.prio \in [Task -> Int] /\ d.prio = s.prio
        BY <1>2, PrioNumbers DEF Frame
    <2>3. \A q \in WaitQ : d.wq[q] = RemoveFirst(s.wq[q], t)
        BY DEF StateListDel, Scheduler
    <2> HIDE DEF d
    <2> QED BY <2>1, <2>2, <2>3, RemoveFalling DEF QueuesFall
<1>4. Seat(d, t)
    BY <1>2 DEF Seat, OnStateList, OnWaitQ
<1>5. Orderly(d)
    BY <1>2, <1>3, <1>4, OneSeat
<1> DEFINE n == s.prio[t]
           m == [d EXCEPT !.mask = @ \ {n}]
<1>6. r = d \/ r = m \/ (r = s /\ ~OnStateList(s, t))
    BY DEF sched_ready_remove
<1>7. CASE r = d
    BY <1>2, <1>5, <1>7
<1>8. CASE r = s /\ ~OnStateList(s, t)
    BY <1>8 DEF Frame, SameTask
<1>9. CASE r = m
    <2> HIDE DEF d
    <2>1. /\ m \in Scheduler
          /\ m.ready = d.ready /\ m.wq = d.wq /\ m.deleted = d.deleted /\ m.timeout = d.timeout
          /\ m.state = d.state /\ m.timer = d.timer /\ m.wres = d.wres /\ m.prio = d.prio
          /\ Frame(d, m)
        BY <1>2 DEF Scheduler, Frame
    <2> HIDE DEF m
    <2>2. /\ \A x \in Task : SameTask(d, m, x)
          /\ NoRepeats(m) /\ QueuesFall(m)
        BY <1>2, <1>3, <2>1 DEF SameTask, NoRepeats, QueuesFall
    <2>3. Seat(m, t) /\ ~OnStateList(m, t)
        BY <1>2, <1>4, <2>1 DEF Seat, OnReady, OnStateList, OnWaitQ
    <2>4. Orderly(m)
        BY <1>5, <2>2, <2>3, OneSeat
    <2>5. \A x \in Task \ {t} : SameTask(s, m, x)
        BY <1>2, <2>2 DEF SameTask
    <2>6. Frame(s, m)
        BY <1>2, <2>1 DEF Frame
    <2> QED BY <1>2, <1>9, <2>1, <2>3, <2>4, <2>5, <2>6
<1> QED BY <1>6, <1>7, <1>8, <1>9

(* sched_ready_enqueue and its first half. *)
LEMMA EnqueueOrderly ==
    ASSUME NEW s \in Scheduler, NEW t \in Task, Orderly(s),
           NEW e, \/ e = sched_ready_enqueue(s, t)
                  \/ e = ready_link(s, t) /\ ~EnqueueRefused(s, t)
    PROVE  /\ e \in Scheduler
           /\ Orderly(e)
           /\ Frame(s, e)
           /\ e.state = s.state /\ e.timer = s.timer /\ e.wres = s.wres
           /\ e.timeout = s.timeout /\ e.wq = s.wq /\ e.deleted = s.deleted
           /\ \A x \in Task \ {t} : SameTask(s, e, x)
<1>1. CASE EnqueueRefused(s, t)
    <2>1. e = s
        BY <1>1 DEF sched_ready_enqueue
    <2> QED BY <2>1 DEF Frame, SameTask
<1>2. CASE ~EnqueueRefused(s, t)
    <2> DEFINE r == ready_link(s, t)
               n == s.prio[t]
               m == [r EXCEPT !.mask = @ \cup {n}]
    <2>1. ~OnStateList(s, t) /\ s.state[t] # "DELETED" /\ NoRepeats(s) /\ QueuesFall(s)
        BY <1>2 DEF EnqueueRefused, Orderly
    <2>2. /\ r \in Scheduler
          /\ NoRepeats(r)
          /\ Frame(s, r)
          /\ r.state = s.state /\ r.timer = s.timer /\ r.wres = s.wres
          /\ r.timeout = s.timeout /\ r.wq = s.wq /\ r.deleted = s.deleted
          /\ \A x \in Task \ {t} : SameTask(s, r, x)
        BY <2>1, LinkEffect
    <2>3. e = r \/ e = m
        BY <1>2 DEF sched_ready_enqueue
    <2> HIDE DEF r
    <2>4. Seat(r, t) /\ QueuesFall(r)
        BY <2>1, <2>2 DEF Seat, OnStateList, OnWaitQ, QueuesFall, Frame
    <2>5. Orderly(r)
        BY <2>2, <2>4, OneSeat
    <2>6. CASE e = r
        BY <2>2, <2>5, <2>6
    <2>7. CASE e = m
        <3>1. n \in Prio
            BY DEF Scheduler
        <3> HIDE DEF n
        <3>2. /\ m \in Scheduler
              /\ m.ready = r.ready /\ m.wq = r.wq /\ m.deleted = r.deleted
              /\ m.timeout = r.timeout
              /\ m.state = r.state /\ m.timer = r.timer /\ m.wres = r.wres /\ m.prio = r.prio
              /\ Frame(r, m)
            BY <2>2, <3>1 DEF Scheduler, Frame
        <3> HIDE DEF m
        <3>3. /\ \A x \in Task : SameTask(r, m, x)
              /\ NoRepeats(m) /\ QueuesFall(m)
            BY <2>2, <2>4, <3>2 DEF SameTask, NoRepeats, QueuesFall
        <3>4. Seat(m, t)
            BY <2>4, <3>2 DEF Seat, OnReady
        <3>5. Orderly(m)
            BY <2>5, <3>3, <3>4, OneSeat
        <3>6. \A x \in Task \ {t} : SameTask(s, m, x)
            BY <2>2, <3>3 DEF SameTask
        <3>7. Frame(s, m)
            BY <2>2, <3>2 DEF Frame
        <3> QED BY <2>2, <2>7, <3>2, <3>5, <3>6, <3>7
    <2> QED BY <2>3, <2>6, <2>7
<1> QED BY <1>1, <1>2

(* A change of the flags and of wait results. *)
LEMMA SimilarOrderly ==
    ASSUME NEW s, NEW r, Orderly(s), Similar(s, r)
    PROVE  Orderly(r)
BY DEF Orderly, Similar, NoRepeats, Seat, OnReady, QueuesFall, Frame

(* A TCB on no list, or one that is running, ready or blocked and stays on *)
(* its list, gets another state or other fields.                           *)
LEMMA FieldsOrderly ==
    ASSUME NEW s \in Scheduler, Orderly(s), NEW r, NEW t \in Task,
           r.ready = s.ready, r.wq = s.wq, r.deleted = s.deleted, r.timeout = s.timeout,
           ~OnWaitQ(s, t), ~Contains(s.deleted, t),
           OnReady(s, t) => r.state[t] # "DELETED",
           \A x \in Task \ {t} : r.state[x] = s.state[x] /\ r.prio[x] = s.prio[x]
    PROVE  Orderly(r)
<1>1. NoRepeats(r)
    BY DEF Orderly, NoRepeats
<1>2. QueuesFall(r)
    <2>1. ASSUME NEW q \in WaitQ
          PROVE  Falling(r.wq[q], r.prio)
        <3>1. s.wq[q] \in Seq(Task) /\ Falling(s.wq[q], s.prio)
            BY DEF Scheduler, Orderly, QueuesFall
        <3>2. \A x \in Task : Contains(s.wq[q], x) => r.prio[x] = s.prio[x]
            BY DEF OnWaitQ
        <3>3. Falling(s.wq[q], r.prio)
            BY <3>1, <3>2, SameFalling
        <3> QED BY <3>3
    <2> QED BY <2>1 DEF QueuesFall
<1>3. Seat(r, t)
    BY DEF Seat, OnWaitQ, OnReady
<1>4. \A x \in Task \ {t} : Seat(r, x)
    BY DEF Orderly, Seat, OnReady
<1> QED BY <1>1, <1>2, <1>3, <1>4 DEF Orderly

(* What may happen to a task that is not the one that makes the step: it   *)
(* stays on its wait queue with its wait result, it is woken with a        *)
(* reason, it is deleted, a TCB becomes a task, or the CPU is given to it  *)
(* or taken from it.                                                       *)
Kept(s, r, x) ==
    /\ r.state[x] = s.state[x]
    /\ r.wres[x] = s.wres[x]
    /\ OnWaitQ(s, x) => OnWaitQ(r, x)
    /\ Contains(r.deleted, x) => Contains(s.deleted, x)

Turned(s, r, x) ==
    /\ s.state[x] # "DELETED" /\ ~OnWaitQ(s, x)
    /\ r.state[x] \in {"READY", "RUNNING"}
    /\ r.wres[x] = s.wres[x]

Tame(s, r, x) ==
    \/ Kept(s, r, x)
    \/ s.state[x] = "BLOCKED" /\ r.state[x] = "READY" /\ r.wres[x] # "NONE"
    \/ x # Idle /\ s.state[x] # "DELETED" /\ r.state[x] = "DELETED"
    \/ x # Idle /\ s.state[x] = "UNUSED" /\ r.state[x] = "READY"
    \/ Turned(s, r, x)

(* A task on the same lists is left in peace. *)
LEMMA SameTame ==
    ASSUME NEW s, NEW r, NEW x, SameTask(s, r, x)
    PROVE  Kept(s, r, x) /\ Tame(s, r, x)
BY DEF SameTask, Kept, Tame, OnWaitQ

(* sched_wake_one: the first waiter becomes ready; its wait result is      *)
(* stored by the caller.                                                   *)
LEMMA WakeOneOrderly ==
    ASSUME NEW s \in Scheduler, NEW q \in WaitQ, Orderly(s), s.wq[q] # <<>>,
           NEW e, e = sched_wake_one(s, q),
           NEW t, t = Head(s.wq[q])
    PROVE  /\ e \in Scheduler /\ t \in Task
           /\ Orderly(e)
           /\ Frame(s, e)
           /\ e.wq[q] = Tail(s.wq[q])
           /\ \A w \in WaitQ \ {q} : e.wq[w] = s.wq[w]
           /\ s.state[t] = "BLOCKED" /\ e.state[t] = "READY"
           /\ \A x \in Task \ {t} : SameTask(s, e, x)
<1> DEFINE u == sched_timeout_remove(s, t)
           r == [u EXCEPT !.wq[q] = Tail(@), !.timer[t] = FALSE, !.state[t] = "READY"]
<1>1. /\ s.wq[q] \in Seq(Task) /\ s.timeout \in Seq(Task)
      /\ NoRepeats(s) /\ Distinct(s.wq[q]) /\ Distinct(s.timeout)
    BY DEF Scheduler, Orderly, NoRepeats
<1>2. /\ t \in Task /\ Contains(s.wq[q], t)
      /\ Tail(s.wq[q]) \in Seq(Task)
      /\ Distinct(Tail(s.wq[q])) /\ ~Contains(Tail(s.wq[q]), t)
      /\ \A x : x # t => (Contains(Tail(s.wq[q]), x) <=> Contains(s.wq[q], x))
    BY <1>1, TailShape
<1>3. Seat(s, t) /\ s.state[t] = "BLOCKED" /\ ~OnReady(s, t) /\ ~Contains(s.deleted, t)
    BY <1>2 DEF Orderly, Seat
<1>4. /\ u \in Scheduler
      /\ u.timeout = RemoveFirst(s.timeout, t)
      /\ u.ready = s.ready /\ u.wq = s.wq /\ u.deleted = s.deleted
      /\ u.state = s.state /\ u.timer = s.timer /\ u.mask = s.mask /\ u.wres = s.wres
      /\ Frame(s, u)
    BY <1>2, TimeoutType DEF sched_timeout_remove, Scheduler, Frame
<1>5. e = sched_ready_enqueue(r, t)
    BY DEF sched_wake_one
<1> HIDE DEF u
<1>6. /\ r \in Scheduler
      /\ r.timeout = u.timeout
      /\ r.ready = u.ready /\ r.deleted = u.deleted
      /\ r.wq[q] = Tail(u.wq[q])
      /\ \A w \in WaitQ \ {q} : r.wq[w] = u.wq[w]
      /\ r.state[t] = "READY" /\ r.timer[t] = FALSE
      /\ \A x \in Task \ {t} : r.state[x] = u.state[x] /\ r.timer[x] = u.timer[x]
      /\ r.wres = u.wres
      /\ Frame(u, r)
    BY <1>2, <1>4 DEF Scheduler, TaskState, Frame
<1> HIDE DEF r
<1>7. /\ Distinct(u.timeout)
      /\ \A x : x # t => (Contains(u.timeout, x) <=> Contains(s.timeout, x))
    BY <1>1, <1>4, RemoveFirstShape
<1>8. NoRepeats(r)
    BY <1>1, <1>2, <1>4, <1>6, <1>7 DEF NoRepeats
<1>9. ~OnStateList(r, t)
    <2>1. \A w \in WaitQ \ {q} : ~Contains(s.wq[w], t)
        BY <1>2, <1>3 DEF Seat
    <2> QED BY <1>2, <1>3, <1>4, <1>6, <2>1 DEF OnStateList, OnReady, OnWaitQ
<1>10. \A x \in Task \ {t} : SameTask(s, r, x)
    BY <1>2, <1>4, <1>6, <1>7 DEF SameTask, Frame
<1>11. Frame(s, r)
    BY <1>4, <1>6 DEF Frame
<1>12. QueuesFall(r)
    <2>1. /\ \A w \in WaitQ : Falling(s.wq[w], s.prio)
          /\ s.prio \in [Task -> Int] /\ r.prio = s.prio
        BY <1>11, PrioNumbers DEF Orderly, QueuesFall, Frame
    <2>2. Falling(Tail(s.wq[q]), s.prio)
        BY <1>1, <2>1, TailFalling
    <2> QED BY <1>4, <1>6, <2>1, <2>2 DEF QueuesFall
<1>13. Orderly(r)
    <2>1. Seat(r, t)
        BY <1>9 DEF Seat, OnStateList, OnWaitQ
    <2> QED BY <1>2, <1>8, <1>10, <1>12, <2>1, OneSeat
<1>14. /\ e \in Scheduler /\ Orderly(e) /\ Frame(r, e) /\ e.state = r.state /\ e.wq = r.wq
       /\ \A x \in Task \ {t} : SameTask(r, e, x)
    <2>1. r \in Scheduler /\ t \in Task
        BY <1>2, <1>6
    <2> QED BY <1>5, <1>13, <2>1, EnqueueOrderly
<1>15. Frame(s, e) /\ \A x \in Task \ {t} : SameTask(s, e, x)
    BY <1>10, <1>11, <1>14 DEF Frame, SameTask
<1> QED BY <1>2, <1>3, <1>4, <1>6, <1>14, <1>15

(* The wakes of wait_queue.c. *)
LEMMA WakeOrderly ==
    ASSUME NEW s \in Scheduler, NEW q \in WaitQ, Orderly(s),
           NEW result \in WaitResult \ {"NONE"},
           NEW e, \/ e = trt_wait_q_wake_one_result_locked(s, q, result)
                  \/ e = trt_wait_q_wake_one_from_isr(s, q)
    PROVE  /\ Orderly(e)
           /\ Frame(s, e)
           /\ \A x \in Task : Tame(s, e, x)
           /\ \A x \in Task : s.state[x] # "BLOCKED" => e.state[x] = s.state[x]
           /\ \A w \in WaitQ : e.wq[w] = IF w = q /\ s.wq[q] # <<>> THEN Tail(s.wq[w]) ELSE s.wq[w]
<1>1. CASE s.wq[q] = <<>>
    <2>1. e = s
        BY <1>1 DEF trt_wait_q_wake_one_result_locked, trt_wait_q_wake_one_from_isr
    <2> QED BY <1>1, <2>1 DEF Frame, Tame, Kept
<1>2. CASE s.wq[q] # <<>>
    <2> DEFINE t == Head(s.wq[q])
               w == sched_wake_one(s, q)
    <2>1. /\ t \in Task
          /\ w \in Scheduler
          /\ s.state[t] = "BLOCKED"
          /\ Orderly(w)
          /\ Frame(s, w)
          /\ w.state[t] = "READY"
          /\ w.wq[q] = Tail(s.wq[q])
          /\ \A v \in WaitQ \ {q} : w.wq[v] = s.wq[v]
          /\ \A x \in Task \ {t} : SameTask(s, w, x)
        BY <1>2, WakeOneOrderly
    <2> DEFINE b == w.pending \/ sched_is_locked(s)
               f(v) == [w EXCEPT !.pending = b, !.wres[t] = v]
               g == [f("OBJECT") EXCEPT !.pending = TRUE]
    <2>2. e = f(result) \/ e = g
        <3>1. \A v : trt_wait_q_wake_one_result_locked(s, q, v) = f(v)
            BY <1>2 DEF trt_wait_q_wake_one_result_locked
        <3>2. trt_wait_q_wake_one_from_isr(s, q)
                 = [trt_wait_q_wake_one_result_locked(s, q, "OBJECT") EXCEPT !.pending = TRUE]
            BY <1>2 DEF trt_wait_q_wake_one_from_isr, trt_wait_q_wake_one_locked,
                        sched_set_pending
        <3> HIDE DEF f
        <3>3. CASE e = trt_wait_q_wake_one_result_locked(s, q, result)
            BY <3>1, <3>3
        <3>4. CASE e = trt_wait_q_wake_one_from_isr(s, q)
            BY <3>1, <3>2, <3>4
        <3> QED BY <3>3, <3>4
    <2> HIDE DEF t, w, b
    <2>3. /\ Similar(w, e)
          /\ \A x \in Task \ {t} : e.wres[x] = w.wres[x]
          /\ e.wres[t] # "NONE"
        <3>0. w.wres \in [Task -> WaitResult]
            BY <2>1 DEF Scheduler
        <3>1. ASSUME NEW v
              PROVE  /\ Similar(w, f(v))
                     /\ f(v).wres[t] = v
                     /\ \A x \in Task \ {t} : f(v).wres[x] = w.wres[x]
            BY <2>1, <3>0 DEF Similar, Frame
        <3>2. ASSUME NEW v
              PROVE  LET h == [f(v) EXCEPT !.pending = TRUE]
                     IN /\ Similar(w, h)
                        /\ h.wres[t] = v
                        /\ \A x \in Task \ {t} : h.wres[x] = w.wres[x]
            BY <2>1, <3>0 DEF Similar, Frame
        <3> HIDE DEF f
        <3>3. CASE e = f(result)
            BY <3>1, <3>3
        <3>4. CASE e = g
            <4>1. "OBJECT" # "NONE"
                OBVIOUS
            <4> QED BY <3>2, <3>4, <4>1
        <3> QED BY <2>2, <3>3, <3>4
    <2>4. Orderly(e)
        BY <2>1, <2>3, SimilarOrderly
    <2>5. Frame(s, e)
        BY <2>1, <2>3 DEF Similar, Frame
    <2>6. \A x \in Task \ {t} : SameTask(s, e, x)
        BY <2>1, <2>3 DEF Similar, SameTask, Frame
    <2>7. e.state[t] = "READY" /\ e.wq = w.wq
        BY <2>1, <2>3 DEF Similar
    <2>8. \A x \in Task : Tame(s, e, x)
        BY <2>1, <2>3, <2>6, <2>7, SameTame DEF Tame
    <2>9. \A x \in Task : s.state[x] # "BLOCKED" => e.state[x] = s.state[x]
        BY <2>1, <2>6 DEF SameTask
    <2> QED BY <1>2, <2>1, <2>4, <2>5, <2>7, <2>8, <2>9
<1> QED BY <1>1, <1>2

(* One round of sched_wake_expired. *)
LEMMA ExpiredOrderly ==
    ASSUME NEW s \in Scheduler, Orderly(s), s.timeout # <<>>,
           NEW e, e = sched_wake_expired_one(s)
    PROVE  /\ Orderly(e)
           /\ Frame(s, e)
           /\ \A x \in Task : Tame(s, e, x)
           /\ \A x \in Task : s.state[x] # "BLOCKED" => e.state[x] = s.state[x]
           /\ \A w \in WaitQ : e.wq[w] # <<>> => s.wq[w] # <<>>
<1> DEFINE t == Head(s.timeout)
           r == [s EXCEPT !.timeout = Tail(@)]
           d == StateListDel(r, t)
           w == [d EXCEPT !.timer[t] = FALSE, !.wres[t] = "TIMEOUT", !.state[t] = "READY"]
<1>1. /\ t \in Task
      /\ Tail(s.timeout) \in Seq(Task)
      /\ Distinct(Tail(s.timeout))
      /\ \A x : x # t => (Contains(Tail(s.timeout), x) <=> Contains(s.timeout, x))
    <2>1. s.timeout \in Seq(Task) /\ Distinct(s.timeout)
        BY DEF Scheduler, Orderly, NoRepeats
    <2> QED BY <2>1, TailShape
<1>2. \/ e = r
      \/ s.state[t] = "BLOCKED" /\ e = sched_ready_enqueue(w, t)
    BY DEF sched_wake_expired_one
<1>3. /\ r \in Scheduler
      /\ r.timeout = Tail(s.timeout)
      /\ r.ready = s.ready /\ r.wq = s.wq /\ r.deleted = s.deleted
      /\ r.state = s.state /\ r.timer = s.timer /\ r.wres = s.wres
      /\ Frame(s, r)
    BY <1>1 DEF Scheduler, Frame
<1>4. d = StateListDel(r, t)
    OBVIOUS
<1> HIDE DEF t, r, d
<1>5. Orderly(r)
    BY <1>1, <1>3 DEF Orderly, NoRepeats, Seat, OnReady, QueuesFall, Frame
<1>6. /\ d \in Scheduler
      /\ Orderly(d)
      /\ Frame(r, d)
      /\ d.state = r.state /\ d.timer = r.timer /\ d.wres = r.wres
      /\ ~OnStateList(d, t)
      /\ \A x \in Task \ {t} : SameTask(r, d, x)
    BY <1>1, <1>3, <1>4, <1>5, DelOrderly
<1>7. \A v \in WaitQ : d.wq[v] # <<>> => s.wq[v] # <<>>
    <2>1. \A v \in WaitQ : d.wq[v] = RemoveFirst(s.wq[v], t) /\ s.wq[v] \in Seq(Task)
        BY <1>3, <1>4 DEF StateListDel, Scheduler
    <2>2. \A v \in WaitQ : s.wq[v] = <<>> => ~Contains(s.wq[v], t)
        BY <2>1, EmptyShape
    <2> QED BY <2>1, <2>2, RemoveAbsent
<1>8. CASE e = r
    <2>1. \A x \in Task : Kept(s, e, x)
        BY <1>3, <1>8 DEF Kept, OnWaitQ
    <2> QED BY <1>3, <1>5, <1>8, <2>1 DEF Tame
<1>9. CASE s.state[t] = "BLOCKED" /\ e = sched_ready_enqueue(w, t)
    <2>1. /\ w \in Scheduler
          /\ w.timeout = d.timeout
          /\ w.ready = d.ready /\ w.deleted = d.deleted /\ w.wq = d.wq
          /\ w.state[t] = "READY" /\ w.wres[t] = "TIMEOUT"
          /\ \A x \in Task \ {t} : /\ w.state[x] = d.state[x] /\ w.timer[x] = d.timer[x]
                                   /\ w.wres[x] = d.wres[x]
          /\ Frame(d, w)
        <3>1. /\ d.timer \in [Task -> BOOLEAN]
              /\ d.wres \in [Task -> WaitResult]
              /\ d.state \in [Task -> TaskState]
              /\ "TIMEOUT" \in WaitResult /\ "READY" \in TaskState
            BY <1>6 DEF Scheduler, TaskState, WaitResult
        <3>2. w \in Scheduler
            BY <1>1, <1>6, <3>1 DEF Scheduler
        <3>3. /\ w.state[t] = "READY" /\ w.wres[t] = "TIMEOUT"
              /\ \A x \in Task \ {t} : /\ w.state[x] = d.state[x] /\ w.timer[x] = d.timer[x]
                                       /\ w.wres[x] = d.wres[x]
            BY <1>1, <3>1
        <3>4. /\ w.timeout = d.timeout
              /\ w.ready = d.ready /\ w.deleted = d.deleted /\ w.wq = d.wq
              /\ Frame(d, w)
            BY DEF Frame
        <3> QED BY <3>2, <3>3, <3>4
    <2> HIDE DEF w
    <2>2. Orderly(w)
        BY <1>1, <1>6, <2>1, FieldsOrderly DEF OnStateList, Frame
    <2>3. /\ Orderly(e) /\ Frame(w, e)
          /\ e.state = w.state /\ e.wres = w.wres /\ e.wq = w.wq
          /\ \A x \in Task \ {t} : SameTask(w, e, x)
        BY <1>1, <1>9, <2>1, <2>2, EnqueueOrderly
    <2>4. Frame(s, e)
        BY <1>3, <1>6, <2>1, <2>3 DEF Frame
    <2>5. ASSUME NEW x \in Task \ {t}
          PROVE  SameTask(s, e, x)
        <3>1. SameTask(s, r, x)
            BY <1>1, <1>3 DEF SameTask, Frame
        <3>2. SameTask(d, w, x)
            BY <2>1 DEF SameTask, Frame
        <3> QED BY <1>6, <2>3, <3>1, <3>2 DEF SameTask
    <2>6. \A x \in Task : Tame(s, e, x)
        <3>1. e.state[t] = "READY" /\ e.wres[t] # "NONE"
            BY <2>1, <2>3
        <3> QED BY <1>9, <2>5, <3>1, SameTame DEF Tame
    <2>7. \A x \in Task : s.state[x] # "BLOCKED" => e.state[x] = s.state[x]
        BY <1>9, <2>5 DEF SameTask
    <2>8. \A v \in WaitQ : e.wq[v] # <<>> => s.wq[v] # <<>>
        BY <1>7, <2>1, <2>3
    <2> QED BY <2>3, <2>4, <2>6, <2>7, <2>8
<1> QED BY <1>2, <1>8, <1>9

(* No wait queue gets a waiter. *)
NoNewWaiter(s, e) == \A w \in WaitQ : e.wq[w] # <<>> => s.wq[w] # <<>>

(* list_del_init from an empty wait queue leaves it empty. *)
LEMMA DelNoNewWaiter ==
    ASSUME NEW s \in Scheduler, NEW t \in Task,
           NEW r, r = StateListDel(s, t) \/ r = sched_ready_remove(s, t)
    PROVE  NoNewWaiter(s, r)
<1> DEFINE d == StateListDel(s, t)
           n == s.prio[t]
<1>1. \A v \in WaitQ : d.wq[v] = RemoveFirst(s.wq[v], t) /\ s.wq[v] \in Seq(Task)
    BY DEF StateListDel, Scheduler
<1>2. \A v \in WaitQ : s.wq[v] = <<>> => ~Contains(s.wq[v], t)
    BY <1>1, EmptyShape
<1>3. NoNewWaiter(s, d)
    <2> HIDE DEF d
    <2> QED BY <1>1, <1>2, RemoveAbsent DEF NoNewWaiter
<1>4. r = d \/ r = s \/ r = [d EXCEPT !.mask = @ \ {n}]
    BY DEF sched_ready_remove
<1>5. d \in Scheduler
    BY StateListDelType
<1> HIDE DEF d, n
<1>6. [d EXCEPT !.mask = @ \ {n}].wq = d.wq
    BY <1>5 DEF Scheduler
<1> QED BY <1>3, <1>4, <1>6 DEF NoNewWaiter

(* sched_mark_deleted, whatever list the TCB is on. *)
LEMMA MarkOrderly ==
    ASSUME NEW s \in Scheduler, NEW t \in Task, Orderly(s),
           t # s.idle, s.state[t] # "DELETED",
           NEW e, e = sched_mark_deleted(s, t)
    PROVE  /\ Orderly(e)
           /\ Frame(s, e)
           /\ e.state[t] = "DELETED"
           /\ NoNewWaiter(s, e)
           /\ \A x \in Task \ {t} : SameTask(s, e, x)
<1> DEFINE r == IF s.state[t] = "READY" THEN sched_ready_remove(s, t) ELSE StateListDel(s, t)
           u == sched_timeout_remove(r, t)
           l == Append(u.deleted, t)
           f == [u EXCEPT !.timer[t] = FALSE, !.wres[t] = "NONE",
                          !.state[t] = "DELETED", !.deleted = l]
<1>2. e = f
    BY DEF sched_mark_deleted
<1>3. r = StateListDel(s, t) \/ r = sched_ready_remove(s, t)
    OBVIOUS
<1> HIDE DEF r
<1>4. /\ r \in Scheduler
      /\ Orderly(r)
      /\ Frame(s, r)
      /\ r.state = s.state /\ r.timer = s.timer /\ r.wres = s.wres /\ r.timeout = s.timeout
      /\ ~OnStateList(r, t)
      /\ \A x \in Task \ {t} : SameTask(s, r, x)
      /\ NoNewWaiter(s, r)
    BY <1>3, DelOrderly, DelNoNewWaiter
<1>4a. NoRepeats(r) /\ QueuesFall(r)
    BY <1>4 DEF Orderly
<1>5. u \in Scheduler
    BY <1>4, TimeoutType
<1>6. /\ u.timeout = RemoveFirst(r.timeout, t)
      /\ u.ready = r.ready /\ u.wq = r.wq /\ u.deleted = r.deleted
      /\ u.state = r.state /\ u.timer = r.timer /\ u.mask = r.mask /\ u.wres = r.wres
      /\ Frame(r, u)
    BY <1>4 DEF sched_timeout_remove, Scheduler, Frame
<1>7. /\ Distinct(u.timeout) /\ ~Contains(u.timeout, t)
      /\ \A x : x # t => (Contains(u.timeout, x) <=> Contains(r.timeout, x))
    <2>1. r.timeout \in Seq(Task) /\ Distinct(r.timeout)
        BY <1>4, <1>4a DEF NoRepeats, Scheduler
    <2> QED BY <1>6, <2>1, RemoveFirstShape
<1>8. /\ l \in Seq(Task) /\ Distinct(l) /\ Contains(l, t)
      /\ \A x : x # t => (Contains(l, x) <=> Contains(r.deleted, x))
    <2>1. r.deleted \in Seq(Task) /\ Distinct(r.deleted) /\ ~Contains(r.deleted, t)
        BY <1>4, <1>4a DEF NoRepeats, Scheduler, OnStateList
    <2> QED BY <1>6, <2>1, AppendShape
<1> HIDE DEF u, l
<1>9. /\ f.timeout = u.timeout /\ f.ready = u.ready /\ f.wq = u.wq /\ f.deleted = l
      /\ f.state[t] = "DELETED" /\ f.timer[t] = FALSE
      /\ \A x \in Task \ {t} : /\ f.state[x] = u.state[x]
                               /\ f.timer[x] = u.timer[x]
                               /\ f.wres[x] = u.wres[x]
      /\ f.mask = u.mask
      /\ Frame(u, f)
    BY <1>5 DEF Scheduler, Frame
<1> HIDE DEF f
<1>10. NoRepeats(f) /\ QueuesFall(f)
    <2>1. NoRepeats(f)
        BY <1>4a, <1>6, <1>7, <1>8, <1>9 DEF NoRepeats
    <2>2. f.wq = r.wq /\ f.prio = r.prio
        BY <1>6, <1>9 DEF Frame
    <2> QED BY <1>4a, <2>1, <2>2 DEF QueuesFall
<1>11. Seat(f, t)
    <2>1. \A p \in Prio : ~Contains(r.ready[p], t)
        BY <1>4 DEF OnStateList, OnReady
    <2>2. \A q \in WaitQ : ~Contains(r.wq[q], t)
        BY <1>4 DEF OnStateList, OnWaitQ
    <2> QED BY <1>6, <1>9, <2>1, <2>2 DEF Seat, OnReady
<1>12. \A x \in Task \ {t} : SameTask(r, f, x)
    BY <1>6, <1>7, <1>8, <1>9 DEF SameTask, Frame
<1>13. \A x \in Task \ {t} : SameTask(s, f, x)
    BY <1>4, <1>12 DEF SameTask
<1>14. Frame(s, f) /\ NoNewWaiter(s, f)
    BY <1>4, <1>6, <1>9 DEF Frame, NoNewWaiter
<1>15. Orderly(f)
    BY <1>4, <1>10, <1>11, <1>12, OneSeat
<1> QED BY <1>2, <1>9, <1>13, <1>14, <1>15

=============================================================================
