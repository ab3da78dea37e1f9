---------------------------- MODULE ObjectProofs ----------------------------
(***************************************************************************)
(* Theorems about the objects of KObject, and about semaphores and         *)
(* mutexes, used and destroyed by the tasks and interrupts of the kernel.  *)
(* They hold whatever the unprotected windows of task.c do to the ready    *)
(* lists, since what they rest on is AlwaysInv of KernelAlways.            *)
(***************************************************************************)
EXTENDS KernelAlways, Semaphore, Mutex, FiniteSetTheorems

(* Only the objects block tasks and wake them: wait_queue.h is no part of  *)
(* the API.                                                                *)
ObjectsOnly == Calls \cap {"wait", "timedwait", "wake"} = {}

-----------------------------------------------------------------------------
(* What the kernel does to the waiters on its own.  No task is put on a    *)
(* wait queue, and none is told that an object woke it.                    *)
Leaves(s, r) == \A w \in WaitQ : \A x : Contains(r.wq[w], x) => Contains(s.wq[w], x)

HandsOff(s, r) ==
    /\ Leaves(s, r)
    /\ \A x \in Task : r.wres[x] = "OBJECT" => s.wres[x] = "OBJECT"

(* Two such steps make one. *)
LEMMA HandsOffTwice ==
    ASSUME NEW s, NEW r, NEW e, HandsOff(s, r), HandsOff(r, e)
    PROVE  HandsOff(s, e)
BY DEF HandsOff, Leaves

(* The wait queues and the results stay. *)
LEMMA HandsOffSame ==
    ASSUME NEW s, NEW r, r.wq = s.wq, r.wres = s.wres
    PROVE  HandsOff(s, r)
BY DEF HandsOff, Leaves

(* An empty wait queue stays empty. *)
LEMMA LeavesEmpty ==
    ASSUME NEW s \in Scheduler, NEW r \in Scheduler, Leaves(s, r)
    PROVE  \A w \in WaitQ : s.wq[w] = <<>> => r.wq[w] = <<>>
<1> SUFFICES ASSUME NEW w \in WaitQ, s.wq[w] = <<>> PROVE r.wq[w] = <<>>
    OBVIOUS
<1>1. s.wq[w] \in Seq(Task) /\ r.wq[w] \in Seq(Task)
    BY DEF Scheduler
<1> QED BY <1>1, EmptyShape DEF Leaves

(* The list primitives. *)
LEMMA HandsOffLists ==
    ASSUME NEW s \in Scheduler, NEW t \in Task
    PROVE  /\ HandsOff(s, StateListDel(s, t))
           /\ HandsOff(s, sched_ready_remove(s, t))
           /\ HandsOff(s, sched_timeout_remove(s, t))
           /\ HandsOff(s, sched_timeout_insert(s, t))
           /\ HandsOff(s, ready_link(s, t))
           /\ HandsOff(s, sched_ready_enqueue(s, t))
<1>1. HandsOff(s, StateListDel(s, t))
    <2> DEFINE d == StateListDel(s, t)
    <2>1. /\ \A w \in WaitQ : s.wq[w] \in Seq(Task) /\ d.wq[w] = RemoveFirst(s.wq[w], t)
          /\ d.wres = s.wres
        BY DEF StateListDel, Scheduler
    <2> HIDE DEF d
    <2>2. \A w \in WaitQ : \A x : Contains(RemoveFirst(s.wq[w], t), x) => Contains(s.wq[w], x)
        BY <2>1, RemoveFirstShape
    <2>3. HandsOff(s, d)
        BY <2>1, <2>2 DEF HandsOff, Leaves
    <2> QED BY <2>3 DEF d
<1>2. HandsOff(s, sched_ready_remove(s, t))
    <2> DEFINE d == StateListDel(s, t)
               g == [d EXCEPT !.mask = @ \ {s.prio[t]}]
    <2>1. \/ sched_ready_remove(s, t) = d
          \/ sched_ready_remove(s, t) = s
          \/ sched_ready_remove(s, t) = g
        BY DEF sched_ready_remove
    <2>2. d \in Scheduler /\ HandsOff(s, d)
        BY <1>1, StateListDelType
    <2> HIDE DEF d
    <2>3. g.wq = d.wq /\ g.wres = d.wres
        BY <2>2 DEF Scheduler
    <2> HIDE DEF g
    <2>4. HandsOff(d, g) /\ HandsOff(s, s)
        BY <2>3, HandsOffSame
    <2>5. HandsOff(s, g)
        BY <2>2, <2>4, HandsOffTwice
    <2> QED BY <2>1, <2>2, <2>4, <2>5
<1>3. ASSUME NEW r \in {sched_timeout_remove(s, t), sched_timeout_insert(s, t),
                        ready_link(s, t), sched_ready_enqueue(s, t)}
      PROVE  HandsOff(s, r)
    <2>1. r.wq = s.wq /\ r.wres = s.wres
        BY <1>3 DEF Scheduler, sched_timeout_remove, sched_timeout_insert, ready_link,
                    sched_ready_enqueue
    <2> QED BY <2>1, HandsOffSame
<1> QED BY <1>1, <1>2, <1>3

(* sched_mark_deleted. *)
LEMMA HandsOffMark ==
    ASSUME NEW s \in Scheduler, NEW t \in Task
    PROVE  HandsOff(s, sched_mark_deleted(s, t))
<1> DEFINE r == IF s.state[t] = "READY" THEN sched_ready_remove(s, t) ELSE StateListDel(s, t)
           u == sched_timeout_remove(r, t)
           e == [u EXCEPT !.timer[t] = FALSE, !.wres[t] = "NONE",
                          !.state[t] = "DELETED", !.deleted = Append(@, t)]
<1>1. sched_mark_deleted(s, t) \in {s, e}
    BY DEF sched_mark_deleted
<1>2. r \in Scheduler /\ HandsOff(s, r)
    BY HandsOffLists, RemoveType, StateListDelType
<1> HIDE DEF r
<1>3. u \in Scheduler /\ HandsOff(s, u)
    BY <1>2, HandsOffLists, TimeoutType, HandsOffTwice
<1> HIDE DEF u
<1>4. /\ e.wq = u.wq
      /\ \A x \in Task : e.wres[x] = "OBJECT" => u.wres[x] = "OBJECT"
    BY <1>3 DEF Scheduler
<1> HIDE DEF e
<1>5. HandsOff(u, e)
    BY <1>4 DEF HandsOff, Leaves
<1> QED BY <1>1, <1>3, <1>5, HandsOffSame, HandsOffTwice

(* A round of sched_wake_expired. *)
LEMMA HandsOffExpired ==
    ASSUME NEW s \in Scheduler, s.timeout # <<>>
    PROVE  HandsOff(s, sched_wake_expired_one(s))
<1> DEFINE t == Head(s.timeout)
           r == [s EXCEPT !.timeout = Tail(@)]
           d == StateListDel(r, t)
           w == [d EXCEPT !.timer[t] = FALSE, !.wres[t] = "TIMEOUT", !.state[t] = "READY"]
           e == sched_ready_enqueue(w, t)
<1>1. sched_wake_expired_one(s) \in {r, e}
    BY DEF sched_wake_expired_one
<1>2. t \in Task /\ Tail(s.timeout) \in Seq(Task)
    BY DEF Scheduler
<1>3. r \in Scheduler /\ HandsOff(s, r)
    <2>1. r \in Scheduler /\ r.wq = s.wq /\ r.wres = s.wres
        BY <1>2 DEF Scheduler
    <2> QED BY <2>1, HandsOffSame
<1> HIDE DEF t, r
<1>4. d \in Scheduler /\ HandsOff(r, d)
    BY <1>2, <1>3, StateListDelType, HandsOffLists
<1> HIDE DEF d
<1>5. /\ w \in Scheduler
      /\ w.wq = d.wq
      /\ \A x \in Task : w.wres[x] = "OBJECT" => d.wres[x] = "OBJECT"
    <2>1. w \in Scheduler
        BY <1>2, <1>4 DEF Scheduler, TaskState, WaitResult
    <2>2. w.wq = d.wq /\ w.wres = [d.wres EXCEPT ![t] = "TIMEOUT"] /\ DOMAIN d.wres = Task
        BY <1>2, <1>4 DEF Scheduler
    <2> HIDE DEF w
    <2> QED BY <2>1, <2>2
<1> HIDE DEF w
<1>6. HandsOff(d, w)
    BY <1>5 DEF HandsOff, Leaves
<1>7. HandsOff(w, e)
    BY <1>2, <1>5, HandsOffLists
<1> HIDE DEF e
<1> QED BY <1>1, <1>3, <1>4, <1>6, <1>7, HandsOffTwice

(* The block of task_delay_ticks. *)
LEMMA HandsOffSleep ==
    ASSUME NEW s \in Scheduler, NEW t \in Task, NEW due \in Ticks
    PROVE  HandsOff(s, Asleep(s, t, due))
<1> DEFINE b == [s EXCEPT !.wakeup[t] = due, !.timer[t] = TRUE,
                          !.wres[t] = "NONE", !.state[t] = "BLOCKED"]
           r == sched_ready_remove(b, t)
<1>1. /\ b \in Scheduler
      /\ b.wq = s.wq
      /\ \A x \in Task : b.wres[x] = "OBJECT" => s.wres[x] = "OBJECT"
    BY DEF Scheduler, WaitResult, TaskState
<1> HIDE DEF b
<1>2. HandsOff(s, b)
    BY <1>1 DEF HandsOff, Leaves
<1>3. r \in Scheduler /\ HandsOff(b, r)
    BY <1>1, RemoveType, HandsOffLists
<1> HIDE DEF r
<1>4. HandsOff(r, sched_timeout_insert(r, t))
    BY <1>3, HandsOffLists
<1> QED BY <1>2, <1>3, <1>4, HandsOffTwice DEF Asleep, r, b


-----------------------------------------------------------------------------
(* Where a task is in a call of an object, and where it waits in one.      *)
CallPc == {"wq_all", "o_op", "o_wake", "o_close", "o_free"}

ObjWait(x) == pc[x] = "o_ret" \/ (pc[x] \in YieldPc /\ ret[x] = "o_ret")

(* Nobody is in a call of wait_queue.h. *)
NoWakeAll == \A x \in Task : pc[x] # "wq_all"

(* What a step of the kernel alone leaves of the calls of the objects: only *)
(* a task that is deleted loses its place.                                 *)
Stands(x) ==
    /\ pc'[x] \in CallPc => pc'[x] = pc[x]
    /\ pc[x] \in CallPc => pc'[x] = pc[x] \/ k.state[x] = "DELETED"
    /\ ObjWait(x)' => ObjWait(x)
    /\ ObjWait(x) => ObjWait(x)' \/ k.state[x] = "DELETED"

KernelKeeps ==
    /\ HandsOff(k, k')
    /\ \A x \in Task : Stands(x)

(* A task moves within the kernel. *)
LEMMA StandsMoves ==
    ASSUME NEW t \in Task, NEW p, Moves(t, p), \A x \in Task \ {t} : ret'[x] = ret[x],
           p \notin CallPc, pc[t] \notin CallPc,
           \/ pc[t] \in YieldPc /\ ret'[t] = ret[t] /\ (p \in YieldPc \/ p = ret[t])
           \/ pc[t] \notin YieldPc \cup {"o_ret"} /\ p # "o_ret" /\ (p \in YieldPc => ret'[t] # "o_ret")
           \/ pc[t] \in YieldPc /\ ret[t] # "o_ret" /\ p # "o_ret" /\ (p \in YieldPc => ret'[t] # "o_ret")
    PROVE  \A x \in Task : Stands(x)
<1>1. Stands(t)
    BY DEF Stands, ObjWait, Moves, YieldPc
<1>2. \A x \in Task \ {t} : Stands(x)
    BY DEF Stands, ObjWait, Moves
<1> QED BY <1>1, <1>2

(* Nobody moves. *)
LEMMA StandsStill ==
    ASSUME pc' = pc, ret' = ret
    PROVE  \A x \in Task : Stands(x)
BY DEF Stands, ObjWait

(* task_delete_obj *)
LEMMA HandsOffDelete ==
    ASSUME k \in Scheduler, NEW t \in Task, NEW u \in Task, NEW p, task_delete_obj(t, u, p)
    PROVE  HandsOff(k, k') /\ (Goto(t, p) \/ (u = t /\ Goto(t, "ecall")))
<1>1. Goto(t, p) \/ (u = t /\ Goto(t, "ecall"))
    BY DEF task_delete_obj
<1>2. k' = k \/ k' = MarkedDeleted(k, u, u = t)
    BY DEF task_delete_obj, MarkedDeleted
<1> DEFINE m == sched_mark_deleted(k, u)
           e == MarkedDeleted(k, u, u = t)
<1>3. m \in Scheduler /\ HandsOff(k, m)
    BY MarkDeletedType, HandsOffMark
<1>4. e = [m EXCEPT !.pending = @ \/ u = t]
    BY DEF MarkedDeleted
<1> HIDE DEF m, e
<1>5. e.wq = m.wq /\ e.wres = m.wres
    BY <1>3, <1>4 DEF Scheduler
<1>6. HandsOff(k, e)
    BY <1>3, <1>5, HandsOffSame, HandsOffTwice
<1>7. HandsOff(k, k)
    BY HandsOffSame
<1> QED BY <1>1, <1>2, <1>6, <1>7 DEF e

(* The calls of an application. *)
LEMMA CallKeeps ==
    ASSUME TypeInv, AlwaysInv, ObjectsOnly, NEW t \in Task, AppCall(t)
    PROVE  KernelKeeps
<1> USE DEF taskvars, history
<1>0. /\ k \in Scheduler /\ pc \in [Task -> Pc] /\ ret \in [Task -> RetPc]
      /\ HandsOff(k, k) /\ HandsOff(k, sched_set_pending(k))
    <2>1. /\ sched_set_pending(k).wq = k.wq /\ sched_set_pending(k).wres = k.wres
          /\ k \in Scheduler /\ pc \in [Task -> Pc] /\ ret \in [Task -> RetPc]
        BY DEF TypeInv, TypeOK, sched_set_pending, Scheduler
    <2> QED BY <2>1, HandsOffSame
<1>1. pc[t] = "run"
    BY DEF AppCall, task_yield, task_sleep, sched_lock, sched_unlock, trt_wait_q_block,
        trt_wait_q_block_ticks, trt_wait_q_wake_one, trt_wait_q_wake_all, task_delete,
        task_exit, task_create, Call, At
<1>2. ASSUME NEW p, Moves(t, p), \A x \in Task \ {t} : ret'[x] = ret[x],
             p \notin CallPc, p # "o_ret", p \in YieldPc => ret'[t] # "o_ret"
      PROVE  \A x \in Task : Stands(x)
    BY <1>1, <1>2, StandsMoves DEF CallPc, YieldPc
<1>3. CASE \/ task_yield(t)
           \/ \E d \in Delays : task_sleep(t, d)
           \/ sched_lock(t)
           \/ sched_unlock(t)
           \/ \E h \in Handle : task_delete(t, h)
    <2>1. HandsOff(k, k')
        <3>1. k'.wq = k.wq /\ k'.wres = k.wres
            BY <1>0, <1>3 DEF task_yield, task_sleep, sched_lock, sched_unlock, task_delete,
                sched_set_pending, Scheduler
        <3> QED BY <3>1, HandsOffSame
    <2>2. \E p \in {"run", "y_chk", "sl_loop", "d_obj"} :
             /\ Goto(t, p) \/ (p = pc[t] /\ UNCHANGED pc)
             /\ p = "y_chk" => ret' = [ret EXCEPT ![t] = "run"]
             /\ p # "y_chk" => ret' = ret
        BY <1>1, <1>3 DEF task_yield, task_sleep, sched_lock, sched_unlock, task_delete, CallYield
    <2>3. \/ UNCHANGED reg
          \/ \E l : reg' = [reg EXCEPT ![t].due = l]
          \/ \E l : reg' = [reg EXCEPT ![t].obj = l]
        BY <1>3 DEF task_yield, task_sleep, sched_lock, sched_unlock, task_delete
    <2>4. PICK p \in {"run", "y_chk", "sl_loop", "d_obj"} :
             /\ Goto(t, p) \/ (p = pc[t] /\ UNCHANGED pc)
             /\ p = "y_chk" => ret' = [ret EXCEPT ![t] = "run"]
             /\ p # "y_chk" => ret' = ret
        BY <2>2
    <2>5. Moves(t, p)
        BY <2>3, <2>4, RegMoves
    <2>6. /\ \A x \in Task \ {t} : ret'[x] = ret[x]
          /\ p \notin CallPc /\ p # "o_ret"
          /\ p \in YieldPc => ret'[t] # "o_ret"
        BY <1>0, <2>4 DEF CallPc, YieldPc
    <2> QED BY <1>2, <2>1, <2>5, <2>6 DEF KernelKeeps
<1>4. CASE task_exit(t)
    <2>1. HandsOff(k, k') /\ Goto(t, "ecall") /\ reg' = reg /\ ret' = [ret EXCEPT ![t] = "ecall"]
        BY <1>0, <1>4, HandsOffDelete DEF task_exit, LoopIfSelf
    <2>2. Moves(t, "ecall") /\ ret'[t] = "ecall" /\ \A x \in Task \ {t} : ret'[x] = ret[x]
        BY <1>0, <2>1, RegMoves
    <2>3. "ecall" \notin CallPc
        BY DEF CallPc
    <2> QED BY <1>2, <2>1, <2>2, <2>3 DEF KernelKeeps
<1>5. ASSUME NEW p \in CreatePrio, task_create(t, p) PROVE KernelKeeps
    <2>1. PICK u \in FreeSlots : k' = InitTcb(k, u, p) /\ reg' = [reg EXCEPT ![t].obj = u]
        BY <1>5 DEF task_create
    <2>2. Goto(t, "c_link") /\ ret' = ret
        BY <1>5 DEF task_create
    <2>3. u \in Task
        BY DEF FreeSlots
    <2>4. k'.wq = k.wq /\ \A x \in Task : k'.wres[x] = "OBJECT" => k.wres[x] = "OBJECT"
        BY <1>0, <2>1, <2>3 DEF InitTcb, Scheduler
    <2>5. HandsOff(k, k')
        BY <2>4 DEF HandsOff, Leaves
    <2>6. Moves(t, "c_link")
        BY <2>1, <2>2, RegMoves
    <2>7. "c_link" \notin CallPc \cup YieldPc
        BY DEF CallPc, YieldPc
    <2> QED BY <1>2, <2>2, <2>5, <2>6, <2>7 DEF KernelKeeps
<1>6. ~Call(t, "wait") /\ ~Call(t, "timedwait") /\ ~Call(t, "wake")
    BY DEF Call, ObjectsOnly
<1> QED BY <1>3, <1>4, <1>5, <1>6
        DEF AppCall, trt_wait_q_block, trt_wait_q_block_ticks, trt_wait_q_wake_one,
            trt_wait_q_wake_all

-----------------------------------------------------------------------------

(* The kernel code of a task. *)
LEMMA StepKeeps ==
    ASSUME TypeInv, AlwaysInv, CreatesOther, NoWakeAll, NEW t \in Task, KernelStep(t)
    PROVE  KernelKeeps
<1> USE DEF taskvars, history
<1>0. /\ k \in Scheduler /\ pc \in [Task -> Pc] /\ ret \in [Task -> RetPc]
      /\ HandsOff(k, k) /\ HandsOff(k, sched_set_pending(k))
      /\ \A m : HandsOff(k, [k EXCEPT !.mask = m])
      /\ \A v : HandsOff(k, [k EXCEPT !.state = v])
      /\ \A x \in Task : HandsOff(k, ready_link(k, x))
    <2>1. /\ sched_set_pending(k).wq = k.wq /\ sched_set_pending(k).wres = k.wres
          /\ \A m : [k EXCEPT !.mask = m].wq = k.wq /\ [k EXCEPT !.mask = m].wres = k.wres
          /\ \A v : [k EXCEPT !.state = v].wq = k.wq /\ [k EXCEPT !.state = v].wres = k.wres
          /\ k \in Scheduler /\ pc \in [Task -> Pc] /\ ret \in [Task -> RetPc]
        BY DEF TypeInv, TypeOK, sched_set_pending, Scheduler
    <2> QED BY <2>1, HandsOffSame, HandsOffLists
<1>1. CASE task_yield_step(t)
    <2>1. HandsOff(k, k')
        BY <1>0, <1>1 DEF task_yield_step, yield_check, yield_link, mask_load, mask_store, arch_yield
    <2>2. /\ pc[t] \in YieldPc /\ ret' = ret
          /\ \E p \in YieldPc \cup {ret[t]} : Goto(t, p)
        BY <1>1 DEF task_yield_step, yield_check, yield_link, mask_load, mask_store, arch_yield,
            At, YieldPc
    <2>3. PICK p \in YieldPc \cup {ret[t]} : Goto(t, p)
        BY <2>2
    <2>4. \/ UNCHANGED reg
          \/ \E l : reg' = [reg EXCEPT ![t].mask = l]
        BY <1>1 DEF task_yield_step, yield_check, yield_link, mask_load, mask_store, arch_yield
    <2>5. Moves(t, p)
        BY <2>3, <2>4, RegMoves
    <2>6. ret[t] \in RetPc /\ RetPc \cap CallPc = {} /\ YieldPc \cap CallPc = {}
        BY <1>0 DEF RetPc, CallPc, YieldPc
    <2>7. \A x \in Task : Stands(x)
        BY <2>2, <2>3, <2>5, <2>6, StandsMoves
    <2> QED BY <2>1, <2>7 DEF KernelKeeps
<1>2. ASSUME NEW p, Moves(t, p), \A x \in Task \ {t} : ret'[x] = ret[x],
             pc[t] \notin CallPc \cup YieldPc \cup {"o_ret"},
             p \notin CallPc, p # "o_ret", p \in YieldPc => ret'[t] # "o_ret"
      PROVE  \A x \in Task : Stands(x)
    BY <1>2, StandsMoves
<1>3. CASE sleep_loop(t) \/ sleep_block(t) \/ wait_return(t)
    <2>1. HandsOff(k, k')
        <3>1. CASE k' = k
            BY <1>0, <3>1
        <3>2. CASE k' # k
            <4>1. sleep_block(t) /\ k' = Asleep(k, t, reg[t].due)
                BY <1>3, <3>2 DEF sleep_loop, sleep_block, sleep_done, wait_return, Asleep
            <4>2. reg[t].due \in Ticks
                BY DEF TypeInv, TypeOK, Locals
            <4> QED BY <1>0, <4>1, <4>2, HandsOffSleep
        <3> QED BY <3>1, <3>2
    <2>2. /\ pc[t] \in {"sl_loop", "sl_crit", "wq_ret"}
          /\ \E p \in {"run", "y_chk", "sl_crit"} :
                /\ Goto(t, p)
                /\ p = "y_chk" => ret' = [ret EXCEPT ![t] = "sl_loop"]
                /\ p # "y_chk" => ret' = ret
          /\ \/ UNCHANGED reg
             \/ \E l : reg' = [reg EXCEPT ![t].due = l]
        BY <1>3 DEF sleep_loop, sleep_block, sleep_done, wait_return, At, CallYield
    <2>3. PICK p \in {"run", "y_chk", "sl_crit"} :
                /\ Goto(t, p)
                /\ p = "y_chk" => ret' = [ret EXCEPT ![t] = "sl_loop"]
                /\ p # "y_chk" => ret' = ret
        BY <2>2
    <2>4. Moves(t, p)
        BY <2>2, <2>3, RegMoves
    <2>5. /\ \A x \in Task \ {t} : ret'[x] = ret[x]
          /\ pc[t] \notin CallPc \cup YieldPc \cup {"o_ret"}
          /\ p \notin CallPc /\ p # "o_ret"
          /\ p \in YieldPc => ret'[t] # "o_ret"
        BY <1>0, <2>2, <2>3 DEF CallPc, YieldPc
    <2> QED BY <1>2, <2>1, <2>4, <2>5 DEF KernelKeeps
<1>4. ~wake_all_round(t, "wq_all", "OBJECT", "run")
    BY DEF wake_all_round, At, NoWakeAll
<1>5. CASE task_delete_found(t) \/ create_fail(t)
    <2> DEFINE u == reg[t].obj
    <2>1. /\ task_delete_obj(t, u, "run") /\ pc[t] \in {"d_obj", "c_fail"}
          /\ reg' = [reg EXCEPT ![t].obj = None]
          /\ ret' = ret \/ ret' = [ret EXCEPT ![t] = "ecall"]
          /\ u = t /\ task_delete_found(t) => ret' = [ret EXCEPT ![t] = "ecall"]
          /\ create_fail(t) => pc[t] = "c_fail"
        BY <1>5 DEF task_delete_found, create_fail, At, LoopIfSelf
    <2>2. u \in Task
        BY <2>1 DEF TypeInv, LocalsOK, CreatePc
    <2> HIDE DEF u
    <2>3. HandsOff(k, k') /\ (Goto(t, "run") \/ (u = t /\ Goto(t, "ecall")))
        BY <1>0, <2>1, <2>2, HandsOffDelete
    <2>4. PICK p \in {"run", "ecall"} : Goto(t, p) /\ (p = "ecall" => u = t)
        BY <2>3
    <2>5. Moves(t, p)
        BY <2>1, <2>4, RegMoves
    <2>6. p \in YieldPc => ret'[t] # "o_ret"
        <3>1. CASE task_delete_found(t)
            BY <1>0, <2>1, <2>4, <3>1 DEF YieldPc
        <3>2. CASE create_fail(t)
            <4>1. reg[t].obj # t
                BY <2>1, <3>2 DEF CreatesOther, CreatePc
            <4> QED BY <2>4, <4>1 DEF YieldPc, u
        <3> QED BY <1>5, <3>1, <3>2
    <2>7. /\ \A x \in Task \ {t} : ret'[x] = ret[x]
          /\ pc[t] \notin CallPc \cup YieldPc \cup {"o_ret"}
          /\ p \notin CallPc /\ p # "o_ret"
        BY <1>0, <2>1, <2>4 DEF CallPc, YieldPc
    <2> QED BY <1>2, <2>3, <2>5, <2>6, <2>7 DEF KernelKeeps
<1>6. CASE task_create_step(t) /\ ~create_fail(t)
    <2>1. /\ pc[t] \in CreatePc
          /\ \E p \in CreatePc \cup {"run"} : Goto(t, p)
          /\ ret' = ret
        BY <1>6 DEF task_create_step, create_link, mask_load, mask_store, count_load,
            count_store, create_handle, create_set_handle, At, CreatePc
    <2>2. reg[t].obj \in Task
        BY <2>1 DEF TypeInv, LocalsOK
    <2>3. HandsOff(k, k')
        <3>1. k' = k \/ k' = ready_link(k, reg[t].obj) \/ \E m : k' = [k EXCEPT !.mask = m]
            BY <1>6 DEF task_create_step, create_link, mask_load, mask_store, count_load,
                count_store, create_handle, create_set_handle
        <3> QED BY <1>0, <2>2, <3>1
    <2>4. PICK p \in CreatePc \cup {"run"} : Goto(t, p)
        BY <2>1
    <2>5. \/ UNCHANGED reg
          \/ \E l : reg' = [reg EXCEPT ![t].mask = l]
          \/ \E l : reg' = [reg EXCEPT ![t].count = l]
          \/ \E l : reg' = [reg EXCEPT ![t].h = l]
          \/ \E l : reg' = [reg EXCEPT ![t] = l]
        BY <1>6 DEF task_create_step, create_link, mask_load, mask_store, count_load,
            count_store, create_handle, create_set_handle
    <2>6. Moves(t, p)
        BY <2>4, <2>5, RegMoves
    <2>7. /\ pc[t] \notin CallPc \cup YieldPc \cup {"o_ret"}
          /\ p \notin CallPc /\ p # "o_ret" /\ p \notin YieldPc
        BY <2>1, <2>4 DEF CallPc, YieldPc, CreatePc
    <2> QED BY <1>2, <2>1, <2>3, <2>6, <2>7 DEF KernelKeeps
<1>7. CASE t = Idle /\ (cleanup_pop \/ idle_enable)
    <2>1. /\ pc[t] \in IdlePc /\ ret' = ret
          /\ \E p \in IdlePc : Goto(t, p)
          /\ \/ UNCHANGED reg
             \/ \E l : reg' = [reg EXCEPT ![t].obj = l]
          /\ k' = k \/ k' = PopDeleted(k)
        BY <1>7 DEF cleanup_pop, idle_enable, At, IdlePc, PopDeleted
    <2>2. PICK p \in IdlePc : Goto(t, p)
        BY <2>1
    <2>3. Moves(t, p)
        BY <2>1, <2>2, RegMoves
    <2>4. k'.wq = k.wq /\ k'.wres = k.wres
        BY <1>0, <2>1 DEF PopDeleted, Scheduler
    <2>5. HandsOff(k, k')
        BY <2>4, HandsOffSame
    <2>6. /\ pc[t] \notin CallPc \cup YieldPc \cup {"o_ret"}
          /\ p \notin CallPc /\ p # "o_ret" /\ p \notin YieldPc
        BY <2>1, <2>2 DEF CallPc, YieldPc, IdlePc
    <2> QED BY <1>2, <2>1, <2>3, <2>5, <2>6 DEF KernelKeeps
<1>8. CASE t = Idle /\ cleanup_free
    <2>0. PICK u : u = reg[Idle].obj
        OBVIOUS
    <2>1. /\ pc[Idle] = "i_free" /\ k' = Freed(k, u)
          /\ pc' = [pc EXCEPT ![Idle] = "i_clean", ![u] = "run"]
          /\ ret' = [ret EXCEPT ![u] = "run"]
        BY <1>8, <2>0 DEF cleanup_free, At, Freed
    <2>2. u \in Task /\ k.state[u] = "DELETED" /\ Idle \in Task
        BY <2>0, <2>1, SchedAssumption DEF TypeInv, LocalsOK, AlwaysInv, FreeOK
    <2>3. k'.wq = k.wq /\ k'.wres = k.wres
        BY <1>0, <2>1 DEF Freed, Scheduler
    <2>4. HandsOff(k, k')
        BY <2>3, HandsOffSame
    <2>5. /\ \A x \in Task \ {Idle, u} : pc'[x] = pc[x] /\ ret'[x] = ret[x]
          /\ pc'[u] \in {"run", "i_clean"}
          /\ pc'[Idle] \in {"run", "i_clean"}
        BY <1>0, <2>1, <2>2
    <2>6. \A x \in Task : Stands(x)
        <3>1. \A x \in Task \ {Idle, u} : Stands(x)
            BY <2>5 DEF Stands, ObjWait
        <3>2. Stands(u)
            <4>1. pc'[u] \notin CallPc \cup YieldPc \cup {"o_ret"}
                BY <2>5 DEF CallPc, YieldPc
            <4> QED BY <2>2, <4>1 DEF Stands, ObjWait
        <3>3. Stands(Idle)
            <4>1. pc'[Idle] \notin CallPc \cup YieldPc \cup {"o_ret"}
                BY <2>5 DEF CallPc, YieldPc
            <4>2. pc[Idle] \notin CallPc \cup YieldPc \cup {"o_ret"}
                BY <2>1 DEF CallPc, YieldPc
            <4> QED BY <4>1, <4>2 DEF Stands, ObjWait
        <3> QED BY <3>1, <3>2, <3>3
    <2> QED BY <2>4, <2>6 DEF KernelKeeps
<1> QED BY <1>1, <1>3, <1>4, <1>5, <1>6, <1>7, <1>8 DEF KernelStep, idle_step, task_create_step

(* A step of the started kernel, whoever makes it. *)
LEMMA RunKeeps ==
    ASSUME TypeInv, AlwaysInv, CreatesOther, NoWakeAll, ObjectsOnly, [Next]_vars, ~Boot
    PROVE  KernelKeeps
<1> USE DEF taskvars, history
<1>1. /\ k \in Scheduler /\ pc \in [Task -> Pc]
      /\ HandsOff(k, k)
    BY HandsOffSame DEF TypeInv, TypeOK
<1>2. ASSUME NEW t \in Task, AppCall(t) \/ KernelStep(t) PROVE KernelKeeps
    BY <1>2, CallKeeps, StepKeeps
<1>3. CASE Systick \/ Irq
    <2>1. k' = k /\ ret' = ret /\ Interrupted
        BY <1>3 DEF Systick, SysTick, Irq, ObjectsOnly
    <2>2. pc' = pc \/ (pc[k.current] = "i_wfi" /\ pc' = [pc EXCEPT ![k.current] = "i_clean"])
        BY <2>1 DEF Interrupted
    <2>3. \A x \in Task : pc'[x] = pc[x] \/ (pc[x] = "i_wfi" /\ pc'[x] = "i_clean")
        BY <1>1, <2>2
    <2>4. \A x \in Task : Stands(x)
        BY <2>1, <2>3 DEF Stands, ObjWait, CallPc, YieldPc
    <2> QED BY <1>1, <2>1, <2>4 DEF KernelKeeps
<1>4. CASE sched_wake_expired
    <2>1. pc' = pc /\ ret' = ret /\ k.timeout # <<>> /\ k' = sched_wake_expired_one(k)
        BY <1>4 DEF sched_wake_expired, HeadExpired
    <2> QED BY <1>1, <2>1, HandsOffExpired, StandsStill DEF KernelKeeps
<1>5. CASE TrapReturn
    <2>1. pc' = pc /\ ret' = ret
        BY <1>5 DEF TrapReturn
    <2>2. k'.wq = k.wq /\ k'.wres = k.wres
        BY <1>5, TrapChosen DEF Chosen, Turn
    <2> QED BY <2>1, <2>2, HandsOffSame, StandsStill DEF KernelKeeps
<1>6. CASE UNCHANGED vars
    <2>1. k' = k /\ pc' = pc /\ ret' = ret
        BY <1>6 DEF vars
    <2> QED BY <1>1, <2>1, StandsStill DEF KernelKeeps
<1> QED BY <1>2, <1>3, <1>4, <1>5, <1>6 DEF Next, TrapStep, CorruptLoop

-----------------------------------------------------------------------------

-----------------------------------------------------------------------------

(* t blocks in an operation of an object. *)
WaitsOn(t, q, timed) ==
    /\ Runs(t)
    /\ pc[t] = "o_op"
    /\ ~sched_is_locked(k)
    /\ timed => call[t].d \in Nat
    /\ BlockOn(t, q, timed)

(* A caller that blocks is running, holds no lock and is put on one queue. *)
LEMMA WaitsOnFacts ==
    ASSUME KernelInv, NEW t \in Task, NEW q \in WaitQ, NEW timed \in BOOLEAN, WaitsOn(t, q, timed)
    PROVE  /\ k' \in Scheduler /\ BlocksOrderly(k, k', t, {q})
           /\ k.state[t] = "RUNNING" /\ t # Idle /\ boot = "done" /\ boot' = boot
           /\ ~(k.lock > 0) /\ k'.wres[t] = "NONE"
<1> USE DEF taskvars, KernelInv
<1>1. /\ k \in Scheduler /\ Orderly(k) /\ boot = "done" /\ IsCurrent(k, t) /\ RunsAt(t)
      /\ t # Idle /\ tick \in Ticks
    <2>1. t = Idle => pc[t] \in IdlePc
        BY AlwaysFacts DEF WaitsOn
    <2> QED BY <2>1, AlwaysFacts DEF WaitsOn, IsCurrent, IdlePc, TypeInv, TypeOK
<1>2. k.state[t] = "RUNNING" /\ ~BlockRefused(k)
    BY <1>1, SchedAssumption DEF WaitsOn, RunsAt, LinkPc, BlockRefused, IsCurrent
<1>3. ~(k.lock > 0) /\ boot' = boot
    BY DEF WaitsOn, sched_is_locked, BlockOn
<1>4. CASE timed
    <2>1. k' = trt_wait_q_block_ticks_locked(k, q, call[t].d, tick) /\ call[t].d \in Nat
        BY <1>4 DEF WaitsOn, BlockOn
    <2> DEFINE d == call[t].d
    <2> HIDE DEF d
    <2>2. k' = trt_wait_q_block_ticks_locked(k, q, d, tick) /\ d \in Nat
        BY <2>1 DEF d
    <2>3. BlocksOrderly(k, k', t, {q})
        BY <1>1, <1>2, <2>2, TimedBlockOrderly
    <2>4. BlocksOnTime(k, k', t)
        BY <1>1, <1>2, <2>2, TimedWaitBlocks
    <2>5. k' \in Scheduler
        BY <1>1, <2>2, WaitQueueType
    <2> QED BY <1>1, <1>2, <1>3, <2>3, <2>4, <2>5 DEF BlocksOnTime
<1>5. CASE ~timed
    <2>1. k' = trt_wait_q_block_locked(k, q)
        BY <1>5 DEF WaitsOn, BlockOn
    <2>2. BlocksOrderly(k, k', t, {q})
        BY <1>1, <1>2, <2>1, WaitBlockOrderly
    <2>3. k' \in Scheduler /\ k'.wres[t] = "NONE"
        <3>1. k \in Scheduler /\ IsCurrent(k, t) /\ ~BlockRefused(k)
            BY <1>1, <1>2
        <3>2. /\ k' \in Scheduler
              /\ k'.state = [k.state EXCEPT ![t] = "BLOCKED"]
              /\ k'.wres = [k.wres EXCEPT ![t] = "NONE"]
              /\ k'.timer = [k.timer EXCEPT ![t] = FALSE]
              /\ k'.wakeup = k.wakeup
            BY <2>1, <3>1, WaitBlocks
        <3>3. k.wres \in [Task -> WaitResult]
            BY <1>1 DEF Scheduler
        <3> QED BY <3>2, <3>3
    <2> QED BY <1>1, <1>2, <1>3, <2>2, <2>3
<1> QED BY <1>4, <1>5

(* The kernel below a call that blocks. *)
LEMMA WaitsOnKernel ==
    ASSUME KernelInv, NEW t \in Task, NEW q \in WaitQ, NEW timed \in BOOLEAN, WaitsOn(t, q, timed)
    PROVE  KernelInv'
<1> USE DEF taskvars, KernelInv
<1>1. /\ k' \in Scheduler /\ BlocksOrderly(k, k', t, {q})
      /\ k.state[t] = "RUNNING" /\ t # Idle /\ boot = "done" /\ boot' = boot
      /\ ~(k.lock > 0)
    BY WaitsOnFacts
<1>2. /\ Runs(t) /\ CallYield(t, "o_ret") /\ Goto(t, "y_chk") /\ reg' = reg
      /\ ret' = [ret EXCEPT ![t] = "o_ret"]
    BY DEF WaitsOn, BlockOn, CallYield
<1>3. Moves(t, "y_chk")
    BY <1>2, RegMoves
<1>4. (\A x \in Task \ {t} : ret'[x] = ret[x]) /\ ret'[t] = "o_ret"
    BY <1>2 DEF TypeInv, TypeOK
<1>5. AlwaysInv'
    <2>1. {q} \cap WaitQ # {}
        OBVIOUS
    <2>2. Advances
        BY <1>1, <1>2, <1>3, <1>4, <2>1, BlockAlways
    <2> QED BY <2>2 DEF Advances
<1>6. TypeInv'
    <2>1. pc' \in [Task -> Pc] /\ ret' \in [Task -> RetPc] /\ LocalsOK'
        <3>1. "o_ret" \in RetPc
            BY DEF RetPc
        <3> QED BY <1>2, <3>1, CallYieldType
    <2>2. left' \in [Task -> Nat]
        BY DEF WaitsOn, BlockOn, TypeInv, TypeOK
    <2>3. /\ tick' = tick /\ trap' = trap /\ boot' = boot /\ reg' = reg /\ task_count' = task_count
          /\ hnd' = hnd /\ htab' = htab /\ fault' = fault /\ owed' = owed
        BY DEF WaitsOn, BlockOn
    <2> QED BY <1>1, <2>1, <2>2, <2>3 DEF TypeInv, TypeOK
<1>7. CreatesOther'
    <2>1. "y_chk" \notin CreatePc
        BY DEF CreatePc
    <2> QED BY <1>3, <2>1, OtherCreates DEF Moves
<1> QED BY <1>1, <1>5, <1>6, <1>7 DEF BootLists

(* An interrupt handler works on an object. *)
IsrWakes == Interrupted /\ trap' = "irq" /\ HandlerWakes /\ UNCHANGED objvars

-----------------------------------------------------------------------------

(* The objects.  Answers, TriesAgain, Waits: what the second critical      *)
(* sections of the three kinds of objects have in common.                  *)

(* The call of t returns, with or without having woken a task. *)
Answers(t) ==
    /\ At(t, "o_op") \/ At(t, "o_ret")
    /\ Return(t)
    /\ Wakes
    /\ UNCHANGED <<tick, trap, boot, ret, reg, taskvars, left, owed, obj>>
    /\ fault' \in {fault, fault \cup {"uaf"}}

(* It was woken and goes back to the start of its loop. *)
TriesAgain(t) ==
    /\ At(t, "o_ret")
    /\ Goto(t, "o_op")
    /\ call' = [call EXCEPT ![t].woken = TRUE]
    /\ UNCHANGED <<k, tick, trap, boot, ret, reg, taskvars, history, obj>>

(* It blocks on one of the wait queues of its object. *)
Waits(t) ==
    \E o \in Obj : \E i \in DOMAIN Queues[o], timed \in BOOLEAN :
        /\ call[t].o = o
        /\ Usable(o)
        /\ WaitsOn(t, Queues[o][i], timed)

LookupStep ==
    \E t \in Task, o \in Obj, op \in ObjOps, d \in Delays \cup {0, None} : Lookup(t, o, op, d)

UseStep(t) == Answers(t) \/ TriesAgain(t) \/ Waits(t)

DestroyStep(t) ==
    \/ \E o \in Obj : Destroy(t, o)
    \/ WakeDestroyed(t)
    \/ Close(t)
    \/ Free(t)

(* A step of the kernel or of an object that is not a new call. *)
GoesOn ==
    \/ [Next]_vars /\ UNCHANGED objvars
    \/ \E o \in Obj : Create(o)
    \/ \E t \in Task : UseStep(t) \/ DestroyStep(t)
    \/ IsrWakes

ObjectStep == LookupStep \/ GoesOn

-----------------------------------------------------------------------------
(* The invariant: nobody refers to a free block, an object is destroyed by *)
(* one task, waiters are gone before the handle is closed, and while they  *)
(* are woken nothing else runs.                                            *)
Destroys(x) == pc[x] \in {"o_wake", "o_close", "o_free"}

CallAt(x) ==
    /\ pc[x] # "wq_all"
    /\ call[x].o # None => obj[call[x].o].alloc
    /\ Destroys(x) => call[x].o # None /\ obj[call[x].o].destroyed
    /\ pc[x] \in {"o_close", "o_free"} => ~HasWaiters(call[x].o)
    /\ pc[x] = "o_wake" => Runs(x) /\ HasWaiters(call[x].o)

OneDestroyer ==
    \A x, y \in Task : Destroys(x) /\ Destroys(y) /\ call[x].o = call[y].o => x = y

LiveObjects == \A o \in Obj : obj[o].open \/ obj[o].destroyed => obj[o].alloc

CallRecord == [op : ObjOps \cup {"none"}, o : Obj \cup {None},
               d : Delays \cup {0, None}, woken : BOOLEAN]

ObjectData ==
    /\ obj \in [Obj -> [alloc : BOOLEAN, open : BOOLEAN, destroyed : BOOLEAN]]
    /\ call \in [Task -> CallRecord]

ObjectInv ==
    /\ KernelInv
    /\ ObjectData
    /\ \A x \in Task : CallAt(x)
    /\ OneDestroyer
    /\ LiveObjects
    /\ FreedHasNoWaiter

(* The wait queues of an object. *)
LEMMA QueuesType ==
    ASSUME NEW o \in Obj, NEW i \in DOMAIN Queues[o]
    PROVE  Queues[o][i] \in WaitQ
BY ObjectAssumption

(* No wait queue gets a waiter, so no object does. *)
LEMMA FewerWaiters ==
    ASSUME \A w \in WaitQ : k'.wq[w] # <<>> => k.wq[w] # <<>>
    PROVE  \A o \in Obj : HasWaiters(o)' => HasWaiters(o)
BY QueuesType DEF HasWaiters

(* The woken tasks and those of the other steps are not in the way of a    *)
(* task that is about to destroy.                                          *)
LEMMA CallKept ==
    ASSUME ObjectInv, NEW x \in Task, pc'[x] = pc[x] \/ pc'[x] \notin CallPc,
           pc'[x] # "o_wake", call'[x].o = call[x].o,
           call[x].o # None => obj'[call[x].o].alloc,
           Destroys(x) => obj'[call[x].o].destroyed,
           \A p \in Obj : obj[p].destroyed /\ HasWaiters(p)' => HasWaiters(p)
    PROVE  CallAt(x)'
<1>1. CallAt(x) /\ call[x].o \in Obj \cup {None}
    BY DEF ObjectInv, ObjectData, CallRecord
<1>2. Destroys(x)' => Destroys(x) /\ pc'[x] = pc[x]
    BY DEF Destroys, CallPc
<1>3. pc'[x] # "wq_all"
    BY <1>1 DEF CallAt, CallPc
<1>4. ASSUME pc'[x] \in {"o_close", "o_free"} PROVE ~HasWaiters(call[x].o)'
    <2>1. pc[x] \in {"o_close", "o_free"} /\ Destroys(x)
        BY <1>2, <1>4 DEF Destroys
    <2>2. PICK p \in Obj : p = call[x].o
        BY <1>1, <2>1 DEF CallAt
    <2>3. obj[p].destroyed /\ ~HasWaiters(p)
        BY <1>1, <2>1, <2>2 DEF CallAt
    <2>4. ~HasWaiters(p)' /\ call'[x].o = p
        BY <2>2, <2>3
    <2> QED BY <2>4 DEF HasWaiters
<1> QED BY <1>1, <1>2, <1>3, <1>4 DEF CallAt

-----------------------------------------------------------------------------

(* The kernel has no code at the places of a call of an object. *)
LEMMA StepPlace ==
    ASSUME NEW t \in Task, AppCall(t) \/ KernelStep(t)
    PROVE  pc[t] \notin ObjectPc
<1>1. CASE AppCall(t)
    BY <1>1 DEF AppCall, task_yield, task_sleep, sched_lock, sched_unlock, trt_wait_q_block,
        trt_wait_q_block_ticks, trt_wait_q_wake_one, trt_wait_q_wake_all, task_delete,
        task_exit, task_create, Call, At, ObjectPc
<1>2. CASE KernelStep(t)
    BY <1>2 DEF KernelStep, task_yield_step, yield_check, yield_link, mask_load,
        mask_store, arch_yield, sleep_loop, sleep_block, wait_return, wake_all_round,
        task_delete_found, task_create_step, create_link, count_load, count_store,
        create_handle, create_set_handle, create_fail, idle_step, cleanup_pop,
        cleanup_free, idle_enable, At, ObjectPc
<1> QED BY <1>1, <1>2

(* Interrupts are off while waiters are woken. *)
LEMMA WakingStill ==
    ASSUME ObjectInv, NEW x \in Task, pc[x] = "o_wake"
    PROVE  /\ [Next]_vars => UNCHANGED vars
           /\ ~Interrupted
           /\ \A t \in Task : Runs(t) => t = x
           /\ boot = "done"
<1>1. Runs(x) /\ TypeInv /\ AlwaysInv
    BY DEF ObjectInv, CallAt, KernelInv
<1>2. boot = "done" /\ k.current = x /\ trap = "none" /\ ~k.corrupt
    BY <1>1, AlwaysFacts DEF Runs
<1>3. ~CanInterrupt /\ ~Interrupted
    BY <1>2 DEF CanInterrupt, Interrupted, Masked
<1>4. \A t \in Task : Runs(t) => t = x
    BY <1>2 DEF Runs
<1>5. ~Boot
    BY <1>2 DEF Boot, kernel_init, app_main_create, app_main_object, rtos_start
<1>6. \A t \in Task : ~(AppCall(t) \/ KernelStep(t))
    BY <1>4, StepRuns, StepPlace DEF ObjectPc
<1>7. ~Systick /\ ~Irq
    BY <1>3 DEF Systick, SysTick, Irq
<1>8. ~TrapStep
    BY <1>2 DEF TrapStep, sched_wake_expired, TrapReturn
<1>9. ~CorruptLoop
    BY <1>2 DEF CorruptLoop
<1> QED BY <1>2, <1>3, <1>4, <1>5, <1>6, <1>7, <1>8, <1>9 DEF Next

(* The data of the objects while nothing happens to them. *)
LEMMA SameObjects ==
    ASSUME ObjectInv, KernelInv', UNCHANGED objvars, \A x \in Task : CallAt(x)',
           \A x \in Task : Destroys(x)' => Destroys(x),
           \A o \in Obj : ~obj[o].alloc /\ HasWaiters(o)' => HasWaiters(o)
    PROVE  ObjectInv'
<1>1. ObjectData' /\ LiveObjects'
    BY DEF ObjectInv, objvars, ObjectData, LiveObjects
<1>2. OneDestroyer'
    BY DEF ObjectInv, objvars, OneDestroyer
<1>3. FreedHasNoWaiter'
    BY DEF ObjectInv, objvars, FreedHasNoWaiter
<1> QED BY <1>1, <1>2, <1>3 DEF ObjectInv

(* What the kernel does on its own to the waiters and the calls. *)
Drains == \A w \in WaitQ : k'.wq[w] # <<>> => k.wq[w] # <<>>

(* A step of the running kernel alone. *)
LEMMA KernelRuns ==
    ASSUME ObjectInv, ObjectsOnly, [Next]_vars, ~Boot
    PROVE  KernelKeeps
<1>1. KernelInv /\ KernelInv' /\ k \in Scheduler
    BY KernelNext DEF ObjectInv, KernelInv, TypeInv, TypeOK
<1>2. CASE UNCHANGED vars
    <2>1. pc' = pc /\ ret' = ret /\ k' = k
        BY <1>2 DEF vars
    <2>2. HandsOff(k, k')
        BY <1>1, <2>1, HandsOffSame
    <2> QED BY <2>1, <2>2, StandsStill DEF KernelKeeps
<1>3. CASE ~UNCHANGED vars
    <2>1. NoWakeAll
        BY DEF ObjectInv, CallAt, NoWakeAll
    <2> QED BY <1>1, <2>1, RunKeeps DEF KernelInv
<1> QED BY <1>2, <1>3

(* A step of the kernel alone fills no wait queue of an object. *)
LEMMA KernelDrains ==
    ASSUME ObjectInv, ObjectsOnly, [Next]_vars
    PROVE  Drains /\ \A x \in Task : pc'[x] \in CallPc => pc'[x] = pc[x]
<1>1. KernelInv /\ KernelInv' /\ k \in Scheduler /\ k' \in Scheduler /\ pc \in [Task -> Pc]
    BY KernelNext DEF ObjectInv, KernelInv, TypeInv, TypeOK
<1>2. CASE ~Boot
    <2>1. KernelKeeps
        BY <1>2, KernelRuns
    <2>2. Drains
        BY <1>1, <2>1, LeavesEmpty DEF KernelKeeps, HandsOff, Drains
    <2> QED BY <2>1, <2>2 DEF KernelKeeps, Stands
<1>3. CASE Boot
    <2>1. boot # "done"
        BY <1>3 DEF Boot, kernel_init, app_main_create, app_main_object, rtos_start
    <2>2. \A w \in WaitQ : k'.wq[w] = <<>>
        BY <1>1, <1>3, <2>1, BootNoWaiter DEF KernelInv, BootLists, AlwaysInv
    <2>3. pc' = pc \/ pc' = [pc EXCEPT ![Idle] = "i_clean"]
        BY <1>3 DEF Boot, kernel_init, app_main_create, app_main_object, rtos_start
    <2>4. \A x \in Task : pc'[x] = pc[x] \/ pc'[x] = "i_clean"
        BY <1>1, <2>3
    <2> QED BY <2>2, <2>4 DEF CallPc, Drains
<1> QED BY <1>2, <1>3

(* The objects below a step of the kernel alone. *)
LEMMA KernelObjects ==
    ASSUME ObjectInv, ObjectsOnly, [Next]_vars, UNCHANGED objvars
    PROVE  ObjectInv'
<1>1. KernelInv /\ KernelInv' /\ call' = call /\ obj' = obj
    BY KernelNext DEF ObjectInv, objvars
<1>2. CASE UNCHANGED vars
    <2>1. /\ pc' = pc /\ k' = k /\ trap' = trap
        BY <1>2 DEF vars
    <2>2. \A o : HasWaiters(o)' <=> HasWaiters(o)
        BY <2>1 DEF HasWaiters
    <2>3. \A x \in Task : CallAt(x)' /\ (Destroys(x)' => Destroys(x))
        BY <1>1, <2>1, <2>2 DEF ObjectInv, CallAt, Destroys, Runs, HasWaiters
    <2> QED BY <1>1, <2>2, <2>3, SameObjects
<1>3. CASE ~UNCHANGED vars
    <2>1. \A x \in Task : pc[x] # "o_wake" /\ pc[x] # "wq_all"
        BY <1>3, WakingStill DEF ObjectInv, CallAt
    <2>2. Drains /\ \A x \in Task : pc'[x] \in CallPc => pc'[x] = pc[x]
        BY KernelDrains
    <2>3. \A o \in Obj : HasWaiters(o)' => HasWaiters(o)
        BY <2>2, FewerWaiters DEF Drains
    <2>4. \A x \in Task : Destroys(x)' => Destroys(x)
        BY <2>2 DEF Destroys, CallPc
    <2>5. ASSUME NEW x \in Task PROVE CallAt(x)'
        <3>1. pc'[x] = pc[x] \/ pc'[x] \notin CallPc
            BY <2>2
        <3>2. pc'[x] # "o_wake"
            BY <2>1, <2>2 DEF CallPc
        <3>3. CallAt(x)
            BY DEF ObjectInv
        <3> QED BY <1>1, <2>3, <3>1, <3>2, <3>3, CallKept DEF CallAt
    <2> QED BY <1>1, <2>3, <2>4, <2>5, SameObjects
<1> QED BY <1>2, <1>3

-----------------------------------------------------------------------------

(* The task that runs and its place. *)
LEMMA CallerFacts ==
    ASSUME ObjectInv, NEW t \in Task, Runs(t), pc[t] \in ObjectPc
    PROVE  /\ t # Idle /\ KernelInv /\ k \in Scheduler /\ pc \in [Task -> Pc]
           /\ boot = "done" /\ Orderly(k) /\ CallAt(t)
           /\ call \in [Task -> CallRecord]
           /\ pc[t] # "o_wake" => \A x \in Task : pc[x] # "o_wake"
<1>1. KernelInv /\ TypeInv /\ AlwaysInv
    BY DEF ObjectInv, KernelInv
<1>2. (t = Idle => pc[t] \in IdlePc) /\ boot = "done" /\ k \in Scheduler /\ Orderly(k)
    BY <1>1, AlwaysFacts
<1>3. t # Idle
    BY <1>2 DEF IdlePc, ObjectPc
<1>4. pc \in [Task -> Pc]
    BY <1>1 DEF TypeInv, TypeOK
<1>5. ASSUME NEW x \in Task, pc[x] = "o_wake", pc[t] # "o_wake" PROVE FALSE
    BY <1>5, WakingStill
<1> QED BY <1>1, <1>2, <1>3, <1>4, <1>5 DEF ObjectInv, ObjectData

(* A task moves on in its call, or enters or leaves it; the objects stay.  *)
LEMMA MovesOnObjects ==
    ASSUME ObjectInv, NEW t \in Task, NEW p \in {"run", "o_op"}, Onward(t, p), Goto(t, p),
           \A x \in Task : pc[x] # "o_wake",
           NEW c \in CallRecord, call' = [call EXCEPT ![t] = c], obj' = obj,
           c.o = None \/ c.o = call[t].o \/ (c.o \in Obj /\ obj[c.o].open)
    PROVE  ObjectInv'
<1>1. /\ KernelInv /\ k \in Scheduler /\ pc \in [Task -> Pc] /\ Orderly(k)
      /\ call \in [Task -> CallRecord]
    BY DEF ObjectInv, ObjectData, KernelInv, TypeInv, TypeOK, AlwaysInv
<1>4. KernelInv'
    BY <1>1, OnwardKernel DEF OnwardPc
<1>5. \A o \in Obj : HasWaiters(o)' => HasWaiters(o)
    BY <1>1, WakesTame, FewerWaiters DEF Onward
<1>6. /\ pc'[t] = p /\ \A x \in Task \ {t} : pc'[x] = pc[x] /\ call'[x] = call[x]
      /\ call'[t] = c /\ obj' = obj
    BY <1>1 DEF Goto
<1>7. ASSUME NEW x \in Task PROVE CallAt(x)'
    <2>1. CallAt(x) /\ CallAt(t)
        BY DEF ObjectInv
    <2>2. CASE x = t
        <3>1. pc'[t] \in {"run", "o_op"} /\ call'[t].o = c.o
            BY <1>6
        <3>2. c.o # None => obj[c.o].alloc
            BY <2>1 DEF CallAt, ObjectInv, LiveObjects
        <3> QED BY <1>6, <2>2, <3>1, <3>2 DEF CallAt, Destroys
    <2>3. CASE x # t
        <3>1. pc'[x] = pc[x] /\ pc'[x] # "o_wake" /\ call'[x].o = call[x].o
            BY <1>1, <1>6, <2>3
        <3> QED BY <1>5, <1>6, <2>1, <3>1, CallKept DEF CallAt
    <2> QED BY <2>2, <2>3
<1>8. \A x \in Task : Destroys(x)' => Destroys(x) /\ x # t
    BY <1>6 DEF Destroys
<1>9. OneDestroyer' /\ LiveObjects' /\ FreedHasNoWaiter'
    <2>1. OneDestroyer'
        BY <1>6, <1>8 DEF ObjectInv, OneDestroyer
    <2>2. LiveObjects' /\ FreedHasNoWaiter'
        BY <1>5, <1>6 DEF ObjectInv, LiveObjects, FreedHasNoWaiter
    <2> QED BY <2>1, <2>2
<1>10. ObjectData'
    BY <1>1, <1>6 DEF ObjectInv, ObjectData
<1> QED BY <1>4, <1>7, <1>9, <1>10 DEF ObjectInv

(* A task looks up a handle, its call returns, or tries again. *)
LEMMA UseObjects ==
    ASSUME ObjectInv, NEW t \in Task,
           \/ \E o \in Obj, op \in ObjOps, d \in Delays \cup {0, None} : Lookup(t, o, op, d)
           \/ Answers(t)
           \/ TriesAgain(t)
    PROVE  ObjectInv'
<1> USE DEF taskvars, history
<1>1. /\ KernelInv /\ k \in Scheduler /\ pc \in [Task -> Pc] /\ boot = "done" /\ Orderly(k)
      /\ call \in [Task -> CallRecord]
      /\ \A x \in Task : pc[x] # "o_wake"
      /\ t # Idle /\ Runs(t) /\ pc[t] \in {"run", "o_op", "o_ret"}
    <2>1. Runs(t) /\ pc[t] \in {"run", "o_op", "o_ret"} /\ (pc[t] = "run" => t # Idle)
        BY DEF Lookup, Answers, TriesAgain, At
    <2>2. CASE pc[t] = "run"
        <3>1. \A x \in Task : pc[x] # "o_wake"
            BY <2>1, <2>2, WakingStill
        <3> QED BY <2>1, <2>2, <3>1, AlwaysFacts
                DEF ObjectInv, ObjectData, KernelInv, TypeInv, TypeOK
    <2>3. CASE pc[t] # "run"
        <3>1. pc[t] \in ObjectPc /\ pc[t] # "o_wake"
            BY <2>1, <2>3 DEF ObjectPc
        <3> QED BY <2>1, <3>1, CallerFacts
    <2> QED BY <2>2, <2>3
<1>2. ASSUME NEW o \in Obj, NEW op \in ObjOps, NEW d \in Delays \cup {0, None},
             Lookup(t, o, op, d)
      PROVE  ObjectInv'
    <2> DEFINE c == [op |-> op, o |-> o, d |-> d, woken |-> FALSE]
    <2>1. /\ obj' = obj /\ Goto(t, "o_op") /\ call' = [call EXCEPT ![t] = c] /\ obj[o].open
          /\ k' = k /\ ret' = ret /\ fault' = fault
          /\ UNCHANGED <<tick, trap, boot, reg, taskvars, left, owed>>
        BY <1>2 DEF Lookup
    <2>2. c \in CallRecord /\ c.o = o
        BY DEF CallRecord
    <2> HIDE DEF c
    <2>3. Onward(t, "o_op")
        <3>1. pc[t] \in ObjectPc \cup {"run"}
            BY <1>1 DEF ObjectPc
        <3>2. Wakes /\ "o_op" # "y_chk"
            BY <2>1 DEF Wakes
        <3> QED BY <1>1, <2>1, <3>1, <3>2 DEF Onward
    <2> QED BY <1>1, <2>1, <2>2, <2>3, MovesOnObjects
<1>3. CASE Answers(t)
    <2>1. /\ obj' = obj /\ Goto(t, "run") /\ call' = [call EXCEPT ![t] = NoCall]
          /\ ret' = ret /\ Wakes /\ fault' \in {fault, fault \cup {"uaf"}}
          /\ UNCHANGED <<tick, trap, boot, reg, taskvars, left, owed>>
        BY <1>3 DEF Answers, Return
    <2>3. Onward(t, "run")
        <3>1. pc[t] \in ObjectPc \cup {"run"}
            BY <1>1 DEF ObjectPc
        <3>2. "run" # "y_chk"
            OBVIOUS
        <3> QED BY <1>1, <2>1, <3>1, <3>2 DEF Onward
    <2>2. NoCall \in CallRecord /\ NoCall.o = None
        BY DEF NoCall, CallRecord
    <2> QED BY <1>1, <2>1, <2>2, <2>3, MovesOnObjects
<1>4. CASE TriesAgain(t)
    <2> DEFINE c == [call[t] EXCEPT !.woken = TRUE]
    <2>1. /\ obj' = obj /\ Goto(t, "o_op") /\ call' = [call EXCEPT ![t] = c]
          /\ k' = k /\ ret' = ret /\ fault' = fault
          /\ UNCHANGED <<tick, trap, boot, reg, taskvars, left, owed>>
        BY <1>4 DEF TriesAgain
    <2>2. c \in CallRecord /\ c.o = call[t].o
        BY <1>1 DEF CallRecord
    <2>3. Onward(t, "o_op")
        <3>1. pc[t] \in ObjectPc \cup {"run"}
            BY <1>1 DEF ObjectPc
        <3>2. Wakes /\ "o_op" # "y_chk"
            BY <2>1 DEF Wakes
        <3> QED BY <1>1, <2>1, <3>1, <3>2 DEF Onward
    <2> HIDE DEF c
    <2> QED BY <1>1, <2>1, <2>2, <2>3, MovesOnObjects
<1> QED BY <1>2, <1>3, <1>4

-----------------------------------------------------------------------------

(* A task blocks in the call of an object that is not being destroyed. *)
LEMMA WaitObjects ==
    ASSUME ObjectInv, NEW t \in Task, Waits(t)
    PROVE  ObjectInv'
<1>1. PICK o \in Obj : \E i \in DOMAIN Queues[o], timed \in BOOLEAN :
                         call[t].o = o /\ Usable(o) /\ WaitsOn(t, Queues[o][i], timed)
    BY DEF Waits
<1>2. PICK i \in DOMAIN Queues[o], timed \in BOOLEAN :
            call[t].o = o /\ Usable(o) /\ WaitsOn(t, Queues[o][i], timed)
    BY <1>1
<1>3. PICK q \in WaitQ : q = Queues[o][i]
    BY QueuesType
<1>4. KernelInv /\ Runs(t) /\ pc[t] = "o_op" /\ Goto(t, "y_chk") /\ UNCHANGED objvars
      /\ pc \in [Task -> Pc]
    BY <1>2 DEF ObjectInv, KernelInv, TypeInv, TypeOK, WaitsOn, BlockOn, CallYield
<1>5. KernelInv' /\ BlocksOrderly(k, k', t, {q})
    BY <1>2, <1>3, <1>4, WaitsOnFacts, WaitsOnKernel
<1>6. \A x \in Task : pc[x] # "o_wake"
    BY <1>4, CallerFacts DEF ObjectPc
<1>7. \A x \in Task : pc'[x] = pc[x] \/ pc'[x] = "y_chk"
    BY <1>4 DEF Goto
<1>8. ASSUME NEW p \in Obj, p # o, HasWaiters(p)' PROVE HasWaiters(p)
    <2>1. PICK j \in DOMAIN Queues[p] : k'.wq[Queues[p][j]] # <<>>
        BY <1>8 DEF HasWaiters
    <2>2. Queues[p][j] \in WaitQ \ {q}
        BY <1>3, <1>8, QueuesType, ObjectAssumption
    <2>3. k.wq[Queues[p][j]] # <<>>
        BY <1>5, <2>1, <2>2 DEF BlocksOrderly
    <2> QED BY <2>3 DEF HasWaiters
<1>9. obj' = obj /\ call' = call /\ ~obj[o].destroyed /\ obj[o].alloc
    BY <1>2, <1>4 DEF objvars, Usable
<1>10. ASSUME NEW x \in Task PROVE CallAt(x)'
    <2>1. CallAt(x)
        BY DEF ObjectInv
    <2>2. pc'[x] = pc[x] \/ pc'[x] \notin CallPc
        BY <1>7 DEF CallPc
    <2>3. pc'[x] # "o_wake"
        BY <1>6, <1>7
    <2>4. \A p \in Obj : obj[p].destroyed /\ HasWaiters(p)' => HasWaiters(p)
        BY <1>8, <1>9
    <2> QED BY <1>9, <2>1, <2>2, <2>3, <2>4, CallKept DEF CallAt
<1>11. \A x \in Task : Destroys(x)' => Destroys(x)
    BY <1>7 DEF Destroys
<1>12. \A p \in Obj : ~obj[p].alloc /\ HasWaiters(p)' => HasWaiters(p)
    BY <1>8, <1>9
<1> QED BY <1>4, <1>5, <1>10, <1>11, <1>12, SameObjects

(* A task marks an object as destroyed. *)
LEMMA DestroyObjects ==
    ASSUME ObjectInv, NEW t \in Task, NEW o \in Obj, Destroy(t, o)
    PROVE  ObjectInv'
<1> USE DEF taskvars, history
<1>1. /\ Runs(t) /\ pc[t] = "o_op" /\ call[t].o = o /\ Usable(o)
      /\ obj' = [obj EXCEPT ![o].destroyed = TRUE]
      /\ call' = [call EXCEPT ![t].woken = HasWaiters(o)]
      /\ k' = k /\ trap' = trap
    BY DEF Destroy, Operates, At
<1>2. PICK p \in {"o_wake", "o_close"} : Goto(t, p) /\ (p = "o_wake" <=> HasWaiters(o))
    BY DEF Destroy
<1>3. /\ t # Idle /\ KernelInv /\ pc \in [Task -> Pc] /\ call \in [Task -> CallRecord]
      /\ \A x \in Task : pc[x] # "o_wake"
    BY <1>1, CallerFacts DEF ObjectPc
<1>4. obj \in [Obj -> [alloc : BOOLEAN, open : BOOLEAN, destroyed : BOOLEAN]]
    BY DEF ObjectInv, ObjectData
<1>5. KernelInv'
    <2>1. p \in OnwardPc /\ pc[t] \in ObjectPc
        BY <1>1, <1>2 DEF OnwardPc, ObjectPc
    <2>2. Wakes
        BY <1>1 DEF Wakes
    <2>3. Onward(t, p)
        BY <1>1, <1>2, <1>3, <2>1, <2>2 DEF Onward, Destroy
    <2> QED BY <1>3, <2>1, <2>3, OnwardKernel
<1>6. /\ pc'[t] = p /\ \A x \in Task \ {t} : pc'[x] = pc[x] /\ call'[x] = call[x]
      /\ call'[t].o = o
      /\ \A x \in Task : call'[x].o = call[x].o
    BY <1>1, <1>2, <1>3 DEF Goto, CallRecord
<1>7. /\ obj'[o].alloc /\ obj'[o].destroyed /\ obj'[o].open = obj[o].open
      /\ \A u \in Obj : obj'[u].alloc = obj[u].alloc /\ (obj[u].destroyed => obj'[u].destroyed)
      /\ \A u \in Obj \ {o} : obj'[u] = obj[u]
      /\ ~obj[o].destroyed /\ obj[o].alloc
    BY <1>1, <1>4 DEF Usable
<1>8. \A u \in Obj : HasWaiters(u)' <=> HasWaiters(u)
    BY <1>1 DEF HasWaiters
<1>9. ASSUME NEW x \in Task PROVE CallAt(x)'
    <2>1. CallAt(x) /\ call[x].o \in Obj \cup {None}
        BY <1>3 DEF ObjectInv, CallRecord
    <2>2. CASE x = t
        <3>1. (p = "o_close" => ~HasWaiters(o)') /\ (p = "o_wake" => HasWaiters(o)')
            BY <1>2, <1>8
        <3>2. Runs(t)'
            BY <1>1 DEF Runs
        <3>3. o # None
            BY ObjectAssumption
        <3> QED BY <1>2, <1>6, <1>7, <2>2, <3>1, <3>2, <3>3 DEF CallAt, Destroys, HasWaiters
    <2>3. CASE x # t
        <3>1. pc'[x] = pc[x] /\ pc'[x] # "o_wake" /\ call'[x].o = call[x].o
            BY <1>3, <1>6, <2>3
        <3>2. call[x].o # None => obj'[call[x].o].alloc
            BY <1>7, <2>1 DEF CallAt
        <3>3. Destroys(x) => obj'[call[x].o].destroyed
            BY <1>7, <2>1 DEF CallAt
        <3>4. \A u \in Obj : obj[u].destroyed /\ HasWaiters(u)' => HasWaiters(u)
            BY <1>8
        <3> QED BY <3>1, <3>2, <3>3, <3>4, CallKept
    <2> QED BY <2>2, <2>3
<1>10. OneDestroyer'
    <2>1. \A x \in Task : Destroys(x) => call[x].o # o
        BY <1>7 DEF ObjectInv, CallAt
    <2>2. \A x \in Task : Destroys(x)' => x = t \/ (Destroys(x) /\ x # t)
        BY <1>6 DEF Destroys
    <2>3. SUFFICES ASSUME NEW x \in Task, NEW y \in Task, Destroys(x)', Destroys(y)',
                          call'[x].o = call'[y].o
                   PROVE  x = y
        BY DEF OneDestroyer
    <2>4. call[x].o = call[y].o
        BY <1>6, <2>3
    <2> QED BY <1>1, <2>1, <2>2, <2>3, <2>4 DEF ObjectInv, OneDestroyer
<1>11. LiveObjects' /\ FreedHasNoWaiter'
    BY <1>7, <1>8 DEF ObjectInv, LiveObjects, FreedHasNoWaiter
<1>12. ObjectData'
    <2>1. obj' \in [Obj -> [alloc : BOOLEAN, open : BOOLEAN, destroyed : BOOLEAN]]
        BY <1>1, <1>4
    <2>2. HasWaiters(o) \in BOOLEAN
        BY DEF HasWaiters
    <2>3. call' \in [Task -> CallRecord]
        BY <1>1, <1>3, <2>2 DEF CallRecord
    <2> QED BY <2>1, <2>3 DEF ObjectData
<1> QED BY <1>5, <1>9, <1>10, <1>11, <1>12 DEF ObjectInv

-----------------------------------------------------------------------------

(* The last waiter. *)
LEMMA TailEmpty ==
    ASSUME NEW S, NEW s \in Seq(S), s # <<>>
    PROVE  Tail(s) = <<>> <=> Len(s) = 1
<1>1. Tail(s) \in Seq(S) /\ Len(Tail(s)) = Len(s) - 1 /\ Len(s) \in Nat
    BY HeadTailProperties
<1>2. Tail(s) = <<>> <=> Len(Tail(s)) = 0
    BY <1>1, EmptySeq
<1> QED BY <1>1, <1>2

(* A round of waking the waiters of a destroyed object.  They are woken in *)
(* order, and after the last one the object has none.                      *)
LEMMA WakeRound ==
    ASSUME ObjectInv, NEW t \in Task, NEW o \in Obj, call[t].o = o, WakeDestroyed(t)
    PROVE  \E p \in {"o_wake", "o_close"} :
              /\ Onward(t, p)
              /\ p = "o_wake" => UNCHANGED pc
              /\ p = "o_close" => Goto(t, p)
              /\ HasWaiters(o)' <=> p = "o_wake"
<1> USE DEF taskvars, history
<1> DEFINE S == {j \in DOMAIN Queues[o] : k.wq[Queues[o][j]] # <<>>}
<1>1. Runs(t) /\ pc[t] = "o_wake" /\ HasWaiters(o) /\ k \in Scheduler /\ Orderly(k) /\ t # Idle
    <2>1. Runs(t) /\ pc[t] = "o_wake"
        BY DEF WakeDestroyed, At
    <2> QED BY <2>1, CallerFacts DEF ObjectPc, CallAt
<1>2. DOMAIN Queues[o] = 1..Len(Queues[o])
    BY ObjectAssumption
<1>3. S \subseteq Nat /\ S # {}
    BY <1>1, <1>2 DEF HasWaiters
<1>4. Min(S) \in S /\ \A j \in S : Min(S) <= j
    BY <1>3, MinLeast
<1>5. PICK i \in DOMAIN Queues[o] : i = Min(S)
    BY <1>4
<1>6. PICK q \in WaitQ : q = Queues[o][i]
    BY QueuesType
<1>7. k.wq[q] # <<>> /\ \A j \in DOMAIN Queues[o] : k.wq[Queues[o][j]] # <<>> => i <= j
    BY <1>4, <1>5, <1>6
<1> DEFINE last == Len(k.wq[q]) = 1 /\ \A j \in DOMAIN Queues[o] : j > i => k.wq[Queues[o][j]] = <<>>
<1>8. /\ k' = trt_wait_q_wake_one_result_locked(k, q, "DESTROYED")
      /\ last => Goto(t, "o_close")
      /\ ~last => UNCHANGED pc
      /\ UNCHANGED <<tick, trap, boot, ret, reg, taskvars, history, objvars>>
    BY <1>5, <1>6 DEF WakeDestroyed
<1> HIDE DEF S
<1>9. "DESTROYED" \in WaitResult \ {"NONE"}
    BY DEF WaitResult
<1>10. \A w \in WaitQ : k'.wq[w] = IF w = q /\ k.wq[q] # <<>> THEN Tail(k.wq[w]) ELSE k.wq[w]
    BY <1>1, <1>8, <1>9, WakeOrderly
<1>11. /\ k'.wq[q] = Tail(k.wq[q])
       /\ \A j \in DOMAIN Queues[o] \ {i} : k'.wq[Queues[o][j]] = k.wq[Queues[o][j]]
    <2>1. k'.wq[q] = Tail(k.wq[q])
        BY <1>7, <1>10
    <2>2. ASSUME NEW j \in DOMAIN Queues[o] \ {i} PROVE k'.wq[Queues[o][j]] = k.wq[Queues[o][j]]
        <3>1. Queues[o][j] \in WaitQ /\ Queues[o][j] # q
            BY <1>6, QueuesType, ObjectAssumption
        <3> QED BY <1>10, <3>1
    <2> QED BY <2>1, <2>2
<1>12. k.wq[q] \in Seq(Task)
    BY <1>1 DEF Scheduler
<1>13. HasWaiters(o)' <=> ~last
    <2>1. CASE last
        <3>1. k'.wq[q] = <<>>
            BY <1>7, <1>11, <1>12, <2>1, TailEmpty
        <3>2. ASSUME NEW j \in DOMAIN Queues[o] PROVE k'.wq[Queues[o][j]] = <<>>
            <4>1. j \in Nat /\ i \in Nat
                BY <1>2
            <4>2. CASE j = i
                BY <1>6, <3>1, <4>2
            <4>3. CASE j > i
                BY <1>11, <2>1, <4>1, <4>3
            <4>4. CASE j < i
                BY <1>7, <1>11, <4>1, <4>4
            <4> QED BY <4>1, <4>2, <4>3, <4>4
        <3> QED BY <2>1, <3>2 DEF HasWaiters
    <2>2. CASE ~last
        <3>1. CASE Len(k.wq[q]) # 1
            <4>1. k'.wq[q] # <<>>
                BY <1>7, <1>11, <1>12, <3>1, TailEmpty
            <4> QED BY <1>6, <2>2, <4>1 DEF HasWaiters
        <3>2. CASE ~(\A j \in DOMAIN Queues[o] : j > i => k.wq[Queues[o][j]] = <<>>)
            <4>1. PICK j \in DOMAIN Queues[o] : j > i /\ k.wq[Queues[o][j]] # <<>>
                BY <3>2
            <4>2. j # i
                BY <1>2, <4>1
            <4>3. k'.wq[Queues[o][j]] # <<>>
                BY <1>11, <4>1, <4>2
            <4> QED BY <2>2, <4>3 DEF HasWaiters
        <3> QED BY <2>2, <3>1, <3>2
    <2> QED BY <2>1, <2>2
<1>14. Wakes
    BY <1>8, <1>9 DEF Wakes
<1> HIDE DEF last
<1>15. CASE last
    <2>1. Onward(t, "o_close")
        <3>1. pc[t] \in ObjectPc \cup {"run"} /\ "o_close" # "y_chk"
            BY <1>1 DEF ObjectPc
        <3> QED BY <1>1, <1>8, <1>14, <1>15, <3>1 DEF Onward
    <2> QED BY <1>8, <1>13, <1>15, <2>1
<1>16. CASE ~last
    <2>1. Onward(t, "o_wake")
        <3>1. pc[t] \in ObjectPc \cup {"run"} /\ "o_wake" # "y_chk"
            BY <1>1 DEF ObjectPc
        <3> QED BY <1>1, <1>8, <1>14, <1>16, <3>1 DEF Onward
    <2> QED BY <1>8, <1>13, <1>16, <2>1
<1> QED BY <1>15, <1>16

(* A round of the wakes of destroy: the caller leaves it when the last waiter is gone. *)
LEMMA WakeObjects ==
    ASSUME ObjectInv, NEW t \in Task, WakeDestroyed(t)
    PROVE  ObjectInv'
<1>1. Runs(t) /\ pc[t] = "o_wake" /\ UNCHANGED objvars /\ UNCHANGED trap
    BY DEF WakeDestroyed, At
<1>2. /\ KernelInv /\ k \in Scheduler /\ pc \in [Task -> Pc] /\ Orderly(k)
      /\ call \in [Task -> CallRecord] /\ CallAt(t) /\ Destroys(t)
    BY <1>1, CallerFacts DEF ObjectPc, Destroys
<1>3. PICK o \in Obj : o = call[t].o
    BY <1>2 DEF CallAt, CallRecord
<1>4. PICK p \in {"o_wake", "o_close"} :
              /\ Onward(t, p)
              /\ p = "o_wake" => UNCHANGED pc
              /\ p = "o_close" => Goto(t, p)
              /\ HasWaiters(o)' <=> p = "o_wake"
    BY <1>3, WakeRound
<1>5. KernelInv'
    BY <1>2, <1>4, OnwardKernel DEF OnwardPc
<1>6. \A u \in Obj : HasWaiters(u)' => HasWaiters(u)
    BY <1>2, <1>4, WakesTame, FewerWaiters DEF Onward
<1>7. Frame(k, k')
    BY <1>2, <1>4, WakesTame DEF Onward
<1>8. pc'[t] = p /\ \A x \in Task \ {t} : pc'[x] = pc[x]
    BY <1>1, <1>2, <1>4 DEF Goto
<1>9. obj' = obj /\ call' = call
    BY <1>1 DEF objvars
<1>10. ASSUME NEW x \in Task PROVE CallAt(x)'
    <2>1. CallAt(x)
        BY DEF ObjectInv
    <2>2. CASE x = t
        <3>1. p = "o_close" => ~HasWaiters(o)'
            BY <1>4
        <3>2. Runs(t)'
            BY <1>1, <1>7 DEF Runs, Frame
        <3>3. call[t].o # None /\ obj[call[t].o].alloc /\ obj[call[t].o].destroyed
            BY <1>2 DEF CallAt
        <3>4. pc'[t] = "o_wake" => HasWaiters(o)'
            BY <1>4, <1>8
        <3>5. pc'[t] \in {"o_wake", "o_close"}
            BY <1>8
        <3>6. call'[t].o = o
            BY <1>3, <1>9
        <3> QED BY <1>4, <1>8, <1>9, <2>2, <3>1, <3>2, <3>3, <3>4, <3>5, <3>6 DEF CallAt, Destroys, HasWaiters
    <2>3. CASE x # t
        <3>1. pc'[x] = pc[x] /\ pc'[x] # "o_wake"
            BY <1>1, <1>8, <2>3, WakingStill DEF CallAt, ObjectInv
        <3>2. \A u \in Obj : obj[u].destroyed /\ HasWaiters(u)' => HasWaiters(u)
            BY <1>6
        <3> QED BY <1>9, <2>1, <3>1, <3>2, CallKept DEF CallAt
    <2> QED BY <2>2, <2>3
<1>11. \A x \in Task : Destroys(x)' => Destroys(x)
    BY <1>2, <1>8 DEF Destroys
<1> QED BY <1>1, <1>5, <1>6, <1>10, <1>11, SameObjects

(* A task closes the handle of a destroyed object. *)
LEMMA CloseObjects ==
    ASSUME ObjectInv, NEW t \in Task, Close(t)
    PROVE  ObjectInv'
<1> USE DEF taskvars, history
<1>1. Runs(t) /\ pc[t] = "o_close" /\ k' = k /\ call' = call /\ Goto(t, "o_free")
    BY DEF Close, At
<1>2. /\ t # Idle /\ KernelInv /\ pc \in [Task -> Pc] /\ call \in [Task -> CallRecord] /\ CallAt(t)
      /\ \A x \in Task : pc[x] # "o_wake"
    BY <1>1, CallerFacts DEF ObjectPc
<1>3. PICK o \in Obj : o = call[t].o
    BY <1>1, <1>2 DEF CallAt, CallRecord, Destroys
<1>4. obj \in [Obj -> [alloc : BOOLEAN, open : BOOLEAN, destroyed : BOOLEAN]]
    BY DEF ObjectInv, ObjectData
<1>5. /\ obj' = [obj EXCEPT ![o].open = FALSE]
      /\ \A u \in Obj : obj'[u].alloc = obj[u].alloc /\ obj'[u].destroyed = obj[u].destroyed
                        /\ (obj'[u].open => obj[u].open)
    BY <1>3, <1>4 DEF Close
<1>6. KernelInv'
    <2>1. "o_free" \in OnwardPc /\ pc[t] \in ObjectPc /\ "o_free" # "y_chk"
        BY <1>1 DEF OnwardPc, ObjectPc
    <2>2. Wakes
        BY <1>1 DEF Wakes
    <2>3. Onward(t, "o_free")
        BY <1>1, <1>2, <2>1, <2>2 DEF Onward, Close
    <2> QED BY <1>2, <2>1, <2>3, OnwardKernel
<1>7. pc'[t] = "o_free" /\ \A x \in Task \ {t} : pc'[x] = pc[x]
    BY <1>1, <1>2 DEF Goto
<1>8. \A u \in Obj : HasWaiters(u)' <=> HasWaiters(u)
    BY <1>1 DEF HasWaiters
<1>9. ASSUME NEW x \in Task PROVE CallAt(x)'
    <2>1. CallAt(x) /\ call[x].o \in Obj \cup {None}
        BY <1>2 DEF ObjectInv, CallRecord
    <2>2. CASE x = t
        <3>1. obj[o].alloc /\ obj[o].destroyed /\ o # None /\ ~HasWaiters(o)
            BY <1>1, <1>2, <1>3 DEF CallAt, Destroys
        <3>2. ~HasWaiters(o)'
            BY <1>8, <3>1
        <3>3. call'[t].o = o
            BY <1>1, <1>3
        <3> QED BY <1>5, <1>7, <2>2, <3>1, <3>2, <3>3 DEF CallAt, Destroys, HasWaiters
    <2>3. CASE x # t
        <3>1. pc'[x] = pc[x] /\ pc'[x] # "o_wake" /\ call'[x].o = call[x].o
            BY <1>1, <1>2, <1>7, <2>3
        <3>2. call[x].o # None => obj'[call[x].o].alloc
            BY <1>5, <2>1 DEF CallAt
        <3>3. Destroys(x) => obj'[call[x].o].destroyed
            BY <1>5, <2>1 DEF CallAt
        <3>4. \A u \in Obj : obj[u].destroyed /\ HasWaiters(u)' => HasWaiters(u)
            BY <1>8
        <3> QED BY <3>1, <3>2, <3>3, <3>4, CallKept
    <2> QED BY <2>2, <2>3
<1>10. OneDestroyer'
    <2>1. \A x \in Task : Destroys(x)' => Destroys(x)
        BY <1>1, <1>7 DEF Destroys
    <2> QED BY <1>1, <2>1 DEF ObjectInv, OneDestroyer
<1>11. LiveObjects' /\ FreedHasNoWaiter'
    BY <1>5, <1>8 DEF ObjectInv, LiveObjects, FreedHasNoWaiter
<1>12. ObjectData'
    BY <1>1, <1>2, <1>4, <1>5 DEF ObjectData
<1> QED BY <1>6, <1>9, <1>10, <1>11, <1>12 DEF ObjectInv

-----------------------------------------------------------------------------

(* A task frees a destroyed object. *)
LEMMA FreeObjects ==
    ASSUME ObjectInv, NEW t \in Task, Free(t)
    PROVE  ObjectInv'
<1> USE DEF taskvars, history
<1>1. Runs(t) /\ pc[t] = "o_free" /\ k' = k
    BY DEF Free, At
<1>2. /\ t # Idle /\ KernelInv /\ pc \in [Task -> Pc] /\ call \in [Task -> CallRecord] /\ CallAt(t)
      /\ \A x \in Task : pc[x] # "o_wake"
    BY <1>1, CallerFacts DEF ObjectPc
<1>3. PICK o \in Obj : o = call[t].o
    BY <1>1, <1>2 DEF CallAt, CallRecord, Destroys
<1>4. obj \in [Obj -> [alloc : BOOLEAN, open : BOOLEAN, destroyed : BOOLEAN]]
    BY DEF ObjectInv, ObjectData
<1>5. obj' = [obj EXCEPT ![o] = NoObj] /\ ~HasWaiters(o)
    <2>1. ~HasWaiters(o)
        BY <1>1, <1>2, <1>3 DEF CallAt
    <2> QED BY <1>3, <2>1 DEF Free
<1>6. \A u \in Obj \ {o} : obj'[u] = obj[u]
    BY <1>4, <1>5
<1>7. obj'[o] = NoObj
    BY <1>4, <1>5
<1>8. PICK p \in {"run", "y_chk"} : /\ Goto(t, p)
                                    /\ ret' = IF p = "y_chk" THEN [ret EXCEPT ![t] = "run"] ELSE ret
    BY DEF Free, CallYield
<1>9. KernelInv'
    <2>1. p \in OnwardPc /\ pc[t] \in ObjectPc
        BY <1>1 DEF OnwardPc, ObjectPc
    <2>2. Wakes
        BY <1>1 DEF Wakes
    <2>3. Onward(t, p)
        BY <1>1, <1>2, <1>8, <2>1, <2>2 DEF Onward, Free
    <2> QED BY <1>2, <2>1, <2>3, OnwardKernel
<1>10. pc'[t] = p /\ \A x \in Task \ {t} : pc'[x] = pc[x]
    BY <1>2, <1>8 DEF Goto
<1>11. /\ call'[t] = NoCall
       /\ \A x \in Task \ {t} : call[x].o = o => call'[x] = [call[x] EXCEPT !.o = None]
       /\ \A x \in Task \ {t} : call[x].o # o => call'[x] = call[x]
       /\ call' \in [Task -> CallRecord]
    <2>1. call' = [u \in Task |-> CASE u = t -> NoCall
                                    [] u # t /\ call[u].o = call[t].o -> [call[u] EXCEPT !.o = None]
                                    [] OTHER -> call[u]]
        BY DEF Free
    <2>2. NoCall \in CallRecord
        BY DEF NoCall, CallRecord
    <2>3. \A u \in Task : [call[u] EXCEPT !.o = None] \in CallRecord
        BY <1>2 DEF CallRecord
    <2>4. /\ call'[t] = NoCall
          /\ \A x \in Task \ {t} : call[x].o = o => call'[x] = [call[x] EXCEPT !.o = None]
          /\ \A x \in Task \ {t} : call[x].o # o => call'[x] = call[x]
        BY <1>3, <2>1
    <2>5. \A x \in Task : call'[x] \in CallRecord
        BY <1>2, <2>2, <2>3, <2>4
    <2>6. DOMAIN call' = Task /\ call' = [x \in DOMAIN call' |-> call'[x]]
        BY <2>1
    <2> QED BY <2>4, <2>5, <2>6
<1>12. /\ call'[t].o = None
       /\ \A x \in Task \ {t} : call[x].o = o => call'[x].o = None
       /\ \A x \in Task \ {t} : call[x].o # o => call'[x].o = call[x].o
    BY <1>2, <1>11 DEF NoCall, CallRecord
<1>13. ASSUME NEW x \in Task \ {t}, Destroys(x) PROVE call[x].o # o
    BY <1>1, <1>3, <1>13 DEF ObjectInv, OneDestroyer, Destroys
<1>14. \A u \in Obj : HasWaiters(u)' <=> HasWaiters(u)
    BY <1>1 DEF HasWaiters
<1>15. ASSUME NEW x \in Task PROVE CallAt(x)'
    <2>1. CallAt(x) /\ call[x].o \in Obj \cup {None}
        BY <1>2 DEF ObjectInv, CallRecord
    <2>2. CASE x = t
        BY <1>10, <1>12, <2>2 DEF CallAt, Destroys
    <2>3. CASE x # t /\ call[x].o = o
        <3>1. ~Destroys(x)
            BY <1>13, <2>3
        <3>2. pc'[x] = pc[x] /\ call'[x].o = None
            BY <1>10, <1>12, <2>3
        <3> QED BY <2>1, <3>1, <3>2 DEF CallAt, Destroys
    <2>4. CASE x # t /\ call[x].o # o
        <3>1. pc'[x] = pc[x] /\ pc'[x] # "o_wake" /\ call'[x].o = call[x].o
            BY <1>2, <1>10, <1>12, <2>4
        <3>2. call[x].o # None => obj'[call[x].o] = obj[call[x].o]
            BY <1>6, <2>1, <2>4
        <3>3. Destroys(x) => call[x].o # None
            BY <2>1 DEF CallAt
        <3>4. \A u \in Obj : obj[u].destroyed /\ HasWaiters(u)' => HasWaiters(u)
            BY <1>14
        <3> QED BY <2>1, <3>1, <3>2, <3>3, <3>4, CallKept DEF CallAt
    <2> QED BY <2>2, <2>3, <2>4
<1>16. OneDestroyer'
    <2>1. ASSUME NEW x \in Task, Destroys(x)' PROVE Destroys(x) /\ x # t /\ call'[x].o = call[x].o
        <3>1. x # t
            BY <1>10, <2>1 DEF Destroys
        <3>2. Destroys(x)
            BY <1>10, <2>1, <3>1 DEF Destroys
        <3> QED BY <1>12, <1>13, <3>1, <3>2
    <2> QED BY <2>1 DEF ObjectInv, OneDestroyer
<1>17. LiveObjects' /\ FreedHasNoWaiter'
    <2>1. ~obj'[o].open /\ ~obj'[o].destroyed
        BY <1>7 DEF NoObj
    <2>2. \A u \in Obj : obj'[u].open \/ obj'[u].destroyed => obj'[u].alloc
        BY <1>6, <2>1 DEF ObjectInv, LiveObjects
    <2>3. \A u \in Obj : ~obj'[u].alloc => ~HasWaiters(u)'
        BY <1>5, <1>6, <1>14 DEF ObjectInv, FreedHasNoWaiter
    <2> QED BY <2>2, <2>3 DEF LiveObjects, FreedHasNoWaiter
<1>18. ObjectData'
    <2>1. NoObj \in [alloc : BOOLEAN, open : BOOLEAN, destroyed : BOOLEAN]
        BY DEF NoObj
    <2> QED BY <1>4, <1>5, <1>11, <2>1 DEF ObjectData
<1> QED BY <1>9, <1>15, <1>16, <1>17, <1>18 DEF ObjectInv

(* Another object is created. *)
LEMMA CreateObjects ==
    ASSUME ObjectInv, NEW o \in Obj, Create(o)
    PROVE  ObjectInv'
<1>1. /\ KernelInv /\ UNCHANGED vars /\ call' = call /\ ~obj[o].alloc
      /\ obj' = [obj EXCEPT ![o] = [alloc |-> TRUE, open |-> TRUE, destroyed |-> FALSE]]
    BY DEF Create, ObjectInv
<1>2. KernelInv'
    BY <1>1, KernelNext
<1>3. pc' = pc /\ k' = k /\ trap' = trap
    BY <1>1 DEF vars
<1>4. obj \in [Obj -> [alloc : BOOLEAN, open : BOOLEAN, destroyed : BOOLEAN]]
      /\ call \in [Task -> CallRecord]
    BY DEF ObjectInv, ObjectData
<1>5. \A u \in Obj : HasWaiters(u)' <=> HasWaiters(u)
    BY <1>3 DEF HasWaiters
<1>6. obj'[o].alloc /\ ~obj'[o].destroyed /\ \A u \in Obj \ {o} : obj'[u] = obj[u]
    BY <1>1, <1>4
<1>7. ASSUME NEW x \in Task PROVE CallAt(x)'
    <2>1. CallAt(x) /\ call[x].o \in Obj \cup {None}
        BY <1>4 DEF ObjectInv, CallRecord
    <2>2. call[x].o # o
        BY <1>1, <2>1, ObjectAssumption DEF CallAt
    <2>3. call[x].o # None => obj'[call[x].o] = obj[call[x].o]
        BY <1>6, <2>1, <2>2
    <2>4. Destroys(x) => call[x].o # None
        BY <2>1 DEF CallAt
    <2>5. CASE pc[x] # "o_wake"
        <3>1. \A u \in Obj : obj[u].destroyed /\ HasWaiters(u)' => HasWaiters(u)
            BY <1>5
        <3> QED BY <1>1, <1>3, <2>1, <2>3, <2>4, <2>5, <3>1, CallKept DEF CallAt
    <2>6. CASE pc[x] = "o_wake"
        <3>1. PICK u \in Obj : u = call[x].o
            BY <2>1, <2>4, <2>6 DEF Destroys
        <3>2. HasWaiters(u)' /\ Runs(x)'
            BY <1>3, <1>5, <2>1, <2>6, <3>1 DEF CallAt, Runs
        <3>3. call'[x].o = u /\ pc'[x] = "o_wake" /\ obj'[u].alloc /\ obj'[u].destroyed
            BY <1>1, <1>3, <2>1, <2>3, <2>4, <2>6, <3>1 DEF CallAt, Destroys
        <3>4. u # None
            BY ObjectAssumption
        <3> QED BY <3>2, <3>3, <3>4 DEF CallAt, Destroys, HasWaiters
    <2> QED BY <2>5, <2>6
<1>8. OneDestroyer'
    BY <1>1, <1>3 DEF ObjectInv, OneDestroyer, Destroys
<1>9. LiveObjects' /\ FreedHasNoWaiter'
    BY <1>5, <1>6 DEF ObjectInv, LiveObjects, FreedHasNoWaiter
<1>10. ObjectData'
    BY <1>1, <1>4 DEF ObjectData
<1> QED BY <1>2, <1>7, <1>8, <1>9, <1>10 DEF ObjectInv

(* An interrupt handler works on an object. *)
LEMMA IsrObjects ==
    ASSUME ObjectInv, IsrWakes
    PROVE  ObjectInv'
<1>1. KernelInv /\ Interrupted /\ HandlerWakes /\ UNCHANGED objvars
    BY DEF ObjectInv, IsrWakes
<1>2. KernelInv'
    BY <1>1, HandlerKernel
<1>3. \A x \in Task : pc[x] # "o_wake"
    BY <1>1, WakingStill
<1>4. /\ \A w \in WaitQ : k'.wq[w] # <<>> => k.wq[w] # <<>>
      /\ \A x \in Task : pc'[x] = pc[x] \/ (pc[x] = "i_wfi" /\ pc'[x] = "i_clean")
    BY <1>1, HandlerFacts
<1>5. \A u \in Obj : HasWaiters(u)' => HasWaiters(u)
    BY <1>4, FewerWaiters
<1>6. obj' = obj /\ call' = call
    BY <1>1 DEF objvars
<1>7. ASSUME NEW x \in Task PROVE CallAt(x)' /\ (Destroys(x)' => Destroys(x))
    <2>1. CallAt(x)
        BY DEF ObjectInv
    <2>2. pc'[x] = pc[x] \/ pc'[x] = "i_clean"
        BY <1>4
    <2>3. pc'[x] = pc[x] \/ pc'[x] \notin CallPc
        BY <2>2 DEF CallPc
    <2>4. pc'[x] # "o_wake"
        BY <1>3, <2>2
    <2>5. Destroys(x)' => Destroys(x)
        BY <2>2 DEF Destroys
    <2> QED BY <1>5, <1>6, <2>1, <2>3, <2>4, <2>5, CallKept DEF CallAt
<1> QED BY <1>1, <1>2, <1>5, <1>7, SameObjects

(* The invariant of the objects, for every step of theirs and of the kernel. *)
LEMMA ObjectNext ==
    ASSUME ObjectInv, ObjectsOnly, ObjectStep
    PROVE  ObjectInv'
<1>1. ASSUME NEW t \in Task, UseStep(t) PROVE ObjectInv'
    BY <1>1, UseObjects, WaitObjects DEF UseStep
<1>2. ASSUME NEW t \in Task, DestroyStep(t) PROVE ObjectInv'
    BY <1>2, DestroyObjects, WakeObjects, CloseObjects, FreeObjects DEF DestroyStep
<1> QED BY <1>1, <1>2, UseObjects, KernelObjects, CreateObjects, IsrObjects
        DEF ObjectStep, LookupStep, GoesOn

(* Before the first object is created. *)
LEMMA ObjectInit == ObjInit => ObjectInv
<1> SUFFICES ASSUME ObjInit PROVE ObjectInv
    OBVIOUS
<1>1. KernelInv /\ \A w \in WaitQ : k.wq[w] = <<>>
    BY InitKernel DEF ObjInit, Init, sched_init
<1>2. \A o \in Obj : ~HasWaiters(o)
    BY <1>1, QueuesType DEF HasWaiters
<1>3. NoObj \in [alloc : BOOLEAN, open : BOOLEAN, destroyed : BOOLEAN] /\ NoCall \in CallRecord
    BY DEF NoObj, NoCall, CallRecord
<1>4. ObjectData
    BY <1>3 DEF ObjectData, ObjInit
<1>5. \A x \in Task : call[x] = NoCall /\ pc[x] \in {"run", "i_clean", "i_en"}
    BY DEF ObjInit, Init
<1>6. \A x \in Task : CallAt(x) /\ ~Destroys(x)
    BY <1>5 DEF CallAt, Destroys, NoCall
<1>7. OneDestroyer /\ LiveObjects /\ FreedHasNoWaiter
    BY <1>2, <1>6 DEF OneDestroyer, LiveObjects, FreedHasNoWaiter, ObjInit, NoObj
<1> QED BY <1>1, <1>4, <1>6, <1>7 DEF ObjectInv

-----------------------------------------------------------------------------
(* A call keeps its operation and its timeout until it returns. *)
CallsStay == \A x \in Task : \/ call'[x].op = call[x].op /\ call'[x].d = call[x].d
                             \/ call'[x].op = "none"

(* Calls change only where a call is begun or left. *)
LEMMA GoesOnCalls ==
    ASSUME ObjectInv, GoesOn
    PROVE  CallsStay
<1>1. call \in [Task -> CallRecord]
    BY DEF ObjectInv, ObjectData
<1>2. CASE UNCHANGED call
    BY <1>2 DEF CallsStay
<1>3. ASSUME NEW t \in Task, call' = [call EXCEPT ![t] = NoCall] PROVE CallsStay
    BY <1>1, <1>3 DEF CallsStay, NoCall
<1>4. ASSUME NEW t \in Task, NEW b, call' = [call EXCEPT ![t].woken = b] PROVE CallsStay
    BY <1>1, <1>4 DEF CallsStay, CallRecord
<1>5. ASSUME NEW t \in Task, Free(t) PROVE CallsStay
    <2>1. call' = [u \in Task |-> CASE u = t -> NoCall
                                    [] u # t /\ call[u].o = call[t].o -> [call[u] EXCEPT !.o = None]
                                    [] OTHER -> call[u]]
        BY <1>5 DEF Free
    <2>2. ASSUME NEW x \in Task
          PROVE  (call'[x].op = call[x].op /\ call'[x].d = call[x].d) \/ call'[x].op = "none"
        <3>1. CASE x = t
            BY <2>1, <3>1 DEF NoCall
        <3>2. CASE x # t /\ call[x].o = call[t].o
            <4>1. call'[x] = [call[x] EXCEPT !.o = None]
                BY <2>1, <3>2
            <4> QED BY <1>1, <4>1 DEF CallRecord
        <3>3. CASE x # t /\ call[x].o # call[t].o
            BY <2>1, <3>3
        <3> QED BY <3>1, <3>2, <3>3
    <2> QED BY <2>2 DEF CallsStay
<1>6. ASSUME NEW t \in Task, UseStep(t) \/ DestroyStep(t) PROVE CallsStay
    <2>1. CASE Answers(t)
        BY <1>3, <2>1 DEF Answers, Return
    <2>2. CASE TriesAgain(t)
        BY <1>4, <2>2 DEF TriesAgain
    <2>3. CASE Waits(t)
        BY <1>2, <2>3 DEF Waits, WaitsOn, BlockOn, objvars
    <2>4. ASSUME NEW o \in Obj, Destroy(t, o) PROVE CallsStay
        BY <1>4, <2>4 DEF Destroy
    <2>5. CASE WakeDestroyed(t) \/ Close(t)
        BY <1>2, <2>5 DEF WakeDestroyed, Close, objvars
    <2> QED BY <1>5, <1>6, <2>1, <2>2, <2>3, <2>4, <2>5 DEF UseStep, DestroyStep
<1> QED BY <1>2, <1>6 DEF GoesOn, Create, IsrWakes, HandlerWakes, objvars

(* Apart from blocking, no step gives a wait queue its first waiter. *)
LEMMA WakesDrain == ObjectInv /\ Wakes => Drains
<1> SUFFICES ASSUME ObjectInv, Wakes PROVE Drains
    OBVIOUS
<1>1. k \in Scheduler /\ Orderly(k)
    BY DEF ObjectInv, KernelInv, TypeInv, TypeOK, AlwaysInv
<1> QED BY <1>1, WakesTame DEF Drains

(* Destruction puts nobody on a wait queue. *)
LEMMA DestroyDrains ==
    ASSUME ObjectInv, NEW t \in Task, DestroyStep(t)
    PROVE  Drains
<1>1. CASE WakeDestroyed(t)
    <2>1. CallAt(t) /\ Destroys(t) /\ call[t] \in CallRecord
        BY <1>1 DEF WakeDestroyed, At, ObjectInv, ObjectData, Destroys
    <2>2. PICK o \in Obj : o = call[t].o
        BY <2>1 DEF CallAt, CallRecord
    <2>3. Wakes
        BY <1>1, <2>2, WakeRound DEF Onward
    <2> QED BY <2>3, WakesDrain
<1>2. CASE k' = k
    BY <1>2 DEF Drains
<1> QED BY <1>1, <1>2 DEF DestroyStep, Destroy, Close, Free

-----------------------------------------------------------------------------

(* Semaphores. *)
SemData ==
    /\ sem \in [Obj -> [cnt : Nat, max : Int]]
    /\ balance \in [Obj -> Int]

SemTimed == \A t \in Task : call[t].op = "timedwait" => call[t].d \in Nat

SemInv ==
    /\ ObjectInv
    /\ SemData
    /\ SemTimed
    /\ NoWaiterBesideToken

(* The wait queue of a semaphore or mutex. *)
LEMMA FirstQueue ==
    ASSUME SemAssumption \/ MutexAssumption, NEW o \in Obj
    PROVE  1 \in DOMAIN Queues[o] /\ waiters(o) = Queues[o][1] /\ waiters(o) \in WaitQ
<1>1. Queues[o] \in Seq(WaitQ) /\ Len(Queues[o]) >= 1
    BY ObjectAssumption DEF SemAssumption, MutexAssumption
<1>2. 1 \in DOMAIN Queues[o]
    BY <1>1
<1> QED BY <1>2, QueuesType DEF waiters

(* Every step is one of those considered above. *)
LEMMA PostWakes ==
    ASSUME NEW o \in Obj, SemPosted(o, trt_wait_q_wake_one_locked(k, waiters(o)), k)
    PROVE  Wakes
<1>1. "OBJECT" \in WaitResult \ {"NONE"} /\ waiters(o) \in WaitQ
    BY SemAssumption, FirstQueue DEF WaitResult
<1> QED BY <1>1 DEF SemPosted, Wakes, trt_wait_q_wake_one_locked

(* Every operation of a semaphore is one of the steps of KObject. *)
LEMMA SemStepGoes ==
    ASSUME SemInv, NEW t \in Task, SemStep(t)
    PROVE  UseStep(t) \/ DestroyStep(t)
<1> USE DEF taskvars, history
<1>1. ASSUME NEW o \in Obj, sem_post_obj(t, o) PROVE Answers(t)
    BY <1>1, PostWakes DEF sem_post_obj, Operates, Answers
<1>2. ASSUME NEW o \in Obj, sem_take(t, o) \/ sem_trywait_busy(t, o) PROVE Answers(t)
    BY <1>2 DEF sem_take, sem_trywait_busy, Operates, ReturnUnchanged, Answers, Wakes
<1>3. ASSUME NEW o \in Obj, sem_wait_refused(t, o) PROVE Answers(t)
    BY <1>3 DEF sem_wait_refused, Operates, Answers, Wakes
<1>4. ASSUME NEW o \in Obj, sem_block(t, o) PROVE Waits(t)
    <2>1. /\ Runs(t) /\ pc[t] = "o_op" /\ call[t].o = o /\ Usable(o) /\ ~sched_is_locked(k)
          /\ BlockOn(t, waiters(o), call[t].op = "timedwait")
        BY <1>4 DEF sem_block, Operates, At
    <2>2. PICK timed \in BOOLEAN : timed = (call[t].op = "timedwait")
        OBVIOUS
    <2>3. timed => call[t].d \in Nat
        BY <2>2 DEF SemInv, SemTimed
    <2>4. WaitsOn(t, Queues[o][1], timed)
        BY <2>1, <2>2, <2>3, SemAssumption, FirstQueue DEF WaitsOn
    <2> QED BY <2>1, <2>4, SemAssumption, FirstQueue DEF Waits
<1>5. ASSUME NEW o \in Obj, sem_destroy_obj(t, o) PROVE DestroyStep(t)
    BY <1>5 DEF sem_destroy_obj, DestroyStep
<1>6. CASE sem_gone(t)
    <2>1. Answers(t)
        BY <1>6 DEF sem_gone, OperateFreed, UseFreed, OperateGone, Operates, Answers, Wakes
    <2> QED BY <2>1 DEF UseStep
<1>7. CASE sem_wait_return(t)
    <2>1. Answers(t)
        BY <1>7 DEF sem_wait_return, ReturnUnchanged, Answers, Wakes
    <2> QED BY <2>1 DEF UseStep
<1>8. CASE trt_sem_destroy(t)
    BY <1>8 DEF trt_sem_destroy, DestroyStep
<1> QED BY <1>1, <1>2, <1>3, <1>4, <1>5, <1>6, <1>7, <1>8 DEF SemStep, UseStep

(* trt_sem_post_from_isr wakes or counts. *)
LEMMA SemIrqGoes ==
    ASSUME NEW o \in Obj, trt_sem_post_from_isr(o)
    PROVE  IsrWakes
<1>1. waiters(o) \in WaitQ
    BY SemAssumption, FirstQueue
<1> QED BY <1>1 DEF trt_sem_post_from_isr, SemPosted, IsrWakes, HandlerWakes, InTrap

(* The calls of semaphore.c begin with a lookup. *)
LEMMA SemCallLooks ==
    ASSUME NEW t \in Task, SemCall(t)
    PROVE  /\ LookupStep
           /\ UNCHANGED <<k, sem, balance>>
           /\ \E c : /\ call' = [call EXCEPT ![t] = c]
                     /\ c.op = "timedwait" => c.d \in Nat
<1>1. PICK o \in Obj : \/ \E op \in ObjOps \ {"timedwait", "isr_post"} : sem_lookup(t, o, op, 0)
                       \/ \E d \in Delays : sem_lookup(t, o, "timedwait", d)
    BY DEF SemCall
<1>2. PICK op, d : /\ sem_lookup(t, o, op, d)
                   /\ (op # "timedwait" /\ d = 0) \/ d \in Delays
    BY <1>1
<1>3. op \in ObjOps /\ Lookup(t, o, op, d) /\ UNCHANGED <<sem, balance>>
    BY <1>2 DEF sem_lookup, Lookup
<1>4. op = "timedwait" => d \in Nat
    <2>1. Delays \subseteq Nat
        BY KernelAssumption, SchedAssumption
    <2> QED BY <1>2, <2>1
<1>5. LookupStep
    BY <1>2, <1>3 DEF LookupStep
<1>6. call' = [call EXCEPT ![t] = [op |-> op, o |-> o, d |-> d, woken |-> FALSE]] /\ k' = k
    BY <1>3 DEF Lookup
<1>7. PICK c : c = [op |-> op, o |-> o, d |-> d, woken |-> FALSE]
    OBVIOUS
<1>8. c.op = "timedwait" => c.d \in Nat
    BY <1>4, <1>7
<1> QED BY <1>3, <1>5, <1>6, <1>7, <1>8

(* All steps but the lookups. *)
LEMMA SemGoes ==
    ASSUME SemInv, [SemNext]_<<vars, semvars>>
    PROVE  GoesOn \/ \E t \in Task : SemCall(t)
<1>1. ASSUME NEW t \in Task, SemStep(t) PROVE GoesOn
    BY <1>1, SemStepGoes DEF GoesOn
<1>2. CASE SemCreate
    BY <1>2 DEF SemCreate, trt_sem_create, GoesOn
<1>3. CASE SemIrq
    BY <1>3, SemIrqGoes DEF SemIrq, GoesOn
<1>4. CASE UNCHANGED <<vars, semvars>> \/ (Next /\ UNCHANGED semvars)
    BY <1>4 DEF semvars, GoesOn
<1> QED BY <1>1, <1>2, <1>3, <1>4 DEF SemNext

(* The queues of waiters: they only grow in sem_block. *)
LEMMA SemObjects ==
    ASSUME SemInv, [SemNext]_<<vars, semvars>>
    PROVE  ObjectInv' /\ SemTimed'
<1>1. ObjectsOnly
    BY SemAssumption DEF ObjectsOnly
<1>2. call \in [Task -> CallRecord]
    BY DEF SemInv, ObjectInv, ObjectData
<1>3. CASE GoesOn
    <2>1. ObjectInv'
        BY <1>1, <1>3, ObjectNext DEF SemInv, ObjectStep
    <2>2. CallsStay
        BY <1>3, GoesOnCalls DEF SemInv
    <2> QED BY <2>1, <2>2 DEF SemInv, SemTimed, CallsStay
<1>4. ASSUME NEW t \in Task, SemCall(t) PROVE ObjectInv' /\ SemTimed'
    <2>1. PICK c : /\ call' = [call EXCEPT ![t] = c]
                   /\ c.op = "timedwait" => c.d \in Nat
        BY <1>4, SemCallLooks
    <2>2. ObjectInv'
        BY <1>1, <1>4, SemCallLooks, ObjectNext DEF SemInv, ObjectStep
    <2>3. \A x \in Task : call'[x] = IF x = t THEN c ELSE call[x]
        BY <1>2, <2>1
    <2> QED BY <2>1, <2>2, <2>3 DEF SemInv, SemTimed
<1> QED BY <1>3, <1>4, SemGoes

-----------------------------------------------------------------------------

(* What keeps a count from being left beside waiters. *)
LEMMA NothingBeside ==
    ASSUME SemInv, Drains,
           \A o \in Obj : \/ sem'[o].cnt = sem[o].cnt
                          \/ k.wq[waiters(o)] = <<>>
                          \/ sem'[o].cnt = 0
    PROVE  NoWaiterBesideToken'
<1> SUFFICES ASSUME NEW o \in Obj, k'.wq[waiters(o)] # <<>> PROVE sem'[o].cnt = 0
    BY DEF NoWaiterBesideToken, waiters
<1>1. waiters(o) \in WaitQ
    BY SemAssumption, FirstQueue
<1> QED BY <1>1 DEF Drains, SemInv, NoWaiterBesideToken

(* A post counts only if nobody waits. *)
LEMMA SemPostedTokens ==
    ASSUME SemInv, NEW o \in Obj, NEW woken, NEW counted, SemPosted(o, woken, counted), Drains
    PROVE  SemData' /\ NoWaiterBesideToken'
<1>1. sem \in [Obj -> [cnt : Nat, max : Int]] /\ balance \in [Obj -> Int]
    BY DEF SemInv, SemData
<1>2. CASE k.wq[waiters(o)] # <<>>
    <2>1. sem' = sem /\ balance' = [balance EXCEPT ![o] = @ + 1]
        BY <1>2 DEF SemPosted
    <2> QED BY <1>1, <2>1, NothingBeside DEF SemData
<1>3. CASE k.wq[waiters(o)] = <<>> /\ UNCHANGED <<k, sem, balance>>
    BY <1>1, <1>3, NothingBeside DEF SemData
<1>4. CASE k.wq[waiters(o)] = <<>> /\ ~UNCHANGED <<k, sem, balance>>
    <2>1. sem' = [sem EXCEPT ![o].cnt = @ + 1] /\ balance' = [balance EXCEPT ![o] = @ + 1]
        BY <1>4 DEF SemPosted
    <2>2. SemData'
        BY <1>1, <2>1 DEF SemData
    <2>3. \A u \in Obj : sem'[u].cnt = sem[u].cnt \/ u = o
        BY <1>1, <2>1
    <2> QED BY <1>4, <2>2, <2>3, NothingBeside
<1> QED BY <1>2, <1>3, <1>4

(* The operations of a semaphore: a waiter blocks only when the count is 0. *)
LEMMA SemStepTokens ==
    ASSUME SemInv, NEW t \in Task, SemStep(t)
    PROVE  SemData' /\ NoWaiterBesideToken'
<1> USE DEF taskvars, history
<1>1. sem \in [Obj -> [cnt : Nat, max : Int]] /\ balance \in [Obj -> Int] /\ ObjectInv
    BY DEF SemInv, SemData
<1>2. ASSUME NEW o \in Obj, sem_post_obj(t, o) PROVE SemData' /\ NoWaiterBesideToken'
    <2>1. SemPosted(o, trt_wait_q_wake_one_locked(k, waiters(o)), k)
        BY <1>2 DEF sem_post_obj
    <2>2. Drains
        BY <1>1, <2>1, PostWakes, WakesDrain
    <2> QED BY <2>1, <2>2, SemPostedTokens
<1>3. ASSUME NEW o \in Obj, sem_take(t, o) PROVE SemData' /\ NoWaiterBesideToken'
    <2>1. /\ sem' = [sem EXCEPT ![o].cnt = @ - 1] /\ balance' = [balance EXCEPT ![o] = @ - 1]
          /\ sem[o].cnt > 0 /\ k' = k
        BY <1>3 DEF sem_take, ReturnUnchanged
    <2>2. SemData'
        BY <1>1, <2>1 DEF SemData
    <2>3. Drains /\ k.wq[waiters(o)] = <<>>
        BY <1>1, <2>1 DEF Drains, SemInv, NoWaiterBesideToken
    <2>4. \A u \in Obj : sem'[u].cnt = sem[u].cnt \/ u = o
        BY <1>1, <2>1
    <2> QED BY <2>2, <2>3, <2>4, NothingBeside
<1>4. ASSUME NEW o \in Obj, sem_block(t, o) PROVE SemData' /\ NoWaiterBesideToken'
    <2>1. /\ Runs(t) /\ pc[t] = "o_op" /\ ~sched_is_locked(k)
          /\ BlockOn(t, waiters(o), call[t].op = "timedwait")
          /\ sem[o].cnt <= 0 /\ UNCHANGED <<sem, balance>>
        BY <1>4 DEF sem_block, Operates, At
    <2>2. PICK timed \in BOOLEAN : timed = (call[t].op = "timedwait")
        OBVIOUS
    <2>3. PICK q \in WaitQ : q = waiters(o)
        BY SemAssumption, FirstQueue
    <2>4. timed => call[t].d \in Nat
        BY <2>2 DEF SemInv, SemTimed
    <2>5. WaitsOn(t, q, timed)
        BY <2>1, <2>2, <2>3, <2>4 DEF WaitsOn
    <2>6. BlocksOrderly(k, k', t, {q})
        BY <1>1, <2>5, WaitsOnFacts DEF ObjectInv
    <2>7. ASSUME NEW u \in Obj, k'.wq[waiters(u)] # <<>> PROVE sem[u].cnt = 0
        <3>1. waiters(u) \in WaitQ
            BY SemAssumption, FirstQueue
        <3>2. CASE waiters(u) = q
            <4>1. u = o
                BY <2>3, <3>2, SemAssumption, FirstQueue, ObjectAssumption
            <4>2. sem[o].cnt \in Nat
                BY <1>1
            <4> QED BY <2>1, <4>1, <4>2
        <3>3. CASE waiters(u) # q
            <4>1. k.wq[waiters(u)] # <<>>
                BY <2>6, <2>7, <3>1, <3>3 DEF BlocksOrderly
            <4> QED BY <4>1 DEF SemInv, NoWaiterBesideToken
        <3> QED BY <3>2, <3>3
    <2> QED BY <1>1, <2>1, <2>7 DEF SemData, NoWaiterBesideToken, waiters
<1>5. ASSUME NEW o \in Obj, sem_destroy_obj(t, o) PROVE SemData' /\ NoWaiterBesideToken'
    <2>1. sem' = [sem EXCEPT ![o].cnt = 0] /\ balance' = balance /\ DestroyStep(t)
        BY <1>5 DEF sem_destroy_obj, DestroyStep
    <2>2. SemData' /\ \A u \in Obj : sem'[u].cnt = sem[u].cnt \/ sem'[u].cnt = 0
        BY <1>1, <2>1 DEF SemData
    <2> QED BY <1>1, <2>1, <2>2, DestroyDrains, NothingBeside
<1>6. CASE trt_sem_destroy(t)
    <2>1. UNCHANGED <<sem, balance>> /\ DestroyStep(t)
        BY <1>6 DEF trt_sem_destroy, DestroyStep
    <2> QED BY <1>1, <2>1, DestroyDrains, NothingBeside DEF SemData
<1>7. CASE sem_wait_return(t)
    <2>1. k' = k /\ sem' = sem
        BY <1>7 DEF sem_wait_return, ReturnUnchanged
    <2>2. balance' \in [Obj -> Int]
        <3>1. call[t].o \in Obj \cup {None}
            BY <1>1 DEF ObjectInv, ObjectData, CallRecord
        <3> QED BY <1>1, <1>7, <3>1 DEF sem_wait_return
    <2> QED BY <1>1, <2>1, <2>2, NothingBeside DEF SemData, Drains
<1>8. ASSUME sem_gone(t) \/ \E o \in Obj : sem_trywait_busy(t, o) \/ sem_wait_refused(t, o)
      PROVE  SemData' /\ NoWaiterBesideToken'
    <2>1. Wakes /\ UNCHANGED <<sem, balance>>
        BY <1>8 DEF sem_gone, OperateFreed, UseFreed, OperateGone, Wakes, sem_trywait_busy,
            sem_wait_refused, ReturnUnchanged
    <2> QED BY <1>1, <2>1, WakesDrain, NothingBeside DEF SemData
<1> QED BY <1>2, <1>3, <1>4, <1>5, <1>6, <1>7, <1>8 DEF SemStep

(* Every step of the system. *)
LEMMA SemTokens ==
    ASSUME SemInv, [SemNext]_<<vars, semvars>>
    PROVE  SemData' /\ NoWaiterBesideToken'
<1>1. /\ sem \in [Obj -> [cnt : Nat, max : Int]] /\ balance \in [Obj -> Int]
      /\ ObjectInv /\ ObjectsOnly
    BY SemAssumption DEF SemInv, SemData, ObjectsOnly
<1>2. ASSUME NEW t \in Task, SemCall(t) PROVE SemData' /\ NoWaiterBesideToken'
    <2>1. UNCHANGED <<k, sem, balance>>
        BY <1>2, SemCallLooks
    <2> QED BY <1>1, <2>1, NothingBeside DEF SemData, Drains
<1>3. ASSUME NEW o \in Obj, trt_sem_post_from_isr(o) PROVE SemData' /\ NoWaiterBesideToken'
    <2>1. /\ SemPosted(o, trt_wait_q_wake_one_from_isr(k, waiters(o)), sched_set_pending(k))
          /\ IsrWakes
        BY <1>3, SemIrqGoes DEF trt_sem_post_from_isr
    <2>2. Drains
        BY <1>1, <2>1, HandlerFacts DEF IsrWakes, ObjectInv, Drains
    <2> QED BY <2>1, <2>2, SemPostedTokens
<1>4. CASE UNCHANGED <<vars, semvars>> \/ (Next /\ UNCHANGED semvars)
    <2>1. [Next]_vars /\ UNCHANGED objvars /\ UNCHANGED <<sem, balance>>
        BY <1>4 DEF semvars
    <2> QED BY <1>1, <2>1, KernelDrains, NothingBeside DEF SemData
<1>5. ASSUME NEW o \in Obj, NEW max \in SemMax, NEW cnt \in SemCnt, trt_sem_create(o, max, cnt)
      PROVE  SemData' /\ NoWaiterBesideToken'
    <2>1. /\ sem' = [sem EXCEPT ![o] = sem_init_obj(max, cnt)]
          /\ balance' = [balance EXCEPT ![o] = sem_init_obj(max, cnt).cnt]
          /\ Create(o) /\ ~obj[o].alloc
        BY <1>5 DEF trt_sem_create, Create
    <2>2. sem_init_obj(max, cnt) \in [cnt : Nat, max : Int]
        BY SemAssumption DEF sem_init_obj
    <2>3. SemData' /\ \A u \in Obj : sem'[u].cnt = sem[u].cnt \/ u = o
        <3> DEFINE s == sem_init_obj(max, cnt)
        <3>1. s \in [cnt : Nat, max : Int]
            BY <2>2
        <3>2. sem' = [sem EXCEPT ![o] = s] /\ balance' = [balance EXCEPT ![o] = s.cnt]
            BY <2>1
        <3> HIDE DEF s
        <3> QED BY <1>1, <3>1, <3>2 DEF SemData
    <2>4. k' = k
        BY <2>1 DEF Create, vars
    <2>5. k.wq[waiters(o)] = <<>>
        BY <1>1, <2>1, SemAssumption, FirstQueue DEF ObjectInv, FreedHasNoWaiter, HasWaiters
    <2> QED BY <2>3, <2>4, <2>5, NothingBeside DEF Drains
<1>6. ASSUME NEW t \in Task, SemStep(t) PROVE SemData' /\ NoWaiterBesideToken'
    BY <1>6, SemStepTokens
<1> QED BY <1>2, <1>3, <1>4, <1>5, <1>6 DEF SemNext, SemIrq, SemCreate

(* The invariant of the semaphores. *)
LEMMA SemAlways == SemSpec => []SemInv
<1>1. SemInit => SemInv
    <2> SUFFICES ASSUME SemInit PROVE SemInv
        OBVIOUS
    <2>1. ObjectInv /\ \A w \in WaitQ : k.wq[w] = <<>>
        BY ObjectInit DEF SemInit, ObjInit, Init, sched_init
    <2>2. SemData
        BY DEF SemInit, SemData
    <2>3. SemTimed
        BY DEF SemInit, ObjInit, SemTimed, NoCall
    <2>4. NoWaiterBesideToken
        BY <2>1, SemAssumption, FirstQueue DEF NoWaiterBesideToken
    <2> QED BY <2>1, <2>2, <2>3, <2>4 DEF SemInv
<1>2. SemInv /\ [SemNext]_<<vars, semvars>> => SemInv'
    BY SemObjects, SemTokens DEF SemInv
<1> QED BY <1>1, <1>2, PTL DEF SemSpec

-----------------------------------------------------------------------------

(* Mutexes. *)
MutexData ==
    /\ mutex \in [Obj -> [owner : Task \cup {None}, lock_count : Nat]]
    /\ held \in [Obj -> [Task -> Int]]

MutexTimed == \A t \in Task : call[t].op = "timedlock" => call[t].d \in Nat

MutexInv ==
    /\ ObjectInv
    /\ MutexData
    /\ MutexTimed
    /\ NoWaiterWithoutOwner

(* Every step is one of those considered above. *)
LEMMA UnlockWakes ==
    ASSUME NEW t \in Task, NEW o \in Obj, mutex_unlock_obj(t, o)
    PROVE  Wakes
<1>1. "OBJECT" \in WaitResult \ {"NONE"} /\ waiters(o) \in WaitQ
    BY MutexAssumption, FirstQueue DEF WaitResult
<1> QED BY <1>1 DEF mutex_unlock_obj, Wakes, trt_wait_q_wake_one_locked

(* mutex_lock blocks on a mutex that is usable. *)
LEMMA BlockWaits ==
    ASSUME MutexInv, NEW t \in Task, NEW o \in Obj, mutex_block(t, o)
    PROVE  \E timed \in BOOLEAN : call[t].o = o /\ Usable(o) /\ WaitsOn(t, Queues[o][1], timed)
<1>1. /\ Runs(t) /\ pc[t] = "o_op" /\ call[t].o = o /\ Usable(o) /\ ~sched_is_locked(k)
      /\ BlockOn(t, waiters(o), call[t].op = "timedlock")
    BY DEF mutex_block, Operates, At
<1>2. PICK timed \in BOOLEAN : timed = (call[t].op = "timedlock")
    OBVIOUS
<1>3. timed => call[t].d \in Nat
    BY <1>2 DEF MutexInv, MutexTimed
<1>4. WaitsOn(t, Queues[o][1], timed)
    BY <1>1, <1>2, <1>3, MutexAssumption, FirstQueue DEF WaitsOn
<1> QED BY <1>1, <1>4

(* Every operation of a mutex is one of the steps of KObject. *)
LEMMA MutexStepGoes ==
    ASSUME MutexInv, NEW t \in Task, MutexStep(t)
    PROVE  UseStep(t) \/ DestroyStep(t)
<1> USE DEF taskvars, history
<1>1. ASSUME NEW o \in Obj, mutex_unlock_obj(t, o) PROVE Answers(t)
    BY <1>1, UnlockWakes DEF mutex_unlock_obj, Operates, Answers
<1>2. ASSUME NEW o \in Obj, \/ mutex_take(t, o) \/ mutex_trylock_busy(t, o)
                            \/ mutex_unlock_refused(t, o)
      PROVE  Answers(t)
    BY <1>2 DEF mutex_take, mutex_trylock_busy, mutex_unlock_refused, Operates, ReturnUnchanged,
        Answers, Wakes
<1>3. ASSUME NEW o \in Obj, mutex_lock_refused(t, o) PROVE Answers(t)
    BY <1>3 DEF mutex_lock_refused, Operates, Answers, Wakes
<1>4. ASSUME NEW o \in Obj, mutex_block(t, o) PROVE Waits(t)
    BY <1>4, BlockWaits, MutexAssumption, FirstQueue DEF Waits
<1>5. ASSUME NEW o \in Obj, mutex_destroy_obj(t, o) PROVE DestroyStep(t)
    BY <1>5 DEF mutex_destroy_obj, DestroyStep
<1>6. CASE mutex_gone(t)
    <2>1. Answers(t)
        BY <1>6 DEF mutex_gone, OperateFreed, UseFreed, OperateGone, Operates, Answers, Wakes
    <2> QED BY <2>1 DEF UseStep
<1>7. CASE mutex_lock_return(t)
    <2>1. Answers(t)
        BY <1>7 DEF mutex_lock_return, ReturnUnchanged, UseFreed, Answers, Wakes
    <2> QED BY <2>1 DEF UseStep
<1>8. CASE trt_mutex_destroy(t)
    BY <1>8 DEF trt_mutex_destroy, DestroyStep
<1> QED BY <1>1, <1>2, <1>3, <1>4, <1>5, <1>6, <1>7, <1>8 DEF MutexStep, UseStep

(* The calls of mutex.c begin with a lookup. *)
LEMMA MutexCallLooks ==
    ASSUME NEW t \in Task, MutexCall(t)
    PROVE  /\ LookupStep
           /\ UNCHANGED <<k, ret, boot, mutex, held, obj>>
           /\ pc[t] = "run" /\ Goto(t, "o_op") /\ Runs(t)
           /\ \E c : /\ call' = [call EXCEPT ![t] = c]
                     /\ c.op = "timedlock" => c.d \in Nat
<1>1. PICK o \in Obj : \/ \E op \in ObjOps \ {"timedlock"} : mutex_lookup(t, o, op, 0)
                       \/ \E d \in Delays : mutex_lookup(t, o, "timedlock", d)
    BY DEF MutexCall
<1>2. PICK op, d : /\ mutex_lookup(t, o, op, d)
                   /\ (op # "timedlock" /\ d = 0) \/ d \in Delays
    BY <1>1
<1>3. op \in ObjOps /\ Lookup(t, o, op, d) /\ UNCHANGED <<mutex, held>>
    BY <1>2 DEF mutex_lookup, Lookup
<1>4. op = "timedlock" => d \in Nat
    <2>1. Delays \subseteq Nat
        BY KernelAssumption, SchedAssumption
    <2> QED BY <1>2, <2>1
<1>5. LookupStep
    BY <1>2, <1>3 DEF LookupStep
<1>6. /\ call' = [call EXCEPT ![t] = [op |-> op, o |-> o, d |-> d, woken |-> FALSE]] /\ k' = k
      /\ ret' = ret /\ boot' = boot /\ obj' = obj
      /\ pc[t] = "run" /\ Goto(t, "o_op") /\ Runs(t)
    BY <1>3 DEF Lookup, At
<1>7. PICK c : c = [op |-> op, o |-> o, d |-> d, woken |-> FALSE]
    OBVIOUS
<1>8. c.op = "timedlock" => c.d \in Nat
    BY <1>4, <1>7
<1> QED BY <1>3, <1>5, <1>6, <1>7, <1>8

(* All steps but the lookups. *)
LEMMA MutexGoes ==
    ASSUME MutexInv, [MutexNext]_<<vars, mutexvars>>
    PROVE  GoesOn \/ \E t \in Task : MutexCall(t)
<1>1. ASSUME NEW t \in Task, MutexStep(t) PROVE GoesOn
    BY <1>1, MutexStepGoes DEF GoesOn
<1>2. CASE MutexCreate
    BY <1>2 DEF MutexCreate, trt_mutex_create, GoesOn
<1>3. CASE UNCHANGED <<vars, mutexvars>> \/ (Next /\ UNCHANGED mutexvars)
    BY <1>3 DEF mutexvars, GoesOn
<1> QED BY <1>1, <1>2, <1>3 DEF MutexNext

(* The objects below every step of the system. *)
LEMMA MutexObjects ==
    ASSUME MutexInv, [MutexNext]_<<vars, mutexvars>>
    PROVE  ObjectInv' /\ MutexTimed'
<1>1. ObjectsOnly
    BY MutexAssumption DEF ObjectsOnly
<1>2. call \in [Task -> CallRecord]
    BY DEF MutexInv, ObjectInv, ObjectData
<1>3. CASE GoesOn
    <2>1. ObjectInv'
        BY <1>1, <1>3, ObjectNext DEF MutexInv, ObjectStep
    <2>2. CallsStay
        BY <1>3, GoesOnCalls DEF MutexInv
    <2> QED BY <2>1, <2>2 DEF MutexInv, MutexTimed, CallsStay
<1>4. ASSUME NEW t \in Task, MutexCall(t) PROVE ObjectInv' /\ MutexTimed'
    <2>1. PICK c : /\ call' = [call EXCEPT ![t] = c]
                   /\ c.op = "timedlock" => c.d \in Nat
        BY <1>4, MutexCallLooks
    <2>2. ObjectInv'
        BY <1>1, <1>4, MutexCallLooks, ObjectNext DEF MutexInv, ObjectStep
    <2>3. \A x \in Task : call'[x] = IF x = t THEN c ELSE call[x]
        BY <1>2, <2>1
    <2> QED BY <2>1, <2>2, <2>3 DEF MutexInv, MutexTimed
<1> QED BY <1>3, <1>4, MutexGoes

(* What keeps a mutex with waiters from losing its owner. *)
LEMMA StillOwned ==
    ASSUME MutexInv, Drains,
           \A o \in Obj : \/ obj'[o].alloc = obj[o].alloc /\ obj'[o].destroyed = obj[o].destroyed
                                /\ mutex'[o].owner = mutex[o].owner
                          \/ k'.wq[waiters(o)] = <<>>
                          \/ ~Usable(o)'
                          \/ mutex'[o].owner # None
    PROVE  NoWaiterWithoutOwner'
<1> SUFFICES ASSUME NEW o \in Obj, k'.wq[waiters(o)] # <<>>, Usable(o)'
             PROVE  mutex'[o].owner # None
    BY DEF NoWaiterWithoutOwner, waiters
<1>1. waiters(o) \in WaitQ
    BY MutexAssumption, FirstQueue
<1>2. k.wq[waiters(o)] # <<>>
    BY <1>1 DEF Drains
<1> QED BY <1>2 DEF MutexInv, NoWaiterWithoutOwner, Usable

-----------------------------------------------------------------------------

(* A waiter of the mutex is a task. *)
LEMMA FirstWaiter ==
    ASSUME ObjectInv, NEW q \in WaitQ, k.wq[q] # <<>>
    PROVE  Head(k.wq[q]) \in Task /\ Head(k.wq[q]) # None
<1>1. k.wq[q] \in Seq(Task)
    BY DEF ObjectInv, KernelInv, TypeInv, TypeOK, Scheduler
<1> QED BY <1>1, SchedAssumption

(* Unlock: the owner changes only with the waiter that is woken. *)
LEMMA MutexUnlockOwned ==
    ASSUME MutexInv, NEW t \in Task, NEW o \in Obj, mutex_unlock_obj(t, o)
    PROVE  MutexData' /\ NoWaiterWithoutOwner'
<1>1. /\ mutex \in [Obj -> [owner : Task \cup {None}, lock_count : Nat]]
      /\ held \in [Obj -> [Task -> Int]] /\ ObjectInv
    BY DEF MutexInv, MutexData
<1>2. PICK q \in WaitQ : q = waiters(o)
    BY MutexAssumption, FirstQueue
<1>3. PICK m : m = IF mutex[o].lock_count # 1
                   THEN [owner |-> t, lock_count |-> mutex[o].lock_count - 1]
                   ELSE IF k.wq[q] # <<>>
                        THEN [owner |-> Head(k.wq[q]), lock_count |-> 1]
                        ELSE [owner |-> None, lock_count |-> 0]
    OBVIOUS
<1>4. /\ mutex' = [mutex EXCEPT ![o] = m]
      /\ held' = [held EXCEPT ![o][t] = @ - 1]
      /\ obj' = obj /\ mutex[o].owner = t /\ mutex[o].lock_count # 0
    BY <1>2, <1>3 DEF mutex_unlock_obj, mutex_init_obj
<1>5. m \in [owner : Task \cup {None}, lock_count : Nat]
    <2>1. mutex[o].lock_count - 1 \in Nat
        BY <1>1, <1>4
    <2>2. k.wq[q] # <<>> => Head(k.wq[q]) \in Task
        BY <1>1, FirstWaiter
    <2> QED BY <1>3, <2>1, <2>2
<1>6. MutexData'
    BY <1>1, <1>4, <1>5 DEF MutexData
<1>7. \A u \in Obj \ {o} : mutex'[u] = mutex[u]
    BY <1>1, <1>4
<1>8. mutex'[o] = m
    BY <1>1, <1>4
<1>9. Drains
    BY <1>1, UnlockWakes, WakesDrain
<1>10. k'.wq[waiters(o)] = <<>> \/ mutex'[o].owner # None
    <2>1. CASE mutex[o].lock_count # 1
        <3>1. m.owner = t
            BY <1>3, <2>1
        <3> QED BY <1>8, <3>1, SchedAssumption
    <2>2. CASE mutex[o].lock_count = 1 /\ k.wq[q] # <<>>
        BY <1>1, <1>3, <1>8, <2>2, FirstWaiter
    <2>3. CASE mutex[o].lock_count = 1 /\ k.wq[q] = <<>>
        BY <1>2, <1>9, <2>3 DEF Drains
    <2> QED BY <2>1, <2>2, <2>3
<1>11. \A u \in Obj : \/ obj'[u].alloc = obj[u].alloc /\ obj'[u].destroyed = obj[u].destroyed
                            /\ mutex'[u].owner = mutex[u].owner
                      \/ k'.wq[waiters(u)] = <<>>
                      \/ ~Usable(u)'
                      \/ mutex'[u].owner # None
    BY <1>4, <1>7, <1>10
<1> QED BY <1>6, <1>9, <1>11, StillOwned

(* Lock of a free mutex, or of one that the caller owns. *)
LEMMA MutexTakeOwned ==
    ASSUME MutexInv, NEW t \in Task, NEW o \in Obj, mutex_take(t, o)
    PROVE  MutexData' /\ NoWaiterWithoutOwner'
<1>1. /\ mutex \in [Obj -> [owner : Task \cup {None}, lock_count : Nat]]
      /\ held \in [Obj -> [Task -> Int]]
    BY DEF MutexInv, MutexData
<1>2. k' = k /\ obj' = obj /\ held' = [held EXCEPT ![o][t] = @ + 1]
    BY DEF mutex_take, ReturnUnchanged
<1>3. PICK m \in [owner : {t}, lock_count : Nat] : mutex' = [mutex EXCEPT ![o] = m]
    <2>1. CASE mutex' = [mutex EXCEPT ![o] = [owner |-> t, lock_count |-> 1]]
        BY <2>1
    <2>2. CASE mutex[o].owner = t /\ mutex' = [mutex EXCEPT ![o].lock_count = @ + 1]
        <3>1. mutex' = [mutex EXCEPT ![o] = [mutex[o] EXCEPT !.lock_count = @ + 1]]
            BY <1>1, <2>2
        <3>2. [mutex[o] EXCEPT !.lock_count = @ + 1] \in [owner : {t}, lock_count : Nat]
            BY <1>1, <2>2
        <3> QED BY <3>1, <3>2
    <2> QED BY <2>1, <2>2 DEF mutex_take
<1>4. MutexData'
    BY <1>1, <1>2, <1>3 DEF MutexData
<1>5. mutex'[o].owner # None /\ \A u \in Obj \ {o} : mutex'[u] = mutex[u]
    BY <1>1, <1>3, SchedAssumption
<1> QED BY <1>2, <1>4, <1>5, StillOwned DEF Drains

(* The operations of a mutex. *)
LEMMA MutexStepOwned ==
    ASSUME MutexInv, NEW t \in Task, MutexStep(t)
    PROVE  MutexData' /\ NoWaiterWithoutOwner'
<1> USE DEF taskvars, history
<1>1. /\ mutex \in [Obj -> [owner : Task \cup {None}, lock_count : Nat]]
      /\ held \in [Obj -> [Task -> Int]] /\ ObjectInv
    BY DEF MutexInv, MutexData
<1>2. ASSUME NEW o \in Obj, mutex_take(t, o) \/ mutex_unlock_obj(t, o)
      PROVE  MutexData' /\ NoWaiterWithoutOwner'
    BY <1>2, MutexTakeOwned, MutexUnlockOwned
<1>3. ASSUME NEW o \in Obj, mutex_block(t, o) PROVE MutexData' /\ NoWaiterWithoutOwner'
    <2>1. PICK timed \in BOOLEAN : call[t].o = o /\ Usable(o) /\ WaitsOn(t, Queues[o][1], timed)
        BY <1>3, BlockWaits
    <2>2. /\ mutex[o].owner # None /\ UNCHANGED <<mutex, held>> /\ obj' = obj
        BY <1>3 DEF mutex_block, OwnedByOther, BlockOn, objvars
    <2>3. PICK q \in WaitQ : q = Queues[o][1]
        BY MutexAssumption, FirstQueue
    <2>4. BlocksOrderly(k, k', t, {q})
        BY <1>1, <2>1, <2>3, WaitsOnFacts DEF ObjectInv
    <2>5. ASSUME NEW u \in Obj, k'.wq[waiters(u)] # <<>>, Usable(u) PROVE mutex[u].owner # None
        <3>1. waiters(u) \in WaitQ
            BY MutexAssumption, FirstQueue
        <3>2. CASE waiters(u) = q
            <4>1. u = o
                BY <2>3, <3>2, MutexAssumption, FirstQueue, ObjectAssumption
            <4> QED BY <2>2, <4>1
        <3>3. CASE waiters(u) # q
            <4>1. k.wq[waiters(u)] # <<>>
                BY <2>4, <2>5, <3>1, <3>3 DEF BlocksOrderly
            <4> QED BY <2>5, <4>1 DEF MutexInv, NoWaiterWithoutOwner
        <3> QED BY <3>2, <3>3
    <2> QED BY <1>1, <2>2, <2>5 DEF MutexData, NoWaiterWithoutOwner, waiters, Usable
<1>4. ASSUME NEW o \in Obj, mutex_destroy_obj(t, o) PROVE MutexData' /\ NoWaiterWithoutOwner'
    <2>1. /\ mutex' = [mutex EXCEPT ![o] = mutex_init_obj]
          /\ held' = [held EXCEPT ![o] = NobodyHolds]
          /\ obj' = [obj EXCEPT ![o].destroyed = TRUE] /\ DestroyStep(t)
        BY <1>4 DEF mutex_destroy_obj, Destroy, DestroyStep
    <2>2. MutexData'
        BY <1>1, <2>1 DEF MutexData, mutex_init_obj, NobodyHolds
    <2>3. obj \in [Obj -> [alloc : BOOLEAN, open : BOOLEAN, destroyed : BOOLEAN]]
        BY <1>1 DEF ObjectInv, ObjectData
    <2>4. ~Usable(o)' /\ \A u \in Obj \ {o} : mutex'[u] = mutex[u] /\ obj'[u] = obj[u]
        BY <1>1, <2>1, <2>3 DEF Usable
    <2> QED BY <1>1, <2>1, <2>2, <2>4, DestroyDrains, StillOwned
<1>5. CASE trt_mutex_destroy(t)
    <2>1. UNCHANGED <<mutex, held>> /\ DestroyStep(t)
        BY <1>5 DEF trt_mutex_destroy, DestroyStep
    <2>2. obj \in [Obj -> [alloc : BOOLEAN, open : BOOLEAN, destroyed : BOOLEAN]]
        BY <1>1 DEF ObjectInv, ObjectData
    <2>3. PICK u : u = call[t].o
        OBVIOUS
    <2>4. obj' \in {obj, [obj EXCEPT ![u].open = FALSE], [obj EXCEPT ![u] = NoObj]}
        BY <1>5, <2>3 DEF trt_mutex_destroy, WakeDestroyed, Close, Free, objvars
    <2>5. \A v \in Obj : \/ obj'[v].alloc = obj[v].alloc /\ obj'[v].destroyed = obj[v].destroyed
                         \/ ~Usable(v)'
        BY <2>2, <2>4 DEF Usable, NoObj
    <2> QED BY <1>1, <2>1, <2>5, DestroyDrains, StillOwned DEF MutexData
<1>6. CASE mutex_lock_return(t)
    <2>1. k' = k /\ mutex' = mutex /\ obj' = obj
        BY <1>6 DEF mutex_lock_return, ReturnUnchanged, UseFreed
    <2>2. held' \in [Obj -> [Task -> Int]]
        <3>1. call[t].o \in Obj \cup {None}
            BY <1>1 DEF ObjectInv, ObjectData, CallRecord
        <3>2. held' = held \/ \E u \in Obj : held' = [held EXCEPT ![u][t] = @ + 1]
            BY <1>6, <3>1 DEF mutex_lock_return
        <3> QED BY <1>1, <3>2
    <2> QED BY <1>1, <2>1, <2>2, StillOwned DEF MutexData, Drains
<1>7. ASSUME \/ mutex_gone(t)
             \/ \E o \in Obj : \/ mutex_trylock_busy(t, o) \/ mutex_lock_refused(t, o)
                               \/ mutex_unlock_refused(t, o)
      PROVE  MutexData' /\ NoWaiterWithoutOwner'
    <2>1. Wakes /\ UNCHANGED <<mutex, held, obj>>
        BY <1>7 DEF mutex_gone, OperateFreed, UseFreed, OperateGone, Wakes, mutex_trylock_busy,
            mutex_lock_refused, mutex_unlock_refused, ReturnUnchanged
    <2> QED BY <1>1, <2>1, WakesDrain, StillOwned DEF MutexData
<1> QED BY <1>2, <1>3, <1>4, <1>5, <1>6, <1>7 DEF MutexStep

(* Every step of the system. *)
LEMMA MutexOwned ==
    ASSUME MutexInv, [MutexNext]_<<vars, mutexvars>>
    PROVE  MutexData' /\ NoWaiterWithoutOwner'
<1>1. /\ mutex \in [Obj -> [owner : Task \cup {None}, lock_count : Nat]]
      /\ held \in [Obj -> [Task -> Int]] /\ ObjectInv /\ ObjectsOnly
    BY MutexAssumption DEF MutexInv, MutexData, ObjectsOnly
<1>2. ASSUME NEW t \in Task, MutexCall(t) PROVE MutexData' /\ NoWaiterWithoutOwner'
    <2>1. UNCHANGED <<k, mutex, held, obj>>
        BY <1>2, MutexCallLooks
    <2> QED BY <1>1, <2>1, StillOwned DEF MutexData, Drains
<1>3. CASE UNCHANGED <<vars, mutexvars>> \/ (Next /\ UNCHANGED mutexvars)
    <2>1. [Next]_vars /\ UNCHANGED objvars /\ UNCHANGED <<mutex, held>> /\ obj' = obj
        BY <1>3 DEF mutexvars, objvars
    <2> QED BY <1>1, <2>1, KernelDrains, StillOwned DEF MutexData
<1>4. ASSUME NEW o \in Obj, trt_mutex_create(o) PROVE MutexData' /\ NoWaiterWithoutOwner'
    <2>1. /\ mutex' = [mutex EXCEPT ![o] = mutex_init_obj] /\ held' = held
          /\ obj' = [obj EXCEPT ![o] = [alloc |-> TRUE, open |-> TRUE, destroyed |-> FALSE]]
          /\ k' = k /\ ~obj[o].alloc
        BY <1>4 DEF trt_mutex_create, Create, vars
    <2>2. MutexData'
        BY <1>1, <2>1 DEF MutexData, mutex_init_obj
    <2>3. k'.wq[waiters(o)] = <<>>
        <3>1. ~HasWaiters(o)
            BY <1>1, <2>1 DEF ObjectInv, FreedHasNoWaiter
        <3>2. k.wq[waiters(o)] = <<>>
            BY <3>1, MutexAssumption, FirstQueue DEF HasWaiters
        <3> QED BY <2>1, <3>2
    <2>4. obj \in [Obj -> [alloc : BOOLEAN, open : BOOLEAN, destroyed : BOOLEAN]]
        BY <1>1 DEF ObjectInv, ObjectData
    <2>5. \A u \in Obj \ {o} : mutex'[u] = mutex[u] /\ obj'[u] = obj[u]
        BY <1>1, <2>1, <2>4
    <2> QED BY <2>1, <2>2, <2>3, <2>5, StillOwned DEF Drains
<1>5. ASSUME NEW t \in Task, MutexStep(t) PROVE MutexData' /\ NoWaiterWithoutOwner'
    BY <1>5, MutexStepOwned
<1> QED BY <1>2, <1>3, <1>4, <1>5 DEF MutexNext, MutexCreate

(* The invariant of the mutexes. *)
LEMMA MutexAlways == MutexSpec => []MutexInv
<1>1. MutexInit => MutexInv
    <2> SUFFICES ASSUME MutexInit PROVE MutexInv
        OBVIOUS
    <2>1. ObjectInv /\ \A w \in WaitQ : k.wq[w] = <<>>
        BY ObjectInit DEF MutexInit, ObjInit, Init, sched_init
    <2>2. MutexData
        BY DEF MutexInit, MutexData, mutex_init_obj, NobodyHolds
    <2>3. MutexTimed
        BY DEF MutexInit, ObjInit, MutexTimed, NoCall
    <2>4. NoWaiterWithoutOwner
        BY <2>1, MutexAssumption, FirstQueue DEF NoWaiterWithoutOwner
    <2> QED BY <2>1, <2>2, <2>3, <2>4 DEF MutexInv
<1>2. MutexInv /\ [MutexNext]_<<vars, mutexvars>> => MutexInv'
    BY MutexObjects, MutexOwned DEF MutexInv
<1> QED BY <1>1, <1>2, PTL DEF MutexSpec

-----------------------------------------------------------------------------

(* Every variable of the semaphores keeps its type: sem_post_obj and the   *)
(* waits of semaphore.c keep a count a natural number.                     *)
THEOREM SemTypeCorrect == SemSpec => []SemTypeOK
<1>1. SemInv => SemTypeOK
    BY DEF SemInv, SemData, ObjectInv, ObjectData, CallRecord, KernelInv, TypeInv,
        SemTypeOK, ObjTypeOK
<1> QED BY <1>1, SemAlways, PTL

(* trt_sem_destroy frees no semaphore with a task in its wait queue.       *)
THEOREM SemFreedUnwaited == SemSpec => []FreedHasNoWaiter
<1>1. SemInv => FreedHasNoWaiter
    BY DEF SemInv, ObjectInv
<1> QED BY <1>1, SemAlways, PTL

(* sem_post_obj and sem_post_from_isr_obj leave no token beside a waiter.  *)
THEOREM NoTokenIdles == SemSpec => []NoWaiterBesideToken
<1>1. SemInv => NoWaiterBesideToken
    BY DEF SemInv
<1> QED BY <1>1, SemAlways, PTL

(* trt_mutex_destroy frees no mutex with a task in its wait queue.         *)
THEOREM MutexFreedUnwaited == MutexSpec => []FreedHasNoWaiter
<1>1. MutexInv => FreedHasNoWaiter
    BY DEF MutexInv, ObjectInv
<1> QED BY <1>1, MutexAlways, PTL

(* mutex_unlock_obj leaves no task waiting for a free mutex.               *)
THEOREM WaitersHaveAnOwner == MutexSpec => []NoWaiterWithoutOwner
<1>1. MutexInv => NoWaiterWithoutOwner
    BY DEF MutexInv
<1> QED BY <1>1, MutexAlways, PTL

-----------------------------------------------------------------------------

(* Systems whose tasks stay: a task that was deleted after it was woken    *)
(* takes the token or the mutex it was given with it.                      *)
TasksStay == Calls \cap {"delete", "exit", "create"} = {}

(* The CPU is neither taken from a wait nor given to it unasked.           *)
Spares(x) ==
    /\ k.state[x] \in {"READY", "RUNNING"} =>
           k'.state[x] \in {"READY", "RUNNING"} /\ k'.wres[x] = k.wres[x]
    /\ k'.state[x] = "BLOCKED" => k.state[x] = "BLOCKED"

(* A task in an object's wait exists, and while it is blocked no operation *)
(* has woken it.                                                           *)
Settled ==
    \A x \in Task : /\ pc[x] \notin CreatePc \cup {"d_obj"}
                    /\ ObjWait(x) => k.state[x] \notin {"DELETED", "UNUSED"}
                    /\ ObjWait(x) /\ k.state[x] = "BLOCKED" => k.wres[x] # "OBJECT"

(* No task is deleted. *)
NoneDeleted == \A x \in Task : k'.state[x] = "DELETED" => k.state[x] = "DELETED"

(* Without deletion, a task that does not execute is left alone, switched or woken. *)
LEMMA TameSpares ==
    ASSUME NoneDeleted, NEW x \in Task, Tame(k, k', x)
    PROVE  Spares(x)
BY DEF NoneDeleted, Tame, Kept, Turned, Spares

(* task_delay_ticks changes no state but that of the caller. *)
LEMMA AsleepStates ==
    ASSUME k \in Scheduler, NEW t \in Task, NEW due \in Ticks
    PROVE  \A x \in Task : Asleep(k, t, due).state[x] = IF x = t THEN "BLOCKED" ELSE k.state[x]
<1> DEFINE b == [k EXCEPT !.wakeup[t] = due, !.timer[t] = TRUE,
                          !.wres[t] = "NONE", !.state[t] = "BLOCKED"]
           r == sched_ready_remove(b, t)
<1>1. b \in Scheduler /\ \A x \in Task : b.state[x] = IF x = t THEN "BLOCKED" ELSE k.state[x]
    BY DEF Scheduler, TaskState, WaitResult
<1> HIDE DEF b
<1>2. r.state = b.state
    BY <1>1 DEF sched_ready_remove, StateListDel, Scheduler
<1> HIDE DEF r
<1>3. sched_timeout_insert(r, t).state = r.state
    BY DEF sched_timeout_insert
<1>4. Asleep(k, t, due) = sched_timeout_insert(r, t)
    BY DEF Asleep, r, b
<1> QED BY <1>1, <1>2, <1>3, <1>4

(* No step of a task deletes or creates one. *)
LEMMA StepDeletesNone ==
    ASSUME TypeInv, AlwaysInv, TasksStay, ObjectsOnly, NoWakeAll, Settled,
           NEW t \in Task, AppCall(t) \/ KernelStep(t)
    PROVE  NoneDeleted /\ \A x \in Task : pc'[x] \notin CreatePc \cup {"d_obj"}
<1> USE DEF taskvars, history
<1>0. /\ k \in Scheduler /\ pc \in [Task -> Pc] /\ ret \in [Task -> RetPc]
      /\ \A x \in Task : pc[x] \notin CreatePc \cup {"d_obj"}
      /\ k.state \in [Task -> TaskState]
    BY DEF TypeInv, TypeOK, Settled, Scheduler
<1>1. ASSUME NEW p, Goto(t, p) \/ UNCHANGED pc, p \notin CreatePc \cup {"d_obj"}
      PROVE  \A x \in Task : pc'[x] \notin CreatePc \cup {"d_obj"}
    BY <1>0, <1>1 DEF Goto
<1>2. CASE AppCall(t)
    <2>1. /\ ~Call(t, "wait") /\ ~Call(t, "timedwait") /\ ~Call(t, "wake")
          /\ ~Call(t, "delete") /\ ~Call(t, "exit") /\ ~Call(t, "create")
        BY DEF Call, ObjectsOnly, TasksStay
    <2>2. \/ task_yield(t) \/ (\E d \in Delays : task_sleep(t, d))
          \/ sched_lock(t) \/ sched_unlock(t)
        BY <1>2, <2>1 DEF AppCall, trt_wait_q_block, trt_wait_q_block_ticks, trt_wait_q_wake_one,
            trt_wait_q_wake_all, task_delete, task_exit, task_create
    <2>3. \E p \in {"y_chk", "sl_loop"} : Goto(t, p) \/ UNCHANGED pc
        BY <2>2 DEF task_yield, task_sleep, sched_lock, sched_unlock, CallYield
    <2>4. k'.state = k.state
        BY <1>0, <2>2 DEF task_yield, task_sleep, sched_lock, sched_unlock, sched_set_pending,
            Scheduler
    <2> QED BY <1>1, <2>3, <2>4 DEF NoneDeleted, CreatePc
<1>3. CASE task_yield_step(t)
    <2>1. \E p \in YieldPc \cup RetPc : Goto(t, p)
        BY <1>0, <1>3 DEF task_yield_step, yield_check, yield_link, mask_load, mask_store,
            arch_yield, YieldPc
    <2>2. PICK p \in YieldPc \cup RetPc : Goto(t, p)
        BY <2>1
    <2>3. p \notin CreatePc \cup {"d_obj"}
        BY <2>2 DEF YieldPc, RetPc, CreatePc
    <2>4. k'.state = k.state \/ k'.state = [k.state EXCEPT ![t] = "READY"]
        BY <1>0, <1>3 DEF task_yield_step, yield_check, yield_link, mask_load, mask_store,
            arch_yield, sched_set_pending, ready_link, Scheduler
    <2>5. NoneDeleted
        BY <1>0, <2>4 DEF NoneDeleted
    <2> QED BY <1>1, <2>2, <2>3, <2>5
<1>4. CASE sleep_loop(t) \/ sleep_block(t) \/ wait_return(t)
    <2>1. \E p \in {"run", "sl_crit", "y_chk"} : Goto(t, p)
        BY <1>4 DEF sleep_loop, sleep_block, sleep_done, wait_return, CallYield
    <2>2. NoneDeleted
        <3>1. CASE k' = k
            BY <3>1 DEF NoneDeleted
        <3>2. CASE k' # k
            <4>1. k' = Asleep(k, t, reg[t].due)
                BY <1>4, <3>2 DEF sleep_loop, sleep_block, sleep_done, wait_return, Asleep
            <4>2. reg[t].due \in Ticks
                BY DEF TypeInv, TypeOK, Locals
            <4>3. \A x \in Task : k'.state[x] = IF x = t THEN "BLOCKED" ELSE k.state[x]
                BY <1>0, <4>1, <4>2, AsleepStates
            <4> QED BY <4>3 DEF NoneDeleted
        <3> QED BY <3>1, <3>2
    <2> QED BY <1>1, <2>1, <2>2 DEF CreatePc
<1>5. ~wake_all_round(t, "wq_all", "OBJECT", "run")
    BY DEF wake_all_round, At, NoWakeAll
<1>6. ~task_delete_found(t) /\ ~task_create_step(t)
    BY <1>0 DEF task_delete_found, task_create_step, create_link, mask_load, mask_store,
        count_load, count_store, create_handle, create_set_handle, create_fail, At, CreatePc
<1>7. CASE t = Idle /\ (cleanup_pop \/ idle_enable)
    <2>1. \E p \in IdlePc : Goto(t, p)
        BY <1>7 DEF cleanup_pop, idle_enable, IdlePc
    <2>2. k'.state = k.state
        BY <1>0, <1>7 DEF cleanup_pop, idle_enable, Scheduler
    <2> QED BY <1>1, <2>1, <2>2 DEF NoneDeleted, IdlePc, CreatePc
<1>8. CASE t = Idle /\ cleanup_free
    <2>1. PICK u : u = reg[Idle].obj
        OBVIOUS
    <2>2. k' = Freed(k, u) /\ pc' = [pc EXCEPT ![Idle] = "i_clean", ![u] = "run"]
        BY <1>8, <2>1 DEF cleanup_free, Freed
    <2>3. \A x \in Task : pc'[x] \in {pc[x], "i_clean", "run"}
        BY <1>0, <2>2
    <2>4. \A x \in Task : k'.state[x] \in {k.state[x], "UNUSED"}
        BY <1>0, <2>2 DEF Freed, Scheduler
    <2> QED BY <1>0, <2>3, <2>4 DEF NoneDeleted, CreatePc
<1> QED BY <1>2, <1>3, <1>4, <1>5, <1>6, <1>7, <1>8 DEF KernelStep, idle_step

(* Nor does a step of the started kernel. *)
LEMMA RunDeletesNone ==
    ASSUME TypeInv, AlwaysInv, TasksStay, ObjectsOnly, NoWakeAll, Settled, [Next]_vars, ~Boot
    PROVE  NoneDeleted /\ \A x \in Task : pc'[x] \notin CreatePc \cup {"d_obj"}
<1>0. /\ k \in Scheduler /\ pc \in [Task -> Pc] /\ Orderly(k)
      /\ \A x \in Task : pc[x] \notin CreatePc \cup {"d_obj"}
    BY DEF TypeInv, TypeOK, Settled, AlwaysInv
<1>1. CASE UNCHANGED vars
    BY <1>0, <1>1 DEF NoneDeleted, vars
<1>2. CASE Systick \/ Irq
    <2>1. k' = k /\ Interrupted
        BY <1>2 DEF Systick, SysTick, Irq, ObjectsOnly
    <2>2. \A x \in Task : pc'[x] \in {pc[x], "i_clean"}
        BY <1>0, <2>1 DEF Interrupted
    <2> QED BY <1>0, <2>1, <2>2 DEF NoneDeleted, CreatePc
<1>3. CASE sched_wake_expired
    <2>1. pc' = pc /\ k' = sched_wake_expired_one(k) /\ k.timeout # <<>>
        BY <1>3 DEF sched_wake_expired, HeadExpired
    <2>2. PICK t \in Task : t = Head(k.timeout)
        BY <1>0, <2>1 DEF Scheduler
    <2>3. k'.state = k.state \/ k'.state = [k.state EXCEPT ![t] = "READY"]
        BY <1>0, <2>1, <2>2 DEF sched_wake_expired_one, sched_ready_enqueue, ready_link,
            StateListDel, Scheduler
    <2>4. NoneDeleted
        BY <1>0, <2>3 DEF NoneDeleted, Scheduler
    <2> QED BY <1>0, <2>1, <2>4
<1>4. CASE TrapReturn
    <2>1. pc' = pc /\ Turn(k, k')
        BY <1>4, TrapChosen DEF TrapReturn, Chosen
    <2> QED BY <1>0, <2>1 DEF Turn, NoneDeleted
<1> QED BY <1>1, <1>2, <1>3, <1>4, StepDeletesNone DEF Next, TrapStep, CorruptLoop

-----------------------------------------------------------------------------

(* task_yield leaves the result of the task that waits. *)
LEMMA YieldSpares ==
    ASSUME TypeInv, NEW t \in Task, task_yield_step(t)
    PROVE  Spares(t)
<1> USE DEF taskvars, history
<1>1. k \in Scheduler
    BY DEF TypeInv, TypeOK
<1>2. k'.wres = k.wres
    BY <1>1 DEF task_yield_step, yield_check, yield_link, mask_load, mask_store,
        arch_yield, sched_set_pending, ready_link, Scheduler
<1>3. \/ k'.state = k.state
      \/ k.state[t] = "RUNNING" /\ k'.state = [k.state EXCEPT ![t] = "READY"]
    BY <1>1 DEF task_yield_step, yield_check, yield_link, mask_load, mask_store,
        arch_yield, sched_set_pending, ready_link, Scheduler
<1>4. k'.state[t] = k.state[t] \/ (k.state[t] = "RUNNING" /\ k'.state[t] = "READY")
    BY <1>1, <1>3 DEF Scheduler
<1> QED BY <1>2, <1>4 DEF Spares

(* What a task does to those that wait in an object, itself included.      *)
LEMMA StepSpares ==
    ASSUME TypeInv, AlwaysInv, TasksStay, ObjectsOnly, NoWakeAll, Settled,
           NEW t \in Task, AppCall(t) \/ KernelStep(t)
    PROVE  \A x \in Task : ObjWait(x) => Spares(x)
<1>1. Advances /\ NoneDeleted /\ Runs(t)
    BY TasksAlways, StepDeletesNone, StepRuns
<1>2. k.current = t
    BY <1>1 DEF Runs
<1>3. ASSUME NEW x \in Task, x # t, ObjWait(x) PROVE Spares(x)
    <2>1. k.state[x] # "DELETED"
        BY <1>3 DEF Settled
    <2>2. Tame(k, k', x)
        BY <1>1, <1>2, <1>3, <2>1 DEF Advances
    <2> QED BY <1>1, <2>2, TameSpares
<1>4. ASSUME ObjWait(t) PROVE Spares(t)
    <2>1. pc[t] \notin ObjectPc
        BY StepPlace
    <2>2. pc[t] \in YieldPc
        BY <1>4, <2>1 DEF ObjWait, ObjectPc
    <2>3. CASE AppCall(t)
        <3>1. pc[t] = "run"
            BY <2>3 DEF AppCall, task_yield, task_sleep, sched_lock, sched_unlock,
                trt_wait_q_block, trt_wait_q_block_ticks, trt_wait_q_wake_one,
                trt_wait_q_wake_all, task_delete, task_exit, task_create, Call, At
        <3> QED BY <2>2, <3>1 DEF YieldPc
    <2>4. CASE KernelStep(t)
        <3>1. task_yield_step(t)
            BY <2>2, <2>4 DEF KernelStep, sleep_loop, sleep_block, wait_return, wake_all_round,
                task_delete_found, task_create_step, create_link, mask_load, mask_store, count_load,
                count_store, create_handle, create_set_handle, create_fail,
                idle_step, cleanup_pop, cleanup_free, idle_enable, At, YieldPc
        <3> QED BY <3>1, YieldSpares
    <2> QED BY <2>3, <2>4
<1> QED BY <1>3, <1>4

(* Before the first task runs nobody waits. *)
LEMMA BootWaits ==
    ASSUME TypeInv, AlwaysInv, Boot
    PROVE  /\ \A x \in Task : ~ObjWait(x)
           /\ \A x \in Task : pc'[x] \in {"run"} \cup IdlePc
<1>1. pc \in [Task -> Pc] /\ boot # "done"
    BY DEF TypeInv, TypeOK, Boot, kernel_init, app_main_create, app_main_object, rtos_start
<1>2. \A x \in Task : pc[x] \in {"run"} \cup IdlePc
    <2>1. ~k.started /\ \A x \in Task \ {Idle} : pc[x] = "run"
        BY <1>1 DEF AlwaysInv, BootOK
    <2>2. CASE boot = "kernel_init"
        <3>1. \A x \in Task : k.state[x] = "UNUSED"
            BY <2>2 DEF AlwaysInv, BootOK, sched_init
        <3> QED BY <3>1 DEF AlwaysInv, UnusedAt
    <2>3. CASE boot # "kernel_init"
        BY <2>1, <2>3 DEF AlwaysInv, BootOK
    <2> QED BY <2>2, <2>3
<1>3. \A x \in Task : pc'[x] \in {pc[x], "i_clean"}
    BY <1>1 DEF Boot, kernel_init, app_main_create, app_main_object, rtos_start
<1> QED BY <1>2, <1>3 DEF ObjWait, IdlePc, YieldPc

(* Every step of the kernel. *)
LEMMA KernelSpares ==
    ASSUME ObjectInv, Settled, TasksStay, ObjectsOnly, [Next]_vars
    PROVE  /\ Settled'
           /\ \A x \in Task : ObjWait(x) => ObjWait(x)' /\ Spares(x) /\ (k'.wres[x] = "OBJECT" => k.wres[x] = "OBJECT")
           /\ \A x \in Task : ObjWait(x)' => ObjWait(x)
<1>1. /\ KernelInv /\ TypeInv /\ AlwaysInv /\ NoWakeAll /\ k \in Scheduler /\ Orderly(k)
      /\ KernelInv'
    BY KernelNext DEF ObjectInv, KernelInv, CallAt, NoWakeAll, TypeInv, TypeOK, AlwaysInv
<1>2. CASE Boot
    <2>1. (\A x \in Task : ~ObjWait(x)) /\ \A x \in Task : pc'[x] \in {"run"} \cup IdlePc
        BY <1>1, <1>2, BootWaits
    <2>2. \A x \in Task : ~ObjWait(x)' /\ pc'[x] \notin CreatePc \cup {"d_obj"}
        BY <2>1 DEF ObjWait, IdlePc, YieldPc, CreatePc
    <2> QED BY <2>1, <2>2 DEF Settled
<1>3. CASE ~Boot
    <2>1. KernelKeeps /\ NoneDeleted /\ \A x \in Task : pc'[x] \notin CreatePc \cup {"d_obj"}
        BY <1>1, <1>3, KernelRuns, RunDeletesNone
    <2>2. ASSUME NEW x \in Task, ObjWait(x) PROVE Spares(x)
        <3>1. ASSUME NEW t \in Task, AppCall(t) \/ KernelStep(t) PROVE Spares(x)
            BY <1>1, <2>2, <3>1, StepSpares
        <3>2. CASE UNCHANGED vars
            BY <3>2 DEF vars, Spares
        <3>3. CASE Systick \/ Irq
            BY <3>3 DEF Systick, SysTick, Irq, ObjectsOnly, Spares
        <3>4. CASE sched_wake_expired
            <4>1. k.timeout # <<>> /\ k' = sched_wake_expired_one(k)
                BY <3>4 DEF sched_wake_expired, HeadExpired
            <4>2. Tame(k, k', x)
                BY <1>1, <4>1, ExpiredOrderly
            <4> QED BY <2>1, <4>2, TameSpares
        <3>5. CASE TrapReturn
            <4>1. Tame(k, k', x)
                BY <1>1, <3>5, TrapChosen, TurnTame DEF Chosen
            <4> QED BY <2>1, <4>1, TameSpares
        <3> QED BY <1>3, <3>1, <3>2, <3>3, <3>4, <3>5 DEF Next, TrapStep, CorruptLoop
    <2>3. ASSUME NEW x \in Task
          PROVE  /\ ObjWait(x) <=> ObjWait(x)'
                 /\ k'.wres[x] = "OBJECT" => k.wres[x] = "OBJECT"
        <3>1. Stands(x) /\ HandsOff(k, k')
            BY <2>1 DEF KernelKeeps
        <3> QED BY <3>1 DEF Stands, HandsOff, Settled
    <2>4. ASSUME NEW x \in Task, ObjWait(x)'
          PROVE  /\ k'.state[x] \notin {"DELETED", "UNUSED"}
                 /\ k'.state[x] = "BLOCKED" => k'.wres[x] # "OBJECT"
        <3>1. ObjWait(x) /\ Spares(x)
            BY <2>2, <2>3, <2>4
        <3>2. k'.state[x] # "DELETED"
            BY <2>1, <3>1 DEF NoneDeleted, Settled
        <3>3. k'.state[x] # "UNUSED"
            <4>1. UnusedAt(x)'
                BY <1>1 DEF KernelInv, AlwaysInv
            <4>2. pc'[x] # "run"
                BY <2>4 DEF ObjWait, YieldPc
            <4> QED BY <4>1, <4>2 DEF UnusedAt
        <3> QED BY <2>3, <3>1, <3>2, <3>3 DEF Spares, Settled
    <2>5. Settled'
        BY <2>1, <2>4 DEF Settled
    <2> QED BY <2>2, <2>3, <2>5
<1> QED BY <1>2, <1>3

-----------------------------------------------------------------------------

(* A waiter of an object is in a call of this object. *)
WaitersKnown ==
    \A o \in Obj : \A i \in DOMAIN Queues[o], x \in Task :
        Contains(k.wq[Queues[o][i]], x) => ObjWait(x) /\ call[x].o = o

WaitsInv == ObjectInv /\ Settled /\ WaitersKnown

(* Nobody starts or ends a wait, and nobody's is over. *)
GrantsStay ==
    \A x \in Task, u \in Obj : /\ Waited(x, u)' <=> Waited(x, u)
                               /\ Granted(x, u)' <=> Granted(x, u)

(* The meaning of Waited, now and in the next state. *)
LEMMA WaitedMeans ==
    ASSUME NEW x \in Task, NEW u \in Obj
    PROVE  /\ Waited(x, u) <=> call[x].o = u /\ ObjWait(x)
           /\ Waited(x, u)' <=> call'[x].o = u /\ ObjWait(x)'
BY DEF Waited, ObjWait

(* The kernel on its own. *)
LEMMA KernelGrants ==
    ASSUME WaitsInv, TasksStay, ObjectsOnly, [Next]_vars, UNCHANGED objvars
    PROVE  Settled' /\ WaitersKnown' /\ GrantsStay
<1>1. /\ ObjectInv /\ Settled /\ KernelInv /\ TypeInv /\ AlwaysInv /\ k \in Scheduler
      /\ call' = call
    BY DEF WaitsInv, ObjectInv, KernelInv, TypeInv, TypeOK, objvars
<1>2. /\ Settled'
      /\ \A x \in Task : ObjWait(x) => ObjWait(x)' /\ Spares(x) /\ (k'.wres[x] = "OBJECT" => k.wres[x] = "OBJECT")
      /\ \A x \in Task : ObjWait(x)' => ObjWait(x)
    BY <1>1, KernelSpares
<1>3. ASSUME NEW x \in Task, NEW u \in Obj
      PROVE  /\ Waited(x, u)' <=> Waited(x, u)
             /\ Granted(x, u)' <=> Granted(x, u)
    <2>1. Waited(x, u)' <=> Waited(x, u)
        BY <1>1, <1>2, WaitedMeans
    <2>2. ASSUME Waited(x, u) PROVE Granted(x, u)' <=> Granted(x, u)
        <3>1. /\ ObjWait(x) /\ Spares(x)
              /\ k'.wres[x] = "OBJECT" => k.wres[x] = "OBJECT"
              /\ k.state[x] \in {"READY", "RUNNING", "BLOCKED"}
              /\ k.state[x] = "BLOCKED" => k.wres[x] # "OBJECT"
            <4>1. k.state[x] \in TaskState
                BY <1>1 DEF Scheduler
            <4> QED BY <1>1, <1>2, <2>2, <4>1, WaitedMeans DEF Settled, TaskState
        <3> QED BY <2>1, <2>2, <3>1 DEF Granted, Spares
    <2> QED BY <2>1, <2>2 DEF Granted
<1>4. Leaves(k, k')
    <2>1. CASE ~Boot
        BY <1>1, <2>1, KernelRuns DEF KernelKeeps, HandsOff
    <2>2. CASE Boot
        <3>1. boot # "done"
            BY <2>2 DEF Boot, kernel_init, app_main_create, app_main_object, rtos_start
        <3>2. \A w \in WaitQ : k'.wq[w] = <<>>
            BY <1>1, <2>2, <3>1, BootNoWaiter DEF KernelInv, BootLists, AlwaysInv
        <3>3. \A x : ~Contains(<<>>, x)
            BY DEF Contains
        <3> QED BY <3>2, <3>3 DEF Leaves
    <2> QED BY <2>1, <2>2
<1>5. WaitersKnown'
    <2> SUFFICES ASSUME NEW o \in Obj, NEW i \in DOMAIN Queues[o], NEW x \in Task,
                        Contains(k'.wq[Queues[o][i]], x)
                 PROVE  ObjWait(x)' /\ call'[x].o = o
        BY DEF WaitersKnown
    <2>1. Contains(k.wq[Queues[o][i]], x)
        BY <1>4, QueuesType DEF Leaves
    <2> QED BY <1>1, <1>2, <2>1 DEF WaitsInv, WaitersKnown
<1> QED BY <1>2, <1>3, <1>5 DEF GrantsStay

-----------------------------------------------------------------------------
(* A step of task t in an object's call, where the others stay. *)
Alone(t) == \A x \in Task \ {t} : pc'[x] = pc[x] /\ ret'[x] = ret[x] /\ call'[x] = call[x]

(* It changes no state, or it wakes task h. *)
Quietly == k'.state = k.state /\ k'.wres = k.wres

Rouses(h, result) ==
    /\ h \in Task
    /\ k.state[h] = "BLOCKED"
    /\ k'.state = [k.state EXCEPT ![h] = "READY"]
    /\ k'.wres = [k.wres EXCEPT ![h] = result]

(* A wake takes the first waiter, if there is one. *)
LEMMA WakeRouses ==
    ASSUME k \in Scheduler, Orderly(k), NEW q \in WaitQ, NEW result \in WaitResult \ {"NONE"},
           \/ k' = trt_wait_q_wake_one_result_locked(k, q, result)
           \/ k' = trt_wait_q_wake_one_from_isr(k, q) /\ result = "OBJECT"
    PROVE  IF k.wq[q] = <<>>
           THEN Quietly
           ELSE Contains(k.wq[q], Head(k.wq[q])) /\ Rouses(Head(k.wq[q]), result)
<1>1. CASE k.wq[q] = <<>>
    BY <1>1 DEF trt_wait_q_wake_one_result_locked, trt_wait_q_wake_one_from_isr, Quietly
<1>2. CASE k.wq[q] # <<>>
    <2>1. PICK h \in Task : h = Head(k.wq[q])
        BY <1>2 DEF Scheduler
    <2>2. Contains(k.wq[q], h)
        <3>1. k.wq[q] \in Seq(Task)
            BY DEF Scheduler
        <3>2. 1 \in DOMAIN k.wq[q] /\ k.wq[q][1] = h
            BY <1>2, <2>1, <3>1
        <3> QED BY <3>2 DEF Contains
    <2>3. k.state[h] = "BLOCKED"
        BY <2>2 DEF Orderly, Seat
    <2> DEFINE w == sched_wake_one(k, q)
    <2>4. w \in Scheduler
        BY <1>2, WakeOneOrderly
    <2>5. w.state = [k.state EXCEPT ![h] = "READY"] /\ w.wres = k.wres
        BY <1>2, <2>1 DEF sched_wake_one, sched_timeout_remove, sched_ready_enqueue, ready_link,
            Scheduler
    <2>6. \/ k' = [w EXCEPT !.pending = @ \/ sched_is_locked(k), !.wres[h] = result]
          \/ k' = sched_set_pending([w EXCEPT !.pending = @ \/ sched_is_locked(k), !.wres[h] = result])
        BY <1>2, <2>1 DEF trt_wait_q_wake_one_result_locked, trt_wait_q_wake_one_from_isr,
            trt_wait_q_wake_one_locked
    <2> HIDE DEF w
    <2>7. k'.state = w.state /\ k'.wres = [w.wres EXCEPT ![h] = result]
        BY <2>4, <2>6 DEF Scheduler, sched_set_pending
    <2> QED BY <1>2, <2>1, <2>2, <2>3, <2>5, <2>7 DEF Rouses
<1> QED BY <1>1, <1>2

-----------------------------------------------------------------------------

(* Waking takes tasks off the wait queues and puts none there. *)
LEMMA WakesLeave ==
    ASSUME k \in Scheduler, Orderly(k),
           Wakes \/ \E q \in WaitQ : k' = trt_wait_q_wake_one_from_isr(k, q)
    PROVE  /\ Leaves(k, k')
           /\ Quietly \/ \E h, result : Rouses(h, result)
<1>1. CASE k' = k \/ k' = sched_set_pending(k)
    BY <1>1 DEF sched_set_pending, Leaves, Scheduler, Quietly
<1>2. ASSUME NEW q \in WaitQ, NEW result \in WaitResult \ {"NONE"},
             \/ k' = trt_wait_q_wake_one_result_locked(k, q, result)
             \/ k' = trt_wait_q_wake_one_from_isr(k, q) /\ result = "OBJECT"
      PROVE  Leaves(k, k') /\ (Quietly \/ \E h, r : Rouses(h, r))
    <2>1. \A w \in WaitQ : k'.wq[w] = IF w = q /\ k.wq[q] # <<>> THEN Tail(k.wq[w]) ELSE k.wq[w]
        BY <1>2, WakeOrderly
    <2>2. k.wq[q] \in Seq(Task)
        BY DEF Scheduler
    <2>3. k.wq[q] # <<>> => \A x : Contains(Tail(k.wq[q]), x) => Contains(k.wq[q], x)
        BY <2>2, TailShape
    <2>4. Leaves(k, k')
        BY <2>1, <2>3 DEF Leaves
    <2>5. Quietly \/ Rouses(Head(k.wq[q]), result)
        BY <1>2, WakeRouses
    <2> QED BY <2>4, <2>5
<1>3. "OBJECT" \in WaitResult \ {"NONE"}
    BY DEF WaitResult
<1> QED BY <1>1, <1>2, <1>3 DEF Wakes

(* The task that works on an object is running. *)
LEMMA WorkerRuns ==
    ASSUME ObjectInv, NEW t \in Task, Runs(t), pc[t] \in ObjectPc \cup {"run"}
    PROVE  /\ k.state[t] = "RUNNING"
           /\ k \in Scheduler /\ Orderly(k) /\ KernelInv
           /\ pc \in [Task -> Pc] /\ ret \in [Task -> RetPc] /\ call \in [Task -> CallRecord]
<1>1. /\ KernelInv /\ TypeInv /\ AlwaysInv /\ call \in [Task -> CallRecord]
    BY DEF ObjectInv, KernelInv, ObjectData
<1>2. RunsAt(t) /\ k \in Scheduler /\ Orderly(k) /\ pc \in [Task -> Pc] /\ ret \in [Task -> RetPc]
    BY <1>1, AlwaysFacts DEF TypeInv, TypeOK
<1>3. pc[t] \notin LinkPc \cup {"y_chk", "ecall"}
    BY DEF ObjectPc, LinkPc
<1> QED BY <1>1, <1>2, <1>3 DEF RunsAt

(* The other tasks, when t makes a step that wakes at most one of them. *)
LEMMA AloneSettled ==
    ASSUME Settled, k \in Scheduler, NEW t \in Task, Alone(t), ~ObjWait(t)',
           pc'[t] \notin CreatePc \cup {"d_obj"},
           Quietly \/ \E h, result : Rouses(h, result)
    PROVE  Settled'
<1>1. k.state \in [Task -> TaskState] /\ k.wres \in [Task -> WaitResult]
    BY DEF Scheduler
<1> SUFFICES ASSUME NEW x \in Task
             PROVE  /\ pc'[x] \notin CreatePc \cup {"d_obj"}
                    /\ ObjWait(x)' => k'.state[x] \notin {"DELETED", "UNUSED"}
                    /\ ObjWait(x)' /\ k'.state[x] = "BLOCKED" => k'.wres[x] # "OBJECT"
    BY DEF Settled
<1>2. CASE x = t
    BY <1>2
<1>3. CASE x # t
    <2>1. pc'[x] = pc[x] /\ (ObjWait(x)' <=> ObjWait(x))
        BY <1>3 DEF Alone, ObjWait
    <2>2. \/ k'.state[x] = k.state[x] /\ k'.wres[x] = k.wres[x]
          \/ k'.state[x] = "READY"
        BY <1>1 DEF Quietly, Rouses
    <2> QED BY <2>1, <2>2 DEF Settled
<1> QED BY <1>2, <1>3

(* The waiters, when t makes a step that puts nobody on a wait queue. *)
LEMMA AloneKnown ==
    ASSUME WaitsInv, NEW t \in Task, Alone(t), Leaves(k, k'), k.state[t] # "BLOCKED"
    PROVE  WaitersKnown'
<1> SUFFICES ASSUME NEW o \in Obj, NEW i \in DOMAIN Queues[o], NEW x \in Task,
                    Contains(k'.wq[Queues[o][i]], x)
             PROVE  ObjWait(x)' /\ call'[x].o = o
    BY DEF WaitersKnown
<1>1. PICK q \in WaitQ : q = Queues[o][i]
    BY QueuesType
<1>2. Contains(k.wq[q], x)
    BY <1>1 DEF Leaves
<1>3. x # t
    BY <1>2 DEF WaitsInv, ObjectInv, KernelInv, AlwaysInv, Orderly, Seat
<1>4. ObjWait(x) /\ call[x].o = o
    BY <1>1, <1>2 DEF WaitsInv, WaitersKnown
<1> QED BY <1>3, <1>4 DEF Alone, ObjWait

(* The waits of the others go on, and the wait of t, if it was in one, is  *)
(* over.                                                                   *)
LEMMA QuietGrants ==
    ASSUME NEW t \in Task, Alone(t), Quietly, ~ObjWait(t)'
    PROVE  \A x \in Task, u \in Obj : /\ Waited(x, u)' <=> x # t /\ Waited(x, u)
                                      /\ Granted(x, u)' <=> x # t /\ Granted(x, u)
<1>1. ASSUME NEW x \in Task, NEW u \in Obj PROVE Waited(x, u)' <=> x # t /\ Waited(x, u)
    BY WaitedMeans DEF Alone, ObjWait
<1> QED BY <1>1 DEF Granted, Quietly

(* Exactly the woken task is granted what it waits for. *)
LEMMA RouseGrants ==
    ASSUME k \in Scheduler, NEW t \in Task, Alone(t), ~ObjWait(t)', k.state[t] # "BLOCKED",
           NEW h, NEW result, Rouses(h, result)
    PROVE  \A x \in Task, u \in Obj :
              /\ Waited(x, u)' <=> x # t /\ Waited(x, u)
              /\ Granted(x, u)' <=> \/ x # t /\ Granted(x, u)
                                    \/ x = h /\ Waited(h, u) /\ result = "OBJECT"
<1>1. ASSUME NEW x \in Task, NEW u \in Obj PROVE Waited(x, u)' <=> x # t /\ Waited(x, u)
    BY WaitedMeans DEF Alone, ObjWait
<1>2. /\ k.state \in [Task -> TaskState] /\ k.wres \in [Task -> WaitResult]
      /\ h \in Task /\ h # t /\ k.state[h] = "BLOCKED"
    BY DEF Scheduler, Rouses
<1>3. /\ k'.state[h] = "READY" /\ k'.wres[h] = result
      /\ \A x \in Task \ {h} : k'.state[x] = k.state[x] /\ k'.wres[x] = k.wres[x]
    BY <1>2 DEF Rouses
<1>4. ASSUME NEW x \in Task, NEW u \in Obj
      PROVE  Granted(x, u)' <=> \/ x # t /\ Granted(x, u)
                                \/ x = h /\ Waited(h, u) /\ result = "OBJECT"
    <2>1. CASE x = h
        BY <1>1, <1>2, <1>3, <2>1 DEF Granted
    <2>2. CASE x # h
        BY <1>1, <1>3, <2>2 DEF Granted
    <2> QED BY <2>1, <2>2
<1> QED BY <1>1, <1>4

-----------------------------------------------------------------------------

(* The steps of the calls.  What a task does alone: *)
LEMMA GoesAlone ==
    ASSUME ObjectInv, NEW t \in Task, NEW p, Goto(t, p),
           ret' = ret \/ \E r : ret' = [ret EXCEPT ![t] = r],
           call' = call \/ \E c : call' = [call EXCEPT ![t] = c]
    PROVE  Alone(t) /\ pc'[t] = p
<1>1. pc \in [Task -> Pc] /\ ret \in [Task -> RetPc] /\ call \in [Task -> CallRecord]
    BY DEF ObjectInv, ObjectData, KernelInv, TypeInv, TypeOK
<1> QED BY <1>1 DEF Goto, Alone

(* A step of an operation that keeps the CPU. *)
LEMMA OwnWaits ==
    ASSUME WaitsInv, NEW t \in Task, Runs(t), pc[t] \in ObjectPc \cup {"run"}, Alone(t),
           ~ObjWait(t)', pc'[t] \notin CreatePc \cup {"d_obj"}, Wakes
    PROVE  Settled' /\ WaitersKnown'
<1>1. k.state[t] = "RUNNING" /\ k \in Scheduler /\ Orderly(k)
    BY WorkerRuns DEF WaitsInv
<1>2. Leaves(k, k') /\ (Quietly \/ \E h, result : Rouses(h, result))
    BY <1>1, WakesLeave
<1> QED BY <1>1, <1>2, AloneSettled, AloneKnown DEF WaitsInv

(* A call starts. *)
LEMMA LookupWaits ==
    ASSUME WaitsInv, NEW t \in Task, NEW o \in Obj, NEW op \in ObjOps, NEW d \in Delays \cup {0, None},
           Lookup(t, o, op, d)
    PROVE  Settled' /\ WaitersKnown' /\ GrantsStay
<1>1. /\ Runs(t) /\ pc[t] = "run" /\ Goto(t, "o_op") /\ ret' = ret /\ k' = k
      /\ call' = [call EXCEPT ![t] = [op |-> op, o |-> o, d |-> d, woken |-> FALSE]]
    BY DEF Lookup, At
<1>2. Alone(t) /\ pc'[t] = "o_op"
    BY <1>1, GoesAlone DEF WaitsInv
<1>3. ~ObjWait(t) /\ ~ObjWait(t)' /\ pc'[t] \notin CreatePc \cup {"d_obj"} /\ Wakes /\ Quietly
    BY <1>1, <1>2 DEF ObjWait, YieldPc, CreatePc, Wakes, Quietly
<1>4. Settled' /\ WaitersKnown'
    BY <1>1, <1>2, <1>3, OwnWaits
<1>5. GrantsStay
    <2>1. \A x \in Task, u \in Obj : /\ Waited(x, u)' <=> x # t /\ Waited(x, u)
                                     /\ Granted(x, u)' <=> x # t /\ Granted(x, u)
        BY <1>2, <1>3, QuietGrants
    <2>2. \A u \in Obj : ~Waited(t, u)
        BY <1>3, WaitedMeans
    <2> QED BY <2>1, <2>2 DEF GrantsStay, Granted
<1> QED BY <1>4, <1>5

(* It returns. *)
LEMMA AnswerFacts ==
    ASSUME ObjectInv, NEW t \in Task, Answers(t)
    PROVE  /\ Runs(t) /\ pc[t] \in {"o_op", "o_ret"} /\ k.state[t] = "RUNNING" /\ k \in Scheduler /\ Orderly(k)
           /\ Alone(t) /\ ~ObjWait(t)' /\ pc'[t] = "run"
<1>1. /\ Runs(t) /\ pc[t] \in {"o_op", "o_ret"} /\ Goto(t, "run") /\ ret' = ret
      /\ call' = [call EXCEPT ![t] = NoCall]
    BY DEF Answers, At, Return
<1>2. Alone(t) /\ pc'[t] = "run"
    BY <1>1, GoesAlone
<1>3. ~ObjWait(t)'
    BY <1>2 DEF ObjWait, YieldPc
<1>4. pc[t] \in ObjectPc
    BY <1>1 DEF ObjectPc
<1> QED BY <1>1, <1>2, <1>3, <1>4, WorkerRuns

(* A call that returns. *)
LEMMA AnswerWaits ==
    ASSUME WaitsInv, NEW t \in Task, Answers(t)
    PROVE  Settled' /\ WaitersKnown'
<1>1. /\ Runs(t) /\ pc[t] \in {"o_op", "o_ret"} /\ Alone(t) /\ ~ObjWait(t)' /\ pc'[t] = "run"
    BY AnswerFacts DEF WaitsInv
<1>2. pc[t] \in ObjectPc \cup {"run"} /\ pc'[t] \notin CreatePc \cup {"d_obj"} /\ Wakes
    BY <1>1 DEF ObjectPc, CreatePc, Answers
<1> QED BY <1>1, <1>2, OwnWaits

(* Who is granted something after a call returned that woke nobody. *)
LEMMA AnswerGrants ==
    ASSUME ObjectInv, NEW t \in Task, Answers(t), Quietly
    PROVE  \A x \in Task, u \in Obj : /\ Waited(x, u)' <=> x # t /\ Waited(x, u)
                                      /\ Granted(x, u)' <=> x # t /\ Granted(x, u)
BY AnswerFacts, QuietGrants

(* Before it came to a wait. *)
LEMMA NotYetWaited ==
    ASSUME NEW t \in Task, pc[t] \in {"run", "o_op", "o_wake", "o_close", "o_free"}
    PROVE  \A u \in Obj : ~Waited(t, u) /\ ~Granted(t, u)
BY DEF Waited, Granted, YieldPc

(* A message queue call that goes back to the start of its loop. *)
LEMMA RetryWaits ==
    ASSUME WaitsInv, NEW t \in Task, TriesAgain(t)
    PROVE  Settled' /\ WaitersKnown'
<1>1. /\ Runs(t) /\ pc[t] = "o_ret" /\ Goto(t, "o_op") /\ ret' = ret /\ k' = k
      /\ call' = [call EXCEPT ![t].woken = TRUE]
    BY DEF TriesAgain, At
<1>2. Alone(t) /\ pc'[t] = "o_op"
    BY <1>1, GoesAlone DEF WaitsInv
<1>3. /\ ~ObjWait(t)' /\ pc'[t] \notin CreatePc \cup {"d_obj"} /\ Wakes
      /\ pc[t] \in ObjectPc \cup {"run"}
    BY <1>1, <1>2 DEF ObjWait, YieldPc, CreatePc, Wakes, ObjectPc
<1> QED BY <1>1, <1>2, <1>3, OwnWaits

(* It blocks. *)
LEMMA BlockGrants ==
    ASSUME WaitsInv, NEW t \in Task, NEW o \in Obj, NEW i \in DOMAIN Queues[o], NEW timed \in BOOLEAN,
           call[t].o = o, WaitsOn(t, Queues[o][i], timed)
    PROVE  /\ Settled' /\ WaitersKnown'
           /\ \A x \in Task, u \in Obj : /\ Waited(x, u)' <=> Waited(x, u) \/ (x = t /\ u = o)
                                         /\ Granted(x, u)' <=> Granted(x, u)
<1>1. PICK q \in WaitQ : q = Queues[o][i]
    BY QueuesType
<1>2. /\ KernelInv /\ k \in Scheduler /\ pc \in [Task -> Pc] /\ ret \in [Task -> RetPc]
      /\ ObjectInv /\ Settled /\ Orderly(k)
    BY DEF WaitsInv, ObjectInv, KernelInv, TypeInv, TypeOK, AlwaysInv
<1>3. /\ pc[t] = "o_op" /\ Goto(t, "y_chk") /\ ret' = [ret EXCEPT ![t] = "o_ret"] /\ call' = call
    BY DEF WaitsOn, BlockOn, CallYield, objvars
<1>4. Alone(t) /\ pc'[t] = "y_chk" /\ ret'[t] = "o_ret"
    BY <1>2, <1>3, GoesAlone
<1>5. /\ BlocksOrderly(k, k', t, {q}) /\ k'.wres[t] = "NONE"
    BY <1>1, <1>2, WaitsOnFacts
<1>6. \A x \in Task \ {t} : SameTask(k, k', x)
    BY <1>5 DEF BlocksOrderly
<1>7. k'.state[t] = "BLOCKED" /\ \A w \in WaitQ : Contains(k'.wq[w], t) <=> w = q
    BY <1>5 DEF BlocksOrderly
<1>8. ObjWait(t)' /\ ~ObjWait(t) /\ \A x \in Task \ {t} : ObjWait(x)' <=> ObjWait(x)
    BY <1>3, <1>4 DEF ObjWait, YieldPc, Alone
<1>9. Settled'
    <2> SUFFICES ASSUME NEW x \in Task
                 PROVE  /\ pc'[x] \notin CreatePc \cup {"d_obj"}
                        /\ ObjWait(x)' => k'.state[x] \notin {"DELETED", "UNUSED"}
                        /\ ObjWait(x)' /\ k'.state[x] = "BLOCKED" => k'.wres[x] # "OBJECT"
        BY DEF Settled
    <2>1. CASE x = t
        BY <1>4, <1>5, <1>7, <2>1 DEF CreatePc
    <2>2. CASE x # t
        <3>1. k'.state[x] = k.state[x] /\ k'.wres[x] = k.wres[x]
            BY <1>6, <2>2 DEF SameTask
        <3> QED BY <1>2, <1>4, <1>8, <2>2, <3>1 DEF Settled, Alone
    <2> QED BY <2>1, <2>2
<1>10. WaitersKnown'
    <2> SUFFICES ASSUME NEW u \in Obj, NEW j \in DOMAIN Queues[u], NEW x \in Task,
                        Contains(k'.wq[Queues[u][j]], x)
                 PROVE  ObjWait(x)' /\ call'[x].o = u
        BY DEF WaitersKnown
    <2>1. PICK w \in WaitQ : w = Queues[u][j]
        BY QueuesType
    <2>2. CASE x = t
        <3>1. w = q
            BY <1>7, <2>1, <2>2
        <3>2. Queues[u][j] = Queues[o][i]
            BY <1>1, <2>1, <3>1
        <3>3. u = o
            BY <3>2, ObjectAssumption
        <3> QED BY <1>3, <1>8, <2>2, <3>3
    <2>3. CASE x # t
        <3>1. Contains(k.wq[w], x)
            BY <1>6, <2>1, <2>3 DEF SameTask
        <3>2. ObjWait(x) /\ call[x].o = u
            BY <2>1, <3>1 DEF WaitsInv, WaitersKnown
        <3> QED BY <1>3, <1>8, <2>3, <3>2
    <2> QED BY <2>2, <2>3
<1>11. ASSUME NEW x \in Task, NEW u \in Obj
       PROVE  /\ Waited(x, u)' <=> Waited(x, u) \/ (x = t /\ u = o)
              /\ Granted(x, u)' <=> Granted(x, u)
    <2>0. /\ Waited(x, u) <=> call[x].o = u /\ ObjWait(x)
          /\ Waited(x, u)' <=> call[x].o = u /\ ObjWait(x)'
        BY <1>3, WaitedMeans
    <2>1. Waited(x, u)' <=> Waited(x, u) \/ (x = t /\ u = o)
        <3>1. CASE x = t
            BY <1>8, <2>0, <3>1
        <3>2. CASE x # t
            BY <1>8, <2>0, <3>2
        <3> QED BY <3>1, <3>2
    <2>2. CASE x = t
        <3>1. ~Waited(x, u) /\ k'.state[x] = "BLOCKED"
            BY <1>7, <1>8, <2>0, <2>2
        <3> QED BY <2>1, <3>1 DEF Granted
    <2>3. CASE x # t
        BY <1>6, <2>1, <2>3 DEF Granted, SameTask
    <2> QED BY <2>1, <2>2, <2>3
<1> QED BY <1>9, <1>10, <1>11

-----------------------------------------------------------------------------

(* The waits in the objects that stay go on. *)
OthersWait ==
    \A u \in Obj : Usable(u)' =>
        /\ Usable(u)
        /\ \A x \in Task : /\ Waited(x, u)' <=> Waited(x, u)
                           /\ Granted(x, u)' <=> Granted(x, u)

(* A task that works on an object and goes on to another place of its call *)
(* leaves the waits as they are.                                           *)
LEMMA WorkGrants ==
    ASSUME ObjectInv, NEW t \in Task, Runs(t), pc[t] \in ObjectPc \cup {"run"}, pc[t] # "o_ret",
           Alone(t), ~ObjWait(t)',
           Quietly \/ \E h, result : Rouses(h, result) /\ result # "OBJECT",
           \A u \in Obj : Usable(u)' => Usable(u)
    PROVE  OthersWait
<1>1. k.state[t] = "RUNNING" /\ k \in Scheduler
    BY WorkerRuns
<1>2. \A u \in Obj : ~Waited(t, u) /\ ~Granted(t, u)
    <2>1. pc[t] \notin YieldPc \cup {"o_ret"}
        BY DEF ObjectPc, YieldPc
    <2> QED BY <2>1 DEF Waited, Granted
<1>3. ASSUME NEW x \in Task, NEW u \in Obj
      PROVE  /\ Waited(x, u)' <=> Waited(x, u)
             /\ Granted(x, u)' <=> Granted(x, u)
    <2>1. CASE Quietly
        BY <1>2, <2>1, QuietGrants
    <2>2. CASE \E h, result : Rouses(h, result) /\ result # "OBJECT"
        <3>1. PICK h, result : Rouses(h, result) /\ result # "OBJECT"
            BY <2>2
        <3>2. /\ Waited(x, u)' <=> x # t /\ Waited(x, u)
              /\ Granted(x, u)' <=> \/ x # t /\ Granted(x, u)
                                    \/ x = h /\ Waited(h, u) /\ result = "OBJECT"
            BY <1>1, <3>1, RouseGrants
        <3> QED BY <1>2, <3>1, <3>2
    <2> QED BY <2>1, <2>2
<1> QED BY <1>3 DEF OthersWait

(* The wait queue the destroyer serves. *)
LEMMA ServedQueue ==
    ASSUME ObjectInv, NEW t \in Task, WakeDestroyed(t)
    PROVE  /\ Runs(t) /\ pc[t] = "o_wake" /\ UNCHANGED objvars /\ ret' = ret
           /\ Goto(t, "o_close") \/ pc' = pc
           /\ \E q \in WaitQ : k' = trt_wait_q_wake_one_result_locked(k, q, "DESTROYED")
<1>1. /\ Runs(t) /\ pc[t] = "o_wake" /\ UNCHANGED objvars /\ ret' = ret
      /\ Goto(t, "o_close") \/ pc' = pc
    BY DEF WakeDestroyed, At
<1>2. CallAt(t) /\ call \in [Task -> CallRecord]
    BY <1>1, CallerFacts DEF ObjectPc
<1>3. PICK o \in Obj : o = call[t].o
    BY <1>1, <1>2 DEF CallAt, CallRecord, Destroys
<1> DEFINE S == {j \in DOMAIN Queues[o] : k.wq[Queues[o][j]] # <<>>}
<1>4. S \subseteq Nat /\ S # {}
    <2>1. DOMAIN Queues[o] = 1..Len(Queues[o])
        BY ObjectAssumption
    <2> QED BY <1>1, <1>2, <1>3, <2>1 DEF HasWaiters, CallAt
<1>5. Min(S) \in S
    BY <1>4, MinLeast
<1>6. PICK i \in DOMAIN Queues[o] : i = Min(S)
    BY <1>5
<1>7. PICK q \in WaitQ : q = Queues[o][i]
    BY QueuesType
<1>8. k' = trt_wait_q_wake_one_result_locked(k, q, "DESTROYED")
    BY <1>3, <1>6, <1>7 DEF WakeDestroyed
<1> QED BY <1>1, <1>8

(* The free() of an object leaves the tasks that wait in others. *)
LEMMA FreeWaits ==
    ASSUME WaitsInv, NEW t \in Task, Free(t)
    PROVE  Settled' /\ WaitersKnown' /\ OthersWait
<1>0. ObjectInv /\ Settled /\ WaitersKnown
    BY DEF WaitsInv
<1>1. Runs(t) /\ pc[t] = "o_free" /\ k' = k
    BY DEF Free, At
<1>2. /\ pc \in [Task -> Pc] /\ call \in [Task -> CallRecord] /\ CallAt(t)
      /\ ret \in [Task -> RetPc] /\ k \in Scheduler /\ KernelInv
    BY <1>0, <1>1, CallerFacts DEF ObjectPc, KernelInv, TypeInv, TypeOK
<1>3. PICK o \in Obj : o = call[t].o
    BY <1>1, <1>2 DEF CallAt, CallRecord, Destroys
<1>4. obj' = [obj EXCEPT ![o] = NoObj]
    BY <1>3 DEF Free
<1>5. obj \in [Obj -> [alloc : BOOLEAN, open : BOOLEAN, destroyed : BOOLEAN]]
    BY <1>0 DEF ObjectInv, ObjectData
<1>6. ~Usable(o)' /\ \A u \in Obj : Usable(u)' => Usable(u) /\ u # o
    BY <1>4, <1>5 DEF Usable, NoObj
<1>7. ~HasWaiters(o)
    BY <1>1, <1>2, <1>3 DEF CallAt
<1>8. \/ Goto(t, "run") /\ ret' = ret
      \/ Goto(t, "y_chk") /\ ret' = [ret EXCEPT ![t] = "run"]
    BY DEF Free, CallYield
<1>9. /\ pc'[t] \in {"run", "y_chk"}
      /\ pc'[t] = "y_chk" => ret'[t] = "run"
      /\ \A x \in Task \ {t} : pc'[x] = pc[x] /\ ret'[x] = ret[x]
    BY <1>2, <1>8 DEF Goto
<1>10. ~ObjWait(t)' /\ ~ObjWait(t)
    BY <1>1, <1>9 DEF ObjWait, YieldPc
<1>11. /\ call'[t].o = None
       /\ \A x \in Task \ {t} : call[x].o = o => call'[x].o = None
       /\ \A x \in Task \ {t} : call[x].o # o => call'[x].o = call[x].o
    <2>1. call' = [u \in Task |-> CASE u = t -> NoCall
                                    [] u # t /\ call[u].o = call[t].o -> [call[u] EXCEPT !.o = None]
                                    [] OTHER -> call[u]]
        BY DEF Free
    <2>2. /\ call'[t] = NoCall
          /\ \A x \in Task \ {t} : call[x].o = o => call'[x] = [call[x] EXCEPT !.o = None]
          /\ \A x \in Task \ {t} : call[x].o # o => call'[x] = call[x]
        BY <1>3, <2>1
    <2>3. \A x \in Task : [call[x] EXCEPT !.o = None].o = None
        BY <1>2 DEF CallRecord
    <2>4. ASSUME NEW x \in Task \ {t}, call[x].o = o PROVE call'[x].o = None
        <3>1. call'[x] = [call[x] EXCEPT !.o = None]
            BY <2>2, <2>4
        <3> QED BY <2>3, <3>1
    <2>5. ASSUME NEW x \in Task \ {t}, call[x].o # o PROVE call'[x].o = call[x].o
        BY <2>2, <2>5
    <2>6. call'[t].o = None
        BY <2>2 DEF NoCall
    <2> QED BY <2>4, <2>5, <2>6
<1>12. \A x \in Task : ObjWait(x)' <=> ObjWait(x)
    BY <1>9, <1>10 DEF ObjWait
<1>13. Settled'
    <2> SUFFICES ASSUME NEW x \in Task
                 PROVE  /\ pc'[x] \notin CreatePc \cup {"d_obj"}
                        /\ ObjWait(x)' => k'.state[x] \notin {"DELETED", "UNUSED"}
                        /\ ObjWait(x)' /\ k'.state[x] = "BLOCKED" => k'.wres[x] # "OBJECT"
        BY DEF Settled
    <2>1. pc'[x] = pc[x] \/ pc'[x] \in {"run", "y_chk"}
        BY <1>9
    <2> QED BY <1>0, <1>1, <1>12, <2>1 DEF Settled, CreatePc
<1>14. WaitersKnown'
    <2> SUFFICES ASSUME NEW u \in Obj, NEW i \in DOMAIN Queues[u], NEW x \in Task,
                        Contains(k.wq[Queues[u][i]], x)
                 PROVE  ObjWait(x)' /\ call'[x].o = u
        BY <1>1 DEF WaitersKnown
    <2>1. ObjWait(x) /\ call[x].o = u
        BY <1>0 DEF WaitersKnown
    <2>2. u # o
        <3>1. k.wq[Queues[u][i]] # <<>>
            BY DEF Contains
        <3> QED BY <1>7, <3>1 DEF HasWaiters
    <2> QED BY <1>10, <1>11, <1>12, <2>1, <2>2
<1>15. ASSUME NEW u \in Obj \ {o}, NEW x \in Task
       PROVE  /\ Waited(x, u)' <=> Waited(x, u)
              /\ Granted(x, u)' <=> Granted(x, u)
    <2>1. call'[x].o = u <=> call[x].o = u \/ FALSE
        <3>1. u # None
            BY ObjectAssumption
        <3>2. CASE x = t
            BY <1>3, <1>11, <3>1, <3>2
        <3>3. CASE x # t
            BY <1>11, <3>1, <3>3
        <3> QED BY <3>2, <3>3
    <2>2. Waited(x, u)' <=> Waited(x, u)
        BY <1>12, <2>1, WaitedMeans
    <2> QED BY <1>1, <2>2 DEF Granted
<1>16. OthersWait
    BY <1>6, <1>15 DEF OthersWait
<1> QED BY <1>13, <1>14, <1>16

(* The steps of a destroyer. *)
LEMMA DestroyGrants ==
    ASSUME WaitsInv, NEW t \in Task, DestroyStep(t)
    PROVE  Settled' /\ WaitersKnown' /\ OthersWait
<1>0. /\ ObjectInv /\ pc \in [Task -> Pc] /\ k \in Scheduler /\ Orderly(k)
      /\ obj \in [Obj -> [alloc : BOOLEAN, open : BOOLEAN, destroyed : BOOLEAN]]
    BY DEF WaitsInv, ObjectInv, ObjectData, KernelInv, TypeInv, TypeOK, AlwaysInv
<1>1. ASSUME NEW o \in Obj, Destroy(t, o) PROVE Settled' /\ WaitersKnown' /\ OthersWait
    <2>1. /\ Runs(t) /\ pc[t] = "o_op" /\ k' = k /\ ret' = ret
          /\ obj' = [obj EXCEPT ![o].destroyed = TRUE]
          /\ call' = [call EXCEPT ![t].woken = HasWaiters(o)]
        BY <1>1 DEF Destroy, Operates, At
    <2>2. PICK p \in {"o_wake", "o_close"} : Goto(t, p)
        BY <1>1 DEF Destroy
    <2>3. Alone(t) /\ pc'[t] = p
        <3>1. call' = [call EXCEPT ![t] = [call[t] EXCEPT !.woken = HasWaiters(o)]]
            BY <1>0, <2>1 DEF ObjectInv, ObjectData
        <3> QED BY <1>0, <2>1, <2>2, <3>1, GoesAlone
    <2>4. /\ ~ObjWait(t)' /\ p \notin CreatePc \cup {"d_obj"} /\ pc[t] \in ObjectPc \cup {"run"}
          /\ pc[t] # "o_ret" /\ Wakes /\ Quietly
        BY <2>1, <2>3 DEF ObjWait, YieldPc, CreatePc, ObjectPc, Wakes, Quietly
    <2>5. \A u \in Obj : Usable(u)' => Usable(u)
        BY <1>0, <2>1 DEF Usable
    <2> QED BY <1>0, <2>1, <2>3, <2>4, <2>5, OwnWaits, WorkGrants
<1>2. CASE WakeDestroyed(t)
    <2>1. /\ Runs(t) /\ pc[t] = "o_wake" /\ UNCHANGED objvars /\ ret' = ret
          /\ Goto(t, "o_close") \/ pc' = pc
        BY <1>0, <1>2, ServedQueue
    <2>2. PICK q \in WaitQ : k' = trt_wait_q_wake_one_result_locked(k, q, "DESTROYED")
        BY <1>0, <1>2, ServedQueue
    <2>3. Alone(t) /\ pc'[t] \in {"o_wake", "o_close"}
        BY <1>0, <2>1 DEF Goto, Alone, objvars
    <2>4. /\ ~ObjWait(t)' /\ pc'[t] \notin CreatePc \cup {"d_obj"}
          /\ pc[t] \in ObjectPc \cup {"run"} /\ pc[t] # "o_ret"
        BY <2>1, <2>3 DEF ObjWait, YieldPc, CreatePc, ObjectPc
    <2>5. "DESTROYED" \in WaitResult \ {"NONE"} /\ "DESTROYED" # "OBJECT"
        BY DEF WaitResult
    <2>6. Wakes
        BY <2>2, <2>5 DEF Wakes
    <2>7. Quietly \/ \E h, result : Rouses(h, result) /\ result # "OBJECT"
        BY <1>0, <2>2, <2>5, WakeRouses
    <2>8. \A u \in Obj : Usable(u)' => Usable(u)
        BY <2>1 DEF Usable, objvars
    <2> QED BY <1>0, <2>1, <2>3, <2>4, <2>6, <2>7, <2>8, OwnWaits, WorkGrants
<1>3. CASE Close(t)
    <2>1. /\ Runs(t) /\ pc[t] = "o_close" /\ Goto(t, "o_free") /\ k' = k /\ ret' = ret /\ call' = call
        BY <1>3 DEF Close, At
    <2>2. PICK u : u = call[t].o
        OBVIOUS
    <2>3. obj' = [obj EXCEPT ![u].open = FALSE]
        BY <1>3, <2>2 DEF Close
    <2>4. Alone(t) /\ pc'[t] = "o_free"
        BY <1>0, <2>1, GoesAlone
    <2>5. /\ ~ObjWait(t)' /\ pc'[t] \notin CreatePc \cup {"d_obj"}
          /\ pc[t] \in ObjectPc \cup {"run"} /\ pc[t] # "o_ret" /\ Wakes /\ Quietly
        BY <2>1, <2>4 DEF ObjWait, YieldPc, CreatePc, ObjectPc, Wakes, Quietly
    <2>6. \A v \in Obj : Usable(v)' => Usable(v)
        BY <1>0, <2>3 DEF Usable
    <2> QED BY <1>0, <2>1, <2>4, <2>5, <2>6, OwnWaits, WorkGrants
<1>4. CASE Free(t)
    BY <1>4, FreeWaits
<1> QED BY <1>1, <1>2, <1>3, <1>4 DEF DestroyStep

-----------------------------------------------------------------------------

(* An interrupt handler wakes waiters of an object. *)
LEMMA IsrGrants ==
    ASSUME WaitsInv, IsrWakes
    PROVE  /\ Settled' /\ WaitersKnown'
           /\ \A x \in Task, u \in Obj : Waited(x, u)' <=> Waited(x, u)
           /\ Quietly => GrantsStay
           /\ \A h : Rouses(h, "OBJECT") => \A x \in Task, u \in Obj :
                  Granted(x, u)' <=> Granted(x, u) \/ (x = h /\ Waited(h, u))
<1>1. /\ ObjectInv /\ KernelInv /\ Settled /\ WaitersKnown /\ k \in Scheduler /\ Orderly(k)
    BY DEF WaitsInv, ObjectInv, KernelInv, TypeInv, TypeOK, AlwaysInv
<1>2. \A x \in Task : pc'[x] = pc[x] \/ (pc[x] = "i_wfi" /\ pc'[x] = "i_clean")
    BY <1>1, HandlerFacts DEF IsrWakes
<1>3. ret' = ret /\ call' = call
    BY DEF IsrWakes, HandlerWakes, objvars
<1>4. \A x \in Task : ObjWait(x)' <=> ObjWait(x)
    BY <1>2, <1>3 DEF ObjWait, YieldPc
<1>5. \A x \in Task, u \in Obj : Waited(x, u)' <=> Waited(x, u)
    BY <1>3, <1>4, WaitedMeans
<1>6. Leaves(k, k') /\ (Quietly \/ \E h, result : Rouses(h, result))
    <2>1. Wakes \/ \E q \in WaitQ : k' = trt_wait_q_wake_one_from_isr(k, q)
        BY DEF IsrWakes, HandlerWakes, Wakes
    <2> QED BY <1>1, <2>1, WakesLeave
<1>7. Settled'
    <2> SUFFICES ASSUME NEW x \in Task
                 PROVE  /\ pc'[x] \notin CreatePc \cup {"d_obj"}
                        /\ ObjWait(x)' => k'.state[x] \notin {"DELETED", "UNUSED"}
                        /\ ObjWait(x)' /\ k'.state[x] = "BLOCKED" => k'.wres[x] # "OBJECT"
        BY DEF Settled
    <2>1. pc'[x] \notin CreatePc \cup {"d_obj"}
        BY <1>1, <1>2 DEF Settled, CreatePc
    <2>2. k.state \in [Task -> TaskState] /\ k.wres \in [Task -> WaitResult]
        BY <1>1 DEF Scheduler
    <2>3. \/ k'.state[x] = k.state[x] /\ k'.wres[x] = k.wres[x]
          \/ k'.state[x] = "READY"
        BY <1>6, <2>2 DEF Quietly, Rouses
    <2> QED BY <1>1, <1>4, <2>1, <2>3 DEF Settled
<1>8. WaitersKnown'
    <2> SUFFICES ASSUME NEW o \in Obj, NEW i \in DOMAIN Queues[o], NEW x \in Task,
                        Contains(k'.wq[Queues[o][i]], x)
                 PROVE  ObjWait(x)' /\ call'[x].o = o
        BY DEF WaitersKnown
    <2>1. Contains(k.wq[Queues[o][i]], x)
        BY <1>6, QueuesType DEF Leaves
    <2> QED BY <1>1, <1>3, <1>4, <2>1 DEF WaitersKnown
<1>9. Quietly => GrantsStay
    BY <1>5 DEF Quietly, GrantsStay, Granted
<1>10. ASSUME NEW h, Rouses(h, "OBJECT"), NEW x \in Task, NEW u \in Obj
       PROVE  Granted(x, u)' <=> Granted(x, u) \/ (x = h /\ Waited(h, u))
    <2>1. k.state \in [Task -> TaskState] /\ k.wres \in [Task -> WaitResult] /\ h \in Task
        BY <1>1, <1>10 DEF Scheduler, Rouses
    <2>2. /\ k'.state[h] = "READY" /\ k'.wres[h] = "OBJECT"
          /\ x # h => k'.state[x] = k.state[x] /\ k'.wres[x] = k.wres[x]
        BY <1>10, <2>1 DEF Rouses
    <2>3. CASE x = h
        BY <1>5, <2>2, <2>3 DEF Granted
    <2>4. CASE x # h
        BY <1>5, <2>2, <2>4 DEF Granted
    <2> QED BY <2>3, <2>4
<1> QED BY <1>5, <1>7, <1>8, <1>9, <1>10

(* Every step of the tasks and the objects keeps the waits known. *)
LEMMA WaitNext ==
    ASSUME WaitsInv, TasksStay, ObjectsOnly, ObjectStep
    PROVE  WaitsInv'
<1>1. ObjectInv /\ ObjectInv'
    BY ObjectNext DEF WaitsInv
<1>2. CASE LookupStep
    BY <1>1, <1>2, LookupWaits DEF LookupStep, WaitsInv
<1>3. CASE [Next]_vars /\ UNCHANGED objvars
    BY <1>1, <1>3, KernelGrants DEF WaitsInv
<1>4. ASSUME NEW o \in Obj, Create(o) PROVE WaitsInv'
    <2>1. pc' = pc /\ ret' = ret /\ k' = k /\ call' = call
        BY <1>4 DEF Create, vars
    <2>2. Settled' /\ WaitersKnown'
        BY <2>1 DEF WaitsInv, Settled, WaitersKnown, ObjWait
    <2> QED BY <1>1, <2>2 DEF WaitsInv
<1>5. ASSUME NEW t \in Task, UseStep(t) PROVE WaitsInv'
    <2>1. CASE Answers(t)
        BY <1>1, <2>1, AnswerWaits DEF WaitsInv
    <2>2. CASE TriesAgain(t)
        BY <1>1, <2>2, RetryWaits DEF WaitsInv
    <2>3. CASE Waits(t)
        BY <1>1, <2>3, BlockGrants DEF WaitsInv, Waits
    <2> QED BY <1>5, <2>1, <2>2, <2>3 DEF UseStep
<1>6. ASSUME NEW t \in Task, DestroyStep(t) PROVE WaitsInv'
    BY <1>1, <1>6, DestroyGrants DEF WaitsInv
<1>7. CASE IsrWakes
    BY <1>1, <1>7, IsrGrants DEF WaitsInv
<1> QED BY <1>2, <1>3, <1>4, <1>5, <1>6, <1>7 DEF ObjectStep, GoesOn

(* At first nobody waits. *)
LEMMA WaitInit == ObjInit => WaitsInv
<1> SUFFICES ASSUME ObjInit PROVE WaitsInv
    OBVIOUS
<1>1. ObjectInv
    BY ObjectInit
<1>2. (\A w \in WaitQ : k.wq[w] = <<>>) /\ \A x \in Task : pc[x] \in {"run", "i_clean"}
    BY DEF ObjInit, Init, sched_init
<1>3. Settled
    BY <1>2 DEF Settled, ObjWait, YieldPc, CreatePc
<1>4. WaitersKnown
    <2>1. \A x : ~Contains(<<>>, x)
        BY DEF Contains
    <2> QED BY <1>2, <2>1, QueuesType DEF WaitersKnown
<1> QED BY <1>1, <1>3, <1>4 DEF WaitsInv

-----------------------------------------------------------------------------

(* Who owns a mutex: how the locks and unlocks that returned ERR_OK, the   *)
(* waits and the hand-overs of task t fix the owner and the count of o.    *)
Owns(t, o) ==
    /\ held[o][t] >= 0
    /\ held[o][t] > 0 => mutex[o].owner = t /\ mutex[o].lock_count = held[o][t]
    /\ ~Usable(o) => mutex[o].owner = None /\ held[o][t] = 0
    /\ Usable(o) /\ Waited(t, o) =>
          held[o][t] = 0 /\ (mutex[o].owner = t => mutex[o].lock_count = 1)
    /\ Usable(o) => (mutex[o].owner = t <=> held[o][t] > 0 \/ Granted(t, o))

OwnersKnown == \A o \in Obj, t \in Task : Owns(t, o)

OwnInv == MutexInv /\ WaitsInv /\ OwnersKnown

(* What a step changes neither for task x nor for mutex u. *)
SameMutex(x, u) ==
    mutex'[u] = mutex[u] /\ held'[u][x] = held[u][x] /\ (Usable(u)' <=> Usable(u))

(* An owner whose mutex and whose wait a step leaves alone. *)
LEMMA OwnsKept ==
    ASSUME OwnersKnown, NEW u \in Obj, NEW x \in Task, SameMutex(x, u),
           Usable(u) => (Waited(x, u)' => Waited(x, u)) /\ (Granted(x, u)' <=> Granted(x, u))
    PROVE  Owns(x, u)'
<1>1. Owns(x, u)
    BY DEF OwnersKnown
<1> QED BY <1>1 DEF Owns, SameMutex

(* The types of a mutex and its holders. *)
LEMMA OwnTypes ==
    ASSUME OwnInv
    PROVE  /\ mutex \in [Obj -> [owner : Task \cup {None}, lock_count : Nat]]
           /\ held \in [Obj -> [Task -> Int]]
           /\ obj \in [Obj -> [alloc : BOOLEAN, open : BOOLEAN, destroyed : BOOLEAN]]
           /\ call \in [Task -> CallRecord]
           /\ k \in Scheduler /\ Orderly(k) /\ ObjectInv /\ pc \in [Task -> Pc]
BY DEF OwnInv, MutexInv, MutexData, ObjectInv, ObjectData, KernelInv, TypeInv, TypeOK, AlwaysInv

(* A call returns without having changed the mutex. *)
LEMMA AnswerOwns ==
    ASSUME OwnInv, NEW t \in Task, Answers(t), pc[t] = "o_op", Quietly, UNCHANGED <<mutex, held, obj>>
    PROVE  OwnersKnown'
<1>1. ObjectInv
    BY OwnTypes
<1>2. \A x \in Task, u \in Obj : /\ Waited(x, u)' <=> x # t /\ Waited(x, u)
                                 /\ Granted(x, u)' <=> x # t /\ Granted(x, u)
    BY <1>1, AnswerGrants
<1>3. \A u \in Obj : ~Waited(t, u) /\ ~Granted(t, u)
    BY NotYetWaited
<1>4. \A x \in Task, u \in Obj : SameMutex(x, u)
    BY DEF SameMutex, Usable
<1> QED BY <1>2, <1>3, <1>4, OwnsKept DEF OwnInv, OwnersKnown

(* Lock of a free mutex, or of one that the caller owns. *)
LEMMA TakeOwns ==
    ASSUME OwnInv, NEW t \in Task, NEW o \in Obj, mutex_take(t, o)
    PROVE  OwnersKnown'
<1>0. /\ mutex \in [Obj -> [owner : Task \cup {None}, lock_count : Nat]]
      /\ held \in [Obj -> [Task -> Int]] /\ ObjectInv
    BY OwnTypes
<1>1. /\ Answers(t) /\ pc[t] = "o_op" /\ Usable(o) /\ k' = k /\ obj' = obj
      /\ held' = [held EXCEPT ![o][t] = @ + 1] /\ mutex[o].owner \in {t, None}
    BY DEF mutex_take, ReturnUnchanged, Operates, At, Answers, Wakes, history
<1>2. PICK n \in Nat : /\ mutex' = [mutex EXCEPT ![o] = [owner |-> t, lock_count |-> n]]
                       /\ mutex[o].owner = None => n = 1
                       /\ mutex[o].owner = t => n = mutex[o].lock_count + 1
    <2>1. CASE mutex[o].owner = None
        <3>1. t # None
            BY SchedAssumption
        <3> QED BY <2>1, <3>1 DEF mutex_take
    <2>2. CASE mutex[o].owner = t
        <3>1. t # None
            BY SchedAssumption
        <3>2. mutex' = [mutex EXCEPT ![o] = [mutex[o] EXCEPT !.lock_count = @ + 1]]
            BY <1>0, <2>2, <3>1 DEF mutex_take
        <3>3. [mutex[o] EXCEPT !.lock_count = @ + 1] = [owner |-> t, lock_count |-> mutex[o].lock_count + 1]
            BY <1>0, <2>2
        <3>4. mutex[o].lock_count + 1 \in Nat
            BY <1>0
        <3> QED BY <2>2, <3>1, <3>2, <3>3, <3>4
    <2> QED BY <1>1, <2>1, <2>2
<1>3. \A x \in Task, u \in Obj : /\ Waited(x, u)' <=> x # t /\ Waited(x, u)
                                 /\ Granted(x, u)' <=> x # t /\ Granted(x, u)
    BY <1>0, <1>1, AnswerGrants DEF Quietly
<1>4. \A u \in Obj : ~Waited(t, u) /\ ~Granted(t, u)
    BY <1>1, NotYetWaited
<1>5. \A x \in Task, u \in Obj \ {o} : SameMutex(x, u)
    BY <1>0, <1>1, <1>2 DEF SameMutex, Usable
<1>6. /\ mutex'[o].owner = t /\ mutex'[o].lock_count = n
      /\ held'[o][t] = held[o][t] + 1
      /\ \A x \in Task \ {t} : held'[o][x] = held[o][x]
      /\ Usable(o)'
    BY <1>0, <1>1, <1>2 DEF Usable
<1>7. /\ held[o][t] >= 0 /\ held[o][t] \in Int
      /\ mutex[o].owner = t => held[o][t] > 0 /\ mutex[o].lock_count = held[o][t]
      /\ mutex[o].owner = None => held[o][t] = 0
    <2>1. Owns(t, o) /\ t # None /\ held[o][t] \in Int
        BY <1>0, SchedAssumption DEF OwnInv, OwnersKnown
    <2> QED BY <1>1, <1>4, <2>1 DEF Owns
<1>8. ASSUME NEW x \in Task, x # t PROVE held[o][x] = 0 /\ ~Granted(x, o)
    <2>1. Owns(x, o) /\ x # None /\ held[o][x] \in Int
        BY <1>0, SchedAssumption DEF OwnInv, OwnersKnown
    <2>2. mutex[o].owner # x
        BY <1>1, <1>8, <2>1
    <2> QED BY <1>1, <2>1, <2>2 DEF Owns
<1>9. ASSUME NEW x \in Task PROVE Owns(x, o)'
    <2>1. CASE x = t
        <3>1. held'[o][t] > 0 /\ n = held'[o][t]
            BY <1>1, <1>2, <1>6, <1>7
        <3>2. ~Waited(t, o)'
            BY <1>3
        <3> QED BY <1>6, <2>1, <3>1, <3>2 DEF Owns
    <2>2. CASE x # t
        <3>1. held'[o][x] = 0 /\ ~Granted(x, o)'
            BY <1>3, <1>6, <1>8, <2>2
        <3> QED BY <1>6, <2>2, <3>1 DEF Owns
    <2> QED BY <2>1, <2>2
<1>10. ASSUME NEW x \in Task, NEW u \in Obj \ {o} PROVE Owns(x, u)'
    BY <1>3, <1>4, <1>5, OwnsKept DEF OwnInv
<1> QED BY <1>9, <1>10 DEF OwnersKnown

-----------------------------------------------------------------------------

(* What the others have of the mutex that t owns. *)
LEMMA OneOwner ==
    ASSUME OwnInv, NEW t \in Task, NEW o \in Obj, Usable(o), mutex[o].owner = t
    PROVE  \A x \in Task \ {t} : held[o][x] = 0 /\ ~Granted(x, o)
<1> SUFFICES ASSUME NEW x \in Task \ {t} PROVE held[o][x] = 0 /\ ~Granted(x, o)
    OBVIOUS
<1>1. Owns(x, o) /\ held[o][x] \in Int
    BY OwnTypes DEF OwnInv, OwnersKnown
<1> QED BY <1>1 DEF Owns

(* mutex_unlock_obj: the first waiter becomes the owner. *)
LEMMA UnlockOwns ==
    ASSUME OwnInv, NEW t \in Task, NEW o \in Obj, mutex_unlock_obj(t, o)
    PROVE  OwnersKnown'
<1>0. /\ mutex \in [Obj -> [owner : Task \cup {None}, lock_count : Nat]]
      /\ held \in [Obj -> [Task -> Int]] /\ ObjectInv /\ k \in Scheduler /\ Orderly(k)
    BY OwnTypes
<1>1. PICK q \in WaitQ : q = waiters(o)
    BY MutexAssumption, FirstQueue
<1>2. /\ Runs(t) /\ pc[t] = "o_op" /\ Usable(o) /\ obj' = obj /\ ret' = ret
      /\ held' = [held EXCEPT ![o][t] = @ - 1] /\ mutex[o].owner = t
      /\ Goto(t, "run") /\ call' = [call EXCEPT ![t] = NoCall]
    BY DEF mutex_unlock_obj, Operates, At, Return
<1>3. Alone(t) /\ ~ObjWait(t)' /\ k.state[t] = "RUNNING"
    <2>1. Alone(t) /\ pc'[t] = "run"
        BY <1>0, <1>2, GoesAlone
    <2>2. k.state[t] = "RUNNING"
        BY <1>0, <1>2, WorkerRuns DEF ObjectPc
    <2> QED BY <2>1, <2>2 DEF ObjWait, YieldPc
<1>4. \A u \in Obj : ~Waited(t, u) /\ ~Granted(t, u)
    BY <1>2, NotYetWaited
<1>5. held[o][t] > 0 /\ mutex[o].lock_count = held[o][t] /\ held[o][t] \in Int
    BY <1>0, <1>2, <1>4 DEF OwnInv, OwnersKnown, Owns
<1>6. \A x \in Task \ {t} : held[o][x] = 0 /\ ~Granted(x, o)
    BY <1>2, OneOwner
<1>7. \A x \in Task, u \in Obj \ {o} : SameMutex(x, u)
    <2>1. \A u \in Obj \ {o} : mutex'[u] = mutex[u]
        BY <1>0 DEF mutex_unlock_obj
    <2> QED BY <1>0, <1>2, <2>1 DEF SameMutex, Usable
<1>8. /\ held'[o][t] = held[o][t] - 1 /\ Usable(o)'
      /\ \A x \in Task \ {t} : held'[o][x] = 0
    BY <1>0, <1>2, <1>6 DEF Usable
<1>9. CASE Quietly /\ mutex'[o].owner \in {t, None} /\ mutex'[o].lock_count = mutex[o].lock_count - 1
           /\ (mutex'[o].owner = t <=> mutex'[o].lock_count > 0)
    <2>1. \A x \in Task, u \in Obj : /\ Waited(x, u)' <=> x # t /\ Waited(x, u)
                                     /\ Granted(x, u)' <=> x # t /\ Granted(x, u)
        BY <1>3, <1>9, QuietGrants
    <2>2. ASSUME NEW x \in Task, NEW u \in Obj \ {o} PROVE Owns(x, u)'
        BY <1>4, <1>7, <2>1, OwnsKept DEF OwnInv
    <2>3. ASSUME NEW x \in Task, x # t PROVE Owns(x, o)'
        <3>1. mutex'[o].owner # x
            BY <1>9, <2>3, SchedAssumption
        <3>2. held'[o][x] = 0 /\ ~Granted(x, o)'
            BY <1>6, <1>8, <2>1, <2>3
        <3> QED BY <1>8, <3>1, <3>2 DEF Owns
    <2>4. Owns(t, o)'
        <3>1. held'[o][t] >= 0 /\ held'[o][t] = mutex'[o].lock_count
            BY <1>5, <1>8, <1>9
        <3>2. ~Waited(t, o)' /\ ~Granted(t, o)'
            BY <2>1
        <3> QED BY <1>8, <1>9, <3>1, <3>2 DEF Owns
    <2> QED BY <2>2, <2>3, <2>4 DEF OwnersKnown
<1>10. CASE /\ k.wq[q] # <<>> /\ mutex[o].lock_count = 1
            /\ mutex'[o] = [owner |-> Head(k.wq[q]), lock_count |-> 1]
            /\ k' = trt_wait_q_wake_one_result_locked(k, q, "OBJECT")
    <2>1. PICK h \in Task : h = Head(k.wq[q])
        BY <1>0, <1>10, FirstWaiter
    <2>2. Contains(k.wq[q], h) /\ Rouses(h, "OBJECT")
        <3>1. "OBJECT" \in WaitResult \ {"NONE"}
            BY DEF WaitResult
        <3> QED BY <1>0, <1>10, <2>1, <3>1, WakeRouses
    <2>3. ObjWait(h) /\ call[h].o = o
        BY <1>1, <2>2, MutexAssumption, FirstQueue DEF OwnInv, WaitsInv, WaitersKnown
    <2>4. Waited(h, o) /\ \A u \in Obj : Waited(h, u) => u = o
        BY <2>3, WaitedMeans
    <2>5. h # t /\ mutex'[o].owner = h /\ mutex'[o].lock_count = 1
        BY <1>3, <1>10, <2>1, <2>2 DEF Rouses
    <2>6. \A x \in Task, u \in Obj :
              /\ Waited(x, u)' <=> x # t /\ Waited(x, u)
              /\ Granted(x, u)' <=> \/ x # t /\ Granted(x, u)
                                    \/ x = h /\ Waited(h, u) /\ "OBJECT" = "OBJECT"
        BY <1>0, <1>3, <2>2, RouseGrants
    <2>7. ASSUME NEW x \in Task, NEW u \in Obj \ {o} PROVE Owns(x, u)'
        BY <1>4, <1>7, <2>4, <2>6, OwnsKept DEF OwnInv
    <2>8. ASSUME NEW x \in Task PROVE Owns(x, o)'
        <3>1. held'[o][x] = 0
            BY <1>5, <1>8, <1>10
        <3>2. Granted(x, o)' <=> x = h
            BY <1>4, <1>6, <2>4, <2>6
        <3> QED BY <1>8, <2>5, <3>1, <3>2 DEF Owns
    <2> QED BY <2>7, <2>8 DEF OwnersKnown
<1>11. CASE k.wq[q] = <<>> \/ mutex[o].lock_count # 1
    <2>1. Quietly
        <3>1. k' = k
            BY <1>1, <1>11 DEF mutex_unlock_obj, trt_wait_q_wake_one_locked,
                trt_wait_q_wake_one_result_locked
        <3> QED BY <3>1 DEF Quietly
    <2>2. CASE mutex[o].lock_count # 1
        <3>1. mutex'[o] = [owner |-> t, lock_count |-> mutex[o].lock_count - 1]
            BY <1>0, <2>2 DEF mutex_unlock_obj
        <3>2. mutex[o].lock_count \in Nat
            BY <1>0
        <3> QED BY <1>5, <1>9, <2>1, <2>2, <3>1, <3>2
    <2>3. CASE mutex[o].lock_count = 1 /\ k.wq[q] = <<>>
        <3>1. mutex'[o] = [owner |-> None, lock_count |-> 0]
            BY <1>0, <1>1, <2>3 DEF mutex_unlock_obj, mutex_init_obj
        <3> QED BY <1>9, <2>1, <2>3, <3>1, SchedAssumption
    <2> QED BY <1>11, <2>2, <2>3
<1>12. CASE k.wq[q] # <<>> /\ mutex[o].lock_count = 1
    <2>1. mutex'[o] = [owner |-> Head(k.wq[q]), lock_count |-> 1]
        BY <1>0, <1>1, <1>12 DEF mutex_unlock_obj
    <2>2. k' = trt_wait_q_wake_one_result_locked(k, q, "OBJECT")
        BY <1>1, <1>12 DEF mutex_unlock_obj, trt_wait_q_wake_one_locked
    <2> QED BY <1>10, <1>12, <2>1, <2>2
<1> QED BY <1>11, <1>12

(* mutex_lock_obj and mutex_lock_timeout_obj after the wait. *)
LEMMA ReturnOwns ==
    ASSUME OwnInv, NEW t \in Task, mutex_lock_return(t)
    PROVE  OwnersKnown'
<1> USE DEF history
<1>0. /\ mutex \in [Obj -> [owner : Task \cup {None}, lock_count : Nat]]
      /\ held \in [Obj -> [Task -> Int]] /\ ObjectInv /\ call \in [Task -> CallRecord]
    BY OwnTypes
<1>1. /\ Runs(t) /\ pc[t] = "o_ret" /\ Answers(t) /\ k' = k /\ obj' = obj /\ mutex' = mutex
    BY DEF mutex_lock_return, ReturnUnchanged, UseFreed, At, Answers, Wakes
<1>2. \A x \in Task, u \in Obj : /\ Waited(x, u)' <=> x # t /\ Waited(x, u)
                                 /\ Granted(x, u)' <=> x # t /\ Granted(x, u)
    BY <1>0, <1>1, AnswerGrants DEF Quietly
<1>3. k.state[t] = "RUNNING"
    BY <1>0, <1>1, WorkerRuns DEF ObjectPc
<1>4. CASE call[t].o = None
    <2>1. held' = held
        BY <1>4 DEF mutex_lock_return
    <2>2. \A u \in Obj : ~Waited(t, u) /\ ~Granted(t, u)
        BY <1>4, ObjectAssumption DEF Waited, Granted
    <2>3. ASSUME NEW x \in Task, NEW u \in Obj PROVE Owns(x, u)'
        <3>1. SameMutex(x, u)
            BY <1>1, <2>1 DEF SameMutex, Usable
        <3> QED BY <1>2, <2>2, <3>1, OwnsKept DEF OwnInv
    <2> QED BY <2>3 DEF OwnersKnown
<1>5. ASSUME NEW o \in Obj, call[t].o = o PROVE OwnersKnown'
    <2>1. /\ \A u \in Obj \ {o}, x \in Task : held'[u][x] = held[u][x]
          /\ \A x \in Task \ {t} : held'[o][x] = held[o][x]
          /\ held'[o][t] = IF ReadsOwner(t) /\ mutex[o].owner = t THEN held[o][t] + 1 ELSE held[o][t]
        <3>1. o # None
            BY ObjectAssumption
        <3>2. held' = IF ReadsOwner(t) /\ mutex[o].owner = t
                      THEN [held EXCEPT ![o][t] = @ + 1] ELSE held
            BY <1>5, <3>1 DEF mutex_lock_return
        <3> QED BY <1>0, <3>2
    <2>2. \A u \in Obj \ {o} : ~Waited(t, u) /\ ~Granted(t, u)
        BY <1>5 DEF Waited, Granted
    <2>3. ASSUME NEW x \in Task, NEW u \in Obj, x # t \/ u # o PROVE Owns(x, u)'
        <3>1. SameMutex(x, u)
            BY <1>1, <2>1, <2>3 DEF SameMutex, Usable
        <3> QED BY <1>2, <2>2, <2>3, <3>1, OwnsKept DEF OwnInv
    <2>4. Owns(t, o)'
        <3>1. Owns(t, o) /\ held[o][t] \in Int /\ t # None
            BY <1>0, SchedAssumption DEF OwnInv, OwnersKnown
        <3>2. Waited(t, o) /\ ~Waited(t, o)' /\ ~Granted(t, o)' /\ (Usable(o)' <=> Usable(o))
            BY <1>1, <1>2, <1>5 DEF Waited, Usable
        <3>3. CASE Usable(o)
            <4>1. held[o][t] = 0 /\ (mutex[o].owner = t <=> Granted(t, o))
                  /\ (mutex[o].owner = t => mutex[o].lock_count = 1)
                BY <3>1, <3>2, <3>3 DEF Owns
            <4>2. Granted(t, o) => ReadsOwner(t)
                BY DEF Granted, ReadsOwner
            <4>3. held'[o][t] = IF mutex[o].owner = t THEN 1 ELSE 0
                BY <2>1, <4>1, <4>2
            <4> QED BY <1>1, <3>2, <3>3, <4>1, <4>3 DEF Owns
        <3>4. CASE ~Usable(o)
            <4>1. mutex[o].owner = None /\ held[o][t] = 0
                BY <3>1, <3>4 DEF Owns
            <4>2. held'[o][t] = 0
                BY <2>1, <3>1, <4>1
            <4> QED BY <1>1, <3>2, <3>4, <4>1, <4>2 DEF Owns
        <3> QED BY <3>3, <3>4
    <2> QED BY <2>3, <2>4 DEF OwnersKnown
<1> QED BY <1>0, <1>4, <1>5 DEF CallRecord

-----------------------------------------------------------------------------

(* The caller blocks while another task owns the mutex. *)
LEMMA BlockOwns ==
    ASSUME OwnInv, NEW t \in Task, NEW o \in Obj, mutex_block(t, o)
    PROVE  OwnersKnown'
<1>1. PICK timed \in BOOLEAN : call[t].o = o /\ Usable(o) /\ WaitsOn(t, Queues[o][1], timed)
    BY BlockWaits DEF OwnInv
<1>2. /\ UNCHANGED <<mutex, held>> /\ obj' = obj /\ mutex[o].owner # t
      /\ 1 \in DOMAIN Queues[o]
    BY MutexAssumption, FirstQueue DEF mutex_block, BlockOn, objvars, OwnedByOther
<1>3. \A x \in Task, u \in Obj : /\ Waited(x, u)' <=> Waited(x, u) \/ (x = t /\ u = o)
                                 /\ Granted(x, u)' <=> Granted(x, u)
    BY <1>1, <1>2, BlockGrants DEF OwnInv
<1>4. \A x \in Task, u \in Obj : SameMutex(x, u)
    BY <1>2 DEF SameMutex, Usable
<1>5. ASSUME NEW x \in Task, NEW u \in Obj, x # t \/ u # o PROVE Owns(x, u)'
    BY <1>3, <1>4, <1>5, OwnsKept DEF OwnInv
<1>6. Owns(t, o)'
    <2>1. Owns(t, o) /\ held[o][t] \in Int
        BY OwnTypes DEF OwnInv, OwnersKnown
    <2> QED BY <1>1, <1>2, <1>3, <1>4, <2>1 DEF Owns, SameMutex
<1> QED BY <1>5, <1>6 DEF OwnersKnown

(* The mutex is destroyed: the holder has lost it. *)
LEMMA DestroyOwns ==
    ASSUME OwnInv, NEW t \in Task, (\E o \in Obj : mutex_destroy_obj(t, o)) \/ trt_mutex_destroy(t)
    PROVE  OwnersKnown'
<1>0. /\ mutex \in [Obj -> [owner : Task \cup {None}, lock_count : Nat]]
      /\ held \in [Obj -> [Task -> Int]] /\ ObjectInv /\ call \in [Task -> CallRecord]
      /\ obj \in [Obj -> [alloc : BOOLEAN, open : BOOLEAN, destroyed : BOOLEAN]]
    BY OwnTypes
<1>1. DestroyStep(t)
    BY DEF mutex_destroy_obj, trt_mutex_destroy, DestroyStep
<1>2. OthersWait
    BY <1>1, DestroyGrants DEF OwnInv
<1>3. ASSUME NEW x \in Task, NEW u \in Obj, mutex'[u] = mutex[u] /\ held'[u][x] = held[u][x],
             Usable(u) => Usable(u)'
      PROVE  Owns(x, u)'
    <2>1. SameMutex(x, u)
        BY <1>2, <1>3 DEF SameMutex, OthersWait
    <2> QED BY <1>2, <2>1, OwnsKept DEF OwnInv, OthersWait, SameMutex
<1>4. ASSUME NEW o \in Obj, mutex_destroy_obj(t, o) PROVE OwnersKnown'
    <2>1. /\ mutex' = [mutex EXCEPT ![o] = mutex_init_obj]
          /\ held' = [held EXCEPT ![o] = NobodyHolds]
          /\ obj' = [obj EXCEPT ![o].destroyed = TRUE]
        BY <1>4 DEF mutex_destroy_obj, Destroy
    <2>2. ASSUME NEW x \in Task PROVE Owns(x, o)'
        <3>1. ~Usable(o)' /\ mutex'[o].owner = None /\ held'[o][x] = 0
            BY <1>0, <2>1 DEF Usable, mutex_init_obj, NobodyHolds
        <3> QED BY <3>1 DEF Owns
    <2>3. ASSUME NEW x \in Task, NEW u \in Obj \ {o} PROVE Owns(x, u)'
        <3>1. mutex'[u] = mutex[u] /\ held'[u][x] = held[u][x] /\ (Usable(u) => Usable(u)')
            BY <1>0, <2>1 DEF Usable
        <3> QED BY <1>3, <3>1
    <2> QED BY <2>2, <2>3 DEF OwnersKnown
<1>5. CASE trt_mutex_destroy(t)
    <2>1. /\ Runs(t) /\ pc[t] \in {"o_wake", "o_close", "o_free"} /\ UNCHANGED <<mutex, held>>
        BY <1>5 DEF trt_mutex_destroy, WakeDestroyed, Close, Free, At
    <2>2. CallAt(t)
        BY <1>0 DEF ObjectInv
    <2>3. PICK o \in Obj : o = call[t].o /\ obj[o].destroyed
        BY <1>0, <2>1, <2>2 DEF CallAt, Destroys, CallRecord
    <2>4. obj' \in {obj, [obj EXCEPT ![o].open = FALSE], [obj EXCEPT ![o] = NoObj]}
        BY <1>5, <2>3 DEF trt_mutex_destroy, WakeDestroyed, Close, Free, objvars
    <2>5. \A u \in Obj : Usable(u) => Usable(u)'
        BY <1>0, <2>3, <2>4 DEF Usable, NoObj
    <2>6. ASSUME NEW x \in Task, NEW u \in Obj PROVE Owns(x, u)'
        BY <1>3, <2>1, <2>5
    <2> QED BY <2>6 DEF OwnersKnown
<1> QED BY <1>4, <1>5

(* A new mutex has no owner and no waiter. *)
LEMMA CreateOwns ==
    ASSUME OwnInv, NEW o \in Obj, trt_mutex_create(o)
    PROVE  OwnersKnown'
<1>0. /\ mutex \in [Obj -> [owner : Task \cup {None}, lock_count : Nat]]
      /\ held \in [Obj -> [Task -> Int]] /\ ObjectInv
      /\ obj \in [Obj -> [alloc : BOOLEAN, open : BOOLEAN, destroyed : BOOLEAN]]
    BY OwnTypes
<1>1. /\ mutex' = [mutex EXCEPT ![o] = mutex_init_obj] /\ held' = held
      /\ obj' = [obj EXCEPT ![o] = [alloc |-> TRUE, open |-> TRUE, destroyed |-> FALSE]]
      /\ k' = k /\ pc' = pc /\ ret' = ret /\ call' = call /\ ~obj[o].alloc
    BY DEF trt_mutex_create, Create, vars
<1>2. \A x \in Task, u \in Obj : /\ Waited(x, u)' <=> Waited(x, u)
                                 /\ Granted(x, u)' <=> Granted(x, u)
    BY <1>1 DEF Waited, Granted
<1>3. ASSUME NEW x \in Task PROVE Owns(x, o)'
    <2>1. ~Waited(x, o) /\ ~Granted(x, o)
        <3>1. CallAt(x) /\ o # None
            BY <1>0, ObjectAssumption DEF ObjectInv
        <3> QED BY <1>1, <3>1 DEF CallAt, Waited, Granted
    <2>2. Owns(x, o) /\ ~Usable(o) /\ x # None
        BY <1>1, SchedAssumption DEF OwnInv, OwnersKnown, Usable
    <2>3. mutex'[o].owner = None /\ held'[o][x] = 0
        BY <1>0, <1>1, <2>2 DEF Owns, mutex_init_obj
    <2>4. ~Waited(x, o)' /\ ~Granted(x, o)'
        BY <1>2, <2>1
    <2> QED BY <2>2, <2>3, <2>4 DEF Owns
<1>4. ASSUME NEW x \in Task, NEW u \in Obj \ {o} PROVE Owns(x, u)'
    <2>1. SameMutex(x, u)
        BY <1>0, <1>1 DEF SameMutex, Usable
    <2> QED BY <1>2, <2>1, OwnsKept DEF OwnInv
<1> QED BY <1>3, <1>4 DEF OwnersKnown

(* Every step of the mutexes keeps their owners known. *)
LEMMA OwnNext ==
    ASSUME OwnInv, TasksStay, [MutexNext]_<<vars, mutexvars>>
    PROVE  OwnersKnown'
<1> USE DEF history
<1>0. ObjectsOnly /\ ObjectInv /\ WaitsInv /\ OwnersKnown
    BY OwnTypes, MutexAssumption DEF ObjectsOnly, OwnInv
<1>1. ASSUME GrantsStay, UNCHANGED <<mutex, held, obj>> PROVE OwnersKnown'
    <2>1. ASSUME NEW x \in Task, NEW u \in Obj PROVE Owns(x, u)'
        <3>1. SameMutex(x, u)
            BY <1>1 DEF SameMutex, Usable
        <3> QED BY <1>0, <1>1, <3>1, OwnsKept DEF GrantsStay
    <2> QED BY <2>1 DEF OwnersKnown
<1>2. CASE UNCHANGED <<vars, mutexvars>> \/ (Next /\ UNCHANGED mutexvars)
    <2>1. [Next]_vars /\ UNCHANGED objvars /\ UNCHANGED <<mutex, held>> /\ obj' = obj
        BY <1>2 DEF mutexvars, objvars
    <2>2. GrantsStay
        BY <1>0, <2>1, KernelGrants
    <2> QED BY <1>1, <2>1, <2>2
<1>3. ASSUME NEW o \in Obj, trt_mutex_create(o) PROVE OwnersKnown'
    BY <1>3, CreateOwns
<1>4. ASSUME NEW t \in Task, MutexCall(t) PROVE OwnersKnown'
    <2>1. PICK o \in Obj, op \in ObjOps, d \in Delays \cup {0, None} : mutex_lookup(t, o, op, d)
        BY <1>4 DEF MutexCall, mutex_lookup, Lookup
    <2>2. Lookup(t, o, op, d) /\ UNCHANGED <<mutex, held>> /\ obj' = obj
        BY <2>1 DEF mutex_lookup, Lookup
    <2>3. GrantsStay
        BY <1>0, <2>2, LookupWaits
    <2> QED BY <1>1, <2>2, <2>3
<1>5. ASSUME NEW t \in Task, MutexStep(t) PROVE OwnersKnown'
    <2>1. ASSUME NEW o \in Obj, mutex_take(t, o) \/ mutex_unlock_obj(t, o) \/ mutex_block(t, o)
          PROVE  OwnersKnown'
        BY <2>1, TakeOwns, UnlockOwns, BlockOwns
    <2>2. CASE (\E o \in Obj : mutex_destroy_obj(t, o)) \/ trt_mutex_destroy(t)
        BY <2>2, DestroyOwns
    <2>3. CASE mutex_lock_return(t)
        BY <2>3, ReturnOwns
    <2>4. ASSUME \/ mutex_gone(t)
                 \/ \E o \in Obj : \/ mutex_trylock_busy(t, o) \/ mutex_lock_refused(t, o)
                                   \/ mutex_unlock_refused(t, o)
          PROVE  OwnersKnown'
        <3>1. UNCHANGED <<mutex, held, obj>> /\ (k' = k \/ k' = sched_set_pending(k))
            BY <2>4 DEF mutex_gone, OperateFreed, UseFreed, OperateGone, mutex_trylock_busy,
                mutex_lock_refused, mutex_unlock_refused, ReturnUnchanged
        <3>2. pc[t] = "o_op" /\ Answers(t)
            BY <2>4 DEF mutex_gone, OperateFreed, UseFreed, OperateGone, mutex_trylock_busy,
                mutex_lock_refused, mutex_unlock_refused, ReturnUnchanged, Operates, At, Answers, Wakes
        <3>3. Quietly
            <4>1. k \in Scheduler
                BY OwnTypes
            <4> QED BY <3>1, <4>1 DEF Quietly, sched_set_pending, Scheduler
        <3> QED BY <3>1, <3>2, <3>3, AnswerOwns
    <2> QED BY <1>5, <2>1, <2>2, <2>3, <2>4 DEF MutexStep
<1> QED BY <1>2, <1>3, <1>4, <1>5 DEF MutexNext, MutexCreate

(* The calls an application makes are the same for ever. *)
LEMMA StayForEver == TasksStay => []TasksStay
<1>1. TasksStay => TasksStay'
    BY DEF TasksStay
<1> QED BY <1>1, PTL

(* The invariant of the mutexes of tasks that stay. *)
LEMMA OwnersAlways == MutexSpec /\ TasksStay => []OwnInv
<1>1. MutexInit => OwnersKnown
    <2> SUFFICES ASSUME MutexInit, NEW o \in Obj, NEW t \in Task PROVE Owns(t, o)
        BY DEF OwnersKnown
    <2>1. /\ held[o][t] = 0 /\ mutex[o].owner = None /\ ~Usable(o)
        BY DEF MutexInit, ObjInit, mutex_init_obj, NobodyHolds, NoObj, Usable
    <2> QED BY <2>1 DEF Owns
<1>2. MutexInit => WaitsInv
    BY WaitInit DEF MutexInit
<1>3. TasksStay /\ MutexInv /\ WaitsInv /\ [MutexNext]_<<vars, mutexvars>> => WaitsInv'
    <2> SUFFICES ASSUME TasksStay, MutexInv, WaitsInv, [MutexNext]_<<vars, mutexvars>> PROVE WaitsInv'
        OBVIOUS
    <2>1. ObjectsOnly
        BY MutexAssumption DEF ObjectsOnly
    <2>2. GoesOn \/ LookupStep
        BY MutexGoes, MutexCallLooks
    <2> QED BY <2>1, <2>2, WaitNext DEF ObjectStep
<1>4. TasksStay /\ MutexInv /\ WaitsInv /\ OwnersKnown /\ [MutexNext]_<<vars, mutexvars>>
         => OwnersKnown'
    BY OwnNext DEF OwnInv
<1>5. MutexInv /\ WaitsInv /\ OwnersKnown => OwnInv
    BY DEF OwnInv
<1> QED BY <1>1, <1>2, <1>3, <1>4, <1>5, MutexAlways, StayForEver, PTL DEF MutexSpec

(* Every variable of the mutexes keeps its type, and mutex_unlock_obj      *)
(* never returns ERR_OK to a task that holds no lock.                      *)
THEOREM MutexTypeCorrect == MutexSpec /\ TasksStay => []MutexTypeOK
<1>1. OwnInv => MutexTypeOK
    <2> SUFFICES ASSUME OwnInv PROVE MutexTypeOK
        OBVIOUS
    <2>1. held \in [Obj -> [Task -> Int]] /\ \A o \in Obj, t \in Task : held[o][t] >= 0
        BY OwnTypes DEF OwnInv, OwnersKnown, Owns
    <2>2. held \in [Obj -> [Task -> Nat]]
        <3>1. ASSUME NEW o \in Obj PROVE held[o] \in [Task -> Nat]
            BY <2>1
        <3> QED BY <2>1, <3>1
    <2> QED BY <2>2 DEF OwnInv, MutexInv, MutexData, ObjectInv, ObjectData, CallRecord, KernelInv,
            TypeInv, MutexTypeOK, ObjTypeOK
<1> QED BY <1>1, OwnersAlways, PTL

(* Mutual exclusion: a task whose locks have returned ERR_OK more often    *)
(* than its unlocks owns the mutex with this count.                        *)
THEOREM MutualExclusion == MutexSpec /\ TasksStay => []HolderOwns
<1>1. OwnInv => HolderOwns
    BY DEF OwnInv, OwnersKnown, Owns, HolderOwns
<1> QED BY <1>1, OwnersAlways, PTL

(* mutex_unlock_obj hands the mutex to a waiter that will learn of it.     *)
THEOREM HandOverIsKnown == MutexSpec /\ TasksStay => []OwnerKnows
<1>1. OwnInv => OwnerKnows
    BY DEF OwnInv, OwnersKnown, Owns, OwnerKnows
<1> QED BY <1>1, OwnersAlways, PTL

-----------------------------------------------------------------------------

(* The tokens of the semaphores: who has been given one and has not yet    *)
(* returned.                                                               *)
Given(o) == {x \in Task : Granted(x, o)}

Conserved(o) ==
    Usable(o) => /\ balance[o] = sem[o].cnt + Cardinality(Given(o))
                 /\ sem[o].cnt <= sem[o].max

TokenInv == SemInv /\ WaitsInv /\ \A o \in Obj : Conserved(o)

(* sem_init_obj raises a negative count to 0, but not the limit with it.   *)
LimitsHold == \A max \in SemMax, cnt \in SemCnt : max >= 0 \/ cnt >= 0

(* The woken waiters of an object can be counted. *)
LEMMA GivenFinite ==
    ASSUME NEW o \in Obj
    PROVE  IsFiniteSet(Given(o)) /\ Cardinality(Given(o)) \in Nat
<1>1. Given(o) \in SUBSET Task /\ IsFiniteSet(Task)
    BY SemAssumption DEF Given
<1> QED BY <1>1, FS_Subset, FS_CardinalityType

(* The same set after the step. *)
LEMMA GivenPrimed ==
    ASSUME NEW o \in Obj
    PROVE  Given(o)' = {x \in Task : Granted(x, o)'}
BY DEF Given

(* No task more, a task more, or a task less. *)
LEMMA GivenSame ==
    ASSUME NEW o \in Obj, \A x \in Task : Granted(x, o)' <=> Granted(x, o)
    PROVE  Given(o)' = Given(o)
BY GivenPrimed DEF Given

(* One more task is woken. *)
LEMMA GivenMore ==
    ASSUME NEW o \in Obj, NEW h \in Task, ~Granted(h, o),
           \A x \in Task : Granted(x, o)' <=> Granted(x, o) \/ x = h
    PROVE  Cardinality(Given(o)') = Cardinality(Given(o)) + 1
<1>1. Given(o)' = Given(o) \cup {h} /\ h \notin Given(o)
    BY GivenPrimed DEF Given
<1> QED BY <1>1, GivenFinite, FS_AddElement

(* One woken task takes what it was given. *)
LEMMA GivenLess ==
    ASSUME NEW o \in Obj, NEW t \in Task, Granted(t, o),
           \A x \in Task : Granted(x, o)' <=> x # t /\ Granted(x, o)
    PROVE  Cardinality(Given(o)') = Cardinality(Given(o)) - 1
<1>1. Given(o)' = Given(o) \ {t} /\ t \in Given(o)
    BY GivenPrimed DEF Given
<1> QED BY <1>1, GivenFinite, FS_RemoveElement

(* A semaphore the step does not touch. *)
LEMMA TokensKept ==
    ASSUME NEW o \in Obj, Conserved(o), sem'[o] = sem[o], balance'[o] = balance[o],
           Usable(o)' => Usable(o) /\ \A x \in Task : Granted(x, o)' <=> Granted(x, o)
    PROVE  Conserved(o)'
<1> SUFFICES ASSUME Usable(o)'
             PROVE  /\ balance'[o] = sem'[o].cnt + Cardinality(Given(o)')
                    /\ sem'[o].cnt <= sem'[o].max
    BY DEF Conserved
<1>1. Given(o)' = Given(o)
    BY GivenSame
<1> QED BY <1>1 DEF Conserved

(* The types. *)
LEMMA TokenTypes ==
    ASSUME TokenInv
    PROVE  /\ sem \in [Obj -> [cnt : Nat, max : Int]]
           /\ balance \in [Obj -> Int]
           /\ obj \in [Obj -> [alloc : BOOLEAN, open : BOOLEAN, destroyed : BOOLEAN]]
           /\ call \in [Task -> CallRecord]
           /\ k \in Scheduler /\ Orderly(k) /\ ObjectInv
BY DEF TokenInv, SemInv, SemData, ObjectInv, ObjectData, KernelInv, TypeInv, TypeOK, AlwaysInv

(* A post: what it does to the count and to the waiters adds up. *)
LEMMA PostedTokens ==
    ASSUME TokenInv, NEW o \in Obj, obj' = obj, NEW woken, NEW counted, SemPosted(o, woken, counted),
           NEW q \in WaitQ, q = waiters(o),
           k.wq[q] = <<>> => GrantsStay,
           k.wq[q] # <<>> =>
               \E h \in Task :
                  /\ ~Granted(h, o) /\ Waited(h, o)
                  /\ \A x \in Task, u \in Obj :
                        Granted(x, u)' <=> Granted(x, u) \/ (x = h /\ Waited(h, u))
    PROVE  \A u \in Obj : Conserved(u)'
<1>0. /\ sem \in [Obj -> [cnt : Nat, max : Int]] /\ balance \in [Obj -> Int]
      /\ \A u \in Obj : Conserved(u)
    BY TokenTypes DEF TokenInv
<1>1. \A u \in Obj : Usable(u)' <=> Usable(u)
    BY DEF Usable
<1>2. CASE k.wq[q] # <<>>
    <2>1. PICK h \in Task :
                  /\ ~Granted(h, o) /\ Waited(h, o)
                  /\ \A x \in Task, u \in Obj :
                        Granted(x, u)' <=> Granted(x, u) \/ (x = h /\ Waited(h, u))
        BY <1>2
    <2>2. sem' = sem /\ balance' = [balance EXCEPT ![o] = @ + 1]
        BY <1>2 DEF SemPosted
    <2>3. Conserved(o)'
        <3>1. Cardinality(Given(o)') = Cardinality(Given(o)) + 1
            BY <2>1, GivenMore
        <3>2. Cardinality(Given(o)) \in Nat /\ sem[o].cnt \in Nat /\ balance[o] \in Int
            BY <1>0, GivenFinite
        <3>3. balance'[o] = balance[o] + 1
            BY <1>0, <2>2
        <3>4. Usable(o) => balance[o] = sem[o].cnt + Cardinality(Given(o)) /\ sem[o].cnt <= sem[o].max
            BY <1>0 DEF Conserved
        <3>5. Usable(o)' => /\ balance'[o] = sem'[o].cnt + Cardinality(Given(o)')
                            /\ sem'[o].cnt <= sem'[o].max
            BY <1>1, <2>2, <3>1, <3>2, <3>3, <3>4
        <3> QED BY <3>5 DEF Conserved
    <2>4. ASSUME NEW u \in Obj \ {o} PROVE Conserved(u)'
        <3>1. ~Waited(h, u)
            BY <2>1 DEF Waited
        <3>2. sem'[u] = sem[u] /\ balance'[u] = balance[u]
            BY <1>0, <2>2
        <3> QED BY <1>0, <1>1, <2>1, <3>1, <3>2, TokensKept
    <2> QED BY <2>3, <2>4
<1>3. CASE k.wq[q] = <<>> /\ sem[o].cnt = sem[o].max
    <2>1. sem' = sem /\ balance' = balance
        BY <1>3 DEF SemPosted
    <2> QED BY <1>0, <1>1, <1>3, <2>1, TokensKept DEF GrantsStay
<1>4. CASE k.wq[q] = <<>> /\ sem[o].cnt # sem[o].max
    <2>1. sem' = [sem EXCEPT ![o].cnt = @ + 1] /\ balance' = [balance EXCEPT ![o] = @ + 1]
        BY <1>4 DEF SemPosted
    <2>2. Conserved(o)'
        <3>1. Given(o)' = Given(o)
            BY <1>4, GivenSame DEF GrantsStay
        <3>2. Cardinality(Given(o)) \in Nat /\ sem[o].cnt \in Nat /\ sem[o].max \in Int /\ balance[o] \in Int
            BY <1>0, GivenFinite
        <3>3. /\ balance'[o] = balance[o] + 1 /\ sem'[o].cnt = sem[o].cnt + 1
              /\ sem'[o].max = sem[o].max
            BY <1>0, <2>1
        <3>4. Usable(o) => balance[o] = sem[o].cnt + Cardinality(Given(o)) /\ sem[o].cnt <= sem[o].max
            BY <1>0 DEF Conserved
        <3>5. Usable(o)' => /\ balance'[o] = sem'[o].cnt + Cardinality(Given(o)')
                            /\ sem'[o].cnt <= sem'[o].max
            BY <1>1, <1>4, <3>1, <3>2, <3>3, <3>4
        <3> QED BY <3>5 DEF Conserved
    <2>3. ASSUME NEW u \in Obj \ {o} PROVE Conserved(u)'
        <3>1. sem'[u] = sem[u] /\ balance'[u] = balance[u]
            BY <1>0, <2>1
        <3> QED BY <1>0, <1>1, <1>4, <3>1, TokensKept DEF GrantsStay
    <2> QED BY <2>2, <2>3
<1> QED BY <1>2, <1>3, <1>4

-----------------------------------------------------------------------------

(* sem_post_obj and the handlers' post. *)
LEMMA PostTokens ==
    ASSUME TokenInv, NEW t \in Task, NEW o \in Obj, sem_post_obj(t, o)
    PROVE  \A u \in Obj : Conserved(u)'
<1>0. k \in Scheduler /\ Orderly(k) /\ ObjectInv
    BY TokenTypes
<1>1. PICK q \in WaitQ : q = waiters(o)
    BY SemAssumption, FirstQueue
<1>2. /\ Runs(t) /\ pc[t] = "o_op" /\ obj' = obj /\ ret' = ret
      /\ Goto(t, "run") /\ call' = [call EXCEPT ![t] = NoCall]
      /\ SemPosted(o, trt_wait_q_wake_one_locked(k, q), k)
    BY <1>1 DEF sem_post_obj, Operates, At, Return
<1>3. Alone(t) /\ ~ObjWait(t)' /\ k.state[t] = "RUNNING"
    <2>1. Alone(t) /\ pc'[t] = "run"
        BY <1>0, <1>2, GoesAlone
    <2>2. k.state[t] = "RUNNING"
        BY <1>0, <1>2, WorkerRuns DEF ObjectPc
    <2> QED BY <2>1, <2>2 DEF ObjWait, YieldPc
<1>4. \A u \in Obj : ~Waited(t, u) /\ ~Granted(t, u)
    BY <1>2, NotYetWaited
<1>5. ASSUME k.wq[q] = <<>> PROVE GrantsStay
    <2>1. k' = k
        BY <1>1, <1>2, <1>5 DEF SemPosted
    <2>2. \A x \in Task, u \in Obj : /\ Waited(x, u)' <=> x # t /\ Waited(x, u)
                                     /\ Granted(x, u)' <=> x # t /\ Granted(x, u)
        BY <1>3, <2>1, QuietGrants DEF Quietly
    <2> QED BY <1>4, <2>2 DEF GrantsStay
<1>6. ASSUME k.wq[q] # <<>>
      PROVE  \E h \in Task :
                /\ ~Granted(h, o) /\ Waited(h, o)
                /\ \A x \in Task, u \in Obj :
                      Granted(x, u)' <=> Granted(x, u) \/ (x = h /\ Waited(h, u))
    <2>1. PICK h \in Task : h = Head(k.wq[q])
        BY <1>0, <1>6, FirstWaiter
    <2>2. k' = trt_wait_q_wake_one_result_locked(k, q, "OBJECT") /\ "OBJECT" \in WaitResult \ {"NONE"}
        BY <1>1, <1>2, <1>6 DEF SemPosted, trt_wait_q_wake_one_locked, WaitResult
    <2>3. Contains(k.wq[q], h) /\ Rouses(h, "OBJECT")
        BY <1>0, <1>6, <2>1, <2>2, WakeRouses
    <2>4. ObjWait(h) /\ call[h].o = o
        BY <1>1, <2>3, SemAssumption, FirstQueue DEF TokenInv, WaitsInv, WaitersKnown
    <2>5. Waited(h, o) /\ ~Granted(h, o)
        BY <2>3, <2>4, WaitedMeans DEF Granted, Rouses
    <2>6. \A x \in Task, u \in Obj :
              /\ Waited(x, u)' <=> x # t /\ Waited(x, u)
              /\ Granted(x, u)' <=> \/ x # t /\ Granted(x, u)
                                    \/ x = h /\ Waited(h, u) /\ "OBJECT" = "OBJECT"
        BY <1>0, <1>3, <2>3, RouseGrants
    <2>7. \A x \in Task, u \in Obj : Granted(x, u)' <=> Granted(x, u) \/ (x = h /\ Waited(h, u))
        BY <1>4, <2>6
    <2> QED BY <2>5, <2>7
<1> QED BY <1>1, <1>2, <1>5, <1>6, PostedTokens

(* A post by an interrupt handler. *)
LEMMA IsrTokens ==
    ASSUME TokenInv, NEW o \in Obj, trt_sem_post_from_isr(o)
    PROVE  \A u \in Obj : Conserved(u)'
<1>0. k \in Scheduler /\ Orderly(k) /\ ObjectInv /\ IsrWakes /\ WaitsInv
    BY TokenTypes, SemIrqGoes DEF TokenInv
<1>1. PICK q \in WaitQ : q = waiters(o)
    BY SemAssumption, FirstQueue
<1>2. /\ obj' = obj
      /\ SemPosted(o, trt_wait_q_wake_one_from_isr(k, q), sched_set_pending(k))
    BY <1>1 DEF trt_sem_post_from_isr, objvars
<1>3. ASSUME k.wq[q] = <<>> PROVE GrantsStay
    <2>1. k' = k \/ k' = sched_set_pending(k)
        BY <1>1, <1>2, <1>3 DEF SemPosted
    <2>2. Quietly
        BY <1>0, <2>1 DEF Quietly, sched_set_pending, Scheduler
    <2> QED BY <1>0, <2>2, IsrGrants
<1>4. ASSUME k.wq[q] # <<>>
      PROVE  \E h \in Task :
                /\ ~Granted(h, o) /\ Waited(h, o)
                /\ \A x \in Task, u \in Obj :
                      Granted(x, u)' <=> Granted(x, u) \/ (x = h /\ Waited(h, u))
    <2>1. PICK h \in Task : h = Head(k.wq[q])
        BY <1>0, <1>4, FirstWaiter
    <2>2. k' = trt_wait_q_wake_one_from_isr(k, q) /\ "OBJECT" \in WaitResult \ {"NONE"}
        BY <1>1, <1>2, <1>4 DEF SemPosted, WaitResult
    <2>3. Contains(k.wq[q], h) /\ Rouses(h, "OBJECT")
        BY <1>0, <1>4, <2>1, <2>2, WakeRouses
    <2>4. ObjWait(h) /\ call[h].o = o
        BY <1>1, <2>3, SemAssumption, FirstQueue DEF TokenInv, WaitsInv, WaitersKnown
    <2>5. Waited(h, o) /\ ~Granted(h, o)
        BY <2>3, <2>4, WaitedMeans DEF Granted, Rouses
    <2>6. \A x \in Task, u \in Obj : Granted(x, u)' <=> Granted(x, u) \/ (x = h /\ Waited(h, u))
        BY <1>0, <2>3, IsrGrants
    <2> QED BY <2>5, <2>6
<1> QED BY <1>1, <1>2, <1>3, <1>4, PostedTokens

(* A token is taken by a task that did not wait. *)
LEMMA TakeTokens ==
    ASSUME TokenInv, NEW t \in Task, NEW o \in Obj, sem_take(t, o)
    PROVE  \A u \in Obj : Conserved(u)'
<1>0. /\ sem \in [Obj -> [cnt : Nat, max : Int]] /\ balance \in [Obj -> Int] /\ ObjectInv
      /\ \A u \in Obj : Conserved(u)
    BY TokenTypes DEF TokenInv
<1>1. /\ sem' = [sem EXCEPT ![o].cnt = @ - 1] /\ balance' = [balance EXCEPT ![o] = @ - 1]
      /\ sem[o].cnt > 0 /\ k' = k /\ obj' = obj /\ pc[t] = "o_op" /\ Answers(t)
    BY DEF sem_take, ReturnUnchanged, Operates, At, Answers, Wakes, history
<1>2. GrantsStay
    <2>1. \A x \in Task, u \in Obj : /\ Waited(x, u)' <=> x # t /\ Waited(x, u)
                                     /\ Granted(x, u)' <=> x # t /\ Granted(x, u)
        BY <1>0, <1>1, AnswerGrants DEF Quietly
    <2> QED BY <1>1, <2>1, NotYetWaited DEF GrantsStay
<1>3. \A u \in Obj : Usable(u)' <=> Usable(u)
    BY <1>1 DEF Usable
<1>4. Conserved(o)'
    <2>1. Given(o)' = Given(o)
        BY <1>2, GivenSame DEF GrantsStay
    <2>2. Cardinality(Given(o)) \in Nat /\ sem[o].cnt \in Nat /\ sem[o].max \in Int /\ balance[o] \in Int
        BY <1>0, GivenFinite
    <2>3. /\ balance'[o] = balance[o] - 1 /\ sem'[o].cnt = sem[o].cnt - 1
          /\ sem'[o].max = sem[o].max
        BY <1>0, <1>1
    <2>4. Usable(o) => balance[o] = sem[o].cnt + Cardinality(Given(o)) /\ sem[o].cnt <= sem[o].max
        BY <1>0 DEF Conserved
    <2>5. Usable(o)' => /\ balance'[o] = sem'[o].cnt + Cardinality(Given(o)')
                        /\ sem'[o].cnt <= sem'[o].max
        BY <1>3, <2>1, <2>2, <2>3, <2>4
    <2> QED BY <2>5 DEF Conserved
<1>5. ASSUME NEW u \in Obj \ {o} PROVE Conserved(u)'
    <2>1. sem'[u] = sem[u] /\ balance'[u] = balance[u]
        BY <1>0, <1>1
    <2> QED BY <1>0, <1>2, <1>3, <2>1, TokensKept DEF GrantsStay
<1> QED BY <1>4, <1>5

(* A waiter that was given a token returns with it. *)
LEMMA ReturnTokens ==
    ASSUME TokenInv, NEW t \in Task, sem_wait_return(t)
    PROVE  \A u \in Obj : Conserved(u)'
<1> USE DEF history
<1>0. /\ sem \in [Obj -> [cnt : Nat, max : Int]] /\ balance \in [Obj -> Int] /\ ObjectInv
      /\ call \in [Task -> CallRecord] /\ \A u \in Obj : Conserved(u)
    BY TokenTypes DEF TokenInv
<1>1. /\ Runs(t) /\ pc[t] = "o_ret" /\ Answers(t) /\ k' = k /\ obj' = obj /\ sem' = sem
    BY DEF sem_wait_return, ReturnUnchanged, At, Answers, Wakes
<1>2. \A x \in Task, u \in Obj : /\ Waited(x, u)' <=> x # t /\ Waited(x, u)
                                 /\ Granted(x, u)' <=> x # t /\ Granted(x, u)
    BY <1>0, <1>1, AnswerGrants DEF Quietly
<1>3. k.state[t] = "RUNNING"
    BY <1>0, <1>1, WorkerRuns DEF ObjectPc
<1>4. \A u \in Obj : Usable(u)' <=> Usable(u)
    BY <1>1 DEF Usable
<1>5. ASSUME NEW u \in Obj, ~Granted(t, u), balance'[u] = balance[u] PROVE Conserved(u)'
    BY <1>0, <1>1, <1>2, <1>4, <1>5, TokensKept
<1>6. ASSUME NEW u \in Obj, Granted(t, u) PROVE Conserved(u)'
    <2>1. call[t].o = u /\ k.wres[t] = "OBJECT" /\ u # None
        BY <1>6, ObjectAssumption DEF Granted, Waited
    <2>2. balance'[u] = balance[u] - 1
        BY <1>0, <2>1 DEF sem_wait_return
    <2>3. Cardinality(Given(u)') = Cardinality(Given(u)) - 1
        BY <1>2, <1>6, GivenLess
    <2>4. Cardinality(Given(u)) \in Nat /\ sem[u].cnt \in Nat /\ balance[u] \in Int
        BY <1>0, GivenFinite
    <2>5. Usable(u) => balance[u] = sem[u].cnt + Cardinality(Given(u)) /\ sem[u].cnt <= sem[u].max
        BY <1>0 DEF Conserved
    <2>6. Usable(u)' => /\ balance'[u] = sem'[u].cnt + Cardinality(Given(u)')
                        /\ sem'[u].cnt <= sem'[u].max
        BY <1>1, <1>4, <2>2, <2>3, <2>4, <2>5
    <2> QED BY <2>6 DEF Conserved
<1>7. ASSUME NEW u \in Obj, ~Granted(t, u) PROVE balance'[u] = balance[u]
    <2>1. CASE k.wres[t] = "OBJECT" /\ call[t].o # None
        <3>1. call[t].o # u
            BY <1>1, <1>3, <1>7, <2>1 DEF Granted, Waited
        <3>2. balance' = [balance EXCEPT ![call[t].o] = @ - 1]
            BY <2>1 DEF sem_wait_return
        <3> QED BY <1>0, <3>1, <3>2
    <2>2. CASE ~(k.wres[t] = "OBJECT" /\ call[t].o # None)
        BY <2>2 DEF sem_wait_return
    <2> QED BY <2>1, <2>2
<1> QED BY <1>5, <1>6, <1>7

-----------------------------------------------------------------------------

(* The other steps of a task: no token moves. *)
LEMMA StepTokens ==
    ASSUME TokenInv, NEW t \in Task, SemStep(t)
    PROVE  \A u \in Obj : Conserved(u)'
<1> USE DEF history
<1>0. /\ sem \in [Obj -> [cnt : Nat, max : Int]] /\ balance \in [Obj -> Int] /\ ObjectInv
      /\ obj \in [Obj -> [alloc : BOOLEAN, open : BOOLEAN, destroyed : BOOLEAN]]
      /\ WaitsInv /\ SemInv /\ \A u \in Obj : Conserved(u)
    BY TokenTypes DEF TokenInv
<1>1. ASSUME NEW o \in Obj, sem_post_obj(t, o) \/ sem_take(t, o)
      PROVE  \A u \in Obj : Conserved(u)'
    BY <1>1, PostTokens, TakeTokens
<1>2. CASE sem_wait_return(t)
    BY <1>2, ReturnTokens
<1>3. ASSUME NEW o \in Obj, sem_block(t, o) PROVE \A u \in Obj : Conserved(u)'
    <2>1. /\ Runs(t) /\ pc[t] = "o_op" /\ call[t].o = o /\ Usable(o) /\ ~sched_is_locked(k)
          /\ BlockOn(t, waiters(o), call[t].op = "timedwait")
          /\ UNCHANGED <<sem, balance>> /\ obj' = obj
        BY <1>3 DEF sem_block, Operates, At, BlockOn, objvars
    <2>2. PICK timed \in BOOLEAN : timed = (call[t].op = "timedwait")
        OBVIOUS
    <2>3. timed => call[t].d \in Nat
        BY <1>0, <2>2 DEF SemInv, SemTimed
    <2>4. 1 \in DOMAIN Queues[o] /\ WaitsOn(t, Queues[o][1], timed)
        BY <2>1, <2>2, <2>3, SemAssumption, FirstQueue DEF WaitsOn
    <2>5. \A x \in Task, u \in Obj : Granted(x, u)' <=> Granted(x, u)
        BY <1>0, <2>1, <2>4, BlockGrants
    <2> QED BY <1>0, <2>1, <2>5, TokensKept DEF Usable
<1>4. CASE (\E o \in Obj : sem_destroy_obj(t, o)) \/ trt_sem_destroy(t)
    <2>1. DestroyStep(t)
        BY <1>4 DEF sem_destroy_obj, trt_sem_destroy, DestroyStep
    <2>2. OthersWait
        BY <1>0, <2>1, DestroyGrants
    <2>3. ASSUME NEW u \in Obj, Usable(u)' PROVE sem'[u] = sem[u] /\ balance'[u] = balance[u]
        <3>1. CASE trt_sem_destroy(t)
            BY <3>1 DEF trt_sem_destroy
        <3>2. ASSUME NEW o \in Obj, sem_destroy_obj(t, o) PROVE sem'[u] = sem[u] /\ balance'[u] = balance[u]
            <4>1. /\ sem' = [sem EXCEPT ![o].cnt = 0] /\ balance' = balance
                  /\ obj' = [obj EXCEPT ![o].destroyed = TRUE]
                BY <3>2 DEF sem_destroy_obj, Destroy
            <4>2. u # o
                BY <1>0, <2>3, <4>1 DEF Usable
            <4> QED BY <1>0, <4>1, <4>2
        <3> QED BY <1>4, <3>1, <3>2
    <2>4. ASSUME NEW u \in Obj PROVE Conserved(u)'
        <3>1. CASE Usable(u)'
            BY <1>0, <2>2, <2>3, <3>1, TokensKept DEF OthersWait
        <3>2. CASE ~Usable(u)'
            BY <3>2 DEF Conserved
        <3> QED BY <3>1, <3>2
    <2> QED BY <2>4
<1>5. ASSUME sem_gone(t) \/ \E o \in Obj : sem_trywait_busy(t, o) \/ sem_wait_refused(t, o)
      PROVE  \A u \in Obj : Conserved(u)'
    <2>1. UNCHANGED <<sem, balance, obj>> /\ (k' = k \/ k' = sched_set_pending(k))
        BY <1>5 DEF sem_gone, OperateFreed, UseFreed, OperateGone, sem_trywait_busy,
            sem_wait_refused, ReturnUnchanged
    <2>2. pc[t] = "o_op" /\ Answers(t)
        BY <1>5 DEF sem_gone, OperateFreed, UseFreed, OperateGone, sem_trywait_busy,
            sem_wait_refused, ReturnUnchanged, Operates, At, Answers, Wakes
    <2>3. Quietly
        <3>1. k \in Scheduler
            BY TokenTypes
        <3> QED BY <2>1, <3>1 DEF Quietly, sched_set_pending, Scheduler
    <2>4. \A x \in Task, u \in Obj : Granted(x, u)' <=> Granted(x, u)
        <3>1. \A x \in Task, u \in Obj : Granted(x, u)' <=> x # t /\ Granted(x, u)
            BY <1>0, <2>2, <2>3, AnswerGrants
        <3> QED BY <2>2, <3>1, NotYetWaited
    <2> QED BY <1>0, <2>1, <2>4, TokensKept DEF Usable
<1> QED BY <1>1, <1>2, <1>3, <1>4, <1>5 DEF SemStep

(* A new semaphore has no waiter, and the count it was asked for. *)
LEMMA CreateTokens ==
    ASSUME TokenInv, LimitsHold, NEW o \in Obj, NEW max \in SemMax, NEW cnt \in SemCnt,
           trt_sem_create(o, max, cnt)
    PROVE  \A u \in Obj : Conserved(u)'
<1>0. /\ sem \in [Obj -> [cnt : Nat, max : Int]] /\ balance \in [Obj -> Int] /\ ObjectInv
      /\ obj \in [Obj -> [alloc : BOOLEAN, open : BOOLEAN, destroyed : BOOLEAN]]
      /\ \A u \in Obj : Conserved(u)
    BY TokenTypes DEF TokenInv
<1>1. PICK s \in [cnt : Nat, max : Int] :
          /\ sem' = [sem EXCEPT ![o] = s] /\ balance' = [balance EXCEPT ![o] = s.cnt]
          /\ s.cnt <= s.max
    <2>1. max \in Int /\ cnt \in Int /\ (max >= 0 \/ cnt >= 0)
        BY SemAssumption DEF LimitsHold
    <2>2. sem_init_obj(max, cnt) \in [cnt : Nat, max : Int]
        BY <2>1 DEF sem_init_obj
    <2>3. sem_init_obj(max, cnt).cnt <= sem_init_obj(max, cnt).max
        BY <2>1 DEF sem_init_obj
    <2> QED BY <2>2, <2>3 DEF trt_sem_create
<1>2. /\ obj' = [obj EXCEPT ![o] = [alloc |-> TRUE, open |-> TRUE, destroyed |-> FALSE]]
      /\ k' = k /\ pc' = pc /\ ret' = ret /\ call' = call /\ ~obj[o].alloc
    BY DEF trt_sem_create, Create, vars
<1>3. \A x \in Task, u \in Obj : Granted(x, u)' <=> Granted(x, u)
    BY <1>2 DEF Waited, Granted
<1>4. Conserved(o)'
    <2>1. \A x \in Task : ~Granted(x, o)
        <3>1. o # None /\ \A x \in Task : CallAt(x)
            BY <1>0, ObjectAssumption DEF ObjectInv
        <3> QED BY <1>2, <3>1 DEF CallAt, Waited, Granted
    <2>2. Given(o)' = {}
        BY <1>3, <2>1, GivenPrimed
    <2>3. Cardinality(Given(o)') = 0
        BY <2>2, FS_EmptySet
    <2>4. balance'[o] = s.cnt /\ sem'[o] = s
        BY <1>0, <1>1
    <2>5. s.cnt = s.cnt + 0
        OBVIOUS
    <2> QED BY <1>1, <2>3, <2>4, <2>5 DEF Conserved
<1>5. ASSUME NEW u \in Obj \ {o} PROVE Conserved(u)'
    <2>1. sem'[u] = sem[u] /\ balance'[u] = balance[u] /\ (Usable(u)' <=> Usable(u))
        BY <1>0, <1>1, <1>2 DEF Usable
    <2> QED BY <1>0, <1>3, <2>1, TokensKept
<1> QED BY <1>4, <1>5

(* Every step of the semaphores conserves the tokens. *)
LEMMA TokenNext ==
    ASSUME TokenInv, TasksStay, LimitsHold, [SemNext]_<<vars, semvars>>
    PROVE  \A u \in Obj : Conserved(u)'
<1> USE DEF history
<1>0. ObjectsOnly /\ WaitsInv /\ SemInv /\ \A u \in Obj : Conserved(u)
    BY SemAssumption DEF ObjectsOnly, TokenInv
<1>1. ASSUME GrantsStay, UNCHANGED <<sem, balance, obj>> PROVE \A u \in Obj : Conserved(u)'
    BY <1>0, <1>1, TokensKept DEF GrantsStay, Usable
<1>2. CASE UNCHANGED <<vars, semvars>> \/ (Next /\ UNCHANGED semvars)
    <2>1. [Next]_vars /\ UNCHANGED objvars /\ UNCHANGED <<sem, balance>> /\ obj' = obj
        BY <1>2 DEF semvars, objvars
    <2>2. GrantsStay
        BY <1>0, <2>1, KernelGrants
    <2> QED BY <1>1, <2>1, <2>2
<1>3. ASSUME NEW t \in Task, SemCall(t) PROVE \A u \in Obj : Conserved(u)'
    <2>1. PICK o \in Obj, op \in ObjOps, d \in Delays \cup {0, None} : sem_lookup(t, o, op, d)
        BY <1>3 DEF SemCall, sem_lookup, Lookup
    <2>2. Lookup(t, o, op, d) /\ UNCHANGED <<sem, balance>> /\ obj' = obj
        BY <2>1 DEF sem_lookup, Lookup
    <2>3. GrantsStay
        BY <1>0, <2>2, LookupWaits
    <2> QED BY <1>1, <2>2, <2>3
<1>4. CASE SemCreate
    BY <1>4, CreateTokens DEF SemCreate
<1>5. CASE SemIrq
    BY <1>5, IsrTokens DEF SemIrq
<1> QED BY <1>2, <1>3, <1>4, <1>5, StepTokens DEF SemNext

(* The calls and the limits of an application are the same for ever. *)
LEMMA LimitsForEver == LimitsHold => []LimitsHold
<1>1. LimitsHold => LimitsHold'
    BY DEF LimitsHold
<1> QED BY <1>1, PTL

(* The invariant of the tokens. *)
LEMMA TokensAlways == SemSpec /\ TasksStay /\ LimitsHold => []TokenInv
<1> DEFINE AllConserved == \A o \in Obj : Conserved(o)
<1>1. SemInit => AllConserved
    BY DEF SemInit, ObjInit, NoObj, Usable, Conserved
<1>2. SemInit => WaitsInv
    BY WaitInit DEF SemInit
<1>3. TasksStay /\ SemInv /\ WaitsInv /\ [SemNext]_<<vars, semvars>> => WaitsInv'
    <2> SUFFICES ASSUME TasksStay, SemInv, WaitsInv, [SemNext]_<<vars, semvars>> PROVE WaitsInv'
        OBVIOUS
    <2>1. ObjectsOnly
        BY SemAssumption DEF ObjectsOnly
    <2>2. GoesOn \/ LookupStep
        BY SemGoes, SemCallLooks
    <2> QED BY <2>1, <2>2, WaitNext DEF ObjectStep
<1>4. TasksStay /\ LimitsHold /\ SemInv /\ WaitsInv /\ AllConserved /\ [SemNext]_<<vars, semvars>>
         => AllConserved'
    <2> SUFFICES ASSUME TasksStay, LimitsHold, SemInv, WaitsInv, AllConserved,
                        [SemNext]_<<vars, semvars>>
                 PROVE  AllConserved'
        OBVIOUS
    <2>1. \A o \in Obj : Conserved(o)'
        BY TokenNext DEF TokenInv
    <2> QED BY <2>1
<1>5. SemInv /\ WaitsInv /\ AllConserved => TokenInv
    BY DEF TokenInv
<1> HIDE DEF AllConserved
<1> QED BY <1>1, <1>2, <1>3, <1>4, <1>5, SemAlways, StayForEver, LimitsForEver, PTL DEF SemSpec

(* Tokens are neither lost nor made up, through posts of tasks and         *)
(* handlers, timeouts and destruction, and no count exceeds its limit.     *)
THEOREM TokensNeverLost == SemSpec /\ TasksStay /\ LimitsHold => []TokensConserved
<1>1. TokenInv => TokensConserved
    BY DEF TokenInv, Conserved, Given, TokensConserved
<1> QED BY <1>1, TokensAlways, PTL

=============================================================================
