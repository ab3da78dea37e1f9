---------------------------- MODULE KernelAlways ----------------------------
(***************************************************************************)
(* Invariants of Kernel beside ListInv.                                    *)
(*                                                                         *)
(* AlwaysInv: what the kernel keeps even after a trap has hit one of the   *)
(* unprotected windows or a task was deleted amid a task_create: the wait  *)
(* queues stay sorted by priority and hold blocked tasks only, a wait ends *)
(* for a reason, and the owner of the scheduler lock keeps the CPU.        *)
(* Orderly (of KernelProofs, as Tame) is its part about the lists, Tame    *)
(* what a step may do to a task that does not make it.                     *)
(*                                                                         *)
(* OwedInv: a switch a tick wanted is remembered while the scheduler is    *)
(* locked and on its way after that.  ClockInv: every deadline a task      *)
(* waits for is as many ticks ahead as its delay still has to run (Asked   *)
(* and Calm say what the operators of the scheduler leave alone of the     *)
(* two).                                                                   *)
(*                                                                         *)
(* DueInv: the timeout list runs from the latest deadline to the earliest, *)
(* and outside a trap none of them has come.  Thinned says which steps     *)
(* only take tasks off that list.                                          *)
(*                                                                         *)
(* Served: what a step may do to a wait queue.  On a sorted queue each of  *)
(* these moves keeps the order in which equals came.                       *)
(*                                                                         *)
(* IdleLast: the idle task, which frees the TCBs of deleted tasks, never   *)
(* runs while a ready task is amid a call.  Steady says which operators    *)
(* put nobody in front of it on a ready list.                              *)
(*                                                                         *)
(* LifeInv: the life cycle of a TCB.  With the idle task out of the way, a *)
(* TCB that a task holds stays allocated until the task is through with    *)
(* it, and the handle table names live tasks only; CountOK adds that the   *)
(* number of tasks is counted right.                                       *)
(*                                                                         *)
(* KernelInv: what the proofs about the kernel objects and the software    *)
(* timers know of the kernel below, with Onward and HandlerWakes for the   *)
(* steps that the calls of tasks and of interrupt handlers make.           *)
(***************************************************************************)
EXTENDS KernelProofs, FiniteSetTheorems

-----------------------------------------------------------------------------
(* The running task blocks: what the three ways to block have in common.   *)
(* Only the queue in W can get a waiter.                                   *)
BlocksOrderly(s, e, t, W) ==
    /\ Orderly(e)
    /\ Frame(s, e)
    /\ e.state[t] = "BLOCKED"
    /\ \A w \in WaitQ : Contains(e.wq[w], t) <=> w \in W
    /\ \A w \in WaitQ \ W : e.wq[w] # <<>> => s.wq[w] # <<>>
    /\ \A x \in Task \ {t} : SameTask(s, e, x)

(* The part before the insertion: the task is BLOCKED and on no list. *)
LEMMA BlockedOrderly ==
    ASSUME NEW s \in Scheduler, Orderly(s), NEW t \in Task, s.state[t] = "RUNNING",
           NEW b \in Scheduler, Frame(s, b),
           b.ready = s.ready, b.wq = s.wq, b.deleted = s.deleted, b.timeout = s.timeout,
           b.state[t] = "BLOCKED",
           \A x \in Task \ {t} : /\ b.state[x] = s.state[x]
                                 /\ b.timer[x] = s.timer[x]
                                 /\ b.wres[x] = s.wres[x],
           NEW r, r = sched_ready_remove(b, t)
    PROVE  /\ r \in Scheduler
           /\ r.timer = b.timer
           /\ ~OnStateList(r, t)
           /\ BlocksOrderly(s, r, t, {})
<1>1. Seat(s, t)
    BY DEF Orderly
<1>2. ~OnWaitQ(s, t) /\ ~Contains(s.deleted, t)
    BY <1>1 DEF Seat, OnWaitQ
<1>3. \A x \in Task \ {t} : b.prio[x] = s.prio[x] /\ SameTask(s, b, x)
    BY DEF Frame, SameTask
<1>4. Orderly(b)
    BY <1>2, <1>3, FieldsOrderly
<1>5. /\ r \in Scheduler
      /\ Orderly(r)
      /\ Frame(b, r)
      /\ r.state = b.state /\ r.timer = b.timer
      /\ ~OnStateList(r, t)
      /\ \A x \in Task \ {t} : SameTask(b, r, x)
      /\ NoNewWaiter(b, r)
    BY <1>4, DelOrderly, DelNoNewWaiter
<1>6. Frame(s, r) /\ \A x \in Task \ {t} : SameTask(s, r, x)
    BY <1>3, <1>5 DEF Frame, SameTask
<1>7. \A w \in WaitQ : ~Contains(r.wq[w], t)
    BY <1>5 DEF OnStateList, OnWaitQ
<1>8. \A w \in WaitQ \ {} : r.wq[w] # <<>> => s.wq[w] # <<>>
    BY <1>5 DEF NoNewWaiter
<1> QED BY <1>5, <1>6, <1>7, <1>8 DEF BlocksOrderly

(* sched_block_current. *)
LEMMA WaitBlockOrderly ==
    ASSUME NEW s \in Scheduler, Orderly(s), NEW t \in Task, IsCurrent(s, t),
           s.state[t] = "RUNNING", ~BlockRefused(s), NEW q \in WaitQ,
           NEW e, e = trt_wait_q_block_locked(s, q)
    PROVE  e \in Scheduler /\ BlocksOrderly(s, e, t, {q})
<1> DEFINE n == NoReason(s, t)
           b == [n EXCEPT !.state[t] = "BLOCKED", !.timer[t] = FALSE]
           r == sched_ready_remove(b, t)
           lower == {i \in DOMAIN r.wq[q] : r.prio[r.wq[q][i]] < r.prio[t]}
           l == InsertBeforeFirst(r.wq[q], t, lower)
<1>1. e = sched_block_current(n, q)
    BY DEF trt_wait_q_block_locked, IsCurrent, NoReason
<1>2. n \in Scheduler /\ n.current = t
    BY DEF Scheduler, WaitResult, IsCurrent, NoReason
<1>3. e \in Scheduler
    BY <1>1, <1>2, BlockCurrentType
<1>4. e = [r EXCEPT !.wq[q] = l]
    <2> HIDE DEF n
    <2> QED BY <1>1, <1>2 DEF sched_block_current
<1>5. /\ b.ready = s.ready /\ b.wq = s.wq /\ b.deleted = s.deleted /\ b.timeout = s.timeout
      /\ b.state[t] = "BLOCKED"
      /\ \A x \in Task \ {t} : /\ b.state[x] = s.state[x]
                               /\ b.timer[x] = s.timer[x]
                               /\ b.wres[x] = s.wres[x]
      /\ b \in Scheduler
      /\ Frame(s, b)
    <2>1. /\ n.ready = s.ready /\ n.wq = s.wq /\ n.deleted = s.deleted /\ n.timeout = s.timeout
          /\ n.state = s.state /\ n.timer = s.timer
          /\ \A x \in Task \ {t} : n.wres[x] = s.wres[x]
          /\ Frame(s, n)
        BY DEF Scheduler, NoReason, Frame
    <2> HIDE DEF n
    <2>2. /\ b.ready = n.ready /\ b.wq = n.wq /\ b.deleted = n.deleted /\ b.timeout = n.timeout
          /\ b.wres = n.wres /\ Frame(n, b)
        BY <1>2 DEF Scheduler, Frame
    <2>3. /\ b.state[t] = "BLOCKED"
          /\ \A x \in Task \ {t} : b.state[x] = n.state[x] /\ b.timer[x] = n.timer[x]
        BY <1>2 DEF Scheduler
    <2>4. b \in Scheduler
        BY <1>2 DEF Scheduler, TaskState
    <2> HIDE DEF b
    <2> QED BY <2>1, <2>2, <2>3, <2>4 DEF Frame
<1>6. r = sched_ready_remove(b, t)
    OBVIOUS
<1> HIDE DEF n, b, r
<1>7. r \in Scheduler /\ ~OnStateList(r, t) /\ BlocksOrderly(s, r, t, {})
    BY <1>5, <1>6, BlockedOrderly
<1>8. /\ Orderly(r) /\ Frame(s, r) /\ r.state[t] = "BLOCKED"
      /\ \A w \in WaitQ \ {q} : r.wq[w] # <<>> => s.wq[w] # <<>>
      /\ \A x \in Task \ {t} : SameTask(s, r, x)
      /\ NoRepeats(r) /\ QueuesFall(r)
    BY <1>7 DEF BlocksOrderly, Orderly
<1>9. /\ r.wq[q] \in Seq(Task) /\ Distinct(r.wq[q]) /\ ~Contains(r.wq[q], t)
      /\ Falling(r.wq[q], r.prio) /\ r.prio \in [Task -> Int]
    BY <1>7, <1>8, PrioNumbers DEF Scheduler, NoRepeats, OnStateList, OnWaitQ, QueuesFall
<1>10. /\ lower \subseteq DOMAIN r.wq[q] /\ l = InsertBeforeFirst(r.wq[q], t, lower)
       /\ lower = {i \in DOMAIN r.wq[q] : r.prio[r.wq[q][i]] < r.prio[t]}
    OBVIOUS
<1> HIDE DEF lower, l
<1>11. Distinct(l) /\ \A x : Contains(l, x) <=> Contains(r.wq[q], x) \/ x = t
    BY <1>9, <1>10, InsertContents
<1>12. Falling(l, r.prio)
    BY <1>9, <1>10, InsertFalling
<1>13. /\ e.wq[q] = l
       /\ \A w \in WaitQ \ {q} : e.wq[w] = r.wq[w]
       /\ e.ready = r.ready /\ e.deleted = r.deleted /\ e.timeout = r.timeout
       /\ e.state = r.state /\ e.timer = r.timer /\ e.wres = r.wres
       /\ Frame(r, e)
    BY <1>4, <1>7 DEF Scheduler, Frame
<1>14. NoRepeats(e)
    BY <1>8, <1>11, <1>13 DEF NoRepeats
<1>15. QueuesFall(e)
    BY <1>8, <1>12, <1>13 DEF QueuesFall, Frame
<1>16. \A w \in WaitQ : Contains(e.wq[w], t) <=> w = q
    BY <1>7, <1>11, <1>13 DEF OnStateList, OnWaitQ
<1>17. Seat(e, t)
    BY <1>7, <1>8, <1>13, <1>16 DEF Seat, OnStateList, OnReady
<1>18. \A x \in Task \ {t} : SameTask(r, e, x)
    BY <1>11, <1>13 DEF SameTask, Frame
<1>19. Orderly(e)
    BY <1>8, <1>14, <1>15, <1>17, <1>18, OneSeat
<1>20. Frame(s, e) /\ \A x \in Task \ {t} : SameTask(s, e, x)
    BY <1>8, <1>13, <1>18 DEF Frame, SameTask
<1> QED BY <1>3, <1>8, <1>13, <1>16, <1>19, <1>20 DEF BlocksOrderly

(* The timeout list is not part of the order. *)
LEMMA TimeoutOrderly ==
    ASSUME NEW s, NEW t \in Task, NEW W, NEW b \in Scheduler, BlocksOrderly(s, b, t, W),
           NEW n \in Scheduler, Frame(b, n), n.timer[t],
           n.ready = b.ready, n.deleted = b.deleted, n.timeout = b.timeout, n.wq = b.wq,
           n.state = b.state,
           \A x \in Task \ {t} : n.timer[x] = b.timer[x] /\ n.wres[x] = b.wres[x],
           NEW e, e = sched_timeout_insert(n, t)
    PROVE  BlocksOrderly(s, e, t, W)
<1>1. /\ Orderly(b) /\ NoRepeats(b) /\ Frame(s, b) /\ b.state[t] = "BLOCKED"
      /\ \A w \in WaitQ : Contains(b.wq[w], t) <=> w \in W
      /\ \A w \in WaitQ \ W : b.wq[w] # <<>> => s.wq[w] # <<>>
      /\ \A x \in Task \ {t} : SameTask(s, b, x)
    BY DEF BlocksOrderly, Orderly
<1>2. NoRepeats(n)
    BY <1>1 DEF NoRepeats
<1>3. /\ NoRepeats(e)
      /\ Frame(n, e)
      /\ e.ready = n.ready /\ e.wq = n.wq /\ e.deleted = n.deleted /\ e.mask = n.mask
      /\ e.state = n.state /\ e.timer = n.timer /\ e.wres = n.wres
      /\ \A x : x # t => (Contains(e.timeout, x) <=> Contains(n.timeout, x))
    <2>1. /\ e \in Scheduler
          /\ NoRepeats(e)
          /\ Frame(n, e)
          /\ e.ready = n.ready /\ e.wq = n.wq /\ e.deleted = n.deleted /\ e.mask = n.mask
          /\ e.state = n.state /\ e.timer = n.timer /\ e.wres = n.wres
          /\ Contains(e.timeout, t)
          /\ \A x : x # t => (Contains(e.timeout, x) <=> Contains(n.timeout, x))
        BY <1>2, TimeoutInsertEffect
    <2> QED BY <2>1
<1>4. QueuesFall(e) /\ Seat(e, t)
    BY <1>1, <1>3 DEF Orderly, QueuesFall, Seat, OnReady, Frame
<1>5. \A x \in Task \ {t} : SameTask(b, e, x)
    BY <1>3 DEF SameTask, Frame
<1>6. Orderly(e)
    BY <1>1, <1>3, <1>4, <1>5, OneSeat
<1>7. Frame(s, e) /\ \A x \in Task \ {t} : SameTask(s, e, x)
    BY <1>1, <1>3, <1>5 DEF Frame, SameTask
<1> QED BY <1>1, <1>3, <1>6, <1>7 DEF BlocksOrderly

(* trt_wait_q_block_ticks_locked. *)
LEMMA TimedBlockOrderly ==
    ASSUME NEW s \in Scheduler, Orderly(s), NEW t \in Task, IsCurrent(s, t),
           s.state[t] = "RUNNING", ~BlockRefused(s), NEW q \in WaitQ,
           NEW d \in Nat, NEW now \in Ticks,
           NEW e, e = trt_wait_q_block_ticks_locked(s, q, d, now)
    PROVE  BlocksOrderly(s, e, t, {q})
<1> DEFINE b == trt_wait_q_block_locked(s, q)
           due == (now + d) % TickMod
           n == [b EXCEPT !.wakeup[t] = due, !.timer[t] = TRUE, !.wres[t] = "NONE"]
<1>1. e = sched_timeout_insert(n, t)
    BY DEF trt_wait_q_block_ticks_locked, IsCurrent
<1>2. b = trt_wait_q_block_locked(s, q)
    OBVIOUS
<1> HIDE DEF b
<1>3. b \in Scheduler /\ BlocksOrderly(s, b, t, {q})
    BY <1>2, WaitBlockOrderly
<1>4. due \in Ticks
    BY SchedAssumption DEF Ticks
<1> HIDE DEF due
<1>5. /\ n \in Scheduler
      /\ n.ready = b.ready /\ n.deleted = b.deleted /\ n.timeout = b.timeout /\ n.wq = b.wq
      /\ n.state = b.state
      /\ n.timer[t] = TRUE
      /\ \A x \in Task \ {t} : n.timer[x] = b.timer[x] /\ n.wres[x] = b.wres[x]
      /\ Frame(b, n)
    BY <1>3, <1>4 DEF Scheduler, Frame, WaitResult
<1> HIDE DEF n
<1>6. n.timer[t]
    BY <1>5
<1> QED BY <1>1, <1>3, <1>5, <1>6, TimeoutOrderly

(* The block of task_sleep. *)
LEMMA SleepOrderly ==
    ASSUME NEW s \in Scheduler, Orderly(s), NEW t \in Task, s.state[t] = "RUNNING",
           NEW due \in Ticks,
           NEW e, e = sched_timeout_insert(sched_ready_remove(
                          [s EXCEPT !.wakeup[t] = due, !.timer[t] = TRUE,
                                    !.wres[t] = "NONE", !.state[t] = "BLOCKED"], t), t)
    PROVE  BlocksOrderly(s, e, t, {})
<1> DEFINE b == [s EXCEPT !.wakeup[t] = due, !.timer[t] = TRUE,
                          !.wres[t] = "NONE", !.state[t] = "BLOCKED"]
           r == sched_ready_remove(b, t)
<1>3. /\ b \in Scheduler
      /\ b.ready = s.ready /\ b.wq = s.wq /\ b.deleted = s.deleted /\ b.timeout = s.timeout
      /\ b.mask = s.mask
      /\ b.state[t] = "BLOCKED" /\ b.timer[t] = TRUE /\ b.wres[t] = "NONE"
      /\ \A x \in Task \ {t} : /\ b.state[x] = s.state[x]
                               /\ b.timer[x] = s.timer[x]
                               /\ b.wres[x] = s.wres[x]
      /\ Frame(s, b)
    BY DEF Scheduler, Frame, TaskState, WaitResult
<1>4. e = sched_timeout_insert(r, t) /\ r = sched_ready_remove(b, t)
    OBVIOUS
<1> HIDE DEF b, r
<1>5. /\ r \in Scheduler /\ BlocksOrderly(s, r, t, {}) /\ r.timer = b.timer
    BY <1>3, <1>4, BlockedOrderly
<1>6. r.timer[t] /\ Frame(r, r)
    BY <1>3, <1>5 DEF Frame
<1> QED BY <1>4, <1>5, <1>6, TimeoutOrderly

(* What a switch does, also when the mask is wrong. *)
Turn(s, e) ==
    /\ e \in Scheduler
    /\ Orderly(e)
    /\ e.idle = s.idle /\ e.started = s.started /\ e.lock = s.lock
    /\ e.wq = s.wq /\ e.deleted = s.deleted /\ e.wres = s.wres
    /\ \A x \in Task : \/ e.state[x] = s.state[x]
                       \/ /\ s.state[x] # "DELETED" /\ ~OnWaitQ(s, x)
                          /\ e.state[x] \in {"READY", "RUNNING"}

(* Two turns make one. *)
LEMMA TurnTwice ==
    ASSUME NEW s, NEW r, NEW e, Turn(s, r), Turn(r, e)
    PROVE  Turn(s, e)
BY DEF Turn, OnWaitQ

(* The others are left in peace. *)
LEMMA TurnTame ==
    ASSUME NEW s, NEW e, Turn(s, e)
    PROVE  \A x \in Task : Tame(s, e, x)
BY DEF Turn, Tame, Turned, Kept, OnWaitQ

(* A running task may become ready, one on no wait queue may run. *)
LEMMA StateTurn ==
    ASSUME NEW s \in Scheduler, Orderly(s), NEW t \in Task, NEW e \in Scheduler,
           s.state[t] # "DELETED", ~OnWaitQ(s, t), e.state[t] \in {"READY", "RUNNING"},
           e.idle = s.idle, e.started = s.started, e.lock = s.lock, e.wq = s.wq,
           e.deleted = s.deleted, e.wres = s.wres, e.timeout = s.timeout,
           e.ready = s.ready, e.prio = s.prio,
           \A x \in Task \ {t} : e.state[x] = s.state[x]
    PROVE  Turn(s, e)
<1>1. ~Contains(s.deleted, t)
    BY DEF Orderly, Seat
<1>2. Orderly(e)
    BY <1>1, FieldsOrderly
<1> QED BY <1>2 DEF Turn

(* The running task goes back to its ready list. *)
LEMMA RequeueTurn ==
    ASSUME NEW s \in Scheduler, Orderly(s), NEW r, r = Requeue(s)
    PROVE  Turn(s, r) /\ r.current = s.current /\ r.corrupt = s.corrupt
<1> DEFINE t == s.current
           b == StoredReady(s, t)
<1>1. CASE t = None \/ s.state[t] # "RUNNING"
    <2>1. r = s
        BY <1>1 DEF Requeue
    <2> QED BY <2>1 DEF Turn
<1>2. CASE t # None /\ s.state[t] = "RUNNING"
    <2>1. t \in Task
        BY <1>2 DEF Scheduler
    <2>2. r = b \/ r = sched_ready_enqueue(b, t)
        BY <1>2 DEF Requeue, StoredReady
    <2> HIDE DEF t
    <2>3. /\ b \in Scheduler
          /\ b.ready = s.ready /\ b.wq = s.wq /\ b.deleted = s.deleted /\ b.timeout = s.timeout
          /\ b.wres = s.wres /\ b.prio = s.prio
          /\ b.idle = s.idle /\ b.started = s.started /\ b.lock = s.lock
          /\ b.current = s.current /\ b.corrupt = s.corrupt
          /\ b.state[t] = "READY"
          /\ \A x \in Task \ {t} : b.state[x] = s.state[x]
        BY <2>1 DEF Scheduler, StoredReady, TaskState
    <2>4. ~OnWaitQ(s, t)
        BY <1>2, <2>1 DEF Orderly, Seat, OnWaitQ
    <2> HIDE DEF b
    <2>5. Turn(s, b)
        BY <1>2, <2>1, <2>3, <2>4, StateTurn
    <2>6. CASE r = b
        BY <2>3, <2>5, <2>6
    <2>7. CASE r = sched_ready_enqueue(b, t)
        <3>1. Orderly(b)
            BY <2>5 DEF Turn
        <3>2. /\ r \in Scheduler /\ Orderly(r) /\ Frame(b, r)
              /\ r.state = b.state /\ r.wres = b.wres /\ r.wq = b.wq /\ r.deleted = b.deleted
            BY <2>1, <2>3, <2>7, <3>1, EnqueueOrderly
        <3>3. Turn(b, r)
            BY <3>2 DEF Turn, Frame
        <3>4. Turn(s, r)
            BY <2>5, <3>3, TurnTwice
        <3> QED BY <2>3, <3>2, <3>4 DEF Frame
    <2> QED BY <2>2, <2>6, <2>7
<1> QED BY <1>1, <1>2

(* The head of the list of the highest bit gets the CPU, or there is none. *)
LEMMA PopTurn ==
    ASSUME NEW s \in Scheduler, Orderly(s), s.mask # {},
           NEW e, e = sched_ready_pop_highest(s)
    PROVE  /\ Turn(s, e)
           /\ \/ e.corrupt /\ e.current = s.current
              \/ e.current \in Task /\ e.state[e.current] = "RUNNING"
<1> DEFINE p == Max(s.mask)
           t == Head(s.ready[p])
           l == Tail(s.ready[p])
           m == IF l = <<>> THEN s.mask \ {p} ELSE s.mask
           f == [s EXCEPT !.ready[p] = l, !.mask = m, !.state[t] = "RUNNING", !.current = t]
           g == [s EXCEPT !.corrupt = TRUE]
<1>1. p \in s.mask /\ p \in Prio
    BY SchedAssumption, MaxGreatest DEF Scheduler, Prio
<1>2. s.ready[p] \in Seq(Task) /\ NoRepeats(s) /\ Distinct(s.ready[p])
    BY <1>1 DEF Orderly, NoRepeats, Scheduler
<1>3. e = IF s.ready[p] = <<>> THEN g ELSE f
    BY DEF sched_ready_pop_highest
<1>4. CASE s.ready[p] = <<>>
    <2>1. e = g
        BY <1>3, <1>4
    <2>2. /\ g \in Scheduler /\ g.corrupt = TRUE /\ g.current = s.current
          /\ g.wres = s.wres
        BY DEF Scheduler
    <2>3. /\ g.state = s.state
          /\ g.idle = s.idle /\ g.started = s.started /\ g.lock = s.lock
          /\ g.wq = s.wq /\ g.deleted = s.deleted /\ g.ready = s.ready /\ g.prio = s.prio
          /\ g.timeout = s.timeout
        BY DEF Scheduler
    <2> HIDE DEF g
    <2>4. Orderly(g)
        BY <2>3 DEF Orderly, NoRepeats, Seat, OnReady, QueuesFall
    <2> QED BY <2>1, <2>2, <2>3, <2>4 DEF Turn
<1>5. CASE s.ready[p] # <<>>
    <2>1. e = f
        BY <1>3, <1>5
    <2>2. /\ t \in Task /\ Contains(s.ready[p], t) /\ l \in Seq(Task)
          /\ Distinct(l)
          /\ \A x : Contains(l, x) => Contains(s.ready[p], x)
        BY <1>2, <1>5, TailShape
    <2>3. OnReady(s, t) /\ Seat(s, t)
        BY <1>1, <2>2 DEF OnReady, Orderly
    <2>4. s.state[t] # "DELETED" /\ ~OnWaitQ(s, t)
        BY <2>3 DEF Seat, OnWaitQ
    <2>5. m \subseteq Prio
        BY DEF Scheduler
    <2> HIDE DEF p, t, l, m
    <2>6. /\ f \in Scheduler
          /\ f.ready[p] = l
          /\ \A x \in Prio \ {p} : f.ready[x] = s.ready[x]
          /\ f.current = t
          /\ f.state[t] = "RUNNING"
          /\ \A x \in Task \ {t} : f.state[x] = s.state[x]
          /\ f.wq = s.wq /\ f.deleted = s.deleted /\ f.timeout = s.timeout
          /\ f.wres = s.wres /\ f.prio = s.prio
          /\ f.idle = s.idle /\ f.started = s.started /\ f.lock = s.lock
        BY <1>1, <2>2, <2>5 DEF Scheduler, TaskState
    <2> HIDE DEF f
    <2>7. NoRepeats(f) /\ QueuesFall(f)
        BY <1>2, <2>2, <2>6 DEF NoRepeats, Orderly, QueuesFall
    <2>8. \A x \in Task : OnReady(f, x) => OnReady(s, x)
        BY <1>1, <2>2, <2>6 DEF OnReady
    <2>9. ASSUME NEW x \in Task PROVE Seat(f, x)
        <3>1. Seat(s, x)
            BY DEF Orderly
        <3>2. CASE x = t
            <4>1. ~Contains(s.deleted, t) /\ \A q \in WaitQ : ~Contains(s.wq[q], t)
                BY <2>2, <2>3, <2>4 DEF Seat, OnWaitQ
            <4> QED BY <2>6, <3>2, <4>1 DEF Seat
        <3>3. CASE x # t
            BY <2>6, <2>8, <3>1, <3>3 DEF Seat
        <3> QED BY <3>2, <3>3
    <2>10. Orderly(f)
        BY <2>7, <2>9 DEF Orderly
    <2>11. Turn(s, f)
        BY <2>2, <2>4, <2>6, <2>10 DEF Turn
    <2> QED BY <2>1, <2>2, <2>6, <2>11
<1> QED BY <1>4, <1>5

(* What is known of the scheduler when it chooses a task. *)
TurnReady(s) ==
    /\ TrapReady(s)
    /\ Orderly(s)
    /\ s.state[s.current] # "UNUSED"

(* A task has been chosen, or the ready lists were found corrupt. *)
Chosen(s, e) ==
    /\ Turn(s, e)
    /\ e.current \in Task
    /\ e.corrupt \/ e.state[e.current] = "RUNNING"
    /\ e.state[e.current] # "UNUSED"
    /\ s.lock > 0 => e.current = s.current /\ e.state[e.current] = "RUNNING"

(* sched_pick_next. *)
LEMMA PickTurn ==
    ASSUME NEW s, TurnReady(s), s.lock = 0,
           NEW e, e = sched_pick_next(s)
    PROVE  Chosen(s, e)
<1> DEFINE r == Requeue(s)
<1>0. r = Requeue(s) /\ s \in Scheduler /\ Orderly(s) /\ s.idle = Idle
    BY DEF TurnReady, TrapReady
<1>1. e = IF r.mask # {}
          THEN sched_ready_pop_highest(r)
          ELSE IF r.idle # None
               THEN [r EXCEPT !.state[r.idle] = "RUNNING", !.current = r.idle]
               ELSE r
    BY DEF sched_pick_next
<1> HIDE DEF r
<1>2. Turn(s, r) /\ r.current = s.current
    BY <1>0, RequeueTurn
<1>3. r \in Scheduler /\ Orderly(r) /\ r.idle = Idle
    BY <1>0, <1>2 DEF Turn
<1>4. CASE r.mask # {}
    <2>1. /\ Turn(r, e)
          /\ \/ e.corrupt /\ e.current = r.current
             \/ e.current \in Task /\ e.state[e.current] = "RUNNING"
        BY <1>1, <1>3, <1>4, PopTurn
    <2>2. Turn(s, e)
        BY <1>2, <2>1, TurnTwice
    <2>3. e.current \in Task /\ e.state[e.current] # "UNUSED"
        <3>1. CASE e.current = r.current
            <4>1. e.current = s.current /\ s.current \in Task /\ s.state[s.current] # "UNUSED"
                BY <1>2, <3>1 DEF TurnReady, TrapReady
            <4> QED BY <2>2, <4>1 DEF Turn
        <3>2. CASE e.current \in Task /\ e.state[e.current] = "RUNNING"
            BY <3>2
        <3> QED BY <2>1, <3>1, <3>2
    <2> QED BY <2>1, <2>2, <2>3 DEF Chosen
<1>5. CASE r.mask = {}
    <2> DEFINE f == [r EXCEPT !.state[Idle] = "RUNNING", !.current = Idle]
    <2>1. e = f
        BY <1>1, <1>3, <1>5, SchedAssumption
    <2>2. r.state[Idle] \in {"READY", "RUNNING"}
        BY <1>2, SchedAssumption DEF Turn, TurnReady, TrapReady
    <2>3. r.state[Idle] # "DELETED" /\ ~OnWaitQ(r, Idle)
        BY <1>3, <2>2, SchedAssumption DEF Orderly, Seat, OnWaitQ
    <2>4. /\ f \in Scheduler
          /\ f.ready = r.ready /\ f.current = Idle
          /\ f.state[Idle] = "RUNNING"
          /\ \A x \in Task \ {Idle} : f.state[x] = r.state[x]
          /\ f.wq = r.wq /\ f.deleted = r.deleted /\ f.timeout = r.timeout
          /\ f.wres = r.wres /\ f.prio = r.prio
          /\ f.idle = r.idle /\ f.started = r.started /\ f.lock = r.lock
        BY <1>3, SchedAssumption DEF Scheduler, TaskState
    <2> HIDE DEF f
    <2>5. Turn(r, f)
        BY <1>3, <2>3, <2>4, SchedAssumption, StateTurn
    <2>6. Turn(s, f)
        BY <1>2, <2>5, TurnTwice
    <2> QED BY <2>1, <2>4, <2>6, SchedAssumption DEF Chosen
<1> QED BY <1>4, <1>5

(* A change of the flags only. *)
LEMMA FlagsTurn ==
    ASSUME NEW s, TurnReady(s), NEW r \in Scheduler, Similar(s, r), r.wres = s.wres
    PROVE  /\ TurnReady(r)
           /\ s.state[s.current] = "RUNNING" => Chosen(s, r)
           /\ \A e : Chosen(r, e) => Chosen(s, e)
<1>1. Orderly(r)
    BY SimilarOrderly DEF TurnReady
<1>2. TurnReady(r)
    BY <1>1 DEF TurnReady, TrapReady, Similar, Frame
<1>3. Turn(s, r)
    BY <1>1 DEF Similar, Frame, Turn
<1>4. ASSUME s.state[s.current] = "RUNNING" PROVE Chosen(s, r)
    BY <1>3, <1>4 DEF Similar, Frame, Chosen, TurnReady, TrapReady
<1>5. ASSUME NEW e, Chosen(r, e) PROVE Chosen(s, e)
    BY <1>3, <1>5, TurnTwice DEF Similar, Frame, Chosen
<1> QED BY <1>2, <1>4, <1>5

(* The tick branch of do_trap. *)
LEMMA TickTurn ==
    ASSUME NEW s, TurnReady(s), s.state[s.current] = "RUNNING",
           NEW e, e = tick_reschedule(s)
    PROVE  Chosen(s, e)
<1> DEFINE n == sched_on_tick_slice(s)
           r == [s EXCEPT !.slice = n]
           f == [r EXCEPT !.pending = TRUE]
<1>1. n \in Nat /\ s \in Scheduler
    BY DEF sched_on_tick_slice, TurnReady, TrapReady, Scheduler
<1>2. e = r \/ e = f \/ (e = sched_pick_next(r) /\ ~sched_is_locked(s))
    BY DEF tick_reschedule, sched_set_pending
<1> HIDE DEF n
<1>3. r \in Scheduler /\ Similar(s, r) /\ r.wres = s.wres
    BY <1>1 DEF Scheduler, Similar, Frame
<1> HIDE DEF r
<1>4. TurnReady(r) /\ Chosen(s, r) /\ \A x : Chosen(r, x) => Chosen(s, x)
    BY <1>3, FlagsTurn
<1>5. f \in Scheduler /\ Similar(r, f) /\ f.wres = r.wres
    BY <1>3 DEF Scheduler, Similar, Frame
<1> HIDE DEF f
<1>6. r.state[r.current] = "RUNNING" /\ r.lock = s.lock
    BY <1>3 DEF Similar, Frame
<1>7. Chosen(r, f)
    BY <1>4, <1>5, <1>6, FlagsTurn
<1>8. ~sched_is_locked(s) => Chosen(r, sched_pick_next(r))
    BY <1>4, <1>6, PickTurn DEF sched_is_locked
<1> QED BY <1>2, <1>4, <1>7, <1>8

(* sched_try_reschedule_from_trap *)
LEMMA TryTurn ==
    ASSUME NEW s, TurnReady(s), s.state[s.current] = "RUNNING",
           NEW e, e = sched_try_reschedule_from_trap(s)
    PROVE  Chosen(s, e)
<1> DEFINE r == [s EXCEPT !.pending = FALSE]
<1>0. s \in Scheduler
    BY DEF TurnReady, TrapReady
<1>1. e = s \/ e = r \/ (e = sched_pick_next(r) /\ ~sched_is_locked(s))
    BY DEF sched_try_reschedule_from_trap
<1>2. r \in Scheduler /\ Similar(s, r) /\ r.wres = s.wres
    BY <1>0 DEF Scheduler, Similar, Frame
<1> HIDE DEF r
<1>3. TurnReady(r) /\ Chosen(s, r) /\ \A x : Chosen(r, x) => Chosen(s, x)
    BY <1>2, FlagsTurn
<1>4. Similar(s, s)
    BY DEF Similar, Frame
<1>5. Chosen(s, s)
    BY <1>0, <1>4, FlagsTurn
<1>6. ~sched_is_locked(s) => Chosen(r, sched_pick_next(r))
    BY <1>2, <1>3, PickTurn DEF sched_is_locked, Similar, Frame
<1> QED BY <1>1, <1>3, <1>5, <1>6

(* The end of do_trap. *)
LEMMA TrapTurn ==
    ASSUME TurnReady(k), NEW e, e = SwitchedFromTrap
    PROVE  Chosen(k, e)
<1> DEFINE s == IF MustSwitch
                THEN sched_pick_next(k)
                ELSE IF trap = "tick" THEN tick_reschedule(k) ELSE k
<1>1. e = s \/ (~s.corrupt /\ e = sched_try_reschedule_from_trap(s))
    BY DEF SwitchedFromTrap
<1>2. k \in Scheduler /\ k.current \in Task /\ k.current # None
    BY SchedAssumption DEF TurnReady, TrapReady
<1>3. Chosen(k, s)
    <2>1. CASE MustSwitch
        <3>1. k.lock = 0
            BY <1>2, <2>1 DEF MustSwitch, TurnReady, TrapReady, sched_current_is_idle, Scheduler
        <3>2. s = sched_pick_next(k)
            BY <2>1
        <3> QED BY <3>1, <3>2, PickTurn
    <2>2. CASE ~MustSwitch /\ trap = "tick"
        <3>1. s = tick_reschedule(k) /\ k.state[k.current] = "RUNNING"
            BY <2>2 DEF MustSwitch
        <3> HIDE DEF s
        <3> QED BY <3>1, TickTurn
    <2>3. CASE ~MustSwitch /\ trap # "tick"
        <3>1. s = k /\ k.state[k.current] = "RUNNING" /\ Similar(k, k)
            BY <2>3 DEF MustSwitch, Similar, Frame
        <3> HIDE DEF s
        <3> QED BY <1>2, <3>1, FlagsTurn
    <2> QED BY <2>1, <2>2, <2>3
<1> HIDE DEF s
<1>4. CASE e = s
    BY <1>3, <1>4
<1>5. CASE ~s.corrupt /\ e = sched_try_reschedule_from_trap(s)
    <2>1. /\ Turn(k, s) /\ s.current \in Task /\ s.state[s.current] = "RUNNING"
          /\ s.lock = k.lock
          /\ k.lock > 0 => s.current = k.current
        BY <1>3, <1>5 DEF Chosen, Turn
    <2>2. s.idle = Idle /\ s.state[Idle] \in {"READY", "RUNNING"}
        BY <2>1, SchedAssumption DEF TurnReady, TrapReady, Turn
    <2>3. TurnReady(s)
        BY <2>1, <2>2 DEF TurnReady, TrapReady, Turn
    <2>4. Chosen(s, e)
        BY <1>5, <2>1, <2>3, TryTurn
    <2>5. Turn(k, e)
        BY <2>1, <2>4, TurnTwice DEF Chosen
    <2> QED BY <2>1, <2>4, <2>5 DEF Chosen
<1> QED BY <1>1, <1>4, <1>5

-----------------------------------------------------------------------------
(* The invariant.  Nothing in it assumes that the unprotected windows were *)
(* not hit.                                                                *)

(* The state of a task that executes. *)
RunsAt(t) ==
    /\ pc[t] = "y_chk" => k.state[t] \in {"RUNNING", "BLOCKED"}
    /\ pc[t] \in LinkPc => k.state[t] \in {"READY", "RUNNING"}
    /\ pc[t] \notin LinkPc \cup {"y_chk", "ecall"} => k.state[t] = "RUNNING"

(* A task in a wait waits, has been given a reason, or is deleted. *)
InWait(t) == pc[t] = "wq_ret" \/ (pc[t] \in YieldPc /\ ret[t] = "wq_ret")

WaitAt(t) ==
    InWait(t) => \/ k.state[t] = "DELETED"
                 \/ k.wres[t] # "NONE"
                 \/ k.state[t] = "BLOCKED" /\ OnWaitQ(k, t)

(* A slot without a TCB has no place in the code. *)
UnusedAt(t) == k.state[t] = "UNUSED" => pc[t] = "run"

(* Until the first task is entered interrupts are off and nobody waits. *)
EarlyOK == boot # "done" => fault = {} /\ \A q \in WaitQ : k.wq[q] = <<>>

AlwaysInv ==
    /\ Orderly(k)
    /\ BootOK
    /\ FreeOK
    /\ LockOK
    /\ EarlyOK
    /\ \A t \in Task : Runs(t) => RunsAt(t)
    /\ \A t \in Task : WaitAt(t) /\ UnusedAt(t)

(* What a running task may assume. *)
LEMMA AlwaysFacts ==
    ASSUME TypeInv, AlwaysInv, NEW t \in Task, Runs(t)
    PROVE  /\ t = k.current /\ k.started /\ trap = "none" /\ boot = "done"
           /\ k \in Scheduler /\ k.idle = Idle /\ Orderly(k)
           /\ k.state[Idle] \in {"READY", "RUNNING"}
           /\ k.state[t] # "UNUSED"
           /\ RunsAt(t) /\ LockedAt(t) /\ WaitAt(t)
           /\ t = Idle => pc[t] \in IdlePc
<1>1. t = k.current /\ k.started /\ trap = "none"
    BY DEF Runs
<1>2. boot = "done" /\ k \in Scheduler /\ k.idle = Idle /\ k.state[Idle] \in {"READY", "RUNNING"}
      /\ k.state[t] # "UNUSED" /\ (t = Idle => pc[t] \in IdlePc)
    BY <1>1 DEF AlwaysInv, BootOK, TypeInv, TypeOK
<1>3. LockedAt(t)
    BY <1>1 DEF AlwaysInv, LockOK, LockedAt
<1> QED BY <1>1, <1>2, <1>3 DEF AlwaysInv

(* What is required of it after its step. *)
OwnAlways(t) ==
    /\ t = Idle => pc[t] \in IdlePc /\ k.state[t] \in {"READY", "RUNNING"}
    /\ k.state[t] # "UNUSED"
    /\ trap = "none" => RunsAt(t)
    /\ WaitAt(t)
    /\ LockedAt(t)

(* The other tasks, where the scheduler did no more than it may to them. *)
LEMMA TameOther ==
    ASSUME NEW x \in Task, WaitAt(x), UnusedAt(x), Tame(k, k', x),
           pc'[x] = pc[x], ret'[x] = ret[x]
    PROVE  WaitAt(x)' /\ UnusedAt(x)'
<1>1. InWait(x)' <=> InWait(x)
    BY DEF InWait
<1>2. InWait(x) => pc[x] # "run"
    BY DEF InWait, YieldPc
<1> QED BY <1>1, <1>2 DEF WaitAt, UnusedAt, Tame, Kept, Turned

(* The TCB the idle task holds. *)
LEMMA TameFree ==
    ASSUME TypeInv, FreeOK, pc'[Idle] = pc[Idle], reg'[Idle] = reg[Idle],
           \A x \in Task : Tame(k, k', x) \/ k.state[x] # "DELETED" \/ k' = k
    PROVE  FreeOK'
<1>1. pc[Idle] = "i_free" => reg[Idle].obj \in Task
    BY SchedAssumption DEF TypeInv, LocalsOK
<1> QED BY <1>1 DEF FreeOK, Tame, Kept, Turned

(* It keeps the CPU and does to the others what it may. *)
Advances ==
    /\ AlwaysInv'
    /\ k'.current = k.current
    /\ \A x \in Task \ {k.current} : Tame(k, k', x) \/ k.state[x] = "DELETED"

(* A step of the current task. *)
LEMMA TameStep ==
    ASSUME TypeInv, AlwaysInv, NEW t \in Task, Runs(t), Moves(t, pc'[t]),
           \A x \in Task \ {t} : ret'[x] = ret[x], boot' = boot,
           Orderly(k'), k'.current = k.current, k'.idle = k.idle, k'.started = k.started,
           \A x \in Task \ {t} : Tame(k, k', x),
           k.state[t] # "DELETED" \/ k' = k,
           OwnAlways(t)', t = Idle => FreeOK'
    PROVE  Advances
<1>1. /\ t = k.current /\ k.started /\ trap = "none" /\ boot = "done"
      /\ k.idle = Idle /\ k.state[Idle] \in {"READY", "RUNNING"}
    BY AlwaysFacts
<1>2. BootOK'
    <2>1. CASE t = Idle
        BY <1>1, <2>1 DEF BootOK, OwnAlways
    <2>2. CASE t # Idle
        <3>1. pc'[Idle] = pc[Idle] /\ Tame(k, k', Idle)
            BY <2>2, SchedAssumption DEF Moves
        <3>2. k'.state[Idle] \in {"READY", "RUNNING"} /\ pc'[Idle] \in IdlePc
            BY <1>1, <3>1 DEF Tame, Kept, Turned, AlwaysInv, BootOK
        <3> QED BY <1>1, <3>2 DEF BootOK, OwnAlways
    <2> QED BY <2>1, <2>2
<1>3. FreeOK'
    <2>1. CASE t # Idle
        <3>1. pc'[Idle] = pc[Idle] /\ reg'[Idle] = reg[Idle]
            BY <2>1, SchedAssumption DEF Moves
        <3> QED BY <3>1, TameFree DEF AlwaysInv
    <2> QED BY <2>1
<1>4. LockOK'
    BY <1>1 DEF OwnAlways, LockedAt, LockOK
<1>5. \A x \in Task : Runs(x)' => RunsAt(x)'
    BY <1>1 DEF OwnAlways, Runs
<1>6. \A x \in Task : WaitAt(x)' /\ UnusedAt(x)'
    <2>1. ASSUME NEW x \in Task \ {t} PROVE WaitAt(x)' /\ UnusedAt(x)'
        BY TameOther DEF Moves, AlwaysInv
    <2>2. WaitAt(t)' /\ UnusedAt(t)'
        BY DEF OwnAlways, UnusedAt
    <2> QED BY <2>1, <2>2
<1>7. EarlyOK'
    BY <1>1 DEF EarlyOK
<1> QED BY <1>1, <1>2, <1>3, <1>4, <1>5, <1>6, <1>7 DEF AlwaysInv, Advances

(* A change that touches neither lists nor tasks. *)
Quiet(s, r) ==
    /\ r.ready = s.ready /\ r.wq = s.wq /\ r.deleted = s.deleted /\ r.timeout = s.timeout
    /\ r.state = s.state /\ r.wres = s.wres /\ r.prio = s.prio
    /\ r.current = s.current /\ r.idle = s.idle /\ r.started = s.started

(* It disturbs nobody. *)
LEMMA QuietTame ==
    ASSUME NEW s, NEW r, Orderly(s), Quiet(s, r)
    PROVE  Orderly(r) /\ \A x \in Task : Kept(s, r, x) /\ Tame(s, r, x)
BY DEF Quiet, Orderly, NoRepeats, Seat, QueuesFall, OnReady, OnWaitQ, Kept, Tame

(* The current task moves on and is running. *)
LEMMA RunningTame ==
    ASSUME TypeInv, AlwaysInv, NEW t \in Task, Runs(t), NEW p, Moves(t, p),
           \A x \in Task \ {t} : ret'[x] = ret[x], boot' = boot,
           Orderly(k'), k'.current = k.current, k'.idle = k.idle, k'.started = k.started,
           \A x \in Task \ {t} : Tame(k, k', x),
           k.state[t] # "DELETED", k'.state[t] = "RUNNING",
           p \in YieldPc => ret'[t] # "wq_ret" \/ k'.wres[t] # "NONE",
           p = "wq_ret" => k'.wres[t] # "NONE",
           k'.lock > 0 => /\ t # Idle
                          /\ p \notin LinkPc \cup {"sl_loop", "sl_crit"}
                          /\ p \in {"y_chk", "ecall"} => ret'[t] # "sl_loop",
           t = Idle => p \in IdlePc /\ FreeOK'
    PROVE  Advances
<1>1. pc'[t] = p
    BY DEF Moves
<1>2. RunsAt(t)' /\ WaitAt(t)' /\ LockedAt(t)'
    BY <1>1 DEF RunsAt, WaitAt, InWait, LockedAt
<1>3. OwnAlways(t)'
    BY <1>1, <1>2 DEF OwnAlways
<1> QED BY <1>1, <1>3, TameStep

(* The same where only flags change and the task was running. *)
LEMMA QuietStep ==
    ASSUME TypeInv, AlwaysInv, NEW t \in Task, Runs(t), NEW p, Moves(t, p),
           \A x \in Task \ {t} : ret'[x] = ret[x], boot' = boot,
           Quiet(k, k'), k.state[t] = "RUNNING",
           p \in YieldPc => ret'[t] # "wq_ret" \/ k.wres[t] # "NONE",
           p = "wq_ret" => k.wres[t] # "NONE",
           k'.lock > 0 => /\ t # Idle
                          /\ p \notin LinkPc \cup {"sl_loop", "sl_crit"}
                          /\ p \in {"y_chk", "ecall"} => ret'[t] # "sl_loop",
           t = Idle => p \in IdlePc /\ FreeOK'
    PROVE  Advances
<1>1. Orderly(k)
    BY DEF AlwaysInv
<1>2. Orderly(k') /\ \A x \in Task : Tame(k, k', x)
    BY <1>1, QuietTame
<1>3. /\ k'.current = k.current /\ k'.idle = k.idle /\ k'.started = k.started
      /\ k.state[t] # "DELETED" /\ k'.state[t] = "RUNNING" /\ k'.wres = k.wres
    BY DEF Quiet
<1> QED BY <1>2, <1>3, RunningTame

(* What holds where the application calls the kernel. *)
LEMMA CallAlways ==
    ASSUME TypeInv, AlwaysInv, NEW t \in Task, NEW c, Call(t, c)
    PROVE  /\ Runs(t) /\ pc[t] = "run" /\ t # Idle
           /\ t = k.current /\ k \in Scheduler /\ k.idle = Idle
           /\ k.state[t] = "RUNNING" /\ Orderly(k) /\ Quiet(k, k)
           /\ trap = "none"
<1>1. Runs(t) /\ pc[t] = "run" /\ t # Idle
    BY DEF Call, At
<1>2. /\ t = k.current /\ k \in Scheduler /\ k.idle = Idle /\ RunsAt(t) /\ Orderly(k)
      /\ trap = "none"
    BY <1>1, AlwaysFacts
<1> QED BY <1>1, <1>2 DEF RunsAt, LinkPc, Quiet

(* The places of the code. *)
LEMMA Places ==
    /\ "run" \notin YieldPc \cup LinkPc \cup {"sl_loop", "sl_crit", "wq_ret"}
    /\ "y_chk" \notin LinkPc \cup {"sl_loop", "sl_crit", "wq_ret"}
    /\ "sl_loop" \notin YieldPc /\ "sl_crit" \notin YieldPc
    /\ "wq_all" \notin YieldPc \cup LinkPc /\ "d_obj" \notin YieldPc \cup LinkPc
    /\ CreatePc \cap (YieldPc \cup LinkPc \cup {"sl_loop", "sl_crit", "wq_ret"}) = {}
    /\ IdlePc \cap (YieldPc \cup LinkPc \cup {"sl_loop", "sl_crit", "wq_ret"}) = {}
BY DEF YieldPc, LinkPc, CreatePc, IdlePc

(* The task blocks and calls task_yield. *)
LEMMA BlockAlways ==
    ASSUME TypeInv, AlwaysInv, NEW t \in Task, Runs(t), Moves(t, "y_chk"),
           \A x \in Task \ {t} : ret'[x] = ret[x], boot' = boot, t # Idle,
           k.state[t] = "RUNNING", NEW W, BlocksOrderly(k, k', t, W),
           ret'[t] = "wq_ret" => W \cap WaitQ # {}, ~(k.lock > 0)
    PROVE  Advances
<1>1. /\ Orderly(k') /\ Frame(k, k') /\ k'.state[t] = "BLOCKED" /\ pc'[t] = "y_chk"
      /\ \A w \in WaitQ : Contains(k'.wq[w], t) <=> w \in W
      /\ \A x \in Task \ {t} : SameTask(k, k', x)
    BY DEF BlocksOrderly, Moves
<1>2. WaitAt(t)'
    BY <1>1 DEF WaitAt, InWait, OnWaitQ
<1>3. OwnAlways(t)'
    BY <1>1, <1>2, Places DEF OwnAlways, RunsAt, LockedAt, Frame
<1>4. \A x \in Task \ {t} : Tame(k, k', x)
    BY <1>1, SameTame
<1> QED BY <1>1, <1>3, <1>4, TameStep DEF Frame

-----------------------------------------------------------------------------
(* The calls of the application that do not touch a list, and task_yield.  *)

(* task_yield, task_sleep, sched_lock, sched_unlock. *)
LEMMA FlagsAlways ==
    ASSUME TypeInv, AlwaysInv, NEW t \in Task,
           \/ task_yield(t)
           \/ \E d \in Delays : task_sleep(t, d)
           \/ sched_lock(t)
           \/ sched_unlock(t)
    PROVE  Advances
<1> USE DEF taskvars, history
<1>0. /\ Call(t, "yield") \/ Call(t, "sleep") \/ Call(t, "lock")
      /\ boot' = boot
    BY DEF task_yield, task_sleep, sched_lock, sched_unlock
<1>1. /\ Runs(t) /\ pc[t] = "run" /\ t # Idle
      /\ t = k.current /\ k \in Scheduler
      /\ k.state[t] = "RUNNING" /\ Quiet(k, k)
    BY <1>0, CallAlways
<1>2. ret \in [Task -> RetPc]
    BY DEF TypeInv, TypeOK
<1>3. LockedAt(t)
    BY <1>1, AlwaysFacts
<1>4. CASE task_yield(t)
    <2>1. k' = k /\ Goto(t, "y_chk") /\ ret' = [ret EXCEPT ![t] = "run"] /\ reg' = reg
        BY <1>4 DEF task_yield, CallYield
    <2>2. Moves(t, "y_chk")
        BY <2>1, RegMoves
    <2>3. ret'[t] = "run" /\ \A x \in Task \ {t} : ret'[x] = ret[x]
        BY <1>2, <2>1
    <2> QED BY <1>0, <1>1, <2>1, <2>2, <2>3, Places, QuietStep
<1>5. ASSUME NEW d \in Delays, task_sleep(t, d) PROVE Advances
    <2>1. CASE sched_is_locked(k)
        <3>1. k' = sched_set_pending(k) /\ pc' = pc /\ reg' = reg /\ ret' = ret
            BY <1>5, <2>1 DEF task_sleep
        <3>2. Quiet(k, k')
            BY <1>1, <3>1 DEF sched_set_pending, Quiet, Scheduler
        <3>3. Moves(t, "run")
            BY <1>1, <3>1, RegMoves
        <3> QED BY <1>0, <1>1, <3>1, <3>2, <3>3, Places, QuietStep
    <2>2. CASE ~sched_is_locked(k)
        <3>1. /\ k' = k /\ Goto(t, "sl_loop") /\ ret' = ret
              /\ reg' = [reg EXCEPT ![t].due = (tick + d) % TickMod]
            BY <1>5, <2>2 DEF task_sleep
        <3>2. Moves(t, "sl_loop")
            BY <3>1, RegMoves
        <3>3. ~(k'.lock > 0)
            BY <2>2, <3>1 DEF sched_is_locked
        <3> QED BY <1>0, <1>1, <3>1, <3>2, <3>3, Places, QuietStep
    <2> QED BY <2>1, <2>2
<1>6. CASE sched_lock(t)
    <2>1. k' = [k EXCEPT !.lock = @ + 1] /\ pc' = pc /\ reg' = reg /\ ret' = ret
        BY <1>6 DEF sched_lock
    <2>2. Quiet(k, k')
        BY <1>1, <2>1 DEF Quiet, Scheduler
    <2>3. Moves(t, "run")
        BY <1>1, <2>1, RegMoves
    <2> QED BY <1>0, <1>1, <2>1, <2>2, <2>3, Places, QuietStep
<1>7. CASE sched_unlock(t)
    <2>1. CASE k.lock = 1 /\ k.pending
        <3>1. /\ k' = [k EXCEPT !.lock = 0, !.pending = FALSE] /\ Goto(t, "y_chk")
              /\ ret' = [ret EXCEPT ![t] = "run"] /\ reg' = reg
            BY <1>7, <2>1 DEF sched_unlock, CallYield
        <3>2. Quiet(k, k')
            BY <1>1, <3>1 DEF Quiet, Scheduler
        <3>3. Moves(t, "y_chk")
            BY <3>1, RegMoves
        <3>4. ret'[t] = "run" /\ \A x \in Task \ {t} : ret'[x] = ret[x]
            BY <1>2, <3>1
        <3> QED BY <1>0, <1>1, <3>2, <3>3, <3>4, Places, QuietStep
    <2>2. CASE ~(k.lock = 1 /\ k.pending)
        <3>1. k' = [k EXCEPT !.lock = @ - 1] /\ pc' = pc /\ reg' = reg /\ ret' = ret
            BY <1>7, <2>2 DEF sched_unlock
        <3>2. Quiet(k, k')
            BY <1>1, <3>1 DEF Quiet, Scheduler
        <3>3. Moves(t, "run")
            BY <1>1, <3>1, RegMoves
        <3> QED BY <1>0, <1>1, <3>1, <3>2, <3>3, Places, QuietStep
    <2> QED BY <2>1, <2>2
<1> QED BY <1>4, <1>5, <1>6, <1>7

(* The steps of task_delay_ticks. *)
LEMMA SleepAlways ==
    ASSUME TypeInv, AlwaysInv, NEW t \in Task, sleep_loop(t) \/ sleep_block(t)
    PROVE  Advances
<1> USE DEF taskvars, history
<1>1. Runs(t) /\ pc[t] \in {"sl_loop", "sl_crit"} /\ boot' = boot
    BY DEF sleep_loop, sleep_block, At
<1>2. /\ k \in Scheduler /\ RunsAt(t) /\ LockedAt(t) /\ Orderly(k) /\ t = k.current
      /\ t = Idle => pc[t] \in IdlePc
    BY <1>1, AlwaysFacts
<1>3. k.state[t] = "RUNNING" /\ ~(k.lock > 0) /\ t # Idle
    BY <1>1, <1>2 DEF RunsAt, LockedAt, LinkPc, IdlePc
<1>4. Quiet(k, k)
    BY DEF Quiet
<1>5. CASE sleep_done(t)
    <2>1. k' = k /\ Goto(t, "run") /\ reg' = [reg EXCEPT ![t].due = 0] /\ ret' = ret
        BY <1>5 DEF sleep_done
    <2>2. Moves(t, "run")
        BY <2>1, RegMoves
    <2> QED BY <1>1, <1>3, <1>4, <2>1, <2>2, Places, QuietStep
<1>6. CASE k' = k /\ Goto(t, "sl_crit") /\ reg' = reg /\ ret' = ret
    <2>1. Moves(t, "sl_crit")
        BY <1>6, RegMoves
    <2> QED BY <1>1, <1>3, <1>4, <1>6, <2>1, Places, QuietStep
<1>7. CASE sleep_block(t) /\ ~timer_expired(tick, reg[t].due)
    <2> DEFINE due == reg[t].due
    <2>1. /\ k' = sched_timeout_insert(sched_ready_remove(
                      [k EXCEPT !.wakeup[t] = due, !.timer[t] = TRUE,
                                !.wres[t] = "NONE", !.state[t] = "BLOCKED"], t), t)
          /\ Goto(t, "y_chk") /\ reg' = reg /\ ret' = [ret EXCEPT ![t] = "sl_loop"]
        BY <1>7 DEF sleep_block, CallYield
    <2>2. due \in Ticks
        BY DEF TypeInv, TypeOK, Locals
    <2> HIDE DEF due
    <2>3. BlocksOrderly(k, k', t, {})
        BY <1>2, <1>3, <2>1, <2>2, SleepOrderly
    <2>4. Moves(t, "y_chk")
        BY <2>1, RegMoves
    <2>5. ret'[t] = "sl_loop" /\ \A x \in Task \ {t} : ret'[x] = ret[x]
        BY <2>1 DEF TypeInv, TypeOK
    <2> QED BY <1>1, <1>3, <2>3, <2>4, <2>5, BlockAlways
<1>8. \/ sleep_done(t)
      \/ k' = k /\ Goto(t, "sl_crit") /\ reg' = reg /\ ret' = ret
      \/ sleep_block(t) /\ ~timer_expired(tick, reg[t].due)
    BY DEF sleep_loop, sleep_block
<1> QED BY <1>5, <1>6, <1>7, <1>8

(* The calls that block on a wait queue. *)
LEMMA WaitAlways ==
    ASSUME TypeInv, AlwaysInv, NEW t \in Task, NEW q \in WaitQ,
           \/ trt_wait_q_block(t, q)
           \/ \E d \in Delays : trt_wait_q_block_ticks(t, q, d)
    PROVE  Advances
<1> USE DEF taskvars, history
<1>0. /\ Call(t, "wait") \/ Call(t, "timedwait")
      /\ boot' = boot /\ reg' = reg
    BY DEF trt_wait_q_block, trt_wait_q_block_ticks
<1>1. /\ Runs(t) /\ pc[t] = "run" /\ t # Idle
      /\ t = k.current /\ k \in Scheduler
      /\ k.state[t] = "RUNNING" /\ Orderly(k)
    BY <1>0, CallAlways
<1>2. IsCurrent(k, t)
    BY <1>1 DEF IsCurrent
<1>3. CASE BlockRefused(k)
    <2>1. k' = sched_set_pending(k) /\ pc' = pc /\ ret' = ret
        BY <1>3 DEF trt_wait_q_block, trt_wait_q_block_ticks, trt_wait_q_block_locked,
                    trt_wait_q_block_ticks_locked
    <2>2. Quiet(k, k')
        BY <1>1, <2>1 DEF sched_set_pending, Quiet, Scheduler
    <2>3. Moves(t, "run")
        BY <1>0, <1>1, <2>1, RegMoves
    <2> QED BY <1>0, <1>1, <2>1, <2>2, <2>3, Places, QuietStep
<1>4. CASE ~BlockRefused(k)
    <2>1. Goto(t, "y_chk") /\ ret' = [ret EXCEPT ![t] = "wq_ret"]
        BY <1>4 DEF trt_wait_q_block, trt_wait_q_block_ticks, CallYield
    <2>2. BlocksOrderly(k, k', t, {q})
        <3>1. CASE trt_wait_q_block(t, q)
            <4>1. k' = trt_wait_q_block_locked(k, q)
                BY <3>1 DEF trt_wait_q_block
            <4> QED BY <1>1, <1>2, <1>4, <4>1, WaitBlockOrderly
        <3>2. ASSUME NEW d \in Delays, trt_wait_q_block_ticks(t, q, d)
              PROVE  BlocksOrderly(k, k', t, {q})
            <4>1. k' = trt_wait_q_block_ticks_locked(k, q, d, tick)
                BY <3>2 DEF trt_wait_q_block_ticks
            <4>2. d \in Nat /\ tick \in Ticks
                BY KernelAssumption, SchedAssumption DEF TypeInv, TypeOK
            <4> QED BY <1>1, <1>2, <1>4, <4>1, <4>2, TimedBlockOrderly
        <3> QED BY <3>1, <3>2
    <2>3. Moves(t, "y_chk")
        BY <1>0, <2>1, RegMoves
    <2>4. \A x \in Task \ {t} : ret'[x] = ret[x]
        BY <2>1 DEF TypeInv, TypeOK
    <2>5. ~(k.lock > 0) /\ {q} \cap WaitQ # {}
        BY <1>1, <1>4 DEF BlockRefused, sched_is_locked, Scheduler
    <2> QED BY <1>0, <1>1, <2>2, <2>3, <2>4, <2>5, BlockAlways
<1> QED BY <1>3, <1>4

(* The wake calls, a round of wake-all and the return from a wait. *)
LEMMA WakeAlways ==
    ASSUME TypeInv, AlwaysInv, NEW t \in Task,
           \/ \E q \in WaitQ : trt_wait_q_wake_one(t, q) \/ trt_wait_q_wake_all(t, q)
           \/ wake_all_round(t, "wq_all", "OBJECT", "run")
           \/ wait_return(t)
    PROVE  Advances
<1> USE DEF taskvars, history
<1>0. /\ Runs(t) /\ pc[t] \in {"run", "wq_all", "wq_ret"} /\ boot' = boot /\ ret' = ret
    BY DEF trt_wait_q_wake_one, trt_wait_q_wake_all, wake_all_round, wait_return, Call, At
<1>1. /\ k \in Scheduler /\ RunsAt(t) /\ LockedAt(t) /\ Orderly(k) /\ t = k.current
      /\ t = Idle => pc[t] \in IdlePc
    BY <1>0, AlwaysFacts
<1>2. k.state[t] = "RUNNING" /\ t # Idle /\ Quiet(k, k)
    BY <1>0, <1>1 DEF RunsAt, LinkPc, IdlePc, Quiet
<1>3. ASSUME NEW q \in WaitQ, k' = trt_wait_q_wake_one_result_locked(k, q, "OBJECT"),
             NEW p \in {"run", "wq_all"}, Moves(t, p)
      PROVE  Advances
    <2>1. "OBJECT" \in WaitResult \ {"NONE"}
        BY DEF WaitResult
    <2>2. /\ Orderly(k') /\ Frame(k, k') /\ \A x \in Task : Tame(k, k', x)
          /\ \A x \in Task : k.state[x] # "BLOCKED" => k'.state[x] = k.state[x]
        BY <1>1, <1>3, <2>1, WakeOrderly
    <2>3. /\ k'.current = k.current /\ k'.idle = k.idle /\ k'.started = k.started
          /\ k'.state[t] = "RUNNING"
        BY <1>2, <2>2 DEF Frame
    <2> QED BY <1>0, <1>2, <1>3, <2>2, <2>3, Places, RunningTame
<1>4. ASSUME NEW q \in WaitQ, trt_wait_q_wake_one(t, q) PROVE Advances
    <2>1. /\ k' = trt_wait_q_wake_one_result_locked(k, q, "OBJECT")
          /\ pc' = pc /\ reg' = reg /\ pc[t] = "run"
        BY <1>4 DEF trt_wait_q_wake_one, trt_wait_q_wake_one_locked, Call, At
    <2>2. Moves(t, "run")
        BY <2>1, RegMoves
    <2> QED BY <1>3, <2>1, <2>2
<1>5. ASSUME NEW q \in WaitQ, trt_wait_q_wake_all(t, q) PROVE Advances
    <2>1. k' = k /\ Goto(t, "wq_all") /\ reg' = [reg EXCEPT ![t].q = q]
        BY <1>5 DEF trt_wait_q_wake_all
    <2>2. Moves(t, "wq_all")
        BY <2>1, RegMoves
    <2> QED BY <1>0, <1>2, <2>1, <2>2, Places, QuietStep
<1>6. CASE wake_all_round(t, "wq_all", "OBJECT", "run")
    <2>1. /\ k' = trt_wait_q_wake_one_result_locked(k, reg[t].q, "OBJECT")
          /\ pc[t] = "wq_all"
          /\ \/ Goto(t, "run") /\ reg' = [reg EXCEPT ![t].q = None]
             \/ pc' = pc /\ reg' = reg
        BY <1>6 DEF wake_all_round, At
    <2>2. reg[t].q \in WaitQ
        BY <2>1 DEF TypeInv, LocalsOK
    <2>3. Moves(t, "run") \/ Moves(t, "wq_all")
        BY <2>1, RegMoves
    <2> QED BY <1>3, <2>1, <2>2, <2>3
<1>7. CASE wait_return(t)
    <2>1. k' = k /\ Goto(t, "run") /\ reg' = reg
        BY <1>7 DEF wait_return
    <2>2. Moves(t, "run")
        BY <2>1, RegMoves
    <2> QED BY <1>0, <1>2, <2>1, <2>2, Places, QuietStep
<1> QED BY <1>4, <1>5, <1>6, <1>7

(* A quiet step of a task in any state. *)
LEMMA QuietOwn ==
    ASSUME TypeInv, AlwaysInv, NEW t \in Task, Runs(t), Moves(t, pc'[t]),
           \A x \in Task \ {t} : ret'[x] = ret[x], boot' = boot,
           Quiet(k, k'), k.state[t] # "DELETED" \/ k' = k,
           OwnAlways(t)', t = Idle => FreeOK'
    PROVE  Advances
<1>1. Orderly(k)
    BY DEF AlwaysInv
<1>2. Orderly(k') /\ \A x \in Task : Tame(k, k', x)
    BY <1>1, QuietTame
<1>3. k'.current = k.current /\ k'.idle = k.idle /\ k'.started = k.started
    BY DEF Quiet
<1> QED BY <1>2, <1>3, TameStep

(* task_yield up to its call of sched_ready_enqueue. *)
LEMMA YieldCheckAlways ==
    ASSUME TypeInv, AlwaysInv, NEW t \in Task, yield_check(t)
    PROVE  Advances
<1> USE DEF taskvars, history
<1>0. /\ Runs(t) /\ pc[t] = "y_chk"
      /\ boot' = boot /\ ret' = ret /\ reg' = reg /\ trap' = trap
    BY DEF yield_check, At
<1>1. /\ t = k.current /\ k \in Scheduler /\ RunsAt(t) /\ LockedAt(t) /\ WaitAt(t) /\ t # Idle
      /\ k.state[t] # "UNUSED" /\ trap = "none" /\ Orderly(k)
    BY <1>0, AlwaysFacts DEF IdlePc
<1>2. CASE sched_is_locked(k)
    <2>1. k' = sched_set_pending(k) /\ Goto(t, ret[t])
        BY <1>2 DEF yield_check
    <2>2. Quiet(k, k')
        BY <1>1, <2>1 DEF sched_set_pending, Quiet, Scheduler
    <2>3. Moves(t, ret[t]) /\ ret[t] \in RetPc
        BY <1>0, <2>1, RegMoves DEF TypeInv, TypeOK
    <2>4. k.lock > 0
        BY <1>1, <1>2 DEF sched_is_locked, Scheduler
    <2>5. k.state[t] = "RUNNING" /\ ret[t] # "sl_loop"
        BY <1>0, <1>1, <2>4 DEF LockedAt
    <2>6. ret[t] = "wq_ret" => k.wres[t] # "NONE"
        BY <1>0, <1>1, <2>5 DEF WaitAt, InWait, YieldPc
    <2>7. /\ ret[t] \notin LinkPc \cup {"sl_loop", "sl_crit", "y_chk"}
          /\ ret[t] \in YieldPc => ret'[t] # "wq_ret"
        BY <1>0, <2>3, <2>5 DEF RetPc, LinkPc, YieldPc
    <2> QED BY <1>0, <1>1, <2>2, <2>3, <2>5, <2>6, <2>7, QuietStep
<1>3. CASE ~sched_is_locked(k) /\ k.state[t] = "RUNNING" /\ ~sched_current_is_idle(k)
    <2>1. k' = StoredReady(k, t) /\ Goto(t, "y_enq")
        BY <1>3 DEF yield_check, StoredReady
    <2>2. ~OnWaitQ(k, t)
        BY <1>1, <1>3 DEF Orderly, Seat, OnWaitQ
    <2>3. /\ k' \in Scheduler /\ k'.state[t] = "READY"
          /\ k'.idle = k.idle /\ k'.started = k.started /\ k'.lock = k.lock /\ k'.wq = k.wq
          /\ k'.deleted = k.deleted /\ k'.wres = k.wres /\ k'.timeout = k.timeout
          /\ k'.ready = k.ready /\ k'.prio = k.prio /\ k'.current = k.current
          /\ \A x \in Task \ {t} : k'.state[x] = k.state[x]
        BY <1>1, <2>1 DEF StoredReady, Scheduler, TaskState
    <2>4. Turn(k, k')
        BY <1>1, <1>3, <2>2, <2>3, StateTurn
    <2>5. Orderly(k') /\ \A x \in Task : Tame(k, k', x)
        BY <2>4, TurnTame DEF Turn
    <2>6. Moves(t, "y_enq") /\ pc'[t] = "y_enq"
        BY <1>0, <2>1, RegMoves DEF Moves
    <2>7. ~(k'.lock > 0)
        BY <1>3, <2>3 DEF sched_is_locked
    <2>8. RunsAt(t)' /\ LockedAt(t)'
        BY <2>3, <2>6, <2>7 DEF RunsAt, LockedAt, LinkPc
    <2>9. WaitAt(t)'
        BY <1>0, <1>1, <1>3, <2>3, <2>6 DEF WaitAt, InWait, YieldPc
    <2>10. OwnAlways(t)'
        BY <1>1, <2>3, <2>8, <2>9 DEF OwnAlways
    <2> QED BY <1>0, <1>1, <1>3, <2>3, <2>5, <2>6, <2>10, TameStep
<1>4. CASE ~sched_is_locked(k) /\ ~(k.state[t] = "RUNNING" /\ ~sched_current_is_idle(k))
    <2>1. k' = k /\ Goto(t, "ecall")
        BY <1>4 DEF yield_check
    <2>2. Moves(t, "ecall") /\ pc'[t] = "ecall"
        BY <1>0, <2>1, RegMoves DEF Moves
    <2>3. ~(k'.lock > 0)
        BY <1>4, <2>1 DEF sched_is_locked
    <2>4. RunsAt(t)' /\ LockedAt(t)'
        BY <2>2, <2>3 DEF RunsAt, LockedAt, LinkPc
    <2>5. WaitAt(t)'
        BY <1>0, <1>1, <2>1, <2>2 DEF WaitAt, InWait, YieldPc
    <2>6. OwnAlways(t)' /\ Quiet(k, k')
        BY <1>1, <2>1, <2>4, <2>5 DEF OwnAlways, Quiet
    <2> QED BY <1>0, <1>1, <2>1, <2>2, <2>6, QuietOwn
<1> QED BY <1>2, <1>3, <1>4

(* What holds between the store of the state and the ecall. *)
LEMMA LinkFacts ==
    ASSUME TypeInv, AlwaysInv, NEW t \in Task, Runs(t), pc[t] \in LinkPc
    PROVE  /\ t = k.current /\ k \in Scheduler /\ Orderly(k) /\ t # Idle
           /\ k.state[t] \in {"READY", "RUNNING"} /\ ~(k.lock > 0) /\ trap = "none"
           /\ ret[t] = "wq_ret" => k.wres[t] # "NONE"
<1>1. /\ t = k.current /\ k \in Scheduler /\ RunsAt(t) /\ LockedAt(t) /\ WaitAt(t)
      /\ trap = "none" /\ Orderly(k) /\ (t = Idle => pc[t] \in IdlePc)
    BY AlwaysFacts
<1>2. k.state[t] \in {"READY", "RUNNING"} /\ ~(k.lock > 0)
    BY <1>1 DEF RunsAt, LockedAt
<1>3. ret[t] = "wq_ret" => k.wres[t] # "NONE"
    BY <1>1, <1>2 DEF WaitAt, InWait, LinkPc, YieldPc
<1>4. t # Idle
    BY <1>1 DEF LinkPc, IdlePc
<1> QED BY <1>1, <1>2, <1>3, <1>4

(* Such a task goes on. *)
LEMMA LinkStep ==
    ASSUME TypeInv, AlwaysInv, NEW t \in Task, Runs(t), pc[t] \in LinkPc,
           NEW p \in {"y_load", "y_store", "ecall"}, Moves(t, p), ret' = ret, boot' = boot,
           Orderly(k'), k'.current = k.current, k'.idle = k.idle, k'.started = k.started,
           k'.lock = k.lock, k'.state[t] = k.state[t], k'.wres[t] = k.wres[t],
           \A x \in Task \ {t} : Tame(k, k', x)
    PROVE  Advances
<1>1. /\ k.state[t] \in {"READY", "RUNNING"} /\ ~(k.lock > 0) /\ t # Idle
      /\ ret[t] = "wq_ret" => k.wres[t] # "NONE"
    BY LinkFacts
<1>2. pc'[t] = p
    BY DEF Moves
<1>3. RunsAt(t)' /\ LockedAt(t)'
    BY <1>1, <1>2 DEF RunsAt, LockedAt, LinkPc
<1>4. WaitAt(t)'
    BY <1>1, <1>2 DEF WaitAt, InWait
<1>5. OwnAlways(t)' /\ k.state[t] # "DELETED"
    BY <1>1, <1>3, <1>4 DEF OwnAlways
<1> QED BY <1>1, <1>2, <1>5, TameStep

(* The yielding task is linked into its ready list. *)
LEMMA YieldLinkAlways ==
    ASSUME TypeInv, AlwaysInv, NEW t \in Task, yield_link(t)
    PROVE  Advances
<1> USE DEF taskvars, history
<1>0. /\ Runs(t) /\ pc[t] \in LinkPc
      /\ boot' = boot /\ ret' = ret /\ reg' = reg
    BY DEF yield_link, At, LinkPc
<1>1. k \in Scheduler /\ Orderly(k)
    BY <1>0, LinkFacts
<1>2. CASE EnqueueRefused(k, t)
    <2>1. k' = k /\ Goto(t, "ecall")
        BY <1>2 DEF yield_link
    <2>2. Quiet(k, k')
        BY <2>1 DEF Quiet
    <2>3. \A x \in Task : Tame(k, k', x)
        BY <1>1, <2>2, QuietTame
    <2>4. Moves(t, "ecall")
        BY <1>0, <2>1, RegMoves
    <2> QED BY <1>0, <1>1, <2>1, <2>3, <2>4, LinkStep
<1>3. CASE ~EnqueueRefused(k, t)
    <2>1. k' = ready_link(k, t) /\ Goto(t, "y_load")
        BY <1>3 DEF yield_link
    <2>2. /\ Orderly(k') /\ Frame(k, k') /\ k'.state = k.state /\ k'.wres = k.wres
          /\ \A x \in Task \ {t} : SameTask(k, k', x)
        BY <1>1, <1>3, <2>1, EnqueueOrderly
    <2>3. \A x \in Task \ {t} : Tame(k, k', x)
        BY <2>2, SameTame
    <2>4. Moves(t, "y_load")
        BY <1>0, <2>1, RegMoves
    <2> QED BY <1>0, <2>2, <2>3, <2>4, LinkStep DEF Frame
<1> QED BY <1>2, <1>3

(* The two halves of mask |= bit. *)
LEMMA YieldMaskAlways ==
    ASSUME TypeInv, AlwaysInv, NEW t \in Task,
           \/ mask_load(t, "y_load", "y_store")
           \/ mask_store(t, t, "y_store", "ecall")
    PROVE  Advances
<1> USE DEF taskvars, history
<1>0. /\ Runs(t) /\ pc[t] \in LinkPc /\ boot' = boot /\ ret' = ret
    BY DEF mask_load, mask_store, At, LinkPc
<1>1. k \in Scheduler /\ Orderly(k)
    BY <1>0, LinkFacts
<1>2. Quiet(k, k') /\ k'.lock = k.lock
    <2>1. k' = k \/ k' = [k EXCEPT !.mask = reg[t].mask \cup {k.prio[t]}]
        BY DEF mask_load, mask_store
    <2> QED BY <1>1, <2>1 DEF Quiet, Scheduler
<1>3. Orderly(k') /\ \A x \in Task : Tame(k, k', x)
    BY <1>1, <1>2, QuietTame
<1>4. \/ Goto(t, "y_store") /\ reg' = [reg EXCEPT ![t].mask = k.mask]
      \/ Goto(t, "ecall") /\ reg' = [reg EXCEPT ![t].mask = {}]
    BY DEF mask_load, mask_store
<1>5. Moves(t, "y_store") \/ Moves(t, "ecall")
    BY <1>4, RegMoves
<1> QED BY <1>0, <1>2, <1>3, <1>5, LinkStep DEF Quiet

(* arch_yield raises the trap. *)
LEMMA ArchYieldAlways ==
    ASSUME TypeInv, AlwaysInv, NEW t \in Task, arch_yield(t)
    PROVE  Advances
<1> USE DEF taskvars, history
<1>0. /\ Runs(t) /\ pc[t] = "ecall" /\ boot' = boot /\ ret' = ret /\ reg' = reg /\ k' = k
      /\ trap' = "ecall" /\ Goto(t, ret[t])
    BY DEF arch_yield, At
<1>1. /\ LockedAt(t) /\ WaitAt(t) /\ t # Idle /\ k.state[t] # "UNUSED"
    BY <1>0, AlwaysFacts DEF IdlePc
<1>2. Moves(t, ret[t]) /\ pc'[t] = ret[t] /\ ret[t] \in RetPc
    BY <1>0, RegMoves DEF Moves, TypeInv, TypeOK
<1>3. LockedAt(t)'
    BY <1>0, <1>1, <1>2 DEF LockedAt, RetPc, LinkPc
<1>4. WaitAt(t)'
    BY <1>0, <1>1, <1>2 DEF WaitAt, InWait, YieldPc
<1>5. OwnAlways(t)' /\ Quiet(k, k')
    BY <1>0, <1>1, <1>3, <1>4 DEF OwnAlways, Quiet
<1> QED BY <1>0, <1>1, <1>2, <1>5, QuietOwn

-----------------------------------------------------------------------------
(* task_delete, task_exit and task_create *)

(* Marking a task other than the current one as deleted. *)
LEMMA MarkedTame ==
    ASSUME NEW s \in Scheduler, NEW u \in Task, Orderly(s), s.idle = Idle, u # Idle,
           s.state[u] # "DELETED", NEW self \in BOOLEAN,
           NEW e, e = MarkedDeleted(s, u, self)
    PROVE  /\ Orderly(e) /\ Frame(s, e) /\ e.state[u] = "DELETED"
           /\ \A x \in Task : Tame(s, e, x)
           /\ \A x \in Task \ {u} : e.state[x] = s.state[x] /\ e.wres[x] = s.wres[x]
<1> DEFINE m == sched_mark_deleted(s, u)
<1>1. /\ Orderly(m) /\ Frame(s, m) /\ m.state[u] = "DELETED"
      /\ \A x \in Task \ {u} : SameTask(s, m, x)
    BY MarkOrderly
<1>2. m \in Scheduler
    BY MarkDeletedType
<1>3. Similar(m, e) /\ e.wres = m.wres
    BY <1>2 DEF MarkedDeleted, Similar, Frame, Scheduler
<1> HIDE DEF m
<1>4. Orderly(e)
    BY <1>1, <1>3, SimilarOrderly
<1>5. ASSUME NEW x \in Task \ {u}
      PROVE  Tame(s, e, x) /\ e.state[x] = s.state[x] /\ e.wres[x] = s.wres[x]
    <2>1. SameTask(s, e, x)
        BY <1>1, <1>3 DEF SameTask, Similar, Frame
    <2> QED BY <2>1, SameTame DEF SameTask
<1>6. e.state[u] = "DELETED" /\ Frame(s, e)
    BY <1>1, <1>3 DEF Similar, Frame
<1>7. Tame(s, e, u)
    BY <1>6 DEF Tame
<1> QED BY <1>4, <1>5, <1>6, <1>7

(* task_delete_obj *)
LEMMA DeleteObjAlways ==
    ASSUME TypeInv, AlwaysInv, NEW t \in Task, NEW u \in Task, NEW p \in {"run", "ecall"},
           Runs(t), k.state[t] = "RUNNING", t # Idle,
           task_delete_obj(t, u, p), boot' = boot,
           \A x \in Task \ {t} : ret'[x] = ret[x],
           p = "ecall" => ret'[t] = "ecall",
           UNCHANGED reg \/ \E l : reg' = [reg EXCEPT ![t].obj = l]
    PROVE  Advances
<1>0. /\ p \in YieldPc => ret'[t] # "wq_ret"
      /\ p \notin LinkPc \cup {"sl_loop", "sl_crit", "wq_ret"}
      /\ p \in {"y_chk", "ecall"} => ret'[t] # "sl_loop"
    BY Places DEF LinkPc
<1>1. t = k.current /\ k \in Scheduler /\ k.idle = Idle /\ Orderly(k)
    BY AlwaysFacts
<1>2. CASE k' = k /\ Goto(t, p)
    <2>1. Moves(t, p)
        BY <1>2, RegMoves
    <2>2. Quiet(k, k')
        BY <1>2 DEF Quiet
    <2> QED BY <1>0, <2>1, <2>2, QuietStep
<1>3. CASE /\ ~(u = Idle \/ k.state[u] = "DELETED" \/ (u = t /\ sched_is_locked(k)))
           /\ k' = MarkedDeleted(k, u, u = t)
           /\ Goto(t, IF u = t THEN "ecall" ELSE p)
    <2>1. /\ Orderly(k') /\ Frame(k, k') /\ k'.state[u] = "DELETED"
          /\ \A x \in Task : Tame(k, k', x)
          /\ \A x \in Task \ {u} : k'.state[x] = k.state[x] /\ k'.wres[x] = k.wres[x]
        <3> DEFINE self == u = t
        <3>1. self \in BOOLEAN /\ k' = MarkedDeleted(k, u, self)
            BY <1>3
        <3> HIDE DEF self
        <3>2. u # Idle /\ k.state[u] # "DELETED"
            BY <1>3
        <3> QED BY <1>1, <3>1, <3>2, MarkedTame
    <2>2. CASE u = t
        <3>1. Moves(t, "ecall") /\ pc'[t] = "ecall"
            BY <1>3, <2>2, RegMoves DEF Moves
        <3>2. ~(k'.lock > 0)
            BY <1>3, <2>1, <2>2 DEF sched_is_locked, Frame
        <3>3. OwnAlways(t)'
            BY <2>1, <2>2, <3>1, <3>2 DEF OwnAlways, RunsAt, WaitAt, LockedAt, LinkPc
        <3> QED BY <1>3, <2>1, <2>2, <3>1, <3>3, TameStep DEF Frame
    <2>3. CASE u # t
        <3>1. Moves(t, p)
            BY <1>3, <2>3, RegMoves
        <3>2. k'.state[t] = "RUNNING" /\ k.state[t] # "DELETED"
            BY <2>1, <2>3
        <3> QED BY <1>0, <2>1, <3>1, <3>2, RunningTame DEF Frame
    <2> QED BY <2>2, <2>3
<1>4. \/ k' = k /\ Goto(t, p)
      \/ /\ ~(u = Idle \/ k.state[u] = "DELETED" \/ (u = t /\ sched_is_locked(k)))
         /\ k' = MarkedDeleted(k, u, u = t)
         /\ Goto(t, IF u = t THEN "ecall" ELSE p)
    <2>1. CASE k.state[u] = "UNUSED"
        BY <2>1 DEF task_delete_obj
    <2>2. CASE /\ k.state[u] # "UNUSED"
               /\ u = Idle \/ k.state[u] = "DELETED" \/ (u = t /\ sched_is_locked(k))
        BY <2>2 DEF task_delete_obj
    <2>3. CASE /\ k.state[u] # "UNUSED"
               /\ ~(u = Idle \/ k.state[u] = "DELETED" \/ (u = t /\ sched_is_locked(k)))
        BY <2>3 DEF task_delete_obj, MarkedDeleted
    <2> QED BY <2>1, <2>2, <2>3
<1> QED BY <1>2, <1>3, <1>4

(* Its callers, and the lookup of the handle. *)
LEMMA DeleteAlways ==
    ASSUME TypeInv, AlwaysInv, NEW t \in Task,
           \/ \E h \in Handle : task_delete(t, h)
           \/ task_delete_found(t)
           \/ task_exit(t)
           \/ create_fail(t)
    PROVE  Advances
<1> USE DEF taskvars, history
<1>0. Runs(t) /\ boot' = boot /\ pc[t] \in {"run", "d_obj", "c_fail"}
    BY DEF task_delete, task_delete_found, task_exit, create_fail, Call, At
<1>1. RunsAt(t) /\ (t = Idle => pc[t] \in IdlePc)
    BY <1>0, AlwaysFacts
<1>2. k.state[t] = "RUNNING" /\ t # Idle /\ ret \in [Task -> RetPc]
    BY <1>0, <1>1 DEF RunsAt, LinkPc, IdlePc, TypeInv, TypeOK
<1>3. ASSUME NEW h \in Handle, task_delete(t, h) PROVE Advances
    <2>1. /\ ret' = ret /\ k' = k
          /\ reg' = [reg EXCEPT ![t].obj = htab[h]] /\ Goto(t, "d_obj")
        BY <1>3 DEF task_delete
    <2>2. Moves(t, "d_obj")
        BY <2>1, RegMoves
    <2>3. Quiet(k, k')
        BY <2>1 DEF Quiet
    <2> QED BY <1>0, <1>2, <2>1, <2>2, <2>3, Places, QuietStep
<1>4. CASE task_delete_found(t)
    <2> DEFINE u == reg[t].obj
    <2>1. /\ task_delete_obj(t, u, "run") /\ LoopIfSelf(t, u) /\ pc[t] = "d_obj"
          /\ reg' = [reg EXCEPT ![t].obj = None]
        BY <1>4 DEF task_delete_found, At
    <2>2. u \in Task
        BY <2>1 DEF TypeInv, LocalsOK
    <2> HIDE DEF u
    <2>3. \A x \in Task \ {t} : ret'[x] = ret[x]
        BY <1>2, <2>1 DEF LoopIfSelf
    <2> QED BY <1>0, <1>2, <2>1, <2>2, <2>3, DeleteObjAlways
<1>5. CASE task_exit(t)
    <2>1. /\ reg' = reg
          /\ task_delete_obj(t, t, "ecall") /\ ret' = [ret EXCEPT ![t] = "ecall"]
        BY <1>5 DEF task_exit, LoopIfSelf
    <2>2. ret'[t] = "ecall" /\ \A x \in Task \ {t} : ret'[x] = ret[x]
        BY <1>2, <2>1
    <2> QED BY <1>0, <1>2, <2>1, <2>2, DeleteObjAlways
<1>6. CASE create_fail(t)
    <2> DEFINE u == reg[t].obj
    <2>1. /\ task_delete_obj(t, u, "run") /\ ret' = ret /\ pc[t] = "c_fail"
          /\ reg' = [reg EXCEPT ![t].obj = None]
        BY <1>6 DEF create_fail, At
    <2>2. u \in Task
        BY <2>1 DEF TypeInv, LocalsOK, CreatePc
    <2> HIDE DEF u
    <2> QED BY <1>0, <1>2, <2>1, <2>2, DeleteObjAlways
<1> QED BY <1>3, <1>4, <1>5, <1>6

(* The fields of a new TCB. *)
LEMMA NewTcbOrderly ==
    ASSUME NEW s \in Scheduler, NEW u \in Task, NEW p \in Prio, Orderly(s),
           s.state[u] = "UNUSED",
           NEW e, e = InitTcb(s, u, p)
    PROVE  /\ Orderly(e)
           /\ TcbFrame(s, e) /\ e.current = s.current
           /\ e.state[u] = "READY" /\ e.wq = s.wq
           /\ \A x \in Task \ {u} : SameTask(s, e, x)
<1>1. /\ e.ready = s.ready /\ e.wq = s.wq /\ e.deleted = s.deleted /\ e.timeout = s.timeout
      /\ e.state[u] = "READY"
      /\ \A x \in Task \ {u} : /\ e.state[x] = s.state[x] /\ e.prio[x] = s.prio[x]
                               /\ e.timer[x] = s.timer[x] /\ e.wres[x] = s.wres[x]
      /\ TcbFrame(s, e) /\ e.current = s.current
    BY DEF InitTcb, Scheduler, TcbFrame
<1>2. ~OnWaitQ(s, u) /\ ~Contains(s.deleted, u)
    BY DEF Orderly, Seat, OnWaitQ
<1>3. Orderly(e)
    BY <1>1, <1>2, FieldsOrderly
<1> QED BY <1>1, <1>3 DEF SameTask

(* A new TCB is initialised. *)
LEMMA CreateAlways ==
    ASSUME TypeInv, AlwaysInv, NEW t \in Task, NEW p \in CreatePrio, task_create(t, p)
    PROVE  Advances
<1> USE DEF taskvars, history
<1>0. PICK u \in FreeSlots : /\ k' = InitTcb(k, u, p)
                             /\ reg' = [reg EXCEPT ![t].obj = u]
    BY DEF task_create
<1>1. /\ Call(t, "create") /\ boot' = boot /\ ret' = ret /\ Goto(t, "c_link")
    BY DEF task_create
<1>2. /\ Runs(t) /\ t # Idle /\ k \in Scheduler /\ k.state[t] = "RUNNING" /\ Orderly(k)
    BY <1>1, CallAlways
<1>3. u \in Task /\ u # Idle /\ k.state[u] = "UNUSED" /\ u # t /\ p \in Prio
    BY <1>2, KernelAssumption DEF FreeSlots
<1>4. /\ Orderly(k') /\ TcbFrame(k, k') /\ k'.current = k.current /\ k'.state[u] = "READY"
      /\ \A x \in Task \ {u} : SameTask(k, k', x)
    BY <1>0, <1>2, <1>3, NewTcbOrderly
<1>5. \A x \in Task : Tame(k, k', x)
    BY <1>3, <1>4, SameTame DEF Tame
<1>6. /\ k'.state[t] = "RUNNING" /\ k'.idle = k.idle /\ k'.started = k.started
      /\ k.state[t] # "DELETED"
    BY <1>2, <1>3, <1>4 DEF SameTask, TcbFrame
<1>7. Moves(t, "c_link")
    BY <1>0, <1>1, RegMoves
<1>8. "c_link" \notin YieldPc \cup LinkPc
    BY DEF YieldPc, LinkPc
<1> QED BY <1>1, <1>2, <1>4, <1>5, <1>6, <1>7, <1>8, RunningTame

(* The rest of task_create.  The TCB may have been freed meanwhile, or be  *)
(* another task's.                                                         *)
LEMMA CreateStepAlways ==
    ASSUME TypeInv, AlwaysInv, NEW t \in Task, task_create_step(t)
    PROVE  Advances
<1> USE DEF taskvars, history
<1>1. CASE create_fail(t)
    BY <1>1, DeleteAlways
<1>2. CASE ~create_fail(t)
    <2>0. /\ Runs(t) /\ pc[t] \in CreatePc /\ boot' = boot /\ ret' = ret
        BY <1>2 DEF task_create_step, create_link, mask_load, mask_store, count_load,
                    count_store, create_handle, create_set_handle, At, CreatePc
    <2>1. /\ k \in Scheduler /\ RunsAt(t) /\ Orderly(k) /\ t = k.current
          /\ (t = Idle => pc[t] \in IdlePc)
        BY <2>0, AlwaysFacts
    <2>2. k.state[t] = "RUNNING" /\ t # Idle
        BY <2>0, <2>1 DEF RunsAt, LinkPc, IdlePc, CreatePc
    <2>3. CASE create_link(t) /\ ~EnqueueRefused(k, reg[t].obj)
        <3> DEFINE u == reg[t].obj
        <3>1. k' = ready_link(k, u) /\ Goto(t, "c_load") /\ reg' = reg /\ ~EnqueueRefused(k, u)
            BY <2>3 DEF create_link
        <3>2. u \in Task
            BY <2>0 DEF TypeInv, LocalsOK
        <3> HIDE DEF u
        <3>3. /\ Orderly(k') /\ Frame(k, k') /\ k'.state = k.state /\ k'.wres = k.wres
              /\ k'.wq = k.wq /\ k'.deleted = k.deleted
            BY <2>1, <3>1, <3>2, EnqueueOrderly
        <3>4. \A x \in Task : Tame(k, k', x)
            BY <3>3 DEF Tame, Kept, OnWaitQ
        <3>5. Moves(t, "c_load") /\ "c_load" \notin YieldPc \cup LinkPc
            BY <3>1, RegMoves DEF YieldPc, LinkPc
        <3>6. /\ k'.current = k.current /\ k'.idle = k.idle /\ k'.started = k.started
              /\ k.state[t] # "DELETED" /\ k'.state[t] = "RUNNING"
            BY <2>2, <3>3 DEF Frame
        <3> QED BY <2>0, <2>2, <3>3, <3>4, <3>5, <3>6, RunningTame
    <2>4. CASE ~(create_link(t) /\ ~EnqueueRefused(k, reg[t].obj))
        <3>1. k' = k \/ k' = [k EXCEPT !.mask = reg[t].mask \cup {k.prio[reg[t].obj]}]
            BY <1>2, <2>4 DEF task_create_step, create_link, mask_load, mask_store, count_load,
                              count_store, create_handle, create_set_handle
        <3>2. Quiet(k, k') /\ k'.lock = k.lock
            BY <2>1, <3>1 DEF Quiet, Scheduler
        <3>3. PICK p \in CreatePc \cup {"run"} :
                  /\ Goto(t, p)
                  /\ \/ UNCHANGED reg
                     \/ \E l : reg' = [reg EXCEPT ![t].mask = l]
                     \/ \E l : reg' = [reg EXCEPT ![t].count = l]
                     \/ \E l : reg' = [reg EXCEPT ![t].h = l]
                     \/ \E l : reg' = [reg EXCEPT ![t] = l]
            BY <1>2, <2>4 DEF task_create_step, create_link, mask_load, mask_store, count_load,
                              count_store, create_handle, create_set_handle, CreatePc
        <3>4. Moves(t, p)
            BY <3>3, RegMoves
        <3>5. p \notin YieldPc \cup LinkPc \cup {"sl_loop", "sl_crit", "wq_ret", "y_chk", "ecall"}
            BY <3>3, Places DEF YieldPc
        <3> QED BY <2>0, <2>2, <3>2, <3>4, <3>5, QuietStep
    <2> QED BY <2>3, <2>4
<1> QED BY <1>1, <1>2

-----------------------------------------------------------------------------
(* The idle task. *)

(* task_cleanup_deleted takes a TCB off the deleted list. *)
LEMMA PopDeletedOrderly ==
    ASSUME NEW s \in Scheduler, Orderly(s), s.deleted # <<>>,
           NEW e, e = PopDeleted(s), NEW u, u = Head(s.deleted)
    PROVE  /\ Orderly(e) /\ Frame(s, e) /\ e.state = s.state
           /\ u \in Task /\ s.state[u] = "DELETED" /\ ~Contains(e.deleted, u)
           /\ \A x \in Task : Tame(s, e, x)
<1> DEFINE l == Tail(s.deleted)
<1>1. /\ u \in Task /\ Contains(s.deleted, u)
      /\ Distinct(l) /\ ~Contains(l, u)
      /\ \A x : x # u => (Contains(l, x) <=> Contains(s.deleted, x))
    <2>1. s.deleted \in Seq(Task) /\ Distinct(s.deleted)
        BY DEF Scheduler, Orderly, NoRepeats
    <2> QED BY <2>1, TailShape
<1>2. Seat(s, u) /\ s.state[u] = "DELETED"
    BY <1>1 DEF Orderly, Seat
<1>3. /\ e.deleted = l
      /\ e.ready = s.ready /\ e.wq = s.wq /\ e.timeout = s.timeout
      /\ e.state = s.state /\ e.timer = s.timer /\ e.wres = s.wres
      /\ Frame(s, e)
    BY DEF PopDeleted, Scheduler, Frame
<1> HIDE DEF l
<1>4. NoRepeats(e) /\ QueuesFall(e)
    BY <1>1, <1>3 DEF Orderly, NoRepeats, QueuesFall, Frame
<1>5. \A x \in Task \ {u} : SameTask(s, e, x)
    BY <1>1, <1>3 DEF SameTask, Frame
<1>6. Seat(e, u)
    BY <1>1, <1>2, <1>3 DEF Seat, OnReady
<1>7. Orderly(e)
    BY <1>1, <1>4, <1>5, <1>6, OneSeat
<1>8. Tame(s, e, u)
    BY <1>1, <1>3 DEF Tame, Kept, OnWaitQ
<1>9. \A x \in Task : Tame(s, e, x)
    BY <1>5, <1>8, SameTame
<1> QED BY <1>1, <1>2, <1>3, <1>7, <1>9

(* It frees it. *)
LEMMA FreedOrderly ==
    ASSUME NEW s \in Scheduler, NEW u \in Task, Orderly(s),
           s.state[u] = "DELETED", ~Contains(s.deleted, u),
           NEW e, e = Freed(s, u)
    PROVE  /\ Orderly(e)
           /\ TcbFrame(s, e) /\ e.current = s.current
           /\ e.state[u] = "UNUSED"
           /\ \A x \in Task \ {u} : SameTask(s, e, x)
<1>1. /\ e.ready = s.ready /\ e.wq = s.wq /\ e.deleted = s.deleted /\ e.timeout = s.timeout
      /\ e.state[u] = "UNUSED"
      /\ \A x \in Task \ {u} : /\ e.state[x] = s.state[x] /\ e.prio[x] = s.prio[x]
                               /\ e.timer[x] = s.timer[x] /\ e.wres[x] = s.wres[x]
      /\ TcbFrame(s, e) /\ e.current = s.current
    BY DEF Freed, Scheduler, TcbFrame
<1>2. ~OnWaitQ(s, u)
    BY DEF Orderly, Seat, OnWaitQ
<1>3. Orderly(e)
    BY <1>1, <1>2, FieldsOrderly
<1> QED BY <1>1, <1>3 DEF SameTask

(* idle_task *)
LEMMA IdleAlways ==
    ASSUME TypeInv, AlwaysInv, idle_step
    PROVE  Advances
<1> USE DEF taskvars, history
<1>0. /\ Runs(Idle) /\ pc[Idle] \in {"i_clean", "i_free", "i_en"} /\ Idle \in Task
      /\ boot' = boot /\ trap' = trap
    BY SchedAssumption DEF idle_step, cleanup_pop, cleanup_free, idle_enable, At
<1>1. /\ Idle = k.current /\ k \in Scheduler /\ RunsAt(Idle) /\ LockedAt(Idle)
      /\ Orderly(k) /\ trap = "none" /\ k.started /\ boot = "done" /\ k.idle = Idle
    BY <1>0, AlwaysFacts
<1>2. k.state[Idle] = "RUNNING" /\ ~(k.lock > 0)
    BY <1>0, <1>1 DEF RunsAt, LinkPc, LockedAt
<1>3. \A p \in IdlePc : p \notin YieldPc \cup LinkPc \cup {"wq_ret"}
    BY Places
<1>4. ASSUME NEW p \in {"i_en", "i_wfi"}, k' = k, Goto(Idle, p), reg' = reg, ret' = ret
      PROVE  Advances
    <2>1. Moves(Idle, p) /\ pc'[Idle] = p
        BY <1>0, <1>4, RegMoves DEF Moves
    <2>2. FreeOK' /\ Quiet(k, k') /\ p \in IdlePc
        BY <1>4, <2>1 DEF FreeOK, Quiet, IdlePc
    <2> QED BY <1>0, <1>2, <1>3, <1>4, <2>1, <2>2, QuietStep
<1>5. CASE idle_enable
    BY <1>4, <1>5 DEF idle_enable
<1>6. CASE cleanup_pop
    <2>1. CASE k.deleted = <<>>
        BY <1>4, <1>6, <2>1 DEF cleanup_pop
    <2>2. CASE k.deleted # <<>>
        <3> DEFINE u == Head(k.deleted)
        <3>1. /\ k' = PopDeleted(k) /\ Goto(Idle, "i_free") /\ ret' = ret
              /\ reg' = [reg EXCEPT ![Idle].obj = u]
            BY <1>6, <2>2 DEF cleanup_pop, PopDeleted
        <3>2. /\ Orderly(k') /\ Frame(k, k') /\ k'.state = k.state
              /\ k.state[u] = "DELETED" /\ ~Contains(k'.deleted, u)
              /\ \A x \in Task : Tame(k, k', x)
            BY <1>1, <2>2, <3>1, PopDeletedOrderly
        <3>3. Moves(Idle, "i_free") /\ pc'[Idle] = "i_free" /\ reg'[Idle].obj = u
            <4>1. Moves(Idle, "i_free")
                BY <1>0, <3>1, RegMoves
            <4> QED BY <1>0, <3>1, <4>1 DEF Moves, TypeInv, TypeOK, Locals
        <3> HIDE DEF u
        <3>4. FreeOK' /\ "i_free" \in IdlePc
            BY <1>2, <3>2, <3>3 DEF FreeOK, IdlePc
        <3>5. /\ k'.current = k.current /\ k'.idle = k.idle /\ k'.started = k.started
              /\ k.state[Idle] # "DELETED" /\ k'.state[Idle] = "RUNNING" /\ ~(k'.lock > 0)
            BY <1>2, <3>2 DEF Frame
        <3> QED BY <1>0, <1>3, <3>1, <3>2, <3>3, <3>4, <3>5, RunningTame
    <2> QED BY <2>1, <2>2
<1>7. CASE cleanup_free
    <2> DEFINE u == reg[Idle].obj
    <2>1. /\ k' = Freed(k, u) /\ pc[Idle] = "i_free"
          /\ pc' = [pc EXCEPT ![Idle] = "i_clean", ![u] = "run"]
          /\ ret' = [ret EXCEPT ![u] = "run"]
        BY <1>7 DEF cleanup_free, At, Freed
    <2>2. /\ u # Idle /\ k.state[u] = "DELETED" /\ ~Contains(k.deleted, u) /\ u \in Task
        BY <2>1, SchedAssumption DEF AlwaysInv, FreeOK, TypeInv, LocalsOK
    <2> HIDE DEF u
    <2>3. /\ Orderly(k') /\ TcbFrame(k, k') /\ k'.state[u] = "UNUSED" /\ k'.current = k.current
          /\ \A x \in Task \ {u} : SameTask(k, k', x)
        BY <1>1, <2>1, <2>2, FreedOrderly
    <2>4. /\ pc'[Idle] = "i_clean" /\ pc'[u] = "run"
          /\ \A x \in Task \ {Idle, u} : pc'[x] = pc[x]
          /\ \A x \in Task \ {u} : ret'[x] = ret[x]
        BY <1>0, <2>1, <2>2 DEF TypeInv, TypeOK
    <2>5. /\ k'.state[Idle] = "RUNNING" /\ ~(k'.lock > 0)
          /\ k'.idle = Idle /\ k'.started
        BY <1>0, <1>1, <1>2, <2>2, <2>3 DEF SameTask, TcbFrame
    <2>6. BootOK'
        BY <1>0, <1>1, <2>3, <2>4, <2>5 DEF BootOK, IdlePc
    <2>7. FreeOK' /\ LockOK' /\ EarlyOK'
        BY <1>0, <1>1, <2>4, <2>5 DEF FreeOK, LockOK, EarlyOK
    <2>8. \A x \in Task : Runs(x)' => RunsAt(x)'
        BY <1>1, <2>3, <2>5 DEF Runs, RunsAt
    <2>9. ASSUME NEW x \in Task PROVE WaitAt(x)' /\ UnusedAt(x)'
        <3>1. CASE x \in {Idle, u}
            BY <2>4, <2>5, <3>1 DEF WaitAt, UnusedAt, InWait, YieldPc
        <3>2. CASE x \notin {Idle, u}
            <4>1. Tame(k, k', x) /\ pc'[x] = pc[x] /\ ret'[x] = ret[x]
                BY <2>3, <2>4, <3>2, SameTame
            <4> QED BY <4>1, TameOther DEF AlwaysInv
        <3> QED BY <3>1, <3>2
    <2>10. \A x \in Task : Tame(k, k', x) \/ k.state[x] = "DELETED"
        BY <2>2, <2>3, SameTame
    <2> QED BY <2>3, <2>6, <2>7, <2>8, <2>9, <2>10 DEF AlwaysInv, Advances
<1> QED BY <1>5, <1>6, <1>7 DEF idle_step

-----------------------------------------------------------------------------
(* Boot and traps. *)

(* Sound lists on which nobody waits. *)
LEMMA SoundOrderly ==
    ASSUME NEW s \in Scheduler, NEW U, NEW B, Sound(s, U, B), \A q \in WaitQ : s.wq[q] = <<>>
    PROVE  Orderly(s)
<1>1. \A q \in WaitQ : \A t : ~Contains(s.wq[q], t)
    BY DEF Contains
<1>2. QueuesFall(s)
    BY DEF QueuesFall, Falling
<1>3. \A t \in Task : Seat(s, t)
    BY <1>1 DEF Sound, Placed, Seat, OnReady
<1> QED BY <1>2, <1>3 DEF Orderly, Sound

(* Nobody waits before the first task is entered. *)
LEMMA BootNoWaiter ==
    ASSUME TypeInv, ListInv, EarlyOK, Boot
    PROVE  \A q \in WaitQ : k'.wq[q] = <<>>
<1>0. k \in Scheduler /\ (boot # "done" => \A q \in WaitQ : k.wq[q] = <<>>)
    BY DEF TypeInv, TypeOK, EarlyOK
<1>1. ASSUME NEW u \in Task, NEW p \in Prio, NEW b, b = sched_ready_enqueue(InitTcb(k, u, p), u)
      PROVE  b.wq = k.wq
    BY <1>0, <1>1 DEF sched_ready_enqueue, ready_link, InitTcb, Scheduler
<1>2. CASE kernel_init
    <2> DEFINE b == sched_ready_enqueue(InitTcb(k, Idle, 0), Idle)
    <2>1. k' = WithIdle(b) /\ boot = "kernel_init"
        BY <1>2 DEF kernel_init, WithIdle
    <2>2. b.wq = k.wq /\ b \in Scheduler
        <3>1. 0 \in Prio /\ Idle \in Task
            BY SchedAssumption DEF Prio
        <3> QED BY <1>0, <1>1, <3>1, InitTcbType, EnqueueType
    <2> HIDE DEF b
    <2>3. k'.wq = b.wq
        BY <2>1, <2>2 DEF WithIdle, Scheduler
    <2> QED BY <1>0, <2>1, <2>2, <2>3
<1>3. ASSUME NEW p \in CreatePrio, app_main_create(p) PROVE \A q \in WaitQ : k'.wq[q] = <<>>
    <2>0. PICK u \in FreeSlots :
             LET s == sched_ready_enqueue(InitTcb(k, u, p), u)
             IN k' = s \/ k' = sched_mark_deleted(s, u)
        BY <1>3 DEF app_main_create
    <2> DEFINE b == sched_ready_enqueue(InitTcb(k, u, p), u)
    <2>1. /\ k' = b \/ k' = sched_mark_deleted(b, u)
          /\ boot = "app_main"
        BY <1>3, <2>0 DEF app_main_create
    <2>2. k \in Scheduler /\ k.idle = Idle /\ Sound(k, {Idle}, {})
        BY <2>1, BeforeStart
    <2>3. u \in Task /\ u # Idle /\ k.state[u] = "UNUSED" /\ p \in Prio
        BY KernelAssumption DEF FreeSlots
    <2>4. b \in Scheduler /\ Sound(b, {Idle}, {}) /\ b.state[u] = "READY" /\ b.idle = k.idle
        BY <2>2, <2>3, NewQueued
    <2>5. b.wq = k.wq
        BY <1>1, <2>3
    <2> HIDE DEF b
    <2>6. \A q \in WaitQ : b.wq[q] = <<>>
        BY <1>0, <2>1, <2>5
    <2>7. Orderly(b)
        BY <2>4, <2>6, SoundOrderly
    <2>8. CASE k' = sched_mark_deleted(b, u)
        <3>1. u # b.idle /\ b.state[u] # "DELETED"
            BY <2>2, <2>3, <2>4
        <3>2. NoNewWaiter(b, k')
            BY <2>3, <2>4, <2>7, <2>8, <3>1, MarkOrderly
        <3> QED BY <2>6, <3>2 DEF NoNewWaiter
    <2> QED BY <2>1, <2>6, <2>8
<1>4. CASE app_main_object
    <2>1. k' = k /\ boot = "app_main"
        BY <1>4 DEF app_main_object
    <2> QED BY <1>0, <2>1
<1>5. CASE rtos_start
    <2> DEFINE e == sched_pick_next(k)
    <2>1. boot = "app_main" /\ k' = Started(e)
        BY <1>5 DEF rtos_start, Started
    <2>2. /\ k.idle = Idle /\ k.state[Idle] \in {"READY", "RUNNING"} /\ Sound(k, {Idle}, {})
        BY <2>1, BeforeStart
    <2>3. e \in Scheduler /\ Picked(k, e)
        BY <1>0, <2>2, PickNextType, PickNextSound
    <2> HIDE DEF e
    <2>4. k'.wq = e.wq /\ e.wq = k.wq
        BY <2>1, <2>3 DEF Started, Scheduler, Picked, SwitchFrame
    <2> QED BY <1>0, <2>1, <2>4
<1> QED BY <1>2, <1>3, <1>4, <1>5 DEF Boot

(* kernel_init, app_main and rtos_start. *)
LEMMA BootAlways ==
    ASSUME TypeInv, TypeInv', ListsOK, AlwaysInv, Boot
    PROVE  AlwaysInv'
<1> USE DEF taskvars, history
<1>1. /\ boot # "done" /\ fault' = fault /\ boot \in {"kernel_init", "app_main"}
      /\ pc' = pc \/ (pc' = [pc EXCEPT ![Idle] = "i_clean"])
      /\ boot' # "kernel_init"
    BY DEF Boot, kernel_init, app_main_create, app_main_object, rtos_start
<1>2. fault = {} /\ ListInv /\ EarlyOK
    BY <1>1 DEF AlwaysInv, EarlyOK, ListsOK
<1>3. ListInv'
    BY <1>2, BootInv
<1>4. \A q \in WaitQ : k'.wq[q] = <<>>
    BY <1>2, BootNoWaiter
<1>5. Orderly(k')
    <2>1. k' \in Scheduler /\ Sound(k', Unlinked', BitUnderway')
        BY <1>3 DEF ListInv, TypeInv, TypeOK
    <2> QED BY <1>4, <2>1, SoundOrderly
<1>6. BootOK' /\ FreeOK' /\ LockOK' /\ CurrentOK'
    BY <1>3 DEF ListInv
<1>7. EarlyOK'
    BY <1>1, <1>2, <1>4 DEF EarlyOK
<1>8. \A t \in Task : Runs(t)' => RunsAt(t)'
    BY <1>6 DEF CurrentOK, Runs, RunsAt, StateAt
<1>9. ASSUME NEW t \in Task PROVE WaitAt(t)' /\ UnusedAt(t)'
    <2>1. \A x \in Task \ {Idle} : pc[x] = "run"
        BY <1>1 DEF AlwaysInv, BootOK
    <2>2. CASE t = Idle
        <3>1. pc'[t] \in IdlePc /\ k'.state[t] \in {"READY", "RUNNING"}
            BY <1>1, <1>6, <2>2 DEF BootOK
        <3>2. ~InWait(t)'
            BY <3>1, Places DEF InWait
        <3> QED BY <3>1, <3>2 DEF WaitAt, UnusedAt
    <2>3. CASE t # Idle
        <3>1. pc'[t] = "run"
            BY <1>1, <2>1, <2>3 DEF TypeInv, TypeOK
        <3> QED BY <3>1 DEF WaitAt, UnusedAt, InWait, YieldPc
    <2> QED BY <2>2, <2>3
<1> QED BY <1>5, <1>6, <1>7, <1>8, <1>9 DEF AlwaysInv

(* While a trap is taken or handled. *)
LEMMA TrapAlways ==
    ASSUME TypeInv, AlwaysInv, k.started, boot' = boot, trap' # "none", reg' = reg, ret' = ret,
           pc' = pc \/ (pc[k.current] = "i_wfi" /\ pc' = [pc EXCEPT ![k.current] = "i_clean"]),
           Orderly(k'), Frame(k, k'), \A x \in Task : Tame(k, k', x),
           \A x \in Task : k.state[x] # "BLOCKED" => k'.state[x] = k.state[x]
    PROVE  Advances
<1>1. /\ boot = "done" /\ k.idle = Idle /\ k.state[Idle] \in {"READY", "RUNNING"}
      /\ pc[Idle] \in IdlePc /\ k.current \in Task /\ k.state[k.current] # "UNUSED"
    BY DEF AlwaysInv, BootOK
<1>2. k'.current = k.current /\ k'.idle = k.idle /\ k'.started = k.started /\ k'.lock = k.lock
    BY DEF Frame
<1>3. \A t \in Task : pc'[t] = pc[t] \/ (pc[t] = "i_wfi" /\ pc'[t] = "i_clean")
    BY <1>1 DEF TypeInv, TypeOK
<1>4. BootOK'
    <2>1. pc'[Idle] \in IdlePc /\ k'.state[Idle] \in {"READY", "RUNNING"}
        BY <1>1, <1>3, SchedAssumption DEF IdlePc
    <2>2. k'.state[k'.current] # "UNUSED"
        BY <1>1, <1>2 DEF Tame, Kept, Turned
    <2> QED BY <1>1, <1>2, <2>1, <2>2 DEF BootOK
<1>5. FreeOK'
    <2>1. CASE pc'[Idle] = pc[Idle]
        BY <2>1, TameFree DEF AlwaysInv
    <2>2. CASE pc'[Idle] = "i_clean"
        BY <2>2 DEF FreeOK
    <2> QED BY <1>3, <2>1, <2>2, SchedAssumption
<1>6. LockOK'
    <2> SUFFICES ASSUME k.lock > 0 PROVE LockOK'
        BY <1>2 DEF LockOK
    <2>1. /\ k.current # Idle
          /\ k.state[k.current] = "RUNNING"
          /\ pc[k.current] \notin LinkPc \cup {"sl_loop", "sl_crit"}
          /\ pc[k.current] \in {"y_chk", "ecall"} => ret[k.current] # "sl_loop"
        BY DEF AlwaysInv, LockOK
    <2>2. k'.state[k.current] = "RUNNING"
        BY <1>1, <2>1
    <2> QED BY <1>1, <1>2, <1>3, <2>1, <2>2 DEF LockOK, LinkPc
<1>7. EarlyOK' /\ \A t \in Task : ~Runs(t)'
    BY <1>1 DEF EarlyOK, Runs
<1>8. ASSUME NEW t \in Task PROVE WaitAt(t)' /\ UnusedAt(t)'
    <2>1. CASE pc'[t] = pc[t]
        BY <2>1, TameOther DEF AlwaysInv
    <2>2. CASE pc[t] = "i_wfi" /\ pc'[t] = "i_clean"
        <3>1. WaitAt(t)'
            BY <2>2 DEF WaitAt, InWait, YieldPc
        <3>2. k.state[t] # "UNUSED"
            BY <2>2 DEF AlwaysInv, UnusedAt
        <3>3. k'.state[t] # "UNUSED"
            BY <3>2 DEF Tame, Kept, Turned
        <3> QED BY <3>1, <3>3 DEF UnusedAt
    <2> QED BY <1>3, <2>1, <2>2
<1> QED BY <1>2, <1>4, <1>5, <1>6, <1>7, <1>8 DEF AlwaysInv, Advances

(* An interrupt, and the wake-ups in the trap. *)
LEMMA InterruptAlways ==
    ASSUME TypeInv, AlwaysInv, Systick \/ Irq \/ sched_wake_expired
    PROVE  Advances
<1> USE DEF taskvars, history
<1>1. k \in Scheduler /\ Orderly(k) /\ Frame(k, k) /\ \A x \in Task : Tame(k, k, x)
    BY DEF AlwaysInv, TypeInv, TypeOK, Frame, Tame, Kept
<1>2. CASE Systick \/ Irq
    <2>1. /\ Interrupted /\ boot' = boot /\ trap' # "none" /\ reg' = reg /\ ret' = ret
          /\ \/ k' = k
             \/ \E q \in WaitQ : k' = trt_wait_q_wake_one_from_isr(k, q)
        BY <1>2 DEF Systick, SysTick, Irq
    <2>2. /\ k.started
          /\ pc' = pc \/ (pc[k.current] = "i_wfi" /\ pc' = [pc EXCEPT ![k.current] = "i_clean"])
        BY <2>1 DEF Interrupted, CanInterrupt
    <2>3. /\ Orderly(k') /\ Frame(k, k') /\ \A x \in Task : Tame(k, k', x)
          /\ \A x \in Task : k.state[x] # "BLOCKED" => k'.state[x] = k.state[x]
        <3>1. CASE k' = k
            BY <1>1, <3>1
        <3>2. ASSUME NEW q \in WaitQ, k' = trt_wait_q_wake_one_from_isr(k, q)
              PROVE  /\ Orderly(k') /\ Frame(k, k') /\ \A x \in Task : Tame(k, k', x)
                     /\ \A x \in Task : k.state[x] # "BLOCKED" => k'.state[x] = k.state[x]
            <4>1. "OBJECT" \in WaitResult \ {"NONE"}
                BY DEF WaitResult
            <4> QED BY <1>1, <3>2, <4>1, WakeOrderly
        <3> QED BY <2>1, <3>1, <3>2
    <2> QED BY <2>1, <2>2, <2>3, TrapAlways
<1>3. CASE sched_wake_expired
    <2>1. /\ trap' # "none" /\ boot' = boot /\ reg' = reg /\ ret' = ret /\ pc' = pc
          /\ k.timeout # <<>> /\ k' = sched_wake_expired_one(k) /\ trap # "none"
        BY <1>3 DEF sched_wake_expired, HeadExpired
    <2>2. k.started
        BY <2>1 DEF AlwaysInv, BootOK
    <2>3. /\ Orderly(k') /\ Frame(k, k') /\ \A x \in Task : Tame(k, k', x)
          /\ \A x \in Task : k.state[x] # "BLOCKED" => k'.state[x] = k.state[x]
        BY <1>1, <2>1, ExpiredOrderly
    <2> QED BY <2>1, <2>2, <2>3, TrapAlways
<1> QED BY <1>2, <1>3

(* The switch at the end of a trap. *)
LEMMA TrapChosen ==
    ASSUME TypeInv, AlwaysInv, TrapReturn
    PROVE  /\ k.started /\ boot = "done" /\ TurnReady(k)
           /\ Chosen(k, k')
<1>1. trap # "none" /\ k' = SwitchedFromTrap
    BY DEF TrapReturn
<1>2. /\ k.started /\ boot = "done" /\ k.current \in Task /\ k.idle = Idle
      /\ k.state[Idle] \in {"READY", "RUNNING"} /\ k \in Scheduler /\ Orderly(k)
      /\ k.state[k.current] # "UNUSED"
    BY <1>1 DEF AlwaysInv, BootOK, TypeInv, TypeOK
<1>3. TurnReady(k)
    BY <1>2 DEF TurnReady, TrapReady, AlwaysInv, LockOK
<1> QED BY <1>1, <1>2, <1>3, TrapTurn

(* The rest of do_trap. *)
LEMMA TrapReturnAlways ==
    ASSUME TypeInv, AlwaysInv, TrapReturn
    PROVE  AlwaysInv'
<1> USE DEF taskvars, history
<1>1. /\ boot' = boot /\ trap' = "none" /\ reg' = reg /\ ret' = ret /\ pc' = pc
    BY DEF TrapReturn
<1>2. k.started /\ boot = "done" /\ TurnReady(k) /\ Chosen(k, k')
    BY TrapChosen
<1>3. /\ Turn(k, k') /\ k'.current \in Task /\ k'.state[k'.current] # "UNUSED"
      /\ k'.corrupt \/ k'.state[k'.current] = "RUNNING"
      /\ k.lock > 0 => k'.current = k.current /\ k'.state[k'.current] = "RUNNING"
    BY <1>2 DEF Chosen
<1>4. /\ Orderly(k') /\ k'.idle = k.idle /\ k'.started = k.started /\ k'.lock = k.lock
      /\ \A x \in Task : Tame(k, k', x)
    BY <1>3, TurnTame DEF Turn
<1>5. BootOK'
    <2>1. k.idle = Idle /\ k.state[Idle] \in {"READY", "RUNNING"}
        BY <1>2 DEF TurnReady, TrapReady
    <2>2. k'.state[Idle] \in {"READY", "RUNNING"}
        BY <1>3, <2>1, SchedAssumption DEF Turn
    <2> QED BY <1>1, <1>2, <1>3, <1>4, <2>1, <2>2 DEF BootOK, AlwaysInv
<1>6. FreeOK'
    BY <1>1, <1>4, TameFree DEF AlwaysInv
<1>7. LockOK'
    <2> SUFFICES ASSUME k.lock > 0 PROVE LockOK'
        BY <1>4 DEF LockOK
    <2>1. k'.state[k'.current] = "RUNNING" /\ k'.current = k.current
        BY <1>3
    <2> QED BY <1>1, <2>1 DEF LockOK, AlwaysInv
<1>8. EarlyOK'
    BY <1>1, <1>2 DEF EarlyOK
<1>9. \A t \in Task : Runs(t)' => RunsAt(t)'
    BY <1>3 DEF Runs, RunsAt
<1>10. \A t \in Task : WaitAt(t)' /\ UnusedAt(t)'
    BY <1>1, <1>4, TameOther DEF AlwaysInv
<1> QED BY <1>4, <1>5, <1>6, <1>7, <1>8, <1>9, <1>10 DEF AlwaysInv

-----------------------------------------------------------------------------
(* The invariant holds whatever happens. *)

(* It holds initially. *)
LEMMA InitAlways == Init => AlwaysInv
<1> SUFFICES ASSUME Init PROVE AlwaysInv
    OBVIOUS
<1>1. /\ k = sched_init /\ \A t \in Task : pc[t] = "run"
      /\ ~k.started /\ fault = {}
    BY DEF Init, sched_init
<1>2. BootOK /\ FreeOK /\ LockOK
    BY InitLists DEF ListInv
<1>3. \A q \in WaitQ : k.wq[q] = <<>>
    BY <1>1 DEF sched_init
<1>4. Orderly(k)
    BY <1>1, <1>3, InitSound, SoundOrderly
<1>5. EarlyOK /\ \A t \in Task : ~Runs(t)
    BY <1>1, <1>3 DEF EarlyOK, Runs
<1>6. \A t \in Task : WaitAt(t) /\ UnusedAt(t)
    BY <1>1 DEF WaitAt, UnusedAt, InWait, YieldPc
<1> QED BY <1>2, <1>4, <1>5, <1>6 DEF AlwaysInv

(* A step of a task. *)
LEMMA TasksAlways ==
    ASSUME TypeInv, AlwaysInv, NEW t \in Task, AppCall(t) \/ KernelStep(t)
    PROVE  Advances
<1>1. CASE AppCall(t)
    BY <1>1, FlagsAlways, WaitAlways, WakeAlways, DeleteAlways, CreateAlways DEF AppCall
<1>2. CASE KernelStep(t)
    <2>1. CASE task_yield_step(t)
        BY <2>1, YieldCheckAlways, YieldLinkAlways, YieldMaskAlways, ArchYieldAlways
           DEF task_yield_step
    <2> QED BY <1>2, <2>1, SleepAlways, WakeAlways, DeleteAlways, CreateStepAlways, IdleAlways
            DEF KernelStep
<1> QED BY <1>1, <1>2

(* A step of the started kernel. *)
LEMMA RunAlways ==
    ASSUME TypeInv, AlwaysInv, [Next]_vars, ~Boot
    PROVE  /\ AlwaysInv'
           /\ \A x \in Task \ {k.current} : Tame(k, k', x) \/ k.state[x] = "DELETED"
<1>1. ASSUME Advances
      PROVE  /\ AlwaysInv'
             /\ \A x \in Task \ {k.current} : Tame(k, k', x) \/ k.state[x] = "DELETED"
    BY <1>1 DEF Advances
<1>2. ASSUME NEW t \in Task, AppCall(t) \/ KernelStep(t) PROVE Advances
    BY <1>2, TasksAlways
<1>3. CASE Systick \/ Irq \/ sched_wake_expired
    BY <1>1, <1>3, InterruptAlways
<1>4. CASE TrapReturn
    <2>1. \A x \in Task : Tame(k, k', x)
        BY <1>4, TrapChosen, TurnTame DEF Chosen
    <2> QED BY <1>4, <2>1, TrapReturnAlways
<1>5. CASE UNCHANGED vars
    <2>1. /\ k' = k /\ trap' = trap /\ boot' = boot /\ pc' = pc /\ ret' = ret /\ reg' = reg
          /\ fault' = fault
        BY <1>5 DEF vars
    <2>2. BootOK' /\ FreeOK' /\ LockOK' /\ EarlyOK'
        BY <2>1 DEF AlwaysInv, BootOK, FreeOK, LockOK, EarlyOK
    <2>3. \A t \in Task : (Runs(t)' => RunsAt(t)') /\ WaitAt(t)' /\ UnusedAt(t)'
        BY <2>1 DEF AlwaysInv, Runs, RunsAt, WaitAt, InWait, UnusedAt
    <2>4. \A x \in Task : Tame(k, k', x)
        BY <2>1 DEF Tame, Kept
    <2> QED BY <2>1, <2>2, <2>3, <2>4 DEF AlwaysInv
<1> QED BY <1>1, <1>2, <1>3, <1>4, <1>5 DEF Next, TrapStep, CorruptLoop

(* Every step keeps it. *)
LEMMA NextAlways ==
    TypeInv /\ ListsOK /\ AlwaysInv /\ TypeInv' /\ [Next]_vars => AlwaysInv'
BY BootAlways, RunAlways

(* The lists stay orderly, the place of a task fits its state and the      *)
(* owner of the scheduler lock runs, even after a trap has hit one of the  *)
(* unprotected windows or a task was deleted amid a task_create.           *)
THEOREM AlwaysCorrect == Spec => [](TypeInv /\ ListsOK /\ AlwaysInv)
<1>1. Init => TypeInv /\ ListsOK /\ AlwaysInv
    BY InitType, InitLists, InitAlways DEF ListsOK
<1>2. TypeInv /\ ListsOK /\ AlwaysInv /\ [Next]_vars => (TypeInv /\ ListsOK /\ AlwaysInv)'
    BY NextType, NextLists, NextAlways
<1> QED BY <1>1, <1>2, PTL DEF Spec

(* A wait ends with a reason (trt_wait_q_block): the task that returns     *)
(* from it has a wait result.                                              *)
THEOREM WaitsEndForAReason == Spec => []WaitReturnsWithReason
<1>1. TypeInv /\ AlwaysInv => WaitReturnsWithReason
    <2> SUFFICES ASSUME TypeInv, AlwaysInv, NEW t \in Task, Runs(t), pc[t] = "wq_ret"
                 PROVE  k.wres[t] # "NONE"
        BY DEF WaitReturnsWithReason
    <2>1. RunsAt(t) /\ WaitAt(t)
        BY DEF AlwaysInv
    <2> QED BY <2>1 DEF RunsAt, WaitAt, InWait, LinkPc
<1> QED BY <1>1, AlwaysCorrect, PTL

(* The CPU is not taken from a task that holds the scheduler locked. *)
LEMMA LockHolds ==
    ASSUME TypeInv, AlwaysInv, [Next]_vars, k.lock > 0
    PROVE  k'.current = k.current
<1>1. CASE Boot
    <2>1. boot # "done"
        BY <1>1 DEF Boot, kernel_init, app_main_create, app_main_object, rtos_start
    <2> QED BY <2>1 DEF AlwaysInv, BootOK
<1>2. ASSUME NEW t \in Task, AppCall(t) \/ KernelStep(t) PROVE k'.current = k.current
    BY <1>2, TasksAlways DEF Advances
<1>3. CASE Systick \/ Irq \/ sched_wake_expired
    BY <1>3, InterruptAlways DEF Advances
<1>4. CASE TrapReturn
    BY <1>4, TrapChosen DEF Chosen
<1>5. CASE UNCHANGED vars
    BY <1>5 DEF vars
<1> QED BY <1>1, <1>2, <1>3, <1>4, <1>5 DEF Next, TrapStep, CorruptLoop

(* sched_lock keeps the CPU until sched_unlock, whatever traps come. *)
THEOREM LockKeepsCpu == Spec => LockedKeepsCpu
<1>1. TypeInv /\ AlwaysInv /\ [Next]_vars => [k.lock > 0 => k'.current = k.current]_vars
    BY LockHolds
<1> QED BY <1>1, AlwaysCorrect, PTL DEF Spec, LockedKeepsCpu

-----------------------------------------------------------------------------
(* The deferred switch.  A wanted switch is remembered: the flag is set    *)
(* while the scheduler is locked; without the lock the switch is on its    *)
(* way.                                                                    *)
OwedInv ==
    owed => /\ boot = "done"
            /\ \/ k.lock > 0 /\ k.pending
               \/ k.lock = 0 /\ (trap # "none" \/ pc[k.current] \in YieldPc)

(* A step of a task is a step of the one that runs. *)
LEMMA StepRuns ==
    ASSUME NEW t \in Task, AppCall(t) \/ KernelStep(t)
    PROVE  Runs(t)
<1>1. CASE AppCall(t)
    BY <1>1 DEF AppCall, task_yield, task_sleep, sched_lock, sched_unlock, trt_wait_q_block,
        trt_wait_q_block_ticks, trt_wait_q_wake_one, trt_wait_q_wake_all, task_delete,
        task_exit, task_create, Call, At
<1>2. CASE KernelStep(t)
    BY <1>2 DEF KernelStep, task_yield_step, yield_check, yield_link, mask_load,
        mask_store, arch_yield, sleep_loop, sleep_block, wait_return, wake_all_round,
        task_delete_found, task_create_step, create_link, count_load, count_store,
        create_handle, create_set_handle, create_fail, idle_step, cleanup_pop,
        cleanup_free, idle_enable, At
<1> QED BY <1>1, <1>2

(* A task in task_yield continues there. *)
LEMMA YieldingSteps ==
    ASSUME NEW t \in Task, AppCall(t) \/ KernelStep(t), pc[t] \in YieldPc
    PROVE  task_yield_step(t)
<1>1. CASE AppCall(t)
    BY <1>1 DEF AppCall, task_yield, task_sleep, sched_lock, sched_unlock, trt_wait_q_block,
        trt_wait_q_block_ticks, trt_wait_q_wake_one, trt_wait_q_wake_all, task_delete,
        task_exit, task_create, Call, At, YieldPc
<1>2. CASE KernelStep(t)
    BY <1>2 DEF KernelStep, mask_load, mask_store, sleep_loop, sleep_block, wait_return,
        wake_all_round, task_delete_found, task_create_step, create_link, count_load,
        count_store, create_handle, create_set_handle, create_fail, idle_step, cleanup_pop,
        cleanup_free, idle_enable, At, YieldPc
<1> QED BY <1>1, <1>2

(* No operator of the scheduler forgets a request to reschedule. *)
Asked(s, r) == r.lock = s.lock /\ (s.pending => r.pending)

(* The list primitives do not. *)
LEMMA AskedLists ==
    ASSUME NEW s \in Scheduler, NEW t \in Task
    PROVE  /\ Asked(s, StateListDel(s, t))
           /\ Asked(s, sched_ready_remove(s, t))
           /\ Asked(s, sched_timeout_remove(s, t))
           /\ Asked(s, sched_timeout_insert(s, t))
           /\ Asked(s, ready_link(s, t))
           /\ Asked(s, sched_ready_enqueue(s, t))
BY DEF Scheduler, Asked, StateListDel, sched_ready_remove, sched_timeout_remove,
       sched_timeout_insert, ready_link, sched_ready_enqueue

(* Nor does sched_mark_deleted. *)
LEMMA AskedMark ==
    ASSUME NEW s \in Scheduler, NEW t \in Task
    PROVE  Asked(s, sched_mark_deleted(s, t))
BY DEF Scheduler, Asked, StateListDel, sched_ready_remove, sched_timeout_remove,
       sched_mark_deleted

(* Nor does a wake-up. *)
LEMMA AskedWake ==
    ASSUME NEW s \in Scheduler, NEW q \in WaitQ, NEW result
    PROVE  /\ Asked(s, trt_wait_q_wake_one_result_locked(s, q, result))
           /\ Asked(s, trt_wait_q_wake_one_from_isr(s, q))
BY DEF Scheduler, Asked, trt_wait_q_wake_one_result_locked, trt_wait_q_wake_one_from_isr,
       trt_wait_q_wake_one_locked, sched_wake_one, sched_timeout_remove, sched_ready_enqueue,
       ready_link, sched_set_pending

(* Nor does a round of sched_wake_expired. *)
LEMMA AskedExpired ==
    ASSUME NEW s \in Scheduler
    PROVE  Asked(s, sched_wake_expired_one(s))
BY DEF Scheduler, Asked, sched_wake_expired_one, StateListDel, sched_ready_enqueue, ready_link

(* A task that holds the scheduler locked keeps the request, or ends the   *)
(* lock and goes to yield.                                                 *)
Answered ==
    \/ k'.lock > 0 /\ k'.pending
    \/ k'.lock = 0 /\ pc'[k'.current] \in YieldPc

(* A call of the application while the scheduler is locked and a switch is *)
(* wanted.                                                                 *)
LEMMA OwedCall ==
    ASSUME TypeInv, AlwaysInv, NEW t \in Task, AppCall(t), k.lock > 0, k.pending
    PROVE  Answered
<1> USE DEF taskvars, history
<1>1. k \in Scheduler /\ k.lock \in Nat /\ pc \in [Task -> Pc] /\ sched_is_locked(k)
    BY DEF TypeInv, TypeOK, Scheduler, sched_is_locked
<1>2. ASSUME Asked(k, k') PROVE Answered
    BY <1>2 DEF Asked, Answered
<1>3. Asked(k, k) /\ Asked(k, sched_set_pending(k))
    BY <1>1 DEF Asked, sched_set_pending, Scheduler
<1>4. CASE task_yield(t) \/ \E d \in Delays : task_sleep(t, d)
    BY <1>1, <1>2, <1>3, <1>4 DEF task_yield, task_sleep
<1>5. CASE sched_lock(t)
    BY <1>1, <1>5 DEF sched_lock, Answered, Scheduler
<1>6. CASE sched_unlock(t)
    <2>1. t = k.current
        BY <1>6 DEF sched_unlock, Call, At, Runs
    <2>2. CASE k.lock = 1
        <3>1. k' = [k EXCEPT !.lock = 0, !.pending = FALSE] /\ pc' = [pc EXCEPT ![t] = "y_chk"]
            BY <1>6, <2>2 DEF sched_unlock, CallYield, Goto
        <3>2. k'.lock = 0 /\ k'.current = t
            BY <1>1, <2>1, <3>1 DEF Scheduler
        <3>3. pc'[t] = "y_chk"
            BY <1>1, <3>1
        <3> QED BY <3>2, <3>3 DEF Answered, YieldPc
    <2>3. CASE k.lock # 1
        <3>1. k' = [k EXCEPT !.lock = @ - 1]
            BY <1>6, <2>3 DEF sched_unlock
        <3> QED BY <1>1, <2>3, <3>1 DEF Answered, Scheduler
    <2> QED BY <2>2, <2>3
<1>7. ASSUME NEW q \in WaitQ,
             \/ trt_wait_q_block(t, q)
             \/ \E d \in Delays : trt_wait_q_block_ticks(t, q, d)
             \/ trt_wait_q_wake_one(t, q)
             \/ trt_wait_q_wake_all(t, q)
      PROVE  Answered
    <2>1. BlockRefused(k)
        BY <1>1 DEF BlockRefused
    <2>2. trt_wait_q_block_locked(k, q) = sched_set_pending(k)
        BY <2>1 DEF trt_wait_q_block_locked
    <2>3. \A d : trt_wait_q_block_ticks_locked(k, q, d, tick) = sched_set_pending(k)
        BY <2>1, <2>2 DEF trt_wait_q_block_ticks_locked
    <2>4. Asked(k, trt_wait_q_wake_one_locked(k, q))
        BY <1>1, AskedWake DEF trt_wait_q_wake_one_locked
    <2> QED BY <1>2, <1>3, <1>7, <2>2, <2>3, <2>4
            DEF trt_wait_q_block, trt_wait_q_block_ticks, trt_wait_q_wake_one, trt_wait_q_wake_all
<1>8. CASE (\E h \in Handle : task_delete(t, h)) \/ task_exit(t)
    <2>1. CASE \E h \in Handle : task_delete(t, h)
        BY <1>2, <1>3, <2>1 DEF task_delete
    <2>2. CASE task_exit(t)
        <3>1. k' = k
            BY <1>1, <2>2 DEF task_exit, task_delete_obj
        <3> QED BY <1>2, <1>3, <3>1
    <2> QED BY <1>8, <2>1, <2>2
<1>9. ASSUME NEW p \in CreatePrio, task_create(t, p) PROVE Answered
    <2>1. \A u \in Task : Asked(k, InitTcb(k, u, p))
        BY <1>1 DEF Asked, InitTcb, Scheduler
    <2>2. PICK u \in FreeSlots : k' = InitTcb(k, u, p)
        BY <1>9 DEF task_create
    <2> QED BY <1>2, <2>1, <2>2 DEF FreeSlots
<1> QED BY <1>4, <1>5, <1>6, <1>7, <1>8, <1>9 DEF AppCall

(* The same for the kernel code of a task. *)
LEMMA OwedStep ==
    ASSUME TypeInv, AlwaysInv, NEW t \in Task, KernelStep(t), k.lock > 0, k.pending
    PROVE  Answered
<1> USE DEF taskvars, history
<1>1. k \in Scheduler /\ k.lock \in Nat /\ pc \in [Task -> Pc] /\ sched_is_locked(k)
    BY DEF TypeInv, TypeOK, Scheduler, sched_is_locked
<1>2. ASSUME Asked(k, k') PROVE Answered
    BY <1>2 DEF Asked, Answered
<1>3. Asked(k, k) /\ Asked(k, sched_set_pending(k))
    BY <1>1 DEF Asked, sched_set_pending, Scheduler
<1>4. reg[t].obj \in Task \cup {None} /\ reg[t].q \in WaitQ \cup {None}
    BY DEF TypeInv, TypeOK, Locals
<1>5. CASE task_yield_step(t)
    <2>1. Asked(k, ready_link(k, t)) /\ \A m : Asked(k, [k EXCEPT !.mask = m])
        BY <1>1, AskedLists DEF Asked, Scheduler
    <2> QED BY <1>1, <1>2, <1>3, <1>5, <2>1
            DEF task_yield_step, yield_check, yield_link, mask_load, mask_store, arch_yield
<1>6. CASE sleep_loop(t) \/ sleep_block(t) \/ wait_return(t)
    <2>1. Runs(t)
        BY <1>6 DEF sleep_loop, sleep_block, wait_return, At
    <2>2. pc[t] \notin {"sl_loop", "sl_crit"}
        BY <2>1 DEF AlwaysInv, LockOK, Runs
    <2>3. wait_return(t)
        BY <1>6, <2>2 DEF sleep_loop, sleep_block, At
    <2> QED BY <1>2, <1>3, <2>3 DEF wait_return
<1>7. CASE wake_all_round(t, "wq_all", "OBJECT", "run")
    <2>1. reg[t].q \in WaitQ
        BY <1>4, <1>7 DEF wake_all_round, At, TypeInv, LocalsOK
    <2> QED BY <1>1, <1>2, <1>7, <2>1, AskedWake DEF wake_all_round
<1>8. ASSUME NEW u \in Task, NEW p, task_delete_obj(t, u, p) PROVE Answered
    <2>1. k' = k \/ k' = [sched_mark_deleted(k, u) EXCEPT !.pending = @ \/ u = t]
        BY <1>8 DEF task_delete_obj
    <2>2. sched_mark_deleted(k, u) \in Scheduler /\ Asked(k, sched_mark_deleted(k, u))
        BY <1>1, AskedMark, MarkDeletedType
    <2> QED BY <1>2, <1>3, <2>1, <2>2 DEF Asked, Scheduler
<1>9. CASE task_delete_found(t)
    <2>1. reg[t].obj \in Task
        BY <1>4, <1>9 DEF task_delete_found, At, TypeInv, LocalsOK
    <2> QED BY <1>8, <1>9, <2>1 DEF task_delete_found
<1>10. CASE task_create_step(t)
    <2>1. reg[t].obj \in Task
        BY <1>4, <1>10 DEF task_create_step, create_link, mask_load, mask_store, count_load,
            count_store, create_handle, create_set_handle, create_fail, At, TypeInv, LocalsOK,
            CreatePc
    <2>2. Asked(k, ready_link(k, reg[t].obj)) /\ \A m : Asked(k, [k EXCEPT !.mask = m])
        BY <1>1, <2>1, AskedLists DEF Asked, Scheduler
    <2>3. CASE create_fail(t)
        BY <1>8, <2>1, <2>3 DEF create_fail
    <2> QED BY <1>2, <1>3, <1>10, <2>2, <2>3
            DEF task_create_step, create_link, mask_load, mask_store, count_load,
                count_store, create_handle, create_set_handle
<1>11. CASE t = Idle /\ idle_step
    <2>1. k.current # Idle
        BY DEF AlwaysInv, LockOK
    <2> QED BY <1>11, <2>1 DEF idle_step, cleanup_pop, cleanup_free, idle_enable, At, Runs
<1> QED BY <1>5, <1>6, <1>7, <1>9, <1>10, <1>11, <1>8 DEF KernelStep

(* task_yield without the lock comes to its ecall. *)
LEMMA OwedYield ==
    ASSUME TypeInv, NEW t \in Task, task_yield_step(t), k.lock = 0
    PROVE  k'.lock = 0 /\ (pc'[t] \in YieldPc \/ trap' # "none")
<1> USE DEF taskvars, history
<1>1. k \in Scheduler /\ pc \in [Task -> Pc] /\ ~sched_is_locked(k)
    BY DEF TypeInv, TypeOK, sched_is_locked
<1>2. CASE yield_check(t)
    BY <1>1, <1>2 DEF yield_check, Scheduler, Goto, YieldPc
<1>3. CASE yield_link(t)
    <2>1. Asked(k, ready_link(k, t))
        BY <1>1, AskedLists
    <2> QED BY <1>1, <1>3, <2>1 DEF yield_link, Asked, Goto, YieldPc
<1>4. CASE mask_load(t, "y_load", "y_store") \/ mask_store(t, t, "y_store", "ecall")
    BY <1>1, <1>4 DEF mask_load, mask_store, Scheduler, Goto, YieldPc
<1>5. CASE arch_yield(t)
    BY <1>5 DEF arch_yield
<1> QED BY <1>2, <1>3, <1>4, <1>5 DEF task_yield_step

(* A tick whose switch has to wait sets resched_pending, and no trap       *)
(* clears it while the scheduler is locked.                                *)
LEMMA OwedTrap ==
    ASSUME TypeInv, AlwaysInv, OwedInv, TrapReturn
    PROVE  OwedInv'
<1>1. /\ trap # "none" /\ trap' = "none" /\ boot' = boot /\ boot = "done"
      /\ k' = SwitchedFromTrap /\ k \in Scheduler
    BY DEF TrapReturn, AlwaysInv, BootOK, TypeInv, TypeOK
<1> SUFFICES ASSUME owed' PROVE k'.lock > 0 /\ k'.pending
    BY <1>1 DEF OwedInv
<1>2. /\ ~MustSwitch /\ sched_is_locked(k) /\ k.lock > 0
      /\ k.pending \/ (trap = "tick" /\ sched_on_tick_switch(k))
    <2>1. ~MustSwitch /\ sched_is_locked(k) /\ (owed \/ (trap = "tick" /\ sched_on_tick_switch(k)))
        BY DEF TrapReturn
    <2>2. k.lock > 0
        BY <1>1, <2>1 DEF sched_is_locked, Scheduler
    <2> QED BY <2>1, <2>2 DEF OwedInv
<1>3. CASE trap = "tick"
    <2>1. k' = tick_reschedule(k)
        BY <1>1, <1>2, <1>3 DEF SwitchedFromTrap
    <2> QED BY <1>1, <1>2, <1>3, <2>1 DEF tick_reschedule, sched_set_pending, Scheduler
<1>4. CASE trap # "tick"
    <2>1. k' = k
        BY <1>1, <1>2, <1>4 DEF SwitchedFromTrap, sched_try_reschedule_from_trap
    <2> QED BY <1>2, <1>4, <2>1
<1> QED BY <1>3, <1>4

(* Every step keeps it. *)
LEMMA NextOwed ==
    TypeInv /\ AlwaysInv /\ OwedInv /\ [Next]_vars => OwedInv'
<1> SUFFICES ASSUME TypeInv, AlwaysInv, OwedInv, [Next]_vars PROVE OwedInv'
    OBVIOUS
<1> USE DEF taskvars, history
<1>1. k \in Scheduler /\ k.lock \in Nat
    BY DEF TypeInv, TypeOK, Scheduler
<1>2. CASE Boot
    BY <1>2 DEF Boot, kernel_init, app_main_create, app_main_object, rtos_start, OwedInv
<1>3. ASSUME NEW t \in Task, AppCall(t) \/ KernelStep(t) PROVE OwedInv'
    <2>1. owed' = owed /\ boot' = boot
        <3>1. CASE AppCall(t)
            BY <3>1 DEF AppCall, task_yield, task_sleep, sched_lock, sched_unlock,
                trt_wait_q_block, trt_wait_q_block_ticks, trt_wait_q_wake_one,
                trt_wait_q_wake_all, task_delete, task_exit, task_create
        <3>2. CASE KernelStep(t)
            BY <3>2 DEF KernelStep, task_yield_step, yield_check, yield_link, mask_load,
                mask_store, arch_yield, sleep_loop, sleep_block, wait_return, wake_all_round,
                task_delete_found, task_create_step, create_link, count_load, count_store,
                create_handle, create_set_handle, create_fail, idle_step, cleanup_pop,
                cleanup_free, idle_enable
        <3> QED BY <1>3, <3>1, <3>2
    <2> SUFFICES ASSUME owed PROVE OwedInv'
        BY <2>1 DEF OwedInv
    <2>2. k'.current = k.current
        BY <1>3, TasksAlways DEF Advances
    <2>3. Runs(t)
        BY <1>3, StepRuns
    <2>4. CASE k.lock > 0 /\ k.pending
        BY <1>3, <2>1, <2>4, OwedCall, OwedStep DEF Answered, OwedInv
    <2>5. CASE ~(k.lock > 0 /\ k.pending)
        <3>1. k.lock = 0 /\ pc[t] \in YieldPc /\ t = k.current
            BY <2>3, <2>5 DEF OwedInv, Runs
        <3>2. task_yield_step(t)
            BY <1>3, <3>1, YieldingSteps
        <3> QED BY <2>1, <2>2, <3>1, <3>2, OwedYield DEF OwedInv
    <2> QED BY <2>4, <2>5
<1>4. CASE Systick \/ Irq \/ sched_wake_expired
    <2>1. owed' = owed /\ boot' = boot /\ trap' # "none"
        BY <1>4 DEF Systick, SysTick, Irq, sched_wake_expired
    <2>2. Asked(k, k')
        BY <1>1, <1>4, AskedWake, AskedExpired
           DEF Systick, SysTick, Irq, sched_wake_expired, Asked
    <2> QED BY <2>1, <2>2 DEF OwedInv, Asked
<1>5. CASE TrapReturn
    BY <1>5, OwedTrap
<1>6. CASE UNCHANGED vars
    BY <1>6 DEF vars, OwedInv
<1> QED BY <1>2, <1>3, <1>4, <1>5, <1>6 DEF Next, TrapStep, CorruptLoop

(* A switch that a tick wanted while the scheduler was locked is not       *)
(* forgotten (sched_on_tick and sched_unlock): it is pending as long as    *)
(* the lock lasts, and sched_unlock sends the task to yield.               *)
THEOREM SwitchIsOwed == Spec => []DeferredSwitchIsOwed
<1>1. Init => OwedInv
    BY DEF Init, OwedInv
<1>2. OwedInv => DeferredSwitchIsOwed
    BY DEF OwedInv, DeferredSwitchIsOwed
<1> QED BY <1>1, <1>2, NextOwed, AlwaysCorrect, PTL DEF Spec

-----------------------------------------------------------------------------
(* First come, first served.  What a step may do to a wait queue l: take   *)
(* its first entry, take an entry out that gets no OBJECT, or put a task   *)
(* in front of the first entry of lower priority.                          *)
Served(l, r, prio, wres) ==
    \/ r = l
    \/ l # <<>> /\ r = Tail(l)
    \/ \E e \in Task : r = RemoveFirst(l, e) /\ wres[e] # "OBJECT"
    \/ \E t \in Task : /\ ~Contains(l, t)
                       /\ r = InsertBeforeFirst(l, t, {i \in DOMAIN l : prio[l[i]] < prio[t]})

QueuesMove(s, r) == \A q \in WaitQ : Served(s.wq[q], r.wq[q], s.prio, r.wres)

(* u is in l in front of t. *)
Before(l, u, t) == \E i, j \in 1..Len(l) : i < j /\ l[i] = u /\ l[j] = t

(* The order of two entries stays as it is. *)
OrderKept(l, r) ==
    \A u, t \in Task : Contains(r, u) /\ Contains(r, t) /\ Before(l, u, t) => Before(r, u, t)

(* list_del keeps the order of the others. *)
LEMMA RemoveKeeps ==
    ASSUME NEW l \in Seq(Task), Distinct(l), NEW e
    PROVE  OrderKept(l, RemoveFirst(l, e))
<1>1. CASE ~Contains(l, e)
    BY <1>1, RemoveAbsent DEF OrderKept
<1>2. CASE Contains(l, e)
    <2>1. PICK n \in 1..Len(l) : l[n] = e /\ RemoveFirst(l, e) = RemoveAt(l, n)
        BY <1>2, FirstPlace
    <2> DEFINE r == RemoveAt(l, n)
    <2>2. /\ Len(r) = Len(l) - 1
          /\ \A i \in 1..(Len(l) - 1) : r[i] = IF i < n THEN l[i] ELSE l[i + 1]
        BY RemoveAtShape
    <2>3. ~Contains(r, e)
        BY <2>1, RemoveFirstShape
    <2> HIDE DEF r
    <2> SUFFICES ASSUME NEW u \in Task, NEW t \in Task, Contains(r, u), Contains(r, t),
                        Before(l, u, t)
                 PROVE  Before(r, u, t)
        BY <2>1 DEF OrderKept, r
    <2>4. PICK i, j \in 1..Len(l) : i < j /\ l[i] = u /\ l[j] = t
        BY DEF Before
    <2>5. i # n /\ j # n
        BY <2>1, <2>3, <2>4
    <2> DEFINE new(m) == IF m < n THEN m ELSE m - 1
    <2>6. ASSUME NEW m \in 1..Len(l), m # n
          PROVE  new(m) \in 1..Len(r) /\ r[new(m)] = l[m]
        <3>1. CASE m < n
            BY <2>2, <3>1
        <3>2. CASE m > n
            <4>1. m - 1 \in 1..(Len(l) - 1) /\ ~(m - 1 < n) /\ (m - 1) + 1 = m /\ new(m) = m - 1
                BY <3>2
            <4>2. r[m - 1] = l[(m - 1) + 1]
                BY <2>2, <4>1
            <4> QED BY <2>2, <4>1, <4>2
        <3> QED BY <2>6, <3>1, <3>2
    <2>7. new(i) < new(j)
        BY <2>4, <2>5
    <2> HIDE DEF new
    <2>8. /\ new(i) \in 1..Len(r) /\ new(j) \in 1..Len(r)
          /\ r[new(i)] = u /\ r[new(j)] = t
        BY <2>4, <2>5, <2>6
    <2> QED BY <2>7, <2>8 DEF Before
<1> QED BY <1>1, <1>2

(* So does taking the first entry, behind which everybody else is. *)
LEMMA TailKeeps ==
    ASSUME NEW l \in Seq(Task), Distinct(l), l # <<>>
    PROVE  /\ OrderKept(l, Tail(l))
           /\ \A u, t \in Task : Contains(l, t) /\ ~Contains(Tail(l), t) => ~Before(l, u, t)
<1> DEFINE r == Tail(l)
<1>1. /\ Len(r) = Len(l) - 1 /\ \A i \in 1..Len(r) : r[i] = l[i + 1]
      /\ Head(l) = l[1] /\ Len(l) \in Nat \ {0}
    BY HeadTailProperties, EmptySeq
<1>2. /\ ~Contains(r, Head(l))
      /\ \A x : Contains(l, x) <=> x = Head(l) \/ Contains(r, x)
    BY TailShape
<1> HIDE DEF r
<1>3. ASSUME NEW m \in 1..Len(l), m # 1
      PROVE  m - 1 \in 1..Len(r) /\ r[m - 1] = l[m]
    <2>1. m - 1 \in 1..Len(r) /\ (m - 1) + 1 = m
        BY <1>1, <1>3
    <2> QED BY <1>1, <2>1
<1>4. ASSUME NEW u \in Task, NEW t \in Task, Contains(r, u), Contains(r, t), Before(l, u, t)
      PROVE  Before(r, u, t)
    <2>1. PICK i, j \in 1..Len(l) : i < j /\ l[i] = u /\ l[j] = t
        BY <1>4 DEF Before
    <2>2. i # 1 /\ j # 1
        BY <1>1, <1>2, <1>4, <2>1
    <2>3. /\ i - 1 \in 1..Len(r) /\ r[i - 1] = u
          /\ j - 1 \in 1..Len(r) /\ r[j - 1] = t
        BY <1>3, <2>1, <2>2
    <2>4. i - 1 < j - 1
        BY <2>1
    <2> QED BY <2>3, <2>4 DEF Before
<1>5. ASSUME NEW u \in Task, NEW t \in Task, Contains(l, t), ~Contains(r, t), Before(l, u, t)
      PROVE  FALSE
    <2>1. PICK i, j \in 1..Len(l) : i < j /\ l[i] = u /\ l[j] = t
        BY <1>5 DEF Before
    <2>2. l[j] = l[1] /\ 1 \in 1..Len(l)
        BY <1>1, <1>2, <1>5, <2>1
    <2>3. j = 1
        BY <2>2 DEF Distinct
    <2> QED BY <2>1, <2>3
<1> QED BY <1>4, <1>5 DEF OrderKept, r

(* And sched_block_current, which puts the task behind its equals.         *)
LEMMA InsertKeeps ==
    ASSUME NEW l \in Seq(Task), NEW prio \in [Task -> Int], Falling(l, prio),
           NEW t \in Task, NEW O, O = {i \in DOMAIN l : prio[l[i]] < prio[t]},
           NEW r, r = InsertBeforeFirst(l, t, O)
    PROVE  /\ OrderKept(l, r)
           /\ \A x : Contains(r, x) <=> Contains(l, x) \/ x = t
           /\ \A u \in Task : Contains(l, u) /\ prio[u] >= prio[t] => Before(r, u, t)
           /\ \A u \in Task : Contains(l, u) /\ prio[u] < prio[t] => Before(r, t, u)
<1>0. /\ \A i \in 1..Len(l) : l[i] \in Task /\ prio[l[i]] \in Int
      /\ prio[t] \in Int /\ DOMAIN l = 1..Len(l) /\ Len(l) \in Nat
    BY ElementOfSeq
<1> DEFINE PutAt(n) ==
               /\ n \in 1..(Len(l) + 1)
               /\ Len(r) = Len(l) + 1
               /\ r[n] = t
               /\ \A i \in 1..Len(l) : i < n => r[i] = l[i]
               /\ \A i \in 1..Len(l) : ~(i < n) => r[i + 1] = l[i]
               /\ \A i \in 1..Len(l) : prio[l[i]] >= prio[t] <=> i < n
<1>1. PICK n : PutAt(n)
    <2>1. CASE O = {}
        <3> DEFINE m == Len(l) + 1
                   a == Append(l, t)
        <3>1. r = a
            BY <2>1 DEF InsertBeforeFirst
        <3>2. Len(a) = m /\ a[m] = t /\ \A i \in 1..Len(l) : a[i] = l[i]
            BY AppendProperties
        <3>3. m \in 1..(Len(l) + 1) /\ m = Len(l) + 1 /\ \A i \in 1..Len(l) : i < m
            BY <1>0
        <3> HIDE DEF a, m
        <3>4. ASSUME NEW i \in 1..Len(l) PROVE prio[l[i]] >= prio[t]
            BY <1>0, <2>1
        <3>5. PutAt(m)
            BY <3>1, <3>2, <3>3, <3>4
        <3> QED BY <3>5
    <2>2. CASE O # {}
        <3> DEFINE m == Min(O)
        <3>0. O \subseteq Nat
            BY <1>0
        <3> DEFINE a == InsertAt(l, m, t)
        <3>1. m \in O /\ r = a /\ \A y \in O : m <= y
            BY <2>2, <3>0, MinLeast DEF InsertBeforeFirst
        <3> HIDE DEF m
        <3>2. m \in 1..Len(l) /\ prio[l[m]] < prio[t] /\ m \in 1..(Len(l) + 1)
            BY <1>0, <3>1
        <3>7. /\ Len(a) = Len(l) + 1
              /\ \A i \in 1..(Len(l) + 1) :
                    a[i] = IF i < m THEN l[i] ELSE IF i = m THEN t ELSE l[i - 1]
            <4>1. l \in Seq(Task) /\ t \in Task /\ m \in 1..(Len(l) + 1)
                BY <3>2
            <4> HIDE DEF a
            <4> QED BY ONLY <4>1, InsertAtShape DEF a
        <3> HIDE DEF a
        <3>3. /\ Len(r) = Len(l) + 1
              /\ \A i \in 1..(Len(l) + 1) :
                    r[i] = IF i < m THEN l[i] ELSE IF i = m THEN t ELSE l[i - 1]
            BY <3>1, <3>7
        <3>4. ASSUME NEW i \in 1..Len(l) PROVE i < m => r[i] = l[i]
            BY <3>3
        <3>5. ASSUME NEW i \in 1..Len(l), ~(i < m) PROVE r[i + 1] = l[i]
            <4>1. /\ i + 1 \in 1..(Len(l) + 1) /\ ~(i + 1 < m) /\ i + 1 # m
                  /\ (i + 1) - 1 = i
                BY <3>2, <3>5
            <4> QED BY <3>3, <4>1
        <3>6. ASSUME NEW i \in 1..Len(l), prio[l[i]] >= prio[t] PROVE i < m
            <4>1. prio[l[i]] > prio[l[m]]
                BY <1>0, <3>2, <3>6
            <4>2. ~(m < i) /\ i # m
                BY <1>0, <3>2, <4>1 DEF Falling
            <4> QED BY <3>2, <4>2
        <3>8. ASSUME NEW i \in 1..Len(l), prio[l[i]] < prio[t] PROVE ~(i < m)
            <4>1. i \in O
                BY <1>0, <3>8
            <4>2. m <= i
                BY <3>0, <3>1, <4>1
            <4> QED BY <3>2, <4>2
        <3>9. ASSUME NEW i \in 1..Len(l) PROVE prio[l[i]] >= prio[t] <=> i < m
            BY <1>0, <3>6, <3>8
        <3>10. r[m] = t
            BY <3>2, <3>3
        <3>11. PutAt(m)
            BY <3>2, <3>3, <3>4, <3>5, <3>10, <3>9
        <3> QED BY <3>11
    <2> QED BY <2>1, <2>2
<1> DEFINE new(m) == IF m < n THEN m ELSE m + 1
<1>2. ASSUME NEW m \in 1..Len(l)
      PROVE  new(m) \in 1..Len(r) /\ new(m) # n /\ r[new(m)] = l[m]
    <2>1. CASE m < n
        <3>1. m \in 1..(Len(l) + 1) /\ m # n /\ new(m) = m
            BY <1>0, <2>1
        <3> QED BY <1>1, <2>1, <3>1
    <2>2. CASE ~(m < n)
        <3>1. m + 1 \in 1..(Len(l) + 1) /\ m + 1 # n /\ new(m) = m + 1
            BY <1>0, <1>1, <2>2
        <3> QED BY <1>1, <2>2, <3>1
    <2> QED BY <2>1, <2>2
<1>3. ASSUME NEW m \in 1..Len(r), m # n
      PROVE  \E i \in 1..Len(l) : r[m] = l[i]
    <2>0. n \in 1..(Len(l) + 1) /\ m \in 1..(Len(l) + 1)
        BY <1>1
    <2>1. CASE m < n
        <3>1. m \in 1..Len(l)
            BY <1>0, <2>0, <2>1
        <3> QED BY <1>1, <2>1, <3>1
    <2>2. CASE m > n
        <3>1. m - 1 \in 1..Len(l) /\ ~(m - 1 < n) /\ (m - 1) + 1 = m
            BY <1>0, <2>0, <2>2
        <3>2. r[(m - 1) + 1] = l[m - 1]
            BY <1>1, <3>1
        <3> QED BY <3>1, <3>2
    <2>3. m < n \/ m > n
        BY <1>3, <2>0
    <2> QED BY <2>1, <2>2, <2>3
<1>4. ASSUME NEW i \in 1..Len(l), NEW j \in 1..Len(l), i < j PROVE new(i) < new(j)
    BY <1>0, <1>1, <1>4
<1>5. ASSUME NEW u \in Task, NEW v \in Task, Before(l, u, v) PROVE Before(r, u, v)
    <2>1. PICK i, j \in 1..Len(l) : i < j /\ l[i] = u /\ l[j] = v
        BY <1>5 DEF Before
    <2> HIDE DEF new
    <2> QED BY <1>2, <1>4, <2>1 DEF Before
<1>6. ASSUME NEW x PROVE Contains(r, x) <=> Contains(l, x) \/ x = t
    <2> HIDE DEF new
    <2>1. n \in 1..Len(r)
        BY <1>1
    <2>2. Contains(l, x) => Contains(r, x)
        BY <1>2 DEF Contains
    <2>3. Contains(r, t)
        BY <1>1, <2>1 DEF Contains
    <2>4. ASSUME Contains(r, x) PROVE Contains(l, x) \/ x = t
        <3>1. PICK m \in 1..Len(r) : r[m] = x
            BY <2>4 DEF Contains
        <3>2. r[n] = t
            BY <1>1
        <3>3. CASE m # n
            <4>1. PICK i \in 1..Len(l) : r[m] = l[i]
                BY <1>3, <3>3
            <4> QED BY <3>1, <4>1 DEF Contains
        <3> QED BY <3>1, <3>2, <3>3
    <2> QED BY <2>2, <2>3, <2>4
<1>7. ASSUME NEW u \in Task, Contains(l, u), prio[u] >= prio[t] PROVE Before(r, u, t)
    <2>1. PICK i \in 1..Len(l) : l[i] = u
        BY <1>7 DEF Contains
    <2>2. i < n /\ i \in 1..Len(r) /\ r[i] = u /\ n \in 1..Len(r)
        BY <1>0, <1>1, <1>7, <2>1
    <2> QED BY <1>1, <2>2 DEF Before
<1>8. ASSUME NEW u \in Task, Contains(l, u), prio[u] < prio[t] PROVE Before(r, t, u)
    <2>1. PICK i \in 1..Len(l) : l[i] = u
        BY <1>8 DEF Contains
    <2>2. ~(i < n)
        BY <1>0, <1>1, <1>8, <2>1
    <2>3. i + 1 \in 1..Len(r) /\ n \in 1..Len(r) /\ n < i + 1
        BY <1>0, <1>1, <2>2
    <2>4. r[i + 1] = u /\ r[n] = t
        BY <1>1, <2>1, <2>2
    <2> QED BY <2>3, <2>4 DEF Before
<1> QED BY <1>5, <1>6, <1>7, <1>8 DEF OrderKept

(* What FirstComeFirstServed asks of a step on one queue. *)
FairMove(l, r, prio, wres) ==
    \A t, u \in Task :
       /\ Contains(l, u) /\ Contains(r, u) /\ Contains(r, t) =>
             /\ ~Contains(l, t) => /\ prio[u] >= prio[t] => Before(r, u, t)
                                   /\ prio[u] < prio[t] => Before(r, t, u)
             /\ Before(l, u, t) => Before(r, u, t)
       /\ Contains(l, t) /\ ~Contains(r, t) /\ wres[t] = "OBJECT" => ~Before(l, u, t)

(* All of these moves are fair on a sorted queue. *)
LEMMA ServedFairly ==
    ASSUME NEW l \in Seq(Task), Distinct(l), NEW prio \in [Task -> Int], Falling(l, prio),
           NEW r, NEW wres, Served(l, r, prio, wres)
    PROVE  FairMove(l, r, prio, wres)
<1>1. CASE r = l
    BY <1>1 DEF FairMove
<1>2. CASE l # <<>> /\ r = Tail(l)
    <2>1. \A x : Contains(r, x) => Contains(l, x)
        BY <1>2, TailShape
    <2>2. /\ OrderKept(l, r)
          /\ \A u, t \in Task : Contains(l, t) /\ ~Contains(r, t) => ~Before(l, u, t)
        BY <1>2, TailKeeps
    <2> QED BY <2>1, <2>2 DEF FairMove, OrderKept
<1>3. ASSUME NEW e \in Task, r = RemoveFirst(l, e), wres[e] # "OBJECT"
      PROVE  FairMove(l, r, prio, wres)
    <2>1. /\ \A x : Contains(r, x) => Contains(l, x)
          /\ \A x : x # e /\ Contains(l, x) => Contains(r, x)
        BY <1>3, RemoveFirstShape
    <2>2. OrderKept(l, r)
        BY <1>3, RemoveKeeps
    <2> QED BY <1>3, <2>1, <2>2 DEF FairMove, OrderKept
<1>4. ASSUME NEW t \in Task, ~Contains(l, t),
             r = InsertBeforeFirst(l, t, {i \in DOMAIN l : prio[l[i]] < prio[t]})
      PROVE  FairMove(l, r, prio, wres)
    <2>1. /\ OrderKept(l, r)
          /\ \A x : Contains(r, x) <=> Contains(l, x) \/ x = t
          /\ \A u \in Task : Contains(l, u) /\ prio[u] >= prio[t] => Before(r, u, t)
          /\ \A u \in Task : Contains(l, u) /\ prio[u] < prio[t] => Before(r, t, u)
        <3> DEFINE O == {i \in DOMAIN l : prio[l[i]] < prio[t]}
        <3>1. O = {i \in DOMAIN l : prio[l[i]] < prio[t]}
            OBVIOUS
        <3>2. r = InsertBeforeFirst(l, t, O)
            BY <1>4
        <3>3. /\ l \in Seq(Task) /\ prio \in [Task -> Int] /\ Falling(l, prio)
              /\ t \in Task
            BY <1>4
        <3> HIDE DEF O
        <3> QED BY ONLY <3>1, <3>2, <3>3, InsertKeeps
    <2>2. ASSUME NEW v \in Task, NEW u \in Task, Contains(l, u)
          PROVE  ~Contains(l, v) /\ Contains(r, v) =>
                    /\ prio[u] >= prio[v] => Before(r, u, v)
                    /\ prio[u] < prio[v] => Before(r, v, u)
        BY <2>1, <2>2
    <2>3. ASSUME NEW v \in Task, Contains(l, v) PROVE Contains(r, v)
        BY <2>1, <2>3
    <2>4. ASSUME NEW v \in Task, NEW u \in Task, Contains(r, u), Contains(r, v), Before(l, u, v)
          PROVE  Before(r, u, v)
        BY <2>1, <2>4 DEF OrderKept
    <2> QED BY <2>2, <2>3, <2>4 DEF FairMove
<1> QED BY <1>1, <1>2, <1>3, <1>4 DEF Served

(* The queues stay as they are. *)
LEMMA SameQueues ==
    ASSUME NEW s, NEW r, r.wq = s.wq
    PROVE  QueuesMove(s, r)
BY DEF QueuesMove, Served

(* list_del_init takes the task off its queue, if it is on one. *)
LEMMA DelQueues ==
    ASSUME NEW s \in Scheduler, NEW t \in Task,
           NEW r, r = StateListDel(s, t) \/ r = sched_ready_remove(s, t)
    PROVE  /\ \A q \in WaitQ : r.wq[q] = s.wq[q] \/ r.wq[q] = RemoveFirst(s.wq[q], t)
           /\ ~OnWaitQ(s, t) => r.wq = s.wq
           /\ r.prio = s.prio
<1> DEFINE d == StateListDel(s, t)
           n == s.prio[t]
<1>1. d.wq = [q \in WaitQ |-> RemoveFirst(s.wq[q], t)] /\ d.prio = s.prio /\ d \in Scheduler
    BY StateListDelType DEF StateListDel, Scheduler
<1>2. r = d \/ r = s \/ r = [d EXCEPT !.mask = @ \ {n}]
    BY DEF sched_ready_remove
<1> HIDE DEF d, n
<1>3. (r.wq = d.wq /\ r.prio = d.prio) \/ r = s
    BY <1>1, <1>2 DEF Scheduler
<1>4. ASSUME ~OnWaitQ(s, t) PROVE d.wq = s.wq
    <2>1. \A q \in WaitQ : RemoveFirst(s.wq[q], t) = s.wq[q]
        BY <1>4, RemoveAbsent DEF OnWaitQ
    <2>2. s.wq \in [WaitQ -> Seq(Task)]
        BY DEF Scheduler
    <2>3. s.wq = [q \in WaitQ |-> s.wq[q]]
        BY <2>2
    <2> QED BY <1>1, <2>1, <2>3
<1> QED BY <1>1, <1>3, <1>4

(* A task enters the queue q and no other queue changes. *)
Enters(s, e, q) ==
    /\ \A w \in WaitQ \ {q} : e.wq[w] = s.wq[w]
    /\ \E t \in Task :
          /\ ~Contains(s.wq[q], t)
          /\ e.wq[q] = InsertBeforeFirst(s.wq[q], t,
                          {i \in DOMAIN s.wq[q] : s.prio[s.wq[q][i]] < s.prio[t]})

(* trt_wait_q_block_locked and trt_wait_q_block_ticks_locked *)
LEMMA WaitEnters ==
    ASSUME NEW s \in Scheduler, Orderly(s), NEW t \in Task, IsCurrent(s, t),
           s.state[t] = "RUNNING", ~BlockRefused(s), NEW q \in WaitQ
    PROVE  /\ Enters(s, trt_wait_q_block_locked(s, q), q)
           /\ \A d \in Nat, now \in Ticks :
                 Enters(s, trt_wait_q_block_ticks_locked(s, q, d, now), q)
<1> DEFINE n == NoReason(s, t)
           b == [n EXCEPT !.state[t] = "BLOCKED", !.timer[t] = FALSE]
           r == sched_ready_remove(b, t)
           l == InsertBeforeFirst(r.wq[q], t, {i \in DOMAIN r.wq[q] : r.prio[r.wq[q][i]] < r.prio[t]})
           e == trt_wait_q_block_locked(s, q)
<1>1. e = sched_block_current(n, q)
    BY DEF trt_wait_q_block_locked, IsCurrent, NoReason
<1>2. n \in Scheduler /\ n.current = t /\ n.wq = s.wq /\ n.prio = s.prio
    BY DEF Scheduler, WaitResult, IsCurrent, NoReason
<1>3. e = [r EXCEPT !.wq[q] = l]
    <2> HIDE DEF n, e
    <2> QED BY <1>1, <1>2 DEF sched_block_current
<1> HIDE DEF n
<1>4. b \in Scheduler /\ b.wq = s.wq /\ b.prio = s.prio
    BY <1>2 DEF Scheduler, TaskState
<1>5. ~OnWaitQ(s, t)
    BY DEF Orderly, Seat, OnWaitQ
<1> HIDE DEF b
<1>6. r \in Scheduler /\ r.wq = s.wq /\ r.prio = s.prio
    <2>1. ~OnWaitQ(b, t)
        BY <1>4, <1>5 DEF OnWaitQ
    <2> QED BY <1>4, <2>1, RemoveType, DelQueues
<1> HIDE DEF r
<1>7. l = InsertBeforeFirst(s.wq[q], t,
              {i \in DOMAIN s.wq[q] : s.prio[s.wq[q][i]] < s.prio[t]})
    BY <1>6
<1> HIDE DEF l, e
<1>8. e.wq[q] = l /\ \A w \in WaitQ \ {q} : e.wq[w] = s.wq[w]
    BY <1>3, <1>6 DEF Scheduler
<1>9. Enters(s, e, q)
    BY <1>5, <1>7, <1>8 DEF Enters, OnWaitQ
<1>10. ASSUME NEW d \in Nat, NEW now \in Ticks
       PROVE  Enters(s, trt_wait_q_block_ticks_locked(s, q, d, now), q)
    <2> DEFINE w == (now + d) % TickMod
               m == [e EXCEPT !.wakeup[t] = w, !.timer[t] = TRUE, !.wres[t] = "NONE"]
               f == trt_wait_q_block_ticks_locked(s, q, d, now)
    <2>1. f = sched_timeout_insert(m, t)
        BY DEF trt_wait_q_block_ticks_locked, IsCurrent, e
    <2>2. e \in Scheduler
        BY WaitQueueType DEF e
    <2> HIDE DEF w, f
    <2>3. m.wq = e.wq /\ DOMAIN m = DOMAIN e
        BY <2>2 DEF Scheduler
    <2>4. f.wq = m.wq
        <3>1. "timeout" \in DOMAIN m /\ "wq" \in DOMAIN m
            BY <2>2, <2>3 DEF Scheduler
        <3> HIDE DEF m
        <3> QED BY <2>1, <3>1 DEF sched_timeout_insert
    <2> HIDE DEF m
    <2>5. Enters(s, f, q)
        BY <1>9, <2>3, <2>4 DEF Enters
    <2> QED BY <2>5 DEF f
<1> QED BY <1>9, <1>10 DEF e

(* Joining is a fair move. *)
LEMMA EntersMoves ==
    ASSUME NEW s, NEW e, NEW q \in WaitQ, Enters(s, e, q)
    PROVE  QueuesMove(s, e)
BY DEF Enters, QueuesMove, Served

(* One round of sched_wake_expired ends a wait with a timeout. *)
LEMMA ExpiredQueues ==
    ASSUME NEW s \in Scheduler, s.timeout # <<>>,
           NEW e, e = sched_wake_expired_one(s)
    PROVE  QueuesMove(s, e)
<1> DEFINE t == Head(s.timeout)
           r == [s EXCEPT !.timeout = Tail(@)]
           d == StateListDel(r, t)
           w == [d EXCEPT !.timer[t] = FALSE, !.wres[t] = "TIMEOUT", !.state[t] = "READY"]
<1>1. t \in Task /\ Tail(s.timeout) \in Seq(Task)
    BY TailShape DEF Scheduler
<1>2. e = r \/ e = sched_ready_enqueue(w, t)
    BY DEF sched_wake_expired_one
<1> HIDE DEF t
<1>3. r \in Scheduler /\ r.wq = s.wq
    BY <1>1 DEF Scheduler
<1> HIDE DEF r
<1>4. d \in Scheduler /\ \A q \in WaitQ : d.wq[q] = s.wq[q] \/ d.wq[q] = RemoveFirst(s.wq[q], t)
    BY <1>1, <1>3, StateListDelType, DelQueues
<1> HIDE DEF d
<1>5. w \in Scheduler /\ w.wq = d.wq /\ w.wres[t] = "TIMEOUT"
    BY <1>1, <1>4 DEF Scheduler, TaskState, WaitResult
<1> HIDE DEF w
<1>6. CASE e = r
    BY <1>3, <1>6, SameQueues
<1>7. CASE e = sched_ready_enqueue(w, t)
    <2>1. e.wq = w.wq /\ e.wres = w.wres
        BY <1>5, <1>7 DEF sched_ready_enqueue, ready_link, Scheduler
    <2> QED BY <1>1, <1>4, <1>5, <2>1 DEF QueuesMove, Served
<1> QED BY <1>2, <1>6, <1>7

(* sched_mark_deleted takes a waiter away without a result. *)
LEMMA MarkedQueues ==
    ASSUME NEW s \in Scheduler, NEW t \in Task, NEW self,
           NEW e, e = MarkedDeleted(s, t, self) \/ e = sched_mark_deleted(s, t)
    PROVE  QueuesMove(s, e)
<1> DEFINE d == IF s.state[t] = "READY" THEN sched_ready_remove(s, t) ELSE StateListDel(s, t)
           r == sched_timeout_remove(d, t)
           m == [r EXCEPT !.timer[t] = FALSE, !.wres[t] = "NONE",
                          !.state[t] = "DELETED", !.deleted = Append(@, t)]
           n == sched_mark_deleted(s, t)
<1>1. n = s \/ n = m
    BY DEF sched_mark_deleted
<1>2. d \in Scheduler /\ \A q \in WaitQ : d.wq[q] = s.wq[q] \/ d.wq[q] = RemoveFirst(s.wq[q], t)
    <2>1. d = StateListDel(s, t) \/ d = sched_ready_remove(s, t)
        OBVIOUS
    <2> HIDE DEF d
    <2> QED BY <2>1, StateListDelType, RemoveType, DelQueues
<1> HIDE DEF d
<1>3. r \in Scheduler /\ r.wq = d.wq
    BY <1>2, TimeoutType DEF sched_timeout_remove, Scheduler
<1> HIDE DEF r
<1>4. m.wq = r.wq /\ m.wres[t] = "NONE"
    BY <1>3 DEF Scheduler
<1> HIDE DEF m
<1>5. n \in Scheduler
    BY MarkDeletedType
<1> HIDE DEF n
<1>6. (e.wq = n.wq /\ e.wres = n.wres) \/ e = n
    <2>1. CASE e = MarkedDeleted(s, t, self)
        <3>1. e = [n EXCEPT !.pending = @ \/ self]
            BY <2>1 DEF MarkedDeleted, n
        <3> QED BY <1>5, <3>1 DEF Scheduler
    <2>2. CASE e = sched_mark_deleted(s, t)
        BY <2>2 DEF n
    <2> QED BY <2>1, <2>2
<1>7. CASE n = s
    BY <1>6, <1>7, SameQueues
<1>8. CASE n = m
    BY <1>2, <1>3, <1>4, <1>6, <1>8 DEF QueuesMove, Served
<1> QED BY <1>1, <1>7, <1>8

(* A wake takes the first waiter. *)
LEMMA WakeQueues ==
    ASSUME NEW s \in Scheduler, Orderly(s), NEW q \in WaitQ,
           NEW e, \/ e = trt_wait_q_wake_one_result_locked(s, q, "OBJECT")
                  \/ e = trt_wait_q_wake_one_from_isr(s, q)
    PROVE  QueuesMove(s, e)
<1>1. "OBJECT" \in WaitResult \ {"NONE"}
    BY DEF WaitResult
<1>2. \A w \in WaitQ : e.wq[w] = IF w = q /\ s.wq[q] # <<>> THEN Tail(s.wq[w]) ELSE s.wq[w]
    BY <1>1, WakeOrderly
<1> QED BY <1>2 DEF QueuesMove, Served

(* The calls of the application. *)
LEMMA CallQueues ==
    ASSUME TypeInv, AlwaysInv, NEW t \in Task, AppCall(t)
    PROVE  QueuesMove(k, k')
<1> USE DEF taskvars, history
<1>1. Runs(t)
    BY StepRuns
<1>2. /\ IsCurrent(k, t) /\ k \in Scheduler /\ Orderly(k) /\ tick \in Ticks
    BY <1>1, AlwaysFacts DEF IsCurrent, TypeInv, TypeOK
<1>3. ASSUME k'.wq = k.wq PROVE QueuesMove(k, k')
    BY <1>3, SameQueues
<1>4. CASE task_yield(t) \/ \E h \in Handle : task_delete(t, h)
    BY <1>3, <1>4 DEF task_yield, task_delete
<1>5. CASE (\E d \in Delays : task_sleep(t, d)) \/ sched_lock(t) \/ sched_unlock(t)
    BY <1>2, <1>3, <1>5 DEF task_sleep, sched_lock, sched_unlock, sched_set_pending, Scheduler
<1>6. CASE task_exit(t)
    <2>1. k' = k \/ k' = MarkedDeleted(k, t, TRUE)
        BY <1>6 DEF task_exit, task_delete_obj, MarkedDeleted
    <2> QED BY <1>2, <1>3, <2>1, MarkedQueues
<1>7. CASE \E p \in CreatePrio : task_create(t, p)
    BY <1>2, <1>3, <1>7 DEF task_create, InitTcb, Scheduler
<1>8. ASSUME NEW q \in WaitQ, \/ trt_wait_q_block(t, q)
                              \/ \E d \in Delays : trt_wait_q_block_ticks(t, q, d)
      PROVE  QueuesMove(k, k')
    <2>1. k.state[t] = "RUNNING"
        BY <1>8, CallAlways DEF trt_wait_q_block, trt_wait_q_block_ticks
    <2>2. \/ k' = trt_wait_q_block_locked(k, q)
          \/ \E d \in Nat : k' = trt_wait_q_block_ticks_locked(k, q, d, tick)
        BY <1>8, KernelAssumption DEF trt_wait_q_block, trt_wait_q_block_ticks
    <2>3. CASE BlockRefused(k)
        <3>1. k' = [k EXCEPT !.pending = TRUE]
            BY <2>2, <2>3 DEF trt_wait_q_block_locked, trt_wait_q_block_ticks_locked,
                              sched_set_pending
        <3> QED BY <1>2, <1>3, <3>1 DEF Scheduler
    <2>4. CASE ~BlockRefused(k)
        <3>1. Enters(k, k', q)
            BY <1>2, <2>1, <2>2, <2>4, WaitEnters
        <3> QED BY <3>1, EntersMoves
    <2> QED BY <2>3, <2>4
<1>9. ASSUME NEW q \in WaitQ, trt_wait_q_wake_one(t, q) \/ trt_wait_q_wake_all(t, q)
      PROVE  QueuesMove(k, k')
    <2>1. CASE trt_wait_q_wake_all(t, q)
        BY <1>3, <2>1 DEF trt_wait_q_wake_all
    <2>2. CASE trt_wait_q_wake_one(t, q)
        <3>1. k' = trt_wait_q_wake_one_result_locked(k, q, "OBJECT")
            BY <2>2 DEF trt_wait_q_wake_one, trt_wait_q_wake_one_locked
        <3> QED BY <1>2, <3>1, WakeQueues
    <2> QED BY <1>9, <2>1, <2>2
<1> QED BY <1>4, <1>5, <1>6, <1>7, <1>8, <1>9 DEF AppCall

(* The steps inside the kernel. *)
LEMMA StepQueues ==
    ASSUME TypeInv, AlwaysInv, NEW t \in Task, KernelStep(t)
    PROVE  QueuesMove(k, k')
<1> USE DEF taskvars, history
<1>1. Runs(t)
    BY StepRuns
<1>2. k \in Scheduler /\ Orderly(k) /\ RunsAt(t)
    BY <1>1, AlwaysFacts
<1>3. ASSUME k'.wq = k.wq PROVE QueuesMove(k, k')
    BY <1>3, SameQueues
<1>4. CASE task_yield_step(t)
    <2>1. \/ k' = k
          \/ k' = [k EXCEPT !.pending = TRUE]
          \/ k' = [k EXCEPT !.state[t] = "READY"]
          \/ k' = ready_link(k, t)
          \/ k' = [k EXCEPT !.mask = reg[t].mask \cup {k.prio[t]}]
        BY <1>4 DEF task_yield_step, yield_check, yield_link, mask_load, mask_store, arch_yield,
                    sched_set_pending
    <2> QED BY <1>2, <1>3, <2>1 DEF ready_link, Scheduler
<1>5. CASE sleep_loop(t) \/ wait_return(t) \/ (sleep_block(t) /\ sleep_done(t))
    BY <1>3, <1>5 DEF sleep_loop, sleep_done, wait_return
<1>6. CASE sleep_block(t) /\ ~sleep_done(t)
    <2> DEFINE b == [k EXCEPT !.wakeup[t] = reg[t].due, !.timer[t] = TRUE,
                              !.wres[t] = "NONE", !.state[t] = "BLOCKED"]
               r == sched_ready_remove(b, t)
    <2>1. k' = sched_timeout_insert(r, t) /\ k.state[t] = "RUNNING"
        BY <1>2, <1>6 DEF sleep_block, At, RunsAt, LinkPc
    <2>2. reg[t].due \in Ticks
        BY DEF TypeInv, TypeOK, Locals
    <2>3. b \in Scheduler /\ b.wq = k.wq
        BY <1>2, <2>2 DEF Scheduler, TaskState, WaitResult
    <2>4. ~OnWaitQ(k, t)
        BY <1>2, <2>1 DEF Orderly, Seat, OnWaitQ
    <2> HIDE DEF b
    <2>5. ~OnWaitQ(b, t)
        BY <2>3, <2>4 DEF OnWaitQ
    <2>6. r \in Scheduler /\ r.wq = b.wq
        BY <2>3, <2>5, RemoveType, DelQueues
    <2> HIDE DEF r
    <2>7. k'.wq = r.wq
        BY <2>1, <2>6 DEF sched_timeout_insert, Scheduler
    <2> QED BY <1>3, <2>3, <2>6, <2>7
<1>7. CASE wake_all_round(t, "wq_all", "OBJECT", "run")
    <2>1. reg[t].q \in WaitQ
        BY <1>7 DEF wake_all_round, At, TypeInv, LocalsOK
    <2>2. k' = trt_wait_q_wake_one_result_locked(k, reg[t].q, "OBJECT")
        BY <1>7 DEF wake_all_round
    <2> QED BY <1>2, <2>1, <2>2, WakeQueues
<1>8. CASE task_delete_found(t) \/ create_fail(t)
    <2> DEFINE u == reg[t].obj
    <2>1. u \in Task
        BY <1>8 DEF task_delete_found, create_fail, At, TypeInv, LocalsOK, CreatePc
    <2>2. k' = k \/ k' = MarkedDeleted(k, u, u = t)
        BY <1>8 DEF task_delete_found, create_fail, task_delete_obj, MarkedDeleted
    <2> HIDE DEF u
    <2> QED BY <1>2, <1>3, <2>1, <2>2, MarkedQueues
<1>9. CASE task_create_step(t) /\ ~create_fail(t)
    <2>1. \/ k' = k
          \/ k' = ready_link(k, reg[t].obj)
          \/ k' = [k EXCEPT !.mask = reg[t].mask \cup {k.prio[reg[t].obj]}]
        BY <1>9 DEF task_create_step, create_link, mask_load, mask_store, count_load, count_store,
                    create_handle, create_set_handle
    <2> QED BY <1>2, <1>3, <2>1 DEF ready_link, Scheduler
<1>10. CASE idle_step
    <2>1. \/ k' = k
          \/ k' = [k EXCEPT !.deleted = Tail(@)]
          \/ k' = Freed(k, reg[Idle].obj)
        BY <1>10 DEF idle_step, cleanup_pop, cleanup_free, idle_enable, Freed
    <2> QED BY <1>2, <1>3, <2>1 DEF Freed, Scheduler
<1> QED
    BY <1>4, <1>5, <1>6, <1>7, <1>8, <1>9, <1>10 DEF KernelStep, task_create_step

(* Every step. *)
LEMMA NextQueues ==
    ASSUME TypeInv, ListsOK, AlwaysInv, [Next]_vars
    PROVE  QueuesMove(k, k')
<1>1. k \in Scheduler /\ Orderly(k)
    BY DEF AlwaysInv, TypeInv, TypeOK
<1>2. CASE Boot
    <2>1. boot # "done"
        BY <1>2 DEF Boot, kernel_init, app_main_create, app_main_object, rtos_start
    <2>2. ListInv /\ EarlyOK
        BY <2>1 DEF AlwaysInv, EarlyOK, ListsOK
    <2>3. \A q \in WaitQ : k.wq[q] = <<>> /\ k'.wq[q] = <<>>
        BY <1>2, <2>1, <2>2, BootNoWaiter DEF EarlyOK
    <2> QED BY <2>3 DEF QueuesMove, Served
<1>3. ASSUME NEW t \in Task, AppCall(t) \/ KernelStep(t) PROVE QueuesMove(k, k')
    BY <1>3, CallQueues, StepQueues
<1>4. CASE Systick
    BY <1>4, SameQueues DEF Systick, SysTick
<1>5. CASE Irq
    <2>1. k' = k \/ \E q \in WaitQ : k' = trt_wait_q_wake_one_from_isr(k, q)
        BY <1>5 DEF Irq
    <2> QED BY <1>1, <2>1, WakeQueues, SameQueues
<1>6. CASE sched_wake_expired
    BY <1>1, <1>6, ExpiredQueues DEF sched_wake_expired, HeadExpired
<1>7. CASE TrapReturn
    <2>1. k'.wq = k.wq
        BY <1>7, TrapChosen DEF Chosen, Turn
    <2> QED BY <2>1, SameQueues
<1>8. CASE UNCHANGED vars
    BY <1>8, SameQueues DEF vars
<1> QED BY <1>2, <1>3, <1>4, <1>5, <1>6, <1>7, <1>8 DEF Next, TrapStep, CorruptLoop

(* Waiters are served by priority, those of equal priority in the order    *)
(* they came, whatever wakes, timeouts and deletions come in between       *)
(* (sched_block_current, sched_wake_one).                                  *)
THEOREM ServedInOrder == Spec => FirstComeFirstServed
<1>1. TypeInv /\ ListsOK /\ AlwaysInv /\ [Next]_vars =>
         [\A q \in WaitQ : \A t, u \in Task :
             /\ WaitsIn(q, u) /\ WaitsIn(q, u)' /\ WaitsIn(q, t)' =>
                   /\ ~WaitsIn(q, t) => IF k.prio[u] >= k.prio[t] THEN AheadOf(q, u, t)'
                                                                  ELSE AheadOf(q, t, u)'
                   /\ AheadOf(q, u, t) => AheadOf(q, u, t)'
             /\ WaitsIn(q, t) /\ ~WaitsIn(q, t)' /\ k'.wres[t] = "OBJECT"
                   => ~AheadOf(q, u, t)]_vars
    <2> SUFFICES ASSUME TypeInv, ListsOK, AlwaysInv, [Next]_vars, NEW q \in WaitQ
                 PROVE  FairMove(k.wq[q], k'.wq[q], k.prio, k'.wres)
        <3> SUFFICES ASSUME TypeInv, ListsOK, AlwaysInv, [Next]_vars, NEW q \in WaitQ,
                            NEW t \in Task, NEW u \in Task
                     PROVE  /\ WaitsIn(q, u) /\ WaitsIn(q, u)' /\ WaitsIn(q, t)' =>
                                  /\ ~WaitsIn(q, t) => IF k.prio[u] >= k.prio[t]
                                                       THEN AheadOf(q, u, t)'
                                                       ELSE AheadOf(q, t, u)'
                                  /\ AheadOf(q, u, t) => AheadOf(q, u, t)'
                            /\ WaitsIn(q, t) /\ ~WaitsIn(q, t)' /\ k'.wres[t] = "OBJECT"
                                  => ~AheadOf(q, u, t)
            OBVIOUS
        <3>1. FairMove(k.wq[q], k'.wq[q], k.prio, k'.wres)
            OBVIOUS
        <3>2. /\ WaitsIn(q, t) <=> Contains(k.wq[q], t)
              /\ WaitsIn(q, u) <=> Contains(k.wq[q], u)
              /\ WaitsIn(q, t)' <=> Contains(k'.wq[q], t)
              /\ WaitsIn(q, u)' <=> Contains(k'.wq[q], u)
            BY DEF WaitsIn
        <3>3. /\ AheadOf(q, u, t) <=> Before(k.wq[q], u, t)
              /\ AheadOf(q, u, t)' <=> Before(k'.wq[q], u, t)
              /\ AheadOf(q, t, u)' <=> Before(k'.wq[q], t, u)
            <4>1. k \in Scheduler /\ k' \in Scheduler
                BY NextType DEF TypeInv, TypeOK
            <4>2. k.wq[q] \in Seq(Task) /\ k'.wq[q] \in Seq(Task)
                BY <4>1 DEF Scheduler
            <4>3. /\ DOMAIN k.wq[q] = 1..Len(k.wq[q])
                  /\ DOMAIN k'.wq[q] = 1..Len(k'.wq[q])
                BY <4>2
            <4> QED BY <4>3 DEF AheadOf, Before
        <3>4. k.prio[u] < k.prio[t] <=> ~(k.prio[u] >= k.prio[t])
            <4>1. k.prio \in [Task -> Int]
                BY PrioNumbers DEF TypeInv, TypeOK
            <4> QED BY <4>1
        <3> QED BY <3>1, <3>2, <3>3, <3>4 DEF FairMove
    <2>1. k.wq[q] \in Seq(Task) /\ k.prio \in [Task -> Int]
        BY PrioNumbers DEF TypeInv, TypeOK, Scheduler
    <2>2. Distinct(k.wq[q]) /\ Falling(k.wq[q], k.prio)
        BY DEF AlwaysInv, Orderly, NoRepeats, QueuesFall
    <2>3. Served(k.wq[q], k'.wq[q], k.prio, k'.wres)
        BY NextQueues DEF QueuesMove
    <2> QED BY <2>1, <2>2, <2>3, ServedFairly
<1> QED BY <1>1, AlwaysCorrect, PTL DEF Spec, FirstComeFirstServed

-----------------------------------------------------------------------------
(* Delays are not cut short. *)

(* A moment w that is l ticks from now. *)
Ahead(now, w, l) == l = 0 \/ (l < TickMod \div 2 /\ w = (now + l) % TickMod)

(* The counter of ticks wraps. *)
LEMMA WrapOnce ==
    ASSUME NEW x \in 0..(2 * TickMod - 1)
    PROVE  x % TickMod = IF x < TickMod THEN x ELSE x - TickMod
<1>1. TickMod \in Nat \ {0}
    BY SchedAssumption
<1> QED BY <1>1

(* A sum does. *)
LEMMA WrapSum ==
    ASSUME NEW a \in Int, NEW b \in Int, a + b >= 0, a + b < 2 * TickMod
    PROVE  (a + b) % TickMod = IF a + b < TickMod THEN a + b ELSE a + b - TickMod
<1> DEFINE x == a + b
<1>1. x \in 0..(2 * TickMod - 1)
    BY SchedAssumption
<1> HIDE DEF x
<1>2. x % TickMod = IF x < TickMod THEN x ELSE x - TickMod
    BY <1>1, WrapOnce
<1> QED BY <1>2, SchedAssumption DEF x

(* A difference below zero wraps too. *)
LEMMA WrapBack ==
    ASSUME NEW x \in 1..TickMod
    PROVE  (-x) % TickMod = TickMod - x
<1>1. TickMod \in Nat \ {0}
    BY SchedAssumption
<1> QED BY <1>1

(* What is ahead comes nearer with every now. *)
LEMMA AheadTick ==
    ASSUME NEW now \in Ticks, NEW d \in Nat, d < TickMod,
           NEW then, then = (now + d) % TickMod,
           NEW w, NEW l \in Nat, Ahead(now, w, l)
    PROVE  Ahead(then, w, Monus(l, d))
<1> DEFINE half == TickMod \div 2
<1>1. TickMod \in Nat \ {0} /\ half \in Nat /\ TickMod = 2 * half /\ now \in 0..(TickMod - 1)
    BY SchedAssumption DEF Ticks
<1>2. then = IF now + d < TickMod THEN now + d ELSE now + d - TickMod
    <2>1. now \in Int /\ d \in Int /\ now + d >= 0 /\ now + d < 2 * TickMod
        BY <1>1
    <2>2. (now + d) % TickMod = IF now + d < TickMod THEN now + d ELSE now + d - TickMod
        BY <2>1, WrapSum
    <2> QED BY <2>2
<1>3. CASE l <= d
    <2>1. Monus(l, d) = 0
        BY <1>3 DEF Monus
    <2> QED BY <2>1 DEF Ahead
<1>4. CASE l > d
    <2>0. Monus(l, d) = l - d
        BY <1>4 DEF Monus
    <2>1. l < half /\ w = (now + l) % TickMod /\ Monus(l, d) = l - d
        BY <1>4, <2>0 DEF Ahead
    <2> HIDE DEF half
    <2>2a. now \in Int /\ l \in Int /\ now + l >= 0 /\ now + l < 2 * TickMod
        BY <1>1, <2>1
    <2>2b. (now + l) % TickMod = IF now + l < TickMod THEN now + l ELSE now + l - TickMod
        BY <2>2a, WrapSum
    <2>2. w = IF now + l < TickMod THEN now + l ELSE now + l - TickMod
        BY <2>1, <2>2b
    <2>3. /\ then \in Int /\ l - d \in Int
          /\ then + (l - d) >= 0 /\ then + (l - d) < 2 * TickMod
        BY <1>1, <1>2, <1>4, <2>1
    <2>4. (then + (l - d)) % TickMod =
              IF then + (l - d) < TickMod THEN then + (l - d) ELSE then + (l - d) - TickMod
        BY <2>3, WrapSum
    <2> DEFINE m == (then + (l - d)) % TickMod
    <2>4a. m = IF then + (l - d) < TickMod THEN then + (l - d) ELSE then + (l - d) - TickMod
        BY <2>4
    <2> HIDE DEF m
    <2>5a. w = m
        BY <1>1, <1>2, <1>4, <2>1, <2>2, <2>4a
    <2>5. w = (then + (l - d)) % TickMod /\ l - d < half
        BY <1>1, <1>4, <2>1, <2>5a DEF m
    <2> QED BY <2>1, <2>5 DEF Ahead, half
<1> QED BY <1>1, <1>3, <1>4

(* What has expired is not ahead. *)
LEMMA AheadNotExpired ==
    ASSUME NEW now \in Ticks, NEW w, NEW l \in Nat, Ahead(now, w, l), timer_expired(now, w)
    PROVE  l = 0
<1> DEFINE half == TickMod \div 2
<1> SUFFICES ASSUME l # 0 PROVE FALSE
    OBVIOUS
<1>1. TickMod \in Nat \ {0} /\ half \in Nat /\ TickMod = 2 * half /\ now \in 0..(TickMod - 1)
    BY SchedAssumption DEF Ticks
<1>2. l < half /\ w = (now + l) % TickMod /\ (now - w) % TickMod < half
    BY DEF Ahead, timer_expired
<1> HIDE DEF half
<1>3. w = IF now + l < TickMod THEN now + l ELSE now + l - TickMod
    <2>1. now \in Int /\ l \in Int /\ now + l >= 0 /\ now + l < 2 * TickMod
        BY <1>1, <1>2
    <2>2. (now + l) % TickMod = IF now + l < TickMod THEN now + l ELSE now + l - TickMod
        BY <2>1, WrapSum
    <2> QED BY <1>2, <2>2
<1>4. CASE now + l < TickMod
    <2>1. now - w = -l /\ l \in 1..TickMod
        BY <1>1, <1>2, <1>3, <1>4
    <2>2. (now - w) % TickMod = TickMod - l
        BY <2>1, WrapBack
    <2> QED BY <1>1, <1>2, <2>2
<1>5. CASE ~(now + l < TickMod)
    <2>1. now - w = TickMod - l /\ TickMod - l \in 0..(2 * TickMod - 1) /\ TickMod - l < TickMod
        BY <1>1, <1>2, <1>3, <1>5
    <2>2. (now - w) % TickMod = TickMod - l
        BY <2>1, WrapOnce
    <2> QED BY <1>1, <1>2, <2>2
<1> QED BY <1>4, <1>5

-----------------------------------------------------------------------------
(* The deadlines a task may be waiting for: the wakeup time of its TCB, and *)
(* the one task_delay_ticks keeps.                                         *)
Sleeps(t) == pc[t] \in {"sl_loop", "sl_crit"} \/ (pc[t] \in YieldPc /\ ret[t] = "sl_loop")

(* Each is as far ahead as the delay still has to run, and a blocked task   *)
(* has no result yet.                                                       *)
ClockAt(t) ==
    /\ k.state[t] = "BLOCKED" /\ k.timer[t] => Ahead(tick, k.wakeup[t], left[t])
    /\ Sleeps(t) => Ahead(tick, reg[t].due, left[t])
    /\ k.state[t] = "BLOCKED" => k.wres[t] = "NONE"

ClockInv == \A t \in Task : ClockAt(t)

(* An operator leaves the deadline of a blocked task alone and reports no  *)
(* timeout.                                                                *)
CalmAt(s, r, x) ==
    /\ r.state[x] = "BLOCKED" =>
          /\ s.state[x] = "BLOCKED" /\ r.wres[x] = s.wres[x] /\ r.wakeup[x] = s.wakeup[x]
          /\ r.timer[x] => s.timer[x]
    /\ r.wres[x] = "TIMEOUT" => s.wres[x] = "TIMEOUT"

Calm(s, r) == \A x \in Task : CalmAt(s, r, x)

(* One that leaves the four fields alone is calm. *)
LEMMA CalmFields ==
    ASSUME NEW s, NEW r, r.state = s.state, r.wres = s.wres, r.wakeup = s.wakeup, r.timer = s.timer
    PROVE  Calm(s, r)
BY DEF Calm, CalmAt

(* Two calm operators after one another. *)
LEMMA CalmTwice ==
    ASSUME NEW s, NEW r, NEW e, Calm(s, r), Calm(r, e)
    PROVE  Calm(s, e)
BY DEF Calm, CalmAt

(* The list primitives are calm. *)
LEMMA CalmLists ==
    ASSUME NEW s \in Scheduler, NEW t \in Task
    PROVE  /\ Calm(s, StateListDel(s, t))
           /\ Calm(s, sched_ready_remove(s, t))
           /\ Calm(s, sched_timeout_remove(s, t))
           /\ Calm(s, sched_timeout_insert(s, t))
           /\ Calm(s, ready_link(s, t))
           /\ Calm(s, sched_ready_enqueue(s, t))
<1>1. ASSUME NEW r \in {StateListDel(s, t), sched_ready_remove(s, t), sched_timeout_remove(s, t),
                       sched_timeout_insert(s, t), ready_link(s, t), sched_ready_enqueue(s, t)}
      PROVE  r.state = s.state /\ r.wres = s.wres /\ r.wakeup = s.wakeup /\ r.timer = s.timer
    BY <1>1 DEF Scheduler, StateListDel, sched_ready_remove, sched_timeout_remove,
       sched_timeout_insert, ready_link, sched_ready_enqueue
<1> QED BY <1>1, CalmFields

(* So is sched_mark_deleted: what is deleted is not blocked. *)
LEMMA CalmMark ==
    ASSUME NEW s \in Scheduler, NEW t \in Task
    PROVE  Calm(s, sched_mark_deleted(s, t))
<1> DEFINE m == sched_mark_deleted(s, t)
           u == IF s.state[t] = "READY" THEN sched_ready_remove(s, t) ELSE StateListDel(s, t)
           r == sched_timeout_remove(u, t)
<1> SUFFICES Calm(s, m)
    OBVIOUS
<1>1. CASE m = s
    BY <1>1, CalmFields
<1>2. CASE m # s
    <2>1. m = [r EXCEPT !.timer[t] = FALSE, !.wres[t] = "NONE", !.state[t] = "DELETED",
                        !.deleted = Append(@, t)]
        BY <1>2 DEF sched_mark_deleted
    <2>2. /\ u.state = s.state /\ u.wres = s.wres /\ u.wakeup = s.wakeup /\ u.timer = s.timer
          /\ {"state", "wres", "wakeup", "timer", "timeout", "deleted"} \subseteq DOMAIN u
        BY DEF Scheduler, StateListDel, sched_ready_remove
    <2> HIDE DEF u
    <2>3. /\ r.state = s.state /\ r.wres = s.wres /\ r.wakeup = s.wakeup /\ r.timer = s.timer
          /\ {"state", "wres", "wakeup", "timer", "deleted"} \subseteq DOMAIN r
        BY <2>2 DEF sched_timeout_remove
    <2> HIDE DEF r, m
    <2>4. /\ m.state = [s.state EXCEPT ![t] = "DELETED"]
          /\ m.wres = [s.wres EXCEPT ![t] = "NONE"]
          /\ m.timer = [s.timer EXCEPT ![t] = FALSE]
          /\ m.wakeup = s.wakeup
        BY <2>1, <2>3
    <2>5. ASSUME NEW x \in Task PROVE CalmAt(s, m, x)
        <3>1. CASE x = t
            BY <2>4, <3>1 DEF CalmAt, Scheduler
        <3>2. CASE x # t
            BY <2>4, <3>2 DEF CalmAt, Scheduler
        <3> QED BY <3>1, <3>2
    <2> QED BY <2>5 DEF Calm
<1> QED BY <1>1, <1>2

(* So is a wake-up: its result is not a timeout. *)
LEMMA CalmWake ==
    ASSUME NEW s \in Scheduler, NEW q \in WaitQ, NEW result \in WaitResult, result # "TIMEOUT"
    PROVE  /\ Calm(s, trt_wait_q_wake_one_result_locked(s, q, result))
           /\ Calm(s, trt_wait_q_wake_one_locked(s, q))
           /\ Calm(s, trt_wait_q_wake_one_from_isr(s, q))
<1>1. ASSUME NEW res \in WaitResult, res # "TIMEOUT"
      PROVE  Calm(s, trt_wait_q_wake_one_result_locked(s, q, res))
    <2> DEFINE t == Head(s.wq[q])
               a == sched_timeout_remove(s, t)
               b == [a EXCEPT !.wq[q] = Tail(@), !.timer[t] = FALSE, !.state[t] = "READY"]
               c == sched_ready_enqueue(b, t)
               e == [c EXCEPT !.pending = @ \/ sched_is_locked(s), !.wres[t] = res]
    <2>1. CASE s.wq[q] = <<>>
        BY <2>1 DEF trt_wait_q_wake_one_result_locked, Calm, CalmAt
    <2>2. CASE s.wq[q] # <<>>
        <3>1. trt_wait_q_wake_one_result_locked(s, q, res) = e
            BY <2>2 DEF trt_wait_q_wake_one_result_locked, sched_wake_one
        <3>2. t \in Task
            BY <2>2 DEF Scheduler
        <3> HIDE DEF t
        <3>3. /\ a.state = s.state /\ a.wres = s.wres /\ a.wakeup = s.wakeup /\ a.timer = s.timer
              /\ DOMAIN a = DOMAIN s
            BY DEF Scheduler, sched_timeout_remove
        <3>4. /\ b.state = [s.state EXCEPT ![t] = "READY"] /\ b.wres = s.wres
              /\ b.wakeup = s.wakeup /\ b.timer = [s.timer EXCEPT ![t] = FALSE]
              /\ DOMAIN b = DOMAIN s
            BY DEF Scheduler, sched_timeout_remove
        <3> HIDE DEF a, b
        <3>5. /\ c.state = b.state /\ c.wres = b.wres /\ c.wakeup = b.wakeup /\ c.timer = b.timer
              /\ DOMAIN c = DOMAIN s
            BY <3>4 DEF Scheduler, sched_ready_enqueue, ready_link
        <3> HIDE DEF c
        <3>6. /\ e.state = [s.state EXCEPT ![t] = "READY"]
              /\ e.wres = [s.wres EXCEPT ![t] = res]
              /\ e.wakeup = s.wakeup /\ e.timer = [s.timer EXCEPT ![t] = FALSE]
            BY <3>4, <3>5 DEF Scheduler
        <3> HIDE DEF e
        <3>7. Calm(s, e)
            BY <1>1, <3>2, <3>6 DEF Calm, CalmAt, Scheduler
        <3> QED BY <3>1, <3>7
    <2> QED BY <2>1, <2>2
<1>2. "OBJECT" \in WaitResult
    BY DEF WaitResult
<1>3. Calm(s, trt_wait_q_wake_one_locked(s, q))
    BY <1>1, <1>2 DEF trt_wait_q_wake_one_locked
<1>4. trt_wait_q_wake_one_locked(s, q) \in Scheduler
    BY <1>2, WaitQueueType DEF trt_wait_q_wake_one_locked
<1>5. Calm(s, trt_wait_q_wake_one_from_isr(s, q))
    <2>1. Calm(s, s)
        BY CalmFields
    <2>2. \A r \in Scheduler : Calm(s, r) => Calm(s, sched_set_pending(r))
        BY DEF sched_set_pending, Scheduler, Calm, CalmAt
    <2> QED BY <1>3, <1>4, <2>1, <2>2 DEF trt_wait_q_wake_one_from_isr
<1> QED BY <1>1, <1>3, <1>5

(* The fields of a TCB that is created or freed. *)
LEMMA CalmTcb ==
    ASSUME NEW s \in Scheduler, NEW u \in Task, NEW p \in Prio
    PROVE  Calm(s, InitTcb(s, u, p)) /\ Calm(s, Freed(s, u))
BY DEF Scheduler, Calm, CalmAt, InitTcb, Freed

(* A switch. *)
LEMMA CalmPick ==
    ASSUME NEW s \in Scheduler
    PROVE  Calm(s, sched_pick_next(s))
<1> DEFINE r == Requeue(s)
<1>1. r \in Scheduler
    BY RequeueType
<1>2. Calm(s, r)
    <2> DEFINE t == s.current
               b == [s EXCEPT !.state[t] = "READY"]
    <2>1. b \in Scheduler /\ Calm(s, b) /\ Calm(s, s)
        BY DEF Scheduler, TaskState, Calm, CalmAt
    <2>2. t # None => Calm(b, sched_ready_enqueue(b, t))
        <3>1. t # None => t \in Task
            BY DEF Scheduler
        <3> HIDE DEF t, b
        <3> QED BY <2>1, <3>1, CalmLists
    <2>3. \/ r = s
          \/ r = b
          \/ t # None /\ r = sched_ready_enqueue(b, t)
        BY DEF Requeue
    <2> HIDE DEF t, b, r
    <2> QED BY <2>1, <2>2, <2>3, CalmTwice
<1> HIDE DEF r
<1>3. Calm(r, sched_ready_pop_highest(r))
    <2> DEFINE p == Max(r.mask)
               t == Head(r.ready[p])
    <2>1. \/ sched_ready_pop_highest(r) = [r EXCEPT !.corrupt = TRUE]
          \/ \E m, l : sched_ready_pop_highest(r) =
                [r EXCEPT !.ready[p] = l, !.mask = m, !.state[t] = "RUNNING", !.current = t]
        BY DEF sched_ready_pop_highest
    <2> HIDE DEF p, t
    <2>2. Calm(r, [r EXCEPT !.corrupt = TRUE])
        BY <1>1 DEF Scheduler, Calm, CalmAt
    <2>3. ASSUME NEW m, NEW l
          PROVE  Calm(r, [r EXCEPT !.ready[p] = l, !.mask = m, !.state[t] = "RUNNING", !.current = t])
        BY <1>1 DEF Scheduler, Calm, CalmAt
    <2>4. CASE sched_ready_pop_highest(r) = [r EXCEPT !.corrupt = TRUE]
        BY <2>2, <2>4
    <2>5. CASE ~(sched_ready_pop_highest(r) = [r EXCEPT !.corrupt = TRUE])
        <3>1. PICK m, l : sched_ready_pop_highest(r) =
                [r EXCEPT !.ready[p] = l, !.mask = m, !.state[t] = "RUNNING", !.current = t]
            BY <2>1, <2>5
        <3> DEFINE e == [r EXCEPT !.ready[p] = l, !.mask = m, !.state[t] = "RUNNING", !.current = t]
        <3>2. Calm(r, e) /\ sched_ready_pop_highest(r) = e
            BY <2>3, <3>1
        <3> HIDE DEF e
        <3> QED BY <3>2
    <2> QED BY <2>4, <2>5
<1>4. Calm(r, r) /\ Calm(r, [r EXCEPT !.state[r.idle] = "RUNNING", !.current = r.idle])
    BY <1>1 DEF Scheduler, Calm, CalmAt
<1>5. Calm(r, sched_pick_next(s))
    BY <1>3, <1>4 DEF sched_pick_next, r
<1> QED BY <1>2, <1>5, CalmTwice

(* The end of do_trap. *)
LEMMA CalmTrap ==
    ASSUME k \in Scheduler
    PROVE  Calm(k, SwitchedFromTrap)
<1>1. \A s \in Scheduler : Calm(s, s)
    BY CalmFields
<1>2. ASSUME NEW s \in Scheduler PROVE Calm(s, tick_reschedule(s))
    <2> DEFINE r == [s EXCEPT !.slice = sched_on_tick_slice(s)]
    <2>1. sched_on_tick_slice(s) \in Nat
        BY DEF sched_on_tick_slice, Scheduler
    <2>2. r \in Scheduler /\ Calm(s, r) /\ Calm(s, sched_set_pending(r))
        BY <2>1 DEF Scheduler, Calm, CalmAt, sched_set_pending
    <2>3. tick_reschedule(s) \in {r, sched_set_pending(r), sched_pick_next(r)}
        BY DEF tick_reschedule
    <2> HIDE DEF r
    <2> QED BY <2>2, <2>3, CalmPick, CalmTwice
<1>3. ASSUME NEW s \in Scheduler PROVE Calm(s, sched_try_reschedule_from_trap(s))
    <2> DEFINE r == [s EXCEPT !.pending = FALSE]
    <2>1. r \in Scheduler /\ Calm(s, r)
        BY DEF Scheduler, Calm, CalmAt
    <2>2. sched_try_reschedule_from_trap(s) \in {s, r, sched_pick_next(r)}
        BY DEF sched_try_reschedule_from_trap
    <2> HIDE DEF r
    <2> QED BY <1>1, <2>1, <2>2, CalmPick, CalmTwice
<1> DEFINE s == IF MustSwitch THEN sched_pick_next(k)
                ELSE IF trap = "tick" THEN tick_reschedule(k) ELSE k
<1>4. s \in Scheduler /\ Calm(k, s)
    <2>1. s \in {k, sched_pick_next(k), tick_reschedule(k)}
        OBVIOUS
    <2> HIDE DEF s
    <2> QED BY <1>1, <1>2, <2>1, CalmPick, PickNextType, TrapType
<1>5. SwitchedFromTrap \in {s, sched_try_reschedule_from_trap(s)}
    BY DEF SwitchedFromTrap
<1> HIDE DEF s
<1> QED BY <1>3, <1>4, <1>5, CalmTwice

(* No timeout is reported to t before its time: neither by                 *)
(* sched_wake_expired nor by the return from task_delay_ticks.             *)
OnTime(t) ==
    \/ k.state[t] = "BLOCKED" /\ k'.state[t] = "READY" /\ k'.wres[t] = "TIMEOUT"
    \/ pc[t] \in {"sl_loop", "sl_crit"} /\ pc'[t] = "run" /\ k.state[t] = "RUNNING"
    => left[t] = 0

Punctual == \A t \in Task : ClockAt(t)' /\ OnTime(t)

(* A task whose deadline is left alone. *)
LEMMA CalmTask ==
    ASSUME NEW x \in Task, ClockAt(x), CalmAt(k, k', x), tick' = tick, left'[x] = left[x],
           Sleeps(x)' => Sleeps(x) /\ reg'[x].due = reg[x].due,
           pc[x] \in {"sl_loop", "sl_crit"} /\ pc'[x] = "run" /\ k.state[x] = "RUNNING"
                => left[x] = 0
    PROVE  ClockAt(x)' /\ OnTime(x)
BY DEF ClockAt, CalmAt, OnTime

(* A step of task t. *)
LEMMA TaskPunctual ==
    ASSUME ClockInv, NEW t \in Task, Moves(t, pc'[t]), tick' = tick,
           \A x \in Task \ {t} : ret'[x] = ret[x] /\ left'[x] = left[x] /\ CalmAt(k, k', x),
           ClockAt(t)', OnTime(t)
    PROVE  Punctual
<1> SUFFICES ASSUME NEW x \in Task \ {t} PROVE ClockAt(x)' /\ OnTime(x)
    BY DEF Punctual
<1>1. pc'[x] = pc[x] /\ reg'[x] = reg[x] /\ ret'[x] = ret[x]
    BY DEF Moves
<1>2. Sleeps(x)' => Sleeps(x) /\ reg'[x].due = reg[x].due
    BY <1>1 DEF Sleeps
<1>3. ~(pc[x] \in {"sl_loop", "sl_crit"} /\ pc'[x] = "run")
    BY <1>1
<1> QED BY <1>2, <1>3, CalmTask DEF ClockInv

(* One that neither blocks nor sleeps. *)
LEMMA CalmPunctual ==
    ASSUME ClockInv, NEW t \in Task, Moves(t, pc'[t]), tick' = tick, left' = left,
           \A x \in Task \ {t} : ret'[x] = ret[x],
           Calm(k, k'),
           Sleeps(t)' => Sleeps(t) /\ reg'[t].due = reg[t].due,
           pc[t] \notin {"sl_loop", "sl_crit"} \/ pc'[t] # "run"
    PROVE  Punctual
<1>1. ClockAt(t)' /\ OnTime(t)
    BY CalmTask DEF ClockInv, Calm
<1> QED BY <1>1, TaskPunctual DEF Calm

(* What does not go to sleep does not sleep. *)
LEMMA Awake ==
    ASSUME NEW t \in Task,
           \/ pc'[t] \notin YieldPc \cup {"sl_loop", "sl_crit"}
           \/ pc'[t] \in YieldPc /\ ret'[t] # "sl_loop"
    PROVE  ~Sleeps(t)'
BY DEF Sleeps, YieldPc

(* Calls of the application that do not block. *)
LEMMA CallPunctual ==
    ASSUME TypeInv, AlwaysInv, ClockInv, NEW t \in Task,
           \/ task_yield(t)
           \/ sched_lock(t)
           \/ sched_unlock(t)
           \/ \E q \in WaitQ : trt_wait_q_wake_one(t, q) \/ trt_wait_q_wake_all(t, q)
           \/ \E h \in Handle : task_delete(t, h)
           \/ \E p \in CreatePrio : task_create(t, p)
    PROVE  Punctual
<1> USE DEF taskvars, history
<1>1. k \in Scheduler /\ pc \in [Task -> Pc] /\ ret \in [Task -> RetPc] /\ Calm(k, k)
    BY CalmFields DEF TypeInv, TypeOK
<1>2. pc[t] = "run" /\ tick' = tick /\ left' = left
    BY DEF task_yield, sched_lock, sched_unlock, trt_wait_q_wake_one, trt_wait_q_wake_all,
           task_delete, task_create, Call, At
<1>3. Moves(t, pc'[t]) /\ \A x \in Task \ {t} : ret'[x] = ret[x]
    <2>1. \/ UNCHANGED reg
          \/ \E l : reg' = [reg EXCEPT ![t] = l]
        BY DEF task_yield, sched_lock, sched_unlock, trt_wait_q_wake_one, trt_wait_q_wake_all,
               task_delete, task_create
    <2>2. \/ UNCHANGED pc
          \/ \E p : Goto(t, p)
        BY DEF task_yield, sched_lock, sched_unlock, trt_wait_q_wake_one, trt_wait_q_wake_all,
               task_delete, task_create, CallYield
    <2>3. ret' = ret \/ \E p : ret' = [ret EXCEPT ![t] = p]
        BY DEF task_yield, sched_lock, sched_unlock, trt_wait_q_wake_one, trt_wait_q_wake_all,
               task_delete, task_create, CallYield
    <2>4. Moves(t, pc'[t])
        <3>1. CASE UNCHANGED pc
            BY <2>1, <3>1, GotoMoves
        <3>2. ASSUME NEW p, Goto(t, p) PROVE Moves(t, pc'[t])
            <4>1. pc'[t] = p
                BY <1>1, <3>2 DEF Goto
            <4>2. Moves(t, p)
                BY <2>1, <3>2, GotoMoves
            <4> QED BY <4>1, <4>2
        <3> QED BY <2>2, <3>1, <3>2
    <2> QED BY <1>1, <2>3, <2>4
<1>4. \/ pc'[t] \notin YieldPc \cup {"sl_loop", "sl_crit"}
      \/ pc'[t] \in YieldPc /\ ret'[t] # "sl_loop"
    <2>1. CASE pc' = pc
        BY <1>2, <2>1 DEF YieldPc
    <2>2. CASE Goto(t, "wq_all") \/ Goto(t, "d_obj") \/ Goto(t, "c_link")
        BY <1>1, <2>2 DEF Goto, YieldPc
    <2>3. CASE CallYield(t, "run")
        BY <1>1, <2>3 DEF CallYield, Goto, YieldPc
    <2> QED BY <2>1, <2>2, <2>3 DEF task_yield, sched_lock, sched_unlock, trt_wait_q_wake_one,
               trt_wait_q_wake_all, task_delete, task_create
<1>5. Calm(k, k')
    <2>1. CASE k' = k
        BY <1>1, <2>1
    <2>2. CASE sched_lock(t) \/ sched_unlock(t)
        <3>1. \/ \E n : k' = [k EXCEPT !.lock = n]
              \/ \E n, b : k' = [k EXCEPT !.lock = n, !.pending = b]
            BY <2>2 DEF sched_lock, sched_unlock
        <3>2. /\ k'.state = k.state /\ k'.wres = k.wres
              /\ k'.wakeup = k.wakeup /\ k'.timer = k.timer
            BY <1>1, <3>1 DEF Scheduler
        <3> QED BY <3>2, CalmFields
    <2>3. ASSUME NEW q \in WaitQ, k' = trt_wait_q_wake_one_locked(k, q) PROVE Calm(k, k')
        <3>1. "OBJECT" \in WaitResult
            BY DEF WaitResult
        <3> QED BY <1>1, <2>3, <3>1, CalmWake
    <2>4. ASSUME NEW p \in CreatePrio, task_create(t, p) PROVE Calm(k, k')
        <3>1. PICK u \in FreeSlots : k' = InitTcb(k, u, p)
            BY <2>4 DEF task_create
        <3>2. u \in Task /\ p \in Prio
            BY KernelAssumption DEF FreeSlots
        <3> QED BY <1>1, <3>1, <3>2, CalmTcb
    <2> QED BY <2>1, <2>2, <2>3, <2>4
            DEF task_yield, trt_wait_q_wake_one, trt_wait_q_wake_all, task_delete
<1> QED BY <1>2, <1>3, <1>4, <1>5, Awake, CalmPunctual

(* A task that blocks leaves the deadlines of the others alone.            *)
BlocksOnTime(s, e, t) ==
    /\ e.state[t] = "BLOCKED" /\ e.wres[t] = "NONE"
    /\ \A x \in Task \ {t} : CalmAt(s, e, x)

(* The fields of a task that blocks until w. *)
Stamped(s, e, t, w) ==
    /\ e.state = [s.state EXCEPT ![t] = "BLOCKED"]
    /\ e.wres = [s.wres EXCEPT ![t] = "NONE"]
    /\ e.timer = [s.timer EXCEPT ![t] = TRUE]
    /\ e.wakeup = [s.wakeup EXCEPT ![t] = w]

(* Such a task has been given the deadline w. *)
LEMMA StampedBlocks ==
    ASSUME NEW s \in Scheduler, NEW t \in Task, NEW e, NEW w, Stamped(s, e, t, w)
    PROVE  BlocksOnTime(s, e, t) /\ e.wakeup[t] = w
BY DEF Scheduler, BlocksOnTime, CalmAt, Stamped

(* sched_timeout_insert changes nothing but the timeout list. *)
LEMMA InsertFields ==
    ASSUME NEW s \in Scheduler, NEW t, NEW e, e = sched_timeout_insert(s, t)
    PROVE  e.state = s.state /\ e.wres = s.wres /\ e.timer = s.timer /\ e.wakeup = s.wakeup
BY DEF Scheduler, sched_timeout_insert

(* The block of task_delay_ticks. *)
Asleep(s, t, due) ==
    sched_timeout_insert(sched_ready_remove(
        [s EXCEPT !.wakeup[t] = due, !.timer[t] = TRUE,
                  !.wres[t] = "NONE", !.state[t] = "BLOCKED"], t), t)

(* It leaves the deadlines of the others alone. *)
LEMMA SleepBlocks ==
    ASSUME NEW s \in Scheduler, NEW t \in Task, NEW due \in Ticks,
           NEW e, e = Asleep(s, t, due)
    PROVE  BlocksOnTime(s, e, t) /\ e.wakeup[t] = due
<1> DEFINE b == [s EXCEPT !.wakeup[t] = due, !.timer[t] = TRUE,
                          !.wres[t] = "NONE", !.state[t] = "BLOCKED"]
           r == sched_ready_remove(b, t)
<1>1. b \in Scheduler
    BY DEF Scheduler, WaitResult, TaskState
<1>2. /\ b.state = [s.state EXCEPT ![t] = "BLOCKED"] /\ b.wres = [s.wres EXCEPT ![t] = "NONE"]
      /\ b.timer = [s.timer EXCEPT ![t] = TRUE] /\ b.wakeup = [s.wakeup EXCEPT ![t] = due]
    BY DEF Scheduler
<1> HIDE DEF b
<1>3. r \in Scheduler
    BY <1>1, RemoveType
<1>4. r.state = b.state /\ r.wres = b.wres /\ r.timer = b.timer /\ r.wakeup = b.wakeup
    BY <1>1 DEF Scheduler, StateListDel, sched_ready_remove
<1>5. e = sched_timeout_insert(r, t)
    BY DEF b, Asleep
<1> HIDE DEF r
<1>6. e.state = r.state /\ e.wres = r.wres /\ e.timer = r.timer /\ e.wakeup = r.wakeup
    BY <1>3, <1>5, InsertFields
<1>7. Stamped(s, e, t, due)
    BY <1>2, <1>4, <1>6 DEF Stamped
<1> QED BY <1>7, StampedBlocks

(* trt_wait_q_block_locked blocks without a deadline. *)
LEMMA WaitBlocks ==
    ASSUME NEW s \in Scheduler, NEW t \in Task, IsCurrent(s, t), ~BlockRefused(s),
           NEW q \in WaitQ, NEW e, e = trt_wait_q_block_locked(s, q)
    PROVE  /\ e \in Scheduler
           /\ e.state = [s.state EXCEPT ![t] = "BLOCKED"]
           /\ e.wres = [s.wres EXCEPT ![t] = "NONE"]
           /\ e.timer = [s.timer EXCEPT ![t] = FALSE]
           /\ e.wakeup = s.wakeup
<1> DEFINE a == [s EXCEPT !.wres[t] = "NONE"]
           b == [a EXCEPT !.state[t] = "BLOCKED", !.timer[t] = FALSE]
           r == sched_ready_remove(b, t)
<1>1. a \in Scheduler /\ b \in Scheduler /\ a.current = t
    BY DEF Scheduler, WaitResult, TaskState, IsCurrent
<1>2. /\ b.state = [s.state EXCEPT ![t] = "BLOCKED"] /\ b.wres = [s.wres EXCEPT ![t] = "NONE"]
      /\ b.timer = [s.timer EXCEPT ![t] = FALSE] /\ b.wakeup = s.wakeup
    BY DEF Scheduler
<1>3. e = sched_block_current(a, q)
    BY DEF trt_wait_q_block_locked, IsCurrent
<1> HIDE DEF a
<1>4. PICK l : e = [r EXCEPT !.wq[q] = l]
    BY <1>1, <1>3 DEF sched_block_current
<1> HIDE DEF b
<1>5. r \in Scheduler
    BY <1>1, RemoveType
<1>6. r.state = b.state /\ r.wres = b.wres /\ r.timer = b.timer /\ r.wakeup = b.wakeup
    BY <1>1 DEF Scheduler, StateListDel, sched_ready_remove
<1> HIDE DEF r
<1>7. e.state = r.state /\ e.wres = r.wres /\ e.timer = r.timer /\ e.wakeup = r.wakeup
    BY <1>4, <1>5 DEF Scheduler
<1>8. e \in Scheduler
    BY WaitQueueType
<1> QED BY <1>2, <1>6, <1>7, <1>8

(* trt_wait_q_block_ticks_locked blocks with one. *)
LEMMA TimedWaitBlocks ==
    ASSUME NEW s \in Scheduler, NEW t \in Task, IsCurrent(s, t), ~BlockRefused(s),
           NEW q \in WaitQ, NEW d \in Nat, NEW now \in Ticks,
           NEW e, e = trt_wait_q_block_ticks_locked(s, q, d, now)
    PROVE  BlocksOnTime(s, e, t) /\ e.wakeup[t] = (now + d) % TickMod
<1> DEFINE b == trt_wait_q_block_locked(s, q)
           w == (now + d) % TickMod
           r == [b EXCEPT !.wakeup[t] = w, !.timer[t] = TRUE, !.wres[t] = "NONE"]
<1>1. /\ b \in Scheduler
      /\ b.state = [s.state EXCEPT ![t] = "BLOCKED"] /\ b.wres = [s.wres EXCEPT ![t] = "NONE"]
      /\ b.timer = [s.timer EXCEPT ![t] = FALSE] /\ b.wakeup = s.wakeup
    BY WaitBlocks
<1>2. w \in Ticks
    BY SchedAssumption DEF Ticks
<1>3. e = sched_timeout_insert(r, t)
    BY DEF trt_wait_q_block_ticks_locked, IsCurrent
<1> HIDE DEF b, w
<1>4. /\ r \in Scheduler
      /\ r.state = [s.state EXCEPT ![t] = "BLOCKED"] /\ r.wres = [s.wres EXCEPT ![t] = "NONE"]
      /\ r.timer = [s.timer EXCEPT ![t] = TRUE] /\ r.wakeup = [s.wakeup EXCEPT ![t] = w]
    BY <1>1, <1>2 DEF Scheduler, WaitResult
<1> HIDE DEF r
<1>5. e.state = r.state /\ e.wres = r.wres /\ e.timer = r.timer /\ e.wakeup = r.wakeup
    BY <1>3, <1>4, InsertFields
<1>6. Stamped(s, e, t, w)
    BY <1>4, <1>5 DEF Stamped
<1>7. BlocksOnTime(s, e, t) /\ e.wakeup[t] = w
    BY <1>6, StampedBlocks
<1> QED BY <1>7 DEF w

(* A delay that is asked for is ahead. *)
LEMMA AskedAhead ==
    ASSUME NEW d \in Delays
    PROVE  Ahead(tick, (tick + d) % TickMod, d)
BY KernelAssumption, SchedAssumption DEF Ahead

(* The call of task_sleep, and the blocking calls. *)
LEMMA DelayPunctual ==
    ASSUME TypeInv, AlwaysInv, ClockInv, NEW t \in Task,
           \/ \E d \in Delays : task_sleep(t, d)
           \/ \E q \in WaitQ : \/ trt_wait_q_block(t, q)
                               \/ \E d \in Delays : trt_wait_q_block_ticks(t, q, d)
    PROVE  Punctual
<1> USE DEF taskvars, history
<1>1. /\ k \in Scheduler /\ pc \in [Task -> Pc] /\ ret \in [Task -> RetPc]
      /\ reg \in [Task -> Locals] /\ left \in [Task -> Nat] /\ tick \in Ticks /\ Calm(k, k)
    BY CalmFields DEF TypeInv, TypeOK
<1>2. /\ pc[t] = "run" /\ tick' = tick /\ Runs(t) /\ t = k.current /\ k.state[t] = "RUNNING"
      /\ IsCurrent(k, t)
    <2>1. PICK c : Call(t, c)
        BY DEF task_sleep, trt_wait_q_block, trt_wait_q_block_ticks
    <2>2. tick' = tick
        BY DEF task_sleep, trt_wait_q_block, trt_wait_q_block_ticks
    <2> QED BY <2>1, <2>2, CallAlways DEF IsCurrent
<1>3. ASSUME k' = sched_set_pending(k), UNCHANGED <<pc, ret, reg, left>> PROVE Punctual
    <2>1. Calm(k, k')
        BY <1>1, <1>3 DEF Calm, CalmAt, Scheduler, sched_set_pending
    <2>2. Moves(t, pc'[t]) /\ ~Sleeps(t)'
        BY <1>2, <1>3 DEF Moves, Sleeps, YieldPc
    <2> QED BY <1>2, <1>3, <2>1, <2>2, CalmPunctual
<1>4. ASSUME NEW d \in Delays, task_sleep(t, d) PROVE Punctual
    <2>1. CASE sched_is_locked(k)
        BY <1>3, <1>4, <2>1 DEF task_sleep
    <2>2. CASE ~sched_is_locked(k)
        <3>1. /\ reg' = [reg EXCEPT ![t].due = (tick + d) % TickMod]
              /\ left' = [left EXCEPT ![t] = d]
              /\ Goto(t, "sl_loop") /\ k' = k /\ ret' = ret
            BY <1>4, <2>2 DEF task_sleep
        <3>2. pc'[t] = "sl_loop" /\ Moves(t, "sl_loop")
            BY <1>1, <3>1, GotoMoves DEF Goto
        <3>3. left'[t] = d /\ reg'[t].due = (tick + d) % TickMod
            BY <1>1, <3>1 DEF Locals
        <3>4. \A x \in Task \ {t} : left'[x] = left[x]
            BY <1>1, <3>1
        <3>5. Ahead(tick', reg'[t].due, left'[t])
            BY <1>2, <3>3, AskedAhead
        <3>6. ClockAt(t)' /\ OnTime(t)
            BY <1>2, <3>1, <3>2, <3>5 DEF ClockAt, OnTime
        <3> QED BY <1>1, <1>2, <3>1, <3>2, <3>4, <3>6, TaskPunctual DEF Calm
    <2> QED BY <2>1, <2>2
<1>5. ASSUME CallYield(t, "wq_ret"), UNCHANGED reg, BlocksOnTime(k, k', t),
             \A x \in Task \ {t} : left'[x] = left[x],
             k'.timer[t] => Ahead(tick, k'.wakeup[t], left'[t])
      PROVE  Punctual
    <2>1. pc'[t] = "y_chk" /\ ret'[t] = "wq_ret" /\ Moves(t, "y_chk")
          /\ \A x \in Task \ {t} : ret'[x] = ret[x]
        BY <1>1, <1>5, GotoMoves DEF CallYield, Goto
    <2>2. ~Sleeps(t)'
        BY <2>1 DEF Sleeps
    <2>3. ClockAt(t)'
        BY <1>2, <1>5, <2>2 DEF ClockAt, BlocksOnTime
    <2>4. OnTime(t)
        BY <1>2, <2>1 DEF OnTime
    <2> QED BY <1>2, <1>5, <2>1, <2>3, <2>4, TaskPunctual DEF BlocksOnTime
<1>6. ASSUME NEW q \in WaitQ, trt_wait_q_block(t, q) PROVE Punctual
    <2>1. CASE BlockRefused(k)
        <3>1. k' = sched_set_pending(k)
            BY <1>6, <2>1 DEF trt_wait_q_block, trt_wait_q_block_locked
        <3> QED BY <1>3, <1>6, <2>1, <3>1 DEF trt_wait_q_block
    <2>2. CASE ~BlockRefused(k)
        <3>1. /\ k'.state = [k.state EXCEPT ![t] = "BLOCKED"]
              /\ k'.wres = [k.wres EXCEPT ![t] = "NONE"]
              /\ k'.timer = [k.timer EXCEPT ![t] = FALSE]
              /\ k'.wakeup = k.wakeup
            BY <1>1, <1>2, <1>6, <2>2, WaitBlocks DEF trt_wait_q_block
        <3>2. BlocksOnTime(k, k', t) /\ ~k'.timer[t]
            BY <1>1, <3>1 DEF BlocksOnTime, CalmAt, Scheduler
        <3>3. CallYield(t, "wq_ret") /\ UNCHANGED reg /\ left' = left
            BY <1>6, <2>2 DEF trt_wait_q_block
        <3> QED BY <1>5, <3>2, <3>3
    <2> QED BY <2>1, <2>2
<1>7. ASSUME NEW q \in WaitQ, NEW d \in Delays, trt_wait_q_block_ticks(t, q, d) PROVE Punctual
    <2>1. CASE BlockRefused(k)
        <3>1. k' = sched_set_pending(k)
            BY <1>7, <2>1 DEF trt_wait_q_block_ticks, trt_wait_q_block_ticks_locked,
                trt_wait_q_block_locked
        <3> QED BY <1>3, <1>7, <2>1, <3>1 DEF trt_wait_q_block_ticks
    <2>2. CASE ~BlockRefused(k)
        <3>0. d \in Nat
            BY KernelAssumption
        <3>1. BlocksOnTime(k, k', t) /\ k'.wakeup[t] = (tick + d) % TickMod
            BY <1>1, <1>2, <1>7, <2>2, <3>0, TimedWaitBlocks DEF trt_wait_q_block_ticks
        <3>2. CallYield(t, "wq_ret") /\ UNCHANGED reg /\ left' = [left EXCEPT ![t] = d]
            BY <1>7, <2>2 DEF trt_wait_q_block_ticks
        <3>3. left'[t] = d /\ \A x \in Task \ {t} : left'[x] = left[x]
            BY <1>1, <3>2
        <3>4. Ahead(tick, k'.wakeup[t], left'[t])
            BY <3>1, <3>3, AskedAhead
        <3> QED BY <1>5, <3>1, <3>2, <3>3, <3>4
    <2> QED BY <2>1, <2>2
<1> QED BY <1>4, <1>6, <1>7

(* task_delete_obj changes no deadline. *)
LEMMA DeleteObjPunctual ==
    ASSUME TypeInv, ClockInv, NEW t \in Task, NEW u \in Task, NEW p \in {"run", "ecall"},
           task_delete_obj(t, u, p), tick' = tick, left' = left,
           pc[t] \in {"run", "d_obj", "c_fail"},
           \A x \in Task \ {t} : ret'[x] = ret[x],
           p = "ecall" \/ u = t => ret'[t] = "ecall",
           UNCHANGED reg \/ \E l : reg' = [reg EXCEPT ![t].obj = l]
    PROVE  Punctual
<1>1. k \in Scheduler /\ pc \in [Task -> Pc] /\ Calm(k, k)
    BY CalmFields DEF TypeInv, TypeOK
<1>2. ASSUME NEW e \in {"run", "ecall"}, Goto(t, e), Calm(k, k'),
             e = "ecall" => ret'[t] # "sl_loop"
      PROVE  Punctual
    <2>1. Moves(t, e) /\ pc'[t] = e
        BY <1>2, RegMoves DEF Moves
    <2>2. ~Sleeps(t)'
        BY <1>2, <2>1 DEF Sleeps, YieldPc
    <2> QED BY <1>2, <2>1, <2>2, CalmPunctual
<1>3. CASE k' = k /\ Goto(t, p)
    BY <1>1, <1>2, <1>3
<1>4. CASE k' = MarkedDeleted(k, u, u = t) /\ Goto(t, IF u = t THEN "ecall" ELSE p)
    <2> DEFINE d == sched_mark_deleted(k, u)
               self == u = t
    <2>1. d \in Scheduler /\ Calm(k, d)
        BY <1>1, CalmMark, MarkDeletedType
    <2>2. k' = [d EXCEPT !.pending = @ \/ self]
        BY <1>4 DEF MarkedDeleted
    <2> HIDE DEF d, self
    <2>3. Calm(d, k')
        BY <2>1, <2>2 DEF Scheduler, Calm, CalmAt
    <2>4. Calm(k, k')
        BY <2>1, <2>3, CalmTwice
    <2> QED BY <1>2, <1>4, <2>4
<1>5. \/ k' = k /\ Goto(t, p)
      \/ k' = MarkedDeleted(k, u, u = t) /\ Goto(t, IF u = t THEN "ecall" ELSE p)
    <2>1. CASE k.state[u] = "UNUSED"
        BY <2>1 DEF task_delete_obj
    <2>2. CASE /\ k.state[u] # "UNUSED"
               /\ u = Idle \/ k.state[u] = "DELETED" \/ (u = t /\ sched_is_locked(k))
        BY <2>2 DEF task_delete_obj
    <2>3. CASE /\ k.state[u] # "UNUSED"
               /\ ~(u = Idle \/ k.state[u] = "DELETED" \/ (u = t /\ sched_is_locked(k)))
        BY <2>3 DEF task_delete_obj, MarkedDeleted
    <2> QED BY <2>1, <2>2, <2>3
<1> QED BY <1>3, <1>4, <1>5

(* The TCB a task creates is not its own. *)
CreatesOther == \A t \in Task : pc[t] \in CreatePc => reg[t].obj # t

(* A task that is not in task_create. *)
LEMMA OtherCreates ==
    ASSUME CreatesOther, NEW t \in Task, Moves(t, pc'[t]), pc'[t] \notin CreatePc
    PROVE  CreatesOther'
BY DEF Moves, CreatesOther

(* task_create takes a free slot and keeps to it. *)
LEMMA CreatesOtherStep ==
    ASSUME TypeInv, AlwaysInv, CreatesOther, [Next]_vars
    PROVE  CreatesOther'
<1> USE DEF taskvars, history
<1>1. pc \in [Task -> Pc] /\ reg \in [Task -> Locals] /\ ret \in [Task -> RetPc] /\ Idle \in Task
    BY SchedAssumption DEF TypeInv, TypeOK
<1>2. CASE Boot
    <2>1. reg' = reg /\ (pc' = pc \/ pc' = [pc EXCEPT ![Idle] = "i_clean"])
        BY <1>2 DEF Boot, kernel_init, app_main_create, app_main_object, rtos_start
    <2> QED BY <1>1, <2>1 DEF CreatesOther, CreatePc
<1>3. CASE UNCHANGED <<pc, reg>>
    BY <1>3 DEF CreatesOther
<1>4. CASE Systick \/ Irq \/ TrapStep \/ UNCHANGED vars
    <2>1. /\ reg' = reg
          /\ pc' = pc \/ \E c : pc' = [pc EXCEPT ![c] = "i_clean"]
        BY <1>4 DEF Systick, SysTick, Irq, Interrupted, TrapStep, sched_wake_expired, TrapReturn,
           vars
    <2> QED BY <1>1, <2>1 DEF CreatesOther, CreatePc
<1>5. ASSUME NEW t \in Task, NEW p \in {"run", "y_chk", "sl_loop", "sl_crit", "wq_all",
                                        "d_obj", "ecall", "y_enq", "y_load", "y_store"},
             Goto(t, p) \/ (p = pc[t] /\ UNCHANGED pc),
             UNCHANGED reg \/ \E l : reg' = [reg EXCEPT ![t] = l]
      PROVE  CreatesOther'
    <2>1. Moves(t, p)
        BY <1>5, GotoMoves
    <2>2. pc'[t] = p /\ p \notin CreatePc
        BY <2>1 DEF Moves, CreatePc
    <2> QED BY <2>1, <2>2, OtherCreates
<1>6. ASSUME NEW t \in Task, AppCall(t), \A p \in CreatePrio : ~task_create(t, p)
      PROVE  CreatesOther'
    <2>1. /\ pc[t] = "run"
          /\ UNCHANGED reg \/ \E l : reg' = [reg EXCEPT ![t] = l]
        <3>1. \/ UNCHANGED reg
              \/ \E l : reg' = [reg EXCEPT ![t] = l]
              \/ \E d \in Delays : task_sleep(t, d)
            BY <1>6 DEF AppCall, task_yield, sched_lock, sched_unlock, trt_wait_q_block,
               trt_wait_q_block_ticks, trt_wait_q_wake_one, trt_wait_q_wake_all, task_delete,
               task_exit
        <3>2. pc[t] = "run"
            BY <1>6 DEF AppCall, task_yield, task_sleep, sched_lock, sched_unlock,
               trt_wait_q_block, trt_wait_q_block_ticks, trt_wait_q_wake_one,
               trt_wait_q_wake_all, task_delete, task_exit, Call, At
        <3>3. ASSUME NEW d \in Delays, task_sleep(t, d)
              PROVE  UNCHANGED reg \/ \E l : reg' = [reg EXCEPT ![t] = l]
            BY <3>3 DEF task_sleep
        <3> QED BY <3>1, <3>2, <3>3
    <2>2. \/ UNCHANGED pc
          \/ \E p \in {"run", "y_chk", "sl_loop", "wq_all", "d_obj", "ecall"} : Goto(t, p)
        <3>1. CASE task_exit(t)
            BY <3>1 DEF task_exit, task_delete_obj
        <3>2. CASE ~task_exit(t)
            BY <1>6, <3>2 DEF AppCall, task_yield, task_sleep, sched_lock, sched_unlock,
               trt_wait_q_block, trt_wait_q_block_ticks, trt_wait_q_wake_one,
               trt_wait_q_wake_all, task_delete, CallYield
        <3> QED BY <3>1, <3>2
    <2> QED BY <1>5, <2>1, <2>2
<1>7. ASSUME NEW t \in Task, NEW p \in CreatePrio, task_create(t, p) PROVE CreatesOther'
    <2>1. k.state[t] = "RUNNING"
        BY <1>7, CallAlways DEF task_create
    <2>2. PICK u \in FreeSlots : reg' = [reg EXCEPT ![t].obj = u]
        BY <1>7 DEF task_create
    <2>3. u # t
        BY <2>1 DEF FreeSlots
    <2>4. reg'[t].obj = u
        BY <1>1, <2>2 DEF Locals
    <2>5. Moves(t, "c_link")
        BY <1>7, <2>2, RegMoves DEF task_create
    <2> QED BY <2>3, <2>4, <2>5 DEF Moves, CreatesOther
<1>8. ASSUME NEW t \in Task, KernelStep(t), ~task_create_step(t), ~(t = Idle /\ idle_step)
      PROVE  CreatesOther'
    <2>1. UNCHANGED reg \/ \E l : reg' = [reg EXCEPT ![t] = l]
        <3>1. CASE task_delete_found(t)
            BY <3>1 DEF task_delete_found
        <3>2. CASE wake_all_round(t, "wq_all", "OBJECT", "run")
            BY <3>2 DEF wake_all_round
        <3>3. CASE sleep_loop(t) \/ sleep_block(t)
            BY <3>3 DEF sleep_loop, sleep_block, sleep_done
        <3> QED BY <1>8, <3>1, <3>2, <3>3 DEF KernelStep, task_yield_step, yield_check, yield_link,
                mask_load, mask_store, arch_yield, wait_return
    <2>2. \/ UNCHANGED pc /\ pc[t] = "wq_all"
          \/ \E p \in {"run", "y_chk", "sl_loop", "sl_crit", "ecall", "y_enq", "y_load", "y_store"} :
                Goto(t, p)
          \/ Goto(t, ret[t])
        <3>1. CASE task_delete_found(t)
            BY <3>1 DEF task_delete_found, task_delete_obj
        <3>2. CASE wake_all_round(t, "wq_all", "OBJECT", "run")
            BY <3>2 DEF wake_all_round, At
        <3>3. CASE sleep_loop(t) \/ sleep_block(t)
            BY <3>3 DEF sleep_loop, sleep_block, sleep_done, CallYield
        <3> QED BY <1>8, <3>1, <3>2, <3>3 DEF KernelStep, task_yield_step, yield_check, yield_link,
                mask_load, mask_store, arch_yield, wait_return
    <2>3. CASE Goto(t, ret[t])
        <3>1. ret[t] \notin CreatePc
            BY <1>1 DEF RetPc, CreatePc
        <3>2. Moves(t, ret[t])
            BY <2>1, <2>3, GotoMoves
        <3> QED BY <3>1, <3>2, OtherCreates DEF Moves
    <2> QED BY <1>5, <2>1, <2>2, <2>3
<1>9. ASSUME NEW t \in Task, task_create_step(t) PROVE CreatesOther'
    <2>1. pc[t] \in CreatePc
        BY <1>9 DEF task_create_step, create_link, mask_load, mask_store, count_load,
           count_store, create_handle, create_set_handle, create_fail, At, CreatePc
    <2>2. CASE create_fail(t)
        <3>1. Goto(t, "run") \/ Goto(t, "ecall")
            BY <2>2 DEF create_fail, task_delete_obj
        <3> QED BY <1>5, <2>2, <3>1 DEF create_fail
    <2>3. CASE create_set_handle(t)
        BY <1>5, <2>3 DEF create_set_handle
    <2>4. CASE ~create_fail(t) /\ ~create_set_handle(t)
        <3>1. \/ UNCHANGED reg
              \/ \E l : reg' = [reg EXCEPT ![t].mask = l]
              \/ \E l : reg' = [reg EXCEPT ![t].count = l]
              \/ \E l : reg' = [reg EXCEPT ![t].h = l]
            BY <1>9, <2>4 DEF task_create_step, create_link, mask_load, mask_store, count_load,
                        count_store, create_handle
        <3>2. reg'[t].obj = reg[t].obj /\ \A x \in Task \ {t} : reg'[x] = reg[x]
            BY <1>1, <3>1 DEF Locals
        <3>3. \E p : Goto(t, p)
            BY <1>9, <2>4 DEF task_create_step, create_link, mask_load, mask_store, count_load,
                        count_store, create_handle
        <3>4. \A x \in Task \ {t} : pc'[x] = pc[x]
            BY <1>1, <3>3 DEF Goto
        <3> QED BY <2>1, <3>2, <3>4 DEF CreatesOther
    <2> QED BY <2>2, <2>3, <2>4
<1>10. CASE idle_step
    <2>1. CASE cleanup_free
        <3> DEFINE u == reg[Idle].obj
        <3>1. /\ pc' = [pc EXCEPT ![Idle] = "i_clean", ![u] = "run"]
              /\ reg' = [reg EXCEPT ![Idle] = NoReg, ![u] = NoReg]
            BY <2>1 DEF cleanup_free
        <3> HIDE DEF u
        <3>2. ASSUME NEW x \in Task \ {Idle, u} PROVE pc'[x] = pc[x] /\ reg'[x] = reg[x]
            BY <1>1, <3>1
        <3>3. ASSUME NEW x \in Task \cap {Idle, u} PROVE pc'[x] \in {"i_clean", "run"}
            BY <1>1, <3>1
        <3> QED BY <3>2, <3>3 DEF CreatesOther, CreatePc
    <2>2. CASE cleanup_pop \/ idle_enable
        <3>1. PICK p \in IdlePc : Goto(Idle, p)
            BY <2>2 DEF cleanup_pop, idle_enable, IdlePc
        <3>2. UNCHANGED reg \/ \E l : reg' = [reg EXCEPT ![Idle].obj = l]
            BY <2>2 DEF cleanup_pop, idle_enable
        <3>3. Moves(Idle, p) /\ p \notin CreatePc
            BY <1>1, <3>1, <3>2, RegMoves DEF IdlePc, CreatePc
        <3> QED BY <1>1, <3>3, OtherCreates DEF Moves
    <2> QED BY <1>10, <2>1, <2>2 DEF idle_step
<1> QED BY <1>2, <1>4, <1>6, <1>7, <1>8, <1>9, <1>10 DEF Next, AppCall, CorruptLoop

(* The callers of task_delete_obj. *)
LEMMA DeletePunctual ==
    ASSUME TypeInv, AlwaysInv, ClockInv, CreatesOther, NEW t \in Task,
           task_delete_found(t) \/ task_exit(t) \/ create_fail(t)
    PROVE  Punctual
<1>1. ret \in [Task -> RetPc] /\ tick' = tick /\ left' = left
    BY DEF task_delete_found, task_exit, create_fail, TypeInv, TypeOK
<1>2. CASE task_delete_found(t)
    <2> DEFINE u == reg[t].obj
    <2>1. /\ task_delete_obj(t, u, "run") /\ LoopIfSelf(t, u) /\ pc[t] = "d_obj"
          /\ reg' = [reg EXCEPT ![t].obj = None]
        BY <1>2 DEF task_delete_found, At
    <2>2. u \in Task
        BY <2>1 DEF TypeInv, LocalsOK
    <2> HIDE DEF u
    <2>3. /\ \A x \in Task \ {t} : ret'[x] = ret[x]
          /\ u = t => ret'[t] = "ecall"
        BY <1>1, <2>1 DEF LoopIfSelf
    <2> QED BY <1>1, <2>1, <2>2, <2>3, DeleteObjPunctual
<1>3. CASE task_exit(t)
    <2>1. /\ reg' = reg /\ pc[t] = "run"
          /\ task_delete_obj(t, t, "ecall") /\ ret' = [ret EXCEPT ![t] = "ecall"]
        BY <1>3 DEF task_exit, LoopIfSelf, Call, At
    <2>2. ret'[t] = "ecall" /\ \A x \in Task \ {t} : ret'[x] = ret[x]
        BY <1>1, <2>1
    <2> QED BY <1>1, <2>1, <2>2, DeleteObjPunctual
<1>4. CASE create_fail(t)
    <2> DEFINE u == reg[t].obj
    <2>1. /\ task_delete_obj(t, u, "run") /\ ret' = ret /\ pc[t] = "c_fail"
          /\ reg' = [reg EXCEPT ![t].obj = None]
        BY <1>4 DEF create_fail, At
    <2>2. u \in Task /\ u # t
        BY <2>1 DEF TypeInv, LocalsOK, CreatePc, CreatesOther
    <2> HIDE DEF u
    <2> QED BY <1>1, <2>1, <2>2, DeleteObjPunctual
<1> QED BY <1>2, <1>3, <1>4

(* task_delay_ticks blocks until its deadline and returns after it. *)
LEMMA SleepPunctual ==
    ASSUME TypeInv, AlwaysInv, ClockInv, NEW t \in Task, sleep_loop(t) \/ sleep_block(t)
    PROVE  Punctual
<1> USE DEF taskvars, history
<1>1. /\ k \in Scheduler /\ pc \in [Task -> Pc] /\ ret \in [Task -> RetPc]
      /\ reg \in [Task -> Locals] /\ left \in [Task -> Nat] /\ tick \in Ticks /\ Calm(k, k)
    BY CalmFields DEF TypeInv, TypeOK
<1>2. pc[t] \in {"sl_loop", "sl_crit"} /\ tick' = tick /\ left' = left
    BY DEF sleep_loop, sleep_block, At
<1>3. Sleeps(t) /\ Ahead(tick, reg[t].due, left[t]) /\ left[t] \in Nat
    BY <1>1, <1>2 DEF Sleeps, ClockInv, ClockAt
<1>4. ASSUME timer_expired(tick, reg[t].due), sleep_done(t) PROVE Punctual
    <2>1. left[t] = 0
        BY <1>1, <1>3, <1>4, AheadNotExpired
    <2>2. k' = k /\ ret' = ret /\ Goto(t, "run") /\ reg' = [reg EXCEPT ![t].due = 0]
        BY <1>4 DEF sleep_done
    <2>3. Moves(t, "run") /\ pc'[t] = "run"
        BY <2>2, RegMoves DEF Moves
    <2>4. ~Sleeps(t)'
        BY <2>3 DEF Sleeps, YieldPc
    <2>5. ClockAt(t)' /\ OnTime(t)
        BY <1>1, <1>2, <2>1, <2>2, <2>4, CalmTask DEF Calm, ClockInv
    <2> QED BY <1>1, <1>2, <2>2, <2>3, <2>5, TaskPunctual DEF Calm
<1>5. ASSUME Goto(t, "sl_crit"), k' = k, ret' = ret, reg' = reg PROVE Punctual
    <2>1. Moves(t, "sl_crit") /\ pc'[t] = "sl_crit"
        BY <1>5, RegMoves DEF Moves
    <2> QED BY <1>1, <1>2, <1>3, <1>5, <2>1, CalmPunctual
<1>6. ASSUME k' = sched_timeout_insert(sched_ready_remove(
                      [k EXCEPT !.wakeup[t] = reg[t].due, !.timer[t] = TRUE,
                                !.wres[t] = "NONE", !.state[t] = "BLOCKED"], t), t),
             CallYield(t, "sl_loop"), UNCHANGED reg
      PROVE  Punctual
    <2>1. reg[t].due \in Ticks
        BY <1>1 DEF Locals
    <2>2. BlocksOnTime(k, k', t) /\ k'.wakeup[t] = reg[t].due
        <3>1. PICK due \in Ticks : due = reg[t].due
            BY <2>1
        <3>2. k' = Asleep(k, t, due)
            BY <1>6, <3>1 DEF Asleep
        <3>3. BlocksOnTime(k, k', t) /\ k'.wakeup[t] = due
            BY <1>1, <3>2, SleepBlocks
        <3> QED BY <3>1, <3>3
    <2>3. /\ pc'[t] = "y_chk" /\ ret'[t] = "sl_loop" /\ Moves(t, "y_chk")
          /\ \A x \in Task \ {t} : ret'[x] = ret[x]
        BY <1>1, <1>6, GotoMoves DEF CallYield, Goto
    <2>4. ClockAt(t)'
        BY <1>2, <1>3, <1>6, <2>2 DEF ClockAt, BlocksOnTime
    <2>5. OnTime(t)
        BY <2>2, <2>3 DEF OnTime, BlocksOnTime
    <2> QED BY <1>2, <2>2, <2>3, <2>4, <2>5, TaskPunctual DEF BlocksOnTime
<1> QED BY <1>4, <1>5, <1>6 DEF sleep_loop, sleep_block

(* What else a task does in the kernel. *)
LEMMA KernelPunctual ==
    ASSUME TypeInv, AlwaysInv, ClockInv, NEW t \in Task,
           \/ wait_return(t)
           \/ wake_all_round(t, "wq_all", "OBJECT", "run")
           \/ task_yield_step(t)
           \/ task_create_step(t) /\ ~create_fail(t)
    PROVE  Punctual
<1> USE DEF taskvars, history
<1>1. /\ k \in Scheduler /\ pc \in [Task -> Pc] /\ ret \in [Task -> RetPc]
      /\ reg \in [Task -> Locals] /\ Calm(k, k)
    BY CalmFields DEF TypeInv, TypeOK
<1>2. CASE wait_return(t) \/ wake_all_round(t, "wq_all", "OBJECT", "run")
    <2>1. pc[t] \in {"wq_ret", "wq_all"} /\ tick' = tick /\ left' = left /\ ret' = ret
        BY <1>2 DEF wait_return, wake_all_round, At
    <2>2. Calm(k, k')
        <3>1. CASE wait_return(t)
            BY <1>1, <3>1 DEF wait_return
        <3>2. CASE wake_all_round(t, "wq_all", "OBJECT", "run")
            <4>1. k' = trt_wait_q_wake_one_result_locked(k, reg[t].q, "OBJECT") /\ pc[t] = "wq_all"
                BY <3>2 DEF wake_all_round, At
            <4>2. reg[t].q \in WaitQ /\ "OBJECT" \in WaitResult
                BY <4>1 DEF TypeInv, LocalsOK, WaitResult
            <4> QED BY <1>1, <4>1, <4>2, CalmWake
        <3> QED BY <1>2, <3>1, <3>2
    <2>3. Moves(t, pc'[t]) /\ pc'[t] \in {"run", "wq_all"}
        <3>1. Goto(t, "run") \/ (UNCHANGED pc /\ pc[t] = "wq_all")
            BY <1>2 DEF wait_return, wake_all_round, At
        <3>2. UNCHANGED reg \/ \E l : reg' = [reg EXCEPT ![t].q = l]
            BY <1>2 DEF wait_return, wake_all_round
        <3>3. Moves(t, "run") \/ Moves(t, "wq_all")
            BY <3>1, <3>2, RegMoves, GotoMoves
        <3> QED BY <3>3 DEF Moves
    <2>4. ~Sleeps(t)'
        BY <2>3 DEF Sleeps, YieldPc
    <2> QED BY <2>1, <2>2, <2>3, <2>4, CalmPunctual
<1>3. CASE task_yield_step(t)
    <2>1. /\ pc[t] \in YieldPc /\ tick' = tick /\ left' = left /\ ret' = ret
        BY <1>3 DEF task_yield_step, yield_check, yield_link, mask_load, mask_store, arch_yield,
           At, YieldPc
    <2>2. Calm(k, k')
        <3>1. \/ k' = k
              \/ k' = sched_set_pending(k)
              \/ k' = [k EXCEPT !.state[t] = "READY"]
              \/ k' = ready_link(k, t)
              \/ k' = [k EXCEPT !.mask = reg[t].mask \cup {k.prio[t]}]
            BY <1>3 DEF task_yield_step, yield_check, yield_link, mask_load, mask_store, arch_yield
        <3>2. CASE k' = ready_link(k, t)
            BY <1>1, <3>2, CalmLists
        <3>3. CASE k' = sched_set_pending(k)
            BY <1>1, <3>3 DEF Calm, CalmAt, Scheduler, sched_set_pending
        <3>4. CASE k' = [k EXCEPT !.state[t] = "READY"]
            BY <1>1, <3>4 DEF Calm, CalmAt, Scheduler
        <3>5. CASE k' = [k EXCEPT !.mask = reg[t].mask \cup {k.prio[t]}]
            BY <1>1, <3>5 DEF Calm, CalmAt, Scheduler
        <3> QED BY <1>1, <3>1, <3>2, <3>3, <3>4, <3>5
    <2>3. reg' = reg \/ \E l : reg' = [reg EXCEPT ![t].mask = l]
        BY <1>3 DEF task_yield_step, yield_check, yield_link, mask_load, mask_store, arch_yield
    <2>4. \E p \in YieldPc \cup {ret[t]} : Goto(t, p)
        BY <1>3 DEF task_yield_step, yield_check, yield_link, mask_load, mask_store, arch_yield,
           YieldPc
    <2>5. PICK p \in YieldPc \cup {ret[t]} : Goto(t, p)
        BY <2>4
    <2>6. Moves(t, p) /\ pc'[t] = p
        BY <2>3, <2>5, RegMoves DEF Moves
    <2>7. reg'[t].due = reg[t].due
        BY <1>1, <2>3 DEF Locals
    <2>8. Sleeps(t)' => Sleeps(t)
        <3>1. ret[t] \notin {"y_chk", "y_enq", "y_load", "y_store", "sl_crit"}
            BY <1>1 DEF RetPc
        <3> QED BY <2>1, <2>5, <2>6, <3>1 DEF Sleeps, YieldPc
    <2>9. pc[t] \notin {"sl_loop", "sl_crit"}
        BY <2>1 DEF YieldPc
    <2> QED BY <2>1, <2>2, <2>6, <2>7, <2>8, <2>9, CalmPunctual
<1>4. CASE task_create_step(t) /\ ~create_fail(t)
    <2>1. pc[t] \in CreatePc /\ tick' = tick /\ left' = left /\ ret' = ret
        BY <1>4 DEF task_create_step, create_link, mask_load, mask_store, count_load,
           count_store, create_handle, create_set_handle, At, CreatePc
    <2>2. Calm(k, k')
        <3>1. \/ k' = k
              \/ k' = ready_link(k, reg[t].obj)
              \/ k' = [k EXCEPT !.mask = reg[t].mask \cup {k.prio[reg[t].obj]}]
            BY <1>4 DEF task_create_step, create_link, mask_load, mask_store, count_load,
               count_store, create_handle, create_set_handle
        <3>2. reg[t].obj \in Task
            BY <2>1 DEF TypeInv, LocalsOK
        <3>3. CASE k' = ready_link(k, reg[t].obj)
            BY <1>1, <3>2, <3>3, CalmLists
        <3>4. CASE k' = [k EXCEPT !.mask = reg[t].mask \cup {k.prio[reg[t].obj]}]
            BY <1>1, <3>4 DEF Calm, CalmAt, Scheduler
        <3> QED BY <1>1, <3>1, <3>3, <3>4
    <2>3. PICK p \in CreatePc \cup {"run"} : Goto(t, p)
        BY <1>4 DEF task_create_step, create_link, mask_load, mask_store, count_load,
           count_store, create_handle, create_set_handle, CreatePc
    <2>4. \/ UNCHANGED reg
          \/ \E l : reg' = [reg EXCEPT ![t].mask = l]
          \/ \E l : reg' = [reg EXCEPT ![t].count = l]
          \/ \E l : reg' = [reg EXCEPT ![t].h = l]
          \/ \E l : reg' = [reg EXCEPT ![t] = l]
        BY <1>4 DEF task_create_step, create_link, mask_load, mask_store, count_load,
           count_store, create_handle, create_set_handle
    <2>5. Moves(t, p) /\ pc'[t] = p
        BY <2>3, <2>4, RegMoves DEF Moves
    <2>6. ~Sleeps(t)' /\ pc[t] \notin {"sl_loop", "sl_crit"}
        BY <2>1, <2>5, Places DEF Sleeps, YieldPc
    <2> QED BY <2>1, <2>2, <2>5, <2>6, CalmPunctual
<1> QED BY <1>2, <1>3, <1>4

(* idle_task: the freed TCB has no deadline. *)
LEMMA IdlePunctual ==
    ASSUME TypeInv, AlwaysInv, ClockInv, idle_step
    PROVE  Punctual
<1> USE DEF taskvars, history
<1>1. /\ k \in Scheduler /\ pc \in [Task -> Pc] /\ ret \in [Task -> RetPc]
      /\ reg \in [Task -> Locals] /\ left \in [Task -> Nat] /\ Calm(k, k) /\ Idle \in Task
    BY CalmFields, SchedAssumption DEF TypeInv, TypeOK
<1>2. CASE cleanup_pop \/ idle_enable
    <2>1. PICK p \in IdlePc : Goto(Idle, p)
        BY <1>2 DEF cleanup_pop, idle_enable, IdlePc
    <2>2. /\ UNCHANGED reg \/ \E l : reg' = [reg EXCEPT ![Idle].obj = l]
          /\ pc[Idle] \in IdlePc /\ tick' = tick /\ left' = left /\ ret' = ret
        BY <1>2 DEF cleanup_pop, idle_enable, At, IdlePc
    <2>3. Moves(Idle, p) /\ pc'[Idle] = p
        BY <1>1, <2>1, <2>2, RegMoves DEF Moves
    <2>4. ~Sleeps(Idle)' /\ pc[Idle] \notin {"sl_loop", "sl_crit"}
        BY <2>2, <2>3 DEF Sleeps, YieldPc, IdlePc
    <2>5. k' = k \/ k' = [k EXCEPT !.deleted = Tail(@)]
        BY <1>2 DEF cleanup_pop, idle_enable
    <2>6. Calm(k, k')
        BY <1>1, <2>5 DEF Scheduler, Calm, CalmAt
    <2> QED BY <1>1, <2>2, <2>3, <2>4, <2>6, CalmPunctual
<1>3. CASE cleanup_free
    <2>0. PICK u : u = reg[Idle].obj
        OBVIOUS
    <2>1. /\ k' = Freed(k, u) /\ pc[Idle] = "i_free" /\ tick' = tick
          /\ pc' = [pc EXCEPT ![Idle] = "i_clean", ![u] = "run"]
          /\ ret' = [ret EXCEPT ![u] = "run"]
          /\ reg' = [reg EXCEPT ![Idle] = NoReg, ![u] = NoReg]
          /\ left' = [left EXCEPT ![u] = 0]
        BY <1>3, <2>0 DEF cleanup_free, At, Freed
    <2>2. u # Idle /\ k.state[u] = "DELETED" /\ u \in Task
        BY <2>0, <2>1, SchedAssumption DEF AlwaysInv, FreeOK, TypeInv, LocalsOK
    <2>3. 0 \in Prio
        BY SchedAssumption DEF Prio
    <2>4. Calm(k, k')
        BY <1>1, <2>1, <2>2, <2>3, CalmTcb
    <2>5. k'.state[u] = "UNUSED" /\ pc'[u] = "run" /\ pc'[Idle] = "i_clean"
        BY <1>1, <2>1, <2>2 DEF Freed, Scheduler
    <2>6. ClockAt(u)' /\ OnTime(u)
        BY <2>2, <2>5 DEF ClockAt, OnTime, Sleeps, YieldPc
    <2>7. ASSUME NEW x \in Task \ {u} PROVE ClockAt(x)' /\ OnTime(x)
        <3>1. /\ left'[x] = left[x] /\ ret'[x] = ret[x]
              /\ x # Idle => pc'[x] = pc[x] /\ reg'[x] = reg[x]
            BY <1>1, <2>1
        <3>2. Sleeps(x)' => Sleeps(x) /\ reg'[x].due = reg[x].due
            BY <2>5, <3>1 DEF Sleeps, YieldPc
        <3>3. ~(pc[x] \in {"sl_loop", "sl_crit"} /\ pc'[x] = "run")
            BY <2>5, <3>1
        <3> QED BY <2>1, <2>4, <3>1, <3>2, <3>3, CalmTask DEF Calm, ClockInv
    <2> QED BY <2>6, <2>7 DEF Punctual
<1> QED BY <1>2, <1>3 DEF idle_step

(* Where no task runs: the program counters stay, or one goes to the       *)
(* beginning of the loop of idle_task.                                     *)
Stays ==
    /\ \A x \in Task : pc'[x] = pc[x] \/ pc'[x] = "i_clean"
    /\ ret' = ret /\ reg' = reg

(* Such a step puts nobody to sleep and ends no sleep. *)
LEMMA StaysAsleep ==
    ASSUME Stays, NEW x \in Task
    PROVE  /\ Sleeps(x)' => Sleeps(x) /\ reg'[x].due = reg[x].due
           /\ ~(pc[x] \in {"sl_loop", "sl_crit"} /\ pc'[x] = "run")
BY DEF Stays, Sleeps, YieldPc

(* With a calm operator it is punctual. *)
LEMMA StaysPunctual ==
    ASSUME ClockInv, Stays, Calm(k, k'), tick' = tick, left' = left
    PROVE  Punctual
<1> SUFFICES ASSUME NEW x \in Task PROVE ClockAt(x)' /\ OnTime(x)
    BY DEF Punctual
<1> QED BY StaysAsleep, CalmTask DEF ClockInv, Calm

(* The systick brings every deadline nearer. *)
LEMMA SystickPunctual ==
    ASSUME TypeInv, ClockInv, Systick
    PROVE  Punctual
<1> USE DEF taskvars, history
<1>1. PICK d \in 1..MaxJump : SysTick(d)
    BY DEF Systick
<1>2. /\ d \in Nat /\ d < TickMod /\ tick \in Ticks /\ left \in [Task -> Nat]
      /\ pc \in [Task -> Pc]
    BY KernelAssumption, SchedAssumption DEF TypeInv, TypeOK
<1>3. /\ k' = k /\ tick' = (tick + d) % TickMod
      /\ \A x \in Task : left'[x] = Monus(left[x], d)
    BY <1>1 DEF SysTick
<1>4. Stays
    BY <1>1, <1>2 DEF SysTick, Interrupted, Stays
<1> SUFFICES ASSUME NEW x \in Task PROVE ClockAt(x)' /\ OnTime(x)
    BY DEF Punctual
<1>5. /\ Sleeps(x)' => Sleeps(x) /\ reg'[x].due = reg[x].due
      /\ ~(pc[x] \in {"sl_loop", "sl_crit"} /\ pc'[x] = "run")
    BY <1>4, StaysAsleep
<1>6. ASSUME NEW w, Ahead(tick, w, left[x]) PROVE Ahead(tick', w, left'[x])
    <2>1. left[x] \in Nat
        BY <1>2
    <2> QED BY <1>2, <1>3, <1>6, <2>1, AheadTick
<1>7. ClockAt(x)
    BY DEF ClockInv
<1>8. ClockAt(x)'
    BY <1>3, <1>5, <1>6, <1>7 DEF ClockAt
<1> QED BY <1>3, <1>5, <1>8 DEF OnTime

(* sched_wake_expired takes a task off the timeout list that is due. *)
LEMMA ExpiredPunctual ==
    ASSUME TypeInv, ClockInv, sched_wake_expired
    PROVE  Punctual
<1> USE DEF taskvars, history
<1>1. PICK t : t = Head(k.timeout)
    OBVIOUS
<1>2. /\ k \in Scheduler /\ tick \in Ticks /\ left \in [Task -> Nat]
      /\ k.timeout # <<>> /\ timer_expired(tick, k.wakeup[t])
      /\ k' = sched_wake_expired_one(k) /\ tick' = tick /\ left' = left
    BY <1>1 DEF TypeInv, TypeOK, sched_wake_expired, HeadExpired
<1>3. t \in Task
    BY <1>1, <1>2 DEF Scheduler
<1>4. Stays
    BY DEF sched_wake_expired, Stays
<1>5. CASE k.state[t] = "BLOCKED" /\ k.timer[t]
    <2>1. left[t] = 0
        <3>1. Ahead(tick, k.wakeup[t], left[t]) /\ left[t] \in Nat
            BY <1>2, <1>3, <1>5 DEF ClockInv, ClockAt
        <3> QED BY <1>2, <3>1, AheadNotExpired
    <2> DEFINE w == [StateListDel([k EXCEPT !.timeout = Tail(@)], t) EXCEPT
                        !.timer[t] = FALSE, !.wres[t] = "TIMEOUT", !.state[t] = "READY"]
    <2>2. k' = sched_ready_enqueue(w, t)
        BY <1>1, <1>2, <1>5 DEF sched_wake_expired_one
    <2>3. /\ w.state = [k.state EXCEPT ![t] = "READY"]
          /\ w.wres = [k.wres EXCEPT ![t] = "TIMEOUT"]
          /\ w.timer = [k.timer EXCEPT ![t] = FALSE] /\ w.wakeup = k.wakeup
          /\ DOMAIN w = DOMAIN k
        BY <1>2 DEF Scheduler, StateListDel
    <2> HIDE DEF w
    <2>4. /\ k'.state = w.state /\ k'.wres = w.wres /\ k'.timer = w.timer
          /\ k'.wakeup = w.wakeup
        BY <1>2, <2>2, <2>3 DEF Scheduler, sched_ready_enqueue, ready_link
    <2>5. ASSUME NEW x \in Task \ {t} PROVE CalmAt(k, k', x)
        BY <1>2, <2>3, <2>4 DEF CalmAt, Scheduler
    <2>6. k'.state[t] = "READY"
        BY <1>2, <1>3, <2>3, <2>4 DEF Scheduler
    <2> SUFFICES ASSUME NEW x \in Task PROVE ClockAt(x)' /\ OnTime(x)
        BY DEF Punctual
    <2>7. CASE x = t
        <3>1. Sleeps(t)' => Sleeps(t) /\ reg'[t].due = reg[t].due
            BY <1>3, <1>4, StaysAsleep
        <3>2. ClockAt(t)
            BY <1>3 DEF ClockInv
        <3> QED BY <1>2, <2>1, <2>6, <2>7, <3>1, <3>2 DEF ClockAt, OnTime
    <2>8. CASE x # t
        BY <1>2, <1>4, <2>5, <2>8, StaysAsleep, CalmTask DEF ClockInv
    <2> QED BY <2>7, <2>8
<1>6. CASE ~(k.state[t] = "BLOCKED" /\ k.timer[t])
    <2>1. k' = [k EXCEPT !.timeout = Tail(@)]
        BY <1>1, <1>2, <1>6 DEF sched_wake_expired_one
    <2>2. Calm(k, k')
        <3>1. /\ k'.state = k.state /\ k'.wres = k.wres
              /\ k'.wakeup = k.wakeup /\ k'.timer = k.timer
            BY <1>2, <2>1 DEF Scheduler
        <3> QED BY <3>1, CalmFields
    <2> QED BY <1>2, <1>4, <2>2, StaysPunctual
<1> QED BY <1>5, <1>6

(* Boot and the other traps. *)
LEMMA BootTrapPunctual ==
    ASSUME TypeInv, ClockInv, Boot \/ Irq \/ TrapReturn \/ UNCHANGED vars
    PROVE  Punctual
<1> USE DEF taskvars, history
<1>1. k \in Scheduler /\ Calm(k, k) /\ pc \in [Task -> Pc]
    BY CalmFields DEF TypeInv, TypeOK
<1>2. Stays /\ tick' = tick /\ left' = left
    BY <1>1 DEF Boot, kernel_init, app_main_create, app_main_object, rtos_start, Irq,
       Interrupted, TrapReturn, vars, Stays
<1>3. Calm(k, k')
    <2>1. CASE Irq
        <3>1. \/ k' = k
              \/ \E q \in WaitQ : k' = trt_wait_q_wake_one_from_isr(k, q)
            BY <2>1 DEF Irq
        <3>2. "OBJECT" \in WaitResult
            BY DEF WaitResult
        <3> QED BY <1>1, <3>1, <3>2, CalmWake
    <2>2. CASE TrapReturn
        BY <1>1, <2>2, CalmTrap DEF TrapReturn
    <2>3. ASSUME NEW u \in Task, NEW p \in Prio
          PROVE  /\ sched_ready_enqueue(InitTcb(k, u, p), u) \in Scheduler
                 /\ Calm(k, sched_ready_enqueue(InitTcb(k, u, p), u))
        <3>1. InitTcb(k, u, p) \in Scheduler /\ Calm(k, InitTcb(k, u, p))
            BY <1>1, CalmTcb, InitTcbType
        <3> QED BY <3>1, CalmLists, CalmTwice, EnqueueType
    <2>4. CASE kernel_init
        <3> DEFINE s == sched_ready_enqueue(InitTcb(k, Idle, 0), Idle)
        <3>1. s \in Scheduler /\ Calm(k, s)
            BY <2>3, SchedAssumption DEF Prio
        <3>2. k' = [s EXCEPT !.idle = Idle]
            BY <2>4 DEF kernel_init
        <3> HIDE DEF s
        <3>3. Calm(s, k')
            BY <3>1, <3>2 DEF Scheduler, Calm, CalmAt
        <3> QED BY <3>1, <3>3, CalmTwice
    <2>5. ASSUME NEW p \in CreatePrio, app_main_create(p) PROVE Calm(k, k')
        <3>1. PICK u \in FreeSlots :
                  \/ k' = sched_ready_enqueue(InitTcb(k, u, p), u)
                  \/ k' = sched_mark_deleted(sched_ready_enqueue(InitTcb(k, u, p), u), u)
            BY <2>5 DEF app_main_create
        <3>2. u \in Task /\ p \in Prio
            BY KernelAssumption DEF FreeSlots
        <3> DEFINE s == sched_ready_enqueue(InitTcb(k, u, p), u)
        <3>3. s \in Scheduler /\ Calm(k, s) /\ (k' = s \/ k' = sched_mark_deleted(s, u))
            BY <2>3, <3>1, <3>2
        <3> HIDE DEF s
        <3> QED BY <3>2, <3>3, CalmMark, CalmTwice
    <2>6. CASE rtos_start
        <3> DEFINE s == sched_pick_next(k)
        <3>1. s \in Scheduler /\ Calm(k, s)
            BY <1>1, CalmPick, PickNextType
        <3>2. k' = [s EXCEPT !.started = TRUE]
            BY <2>6 DEF rtos_start
        <3> HIDE DEF s
        <3>3. Calm(s, k')
            BY <3>1, <3>2 DEF Scheduler, Calm, CalmAt
        <3> QED BY <3>1, <3>3, CalmTwice
    <2>7. CASE app_main_object \/ UNCHANGED vars
        BY <1>1, <2>7 DEF app_main_object, vars
    <2> QED BY <2>1, <2>2, <2>4, <2>5, <2>6, <2>7 DEF Boot
<1> QED BY <1>2, <1>3, StaysPunctual

(* Every step is punctual. *)
LEMMA NextPunctual ==
    TypeInv /\ AlwaysInv /\ CreatesOther /\ ClockInv /\ [Next]_vars => Punctual
<1> SUFFICES ASSUME TypeInv, AlwaysInv, CreatesOther, ClockInv, [Next]_vars PROVE Punctual
    OBVIOUS
<1>1. ASSUME NEW t \in Task, AppCall(t) PROVE Punctual
    BY <1>1, CallPunctual, DelayPunctual, DeletePunctual DEF AppCall
<1>2. ASSUME NEW t \in Task, KernelStep(t) PROVE Punctual
    <2>1. CASE t = Idle /\ idle_step
        BY <2>1, IdlePunctual
    <2>2. CASE ~(t = Idle /\ idle_step)
        <3>1. \/ task_delete_found(t) \/ create_fail(t)
              \/ sleep_loop(t) \/ sleep_block(t)
              \/ wait_return(t)
              \/ wake_all_round(t, "wq_all", "OBJECT", "run")
              \/ task_yield_step(t)
              \/ task_create_step(t) /\ ~create_fail(t)
            BY <1>2, <2>2 DEF KernelStep
        <3> QED BY <3>1, DeletePunctual, SleepPunctual, KernelPunctual
    <2> QED BY <2>1, <2>2
<1>3. CASE Systick
    BY <1>3, SystickPunctual
<1>4. CASE sched_wake_expired
    BY <1>4, ExpiredPunctual
<1>5. CASE Boot \/ Irq \/ TrapReturn \/ UNCHANGED vars
    BY <1>5, BootTrapPunctual
<1> QED BY <1>1, <1>2, <1>3, <1>4, <1>5 DEF Next, TrapStep, CorruptLoop

(* What is asked for is waited for, whatever interrupts the task: no       *)
(* timeout is given and no task_sleep returns before its number of ticks   *)
(* has passed, through every wrap of tick_count.                           *)
THEOREM DelaysAreNotCutShort == Spec => NoEarlyTimeout
<1>1. Init => CreatesOther /\ ClockInv
    BY DEF Init, sched_init, CreatesOther, CreatePc, ClockInv, ClockAt, Sleeps, YieldPc
<1>2. TypeInv /\ AlwaysInv /\ CreatesOther /\ ClockInv /\ [Next]_vars
         => (CreatesOther /\ ClockInv)'
    BY NextPunctual, CreatesOtherStep DEF Punctual, ClockInv
<1>3. TypeInv /\ AlwaysInv /\ CreatesOther /\ ClockInv /\ [Next]_vars =>
         [\A t \in Task :
             \/ k.state[t] = "BLOCKED" /\ k'.state[t] = "READY" /\ k'.wres[t] = "TIMEOUT"
             \/ pc[t] \in {"sl_loop", "sl_crit"} /\ pc'[t] = "run" /\ k.state[t] = "RUNNING"
             => left[t] = 0]_vars
    BY NextPunctual DEF Punctual, OnTime
<1> QED BY <1>1, <1>2, <1>3, AlwaysCorrect, PTL DEF Spec, NoEarlyTimeout

-----------------------------------------------------------------------------
(* The tick counter wraps.  tick_count is compared by the sign of a        *)
(* difference (timer_expired, tick_before).                                *)

(* Half the range of tick_count: what int32_t takes for the future. *)
Half == TickMod \div 2

(* The value of (int32_t) d, for a difference d of two tick counts. *)
Signed(d) == IF d % TickMod < Half THEN d % TickMod ELSE (d % TickMod) - TickMod

(* The range of tick_count, by halves. *)
LEMMA Halves == TickMod \in Nat /\ Half \in Nat \ {0} /\ TickMod = 2 * Half
BY SchedAssumption DEF Half

(* The remainder of a number a little out of range. *)
LEMMA WrapFar ==
    ASSUME NEW x \in Int, NEW m \in 0..(TickMod - 1),
           x - m \in {0, TickMod, -TickMod, 2 * TickMod, -(2 * TickMod)}
    PROVE  x % TickMod = m
<1>1. TickMod \in Nat \ {0}
    BY SchedAssumption
<1>2. CASE x = m
    BY <1>1, <1>2
<1>3. CASE x = m + TickMod
    BY <1>1, <1>3
<1>4. CASE x = m - TickMod
    BY <1>1, <1>4
<1>5. CASE x = m + 2 * TickMod
    BY <1>1, <1>5
<1>6. CASE x = m - 2 * TickMod
    BY <1>1, <1>6
<1> QED BY <1>1, <1>2, <1>3, <1>4, <1>5, <1>6

(* What Signed(d) is, if d is known up to turns of the counter. *)
LEMMA SignedIs ==
    ASSUME NEW d \in Int, NEW x \in -Half..(Half - 1),
           d - x \in {0, TickMod, -TickMod, 2 * TickMod, -(2 * TickMod)}
    PROVE  Signed(d) = x
<1>1. TickMod \in Nat /\ Half \in Nat \ {0} /\ TickMod = 2 * Half
    BY Halves
<1>2. CASE x >= 0
    <2>1. d % TickMod = x
        BY <1>1, <1>2, WrapFar
    <2> QED BY <1>1, <1>2, <2>1 DEF Signed
<1>3. CASE x < 0
    <2> DEFINE m == x + TickMod
    <2>1. m \in 0..(TickMod - 1)
        BY <1>1, <1>3
    <2>2. d - x \in {0, TickMod, -TickMod} => d % TickMod = m
        BY <1>1, <2>1, WrapFar
    <2> QED BY <1>1, <1>3, <2>1, <2>2 DEF Signed
<1> QED BY <1>1, <1>2, <1>3

(* A difference of two tick counts is what Signed makes of it, up to a     *)
(* turn of the counter.                                                    *)
LEMMA SignedFact ==
    ASSUME NEW d \in -(TickMod - 1)..(TickMod - 1)
    PROVE  /\ Signed(d) \in -Half..(Half - 1)
           /\ d - Signed(d) \in {0, TickMod, -TickMod}
<1>1. TickMod \in Nat /\ Half \in Nat \ {0} /\ TickMod = 2 * Half
    BY Halves
<1>2. CASE d >= 0
    <2>1. d % TickMod = d
        BY <1>1, <1>2
    <2> QED BY <1>1, <1>2, <2>1 DEF Signed
<1>3. CASE d < 0
    <2>1. d % TickMod = d + TickMod
        BY <1>1, <1>3
    <2> QED BY <1>1, <1>3, <2>1 DEF Signed
<1> QED BY <1>1, <1>2, <1>3

(* timer_expired and TickBefore in these terms. *)
LEMMA SignedExpired ==
    ASSUME NEW now \in Ticks, NEW w \in Ticks
    PROVE  /\ timer_expired(now, w) <=> Signed(now - w) >= 0
           /\ TickBefore(now, w) <=> Signed(now - w) < 0
           /\ Signed(now - w) \in -Half..(Half - 1)
<1>1. TickMod \in Nat /\ Half \in Nat \ {0} /\ TickMod = 2 * Half
    BY Halves
<1>2. now - w \in -(TickMod - 1)..(TickMod - 1)
    BY <1>1 DEF Ticks
<1>3. (now - w) % TickMod \in 0..(TickMod - 1)
    BY <1>1, <1>2
<1>4. Signed(now - w) \in -Half..(Half - 1)
    BY <1>2, SignedFact
<1>5. timer_expired(now, w) <=> (now - w) % TickMod < Half
    BY DEF timer_expired, Half
<1> QED BY <1>1, <1>3, <1>4, <1>5 DEF Signed, TickBefore

(* Two deadlines less than half the range apart are ordered as they are    *)
(* late.                                                                   *)
LEMMA SignedBetween ==
    ASSUME NEW now \in Ticks, NEW a \in Ticks, NEW b \in Ticks,
           Signed(now - a) - Signed(now - b) < Half,
           Signed(now - b) - Signed(now - a) < Half
    PROVE  TickBefore(a, b) <=> Signed(now - b) < Signed(now - a)
<1>1. TickMod \in Nat /\ Half \in Nat \ {0} /\ TickMod = 2 * Half
    BY Halves
<1> DEFINE x == Signed(now - a)
           y == Signed(now - b)
<1>2. /\ now - a \in -(TickMod - 1)..(TickMod - 1)
      /\ now - b \in -(TickMod - 1)..(TickMod - 1)
    BY <1>1 DEF Ticks
<1>3. /\ x \in -Half..(Half - 1) /\ (now - a) - x \in {0, TickMod, -TickMod}
      /\ y \in -Half..(Half - 1) /\ (now - b) - y \in {0, TickMod, -TickMod}
    BY <1>2, SignedFact
<1> HIDE DEF x, y
<1>4. y - x \in -Half..(Half - 1)
    BY <1>1, <1>3 DEF x, y
<1>5. (a - b) - (y - x) \in {0, TickMod, -TickMod, 2 * TickMod, -(2 * TickMod)}
    BY <1>1, <1>3 DEF Ticks
<1>6. Signed(a - b) = y - x
    BY <1>1, <1>4, <1>5, SignedIs DEF Ticks
<1>7. TickBefore(a, b) <=> y - x < 0
    BY <1>6, SignedExpired
<1> QED BY <1>3, <1>7 DEF x, y

(* A delay asked for now is that late. *)
LEMMA SignedAsked ==
    ASSUME NEW now \in Ticks, NEW d \in 0..Half, NEW w, w = (now + d) % TickMod
    PROVE  w \in Ticks /\ Signed(now - w) = -d
<1>1. TickMod \in Nat /\ Half \in Nat \ {0} /\ TickMod = 2 * Half
    BY Halves
<1>2. w = IF now + d < TickMod THEN now + d ELSE now + d - TickMod
    BY <1>1, WrapSum DEF Ticks
<1>3. w \in Ticks /\ (now - w) - (-d) \in {0, TickMod}
    BY <1>1, <1>2 DEF Ticks
<1> QED BY <1>1, <1>3, SignedIs DEF Ticks

(* Ticks later, it is that much later. *)
LEMMA SignedLater ==
    ASSUME NEW now \in Ticks, NEW w \in Ticks, NEW d \in Nat,
           Signed(now - w) + d < Half, NEW then, then = (now + d) % TickMod
    PROVE  then \in Ticks /\ Signed(then - w) = Signed(now - w) + d
<1>1. TickMod \in Nat /\ Half \in Nat \ {0} /\ TickMod = 2 * Half
    BY Halves
<1> DEFINE x == Signed(now - w)
<1>2. now - w \in -(TickMod - 1)..(TickMod - 1)
    BY <1>1 DEF Ticks
<1>3. x \in -Half..(Half - 1) /\ (now - w) - x \in {0, TickMod, -TickMod}
    BY <1>2, SignedFact
<1> HIDE DEF x
<1>4. d < TickMod
    BY <1>1, <1>3 DEF x
<1>5. then = IF now + d < TickMod THEN now + d ELSE now + d - TickMod
    BY <1>1, <1>4, WrapSum DEF Ticks
<1>6. then \in Ticks
    BY <1>1, <1>4, <1>5 DEF Ticks
<1>7. (then - w) - (x + d) \in {0, TickMod, -TickMod, 2 * TickMod, -(2 * TickMod)}
    BY <1>1, <1>3, <1>5 DEF Ticks
<1>8. x + d \in -Half..(Half - 1)
    BY <1>1, <1>3 DEF x
<1>9. Signed(then - w) = x + d
    BY <1>6, <1>7, <1>8, SignedIs DEF Ticks
<1> QED BY <1>6, <1>9 DEF x

-----------------------------------------------------------------------------
(* How late each task's wakeup time is.                                    *)
Lateness(s, now) == [t \in Task |-> Signed(now - s.wakeup[t])]

(* The timeout list runs from the latest deadline to the earliest, and     *)
(* outside a trap none of them has come.                                   *)
DueInv ==
    /\ Falling(k.timeout, Lateness(k, tick))
    /\ trap = "none" =>
          \A t \in Task : Contains(k.timeout, t) => Lateness(k, tick)[t] < 0

(* All of it as long as no unprotected window was hit. *)
DueOK == fault = {} => DueInv

(* From s to r the timeout list only loses entries, and the others keep    *)
(* their order and their deadline.                                         *)
Thinned(s, r) ==
    /\ \A x \in Task : Contains(r.timeout, x) =>
          Contains(s.timeout, x) /\ r.wakeup[x] = s.wakeup[x]
    /\ \A f \in [Task -> Int] : Falling(s.timeout, f) => Falling(r.timeout, f)

(* The two ways in which the operators do so. *)
Drops(s, r) ==
    /\ r.wakeup = s.wakeup
    /\ \/ r.timeout = s.timeout
       \/ \E x : r.timeout = RemoveFirst(s.timeout, x)

(* Each is late by a number of the range of int32_t. *)
LEMMA LatenessType ==
    ASSUME NEW s \in Scheduler, NEW now \in Ticks
    PROVE  /\ Lateness(s, now) \in [Task -> Int]
           /\ \A t \in Task : Lateness(s, now)[t] \in -Half..(Half - 1)
<1>1. \A t \in Task : Signed(now - s.wakeup[t]) \in -Half..(Half - 1)
    BY SignedExpired DEF Scheduler
<1>2. Half \in Nat
    BY Halves
<1> QED BY <1>1, <1>2 DEF Lateness

(* Taking out an entry keeps the order of the others. *)
LEMMA DropsThins ==
    ASSUME NEW s \in Scheduler, NEW r, Drops(s, r)
    PROVE  Thinned(s, r)
<1>1. s.timeout \in Seq(Task)
    BY DEF Scheduler
<1>2. \A x, y : Contains(RemoveFirst(s.timeout, x), y) => Contains(s.timeout, y)
    BY <1>1, RemoveFirstShape
<1>3. \A x : \A f \in [Task -> Int] :
          Falling(s.timeout, f) => Falling(RemoveFirst(s.timeout, x), f)
    BY <1>1, RemoveFalling
<1> QED BY <1>2, <1>3 DEF Drops, Thinned

(* A step that thins the list out, without the end of a trap. *)
LEMMA ThinDue ==
    ASSUME TypeInv, DueInv, Thinned(k, k'), tick' = tick, k' \in Scheduler,
           trap' = "none" => trap = "none"
    PROVE  DueInv'
<1>1. k \in Scheduler /\ tick \in Ticks
    BY DEF TypeInv, TypeOK
<1> DEFINE f == Lateness(k, tick)
           g == Lateness(k', tick)
<1>2. f \in [Task -> Int]
    BY <1>1, LatenessType
<1>3. \A x \in Task : Contains(k'.timeout, x) => Contains(k.timeout, x) /\ g[x] = f[x]
    BY DEF Thinned, Lateness
<1>4. Falling(k'.timeout, f)
    BY <1>2 DEF Thinned, DueInv
<1>5. k'.timeout \in Seq(Task)
    BY DEF Scheduler
<1>6. Falling(k'.timeout, g)
    <2> HIDE DEF f, g
    <2> QED BY <1>3, <1>4, <1>5, SameFalling
<1>7. trap' = "none" => \A t \in Task : Contains(k'.timeout, t) => g[t] < 0
    BY <1>3 DEF DueInv
<1> QED BY <1>6, <1>7 DEF DueInv

-----------------------------------------------------------------------------
(* What the operators do to the timeout list. *)
LEMMA DropsLists ==
    ASSUME NEW s \in Scheduler, NEW t \in Task
    PROVE  /\ Drops(s, s)
           /\ Drops(s, sched_ready_enqueue(s, t))
           /\ Drops(s, ready_link(s, t))
           /\ Drops(s, sched_ready_remove(s, t))
           /\ Drops(s, StateListDel(s, t))
BY DEF Scheduler, Drops, StateListDel, sched_ready_remove, ready_link, sched_ready_enqueue

(* Deletion takes the victim out. *)
LEMMA DropsMark ==
    ASSUME NEW s \in Scheduler, NEW t \in Task
    PROVE  Drops(s, sched_mark_deleted(s, t))
BY DEF Scheduler, Drops, StateListDel, sched_ready_remove, sched_timeout_remove,
       sched_mark_deleted

(* Waking takes the woken task out. *)
LEMMA DropsWake ==
    ASSUME NEW s \in Scheduler, NEW q \in WaitQ, NEW result
    PROVE  /\ Drops(s, trt_wait_q_wake_one_result_locked(s, q, result))
           /\ Drops(s, trt_wait_q_wake_one_from_isr(s, q))
<1>1. CASE s.wq[q] = <<>>
    BY <1>1 DEF Drops, trt_wait_q_wake_one_result_locked, trt_wait_q_wake_one_from_isr
<1>2. CASE s.wq[q] # <<>>
    <2> DEFINE t == Head(s.wq[q])
               r == [sched_timeout_remove(s, t) EXCEPT
                        !.wq[q] = Tail(@), !.timer[t] = FALSE, !.state[t] = "READY"]
               e == sched_wake_one(s, q)
               \* t is off the list; nothing else of the list changes.
               Like(d) == /\ "timeout" \in DOMAIN d /\ d.timeout = RemoveFirst(s.timeout, t)
                          /\ "wakeup" \in DOMAIN d /\ d.wakeup = s.wakeup
                          /\ {"ready", "mask", "pending", "wres"} \subseteq DOMAIN d
    <2>1. Like(r)
        BY DEF Scheduler, sched_timeout_remove
    <2>2. e = sched_ready_enqueue(r, t)
        BY DEF sched_wake_one
    <2> HIDE DEF r
    <2>3. Like(ready_link(r, t))
        <3>1. PICK l : ready_link(r, t) = [r EXCEPT !.ready = l]
            BY DEF ready_link
        <3> QED BY <2>1, <3>1
    <2>4. Like([ready_link(r, t) EXCEPT !.mask = @ \cup {r.prio[t]}])
        <3> DEFINE d == ready_link(r, t)
        <3> HIDE DEF d
        <3> QED BY <2>3 DEF d
    <2>5. Like(e)
        BY <2>1, <2>2, <2>4 DEF sched_ready_enqueue
    <2> HIDE DEF e
    <2>6. ASSUME NEW x
          PROVE  Like(trt_wait_q_wake_one_result_locked(s, q, x))
        <3> DEFINE p == e.pending \/ sched_is_locked(s)
        <3>1. trt_wait_q_wake_one_result_locked(s, q, x) = [e EXCEPT !.pending = p, !.wres[t] = x]
            BY <1>2 DEF trt_wait_q_wake_one_result_locked, e
        <3> HIDE DEF p
        <3> QED BY <2>5, <3>1
    <2>7. Like(trt_wait_q_wake_one_from_isr(s, q))
        <3> DEFINE d == trt_wait_q_wake_one_result_locked(s, q, "OBJECT")
                   b == TRUE
        <3>1. Like(d)
            BY <2>6
        <3>2. trt_wait_q_wake_one_from_isr(s, q) = [d EXCEPT !.pending = b]
            BY <1>2 DEF trt_wait_q_wake_one_from_isr, trt_wait_q_wake_one_locked, sched_set_pending
        <3> HIDE DEF d, b
        <3> QED BY <3>1, <3>2
    <2> QED BY <2>6, <2>7 DEF Drops
<1> QED BY <1>1, <1>2

(* Deletion as task_delete ends it. *)
LEMMA MarkThins ==
    ASSUME NEW s \in Scheduler, NEW t \in Task, NEW b,
           NEW e, e = [sched_mark_deleted(s, t) EXCEPT !.pending = b]
    PROVE  Thinned(s, e)
<1> DEFINE d == sched_mark_deleted(s, t)
<1>1. d \in Scheduler /\ Drops(s, d)
    BY DropsMark, MarkDeletedType
<1> HIDE DEF d
<1>2. e.timeout = d.timeout /\ e.wakeup = d.wakeup
    BY <1>1 DEF Scheduler, d
<1> QED BY <1>1, <1>2, DropsThins DEF Drops

(* A slot that is given a new TCB or freed is not on it. *)
LEMMA TcbThins ==
    ASSUME NEW s \in Scheduler, NEW u \in Task, NEW p, ~Contains(s.timeout, u),
           NEW r, r = InitTcb(s, u, p) \/ r = Freed(s, u)
    PROVE  Thinned(s, r)
<1>1. r.timeout = s.timeout /\ \A x \in Task \ {u} : r.wakeup[x] = s.wakeup[x]
    <2>1. CASE r = InitTcb(s, u, p)
        BY <2>1 DEF Scheduler, InitTcb
    <2>2. CASE r = Freed(s, u)
        BY <2>2 DEF Scheduler, Freed
    <2> QED BY <2>1, <2>2
<1> QED BY <1>1 DEF Thinned

(* Two operators in a row. *)
LEMMA ThinnedTwice ==
    ASSUME NEW s, NEW r, NEW e, Thinned(s, r), Thinned(r, e)
    PROVE  Thinned(s, e)
BY DEF Thinned

(* Blocking on a wait queue leaves the timeout list alone. *)
LEMMA WaitBlockTimeout ==
    ASSUME NEW s \in Scheduler, NEW t \in Task, IsCurrent(s, t), ~BlockRefused(s),
           NEW q \in WaitQ, NEW e, e = trt_wait_q_block_locked(s, q)
    PROVE  e \in Scheduler /\ e.timeout = s.timeout /\ e.wakeup = s.wakeup
<1>0. e \in Scheduler /\ e.wakeup = s.wakeup
    BY WaitBlocks
<1> DEFINE a == [s EXCEPT !.wres[t] = "NONE"]
           b == [a EXCEPT !.state[t] = "BLOCKED", !.timer[t] = FALSE]
           r == sched_ready_remove(b, t)
<1>1. a \in Scheduler /\ b \in Scheduler /\ a.current = t
    BY DEF Scheduler, WaitResult, TaskState, IsCurrent
<1>2. b.timeout = s.timeout
    BY DEF Scheduler
<1>3. e = sched_block_current(a, q)
    BY DEF trt_wait_q_block_locked, IsCurrent
<1> HIDE DEF a
<1>4. PICK l : e = [r EXCEPT !.wq[q] = l]
    BY <1>1, <1>3 DEF sched_block_current
<1> HIDE DEF b
<1>5. r \in Scheduler
    BY <1>1, RemoveType
<1>6. r.timeout = b.timeout
    BY <1>1 DEF Scheduler, StateListDel, sched_ready_remove
<1> HIDE DEF r
<1>7. e.timeout = s.timeout
    BY <1>2, <1>4, <1>5, <1>6 DEF Scheduler
<1> QED BY <1>0, <1>7

(* Calls that do not block with a timeout. *)
LEMMA CallThins ==
    ASSUME TypeInv, ListInv, NEW t \in Task, AppCall(t),
           \A q \in WaitQ, d \in Delays : ~trt_wait_q_block_ticks(t, q, d)
    PROVE  Thinned(k, k') /\ tick' = tick
<1> USE DEF taskvars, history
<1>1. k \in Scheduler /\ Drops(k, k)
    BY DropsLists DEF TypeInv, TypeOK
<1>2. ASSUME k' = k PROVE Thinned(k, k')
    BY <1>1, <1>2, DropsThins
<1>3. CASE task_yield(t) \/ \E h \in Handle : task_delete(t, h)
    BY <1>2, <1>3 DEF task_yield, task_delete
<1>4. CASE (\E d \in Delays : task_sleep(t, d)) \/ sched_lock(t) \/ sched_unlock(t)
    <2>1. tick' = tick /\ k'.timeout = k.timeout /\ k'.wakeup = k.wakeup
        BY <1>1, <1>4 DEF task_sleep, sched_lock, sched_unlock, sched_set_pending, Scheduler
    <2> QED BY <1>1, <2>1, DropsThins DEF Drops
<1>5. ASSUME NEW q \in WaitQ, trt_wait_q_block(t, q)
      PROVE  Thinned(k, k') /\ tick' = tick
    <2>1. k' = trt_wait_q_block_locked(k, q) /\ tick' = tick /\ t = k.current
        BY <1>5 DEF trt_wait_q_block, Call, At, Runs
    <2>2. CASE BlockRefused(k)
        <3>1. k' = [k EXCEPT !.pending = TRUE]
            BY <2>1, <2>2 DEF sched_set_pending, trt_wait_q_block_locked
        <3>2. k'.timeout = k.timeout /\ k'.wakeup = k.wakeup
            BY <1>1, <3>1 DEF Scheduler
        <3> QED BY <1>1, <2>1, <3>2, DropsThins DEF Drops
    <2>3. CASE ~BlockRefused(k)
        <3>1. IsCurrent(k, t) /\ k' = trt_wait_q_block_locked(k, q)
            BY <2>1 DEF IsCurrent
        <3>2. k'.timeout = k.timeout /\ k'.wakeup = k.wakeup
            BY <1>1, <2>3, <3>1, WaitBlockTimeout
        <3> QED BY <1>1, <2>1, <3>2, DropsThins DEF Drops
    <2> QED BY <2>2, <2>3
<1>6. ASSUME NEW q \in WaitQ, trt_wait_q_wake_one(t, q) \/ trt_wait_q_wake_all(t, q)
      PROVE  Thinned(k, k') /\ tick' = tick
    BY <1>1, <1>2, <1>6, DropsWake, DropsThins
    DEF trt_wait_q_wake_one, trt_wait_q_wake_all, trt_wait_q_wake_one_locked
<1>7. CASE task_exit(t)
    <2>1. /\ tick' = tick
          /\ k' = k \/ \E b : k' = [sched_mark_deleted(k, t) EXCEPT !.pending = b]
        BY <1>7 DEF task_exit, task_delete_obj
    <2> QED BY <1>1, <1>2, <2>1, MarkThins
<1>8. ASSUME NEW p \in CreatePrio, task_create(t, p)
      PROVE  Thinned(k, k') /\ tick' = tick
    <2>1. PICK u \in FreeSlots : k' = InitTcb(k, u, p)
        BY <1>8 DEF task_create
    <2>2. u \in Task /\ ~Contains(k.timeout, u)
        BY Nowhere DEF FreeSlots, ListInv, Sound
    <2> QED BY <1>1, <1>8, <2>1, <2>2, TcbThins DEF task_create
<1> QED BY <1>3, <1>4, <1>5, <1>6, <1>7, <1>8 DEF AppCall, task_yield, task_delete

(* Steps inside the kernel other than the block of task_delay_ticks. *)
LEMMA StepThins ==
    ASSUME TypeInv, ListInv, NEW t \in Task, KernelStep(t), ~sleep_block(t)
    PROVE  Thinned(k, k') /\ tick' = tick
<1> USE DEF taskvars, history
<1>1. k \in Scheduler /\ Drops(k, k)
    BY DropsLists DEF TypeInv, TypeOK
<1>2. ASSUME k' = k PROVE Thinned(k, k')
    BY <1>1, <1>2, DropsThins
<1>3. CASE task_yield_step(t)
    <2>1. tick' = tick /\ k'.timeout = k.timeout /\ k'.wakeup = k.wakeup
        <3>1. CASE yield_check(t) \/ yield_link(t)
            BY <1>1, <3>1 DEF yield_check, yield_link, sched_set_pending, ready_link, Scheduler
        <3>2. CASE arch_yield(t) \/ mask_load(t, "y_load", "y_store")
            BY <3>2 DEF arch_yield, mask_load
        <3>3. CASE mask_store(t, t, "y_store", "ecall")
            BY <1>1, <3>3 DEF mask_store, Scheduler
        <3> QED BY <1>3, <3>1, <3>2, <3>3 DEF task_yield_step
    <2> QED BY <1>1, <2>1, DropsThins DEF Drops
<1>4. CASE sleep_loop(t) \/ wait_return(t)
    BY <1>2, <1>4 DEF sleep_loop, sleep_done, wait_return
<1>5. CASE wake_all_round(t, "wq_all", "OBJECT", "run")
    <2>1. reg[t].q \in WaitQ
        BY <1>5 DEF wake_all_round, At, TypeInv, LocalsOK
    <2> QED BY <1>1, <1>5, <2>1, DropsWake, DropsThins DEF wake_all_round
<1>6. CASE task_delete_found(t) \/ create_fail(t)
    <2>1. /\ tick' = tick
          /\ pc[t] \in CreatePc \cup {"d_obj"}
          /\ k' = k \/ \E b : k' = [sched_mark_deleted(k, reg[t].obj) EXCEPT !.pending = b]
        BY <1>6 DEF task_delete_found, create_fail, task_delete_obj, At, CreatePc
    <2>2. reg[t].obj \in Task
        BY <2>1 DEF TypeInv, LocalsOK
    <2> QED BY <1>1, <1>2, <2>1, <2>2, MarkThins
<1>7. CASE task_create_step(t) /\ ~create_fail(t)
    <2>1. tick' = tick /\ k'.timeout = k.timeout /\ k'.wakeup = k.wakeup
        <3>1. CASE create_link(t)
            BY <1>1, <3>1 DEF create_link, ready_link, Scheduler
        <3>2. CASE mask_store(t, reg[t].obj, "c_store", "c_cload")
            BY <1>1, <3>2 DEF mask_store, Scheduler
        <3>3. CASE \/ mask_load(t, "c_load", "c_store") \/ count_load(t) \/ count_store(t)
                   \/ create_handle(t) \/ create_set_handle(t)
            BY <3>3 DEF mask_load, count_load, count_store, create_handle, create_set_handle
        <3> QED BY <1>7, <3>1, <3>2, <3>3 DEF task_create_step
    <2> QED BY <1>1, <2>1, DropsThins DEF Drops
<1>8. CASE idle_step
    <2>1. CASE cleanup_pop \/ idle_enable
        <3>1. /\ tick' = tick
              /\ k' = k \/ \E l : k' = [k EXCEPT !.deleted = l]
            BY <2>1 DEF cleanup_pop, idle_enable
        <3>2. Drops(k, k')
            BY <1>1, <3>1 DEF Drops, Scheduler
        <3> QED BY <1>1, <3>1, <3>2, DropsThins
    <2>2. CASE cleanup_free
        <3> DEFINE u == reg[Idle].obj
        <3>1. k' = Freed(k, u) /\ pc[Idle] = "i_free" /\ tick' = tick
            BY <2>2 DEF cleanup_free, At, Freed
        <3>2. u \in Task /\ k.state[u] = "DELETED" /\ ~Contains(k.deleted, u)
            BY <3>1, SchedAssumption DEF ListInv, FreeOK, TypeInv, LocalsOK
        <3> HIDE DEF u
        <3>3. ~Contains(k.timeout, u)
            BY <3>2, Nowhere DEF ListInv, Sound
        <3> QED BY <1>1, <3>1, <3>2, <3>3, TcbThins
    <2> QED BY <1>8, <2>1, <2>2 DEF idle_step
<1> QED BY <1>2, <1>3, <1>4, <1>5, <1>6, <1>7, <1>8
    DEF KernelStep, sleep_loop, wait_return, wake_all_round

-----------------------------------------------------------------------------
(* sched_timeout_insert by a task whose deadline has not come, while no    *)
(* other has: TickBefore orders the entries as they are late.              *)
LEMMA InsertDue ==
    ASSUME NEW n \in Scheduler, NEW t \in Task, n.timer[t], NEW now \in Ticks,
           Distinct(n.timeout), Falling(n.timeout, Lateness(n, now)),
           \A x \in Task : Contains(n.timeout, x) => Lateness(n, now)[x] < 0,
           Lateness(n, now)[t] < 0,
           NEW e, e = sched_timeout_insert(n, t)
    PROVE  /\ Falling(e.timeout, Lateness(e, now))
           /\ \A x \in Task : Contains(e.timeout, x) => Lateness(e, now)[x] < 0
<1> DEFINE f == Lateness(n, now)
           rest == RemoveFirst(n.timeout, t)
           later == {i \in DOMAIN rest : TickBefore(n.wakeup[t], n.wakeup[rest[i]])}
<1>1. /\ e.timeout = InsertBeforeFirst(rest, t, later)
      /\ e.wakeup = n.wakeup
    BY DEF sched_timeout_insert, Scheduler
<1>2. /\ n.timeout \in Seq(Task) /\ n.wakeup \in [Task -> Ticks]
      /\ f \in [Task -> Int] /\ \A x \in Task : f[x] \in -Half..(Half - 1)
    BY LatenessType DEF Scheduler
<1>3. /\ rest \in Seq(Task) /\ Distinct(rest) /\ ~Contains(rest, t)
      /\ \A x : Contains(rest, x) => Contains(n.timeout, x)
    BY <1>2, RemoveFirstShape
<1>4. \A x \in Task : f[x] = Signed(now - n.wakeup[x])
    BY DEF Lateness
<1>5. Falling(rest, f) /\ Lateness(e, now) = f
    BY <1>1, <1>2, RemoveFalling DEF Lateness
<1> HIDE DEF f, rest
<1>6. /\ \A i \in 1..Len(rest) : rest[i] \in Task /\ Contains(rest, rest[i])
      /\ DOMAIN rest = 1..Len(rest)
    BY <1>3, ElementOfSeq DEF Contains
<1>7. ASSUME NEW i \in DOMAIN rest
      PROVE  TickBefore(n.wakeup[t], n.wakeup[rest[i]]) <=> f[rest[i]] < f[t]
    <2> DEFINE x == rest[i]
    <2>1. x \in Task /\ f[x] < 0 /\ f[t] < 0
        BY <1>3, <1>6 DEF f
    <2>2. f[x] \in -Half..(Half - 1) /\ f[t] \in -Half..(Half - 1) /\ Half \in Nat
        BY <1>2, <2>1, Halves
    <2>3. f[x] - f[t] < Half /\ f[t] - f[x] < Half
        BY <2>1, <2>2
    <2> HIDE DEF x
    <2>4. TickBefore(n.wakeup[t], n.wakeup[x]) <=> f[x] < f[t]
        BY <1>2, <1>4, <2>1, <2>3, SignedBetween
    <2> QED BY <2>4 DEF x
<1>8. later = {i \in DOMAIN rest : f[rest[i]] < f[t]}
    BY <1>7
<1> HIDE DEF later
<1>9. Falling(e.timeout, f)
    <2>1. Falling(InsertBeforeFirst(rest, t, later), f)
        BY <1>2, <1>3, <1>5, <1>8, InsertFalling
    <2> QED BY <1>1, <2>1
<1>10. \A x : Contains(e.timeout, x) <=> Contains(rest, x) \/ x = t
    BY <1>1, <1>3, <1>8, InsertContents
<1> QED BY <1>3, <1>5, <1>9, <1>10 DEF f

(* The running task blocks with a deadline that has not come.              *)
LEMMA BlockDue ==
    ASSUME TypeInv, ListInv, DueInv, NEW t \in Task, trap = "none",
           k.state[t] = "RUNNING", NEW w \in Ticks, Signed(tick - w) < 0,
           NEW n \in Scheduler, n.timer[t], n.timeout = k.timeout,
           n.wakeup = [k.wakeup EXCEPT ![t] = w],
           k' = sched_timeout_insert(n, t), tick' = tick
    PROVE  DueInv'
<1>1. k \in Scheduler /\ tick \in Ticks /\ Distinct(k.timeout) /\ ~Contains(k.timeout, t)
    BY DEF TypeInv, TypeOK, ListInv, Sound, NoRepeats, Placed
<1> DEFINE f == Lateness(k, tick)
           g == Lateness(n, tick)
<1>2. f \in [Task -> Int] /\ k.timeout \in Seq(Task)
    BY <1>1, LatenessType DEF Scheduler
<1>3. g[t] = Signed(tick - w) /\ \A x \in Task \ {t} : g[x] = f[x]
    BY <1>1 DEF Lateness, Scheduler
<1>4. \A x \in Task : Contains(k.timeout, x) => g[x] = f[x] /\ f[x] < 0
    BY <1>1, <1>3 DEF DueInv
<1>5. Falling(k.timeout, f)
    BY DEF DueInv
<1> HIDE DEF f, g
<1>6. Falling(n.timeout, g)
    BY <1>2, <1>4, <1>5, SameFalling
<1>7. \A x \in Task : Contains(n.timeout, x) => g[x] < 0
    BY <1>4
<1>8. /\ Falling(k'.timeout, Lateness(k', tick))
      /\ \A x \in Task : Contains(k'.timeout, x) => Lateness(k', tick)[x] < 0
    BY <1>1, <1>3, <1>6, <1>7, InsertDue DEF g
<1> QED BY <1>8 DEF DueInv

(* task_delay_ticks blocks only if its deadline has not come. *)
LEMMA SleepDue ==
    ASSUME TypeInv, TypeInv', ListInv, DueInv, NEW t \in Task, sleep_block(t)
    PROVE  DueInv'
<1> USE DEF history
<1>1. /\ k \in Scheduler /\ tick \in Ticks /\ k' \in Scheduler
      /\ reg[t].due \in Ticks /\ tick' = tick /\ trap' = trap
    BY DEF sleep_block, TypeInv, TypeOK, Locals
<1>2. Runs(t) /\ pc[t] = "sl_crit" /\ trap = "none" /\ t = k.current
    BY DEF sleep_block, At, Runs
<1>3. k.state[t] = "RUNNING"
    BY <1>2, PlainFacts DEF StateAt, LinkPc, Window
<1>4. CASE timer_expired(tick, reg[t].due)
    <2>1. k' = k
        BY <1>4 DEF sleep_block, sleep_done
    <2> QED BY <1>1, <2>1, DropsLists, DropsThins, ThinDue
<1>5. CASE ~timer_expired(tick, reg[t].due)
    <2> DEFINE w == reg[t].due
               b == [k EXCEPT !.wakeup[t] = w, !.timer[t] = TRUE,
                              !.wres[t] = "NONE", !.state[t] = "BLOCKED"]
               n == sched_ready_remove(b, t)
    <2>1. k' = sched_timeout_insert(n, t)
        BY <1>5 DEF sleep_block
    <2>2. Signed(tick - w) < 0
        BY <1>1, <1>5, SignedExpired DEF TickBefore
    <2> HIDE DEF w
    <2>3. b \in Scheduler
        BY <1>1 DEF Scheduler, WaitResult, TaskState, w
    <2>4. /\ b.timer[t] /\ b.timeout = k.timeout
          /\ b.wakeup = [k.wakeup EXCEPT ![t] = w]
        BY <1>1 DEF Scheduler
    <2> HIDE DEF b
    <2>5. n \in Scheduler
        BY <2>3, RemoveType
    <2>6. n.timer = b.timer /\ n.timeout = b.timeout /\ n.wakeup = b.wakeup
        BY <2>3 DEF Scheduler, StateListDel, sched_ready_remove
    <2> HIDE DEF n
    <2> QED BY <1>1, <1>2, <1>3, <2>1, <2>2, <2>4, <2>5, <2>6, BlockDue DEF w
<1> QED BY <1>4, <1>5

(* A timed wait is for at least one tick. *)
LEMMA TimedWaitDue ==
    ASSUME TypeInv, TypeInv', ListInv, DueInv, NEW t \in Task, NEW q \in WaitQ, NEW d \in Delays,
           trt_wait_q_block_ticks(t, q, d)
    PROVE  DueInv'
<1>1. /\ k \in Scheduler /\ tick \in Ticks /\ k' \in Scheduler /\ tick' = tick
      /\ d > 0 /\ d \in 0..Half /\ d \in Nat
    BY KernelAssumption, SchedAssumption, Halves
    DEF trt_wait_q_block_ticks, TypeInv, TypeOK, Half
<1>2. Runs(t) /\ trap = "none" /\ t = k.current /\ k.state[t] = "RUNNING" /\ trap' = trap
    BY CallFacts DEF trt_wait_q_block_ticks, Call, At, Runs
<1>3. k' = trt_wait_q_block_ticks_locked(k, q, d, tick)
    BY DEF trt_wait_q_block_ticks
<1>4. CASE BlockRefused(k)
    <2>1. k' = [k EXCEPT !.pending = TRUE]
        BY <1>3, <1>4 DEF sched_set_pending, trt_wait_q_block_locked, trt_wait_q_block_ticks_locked
    <2>2. k'.timeout = k.timeout /\ k'.wakeup = k.wakeup
        BY <1>1, <2>1 DEF Scheduler
    <2> QED BY <1>1, <1>2, <2>2, DropsThins, ThinDue DEF Drops
<1>5. CASE ~BlockRefused(k)
    <2> DEFINE b == trt_wait_q_block_locked(k, q)
               w == (tick + d) % TickMod
               n == [b EXCEPT !.wakeup[t] = w, !.timer[t] = TRUE, !.wres[t] = "NONE"]
    <2>1. IsCurrent(k, t)
        BY <1>2 DEF IsCurrent
    <2>3. b \in Scheduler /\ b.timeout = k.timeout /\ b.wakeup = k.wakeup
        BY <1>1, <1>5, <2>1, WaitBlockTimeout
    <2>2. b \in Scheduler /\ b.wakeup = k.wakeup
        BY <2>3
    <2>4. w \in Ticks /\ Signed(tick - w) = -d
        BY <1>1, SignedAsked
    <2>5. k' = sched_timeout_insert(n, t)
        BY <1>2, <1>3, <1>5 DEF trt_wait_q_block_ticks_locked, IsCurrent
    <2> HIDE DEF b, w
    <2>6. /\ n \in Scheduler /\ n.timer[t] /\ n.timeout = k.timeout
          /\ n.wakeup = [k.wakeup EXCEPT ![t] = w]
        BY <2>2, <2>3, <2>4 DEF Scheduler, WaitResult
    <2> HIDE DEF n
    <2>7. Signed(tick - w) < 0
        BY <1>1, <2>4
    <2> QED BY <1>1, <1>2, <2>4, <2>5, <2>6, <2>7, BlockDue
<1> QED BY <1>4, <1>5

-----------------------------------------------------------------------------
(* Boot, and the interrupts that do not move the clock. *)
LEMMA BootDue ==
    ASSUME TypeInv, TypeInv', ListInv, DueInv, Boot
    PROVE  DueInv'
<1> USE DEF taskvars, history
<1>1. k \in Scheduler /\ k' \in Scheduler /\ Drops(k, k)
    BY DEF TypeInv, TypeOK, Drops
<1>2. tick' = tick /\ trap' = trap
    BY DEF Boot, kernel_init, app_main_create, app_main_object, rtos_start
<1>3. ASSUME NEW u \in Task, NEW p \in Prio, k.state[u] = "UNUSED",
             NEW s, s = sched_ready_enqueue(InitTcb(k, u, p), u)
      PROVE  s \in Scheduler /\ Thinned(k, s)
    <2> DEFINE i == InitTcb(k, u, p)
    <2>1. i \in Scheduler
        BY InitTcbType
    <2>2. ~Contains(k.timeout, u)
        BY <1>3, Nowhere DEF ListInv, Sound
    <2>3. Thinned(k, i)
        BY <1>1, <2>2, TcbThins
    <2> HIDE DEF i
    <2>4. s \in Scheduler /\ Thinned(i, s)
        BY <1>3, <2>1, DropsLists, DropsThins, EnqueueType DEF i
    <2> QED BY <2>3, <2>4, ThinnedTwice
<1>4. CASE kernel_init
    <2> DEFINE s == sched_ready_enqueue(InitTcb(k, Idle, 0), Idle)
    <2>1. k' = [s EXCEPT !.idle = Idle] /\ k = sched_init
        BY <1>4 DEF kernel_init, ListInv, BootOK
    <2>2. k.state[Idle] = "UNUSED" /\ 0 \in Prio /\ Idle \in Task
        BY <2>1, SchedAssumption DEF sched_init, Prio
    <2>3. s \in Scheduler /\ Thinned(k, s)
        BY <1>3, <2>2
    <2> HIDE DEF s
    <2>4. k'.timeout = s.timeout /\ k'.wakeup = s.wakeup
        BY <2>1, <2>3 DEF Scheduler
    <2>5. Thinned(k, k')
        BY <2>3, <2>4 DEF Thinned
    <2> QED BY <1>1, <1>2, <2>5, ThinDue
<1>5. ASSUME NEW p \in CreatePrio, app_main_create(p) PROVE DueInv'
    <2>1. PICK u \in FreeSlots :
              \/ k' = sched_ready_enqueue(InitTcb(k, u, p), u)
              \/ k' = sched_mark_deleted(sched_ready_enqueue(InitTcb(k, u, p), u), u)
        BY <1>5 DEF app_main_create
    <2> DEFINE s == sched_ready_enqueue(InitTcb(k, u, p), u)
    <2>2. u \in Task /\ p \in Prio /\ k.state[u] = "UNUSED"
        BY KernelAssumption DEF FreeSlots
    <2>3. s \in Scheduler /\ Thinned(k, s) /\ (k' = s \/ k' = sched_mark_deleted(s, u))
        BY <1>3, <2>1, <2>2
    <2> HIDE DEF s
    <2>4. k' = sched_mark_deleted(s, u) => Thinned(s, k')
        BY <2>2, <2>3, DropsMark, DropsThins
    <2>5. Thinned(k, k')
        BY <2>3, <2>4, ThinnedTwice
    <2> QED BY <1>1, <1>2, <2>5, ThinDue
<1>6. CASE app_main_object
    BY <1>1, <1>2, <1>6, DropsThins, ThinDue DEF app_main_object
<1>7. CASE rtos_start
    <2> DEFINE s == sched_pick_next(k)
    <2>1. /\ k' = [s EXCEPT !.started = TRUE] /\ boot = "app_main"
        BY <1>7 DEF rtos_start
    <2>2. /\ k.idle = Idle /\ k.state[Idle] \in {"READY", "RUNNING"} /\ Sound(k, {Idle}, {})
        BY <2>1, BeforeStart
    <2>3. s \in Scheduler /\ Picked(k, s)
        BY <1>1, <2>2, PickNextSound, PickNextType
    <2>4. s.timeout = k.timeout /\ s.wakeup = k.wakeup
        BY <2>3 DEF Picked, SwitchFrame
    <2> HIDE DEF s
    <2>5. k'.timeout = k.timeout /\ k'.wakeup = k.wakeup
        BY <2>1, <2>3, <2>4 DEF Scheduler
    <2> QED BY <1>1, <1>2, <2>5, DropsThins, ThinDue DEF Drops
<1> QED BY <1>4, <1>5, <1>6, <1>7 DEF Boot

(* Another interrupt, and a round of sched_wake_expired. *)
LEMMA WakeDue ==
    ASSUME TypeInv, TypeInv', DueInv, Irq \/ sched_wake_expired
    PROVE  DueInv'
<1> USE DEF taskvars, history
<1>1. k \in Scheduler /\ k' \in Scheduler /\ Drops(k, k)
    BY DEF TypeInv, TypeOK, Drops
<1>2. tick' = tick /\ trap' # "none"
    BY DEF Irq, sched_wake_expired
<1>3. CASE Irq
    <2>1. k' = k \/ \E q \in WaitQ : k' = trt_wait_q_wake_one_from_isr(k, q)
        BY <1>3 DEF Irq
    <2>2. Drops(k, k')
        BY <1>1, <2>1, DropsWake
    <2> QED BY <1>1, <1>2, <2>2, DropsThins, ThinDue
<1>4. CASE sched_wake_expired
    <2> DEFINE t == Head(k.timeout)
               r == [k EXCEPT !.timeout = Tail(@)]
               w == [StateListDel(r, t) EXCEPT
                        !.timer[t] = FALSE, !.wres[t] = "TIMEOUT", !.state[t] = "READY"]
    <2>1. k.timeout # <<>> /\ k.timeout \in Seq(Task)
        BY <1>1, <1>4 DEF sched_wake_expired, HeadExpired, Scheduler
    <2>2. t \in Task /\ \A x : Contains(Tail(k.timeout), x) => Contains(k.timeout, x)
        BY <2>1, TailShape
    <2>3. k' = r \/ k' = sched_ready_enqueue(w, t)
        BY <1>4 DEF sched_wake_expired, sched_wake_expired_one
    <2>4. /\ r.timeout = Tail(k.timeout) /\ r.wakeup = k.wakeup
          /\ w.timeout = Tail(k.timeout) /\ w.wakeup = k.wakeup /\ DOMAIN w = DOMAIN k
        BY <1>1 DEF Scheduler, StateListDel
    <2> HIDE DEF w, r, t
    <2>5. k'.timeout = Tail(k.timeout) /\ k'.wakeup = k.wakeup
        BY <1>1, <2>3, <2>4 DEF Scheduler, sched_ready_enqueue, ready_link
    <2>6. \A f \in [Task -> Int] : Falling(k.timeout, f) => Falling(Tail(k.timeout), f)
        BY <2>1, TailFalling
    <2>7. Thinned(k, k')
        BY <2>2, <2>5, <2>6 DEF Thinned
    <2> QED BY <1>1, <1>2, <2>7, ThinDue
<1> QED BY <1>3, <1>4

(* A systick makes all deadlines later by the same number of ticks, and    *)
(* none so late that it looks early.                                       *)
LEMMA SystickDue ==
    ASSUME TypeInv, DueInv, Systick
    PROVE  DueInv'
<1>1. k \in Scheduler /\ tick \in Ticks
    BY DEF TypeInv, TypeOK
<1>2. PICK d \in 1..MaxJump : SysTick(d)
    BY DEF Systick
<1>3. k' = k /\ tick' = (tick + d) % TickMod /\ trap = "none" /\ trap' = "tick"
    BY <1>2 DEF SysTick, Interrupted, CanInterrupt
<1>4. d \in Nat /\ d < Half
    BY KernelAssumption, SchedAssumption DEF Half
<1> DEFINE f == Lateness(k, tick)
           g == Lateness(k, tick')
<1>5. /\ k.timeout \in Seq(Task) /\ f \in [Task -> Int]
      /\ \A x \in Task : f[x] \in -Half..(Half - 1) /\ Half \in Nat
    BY <1>1, LatenessType, Halves DEF Scheduler
<1>6. \A x \in Task : Contains(k.timeout, x) => g[x] = f[x] + d
    <2> SUFFICES ASSUME NEW x \in Task, Contains(k.timeout, x) PROVE g[x] = f[x] + d
        OBVIOUS
    <2>1. f[x] < 0
        BY <1>3 DEF DueInv
    <2>2. f[x] = Signed(tick - k.wakeup[x]) /\ g[x] = Signed(tick' - k.wakeup[x])
        BY DEF Lateness
    <2>3. f[x] + d < Half
        BY <1>4, <1>5, <2>1
    <2> HIDE DEF f, g
    <2>4. k.wakeup[x] \in Ticks
        BY <1>1 DEF Scheduler
    <2> QED BY <1>1, <1>3, <1>4, <2>2, <2>3, <2>4, SignedLater
<1>7. Falling(k.timeout, f)
    BY DEF DueInv
<1> HIDE DEF f, g
<1>8. Falling(k.timeout, g)
    <2>1. \A i \in 1..Len(k.timeout) :
              /\ k.timeout[i] \in Task
              /\ g[k.timeout[i]] = f[k.timeout[i]] + d
              /\ f[k.timeout[i]] \in Int
        <3> TAKE i \in 1..Len(k.timeout)
        <3>1. k.timeout[i] \in Task /\ DOMAIN k.timeout = 1..Len(k.timeout)
            BY <1>5, ElementOfSeq
        <3>2. Contains(k.timeout, k.timeout[i])
            BY <3>1 DEF Contains
        <3> QED BY <1>5, <1>6, <3>1, <3>2
    <2> SUFFICES ASSUME NEW i \in 1..Len(k.timeout), NEW j \in 1..Len(k.timeout), i < j
                 PROVE  g[k.timeout[i]] >= g[k.timeout[j]]
        BY DEF Falling
    <2>2. f[k.timeout[i]] >= f[k.timeout[j]]
        BY <1>7 DEF Falling
    <2> QED BY <1>4, <2>1, <2>2
<1> QED BY <1>3, <1>8 DEF DueInv, g

(* The trap ends when the head of the list has not expired: nor has any    *)
(* other entry.                                                            *)
LEMMA TrapReturnDue ==
    ASSUME TypeInv, TypeInv', ListInv, DueInv, TrapReturn
    PROVE  DueInv'
<1>1. k \in Scheduler /\ tick \in Ticks /\ tick' = tick
    BY DEF TypeInv, TypeOK, TrapReturn
<1>2. k'.timeout = k.timeout /\ k'.wakeup = k.wakeup
    <2>1. trap # "none" /\ k' = SwitchedFromTrap
        BY DEF TrapReturn
    <2>2. Switched(k, k')
        BY <2>1, TrapReturnFacts, TrapSwitchSound
    <2> QED BY <2>2 DEF Switched, SwitchFrame
<1> DEFINE f == Lateness(k, tick)
<1>3. /\ k.timeout \in Seq(Task) /\ f \in [Task -> Int]
    BY <1>1, LatenessType DEF Scheduler
<1>4. Lateness(k', tick') = f
    BY <1>1, <1>2 DEF Lateness
<1>5. ASSUME NEW t \in Task, Contains(k.timeout, t) PROVE f[t] < 0
    <2>1. PICK i \in 1..Len(k.timeout) : k.timeout[i] = t
        BY <1>3, <1>5 DEF Contains
    <2> DEFINE u == k.timeout[1]
    <2>2. 1 \in 1..Len(k.timeout) /\ k.timeout # <<>> /\ Head(k.timeout) = u
        BY <1>3, <2>1
    <2>3. u \in Task /\ k.wakeup[u] \in Ticks
        BY <1>1, <1>3, <2>2, ElementOfSeq DEF Scheduler
    <2>4. ~timer_expired(tick, k.wakeup[u])
        BY <2>2 DEF TrapReturn, HeadExpired
    <2>5. f[u] < 0
        BY <1>1, <2>3, <2>4, SignedExpired DEF Lateness, TickBefore
    <2>6. f[u] >= f[t]
        <3>1. CASE i = 1
            BY <1>3, <2>1, <2>3, <3>1
        <3>2. CASE i # 1
            <4>1. 1 < i /\ Falling(k.timeout, f)
                BY <2>1, <3>2 DEF DueInv
            <4> HIDE DEF f
            <4> QED BY <2>1, <2>2, <4>1 DEF Falling
        <3> QED BY <3>1, <3>2
    <2> HIDE DEF f, u
    <2> QED BY <1>3, <2>3, <2>5, <2>6
<1> HIDE DEF f
<1>6. Falling(k.timeout, f)
    BY DEF DueInv, f
<1> QED BY <1>2, <1>4, <1>5, <1>6 DEF DueInv

(* Every step keeps the timeout list in order. *)
LEMMA NextDue == TypeInv /\ TypeInv' /\ ListsOK /\ DueOK /\ [Next]_vars => DueOK'
<1> SUFFICES ASSUME TypeInv, TypeInv', ListsOK, DueOK, [Next]_vars, fault' = {} PROVE DueInv'
    BY DEF DueOK
<1>1. ListInv /\ DueInv /\ k \in Scheduler /\ k' \in Scheduler
    BY FaultStays DEF ListsOK, DueOK, TypeInv, TypeOK
<1>2. ASSUME NEW t \in Task, AppCall(t) PROVE DueInv'
    <2>1. CASE \E q \in WaitQ, d \in Delays : trt_wait_q_block_ticks(t, q, d)
        BY <1>1, <2>1, TimedWaitDue
    <2>2. CASE \A q \in WaitQ, d \in Delays : ~trt_wait_q_block_ticks(t, q, d)
        <3>1. Thinned(k, k') /\ tick' = tick
            BY <1>1, <1>2, <2>2, CallThins
        <3>2. trap = "none"
            BY <1>2, StepRuns DEF Runs
        <3> QED BY <1>1, <3>1, <3>2, ThinDue
    <2> QED BY <2>1, <2>2
<1>3. ASSUME NEW t \in Task, KernelStep(t) PROVE DueInv'
    <2>1. CASE sleep_block(t)
        BY <1>1, <2>1, SleepDue
    <2>2. CASE ~sleep_block(t)
        <3>1. Thinned(k, k') /\ tick' = tick
            BY <1>1, <1>3, <2>2, StepThins
        <3>2. trap = "none"
            BY <1>3, StepRuns DEF Runs
        <3> QED BY <1>1, <3>1, <3>2, ThinDue
    <2> QED BY <2>1, <2>2
<1>4. CASE Boot
    BY <1>1, <1>4, BootDue
<1>5. CASE Irq \/ sched_wake_expired
    BY <1>1, <1>5, WakeDue
<1>6. CASE Systick
    BY <1>1, <1>6, SystickDue
<1>7. CASE TrapReturn
    BY <1>1, <1>7, TrapReturnDue
<1>8. CASE UNCHANGED vars
    BY <1>1, <1>8 DEF vars, DueInv, Lateness
<1> QED BY <1>2, <1>3, <1>4, <1>5, <1>6, <1>7, <1>8 DEF Next, TrapStep, CorruptLoop

(* When a trap has been handled, no task waits on the timer whose wakeup   *)
(* time has come, although sched_wake_expired stops at the first entry     *)
(* that has not expired and tick_count wraps.                              *)
THEOREM DueTasksAreWoken == Spec => []DueTasksAreAwake
<1>1. Init => DueOK
    <2> SUFFICES ASSUME Init PROVE DueInv
        BY DEF DueOK
    <2>1. k.timeout = <<>>
        BY DEF Init, sched_init
    <2>2. Len(k.timeout) = 0
        BY <2>1
    <2> QED BY <2>1, <2>2, EmptyShape DEF DueInv, Falling, Contains
<1>2. TypeInv /\ TypeInv' /\ ListsOK /\ DueOK /\ [Next]_vars => DueOK'
    BY NextDue
<1>3. TypeInv /\ ListsOK /\ DueOK => DueTasksAreAwake
    <2> SUFFICES ASSUME TypeInv, ListInv, DueInv, trap = "none", NEW t \in Task,
                        k.state[t] = "BLOCKED", k.timer[t]
                 PROVE  ~timer_expired(tick, k.wakeup[t])
        BY DEF DueTasksAreAwake, DueOK, ListsOK
    <2>1. Contains(k.timeout, t)
        BY DEF ListInv, Sound, Placed
    <2>2. Signed(tick - k.wakeup[t]) < 0
        BY <2>1 DEF DueInv, Lateness
    <2>3. tick \in Ticks /\ k.wakeup[t] \in Ticks
        BY DEF TypeInv, TypeOK, Scheduler
    <2> QED BY <2>2, <2>3, SignedExpired DEF TickBefore
<1> QED BY <1>1, <1>2, <1>3, ListsCorrect, PTL DEF Spec

-----------------------------------------------------------------------------
(* The idle task is put on a ready list by kernel_init only, and nobody is *)
(* ever put in front of it there.                                          *)
Rank == [t \in Task |-> IF t = Idle THEN 1 ELSE 0]

(* On the ready list that holds it the idle task comes first. *)
IdleFirst(s) == \A p \in Prio : Falling(s.ready[p], Rank)

(* From s to r the ready lists stay so. *)
Lined(s, r) ==
    /\ IdleFirst(s) => IdleFirst(r)
    /\ OnReady(r, Idle) => OnReady(s, Idle)

(* No task comes into being, is deleted or is freed. *)
LiveState == {"READY", "RUNNING", "BLOCKED"}
StatesKept(s, r) ==
    \A x \in Task : r.state[x] = s.state[x] \/ {s.state[x], r.state[x]} \subseteq LiveState

(* Both, and no priority changes. *)
Steady(s, r) == Lined(s, r) /\ r.prio = s.prio /\ StatesKept(s, r)

(* The idle task has the rank 1, the others 0. *)
LEMMA RankType == Rank \in [Task -> Int]
BY DEF Rank

(* What joins the tail of a list behind the idle task. *)
LEMMA AppendFalling ==
    ASSUME NEW l \in Seq(Task), Falling(l, Rank), NEW t \in Task \ {Idle}
    PROVE  Falling(Append(l, t), Rank)
<1> DEFINE r == Append(l, t)
<1>1. /\ Len(r) = Len(l) + 1
      /\ \A i \in 1..Len(l) : r[i] = l[i] /\ l[i] \in Task
      /\ r[Len(l) + 1] = t
    BY ElementOfSeq
<1> HIDE DEF r
<1>2. Rank[t] = 0 /\ \A x \in Task : Rank[x] \in {0, 1}
    BY DEF Rank
<1> SUFFICES ASSUME NEW i \in 1..Len(r), NEW j \in 1..Len(r), i < j
             PROVE  Rank[r[i]] >= Rank[r[j]]
    BY DEF Falling, r
<1>3. i \in 1..Len(l)
    BY <1>1
<1>4. CASE j \in 1..Len(l)
    BY <1>1, <1>3, <1>4 DEF Falling
<1>5. CASE j = Len(l) + 1
    BY <1>1, <1>2, <1>3, <1>5
<1> QED BY <1>1, <1>4, <1>5

(* An operator that leaves lists and priorities alone. *)
LEMMA SteadyFields ==
    ASSUME NEW s, NEW r, r.ready = s.ready, r.prio = s.prio, StatesKept(s, r)
    PROVE  Steady(s, r)
BY DEF Steady, Lined, IdleFirst, OnReady

(* Two operators in a row. *)
LEMMA SteadyTwice ==
    ASSUME NEW s, NEW r, NEW e, Steady(s, r), Steady(r, e)
    PROVE  Steady(s, e)
BY DEF Steady, Lined, StatesKept

(* The same for the ready lists alone. *)
LEMMA LinedTwice ==
    ASSUME NEW s, NEW r, NEW e, Lined(s, r), Lined(r, e)
    PROVE  Lined(s, e)
BY DEF Lined

(* The list primitives. *)
LEMMA SteadyDel ==
    ASSUME NEW s \in Scheduler, NEW t \in Task
    PROVE  /\ Steady(s, StateListDel(s, t))
           /\ Steady(s, sched_ready_remove(s, t))
<1> DEFINE r == StateListDel(s, t)
<1>1. /\ r.ready = [p \in Prio |-> RemoveFirst(s.ready[p], t)]
      /\ r.state = s.state /\ r.prio = s.prio
    BY DEF StateListDel, Scheduler
<1>2. r \in Scheduler /\ \A p \in Prio : s.ready[p] \in Seq(Task)
    <2>1. \A p \in Prio : s.ready[p] \in Seq(Task)
        BY DEF Scheduler
    <2> QED BY <2>1, StateListDelType
<1> HIDE DEF r
<1>3. IdleFirst(s) => IdleFirst(r)
    BY <1>1, <1>2, RankType, RemoveFalling DEF IdleFirst
<1>4. OnReady(r, Idle) => OnReady(s, Idle)
    BY <1>1, <1>2, RemoveFirstShape DEF OnReady
<1>5. Steady(s, r)
    BY <1>1, <1>3, <1>4 DEF Steady, Lined, StatesKept
<1>6. sched_ready_remove(s, t) \in {s, r, [r EXCEPT !.mask = @ \ {s.prio[t]}]}
    BY DEF sched_ready_remove, r
<1>7. Steady(r, [r EXCEPT !.mask = @ \ {s.prio[t]}]) /\ Steady(s, s)
    <2> DEFINE e == [r EXCEPT !.mask = @ \ {s.prio[t]}]
    <2>1. e.ready = r.ready /\ e.prio = r.prio /\ e.state = r.state
        BY <1>2 DEF Scheduler
    <2> HIDE DEF e
    <2>2. Steady(r, e) /\ Steady(s, s)
        BY <2>1, SteadyFields DEF StatesKept
    <2> QED BY <2>2 DEF e
<1> QED BY <1>5, <1>6, <1>7, SteadyTwice DEF r

(* Linking any other task. *)
LEMMA SteadyLink ==
    ASSUME NEW s \in Scheduler, NEW t \in Task \ {Idle}
    PROVE  Steady(s, ready_link(s, t)) /\ Steady(s, sched_ready_enqueue(s, t))
<1> DEFINE r == ready_link(s, t)
           m == s.prio[t]
<1>1. /\ m \in Prio
      /\ r.ready[m] = Append(s.ready[m], t)
      /\ \A p \in Prio \ {m} : r.ready[p] = s.ready[p]
      /\ r.state = s.state /\ r.prio = s.prio
    BY AppendProperties DEF ready_link, Scheduler
<1>2. r \in Scheduler /\ \A p \in Prio : s.ready[p] \in Seq(Task)
    <2>1. \A p \in Prio : s.ready[p] \in Seq(Task)
        BY DEF Scheduler
    <2> QED BY <2>1, EnqueueType
<1> HIDE DEF m, r
<1>3. IdleFirst(s) => IdleFirst(r)
    BY <1>1, <1>2, AppendFalling DEF IdleFirst
<1>4. OnReady(r, Idle) => OnReady(s, Idle)
    <2> SUFFICES ASSUME NEW p \in Prio, Contains(r.ready[p], Idle)
                 PROVE  Contains(s.ready[p], Idle)
        BY DEF OnReady
    <2>1. CASE p = m
        <3>1. Contains(Append(s.ready[m], t), Idle) <=> Contains(s.ready[m], Idle) \/ Idle = t
            BY <1>1, <1>2, AppendShape
        <3> QED BY <1>1, <2>1, <3>1
    <2>2. CASE p # m
        BY <1>1, <2>2
    <2> QED BY <2>1, <2>2
<1>5. Steady(s, r)
    BY <1>1, <1>3, <1>4 DEF Steady, Lined, StatesKept
<1>6. sched_ready_enqueue(s, t) \in {s, [r EXCEPT !.mask = @ \cup {m}]}
    BY DEF sched_ready_enqueue, r, m
<1>7. Steady(r, [r EXCEPT !.mask = @ \cup {m}]) /\ Steady(s, s)
    <2> DEFINE e == [r EXCEPT !.mask = @ \cup {m}]
    <2>1. e.ready = r.ready /\ e.prio = r.prio /\ e.state = r.state
        BY <1>2 DEF Scheduler
    <2> HIDE DEF e
    <2>2. Steady(r, e) /\ Steady(s, s)
        BY <2>1, SteadyFields DEF StatesKept
    <2> QED BY <2>2 DEF e
<1> QED BY <1>5, <1>6, <1>7, SteadyTwice DEF r

(* The two operators of the timeout list. *)
LEMMA SteadyTimeout ==
    ASSUME NEW s \in Scheduler, NEW t \in Task
    PROVE  Steady(s, sched_timeout_remove(s, t)) /\ Steady(s, sched_timeout_insert(s, t))
<1>1. ASSUME NEW r, \/ r = sched_timeout_remove(s, t)
                    \/ r = sched_timeout_insert(s, t)
      PROVE  Steady(s, r)
    <2>1. r.ready = s.ready /\ r.prio = s.prio /\ r.state = s.state
        BY <1>1 DEF sched_timeout_remove, sched_timeout_insert, Scheduler
    <2> QED BY <2>1, SteadyFields DEF StatesKept
<1> QED BY <1>1

(* A task blocks. *)
LEMMA SteadyBlock ==
    ASSUME NEW s \in Scheduler, NEW t \in Task, IsCurrent(s, t), s.state[t] \in LiveState
    PROVE  /\ \A due \in Ticks : Steady(s, Asleep(s, t, due))
           /\ \A q \in WaitQ : Steady(s, trt_wait_q_block_locked(s, q))
           /\ \A q \in WaitQ, d \in Nat, now \in Ticks :
                 Steady(s, trt_wait_q_block_ticks_locked(s, q, d, now))
<1>1. ASSUME NEW due \in Ticks PROVE Steady(s, Asleep(s, t, due))
    <2> DEFINE b == [s EXCEPT !.wakeup[t] = due, !.timer[t] = TRUE,
                              !.wres[t] = "NONE", !.state[t] = "BLOCKED"]
               r == sched_ready_remove(b, t)
    <2>1. b \in Scheduler
        BY DEF Scheduler, WaitResult, TaskState
    <2>2. Steady(s, b)
        <3>1. b.ready = s.ready /\ b.prio = s.prio /\ StatesKept(s, b)
            BY DEF Scheduler, StatesKept, LiveState
        <3> HIDE DEF b
        <3> QED BY <3>1, SteadyFields
    <2>3. Asleep(s, t, due) = sched_timeout_insert(r, t)
        BY DEF Asleep
    <2> HIDE DEF b
    <2>4. r \in Scheduler /\ Steady(b, r)
        BY <2>1, RemoveType, SteadyDel
    <2> HIDE DEF r
    <2>5. Steady(r, sched_timeout_insert(r, t))
        BY <2>4, SteadyTimeout
    <2> QED BY <2>2, <2>3, <2>4, <2>5, SteadyTwice
<1>2. ASSUME NEW q \in WaitQ PROVE Steady(s, trt_wait_q_block_locked(s, q))
    <2>1. CASE BlockRefused(s)
        <3> DEFINE e == [s EXCEPT !.pending = TRUE]
        <3>1. trt_wait_q_block_locked(s, q) = e
            BY <2>1 DEF trt_wait_q_block_locked, sched_set_pending
        <3>2. e.ready = s.ready /\ e.prio = s.prio /\ StatesKept(s, e)
            BY DEF Scheduler, StatesKept
        <3> HIDE DEF e
        <3> QED BY <3>1, <3>2, SteadyFields
    <2>2. CASE ~BlockRefused(s)
        <3> DEFINE a == [s EXCEPT !.wres[t] = "NONE"]
                   b == [a EXCEPT !.state[t] = "BLOCKED", !.timer[t] = FALSE]
                   r == sched_ready_remove(b, t)
        <3>1. a \in Scheduler /\ b \in Scheduler /\ a.current = t
            BY DEF Scheduler, WaitResult, TaskState, IsCurrent
        <3>2. Steady(s, b)
            <4>1. b.ready = s.ready /\ b.prio = s.prio /\ StatesKept(s, b)
                BY DEF Scheduler, StatesKept, LiveState
            <4> HIDE DEF b
            <4> QED BY <4>1, SteadyFields
        <3>3. trt_wait_q_block_locked(s, q) = sched_block_current(a, q)
            BY <2>2 DEF trt_wait_q_block_locked, IsCurrent
        <3> HIDE DEF a
        <3>4. PICK l : sched_block_current(a, q) = [r EXCEPT !.wq[q] = l]
            BY <3>1 DEF sched_block_current
        <3> HIDE DEF b
        <3>5. r \in Scheduler /\ Steady(b, r)
            BY <3>1, RemoveType, SteadyDel
        <3> HIDE DEF r
        <3> DEFINE e == [r EXCEPT !.wq[q] = l]
        <3>6. e.ready = r.ready /\ e.prio = r.prio /\ e.state = r.state
            BY <3>5 DEF Scheduler
        <3> HIDE DEF e
        <3>7. Steady(r, e)
            BY <3>6, SteadyFields DEF StatesKept
        <3>8. trt_wait_q_block_locked(s, q) = e
            BY <3>3, <3>4 DEF e
        <3> QED BY <3>2, <3>5, <3>7, <3>8, SteadyTwice
    <2> QED BY <2>1, <2>2
<1>3. ASSUME NEW q \in WaitQ, NEW d \in Nat, NEW now \in Ticks
      PROVE  Steady(s, trt_wait_q_block_ticks_locked(s, q, d, now))
    <2> DEFINE b == trt_wait_q_block_locked(s, q)
               w == (now + d) % TickMod
               n == [b EXCEPT !.wakeup[t] = w, !.timer[t] = TRUE, !.wres[t] = "NONE"]
               e == trt_wait_q_block_ticks_locked(s, q, d, now)
    <2>1. b \in Scheduler /\ Steady(s, b)
        BY <1>2, WaitQueueType
    <2>2. e = IF BlockRefused(s) THEN b ELSE sched_timeout_insert(n, t)
        BY DEF trt_wait_q_block_ticks_locked, IsCurrent
    <2>3. w \in Ticks
        BY SchedAssumption DEF Ticks
    <2> HIDE DEF b, w, e
    <2>4. n \in Scheduler
        BY <2>1, <2>3 DEF Scheduler, WaitResult
    <2>5. Steady(b, n)
        <3>1. n.ready = b.ready /\ n.prio = b.prio /\ n.state = b.state
            BY <2>1 DEF Scheduler
        <3> HIDE DEF n
        <3> QED BY <3>1, SteadyFields DEF StatesKept
    <2> HIDE DEF n
    <2>6. Steady(n, sched_timeout_insert(n, t))
        BY <2>4, SteadyTimeout
    <2> QED BY <2>1, <2>2, <2>5, <2>6, SteadyTwice DEF e
<1> QED BY <1>1, <1>2, <1>3

(* A waiter is woken. *)
LEMMA SteadyWake ==
    ASSUME NEW s \in Scheduler, NEW U, NEW B, Sound(s, U, B), NEW q \in WaitQ,
           s.state[Idle] \in {"READY", "RUNNING"}, NEW result \in WaitResult,
           NEW e, \/ e = trt_wait_q_wake_one_result_locked(s, q, result)
                  \/ e = trt_wait_q_wake_one_from_isr(s, q)
    PROVE  Steady(s, e)
<1>1. Steady(s, s)
    BY SteadyFields DEF StatesKept
<1>2. CASE s.wq[q] = <<>>
    BY <1>1, <1>2 DEF trt_wait_q_wake_one_result_locked, trt_wait_q_wake_one_from_isr
<1>3. CASE s.wq[q] # <<>>
    <2> DEFINE t == Head(s.wq[q])
               d == sched_timeout_remove(s, t)
               r == [d EXCEPT !.wq[q] = Tail(@), !.timer[t] = FALSE, !.state[t] = "READY"]
               w == sched_wake_one(s, q)
    <2>1. s.wq[q] \in Seq(Task)
        BY DEF Scheduler
    <2>2. t \in Task /\ Contains(s.wq[q], t) /\ Tail(s.wq[q]) \in Seq(Task)
        BY <1>3, <2>1, TailShape
    <2>3. s.state[t] = "BLOCKED" /\ t # Idle
        BY <2>2 DEF Sound, Placed
    <2>4. d \in Scheduler /\ d.wq = s.wq /\ d.ready = s.ready /\ d.prio = s.prio /\ d.state = s.state
        BY <2>2, TimeoutType DEF sched_timeout_remove, Scheduler
    <2>5. w = sched_ready_enqueue(r, t)
        BY DEF sched_wake_one
    <2>6. e \in {[w EXCEPT !.pending = @ \/ sched_is_locked(s), !.wres[t] = result],
                 [[w EXCEPT !.pending = @ \/ sched_is_locked(s), !.wres[t] = "OBJECT"]
                     EXCEPT !.pending = TRUE]}
        BY <1>3 DEF trt_wait_q_wake_one_result_locked, trt_wait_q_wake_one_from_isr,
                    trt_wait_q_wake_one_locked, sched_set_pending
    <2> HIDE DEF d, t
    <2>7. r \in Scheduler /\ r.ready = s.ready /\ r.prio = s.prio /\ StatesKept(s, r)
        BY <2>2, <2>3, <2>4 DEF Scheduler, TaskState, StatesKept, LiveState
    <2> HIDE DEF r
    <2>8. w \in Scheduler /\ Steady(s, r) /\ Steady(r, w)
        BY <2>2, <2>3, <2>5, <2>7, EnqueueType, SteadyFields, SteadyLink
    <2> HIDE DEF w
    <2>9. e.ready = w.ready /\ e.prio = w.prio /\ e.state = w.state
        <3>1. CASE e = [w EXCEPT !.pending = @ \/ sched_is_locked(s), !.wres[t] = result]
            BY <2>8, <3>1 DEF Scheduler
        <3>2. CASE e = [[w EXCEPT !.pending = @ \/ sched_is_locked(s), !.wres[t] = "OBJECT"]
                     EXCEPT !.pending = TRUE]
            BY <2>8, <3>2 DEF Scheduler
        <3> QED BY <2>6, <3>1, <3>2
    <2>10. Steady(w, e)
        BY <2>9, SteadyFields DEF StatesKept
    <2> QED BY <2>8, <2>10, SteadyTwice
<1> QED BY <1>2, <1>3

(* One round of sched_wake_expired. *)
LEMMA SteadyExpired ==
    ASSUME NEW s \in Scheduler, s.timeout # <<>>, s.state[Idle] \in {"READY", "RUNNING"},
           NEW e, e = sched_wake_expired_one(s)
    PROVE  Steady(s, e)
<1> DEFINE t == Head(s.timeout)
           r == [s EXCEPT !.timeout = Tail(@)]
           d == StateListDel(r, t)
           w == [d EXCEPT !.timer[t] = FALSE, !.wres[t] = "TIMEOUT", !.state[t] = "READY"]
<1>1. t \in Task /\ Tail(s.timeout) \in Seq(Task)
    BY TailShape DEF Scheduler
<1>2. e = IF s.state[t] = "BLOCKED" /\ s.timer[t] THEN sched_ready_enqueue(w, t) ELSE r
    BY DEF sched_wake_expired_one
<1> HIDE DEF t
<1>3. r \in Scheduler /\ r.ready = s.ready /\ r.prio = s.prio /\ r.state = s.state
    BY <1>1 DEF Scheduler
<1> HIDE DEF r
<1>4. Steady(s, r)
    BY <1>3, SteadyFields DEF StatesKept
<1>5. d.state = r.state
    BY <1>1, <1>3 DEF StateListDel, Scheduler
<1>6. d \in Scheduler /\ Steady(r, d)
    BY <1>1, <1>3, StateListDelType, SteadyDel
<1> HIDE DEF d
<1>7. CASE s.state[t] = "BLOCKED" /\ s.timer[t]
    <2>1. d.state[t] = "BLOCKED"
        BY <1>3, <1>5, <1>7
    <2>2. w \in Scheduler
        BY <1>1, <1>6 DEF Scheduler, TaskState, WaitResult
    <2>3. w.ready = d.ready /\ w.prio = d.prio
        BY <1>6 DEF Scheduler
    <2>4. StatesKept(d, w)
        BY <1>1, <1>6, <2>1 DEF Scheduler, StatesKept, LiveState
    <2> HIDE DEF w
    <2>5. t # Idle
        BY <1>7
    <2>6. Steady(d, w) /\ Steady(w, sched_ready_enqueue(w, t))
        BY <1>1, <2>2, <2>3, <2>4, <2>5, SteadyFields, SteadyLink
    <2>7. Steady(s, w)
        BY <1>4, <1>6, <2>6, SteadyTwice
    <2> QED BY <1>2, <1>7, <2>6, <2>7, SteadyTwice
<1>8. CASE ~(s.state[t] = "BLOCKED" /\ s.timer[t])
    BY <1>2, <1>4, <1>8
<1> QED BY <1>7, <1>8

(* A task is deleted. *)
LEMMA LinedMark ==
    ASSUME NEW s \in Scheduler, NEW t \in Task, NEW self,
           NEW e, e = MarkedDeleted(s, t, self) \/ e = sched_mark_deleted(s, t)
    PROVE  /\ Lined(s, e) /\ e.prio = s.prio
           /\ \A x \in Task \ {t} : e.state[x] = s.state[x]
<1> DEFINE d == IF s.state[t] = "READY" THEN sched_ready_remove(s, t) ELSE StateListDel(s, t)
           r == sched_timeout_remove(d, t)
           m == [r EXCEPT !.timer[t] = FALSE, !.wres[t] = "NONE",
                          !.state[t] = "DELETED", !.deleted = Append(@, t)]
           n == sched_mark_deleted(s, t)
<1>1. n = IF t = s.idle \/ s.state[t] = "DELETED" THEN s ELSE m
    BY DEF sched_mark_deleted
<1>2. d \in Scheduler /\ Steady(s, d)
    BY RemoveType, StateListDelType, SteadyDel
<1>3. d.state = s.state
    BY DEF sched_ready_remove, StateListDel, Scheduler
<1> HIDE DEF d
<1>4. r \in Scheduler /\ Steady(d, r) /\ r.state = d.state
    BY <1>2, TimeoutType, SteadyTimeout DEF sched_timeout_remove, Scheduler
<1> HIDE DEF r
<1>5. /\ m.ready = r.ready /\ m.prio = r.prio /\ DOMAIN m = DOMAIN r
      /\ \A x \in Task \ {t} : m.state[x] = r.state[x]
    BY <1>4 DEF Scheduler
<1>6. Lined(s, r) /\ r.prio = s.prio
    BY <1>2, <1>4, SteadyTwice DEF Steady
<1> HIDE DEF m
<1>7. Lined(s, m) /\ m.prio = s.prio /\ \A x \in Task \ {t} : m.state[x] = s.state[x]
    BY <1>3, <1>4, <1>5, <1>6 DEF Lined, IdleFirst, OnReady
<1>8. Lined(s, s)
    BY DEF Lined
<1>9. /\ Lined(s, n) /\ n.prio = s.prio /\ \A x \in Task \ {t} : n.state[x] = s.state[x]
      /\ n \in Scheduler
    BY <1>1, <1>7, <1>8, MarkDeletedType
<1> HIDE DEF n
<1>10. CASE e = n
    BY <1>9, <1>10
<1>11. CASE e = MarkedDeleted(s, t, self)
    <2>1. e = [n EXCEPT !.pending = @ \/ self]
        BY <1>11 DEF MarkedDeleted, n
    <2>2. e.ready = n.ready /\ e.prio = n.prio /\ e.state = n.state
        BY <1>9, <2>1 DEF Scheduler
    <2> QED BY <1>9, <2>2 DEF Lined, IdleFirst, OnReady
<1> QED BY <1>10, <1>11 DEF n


-----------------------------------------------------------------------------
(* The steps of a task leave the places and locals of the others alone,    *)
(* but for the TCB that is freed.                                          *)
LEMMA StepMoves ==
    ASSUME TypeInv, NEW t \in Task, AppCall(t) \/ KernelStep(t), ~cleanup_free
    PROVE  Moves(t, pc'[t]) /\ boot' = boot
<1> USE DEF taskvars, history
<1>1. pc \in [Task -> Pc] /\ reg \in [Task -> Locals]
    BY DEF TypeInv, TypeOK
<1>2. boot' = boot /\ \A x \in Task \ {t} : pc'[x] = pc[x] /\ reg'[x] = reg[x]
    <2>1. CASE \/ task_yield(t) \/ sched_lock(t) \/ sched_unlock(t)
               \/ \E d \in Delays : task_sleep(t, d)
        BY <1>1, <2>1 DEF task_yield, sched_lock, sched_unlock, task_sleep, CallYield, Goto
    <2>2. ASSUME NEW q \in WaitQ, \/ trt_wait_q_block(t, q)
                                  \/ \E d \in Delays : trt_wait_q_block_ticks(t, q, d)
                                  \/ trt_wait_q_wake_one(t, q)
                                  \/ trt_wait_q_wake_all(t, q)
          PROVE  boot' = boot /\ \A x \in Task \ {t} : pc'[x] = pc[x] /\ reg'[x] = reg[x]
        BY <1>1, <2>2 DEF trt_wait_q_block, trt_wait_q_block_ticks, trt_wait_q_wake_one,
           trt_wait_q_wake_all, CallYield, Goto
    <2>3. CASE \/ \E h \in Handle : task_delete(t, h)
               \/ \E p \in CreatePrio : task_create(t, p)
        BY <1>1, <2>3 DEF task_delete, task_create, Goto
    <2>4. CASE task_exit(t) \/ task_delete_found(t) \/ create_fail(t)
        BY <1>1, <2>4 DEF task_exit, task_delete_found, create_fail, task_delete_obj, Goto
    <2>5. CASE task_yield_step(t)
        BY <1>1, <2>5 DEF task_yield_step, yield_check, yield_link, mask_load, mask_store,
           arch_yield, Goto
    <2>6. CASE sleep_loop(t) \/ sleep_block(t) \/ wait_return(t)
        BY <1>1, <2>6 DEF sleep_loop, sleep_block, sleep_done, wait_return, CallYield, Goto
    <2>7. CASE wake_all_round(t, "wq_all", "OBJECT", "run")
        BY <1>1, <2>7 DEF wake_all_round, Goto
    <2>8. CASE \/ create_link(t) \/ mask_load(t, "c_load", "c_store") \/ count_load(t)
               \/ mask_store(t, reg[t].obj, "c_store", "c_cload")
               \/ count_store(t) \/ create_handle(t) \/ create_set_handle(t)
        BY <1>1, <2>8 DEF create_link, mask_load, count_load, mask_store, count_store,
           create_handle, create_set_handle, Goto
    <2>9. CASE t = Idle /\ (cleanup_pop \/ idle_enable)
        BY <1>1, <2>9 DEF cleanup_pop, idle_enable, Goto
    <2> QED BY <2>1, <2>2, <2>3, <2>4, <2>5, <2>6, <2>7, <2>8, <2>9
            DEF AppCall, KernelStep, task_create_step, idle_step
<1> QED BY <1>2 DEF Moves

(* Calls that neither create nor delete a task. *)
LEMMA CallSteady ==
    ASSUME TypeInv, ListInv, NEW t \in Task, AppCall(t), ~task_exit(t),
           \A p \in CreatePrio : ~task_create(t, p)
    PROVE  Steady(k, k') /\ UNCHANGED <<task_count, hnd, htab, fault>>
<1> USE DEF taskvars, history
<1>1. k \in Scheduler /\ Runs(t)
    BY StepRuns DEF TypeInv, TypeOK
<1>2. /\ IsCurrent(k, t) /\ Sound(k, Unlinked, BitUnderway)
      /\ k.state[Idle] \in {"READY", "RUNNING"}
    BY <1>1, RunsFacts DEF IsCurrent
<1>3. ASSUME k'.ready = k.ready, k'.prio = k.prio, k'.state = k.state PROVE Steady(k, k')
    BY <1>3, SteadyFields DEF StatesKept
<1>4. UNCHANGED <<task_count, hnd, htab, fault>>
    BY DEF AppCall, task_yield, task_sleep, sched_lock, sched_unlock, trt_wait_q_block,
       trt_wait_q_block_ticks, trt_wait_q_wake_one, trt_wait_q_wake_all, task_delete
<1>5. CASE task_yield(t) \/ \E h \in Handle : task_delete(t, h)
    BY <1>3, <1>5 DEF task_yield, task_delete
<1>6. CASE (\E d \in Delays : task_sleep(t, d)) \/ sched_lock(t) \/ sched_unlock(t)
    BY <1>1, <1>3, <1>6 DEF task_sleep, sched_lock, sched_unlock, sched_set_pending, Scheduler
<1>7. ASSUME NEW q \in WaitQ, \/ trt_wait_q_block(t, q)
                              \/ \E d \in Delays : trt_wait_q_block_ticks(t, q, d)
      PROVE  Steady(k, k')
    <2>1. k.state[t] = "RUNNING"
        BY <1>7, CallFacts DEF trt_wait_q_block, trt_wait_q_block_ticks
    <2>2. k.state[t] \in LiveState
        BY <2>1 DEF LiveState
    <2>3. CASE trt_wait_q_block(t, q)
        BY <1>1, <1>2, <2>2, <2>3, SteadyBlock DEF trt_wait_q_block
    <2>4. ASSUME NEW d \in Delays, trt_wait_q_block_ticks(t, q, d) PROVE Steady(k, k')
        <3>1. d \in Nat /\ tick \in Ticks
            BY KernelAssumption DEF TypeInv, TypeOK
        <3>2. k' = trt_wait_q_block_ticks_locked(k, q, d, tick)
            BY <2>4 DEF trt_wait_q_block_ticks
        <3> QED BY <1>1, <1>2, <2>2, <3>1, <3>2, SteadyBlock
    <2> QED BY <1>7, <2>3, <2>4
<1>8. ASSUME NEW q \in WaitQ, trt_wait_q_wake_one(t, q) \/ trt_wait_q_wake_all(t, q)
      PROVE  Steady(k, k')
    <2>1. CASE trt_wait_q_wake_all(t, q)
        BY <1>3, <2>1 DEF trt_wait_q_wake_all
    <2>2. CASE trt_wait_q_wake_one(t, q)
        <3>1. k' = trt_wait_q_wake_one_result_locked(k, q, "OBJECT")
            BY <2>2 DEF trt_wait_q_wake_one, trt_wait_q_wake_one_locked
        <3>2. "OBJECT" \in WaitResult
            BY DEF WaitResult
        <3> QED BY <1>1, <1>2, <3>1, <3>2, SteadyWake
    <2> QED BY <1>8, <2>1, <2>2
<1> QED BY <1>4, <1>5, <1>6, <1>7, <1>8 DEF AppCall

(* Steps inside the kernel that do not delete or free a task. *)
LEMMA StepSteady ==
    ASSUME TypeInv, ListInv, NEW t \in Task, KernelStep(t), ~task_delete_found(t),
           ~create_fail(t), ~cleanup_free
    PROVE  /\ Steady(k, k')
           /\ ~count_store(t) /\ ~create_handle(t) /\ ~create_set_handle(t)
                 => UNCHANGED <<task_count, hnd, htab, fault>>
<1> USE DEF taskvars, history
<1>1. k \in Scheduler /\ Runs(t)
    BY StepRuns DEF TypeInv, TypeOK
<1>2. /\ IsCurrent(k, t) /\ Sound(k, Unlinked, BitUnderway) /\ OwnOK(t) /\ StateAt(t)
      /\ k.state[Idle] \in {"READY", "RUNNING"}
    BY <1>1, RunsFacts DEF IsCurrent, OwnOK
<1>3. ASSUME k'.ready = k.ready, k'.prio = k.prio, k'.state = k.state PROVE Steady(k, k')
    BY <1>3, SteadyFields DEF StatesKept
<1>4. ~count_store(t) /\ ~create_handle(t) /\ ~create_set_handle(t)
                 => UNCHANGED <<task_count, hnd, htab, fault>>
    BY DEF KernelStep, task_yield_step, yield_check, yield_link, mask_load, mask_store, arch_yield,
       sleep_loop, sleep_block, wait_return, wake_all_round, task_create_step, create_link,
       count_load, idle_step, cleanup_pop, idle_enable
<1> SUFFICES Steady(k, k')
    BY <1>4
<1>5. ASSUME k' = k PROVE Steady(k, k')
    BY <1>3, <1>5
<1>6. CASE yield_check(t)
    <2>1. \/ k' = k
          \/ k' = [k EXCEPT !.pending = TRUE]
          \/ k.state[t] = "RUNNING" /\ k' = [k EXCEPT !.state[t] = "READY"]
        BY <1>6 DEF yield_check, sched_set_pending
    <2>2. k'.ready = k.ready /\ k'.prio = k.prio /\ StatesKept(k, k')
        BY <1>1, <2>1 DEF Scheduler, StatesKept, LiveState
    <2> QED BY <2>2, SteadyFields
<1>7. CASE yield_link(t)
    <2>1. t # Idle
        BY <1>2, <1>7 DEF yield_link, At, OwnOK, IdlePc
    <2>2. k' = k \/ k' = ready_link(k, t)
        BY <1>7 DEF yield_link
    <2> QED BY <1>1, <1>5, <2>1, <2>2, SteadyLink
<1>8. CASE \/ mask_store(t, t, "y_store", "ecall")
           \/ mask_store(t, reg[t].obj, "c_store", "c_cload")
    BY <1>1, <1>3, <1>8 DEF mask_store, Scheduler
<1>9. CASE \/ arch_yield(t) \/ mask_load(t, "y_load", "y_store") \/ sleep_loop(t) \/ wait_return(t)
           \/ mask_load(t, "c_load", "c_store") \/ count_load(t) \/ count_store(t)
           \/ create_handle(t) \/ create_set_handle(t) \/ idle_enable
    BY <1>5, <1>9 DEF arch_yield, mask_load, sleep_loop, sleep_done, wait_return, count_load,
       count_store, create_handle, create_set_handle, idle_enable
<1>10. CASE sleep_block(t)
    <2>1. k.state[t] = "RUNNING" /\ reg[t].due \in Ticks
        BY <1>2, <1>10 DEF sleep_block, At, StateAt, LinkPc, TypeInv, TypeOK, Locals
    <2>2. k' = k \/ k' = Asleep(k, t, reg[t].due)
        BY <1>10 DEF sleep_block, sleep_done, Asleep
    <2>3. k.state[t] \in LiveState
        BY <2>1 DEF LiveState
    <2> QED BY <1>1, <1>2, <1>5, <2>1, <2>2, <2>3, SteadyBlock
<1>11. CASE wake_all_round(t, "wq_all", "OBJECT", "run")
    <2>1. reg[t].q \in WaitQ /\ "OBJECT" \in WaitResult
        BY <1>11 DEF wake_all_round, At, TypeInv, LocalsOK, WaitResult
    <2>2. k' = trt_wait_q_wake_one_result_locked(k, reg[t].q, "OBJECT")
        BY <1>11 DEF wake_all_round
    <2> QED BY <1>1, <1>2, <2>1, <2>2, SteadyWake
<1>12. CASE create_link(t)
    <2>1. pc[t] = "c_link" /\ pc[t] \in CreatePc
        BY <1>12 DEF create_link, At, CreatePc
    <2>2. reg[t].obj \in Task \ {Idle}
        BY <1>2, <2>1 DEF OwnOK, CreatorOK
    <2>3. k' = k \/ k' = ready_link(k, reg[t].obj)
        BY <1>12 DEF create_link
    <2> QED BY <1>1, <1>5, <2>2, <2>3, SteadyLink
<1>13. CASE cleanup_pop
    <2>1. k' = k \/ k' = [k EXCEPT !.deleted = Tail(@)]
        BY <1>13 DEF cleanup_pop
    <2>2. k'.ready = k.ready /\ k'.prio = k.prio /\ k'.state = k.state
        BY <1>1, <2>1 DEF Scheduler
    <2> QED BY <1>3, <2>2
<1> QED
    BY <1>6, <1>7, <1>8, <1>9, <1>10, <1>11, <1>12, <1>13
       DEF KernelStep, task_yield_step, task_create_step, idle_step

(* Interrupts and the wake-ups of a trap. *)
LEMMA TrapSteady ==
    ASSUME TypeInv, ListInv, Systick \/ Irq \/ sched_wake_expired
    PROVE  Steady(k, k') /\ UNCHANGED <<boot, reg, ret, task_count, hnd, htab>> /\ trap' # "none"
<1> USE DEF taskvars, history
<1>1. k \in Scheduler /\ Sound(k, Unlinked, BitUnderway) /\ (trap # "none" => boot = "done")
    BY DEF TypeInv, TypeOK, ListInv, BootOK
<1>2. ASSUME k' = k PROVE Steady(k, k')
    BY <1>2, SteadyFields DEF StatesKept
<1>3. CASE Systick
    BY <1>2, <1>3 DEF Systick, SysTick
<1>4. CASE Irq
    <2>1. k.state[Idle] \in {"READY", "RUNNING"}
        BY <1>4 DEF Irq, Interrupted, CanInterrupt, ListInv, BootOK
    <2>2. k' = k \/ \E q \in WaitQ : k' = trt_wait_q_wake_one_from_isr(k, q)
        BY <1>4 DEF Irq
    <2>3. "OBJECT" \in WaitResult
        BY DEF WaitResult
    <2> QED BY <1>1, <1>2, <1>4, <2>1, <2>2, <2>3, SteadyWake DEF Irq
<1>5. CASE sched_wake_expired
    <2>1. trap # "none" /\ k.timeout # <<>> /\ k' = sched_wake_expired_one(k)
        BY <1>5 DEF sched_wake_expired, HeadExpired
    <2>2. k.state[Idle] \in {"READY", "RUNNING"}
        BY <1>1, <2>1 DEF ListInv, BootOK
    <2> QED BY <1>1, <1>5, <2>1, <2>2, SteadyExpired DEF sched_wake_expired
<1> QED BY <1>3, <1>4, <1>5

-----------------------------------------------------------------------------
(* The idle task does not interrupt anybody.  It is on a ready list from   *)
(* kernel_init until it runs for the first time, in front of every task of *)
(* priority 0, and none of these has run until then; later it is chosen    *)
(* only when no task is ready.                                             *)
IdleWaits(s) ==
    /\ s.prio[Idle] = 0
    /\ IdleFirst(s)
    /\ OnReady(s, Idle) => \A t \in Task \ {Idle} : s.prio[t] = 0 => pc[t] = "run"

(* The current task is none of them. *)
IdleTurn(s) == OnReady(s, Idle) => s.prio[s.current] # 0

(* While the idle task runs no ready task is amid a call. *)
IdleQuiet(s) ==
    s.current = Idle => \A t \in Task \ {Idle} : OnReady(s, t) => pc[t] = "run"

(* The three together; while a trap runs, the CPU may be about to move. *)
IdleLast ==
    /\ IdleWaits(k)
    /\ k.started => IdleTurn(k) /\ (trap = "none" => IdleQuiet(k))

(* IdleWaits survives an operator that keeps the lists lined up. *)
LEMMA WaitsLined ==
    ASSUME NEW s, NEW r, IdleWaits(s), Lined(s, r), r.prio = s.prio
    PROVE  IdleWaits(r)
BY DEF IdleWaits, Lined

(* The head of the highest list becomes the current task. *)
LEMMA PopIdle ==
    ASSUME NEW s \in Scheduler, NEW U, Sound(s, U, {}), s.mask # {}, IdleWaits(s),
           NEW e, e = sched_ready_pop_highest(s)
    PROVE  IdleWaits(e) /\ IdleTurn(e) /\ IdleQuiet(e)
<1> DEFINE p == Max(s.mask)
           t == Head(s.ready[p])
           l == Tail(s.ready[p])
           m == IF l = <<>> THEN s.mask \ {p} ELSE s.mask
           f == [s EXCEPT !.ready[p] = l, !.mask = m, !.state[t] = "RUNNING", !.current = t]
<1>1. p \in s.mask /\ p \in Prio /\ \A y \in s.mask : p >= y
    BY SchedAssumption, MaxGreatest DEF Scheduler, Prio
<1>2. s.ready[p] # <<>> /\ s.ready[p] \in Seq(Task) /\ Distinct(s.ready[p])
    BY <1>1 DEF Sound, MaskSound, NoRepeats, Scheduler
<1>3. e = f
    BY <1>2 DEF sched_ready_pop_highest
<1>4. /\ t \in Task /\ Contains(s.ready[p], t) /\ l \in Seq(Task)
      /\ ~Contains(l, t) /\ t = s.ready[p][1]
      /\ \A x : Contains(l, x) => Contains(s.ready[p], x)
    BY <1>2, TailShape
<1>5. s.prio[t] = p
    BY <1>1, <1>4 DEF Sound, Placed
<1>6. Falling(s.ready[p], Rank) => Falling(l, Rank)
    BY <1>2, RankType, TailFalling
<1> HIDE DEF p, t, l, m
<1>7. /\ f.ready[p] = l
      /\ \A x \in Prio \ {p} : f.ready[x] = s.ready[x]
      /\ f.current = t /\ f.prio = s.prio
    BY <1>1, <1>4 DEF Scheduler
<1> HIDE DEF f
<1>8. \A q \in Prio : \A x : Contains(f.ready[q], x) => Contains(s.ready[q], x)
    BY <1>4, <1>7
<1>9. Lined(s, f)
    BY <1>1, <1>6, <1>7, <1>8 DEF Lined, IdleFirst, OnReady
<1>10. IdleWaits(f)
    BY <1>7, <1>9, WaitsLined
<1>11. IdleTurn(f)
    <2> SUFFICES ASSUME OnReady(f, Idle), s.prio[t] = 0 PROVE FALSE
        BY <1>7 DEF IdleTurn
    <2>1. PICK q \in Prio : Contains(f.ready[q], Idle)
        BY DEF OnReady
    <2>2. q = s.prio[Idle]
        BY <1>8, <2>1, SchedAssumption DEF Sound, Placed
    <2>3. q = p
        BY <1>5, <2>2 DEF IdleWaits
    <2>4. Contains(l, Idle) /\ Contains(s.ready[p], Idle)
        BY <1>4, <1>7, <2>1, <2>3
    <2>5. t # Idle
        BY <1>4, <2>4
    <2>6. PICK i \in 1..Len(s.ready[p]) : s.ready[p][i] = Idle
        BY <2>4 DEF Contains
    <2>7. 1 \in 1..Len(s.ready[p]) /\ 1 < i
        BY <1>2, <1>4, <2>5, <2>6
    <2>8. Falling(s.ready[p], Rank)
        BY <1>1 DEF IdleWaits, IdleFirst
    <2>9. Rank[t] >= Rank[Idle]
        BY <1>4, <2>6, <2>7, <2>8 DEF Falling
    <2> QED BY <1>4, <2>5, <2>9, SchedAssumption DEF Rank
<1>12. IdleQuiet(f)
    <2> SUFFICES ASSUME t = Idle, NEW x \in Task \ {Idle}, OnReady(f, x) PROVE pc[x] = "run"
        BY <1>7 DEF IdleQuiet
    <2>1. PICK q \in Prio : Contains(f.ready[q], x)
        BY DEF OnReady
    <2>2. Contains(s.ready[q], x) /\ s.ready[q] \in Seq(Task)
        BY <1>8, <2>1 DEF Scheduler
    <2>3. s.ready[q] # <<>>
        BY <2>2, EmptyShape
    <2>4. q \in s.mask
        BY <2>3 DEF Sound, MaskSound
    <2>5. p = 0 /\ q = 0
        BY <1>1, <1>5, <2>4, SchedAssumption DEF IdleWaits, Prio
    <2>6. s.prio[x] = 0
        BY <2>2, <2>5 DEF Sound, Placed
    <2>7. OnReady(s, Idle)
        BY <1>1, <1>4 DEF OnReady
    <2> QED BY <2>6, <2>7 DEF IdleWaits
<1> QED BY <1>3, <1>10, <1>11, <1>12

(* The requeue of the current task puts no idle task on a list. *)
LEMMA RequeueIdle ==
    ASSUME NEW s \in Scheduler, s.idle = Idle, IdleWaits(s),
           NEW r, r = Requeue(s)
    PROVE  IdleWaits(r)
<1> DEFINE t == s.current
           b == [s EXCEPT !.state[t] = "READY"]
<1>1. CASE t = None \/ s.state[t] # "RUNNING"
    BY <1>1 DEF Requeue
<1>2. CASE t # None /\ s.state[t] = "RUNNING"
    <2>1. t \in Task
        BY <1>2 DEF Scheduler
    <2>2. IF t = Idle THEN r = b ELSE r = sched_ready_enqueue(b, t)
        BY <1>2 DEF Requeue
    <2> HIDE DEF t
    <2>3. b \in Scheduler /\ b.ready = s.ready /\ b.prio = s.prio
        BY <2>1 DEF Scheduler, TaskState
    <2> HIDE DEF b
    <2>4. IdleWaits(b)
        BY <2>3, WaitsLined DEF Lined, IdleFirst, OnReady
    <2>5. CASE t # Idle
        <3>1. Steady(b, r)
            BY <2>1, <2>2, <2>3, <2>5, SteadyLink
        <3> QED BY <2>4, <3>1, WaitsLined DEF Steady
    <2> QED BY <2>2, <2>4, <2>5
<1> QED BY <1>1, <1>2

(* sched_pick_next gives the CPU to the idle task in its turn, or when no  *)
(* task is ready.                                                          *)
LEMMA PickIdle ==
    ASSUME NEW s \in Scheduler, NEW U, Sound(s, U, {}), s.idle = Idle, IdleWaits(s),
           s.state[Idle] \in {"READY", "RUNNING"},
           NEW e, e = sched_pick_next(s)
    PROVE  IdleWaits(e) /\ IdleTurn(e) /\ IdleQuiet(e)
<1> DEFINE r == Requeue(s)
<1>1. e = IF r.mask # {}
          THEN sched_ready_pop_highest(r)
          ELSE IF r.idle # None
               THEN [r EXCEPT !.state[r.idle] = "RUNNING", !.current = r.idle]
               ELSE r
    BY DEF sched_pick_next
<1>2. Sound(r, U \cup {Idle}, {}) /\ Requeued(s, r)
    BY RequeueSound
<1>3. r \in Scheduler /\ IdleWaits(r)
    BY RequeueType, RequeueIdle
<1> HIDE DEF r
<1>4. CASE r.mask # {}
    BY <1>1, <1>2, <1>3, <1>4, PopIdle
<1>5. CASE r.mask = {}
    <2>1. r.idle = Idle
        BY <1>2 DEF Requeued, SwitchFrame
    <2>2. e = [r EXCEPT !.state[Idle] = "RUNNING", !.current = Idle]
        BY <1>1, <1>5, <2>1, SchedAssumption
    <2>3. e.ready = r.ready /\ e.prio = r.prio /\ e.current = Idle
        BY <1>3, <2>2 DEF Scheduler
    <2>4. \A p \in Prio : r.ready[p] = <<>>
        BY <1>2, <1>5 DEF Sound, MaskSound
    <2>5. \A x : ~OnReady(e, x)
        BY <1>3, <2>3, <2>4, EmptyShape DEF OnReady, Scheduler
    <2>6. IdleWaits(e)
        BY <1>3, <2>3, WaitsLined DEF Lined, IdleFirst, OnReady
    <2> QED BY <2>5, <2>6 DEF IdleTurn, IdleQuiet
<1> QED BY <1>4, <1>5

(* Where the CPU has just been given away. *)
IdleSettled(s) == IdleWaits(s) /\ IdleTurn(s) /\ IdleQuiet(s)

(* IdleSettled depends on three fields of the scheduler. *)
LEMMA SameIdleSettled ==
    ASSUME NEW s, NEW r, IdleSettled(s), r.ready = s.ready, r.prio = s.prio, r.current = s.current
    PROVE  IdleSettled(r)
BY DEF IdleSettled, IdleWaits, IdleTurn, IdleQuiet, IdleFirst, OnReady

(* The tick branch of do_trap. *)
LEMMA TickIdle ==
    ASSUME NEW s, TrapReady(s), NEW U, Sound(s, U, {}), IdleSettled(s),
           NEW e, e = tick_reschedule(s)
    PROVE  IdleSettled(e)
<1> DEFINE n == sched_on_tick_slice(s)
           r == [s EXCEPT !.slice = n]
<1>1. n \in Nat /\ s \in Scheduler
    BY DEF sched_on_tick_slice, TrapReady, Scheduler
<1>2. e = IF ~sched_on_tick_switch(s)
          THEN r
          ELSE IF sched_is_locked(s) THEN [r EXCEPT !.pending = TRUE] ELSE sched_pick_next(r)
    BY DEF tick_reschedule, sched_set_pending
<1> HIDE DEF n
<1>3. /\ r \in Scheduler /\ Similar(s, r)
    BY <1>1 DEF Scheduler, Similar, Frame
<1> HIDE DEF r
<1>4. IdleSettled(r)
    BY <1>3, SameIdleSettled DEF Similar, Frame
<1>5. CASE e = r
    BY <1>4, <1>5
<1>6. CASE e = [r EXCEPT !.pending = TRUE]
    <2>1. e.ready = r.ready /\ e.prio = r.prio /\ e.current = r.current
        BY <1>3, <1>6 DEF Scheduler
    <2> QED BY <1>4, <2>1, SameIdleSettled
<1>7. CASE e = sched_pick_next(r)
    <2>1. Sound(r, U, {}) /\ r.idle = Idle /\ r.state[Idle] \in {"READY", "RUNNING"}
        BY <1>3, SimilarSound DEF Similar, Frame, TrapReady
    <2> QED BY <1>3, <1>4, <1>7, <2>1, PickIdle DEF IdleSettled
<1> QED BY <1>2, <1>5, <1>6, <1>7

(* sched_try_reschedule_from_trap *)
LEMMA TryIdle ==
    ASSUME NEW s, TrapReady(s), NEW U, Sound(s, U, {}), IdleSettled(s),
           NEW e, e = sched_try_reschedule_from_trap(s)
    PROVE  IdleSettled(e)
<1> DEFINE r == [s EXCEPT !.pending = FALSE]
<1>1. s \in Scheduler
    BY DEF TrapReady
<1>2. e = s \/ e = r \/ e = sched_pick_next(r)
    BY DEF sched_try_reschedule_from_trap
<1>3. r \in Scheduler /\ Similar(s, r)
    BY <1>1 DEF Scheduler, Similar, Frame
<1> HIDE DEF r
<1>4. IdleSettled(r)
    BY <1>3, SameIdleSettled DEF Similar, Frame
<1>5. CASE e = sched_pick_next(r)
    <2>1. Sound(r, U, {}) /\ r.idle = Idle /\ r.state[Idle] \in {"READY", "RUNNING"}
        BY <1>3, SimilarSound DEF Similar, Frame, TrapReady
    <2> QED BY <1>3, <1>4, <1>5, <2>1, PickIdle DEF IdleSettled
<1> QED BY <1>2, <1>4, <1>5

(* The end of do_trap. *)
LEMMA TrapIdle ==
    ASSUME TrapReady(k), NEW U, Sound(k, U, {}), Idle \in U, IdleWaits(k), IdleTurn(k),
           NEW e, e = SwitchedFromTrap
    PROVE  IdleSettled(e)
<1> DEFINE s == IF MustSwitch
                THEN sched_pick_next(k)
                ELSE IF trap = "tick" THEN tick_reschedule(k) ELSE k
<1>1. e = s \/ e = sched_try_reschedule_from_trap(s)
    BY DEF SwitchedFromTrap
<1>2. k \in Scheduler /\ k.current \in Task /\ k.idle = Idle
      /\ k.state[Idle] \in {"READY", "RUNNING"}
    BY DEF TrapReady
<1>3. IdleSettled(s) /\ TrapReady(s) /\ Sound(s, U, {})
    <2>1. CASE MustSwitch
        <3>1. s = sched_pick_next(k)
            BY <2>1
        <3>2. k.lock = 0
            BY <1>2, <2>1 DEF MustSwitch, TrapReady, sched_current_is_idle, Scheduler
        <3> HIDE DEF s
        <3> QED BY <1>2, <3>1, <3>2, PickIdle, PickInTrap DEF IdleSettled
    <2>2. CASE ~MustSwitch
        <3>1. k.current # Idle /\ k.state[k.current] = "RUNNING"
            BY <1>2, <2>2, SchedAssumption DEF MustSwitch, sched_current_is_idle
        <3>2. IdleSettled(k)
            BY <3>1 DEF IdleSettled, IdleQuiet
        <3>3. CASE s = k
            BY <3>2, <3>3
        <3>4. CASE s = tick_reschedule(k)
            <4> HIDE DEF s
            <4>1. IdleSettled(s)
                BY <3>2, <3>4, TickIdle
            <4>2. Sound(s, U, {}) /\ Switched(k, s) /\ s \in Scheduler
                BY <1>2, <3>1, <3>4, TickSound, TrapType
            <4>3. TrapReady(s)
                <5>1. /\ SwitchFrame(k, s) /\ s.current \in Task /\ s.state[s.current] = "RUNNING"
                      /\ s.lock = k.lock
                      /\ k.lock > 0 => s.current = k.current
                    BY <4>2 DEF Switched, SwitchFrame
                <5>2. s.idle = Idle /\ s.state[Idle] \in {"READY", "RUNNING"}
                    BY <1>2, <5>1, SchedAssumption DEF SwitchFrame
                <5> QED BY <3>1, <4>2, <5>1, <5>2 DEF TrapReady
            <4> QED BY <4>1, <4>2, <4>3
        <3> QED BY <2>2, <3>3, <3>4
    <2> QED BY <2>1, <2>2
<1> HIDE DEF s
<1> QED BY <1>1, <1>3, TryIdle

-----------------------------------------------------------------------------
(* The steps of a task. *)
LEMMA IdleStep ==
    ASSUME IdleLast, NEW t \in Task, k.started, trap = "none", t = k.current, Lined(k, k'),
           k'.current = t, k'.started,
           \A x \in Task \ {t, Idle} : \/ pc'[x] = "run"
                                       \/ pc'[x] = pc[x] /\ k'.prio[x] = k.prio[x],
           k'.prio[Idle] = 0, k'.prio[t] = k.prio[t],
           t = Idle => k'.ready = k.ready
    PROVE  IdleLast'
<1>1. IdleWaits(k) /\ IdleTurn(k) /\ IdleQuiet(k)
    BY DEF IdleLast
<1>2. OnReady(k', Idle) => OnReady(k, Idle) /\ k'.prio[t] # 0
    BY <1>1 DEF Lined, IdleTurn
<1>3. IdleWaits(k)'
    <2>1. IdleFirst(k')
        BY <1>1 DEF Lined, IdleWaits
    <2>2. ASSUME OnReady(k', Idle), NEW x \in Task \ {Idle}, k'.prio[x] = 0
          PROVE  pc'[x] = "run"
        BY <1>1, <1>2, <2>2 DEF IdleWaits
    <2> QED BY <2>1, <2>2 DEF IdleWaits
<1>4. IdleTurn(k)'
    BY <1>2 DEF IdleTurn
<1>5. IdleQuiet(k)'
    <2> SUFFICES ASSUME t = Idle, NEW x \in Task \ {Idle}, OnReady(k', x) PROVE pc'[x] = "run"
        BY DEF IdleQuiet
    <2>1. OnReady(k, x)
        BY DEF OnReady
    <2>2. pc[x] = "run"
        BY <1>1, <2>1 DEF IdleQuiet
    <2> QED BY <2>2
<1> QED BY <1>3, <1>4, <1>5 DEF IdleLast

(* The idle task makes its own steps only. *)
LEMMA IdleSteps ==
    ASSUME AppCall(Idle) \/ KernelStep(Idle), pc[Idle] \in IdlePc
    PROVE  idle_step
<1>1. CASE AppCall(Idle)
    BY <1>1 DEF AppCall, task_yield, task_sleep, sched_lock, sched_unlock, trt_wait_q_block,
        trt_wait_q_block_ticks, trt_wait_q_wake_one, trt_wait_q_wake_all, task_delete,
        task_exit, task_create, Call
<1>2. CASE KernelStep(Idle)
    BY <1>2 DEF KernelStep, task_yield_step, yield_check, yield_link, mask_load, mask_store,
        arch_yield, sleep_loop, sleep_block, wait_return, wake_all_round, task_delete_found,
        task_create_step, create_link, count_load, count_store, create_handle,
        create_set_handle, create_fail, At, IdlePc
<1> QED BY <1>1, <1>2

(* task_delete_obj does nothing, or marks the task. *)
LEMMA DeleteMarks ==
    ASSUME TypeInv, NEW t \in Task, task_delete_found(t) \/ task_exit(t) \/ create_fail(t)
    PROVE  k' = k \/ \E u \in Task : k' = MarkedDeleted(k, u, u = t)
<1>1. CASE task_exit(t)
    BY <1>1 DEF task_exit, task_delete_obj, MarkedDeleted
<1>2. CASE task_delete_found(t) \/ create_fail(t)
    <2>1. reg[t].obj \in Task
        BY <1>2 DEF task_delete_found, create_fail, At, CreatePc, TypeInv, LocalsOK
    <2>2. k' = k \/ k' = MarkedDeleted(k, reg[t].obj, reg[t].obj = t)
        BY <1>2 DEF task_delete_found, create_fail, task_delete_obj, MarkedDeleted
    <2> QED BY <2>1, <2>2
<1> QED BY <1>1, <1>2

(* The steps of a task. *)
LEMMA TaskIdle ==
    ASSUME TypeInv, ListInv, AlwaysInv, IdleLast, NEW t \in Task, AppCall(t) \/ KernelStep(t)
    PROVE  IdleLast'
<1> USE DEF taskvars, history
<1>1. /\ k \in Scheduler /\ t = k.current /\ k.started /\ trap = "none" /\ boot = "done"
      /\ pc \in [Task -> Pc] /\ Idle \in Task
    BY StepRuns, RunsFacts, SchedAssumption DEF TypeInv, TypeOK
<1>2. k'.current = t /\ (boot' = boot => k'.started)
    BY <1>1, TasksAlways DEF Advances, AlwaysInv, BootOK
<1>3. k.prio[Idle] = 0
    BY DEF IdleLast, IdleWaits
<1>4. t = Idle => idle_step
    BY <1>1, IdleSteps DEF ListInv, BootOK
<1>5. CASE cleanup_free
    <2> DEFINE u == reg[Idle].obj
    <2>1. /\ k' = Freed(k, u) /\ pc[Idle] = "i_free" /\ boot' = boot
          /\ pc' = [pc EXCEPT ![Idle] = "i_clean", ![u] = "run"]
          /\ t = Idle
        BY <1>1, <1>5 DEF cleanup_free, At, Freed, Runs
    <2>2. u \in Task /\ u # Idle
        BY <2>1, SchedAssumption DEF ListInv, FreeOK, TypeInv, LocalsOK
    <2> HIDE DEF u
    <2>3. k'.ready = k.ready /\ \A x \in Task : x # u => k'.prio[x] = k.prio[x]
        BY <1>1, <2>1, <2>2 DEF Scheduler, Freed
    <2>4. Lined(k, k')
        BY <2>3 DEF Lined, IdleFirst, OnReady
    <2>5. \A x \in Task \ {Idle} : pc'[x] = IF x = u THEN "run" ELSE pc[x]
        BY <1>1, <2>1, <2>2
    <2> QED BY <1>1, <1>2, <1>3, <2>1, <2>2, <2>3, <2>4, <2>5, IdleStep
<1>6. ASSUME ~cleanup_free
      PROVE  Moves(t, pc'[t]) /\ boot' = boot
    BY <1>6, StepMoves
<1>7. ASSUME Lined(k, k'), k'.prio = k.prio, ~cleanup_free, t = Idle => k'.ready = k.ready
      PROVE  IdleLast'
    BY <1>1, <1>2, <1>3, <1>6, <1>7, IdleStep DEF Moves
<1>8. CASE t = Idle /\ ~cleanup_free
    <2>1. k' = k \/ k' = [k EXCEPT !.deleted = Tail(@)]
        BY <1>4, <1>8 DEF idle_step, cleanup_pop, idle_enable
    <2>2. k'.ready = k.ready /\ k'.prio = k.prio
        BY <1>1, <2>1 DEF Scheduler
    <2> QED BY <1>7, <1>8, <2>2 DEF Lined, IdleFirst, OnReady
<1>9. ASSUME NEW p \in CreatePrio, task_create(t, p) PROVE IdleLast'
    <2>1. PICK u \in FreeSlots : k' = InitTcb(k, u, p)
        BY <1>9 DEF task_create
    <2>2. u \in Task /\ u # Idle /\ u # t /\ pc[u] = "run" /\ ~cleanup_free /\ t # Idle
        <3>1. Call(t, "create")
            BY <1>9 DEF task_create
        <3>2. pc[t] = "run" /\ t # Idle /\ k.state[t] = "RUNNING"
            BY <3>1, CallFacts
        <3>3. u \in Task /\ u # Idle /\ k.state[u] = "UNUSED"
            BY DEF FreeSlots
        <3>4. pc[u] = "run"
            BY <3>3 DEF AlwaysInv, UnusedAt
        <3> QED BY <1>1, <3>2, <3>3, <3>4 DEF cleanup_free, At, Runs
    <2>3. k'.ready = k.ready /\ \A x \in Task : x # u => k'.prio[x] = k.prio[x]
        BY <1>1, <2>1, <2>2 DEF Scheduler, InitTcb
    <2>4. Lined(k, k')
        BY <2>3 DEF Lined, IdleFirst, OnReady
    <2>5. Moves(t, pc'[t]) /\ boot' = boot
        BY <1>6, <2>2
    <2> QED BY <1>1, <1>2, <1>3, <2>2, <2>3, <2>4, <2>5, IdleStep DEF Moves
<1>10. CASE t # Idle /\ (task_delete_found(t) \/ task_exit(t) \/ create_fail(t))
    <2>1. Lined(k, k') /\ k'.prio = k.prio
        <3>1. CASE k' = k
            BY <3>1 DEF Lined
        <3>2. ASSUME NEW u \in Task, k' = MarkedDeleted(k, u, u = t)
              PROVE  Lined(k, k') /\ k'.prio = k.prio
            BY <1>1, <3>2, LinedMark
        <3> QED BY <1>10, <3>1, <3>2, DeleteMarks
    <2>2. ~cleanup_free
        BY <1>1, <1>10 DEF cleanup_free, At, Runs
    <2> QED BY <1>7, <1>10, <2>1, <2>2
<1>11. CASE /\ t # Idle /\ ~task_delete_found(t) /\ ~task_exit(t) /\ ~create_fail(t)
            /\ \A p \in CreatePrio : ~task_create(t, p)
    <2>1. ~cleanup_free
        BY <1>1, <1>11 DEF cleanup_free, At, Runs
    <2>2. Steady(k, k')
        BY <1>11, <2>1, CallSteady, StepSteady
    <2> QED BY <1>7, <1>11, <2>1, <2>2 DEF Steady
<1> QED BY <1>5, <1>8, <1>9, <1>10, <1>11

-----------------------------------------------------------------------------
(* In app_main no task has run. *)
LEMMA EarlyIdle ==
    ASSUME ~k'.started, \A x \in Task \ {Idle} : pc'[x] = "run",
           k'.prio[Idle] = 0, IdleFirst(k')
    PROVE  IdleLast'
BY DEF IdleLast, IdleWaits

(* kernel_init, app_main and rtos_start. *)
LEMMA BootIdle ==
    ASSUME TypeInv, TypeInv', ListInv, boot # "kernel_init" => IdleLast, Boot
    PROVE  IdleLast'
<1> USE DEF taskvars, history
<1>1. k \in Scheduler /\ k' \in Scheduler /\ pc \in [Task -> Pc]
    BY DEF TypeInv, TypeOK
<1>2. BootOK'
    BY BootInv DEF ListInv
<1>3. CASE kernel_init
    <2> DEFINE i == InitTcb(k, Idle, 0)
               s == sched_ready_enqueue(i, Idle)
    <2>1. /\ k' = [s EXCEPT !.idle = Idle] /\ k = sched_init /\ boot' = "app_main"
          /\ pc' = [pc EXCEPT ![Idle] = "i_clean"]
          /\ \A x \in Task \ {Idle} : pc[x] = "run"
        BY <1>3 DEF kernel_init, ListInv, BootOK, sched_init
    <2>2. Idle \in Task /\ 0 \in Prio
        BY SchedAssumption DEF Prio
    <2>3. i \in Scheduler /\ i.ready = [p \in Prio |-> <<>>] /\ i.prio[Idle] = 0
        <3>1. i \in Scheduler
            BY <1>1, <2>2, InitTcbType
        <3>2. i.ready = k.ready /\ i.prio[Idle] = 0
            BY <1>1, <2>2 DEF InitTcb, Scheduler
        <3> QED BY <2>1, <3>1, <3>2 DEF sched_init
    <2> HIDE DEF i
    <2>4. /\ s.prio = i.prio
          /\ s.ready = i.ready \/ s.ready = [i.ready EXCEPT ![0] = Append(<<>>, Idle)]
        BY <2>2, <2>3 DEF sched_ready_enqueue, ready_link, Scheduler
    <2>5. s \in Scheduler
        BY <2>2, <2>3, EnqueueType
    <2> HIDE DEF s
    <2>6. k'.ready = s.ready /\ k'.prio = s.prio
        BY <2>1, <2>5 DEF Scheduler
    <2>7. Len(Append(<<>>, Idle)) = 1 /\ Len(<<>>) = 0
        OBVIOUS
    <2>8. \A p \in Prio : Len(k'.ready[p]) \in {0, 1}
        BY <2>2, <2>3, <2>4, <2>6, <2>7
    <2>9. IdleFirst(k')
        BY <2>8 DEF IdleFirst, Falling
    <2>10. \A x \in Task \ {Idle} : pc'[x] = "run"
        BY <1>1, <2>1
    <2>11. ~k'.started
        BY <1>2, <2>1 DEF BootOK
    <2> QED BY <2>3, <2>4, <2>6, <2>9, <2>10, <2>11, EarlyIdle
<1>4. ASSUME NEW p \in CreatePrio, app_main_create(p) PROVE IdleLast'
    <2>1. boot = "app_main" /\ boot' = boot /\ pc' = pc
        BY <1>4 DEF app_main_create
    <2>2. /\ k.prio[Idle] = 0 /\ IdleFirst(k) /\ ~k'.started
          /\ \A x \in Task \ {Idle} : pc'[x] = "run"
        BY <1>2, <2>1, BeforeStart DEF IdleLast, IdleWaits, BootOK
    <2>3. PICK u \in FreeSlots :
              \/ k' = sched_ready_enqueue(InitTcb(k, u, p), u)
              \/ k' = sched_mark_deleted(sched_ready_enqueue(InitTcb(k, u, p), u), u)
        BY <1>4 DEF app_main_create
    <2> DEFINE i == InitTcb(k, u, p)
               s == sched_ready_enqueue(i, u)
    <2>4. u \in Task \ {Idle} /\ p \in Prio
        BY KernelAssumption DEF FreeSlots
    <2>5. i \in Scheduler
        BY <1>1, <2>4, InitTcbType
    <2>6. i.ready = k.ready /\ i.prio[Idle] = k.prio[Idle]
        BY <1>1, <2>4 DEF InitTcb, Scheduler
    <2>7. k' = s \/ k' = sched_mark_deleted(s, u)
        BY <2>3
    <2> HIDE DEF i
    <2>8. s \in Scheduler /\ Steady(i, s)
        BY <2>4, <2>5, EnqueueType, SteadyLink
    <2> HIDE DEF s
    <2>9. k' = s \/ (Lined(s, k') /\ k'.prio = s.prio)
        BY <2>4, <2>7, <2>8, LinedMark
    <2>10. IdleFirst(k') /\ k'.prio[Idle] = 0
        BY <2>2, <2>6, <2>8, <2>9 DEF Steady, Lined, IdleFirst
    <2> QED BY <2>2, <2>10, EarlyIdle
<1>5. CASE app_main_object
    BY <1>5 DEF app_main_object, IdleLast, IdleWaits, IdleTurn, IdleQuiet
<1>6. CASE rtos_start
    <2> DEFINE s == sched_pick_next(k)
    <2>1. /\ k' = [s EXCEPT !.started = TRUE] /\ boot = "app_main" /\ pc' = pc
        BY <1>6 DEF rtos_start
    <2>2. /\ k.idle = Idle /\ k.state[Idle] \in {"READY", "RUNNING"} /\ Sound(k, {Idle}, {})
        BY <2>1, BeforeStart
    <2>3. s \in Scheduler /\ IdleSettled(s)
        BY <1>1, <2>1, <2>2, PickIdle, PickNextType DEF IdleLast, IdleSettled
    <2> HIDE DEF s
    <2>4. k'.ready = s.ready /\ k'.prio = s.prio /\ k'.current = s.current
        BY <2>1, <2>3 DEF Scheduler
    <2>5. IdleSettled(k')
        BY <2>3, <2>4, SameIdleSettled
    <2>6. IdleWaits(k)' /\ IdleTurn(k)' /\ IdleQuiet(k)'
        BY <2>1, <2>5 DEF IdleSettled, IdleWaits, IdleTurn, IdleQuiet
    <2> QED BY <2>6 DEF IdleLast
<1> QED BY <1>3, <1>4, <1>5, <1>6 DEF Boot

(* Before kernel_init the idle task does not exist. *)
IdleOK == fault = {} => IdleLast

(* The memory before kernel_init is in order. *)
LEMMA InitIdle == Init => IdleOK
<1> SUFFICES ASSUME Init PROVE IdleLast
    BY DEF IdleOK
<1>1. /\ k.ready = [p \in Prio |-> <<>>] /\ k.prio[Idle] = 0 /\ ~k.started
      /\ \A t \in Task : pc[t] = "run"
    BY SchedAssumption DEF Init, sched_init
<1>2. \A p \in Prio : Len(k.ready[p]) = 0
    BY <1>1
<1>3. IdleFirst(k)
    BY <1>2 DEF IdleFirst, Falling
<1> QED BY <1>1, <1>3 DEF IdleLast, IdleWaits

(* A wake-up takes the CPU from nobody. *)
LEMMA WakeCurrent ==
    ASSUME NEW s \in Scheduler
    PROVE  /\ \A q \in WaitQ : trt_wait_q_wake_one_from_isr(s, q).current = s.current
           /\ sched_wake_expired_one(s).current = s.current
<1> DEFINE Like(d) == /\ d.current = s.current
                      /\ {"current", "ready", "mask", "wres", "pending", "prio"} \subseteq DOMAIN d
<1>1. ASSUME NEW d, Like(d), NEW t PROVE Like(sched_ready_enqueue(d, t))
    <2> DEFINE r == ready_link(d, t)
    <2>1. Like(r)
        <3>1. PICK l : r = [d EXCEPT !.ready = l]
            BY DEF ready_link
        <3> HIDE DEF r
        <3> QED BY <1>1, <3>1
    <2> HIDE DEF r
    <2>2. Like([r EXCEPT !.mask = @ \cup {d.prio[t]}])
        BY <2>1
    <2> QED BY <1>1, <2>2 DEF sched_ready_enqueue, r
<1>2. ASSUME NEW q \in WaitQ
      PROVE  trt_wait_q_wake_one_from_isr(s, q).current = s.current
    <2>1. CASE s.wq[q] = <<>>
        BY <2>1 DEF trt_wait_q_wake_one_from_isr
    <2>2. CASE s.wq[q] # <<>>
        <3> DEFINE t == Head(s.wq[q])
                   r == [sched_timeout_remove(s, t) EXCEPT
                            !.wq[q] = Tail(@), !.timer[t] = FALSE, !.state[t] = "READY"]
                   e == sched_wake_one(s, q)
                   p == e.pending \/ sched_is_locked(s)
                   b == TRUE
        <3>1. Like(r)
            BY DEF Scheduler, sched_timeout_remove
        <3>2. e = sched_ready_enqueue(r, t)
            BY DEF sched_wake_one
        <3> HIDE DEF r
        <3>3. Like(e)
            BY <1>1, <3>1, <3>2
        <3>4. trt_wait_q_wake_one_from_isr(s, q)
                 = [[e EXCEPT !.pending = p, !.wres[t] = "OBJECT"] EXCEPT !.pending = b]
            BY <2>2 DEF trt_wait_q_wake_one_from_isr, trt_wait_q_wake_one_locked,
                        trt_wait_q_wake_one_result_locked, sched_set_pending
        <3> HIDE DEF e, p, b
        <3> QED BY <3>3, <3>4
    <2> QED BY <2>1, <2>2
<1>3. sched_wake_expired_one(s).current = s.current
    <2> DEFINE t == Head(s.timeout)
               r == [s EXCEPT !.timeout = Tail(@)]
               w == [StateListDel(r, t) EXCEPT
                        !.timer[t] = FALSE, !.wres[t] = "TIMEOUT", !.state[t] = "READY"]
    <2>1. Like(r) /\ Like(w)
        BY DEF Scheduler, StateListDel
    <2>2. sched_wake_expired_one(s) \in {r, sched_ready_enqueue(w, t)}
        BY DEF sched_wake_expired_one
    <2> HIDE DEF r, w
    <2> QED BY <1>1, <2>1, <2>2
<1> QED BY <1>2, <1>3

(* Every step keeps the idle task in its place. *)
LEMMA NextIdle ==
    TypeInv /\ TypeInv' /\ ListsOK /\ AlwaysInv /\ IdleOK /\ [Next]_vars => IdleOK'
<1> SUFFICES ASSUME TypeInv, TypeInv', ListsOK, AlwaysInv, IdleOK, [Next]_vars, fault' = {}
             PROVE  IdleLast'
    BY DEF IdleOK
<1> USE DEF taskvars, history
<1>1. ListInv /\ IdleLast
    BY FaultStays DEF ListsOK, IdleOK
<1>2. CASE Boot
    BY <1>1, <1>2, BootIdle
<1>3. ASSUME NEW t \in Task, AppCall(t) \/ KernelStep(t) PROVE IdleLast'
    BY <1>1, <1>3, TaskIdle
<1>4. CASE Systick \/ Irq \/ sched_wake_expired
    <2>1. Steady(k, k') /\ trap' # "none" /\ boot' = boot
        BY <1>1, <1>4, TrapSteady
    <2>2. k.started
        BY <1>1, <1>4 DEF Systick, SysTick, Irq, sched_wake_expired, Interrupted, CanInterrupt,
           ListInv, BootOK
    <2>3. k'.current = k.current
        BY <1>4, WakeCurrent DEF Systick, SysTick, Irq, sched_wake_expired, TypeInv, TypeOK
    <2>4. \A t \in Task : pc[t] = "run" => pc'[t] = "run"
        BY <1>4 DEF Systick, SysTick, Irq, sched_wake_expired, Interrupted, TypeInv, TypeOK
    <2> QED BY <1>1, <2>1, <2>2, <2>3, <2>4
            DEF IdleLast, IdleWaits, IdleTurn, Steady, Lined
<1>5. CASE TrapReturn
    <2>1. trap # "none" /\ k' = SwitchedFromTrap /\ pc' = pc
        BY <1>5 DEF TrapReturn
    <2>2. TrapReady(k) /\ Sound(k, Unlinked, {}) /\ Idle \in Unlinked /\ k.started
        BY <1>1, <2>1, TrapReturnFacts
    <2>3. IdleSettled(k')
        BY <1>1, <2>1, <2>2, TrapIdle DEF IdleLast
    <2>4. IdleWaits(k)' /\ IdleTurn(k)' /\ IdleQuiet(k)'
        BY <2>1, <2>3 DEF IdleSettled, IdleWaits, IdleTurn, IdleQuiet
    <2> QED BY <2>4 DEF IdleLast
<1>6. CASE UNCHANGED vars
    BY <1>1, <1>6 DEF vars, IdleLast, IdleWaits, IdleTurn, IdleQuiet
<1> QED BY <1>2, <1>3, <1>4, <1>5, <1>6 DEF Next, TrapStep, CorruptLoop

-----------------------------------------------------------------------------
(* The life of a TCB.  Where a task holds a TCB that it looked up, that it *)
(* creates, or that it is about to free.                                   *)
HoldPc == CreatePc \cup {"d_obj", "i_free"}

(* A TCB is held at these places only, and freed by the idle task only. *)
HoldAt(c) == reg[c].obj # None => pc[c] \in HoldPc /\ (pc[c] = "i_free" => c = Idle)

(* A task blocks nowhere while it holds a TCB. *)
BlockedAt(c) == k.state[c] = "BLOCKED" => pc[c] \notin HoldPc

(* A task whose TCB is not linked yet has not started. *)
NewAt(c) == pc[c] = "c_link" => pc[reg[c].obj] = "run"

(* The three for every task. *)
PlacesOK == \A c \in Task : HoldAt(c) /\ BlockedAt(c) /\ NewAt(c)

(* cleanup_free gives back a TCB that was deleted. *)
LEMMA CleanupFacts ==
    ASSUME TypeInv, ListInv, cleanup_free
    PROVE  /\ Runs(Idle) /\ Idle = k.current
           /\ reg[Idle].obj \in Task \ {Idle}
           /\ k.state[reg[Idle].obj] = "DELETED"
           /\ \A x \in Task : k'.state[x] = IF x = reg[Idle].obj THEN "UNUSED" ELSE k.state[x]
           /\ pc'[Idle] = "i_clean" /\ pc'[reg[Idle].obj] = "run"
           /\ reg'[Idle] = NoReg /\ reg'[reg[Idle].obj] = NoReg
           /\ \A x \in Task \ {Idle, reg[Idle].obj} : pc'[x] = pc[x] /\ reg'[x] = reg[x]
           /\ UNCHANGED <<trap, boot, task_count, hnd, htab, fault>>
           /\ k'.current = k.current
<1> DEFINE u == reg[Idle].obj
<1> USE DEF taskvars
<1>1. /\ At(Idle, "i_free") /\ k' = Freed(k, u)
      /\ pc' = [pc EXCEPT ![Idle] = "i_clean", ![u] = "run"]
      /\ reg' = [reg EXCEPT ![Idle] = NoReg, ![u] = NoReg]
      /\ UNCHANGED <<trap, boot, task_count, hnd, htab, fault>>
    BY DEF cleanup_free, Freed
<1>2. Runs(Idle) /\ pc[Idle] = "i_free"
    BY <1>1 DEF At
<1>3. k.current = Idle
    BY <1>2 DEF Runs
<1>4. u \in Task /\ u # Idle /\ k.state[u] = "DELETED" /\ Idle \in Task
    BY <1>2, SchedAssumption DEF ListInv, FreeOK, TypeInv, LocalsOK
<1>5. k \in Scheduler /\ pc \in [Task -> Pc] /\ reg \in [Task -> Locals]
    BY DEF TypeInv, TypeOK
<1> HIDE DEF u
<1>6. /\ \A x \in Task : k'.state[x] = IF x = u THEN "UNUSED" ELSE k.state[x]
      /\ k'.current = k.current
    BY <1>1, <1>4, <1>5 DEF Freed, Scheduler
<1>7. /\ pc'[Idle] = "i_clean" /\ pc'[u] = "run"
      /\ reg'[Idle] = NoReg /\ reg'[u] = NoReg
      /\ \A x \in Task \ {Idle, u} : pc'[x] = pc[x] /\ reg'[x] = reg[x]
    BY <1>1, <1>4, <1>5
<1> QED BY <1>1, <1>2, <1>3, <1>4, <1>6, <1>7 DEF u

(* task_create takes a free TCB. *)
LEMMA CreateFacts ==
    ASSUME TypeInv, ListInv, AlwaysInv, NEW t \in Task, NEW p \in CreatePrio, task_create(t, p)
    PROVE  /\ t # Idle /\ pc[t] = "run" /\ k.state[t] = "RUNNING"
           /\ pc'[t] = "c_link" /\ Moves(t, "c_link")
           /\ reg'[t].obj \in Task \ {Idle, t}
           /\ k.state[reg'[t].obj] = "UNUSED" /\ pc[reg'[t].obj] = "run"
           /\ \A x \in Task : k'.state[x] = IF x = reg'[t].obj THEN "READY" ELSE k.state[x]
           /\ \A x \in Task : x # reg'[t].obj => hnd'[x] = hnd[x]
           /\ UNCHANGED <<trap, boot, task_count, htab, fault>>
<1> USE DEF history
<1>1. /\ t # Idle /\ pc[t] = "run" /\ k.state[t] = "RUNNING"
    BY CallFacts DEF task_create
<1>2. PICK u \in FreeSlots : /\ k' = InitTcb(k, u, p)
                             /\ hnd' = [hnd EXCEPT ![u] = 0]
                             /\ reg' = [reg EXCEPT ![t].obj = u]
    BY DEF task_create
<1>3. u \in Task \ {Idle} /\ k.state[u] = "UNUSED"
    BY DEF FreeSlots
<1>4. u # t /\ pc[u] = "run"
    BY <1>1, <1>3 DEF AlwaysInv, UnusedAt
<1>5. k \in Scheduler /\ reg \in [Task -> Locals] /\ hnd \in [Task -> Handle \cup {0}]
    BY DEF TypeInv, TypeOK
<1>6. reg'[t].obj = u /\ \A x \in Task : x # u => hnd'[x] = hnd[x]
    BY <1>2, <1>5 DEF Locals
<1>7. \A x \in Task : k'.state[x] = IF x = u THEN "READY" ELSE k.state[x]
    BY <1>2, <1>3, <1>5 DEF InitTcb, Scheduler
<1>8. Moves(t, "c_link")
    BY <1>2, RegMoves DEF task_create
<1>9. UNCHANGED <<trap, boot, task_count, htab, fault>>
    BY DEF task_create
<1> QED BY <1>1, <1>3, <1>4, <1>6, <1>7, <1>8, <1>9 DEF Moves

(* What a deletion that is not refused does. *)
Deleted(t, u) ==
    /\ k.state[u] \notin {"UNUSED", "DELETED"}
    /\ \A x \in Task : k'.state[x] = IF x = u THEN "DELETED" ELSE k.state[x]
    /\ hnd[u] = 0 => htab' = htab
    /\ hnd[u] # 0 => htab' = [htab EXCEPT ![hnd[u]] = None]
    /\ \A x \in Task : x # u => hnd'[x] = hnd[x]
    /\ task_count' = IF task_count = 0 THEN 0 ELSE task_count - 1
    /\ fault' = IF Unpublished(t, u) THEN fault \cup {"orphan"} ELSE fault

(* task_delete_obj deletes its victim or does nothing. *)
LEMMA DeletedFacts ==
    ASSUME TypeInv, ListInv, NEW t \in Task, NEW u \in Task, NEW p, task_delete_obj(t, u, p)
    PROVE  \/ Deleted(t, u) /\ u # Idle
           \/ /\ UNCHANGED <<k, task_count, hnd, htab>>
              /\ k.state[u] # "UNUSED" => fault' = fault
<1> USE DEF taskvars
<1>1. CASE \/ k.state[u] = "UNUSED"
           \/ u = Idle \/ k.state[u] = "DELETED" \/ (u = t /\ sched_is_locked(k))
    BY <1>1 DEF task_delete_obj
<1>2. CASE k.state[u] \notin {"UNUSED", "DELETED"} /\ u # Idle /\ ~(u = t /\ sched_is_locked(k))
    <2>1. /\ CloseHandle(u) /\ k' = MarkedDeleted(k, u, u = t)
          /\ task_count' = IF task_count = 0 THEN 0 ELSE task_count - 1
          /\ fault' = IF Unpublished(t, u) THEN fault \cup {"orphan"} ELSE fault
        BY <1>2 DEF task_delete_obj, MarkedDeleted
    <2>2. k \in Scheduler /\ Sound(k, Unlinked, BitUnderway) /\ hnd \in [Task -> Handle \cup {0}]
        BY DEF TypeInv, TypeOK, ListInv
    <2>3. u # k.idle
        <3>1. k.idle \in {Idle, None}
            BY <2>2 DEF Scheduler
        <3> QED BY <1>2, <3>1, SchedAssumption
    <2>4. k'.state[u] = "DELETED" /\ \A x \in Task \ {u} : k'.state[x] = k.state[x]
        <3>1. k'.state[u] = "DELETED" /\ \A x \in Task \ {u} : SameTask(k, k', x)
            BY <1>2, <2>1, <2>2, <2>3, MarkedSound
        <3> QED BY <3>1 DEF SameTask
    <2>5. /\ hnd[u] = 0 => htab' = htab
          /\ hnd[u] # 0 => htab' = [htab EXCEPT ![hnd[u]] = None]
          /\ \A x \in Task : x # u => hnd'[x] = hnd[x]
        BY <2>1, <2>2 DEF CloseHandle
    <2> QED BY <1>2, <2>1, <2>4, <2>5 DEF Deleted
<1> QED BY <1>1, <1>2

(* task_delete, task_exit and the failure of task_create. *)
LEMMA DeletionFacts ==
    ASSUME TypeInv, ListInv, NEW t \in Task,
           task_delete_found(t) \/ task_exit(t) \/ create_fail(t)
    PROVE  /\ t # Idle /\ k.state[t] = "RUNNING"
           /\ pc'[t] \notin HoldPc /\ Moves(t, pc'[t])
           /\ reg'[t].obj = None \/ (reg'[t] = reg[t] /\ pc[t] = "run")
           /\ UNCHANGED trap
           /\ \E u \in Task :
                 /\ task_exit(t) => u = t
                 /\ create_fail(t) => u = reg[t].obj /\ k.state[u] # "UNUSED"
                 /\ task_delete_found(t) => u = reg[t].obj
                 /\ \/ Deleted(t, u) /\ u # Idle
                    \/ /\ UNCHANGED <<k, task_count, hnd, htab>>
                       /\ k.state[u] # "UNUSED" => fault' = fault
<1>1. Runs(t) /\ reg \in [Task -> Locals] /\ pc \in [Task -> Pc]
    BY DEF TypeInv, TypeOK, task_delete_found, task_exit, create_fail, Call, At
<1>2. OwnOK(t) /\ StateAt(t)
    BY <1>1, RunsFacts DEF OwnOK
<1>3. pc[t] \in {"d_obj", "run", "c_fail"} /\ (create_fail(t) => pc[t] = "c_fail")
      /\ (task_delete_found(t) => pc[t] = "d_obj") /\ (task_exit(t) => pc[t] = "run")
    BY DEF task_delete_found, task_exit, create_fail, At, Call
<1>4. t # Idle /\ k.state[t] = "RUNNING"
    BY <1>2, <1>3 DEF OwnOK, StateAt, IdlePc, LinkPc
<1>5. PICK u \in Task, p \in {"run", "ecall"} :
          /\ task_delete_obj(t, u, p)
          /\ task_exit(t) => u = t
          /\ create_fail(t) \/ task_delete_found(t) => u = reg[t].obj
    <2>1. task_exit(t) => task_delete_obj(t, t, "ecall")
        BY DEF task_exit
    <2>2. create_fail(t) \/ task_delete_found(t) => task_delete_obj(t, reg[t].obj, "run")
        BY DEF create_fail, task_delete_found
    <2>3. create_fail(t) \/ task_delete_found(t) => reg[t].obj \in Task
        BY <1>3 DEF TypeInv, LocalsOK, CreatePc
    <2>4. CASE task_exit(t)
        BY <1>3, <2>1, <2>4
    <2>5. CASE ~task_exit(t)
        BY <2>2, <2>3, <2>5
    <2> QED BY <2>4, <2>5
<1>6. Goto(t, "run") \/ Goto(t, "ecall")
    BY <1>5 DEF task_delete_obj
<1>7. pc'[t] \notin HoldPc /\ \A x \in Task \ {t} : pc'[x] = pc[x]
    BY <1>1, <1>6 DEF Goto, HoldPc, CreatePc
<1>8. UNCHANGED trap /\ ((reg' = reg /\ pc[t] = "run") \/ reg' = [reg EXCEPT ![t].obj = None])
    BY <1>3 DEF task_delete_found, task_exit, create_fail
<1>9. /\ \A x \in Task \ {t} : reg'[x] = reg[x]
      /\ reg'[t].obj = None \/ (reg'[t] = reg[t] /\ pc[t] = "run")
    BY <1>1, <1>8 DEF Locals
<1>10. create_fail(t) => k.state[u] # "UNUSED"
    <2> SUFFICES ASSUME create_fail(t) PROVE k.state[u] # "UNUSED"
        OBVIOUS
    <2>1. pc[t] \in CreatePc
        BY <1>3 DEF CreatePc
    <2> QED BY <1>2, <1>5, <2>1 DEF OwnOK, CreatorOK, IsLive
<1>11. \/ Deleted(t, u) /\ u # Idle
       \/ UNCHANGED <<k, task_count, hnd, htab>> /\ (k.state[u] # "UNUSED" => fault' = fault)
    BY <1>5, DeletedFacts
<1> QED BY <1>4, <1>5, <1>7, <1>8, <1>9, <1>10, <1>11 DEF Moves

(* A task gets hold of a TCB in task_create and task_delete only, and does *)
(* not keep it beyond them.                                                *)
LEMMA OwnPlaces ==
    ASSUME TypeInv, ListInv, NEW t \in Task, AppCall(t) \/ KernelStep(t), ~cleanup_free, HoldAt(t)
    PROVE  /\ HoldAt(t)'
           /\ pc'[t] \in CreatePc =>
                 \/ pc[t] \in CreatePc /\ reg'[t].obj = reg[t].obj /\ pc'[t] # "c_link"
                 \/ \E p \in CreatePrio : task_create(t, p)
           /\ pc'[t] = "d_obj" => \E h \in Handle : task_delete(t, h)
           /\ pc'[t] = "i_free" => t = Idle
<1> USE DEF taskvars, history
<1>1. /\ pc \in [Task -> Pc] /\ reg \in [Task -> Locals] /\ ret \in [Task -> RetPc]
    BY DEF TypeInv, TypeOK
<1>2. ASSUME pc[t] \notin HoldPc, pc'[t] \notin HoldPc, reg'[t].obj = reg[t].obj
      PROVE  /\ HoldAt(t)'
             /\ pc'[t] \notin CreatePc /\ pc'[t] # "d_obj" /\ pc'[t] # "i_free"
    BY <1>2 DEF HoldAt, HoldPc
<1>3. RetPc \cap HoldPc = {} /\ YieldPc \cap HoldPc = {}
    BY DEF RetPc, HoldPc, CreatePc, YieldPc
<1>4. CASE \/ task_yield(t) \/ sched_lock(t) \/ sched_unlock(t)
           \/ \E d \in Delays : task_sleep(t, d)
    <2>1. pc[t] = "run" /\ pc'[t] \in {"run", "y_chk", "sl_loop"} /\ reg'[t].obj = reg[t].obj
        BY <1>1, <1>4 DEF task_yield, sched_lock, sched_unlock, task_sleep, CallYield, Goto,
           Call, At, Locals
    <2> QED BY <1>2, <2>1 DEF HoldPc, CreatePc
<1>5. ASSUME NEW q \in WaitQ, \/ trt_wait_q_block(t, q)
                              \/ \E d \in Delays : trt_wait_q_block_ticks(t, q, d)
                              \/ trt_wait_q_wake_one(t, q)
                              \/ trt_wait_q_wake_all(t, q)
      PROVE  pc[t] = "run" /\ pc'[t] \in {"run", "y_chk", "wq_all"} /\ reg'[t].obj = reg[t].obj
    BY <1>1, <1>5 DEF trt_wait_q_block, trt_wait_q_block_ticks, trt_wait_q_wake_one,
       trt_wait_q_wake_all, CallYield, Goto, Call, At, Locals
<1>6. ASSUME NEW h \in Handle, task_delete(t, h)
      PROVE  pc'[t] = "d_obj"
    BY <1>1, <1>6 DEF task_delete, Goto
<1>7. ASSUME NEW p \in CreatePrio, task_create(t, p)
      PROVE  pc'[t] = "c_link"
    BY <1>1, <1>7 DEF task_create, Goto
<1>8. CASE task_exit(t) \/ task_delete_found(t) \/ create_fail(t)
    <2>1. pc'[t] \notin HoldPc /\ (reg'[t].obj = None \/ (reg'[t] = reg[t] /\ pc[t] = "run"))
        BY <1>8, DeletionFacts
    <2>2. "run" \notin HoldPc
        BY DEF HoldPc, CreatePc
    <2>3. HoldAt(t)'
        BY <2>1, <2>2 DEF HoldAt
    <2> QED BY <2>1, <2>3 DEF HoldPc
<1>9. CASE task_yield_step(t)
    <2>1. pc[t] \in YieldPc /\ pc'[t] \in YieldPc \cup RetPc /\ reg'[t].obj = reg[t].obj
        BY <1>1, <1>9 DEF task_yield_step, yield_check, yield_link, mask_load, mask_store,
           arch_yield, Goto, At, Locals, YieldPc, RetPc
    <2> QED BY <1>2, <1>3, <2>1
<1>10. CASE sleep_loop(t) \/ sleep_block(t) \/ wait_return(t)
    <2>1. /\ pc[t] \in {"sl_loop", "sl_crit", "wq_ret"}
          /\ pc'[t] \in {"run", "sl_crit", "y_chk"} /\ reg'[t].obj = reg[t].obj
        BY <1>1, <1>10 DEF sleep_loop, sleep_block, sleep_done, wait_return, CallYield, Goto, At,
           Locals
    <2> QED BY <1>2, <2>1 DEF HoldPc, CreatePc
<1>11. CASE wake_all_round(t, "wq_all", "OBJECT", "run")
    <2>1. pc[t] = "wq_all" /\ pc'[t] \in {"wq_all", "run"} /\ reg'[t].obj = reg[t].obj
        BY <1>1, <1>11 DEF wake_all_round, Goto, At, Locals
    <2> QED BY <1>2, <2>1 DEF HoldPc, CreatePc
<1>12. CASE \/ create_link(t) \/ mask_load(t, "c_load", "c_store") \/ count_load(t)
            \/ mask_store(t, reg[t].obj, "c_store", "c_cload")
            \/ count_store(t) \/ create_handle(t)
    <2>1. /\ pc[t] \in CreatePc /\ reg'[t].obj = reg[t].obj
          /\ pc'[t] \in CreatePc \ {"c_link"}
        BY <1>1, <1>12 DEF create_link, mask_load, count_load, mask_store, count_store,
           create_handle, Goto, At, Locals, CreatePc
    <2> QED BY <2>1 DEF HoldAt, HoldPc, CreatePc
<1>13. CASE create_set_handle(t)
    <2>1. pc'[t] = "run" /\ reg'[t].obj = None
        BY <1>1, <1>13 DEF create_set_handle, Goto, Locals
    <2> QED BY <2>1 DEF HoldAt, CreatePc
<1>14. CASE t = Idle /\ (cleanup_pop \/ idle_enable)
    <2>1. /\ pc[t] \in {"i_clean", "i_en"} /\ pc'[t] \in {"i_en", "i_free", "i_wfi"}
          /\ pc'[t] # "i_free" => reg'[t].obj = reg[t].obj
        BY <1>1, <1>14 DEF cleanup_pop, idle_enable, Goto, At
    <2> QED BY <1>14, <2>1 DEF HoldAt, HoldPc, CreatePc
<1> QED
    <2>1. CASE AppCall(t)
        <3>1. CASE \E q \in WaitQ : \/ trt_wait_q_block(t, q)
                                    \/ \E d \in Delays : trt_wait_q_block_ticks(t, q, d)
                                    \/ trt_wait_q_wake_one(t, q)
                                    \/ trt_wait_q_wake_all(t, q)
            BY <1>2, <1>5, <3>1 DEF HoldPc, CreatePc
        <3>2. CASE \E h \in Handle : task_delete(t, h)
            BY <1>6, <3>2 DEF HoldAt, HoldPc, CreatePc
        <3>3. CASE \E p \in CreatePrio : task_create(t, p)
            BY <1>7, <3>3 DEF HoldAt, HoldPc, CreatePc
        <3> QED BY <1>4, <1>8, <2>1, <3>1, <3>2, <3>3 DEF AppCall
    <2>2. CASE KernelStep(t)
        BY <1>8, <1>9, <1>10, <1>11, <1>12, <1>13, <1>14, <2>2
           DEF KernelStep, task_create_step, idle_step
    <2> QED BY <2>1, <2>2

(* Another task is not blocked by a step. *)
LEMMA NoNewBlocked ==
    ASSUME TypeInv, ListInv, AlwaysInv, NEW t \in Task, AppCall(t) \/ KernelStep(t),
           NEW x \in Task \ {t}, k'.state[x] = "BLOCKED"
    PROVE  k.state[x] = "BLOCKED"
<1>1. t = k.current
    BY StepRuns, RunsFacts
<1>2. k.state[x] # "DELETED" => k.state[x] = "BLOCKED"
    BY <1>1, TasksAlways DEF Advances, Tame, Kept, Turned
<1> SUFFICES ASSUME k.state[x] = "DELETED" PROVE k'.state[x] # "BLOCKED"
    BY <1>2
<1>3. CASE cleanup_free
    BY <1>3, CleanupFacts
<1>4. CASE task_delete_found(t) \/ task_exit(t) \/ create_fail(t)
    <2>1. PICK u \in Task : Deleted(t, u) \/ k' = k
        BY <1>4, DeletionFacts
    <2> QED BY <2>1 DEF Deleted
<1>5. ASSUME NEW p \in CreatePrio, task_create(t, p) PROVE k'.state[x] # "BLOCKED"
    BY <1>5, CreateFacts
<1>6. CASE /\ ~cleanup_free /\ ~task_delete_found(t) /\ ~task_exit(t) /\ ~create_fail(t)
           /\ \A p \in CreatePrio : ~task_create(t, p)
    BY <1>6, CallSteady, StepSteady DEF Steady, StatesKept, LiveState
<1> QED BY <1>3, <1>4, <1>5, <1>6

(* Linking a TCB leaves the states alone. *)
LEMMA EnqueueStates ==
    ASSUME NEW s \in Scheduler, NEW t \in Task
    PROVE  /\ sched_ready_enqueue(s, t) \in Scheduler
           /\ sched_ready_enqueue(s, t).state = s.state
<1>1. sched_ready_enqueue(s, t).state = s.state
    BY DEF sched_ready_enqueue, ready_link, Scheduler
<1> QED BY <1>1, EnqueueType

(* A wake-up blocks nobody. *)
LEMMA ExpiredStates ==
    ASSUME NEW s \in Scheduler, s.timeout # <<>>, NEW e, e = sched_wake_expired_one(s)
    PROVE  \A x \in Task : e.state[x] = s.state[x] \/ e.state[x] = "READY"
<1> DEFINE t == Head(s.timeout)
           r == [s EXCEPT !.timeout = Tail(@)]
           d == StateListDel(r, t)
           w == [d EXCEPT !.timer[t] = FALSE, !.wres[t] = "TIMEOUT", !.state[t] = "READY"]
<1>1. t \in Task /\ Tail(s.timeout) \in Seq(Task)
    BY TailShape DEF Scheduler
<1>2. e = sched_ready_enqueue(w, t) \/ e = r
    BY DEF sched_wake_expired_one
<1> HIDE DEF t
<1>3. r \in Scheduler /\ r.state = s.state
    BY <1>1 DEF Scheduler
<1> HIDE DEF r
<1>4. d \in Scheduler
    BY <1>1, <1>3, StateListDelType
<1>5. d.state = r.state
    BY <1>1, <1>3 DEF StateListDel, Scheduler
<1> HIDE DEF d
<1>6. w \in Scheduler /\ \A x \in Task : w.state[x] = IF x = t THEN "READY" ELSE d.state[x]
    BY <1>1, <1>4 DEF Scheduler, TaskState, WaitResult
<1> HIDE DEF w
<1>7. CASE e = sched_ready_enqueue(w, t)
    <2>1. e.state = w.state
        BY <1>1, <1>6, <1>7, EnqueueStates
    <2> QED BY <1>3, <1>5, <1>6, <2>1
<1>8. CASE e = r
    BY <1>3, <1>8
<1> QED BY <1>2, <1>7, <1>8

(* A wake from an interrupt makes a task ready and nothing else. *)
LEMMA WakeStates ==
    ASSUME NEW s \in Scheduler, NEW q \in WaitQ, NEW e, e = trt_wait_q_wake_one_from_isr(s, q)
    PROVE  \A x \in Task : e.state[x] = s.state[x] \/ e.state[x] = "READY"
<1>1. CASE s.wq[q] = <<>>
    BY <1>1 DEF trt_wait_q_wake_one_from_isr
<1>2. CASE s.wq[q] # <<>>
    <2> DEFINE t == Head(s.wq[q])
               d == sched_timeout_remove(s, t)
               r == [d EXCEPT !.wq[q] = Tail(@), !.timer[t] = FALSE, !.state[t] = "READY"]
               w == sched_wake_one(s, q)
    <2>1. t \in Task /\ Tail(s.wq[q]) \in Seq(Task)
        BY <1>2, TailShape DEF Scheduler
    <2>2. w = sched_ready_enqueue(r, t)
        BY DEF sched_wake_one
    <2> DEFINE f == trt_wait_q_wake_one_result_locked(s, q, "OBJECT")
    <2>3. f = [w EXCEPT !.pending = @ \/ sched_is_locked(s), !.wres[t] = "OBJECT"]
        BY <1>2 DEF trt_wait_q_wake_one_result_locked
    <2>8. e = [f EXCEPT !.pending = TRUE]
        BY <1>2 DEF trt_wait_q_wake_one_from_isr, trt_wait_q_wake_one_locked, sched_set_pending
    <2> HIDE DEF f
    <2> HIDE DEF t
    <2>4. d \in Scheduler /\ d.state = s.state /\ d.wq = s.wq
        BY <2>1, TimeoutType DEF sched_timeout_remove, Scheduler
    <2> HIDE DEF d
    <2>5. r \in Scheduler /\ \A x \in Task : r.state[x] = IF x = t THEN "READY" ELSE d.state[x]
        BY <2>1, <2>4 DEF Scheduler, TaskState
    <2> HIDE DEF r
    <2>6. w \in Scheduler /\ w.state = r.state
        BY EnqueueStates, <2>1, <2>2, <2>5
    <2> HIDE DEF w
    <2>9. e.state = w.state
        BY <2>3, <2>6, <2>8 DEF Scheduler
    <2> QED BY <2>4, <2>5, <2>6, <2>9
<1> QED BY <1>1, <1>2

(* What a trap leaves alone. *)
LEMMA TrapFacts ==
    ASSUME TypeInv, ListInv, Systick \/ Irq \/ TrapStep
    PROVE  /\ UNCHANGED <<boot, reg, task_count, hnd, htab>> /\ k.started
           /\ \A x \in Task : pc'[x] = pc[x] \/ (pc[x] = "i_wfi" /\ pc'[x] = "i_clean")
           /\ StatesKept(k, k')
           /\ \A x \in Task : k'.state[x] = "BLOCKED" => k.state[x] = "BLOCKED"
<1> USE DEF taskvars, history
<1>1. k \in Scheduler /\ pc \in [Task -> Pc]
    BY DEF TypeInv, TypeOK
<1>2. CASE Systick \/ Irq \/ sched_wake_expired
    <2>1. UNCHANGED <<boot, reg, task_count, hnd, htab>> /\ StatesKept(k, k')
        BY <1>2, TrapSteady DEF Steady
    <2>2. \A x \in Task : pc'[x] = pc[x] \/ (pc[x] = "i_wfi" /\ pc'[x] = "i_clean")
        BY <1>1, <1>2 DEF Systick, SysTick, Irq, Interrupted, sched_wake_expired
    <2>3. \/ k' = k
          \/ k.timeout # <<>> /\ k' = sched_wake_expired_one(k)
          \/ \E q \in WaitQ : k' = trt_wait_q_wake_one_from_isr(k, q)
        BY <1>2 DEF Systick, SysTick, Irq, sched_wake_expired, HeadExpired
    <2>4. \A x \in Task : k'.state[x] = "BLOCKED" => k.state[x] = "BLOCKED"
        <3>1. CASE k' = k
            BY <3>1
        <3>2. CASE k' # k
            <4>1. \A x \in Task : k'.state[x] = k.state[x] \/ k'.state[x] = "READY"
                BY <1>1, <2>3, <3>2, WakeStates, ExpiredStates
            <4> QED BY <4>1
        <3> QED BY <3>1, <3>2
    <2>5. k.started
        BY <1>2 DEF Systick, SysTick, Irq, Interrupted, CanInterrupt, sched_wake_expired,
           ListInv, BootOK
    <2> QED BY <2>1, <2>2, <2>4, <2>5
<1>3. CASE TrapReturn
    <2>1. trap # "none" /\ k' = SwitchedFromTrap /\ pc' = pc
          /\ UNCHANGED <<boot, reg, task_count, hnd, htab>>
        BY <1>3 DEF TrapReturn
    <2>2. TrapReady(k) /\ Sound(k, Unlinked, {}) /\ Idle \in Unlinked /\ k.started
        BY <2>1, TrapReturnFacts
    <2>3. SwitchFrame(k, k')
        BY <2>1, <2>2, TrapSwitchSound DEF Switched
    <2> QED BY <2>1, <2>2, <2>3 DEF SwitchFrame, StatesKept, LiveState
<1> QED BY <1>2, <1>3 DEF TrapStep

(* Only arch_yield raises a trap. *)
LEMMA TrapRaised ==
    ASSUME NEW t \in Task, AppCall(t) \/ KernelStep(t), trap = "none", trap' # "none"
    PROVE  arch_yield(t)
<1>1. CASE AppCall(t)
    BY <1>1 DEF AppCall, task_yield, task_sleep, sched_lock, sched_unlock, trt_wait_q_block,
        trt_wait_q_block_ticks, trt_wait_q_wake_one, trt_wait_q_wake_all, task_delete,
        task_exit, task_create
<1>2. CASE KernelStep(t)
    BY <1>2 DEF KernelStep, task_yield_step, yield_check, yield_link, mask_load,
        mask_store, sleep_loop, sleep_block, wait_return, wake_all_round,
        task_delete_found, task_create_step, create_link, count_load, count_store,
        create_handle, create_set_handle, create_fail, idle_step, cleanup_pop,
        cleanup_free, idle_enable
<1> QED BY <1>1, <1>2

(* Every step keeps the tasks and what they hold in their places. *)
LEMMA NextPlaces ==
    ASSUME TypeInv, TypeInv', ListInv, ListInv', AlwaysInv, PlacesOK, [Next]_vars
    PROVE  PlacesOK'
<1> USE DEF taskvars, history
<1>1. k \in Scheduler /\ pc \in [Task -> Pc] /\ ret \in [Task -> RetPc] /\ Idle \in Task
    BY SchedAssumption DEF TypeInv, TypeOK
<1>2. "run" \notin HoldPc /\ "i_clean" \notin HoldPc /\ "i_wfi" \notin HoldPc
      /\ "c_link" \in HoldPc
    BY DEF HoldPc, CreatePc
<1>3. CASE Boot
    <2>1. /\ reg' = reg /\ boot' # "kernel_init"
          /\ pc' = pc \/ (boot = "kernel_init" /\ pc' = [pc EXCEPT ![Idle] = "i_clean"])
        BY <1>3 DEF Boot, kernel_init, app_main_create, app_main_object, rtos_start
    <2>2. ~k.started
        BY <1>3 DEF Boot, kernel_init, app_main_create, app_main_object, rtos_start, ListInv, BootOK
    <2>3. \A x \in Task \ {Idle} : pc[x] = "run" /\ pc'[x] = "run"
        BY <1>1, <2>1, <2>2 DEF ListInv, BootOK
    <2>4. k'.state[Idle] # "BLOCKED"
        BY <2>1 DEF ListInv, BootOK
    <2>5. pc'[Idle] = pc[Idle] \/ (pc[Idle] = "run" /\ pc'[Idle] = "i_clean")
        <3>1. boot = "kernel_init" => k.state[Idle] = "UNUSED"
            BY <1>1 DEF ListInv, BootOK, sched_init
        <3>2. boot = "kernel_init" => pc[Idle] = "run"
            BY <1>1, <3>1 DEF AlwaysInv, UnusedAt
        <3> QED BY <1>1, <2>1, <3>2
    <2>6. \A c \in Task : BlockedAt(c)'
        BY <1>2, <2>3, <2>4 DEF BlockedAt
    <2>7. \A c \in Task : HoldAt(c)'
        BY <1>2, <2>1, <2>3, <2>5 DEF PlacesOK, HoldAt
    <2>8. \A c \in Task : pc'[c] # "c_link"
        BY <1>2, <2>1, <2>2, <2>3, <2>5 DEF ListInv, BootOK, IdlePc
    <2> QED BY <2>6, <2>7, <2>8 DEF PlacesOK, NewAt
<1>4. CASE Systick \/ Irq \/ TrapStep
    <2>1. /\ reg' = reg
          /\ \A x \in Task : pc'[x] = pc[x] \/ (pc[x] = "i_wfi" /\ pc'[x] = "i_clean")
          /\ \A x \in Task : k'.state[x] = "BLOCKED" => k.state[x] = "BLOCKED"
        BY <1>4, TrapFacts
    <2>2. ASSUME NEW c \in Task
          PROVE  HoldAt(c)' /\ BlockedAt(c)' /\ NewAt(c)'
        <3>1. HoldAt(c) /\ BlockedAt(c) /\ NewAt(c)
            BY DEF PlacesOK
        <3>2. HoldAt(c)' /\ BlockedAt(c)'
            BY <1>2, <2>1, <3>1 DEF HoldAt, BlockedAt
        <3>3. pc[c] = "c_link" => reg[c].obj \in Task
            BY DEF TypeInv, LocalsOK, CreatePc
        <3>4. NewAt(c)'
            BY <2>1, <3>1, <3>3 DEF NewAt
        <3> QED BY <3>2, <3>4
    <2> QED BY <2>2 DEF PlacesOK
<1>5. ASSUME NEW t \in Task, AppCall(t) \/ KernelStep(t)
      PROVE  PlacesOK'
    <2>1. /\ Runs(t) /\ t = k.current /\ trap = "none" /\ k.started
          /\ k'.current = t /\ k'.started
        <3>1. Runs(t) /\ t = k.current /\ trap = "none" /\ k.started /\ boot = "done"
            BY <1>5, StepRuns, RunsFacts
        <3>2. k'.current = t
            BY <1>5, <3>1, TasksAlways DEF Advances
        <3>3. boot' = boot
            BY <1>5, StepMoves, CleanupFacts
        <3> QED BY <3>1, <3>2, <3>3 DEF ListInv, BootOK
    <2>2. \A c \in Task \ {t} : k'.state[c] = "BLOCKED" => k.state[c] = "BLOCKED"
        BY <1>5, NoNewBlocked
    <2>3. CASE cleanup_free
        <3>1. /\ t = Idle
              /\ pc'[Idle] = "i_clean" /\ reg'[Idle] = NoReg
              /\ reg[Idle].obj \in Task \ {Idle}
              /\ pc'[reg[Idle].obj] = "run" /\ reg'[reg[Idle].obj] = NoReg
              /\ \A x \in Task \ {Idle, reg[Idle].obj} : pc'[x] = pc[x] /\ reg'[x] = reg[x]
            BY <2>1, <2>3, CleanupFacts
        <3>2. ASSUME NEW c \in Task, c = Idle \/ c = reg[Idle].obj
              PROVE  HoldAt(c)' /\ BlockedAt(c)' /\ NewAt(c)'
            <4>1. reg'[c].obj = None /\ pc'[c] \in {"i_clean", "run"}
                BY <3>1, <3>2 DEF NoReg
            <4> QED BY <1>2, <4>1 DEF HoldAt, BlockedAt, NewAt
        <3>3. ASSUME NEW c \in Task, c # Idle, c # reg[Idle].obj
              PROVE  HoldAt(c)' /\ BlockedAt(c)' /\ NewAt(c)'
            <4>1. pc'[c] = pc[c] /\ reg'[c] = reg[c] /\ HoldAt(c) /\ BlockedAt(c) /\ NewAt(c)
                BY <3>1, <3>3 DEF PlacesOK
            <4>2. HoldAt(c)' /\ BlockedAt(c)'
                BY <2>2, <3>1, <3>3, <4>1 DEF HoldAt, BlockedAt
            <4>3. pc[c] = "c_link" => reg[c].obj \in Task \ {Idle}
                BY DEF ListInv, CreateOK, CreatorOK, CreatePc
            <4>4. NewAt(c)'
                BY <3>1, <4>1, <4>3 DEF NewAt
            <4> QED BY <4>2, <4>4
        <3> QED BY <3>2, <3>3 DEF PlacesOK
    <2>4. CASE ~cleanup_free
        <3>1. Moves(t, pc'[t])
            BY <1>5, <2>4, StepMoves
        <3>2. HoldAt(t)
            BY DEF PlacesOK
        <3>3. /\ HoldAt(t)'
              /\ pc'[t] = "c_link" => \E p \in CreatePrio : task_create(t, p)
            BY <1>5, <2>4, <3>2, OwnPlaces DEF CreatePc
        <3>4. BlockedAt(t)'
            <4>1. CASE trap' = "none"
                <5>1. StateAt(t)'
                    BY <2>1, <4>1 DEF ListInv, CurrentOK
                <5> QED BY <5>1 DEF StateAt, BlockedAt, LinkPc, HoldPc, CreatePc
            <4>2. CASE trap' # "none"
                <5>1. arch_yield(t)
                    BY <1>5, <2>1, <4>2, TrapRaised
                <5>2. pc'[t] \in RetPc
                    BY <1>1, <5>1 DEF arch_yield, Goto
                <5> QED BY <5>2 DEF BlockedAt, RetPc, HoldPc, CreatePc
            <4> QED BY <4>1, <4>2
        <3>5. ASSUME NEW c \in Task \ {t} PROVE HoldAt(c)' /\ BlockedAt(c)' /\ NewAt(c)'
            <4>1. pc'[c] = pc[c] /\ reg'[c] = reg[c] /\ HoldAt(c) /\ BlockedAt(c) /\ NewAt(c)
                BY <3>1 DEF PlacesOK, Moves
            <4>2. HoldAt(c)' /\ BlockedAt(c)'
                BY <2>2, <4>1 DEF HoldAt, BlockedAt
            <4>3. pc[c] = "c_link" => reg[c].obj \in Task \ {t}
                BY <2>1 DEF ListInv, CreateOK, CreatorOK, CreatePc
            <4>4. NewAt(c)'
                BY <3>1, <4>1, <4>3 DEF NewAt, Moves
            <4> QED BY <4>2, <4>4
        <3>6. NewAt(t)'
            <4> SUFFICES ASSUME NEW p \in CreatePrio, task_create(t, p) PROVE NewAt(t)'
                BY <3>3 DEF NewAt
            <4>1. reg'[t].obj \in Task \ {t} /\ pc[reg'[t].obj] = "run"
                BY CreateFacts
            <4> QED BY <3>1, <4>1 DEF NewAt, Moves
        <3> QED BY <3>3, <3>4, <3>5, <3>6 DEF PlacesOK
    <2> QED BY <2>3, <2>4
<1>6. CASE UNCHANGED vars
    BY <1>6 DEF vars, PlacesOK, HoldAt, BlockedAt, NewAt
<1> QED BY <1>3, <1>4, <1>5, <1>6 DEF Next, CorruptLoop

-----------------------------------------------------------------------------
(* The handle table names live tasks only.  A task knows its handle, and   *)
(* nobody is in the task_create of it any more, or the one who is has      *)
(* allocated the handle and not stored it yet.                             *)
Making(c, u) == pc[c] \in CreatePc /\ reg[c].obj = u

(* c has allocated a handle for u and is about to store it in the TCB. *)
Setting(c, u) == pc[c] = "c_set" /\ reg[c].obj = u

(* What an entry of the table is worth. *)
HandleAt(h) ==
    htab[h] \in Task =>
        /\ IsLive(htab[h])
        /\ \/ hnd[htab[h]] = h /\ \A c \in Task : ~Making(c, htab[h])
           \/ \E c \in Task : Setting(c, htab[h]) /\ reg[c].h = h

(* Every entry is. *)
HandlesOK == \A h \in Handle : HandleAt(h)

(* A live task at task_delete still finds the TCB that it looked up. *)
TargetAt(c) == IsLive(c) /\ pc[c] = "d_obj" => k.state[reg[c].obj] # "UNUSED"

(* For every task. *)
TargetsOK == \A c \in Task : TargetAt(c)

(* An entry that is not changed stays in order if its task and those that  *)
(* create it are not disturbed.                                            *)
LEMMA HandleKept ==
    ASSUME NEW h \in Handle, HandleAt(h), htab'[h] = htab[h],
           htab[h] \in Task /\ IsLive(htab[h]) =>
               /\ IsLive(htab[h])'
               /\ hnd'[htab[h]] = hnd[htab[h]]
               /\ \A c \in Task :
                     /\ pc'[c] \in CreatePc /\ reg'[c].obj = htab[h] => Making(c, htab[h])
                     /\ Setting(c, htab[h]) => pc'[c] = "c_set" /\ reg'[c] = reg[c]
    PROVE  HandleAt(h)'
<1> DEFINE u == htab[h]
<1> SUFFICES ASSUME u \in Task PROVE HandleAt(h)'
    BY DEF HandleAt
<1>1. /\ IsLive(u)
      /\ \/ hnd[u] = h /\ \A c \in Task : ~Making(c, u)
         \/ \E c \in Task : Setting(c, u) /\ reg[c].h = h
    BY DEF HandleAt
<1>2. /\ IsLive(u)' /\ hnd'[u] = hnd[u]
      /\ \A c \in Task : /\ pc'[c] \in CreatePc /\ reg'[c].obj = u => Making(c, u)
                         /\ Setting(c, u) => pc'[c] = "c_set" /\ reg'[c] = reg[c]
    BY <1>1
<1>3. CASE hnd[u] = h /\ \A c \in Task : ~Making(c, u)
    <2>1. \A c \in Task : ~(pc'[c] \in CreatePc /\ reg'[c].obj = u)
        BY <1>2, <1>3
    <2> QED BY <1>2, <1>3, <2>1 DEF HandleAt, Making
<1>4. ASSUME NEW c \in Task, Setting(c, u), reg[c].h = h PROVE HandleAt(h)'
    <2>1. pc'[c] = "c_set" /\ reg'[c].obj = u /\ reg'[c].h = h
        BY <1>2, <1>4 DEF Setting
    <2> QED BY <1>2, <2>1 DEF HandleAt, Setting
<1> QED BY <1>1, <1>3, <1>4

(* In task_create, the handle is stored next. *)
LEMMA SetSteps ==
    ASSUME NEW t \in Task, AppCall(t) \/ KernelStep(t), pc[t] = "c_set"
    PROVE  create_set_handle(t)
<1>1. CASE AppCall(t)
    BY <1>1 DEF AppCall, task_yield, task_sleep, sched_lock, sched_unlock, trt_wait_q_block,
        trt_wait_q_block_ticks, trt_wait_q_wake_one, trt_wait_q_wake_all, task_delete,
        task_exit, task_create, Call, At
<1>2. CASE KernelStep(t)
    BY <1>2 DEF KernelStep, task_yield_step, yield_check, yield_link, mask_load, mask_store,
        arch_yield, sleep_loop, sleep_block, wait_return, wake_all_round, task_delete_found,
        task_create_step, create_link, count_load, count_store, create_handle, create_fail,
        idle_step, cleanup_pop, cleanup_free, idle_enable, At
<1> QED BY <1>1, <1>2

(* No step but cleanup_free frees a TCB, and only a free one comes to life.*)
LEMMA Births ==
    ASSUME TypeInv, ListInv, AlwaysInv, NEW t \in Task, AppCall(t) \/ KernelStep(t), ~cleanup_free,
           NEW x \in Task
    PROVE  /\ k'.state[x] = "UNUSED" => k.state[x] = "UNUSED"
           /\ k'.state[x] \notin {"UNUSED", "DELETED"} /\ k.state[x] \in {"UNUSED", "DELETED"}
                 => pc[x] = "run" /\ x # t
<1>1. CASE task_delete_found(t) \/ task_exit(t) \/ create_fail(t)
    <2>1. PICK u \in Task : Deleted(t, u) \/ k' = k
        BY <1>1, DeletionFacts
    <2> QED BY <2>1 DEF Deleted
<1>2. ASSUME NEW p \in CreatePrio, task_create(t, p)
      PROVE  /\ k'.state[x] = "UNUSED" => k.state[x] = "UNUSED"
             /\ k'.state[x] \notin {"UNUSED", "DELETED"} /\ k.state[x] \in {"UNUSED", "DELETED"}
                   => pc[x] = "run" /\ x # t
    BY <1>2, CreateFacts
<1>3. CASE /\ ~task_delete_found(t) /\ ~task_exit(t) /\ ~create_fail(t)
           /\ \A p \in CreatePrio : ~task_create(t, p)
    <2>1. StatesKept(k, k')
        BY <1>3, CallSteady, StepSteady DEF Steady
    <2> QED BY <2>1 DEF StatesKept, LiveState
<1> QED BY <1>1, <1>2, <1>3

(* A task that steps disturbs an entry only if it takes the TCB of it into *)
(* task_create, or leaves task_create with it.                             *)
LEMMA HandleMoved ==
    ASSUME NEW h \in Handle, HandleAt(h), htab'[h] = htab[h],
           NEW t \in Task, Moves(t, pc'[t]),
           htab[h] \in Task /\ IsLive(htab[h]) =>
               /\ IsLive(htab[h])'
               /\ hnd'[htab[h]] = hnd[htab[h]]
               /\ pc'[t] \in CreatePc /\ reg'[t].obj = htab[h] => Making(t, htab[h])
               /\ ~Setting(t, htab[h])
    PROVE  HandleAt(h)'
<1>1. ASSUME htab[h] \in Task, IsLive(htab[h]), NEW c \in Task
      PROVE  /\ pc'[c] \in CreatePc /\ reg'[c].obj = htab[h] => Making(c, htab[h])
             /\ Setting(c, htab[h]) => pc'[c] = "c_set" /\ reg'[c] = reg[c]
    <2>1. CASE c = t
        BY <1>1, <2>1
    <2>2. CASE c # t
        BY <2>2 DEF Moves, Making, Setting
    <2> QED BY <2>1, <2>2
<1> QED BY <1>1, HandleKept

(* task_create_kernel takes a TCB that no entry names. *)
LEMMA CreateHandles ==
    ASSUME TypeInv, ListInv, AlwaysInv, HandlesOK, NEW t \in Task, NEW p \in CreatePrio,
           task_create(t, p)
    PROVE  HandlesOK'
<1>1. /\ pc[t] = "run" /\ Moves(t, pc'[t]) /\ htab' = htab
      /\ k.state[reg'[t].obj] = "UNUSED"
      /\ \A x \in Task : k'.state[x] = IF x = reg'[t].obj THEN "READY" ELSE k.state[x]
      /\ \A x \in Task : x # reg'[t].obj => hnd'[x] = hnd[x]
    BY CreateFacts
<1>2. ASSUME NEW h \in Handle PROVE HandleAt(h)'
    <2>1. HandleAt(h)
        BY DEF HandlesOK
    <2>2. ASSUME htab[h] \in Task, IsLive(htab[h])
          PROVE  /\ IsLive(htab[h])' /\ hnd'[htab[h]] = hnd[htab[h]]
                 /\ reg'[t].obj # htab[h] /\ ~Setting(t, htab[h])
        <3>1. reg'[t].obj # htab[h]
            BY <1>1, <2>2 DEF IsLive
        <3> QED BY <1>1, <2>2, <3>1 DEF IsLive, Setting
    <2> QED BY <1>1, <2>1, <2>2, HandleMoved
<1> QED BY <1>2 DEF HandlesOK

(* trt_handle_alloc gives the new task its entry. *)
LEMMA AllocHandles ==
    ASSUME TypeInv, ListInv, HandlesOK, NEW t \in Task, create_handle(t)
    PROVE  HandlesOK'
<1> USE DEF history
<1>1. pc[t] = "c_hnd" /\ k' = k /\ hnd' = hnd
    BY DEF create_handle, At
<1>2. reg \in [Task -> Locals] /\ htab \in [Handle -> Task \cup {None, "object"}]
      /\ pc \in [Task -> Pc]
    BY DEF TypeInv, TypeOK
<1>3. Moves(t, pc'[t]) /\ pc'[t] \in {"c_set", "c_fail"}
    <2>1. Goto(t, "c_set") \/ Goto(t, "c_fail")
        BY DEF create_handle
    <2>2. UNCHANGED reg \/ \E l : reg' = [reg EXCEPT ![t].h = l]
        BY DEF create_handle
    <2>3. Moves(t, "c_set") \/ Moves(t, "c_fail")
        BY <2>1, <2>2, RegMoves
    <2> QED BY <2>3 DEF Moves
<1>4. PICK u \in Task : u = reg[t].obj /\ IsLive(u)
    BY <1>1 DEF ListInv, CreateOK, CreatorOK, CreatePc
<1>5. reg'[t].obj = u
    BY <1>2, <1>4 DEF create_handle, Locals
<1>6. ASSUME NEW h \in Handle, htab'[h] = htab[h] PROVE HandleAt(h)'
    <2>1. HandleAt(h)
        BY DEF HandlesOK
    <2>2. pc'[t] \in CreatePc /\ reg'[t].obj = htab[h] => Making(t, htab[h])
        BY <1>1, <1>4, <1>5 DEF Making, CreatePc
    <2>3. ~Setting(t, htab[h])
        BY <1>1 DEF Setting
    <2>4. IsLive(htab[h]) => IsLive(htab[h])'
        BY <1>1, <1>6 DEF IsLive
    <2> QED BY <1>1, <1>3, <1>6, <2>1, <2>2, <2>3, <2>4, HandleMoved
<1>7. CASE FreeHandles = {}
    <2>1. htab' = htab
        BY <1>7 DEF create_handle
    <2> QED BY <1>6, <2>1 DEF HandlesOK
<1>8. CASE FreeHandles # {}
    <2>1. PICK m \in Handle : m = Min(FreeHandles)
        BY <1>8, FreeHandleType
    <2>2. /\ htab' = [htab EXCEPT ![m] = u] /\ reg' = [reg EXCEPT ![t].h = m]
          /\ Goto(t, "c_set")
        BY <1>4, <1>8, <2>1 DEF create_handle
    <2>3. htab'[m] = u /\ reg'[t].h = m /\ pc'[t] = "c_set"
        BY <1>2, <2>1, <2>2 DEF Goto, Locals
    <2>4. IsLive(u)'
        BY <1>1, <1>4 DEF IsLive
    <2>5. HandleAt(m)'
        BY <1>5, <2>3, <2>4 DEF HandleAt, Setting
    <2>6. \A h \in Handle \ {m} : htab'[h] = htab[h]
        BY <1>2, <2>2
    <2> QED BY <1>6, <2>5, <2>6 DEF HandlesOK
<1> QED BY <1>7, <1>8

(* The creator stores the handle in the TCB. *)
LEMMA SetHandles ==
    ASSUME TypeInv, ListInv, HandlesOK, NEW t \in Task, create_set_handle(t)
    PROVE  HandlesOK'
<1>1. pc[t] = "c_set" /\ k' = k /\ htab' = htab /\ Goto(t, "run")
      /\ hnd' = [hnd EXCEPT ![reg[t].obj] = reg[t].h]
    BY DEF create_set_handle, At
<1>2. /\ reg \in [Task -> Locals] /\ hnd \in [Task -> Handle \cup {0}] /\ pc \in [Task -> Pc]
    BY DEF TypeInv, TypeOK
<1>3. \E l : reg' = [reg EXCEPT ![t] = l]
    BY DEF create_set_handle
<1>4. Moves(t, "run") /\ pc'[t] = "run"
    <2>1. Moves(t, "run")
        BY <1>1, <1>3, RegMoves
    <2> QED BY <2>1 DEF Moves
<1>5. PICK u \in Task : u = reg[t].obj /\ \A c \in Task : Making(c, u) => c = t
    BY <1>1 DEF ListInv, CreateOK, CreatorOK, CreatePc, Making
<1>6. hnd'[u] = reg[t].h /\ \A x \in Task : x # u => hnd'[x] = hnd[x]
    BY <1>1, <1>2, <1>5
<1>7. ASSUME NEW h \in Handle PROVE HandleAt(h)'
    <2>1. HandleAt(h)
        BY DEF HandlesOK
    <2>2. CASE htab[h] # u
        <3>1. ~Setting(t, htab[h]) /\ pc'[t] \notin CreatePc
            BY <1>4, <1>5, <2>2 DEF Setting, CreatePc
        <3>2. IsLive(htab[h]) => IsLive(htab[h])'
            BY <1>1 DEF IsLive
        <3>3. htab[h] \in Task => hnd'[htab[h]] = hnd[htab[h]]
            BY <1>6, <2>2
        <3> QED BY <1>1, <1>4, <2>1, <3>1, <3>2, <3>3, HandleMoved
    <2>3. CASE htab[h] = u
        <3>1. Making(t, u)
            BY <1>1, <1>5 DEF Making, CreatePc
        <3>2. IsLive(u) /\ \E c \in Task : Setting(c, u) /\ reg[c].h = h
            BY <1>5, <2>1, <2>3, <3>1 DEF HandleAt
        <3>3. reg[t].h = h
            BY <1>5, <3>2 DEF Setting, Making, CreatePc
        <3>4. \A c \in Task : ~(pc'[c] \in CreatePc /\ reg'[c].obj = u)
            BY <1>4, <1>5 DEF Moves, Making, CreatePc
        <3>5. IsLive(u)'
            BY <1>1, <3>2 DEF IsLive
        <3> QED BY <1>1, <1>6, <2>3, <3>3, <3>4, <3>5 DEF HandleAt, Making
    <2> QED BY <2>2, <2>3
<1> QED BY <1>7 DEF HandlesOK

(* A task that is deleted outside a task_create takes its entry with it. *)
LEMMA DeleteHandles ==
    ASSUME TypeInv, ListInv, HandlesOK, NEW t \in Task, fault' = {},
           task_delete_found(t) \/ task_exit(t) \/ create_fail(t)
    PROVE  HandlesOK'
<1>1. PICK u \in Task : \/ Deleted(t, u)
                        \/ UNCHANGED <<k, hnd, htab>>
    BY DeletionFacts
<1>2. Moves(t, pc'[t]) /\ pc'[t] \notin CreatePc
    BY DeletionFacts DEF HoldPc
<1>3. pc[t] # "c_set"
    BY DEF task_delete_found, task_exit, create_fail, At, Call
<1>4. \A v : ~Setting(t, v)
    BY <1>3 DEF Setting
<1>5. ASSUME NEW h \in Handle PROVE HandleAt(h)'
    <2>1. HandleAt(h)
        BY DEF HandlesOK
    <2>2. CASE UNCHANGED <<k, hnd, htab>>
        <3>1. htab'[h] = htab[h] /\ hnd' = hnd /\ (IsLive(htab[h]) => IsLive(htab[h])')
            BY <2>2 DEF IsLive
        <3> QED BY <1>2, <1>4, <2>1, <3>1, HandleMoved
    <2>3. CASE Deleted(t, u)
        <3> SUFFICES ASSUME htab'[h] \in Task PROVE HandleAt(h)'
            BY DEF HandleAt
        <3>1. htab \in [Handle -> Task \cup {None, "object"}] /\ hnd[u] \in Handle \cup {0}
            BY DEF TypeInv, TypeOK
        <3>2. htab'[h] = htab[h] /\ (hnd[u] # h \/ hnd[u] = 0)
            BY <2>3, <3>1, SchedAssumption DEF Deleted
        <3>3. htab[h] # u
            <4> SUFFICES ASSUME htab[h] = u PROVE FALSE
                OBVIOUS
            <4>1. hnd[u] # h
                BY <3>2 DEF Handle
            <4>2. PICK c \in Task : Setting(c, u)
                BY <2>1, <4>1 DEF HandleAt
            <4>3. ~Unpublished(t, u)
                BY <2>3 DEF Deleted
            <4>4. c = t
                BY <4>2, <4>3 DEF Unpublished, Setting, CreatePc
            <4> QED BY <1>4, <4>2, <4>4
        <3>4. IsLive(htab[h]) => IsLive(htab[h])'
            BY <2>3, <3>2, <3>3 DEF Deleted, IsLive
        <3>5. hnd'[htab[h]] = hnd[htab[h]]
            BY <2>3, <3>2, <3>3 DEF Deleted
        <3> QED BY <1>2, <1>4, <2>1, <3>2, <3>4, <3>5, HandleMoved
    <2> QED BY <1>1, <2>2, <2>3
<1> QED BY <1>5 DEF HandlesOK

(* The TCB that is freed is in no entry, and its task in no task_create. *)
LEMMA FreeHandlesKept ==
    ASSUME TypeInv, ListInv, HandlesOK, cleanup_free
    PROVE  HandlesOK'
<1> DEFINE u == reg[Idle].obj
<1>1. /\ u \in Task \ {Idle} /\ k.state[u] = "DELETED"
      /\ \A x \in Task : k'.state[x] = IF x = u THEN "UNUSED" ELSE k.state[x]
      /\ pc'[Idle] = "i_clean" /\ pc'[u] = "run"
      /\ \A x \in Task \ {Idle, u} : pc'[x] = pc[x] /\ reg'[x] = reg[x]
      /\ hnd' = hnd /\ htab' = htab
    BY CleanupFacts
<1>2. pc[Idle] = "i_free"
    BY DEF cleanup_free, At
<1>3. pc[u] \notin CreatePc
    BY <1>1 DEF ListInv, CreateOK, CreatorOK, IsLive
<1> HIDE DEF u
<1>4. ASSUME NEW h \in Handle PROVE HandleAt(h)'
    <2>1. HandleAt(h)
        BY DEF HandlesOK
    <2>2. htab[h] \in Task /\ IsLive(htab[h]) => IsLive(htab[h])'
        BY <1>1 DEF IsLive
    <2>3. ASSUME NEW c \in Task
          PROVE  /\ pc'[c] \in CreatePc /\ reg'[c].obj = htab[h] => Making(c, htab[h])
                 /\ Setting(c, htab[h]) => pc'[c] = "c_set" /\ reg'[c] = reg[c]
        <3>1. CASE c = Idle \/ c = u
            BY <1>1, <1>2, <1>3, <3>1 DEF Setting, CreatePc
        <3>2. CASE c # Idle /\ c # u
            BY <1>1, <3>2 DEF Setting, Making
        <3> QED BY <3>1, <3>2
    <2> QED BY <1>1, <2>1, <2>2, <2>3, HandleKept
<1> QED BY <1>4 DEF HandlesOK

(* app_main creates tasks before any of them runs. *)
LEMMA BootHandles ==
    ASSUME TypeInv, ListInv, HandlesOK, Boot
    PROVE  HandlesOK'
<1> USE DEF taskvars, history
<1>1. /\ k \in Scheduler /\ htab \in [Handle -> Task \cup {None, "object"}]
      /\ hnd \in [Task -> Handle \cup {0}] /\ reg' = reg
    BY DEF TypeInv, TypeOK, Boot, kernel_init, app_main_create, app_main_object, rtos_start
<1>2. ASSUME NEW h \in Handle, htab'[h] = htab[h], pc' = pc,
             htab[h] \in Task /\ IsLive(htab[h]) =>
                 IsLive(htab[h])' /\ hnd'[htab[h]] = hnd[htab[h]]
      PROVE  HandleAt(h)'
    BY <1>1, <1>2, HandleKept DEF HandlesOK, Making, Setting
<1>3. CASE kernel_init
    <2>1. k = sched_init /\ htab' = htab
        BY <1>3 DEF kernel_init, ListInv, BootOK
    <2>2. \A x \in Task : ~IsLive(x)
        BY <2>1 DEF IsLive, sched_init
    <2> QED BY <2>1, <2>2 DEF HandlesOK, HandleAt
<1>4. CASE app_main_object
    <2>1. PICK m \in Handle : htab' = [htab EXCEPT ![m] = "object"]
        BY <1>4, FreeHandleType DEF app_main_object
    <2>2. k' = k /\ pc' = pc /\ hnd' = hnd
        BY <1>4 DEF app_main_object
    <2>3. HandleAt(m)'
        BY <1>1, <2>1, KernelAssumption DEF HandleAt
    <2>4. ASSUME NEW h \in Handle \ {m} PROVE HandleAt(h)'
        <3>1. htab'[h] = htab[h] /\ (IsLive(htab[h]) => IsLive(htab[h])')
            BY <1>1, <2>1, <2>2 DEF IsLive
        <3> QED BY <1>2, <2>2, <3>1
    <2> QED BY <2>3, <2>4 DEF HandlesOK
<1>5. CASE rtos_start
    <2> DEFINE s == sched_pick_next(k)
    <2>1. k' = [s EXCEPT !.started = TRUE] /\ boot = "app_main" /\ pc' = pc /\ UNCHANGED taskvars
        BY <1>5 DEF rtos_start
    <2>2. /\ k.idle = Idle /\ k.state[Idle] \in {"READY", "RUNNING"} /\ Sound(k, {Idle}, {})
        BY <2>1, BeforeStart
    <2>3. s \in Scheduler /\ StatesKept(k, s)
        <3>1. s \in Scheduler
            BY <1>1, PickNextType
        <3>2. SwitchFrame(k, s)
            BY <1>1, <2>2, PickNextSound DEF Picked
        <3> QED BY <3>1, <3>2 DEF SwitchFrame, StatesKept, LiveState
    <2> HIDE DEF s
    <2>4. k'.state = s.state
        BY <2>1, <2>3 DEF Scheduler
    <2>5. ASSUME NEW h \in Handle PROVE HandleAt(h)'
        <3>1. htab[h] \in Task /\ IsLive(htab[h]) => IsLive(htab[h])'
            BY <2>1, <2>3, <2>4 DEF StatesKept, LiveState, IsLive
        <3> QED BY <1>2, <2>1, <3>1
    <2> QED BY <2>5 DEF HandlesOK
<1>6. ASSUME NEW p \in CreatePrio, app_main_create(p) PROVE HandlesOK'
    <2>1. boot = "app_main" /\ pc' = pc /\ p \in Prio
        BY <1>6, KernelAssumption DEF app_main_create
    <2>2. PICK u \in FreeSlots :
            \/ /\ k' = sched_ready_enqueue(InitTcb(k, u, p), u)
               /\ hnd' = [hnd EXCEPT ![u] = Min(FreeHandles)]
               /\ htab' = [htab EXCEPT ![Min(FreeHandles)] = u]
               /\ FreeHandles # {}
            \/ /\ k' = sched_mark_deleted(sched_ready_enqueue(InitTcb(k, u, p), u), u)
               /\ UNCHANGED taskvars
        BY <1>6 DEF app_main_create
    <2> DEFINE s == sched_ready_enqueue(InitTcb(k, u, p), u)
    <2>3. u \in Task /\ k.state[u] = "UNUSED"
        BY DEF FreeSlots
    <2>4. s \in Scheduler /\ s.state[u] = "READY" /\ \A x \in Task \ {u} : s.state[x] = k.state[x]
        <3>1. Sound(k, {Idle}, {})
            BY <2>1, BeforeStart
        <3>2. s \in Scheduler /\ s.state[u] = "READY" /\ \A x \in Task \ {u} : SameTask(k, s, x)
            BY <1>1, <2>1, <2>3, <3>1, NewQueued
        <3> QED BY <3>2 DEF SameTask
    <2> HIDE DEF s
    <2>5. \A x \in Task : pc[x] \notin CreatePc
        BY <2>1, BeforeStart DEF CreatePc, IdlePc
    <2>6. ASSUME NEW h \in Handle, htab'[h] = htab[h],
                 \A x \in Task \ {u} : k'.state[x] = k.state[x] /\ hnd'[x] = hnd[x]
          PROVE  HandleAt(h)'
        <3>1. htab[h] \in Task /\ IsLive(htab[h]) => htab[h] \in Task \ {u}
            BY <2>3 DEF IsLive
        <3>2. htab[h] \in Task /\ IsLive(htab[h]) =>
                 IsLive(htab[h])' /\ hnd'[htab[h]] = hnd[htab[h]]
            BY <2>6, <3>1 DEF IsLive
        <3> QED BY <1>2, <2>1, <2>6, <3>2
    <2>7. CASE k' = sched_mark_deleted(s, u) /\ UNCHANGED taskvars
        <3>1. \A x \in Task \ {u} : k'.state[x] = k.state[x]
            BY <2>3, <2>4, <2>7, LinedMark
        <3> QED BY <2>6, <2>7, <3>1 DEF HandlesOK
    <2>8. CASE k' # sched_mark_deleted(s, u) \/ ~UNCHANGED taskvars
        <3>1. /\ k' = s /\ hnd' = [hnd EXCEPT ![u] = Min(FreeHandles)]
              /\ htab' = [htab EXCEPT ![Min(FreeHandles)] = u] /\ FreeHandles # {}
            BY <2>2, <2>8 DEF s
        <3>2. PICK m \in Handle : m = Min(FreeHandles)
            BY <3>1, FreeHandleType
        <3>3. htab'[m] = u /\ hnd'[u] = m /\ IsLive(u)'
            BY <1>1, <2>3, <2>4, <3>1, <3>2 DEF IsLive
        <3>4. \A c \in Task : pc'[c] \notin CreatePc
            BY <2>1, <2>5
        <3>5. HandleAt(m)'
            BY <3>3, <3>4 DEF HandleAt, Making
        <3>6. \A x \in Task \ {u} : k'.state[x] = k.state[x] /\ hnd'[x] = hnd[x]
            BY <1>1, <2>3, <2>4, <3>1
        <3>7. \A h \in Handle \ {m} : htab'[h] = htab[h]
            BY <1>1, <3>1, <3>2
        <3> QED BY <2>6, <3>5, <3>6, <3>7 DEF HandlesOK
    <2> QED BY <2>7, <2>8
<1> QED BY <1>3, <1>4, <1>5, <1>6 DEF Boot

(* No other step of a task is about an entry. *)
LEMMA SteadyHandles ==
    ASSUME TypeInv, ListInv, PlacesOK, HandlesOK, NEW t \in Task, AppCall(t) \/ KernelStep(t),
           ~cleanup_free, \A p \in CreatePrio : ~task_create(t, p),
           ~task_delete_found(t), ~task_exit(t), ~create_fail(t),
           ~create_handle(t), ~create_set_handle(t)
    PROVE  HandlesOK'
<1>1. Moves(t, pc'[t])
    BY StepMoves
<1>2. StatesKept(k, k') /\ UNCHANGED <<hnd, htab>>
    <2>1. CASE count_store(t)
        <3>1. KernelStep(t)
            BY <2>1 DEF KernelStep, task_create_step
        <3> QED BY <2>1, <3>1, StepSteady DEF Steady, count_store
    <2>2. CASE ~count_store(t)
        BY <2>2, CallSteady, StepSteady DEF Steady
    <2> QED BY <2>1, <2>2
<1>3. pc'[t] \in CreatePc => pc[t] \in CreatePc /\ reg'[t].obj = reg[t].obj
    BY OwnPlaces DEF PlacesOK
<1>4. \A v : ~Setting(t, v)
    BY SetSteps DEF Setting
<1>5. ASSUME NEW h \in Handle PROVE HandleAt(h)'
    <2>1. htab[h] \in Task /\ IsLive(htab[h]) => IsLive(htab[h])'
        BY <1>2 DEF StatesKept, LiveState, IsLive
    <2>2. HandleAt(h) /\ htab'[h] = htab[h] /\ hnd' = hnd
        BY <1>2 DEF HandlesOK
    <2> QED BY <1>1, <1>3, <1>4, <2>1, <2>2, HandleMoved DEF Making
<1> QED BY <1>5 DEF HandlesOK

(* Every step keeps the handle table in order. *)
LEMMA NextHandles ==
    ASSUME TypeInv, ListInv, AlwaysInv, PlacesOK, HandlesOK, [Next]_vars, fault' = {}
    PROVE  HandlesOK'
<1>1. CASE Boot
    BY <1>1, BootHandles
<1>2. CASE Systick \/ Irq \/ TrapStep
    <2>1. /\ UNCHANGED <<reg, hnd, htab>> /\ StatesKept(k, k')
          /\ \A x \in Task : pc'[x] = pc[x] \/ (pc[x] = "i_wfi" /\ pc'[x] = "i_clean")
        BY <1>2, TrapFacts
    <2>2. ASSUME NEW h \in Handle PROVE HandleAt(h)'
        <3>1. htab[h] \in Task /\ IsLive(htab[h]) => IsLive(htab[h])'
            BY <2>1 DEF StatesKept, LiveState, IsLive
        <3>2. \A c \in Task : /\ pc'[c] \in CreatePc /\ reg'[c].obj = htab[h] => Making(c, htab[h])
                              /\ Setting(c, htab[h]) => pc'[c] = "c_set" /\ reg'[c] = reg[c]
            BY <2>1 DEF Making, Setting, CreatePc
        <3>3. HandleAt(h) /\ htab'[h] = htab[h] /\ hnd' = hnd
            BY <2>1 DEF HandlesOK
        <3> QED BY <3>1, <3>2, <3>3, HandleKept
    <2> QED BY <2>2 DEF HandlesOK
<1>3. ASSUME NEW t \in Task, AppCall(t) \/ KernelStep(t) PROVE HandlesOK'
    BY <1>3, SteadyHandles, CreateHandles, AllocHandles, SetHandles, DeleteHandles, FreeHandlesKept
<1>4. CASE UNCHANGED vars
    BY <1>4 DEF vars, HandlesOK, HandleAt, Making, Setting, IsLive
<1> QED BY <1>1, <1>2, <1>3, <1>4 DEF Next, CorruptLoop

(* Only a live task can be waited for: while the idle task frees a TCB no  *)
(* live task is amid a task_delete.                                        *)
LEMMA NobodyDeletes ==
    ASSUME TypeInv, ListInv, PlacesOK, IdleQuiet(k), cleanup_free, NEW c \in Task, IsLive(c)
    PROVE  pc[c] # "d_obj"
<1> SUFFICES ASSUME pc[c] = "d_obj" PROVE FALSE
    OBVIOUS
<1>1. Idle = k.current /\ pc[Idle] = "i_free" /\ c # Idle
    BY CleanupFacts DEF cleanup_free, At
<1>2. k.state[c] \in {"READY", "RUNNING", "BLOCKED"}
    BY DEF IsLive, TypeInv, TypeOK, Scheduler, TaskState
<1>3. CASE k.state[c] = "RUNNING"
    BY <1>1, <1>3 DEF ListInv, Sound, OneRuns
<1>4. CASE k.state[c] = "BLOCKED"
    BY <1>4 DEF PlacesOK, BlockedAt, HoldPc
<1>5. CASE k.state[c] = "READY"
    <2>1. OnReady(k, c) \/ c \in Unlinked
        BY <1>5 DEF ListInv, Sound, Queued
    <2>2. ~OnReady(k, c)
        BY <1>1 DEF IdleQuiet
    <2>3. BeingCreated(c)
        BY <1>1, <2>1, <2>2 DEF Unlinked
    <2> QED BY <2>3 DEF BeingCreated, PlacesOK, NewAt
<1> QED BY <1>2, <1>3, <1>4, <1>5

(* Every step keeps what a task is about to delete. *)
LEMMA NextTargets ==
    ASSUME TypeInv, TypeInv', ListInv, AlwaysInv, PlacesOK, HandlesOK, TargetsOK, IdleOK,
           fault = {}, [Next]_vars
    PROVE  TargetsOK'
<1>1. \A c \in Task : pc[c] = "d_obj" => reg[c].obj \in Task
    BY DEF TypeInv, LocalsOK
<1>2. CASE Boot
    <2>1. ~k.started /\ pc \in [Task -> Pc]
        BY <1>2 DEF Boot, kernel_init, app_main_create, app_main_object, rtos_start,
           ListInv, BootOK, TypeInv, TypeOK
    <2>2. \A x \in Task : pc[x] # "d_obj"
        <3>1. boot = "kernel_init" => k.state[Idle] = "UNUSED"
            BY SchedAssumption DEF ListInv, BootOK, sched_init
        <3>2. boot = "kernel_init" => pc[Idle] = "run"
            BY <3>1, SchedAssumption DEF AlwaysInv, UnusedAt
        <3> QED BY <2>1, <3>2 DEF ListInv, BootOK, IdlePc
    <2>3. \A x \in Task : pc'[x] # "d_obj"
        BY <1>2, <2>1, <2>2 DEF Boot, kernel_init, app_main_create, app_main_object, rtos_start
    <2> QED BY <2>3 DEF TargetsOK, TargetAt
<1>3. CASE Systick \/ Irq \/ TrapStep
    <2>1. /\ reg' = reg /\ StatesKept(k, k')
          /\ \A x \in Task : pc'[x] = pc[x] \/ (pc[x] = "i_wfi" /\ pc'[x] = "i_clean")
        BY <1>3, TrapFacts
    <2> QED BY <1>1, <2>1 DEF TargetsOK, TargetAt, IsLive, StatesKept, LiveState
<1>4. ASSUME NEW t \in Task, AppCall(t) \/ KernelStep(t), ~cleanup_free
      PROVE  TargetsOK'
    <2>1. Moves(t, pc'[t])
        BY <1>4, StepMoves
    <2>2. ASSUME NEW c \in Task \ {t} PROVE TargetAt(c)'
        <3>1. pc'[c] = pc[c] /\ reg'[c] = reg[c] /\ TargetAt(c)
            BY <2>1 DEF Moves, TargetsOK
        <3>2. pc[c] = "d_obj" => (IsLive(c)' => IsLive(c))
            BY <1>4, Births DEF IsLive
        <3>3. pc[c] = "d_obj" => (k'.state[reg[c].obj] = "UNUSED" => k.state[reg[c].obj] = "UNUSED")
            BY <1>1, <1>4, Births
        <3> QED BY <3>1, <3>2, <3>3 DEF TargetAt
    <2>3. TargetAt(t)'
        <3> SUFFICES ASSUME pc'[t] = "d_obj" PROVE k'.state[reg'[t].obj] # "UNUSED"
            BY DEF TargetAt
        <3>1. PICK h \in Handle : task_delete(t, h)
            BY <1>4, OwnPlaces DEF PlacesOK
        <3>2. k' = k /\ htab[h] \in Task /\ reg' = [reg EXCEPT ![t].obj = htab[h]]
            BY <3>1 DEF task_delete
        <3>3. IsLive(htab[h])
            BY <3>2 DEF HandlesOK, HandleAt
        <3>4. reg'[t].obj = htab[h]
            BY <3>2 DEF TypeInv, TypeOK, Locals
        <3> QED BY <3>2, <3>3, <3>4 DEF IsLive
    <2> QED BY <2>2, <2>3 DEF TargetsOK
<1>5. CASE cleanup_free
    <2>1. /\ k.started /\ trap = "none"
          /\ pc'[Idle] = "i_clean" /\ pc'[reg[Idle].obj] = "run"
          /\ \A x \in Task \ {Idle, reg[Idle].obj} : pc'[x] = pc[x]
          /\ \A x \in Task : k'.state[x] = IF x = reg[Idle].obj THEN "UNUSED" ELSE k.state[x]
        BY <1>5, CleanupFacts DEF Runs
    <2>2. IdleQuiet(k)
        BY <2>1 DEF IdleOK, IdleLast
    <2>3. ASSUME NEW c \in Task PROVE TargetAt(c)'
        <3>1. CASE c \in {Idle, reg[Idle].obj}
            BY <2>1, <3>1 DEF TargetAt
        <3>2. CASE c \notin {Idle, reg[Idle].obj}
            <4>1. pc'[c] = pc[c] /\ (IsLive(c)' => IsLive(c))
                BY <2>1, <3>2 DEF IsLive
            <4>2. IsLive(c) => pc[c] # "d_obj"
                BY <1>5, <2>2, NobodyDeletes
            <4> QED BY <4>1, <4>2 DEF TargetAt
        <3> QED BY <3>1, <3>2
    <2> QED BY <2>3 DEF TargetsOK
<1>6. CASE UNCHANGED vars
    BY <1>6 DEF vars, TargetsOK, TargetAt, IsLive
<1> QED BY <1>2, <1>3, <1>4, <1>5, <1>6 DEF Next, CorruptLoop

(* The invariant, as long as no window was hit. *)
LifeOK == fault = {} => PlacesOK /\ HandlesOK /\ TargetsOK

(* The inductive invariant of the life cycle of a TCB. *)
LifeInv == TypeInv /\ ListsOK /\ AlwaysInv /\ IdleOK /\ LifeOK

(* Before kernel_init nobody holds a TCB and no handle is given out. *)
LEMMA InitLife == Init => LifeOK
<1> SUFFICES ASSUME Init PROVE PlacesOK /\ HandlesOK /\ TargetsOK
    BY DEF LifeOK
<1>1. /\ \A c \in Task : pc[c] = "run" /\ reg[c].obj = None /\ k.state[c] = "UNUSED"
      /\ \A h \in Handle : htab[h] = None
    BY DEF Init, NoReg, sched_init
<1>2. "run" \notin HoldPc
    BY DEF HoldPc, CreatePc
<1> QED BY <1>1, <1>2, SchedAssumption
        DEF PlacesOK, HoldAt, BlockedAt, NewAt, HandlesOK, HandleAt, TargetsOK, TargetAt

(* Each part of the invariant is kept with the help of the others. *)
LEMMA NextLife == TypeInv' /\ LifeInv /\ [Next]_vars => LifeInv'
<1> SUFFICES ASSUME TypeInv', LifeInv, [Next]_vars PROVE LifeInv'
    OBVIOUS
<1>1. ListsOK' /\ AlwaysInv' /\ IdleOK'
    BY NextLists, NextAlways, NextIdle DEF LifeInv
<1>2. ASSUME fault' = {} PROVE (PlacesOK /\ HandlesOK /\ TargetsOK)'
    <2>1. fault = {}
        BY <1>2, FaultStays
    <2>2. ListInv /\ ListInv' /\ PlacesOK /\ HandlesOK /\ TargetsOK
        BY <1>1, <1>2, <2>1 DEF LifeInv, LifeOK, ListsOK
    <2>3. PlacesOK'
        BY <2>2, NextPlaces DEF LifeInv
    <2>4. HandlesOK'
        BY <1>2, <2>2, NextHandles DEF LifeInv
    <2>5. TargetsOK'
        BY <2>1, <2>2, NextTargets DEF LifeInv
    <2> QED BY <2>3, <2>4, <2>5
<1> QED BY <1>1, <1>2 DEF LifeInv, LifeOK

(* The life cycle of a TCB (task_create, task_delete, task_exit,           *)
(* task_cleanup_deleted): a TCB is held only by a task amid a create, a    *)
(* delete or the cleanup, the handle table names live tasks only, and a    *)
(* live task that has looked up a TCB for task_delete finds it allocated   *)
(* still; the idle task, which frees, never runs in between.               *)
THEOREM LifeCorrect == Spec => []LifeInv
<1>1. Init => LifeInv
    BY InitType, InitLists, InitAlways, InitIdle, InitLife DEF LifeInv, ListsOK
<1>2. LifeInv /\ [Next]_vars => LifeInv'
    <2>1. TypeInv /\ [Next]_vars => TypeInv'
        BY NextType
    <2> QED BY <2>1, NextLife DEF LifeInv
<1> QED BY <1>1, <1>2, PTL DEF Spec

(* A TCB is freed only when no list, no entry of the handle table and no   *)
(* call of a live task leads to it any more (task_cleanup_deleted,         *)
(* task_delete).                                                           *)
THEOREM FreedTasksAreUnreachable == Spec => []FreedIsUnreachable
<1>1. LifeInv => FreedIsUnreachable
    <2> SUFFICES ASSUME LifeInv, fault = {}, NEW t \in Task, k.state[t] = "UNUSED"
                 PROVE  /\ t # k.current
                        /\ ~OnStateList(k, t)
                        /\ ~Contains(k.timeout, t)
                        /\ \A h \in Handle : htab[h] # t
                        /\ \A c \in Task : reg[c].obj = t => ~IsLive(c)
        BY DEF FreedIsUnreachable
    <2>1. ListInv /\ PlacesOK /\ HandlesOK /\ TargetsOK /\ LocalsOK
        BY DEF LifeInv, ListsOK, LifeOK, TypeInv
    <2>2. t # k.current
        BY <2>1, SchedAssumption DEF ListInv, BootOK
    <2>3. ~OnStateList(k, t) /\ ~Contains(k.timeout, t)
        BY <2>1 DEF ListInv, Sound, Placed, OnStateList, OnReady, OnWaitQ
    <2>4. \A h \in Handle : htab[h] # t
        BY <2>1 DEF HandlesOK, HandleAt, IsLive
    <2>5. ASSUME NEW c \in Task, reg[c].obj = t, IsLive(c) PROVE FALSE
        <3>1. pc[c] \in HoldPc /\ (pc[c] = "i_free" => c = Idle)
            BY <2>1, <2>5, SchedAssumption DEF PlacesOK, HoldAt
        <3>2. CASE pc[c] \in CreatePc
            BY <2>1, <2>5, <3>2 DEF ListInv, CreateOK, CreatorOK, IsLive
        <3>3. CASE pc[c] = "d_obj"
            BY <2>1, <2>5, <3>3 DEF TargetsOK, TargetAt
        <3>4. CASE pc[c] = "i_free"
            BY <2>1, <2>5, <3>1, <3>4 DEF ListInv, FreeOK
        <3> QED BY <3>1, <3>2, <3>3, <3>4 DEF HoldPc
    <2> QED BY <2>2, <2>3, <2>4, <2>5
<1> QED BY <1>1, LifeCorrect, PTL

(* The steps that may touch a TCB find it in use. *)
LEMMA TouchesLive ==
    ASSUME TypeInv, ListInv, AlwaysInv, PlacesOK, TargetsOK, fault = {}, [Next]_vars
    PROVE  "uaf" \notin fault'
<1> USE DEF taskvars, history
<1>1. CASE Boot
    BY <1>1 DEF Boot, kernel_init, app_main_create, app_main_object, rtos_start
<1>2. CASE Systick \/ Irq \/ TrapStep
    <2>1. fault' = fault \/ fault' = fault \cup {"torn"}
        BY <1>2 DEF Systick, SysTick, Irq, Interrupted, TrapStep, sched_wake_expired, TrapReturn
    <2> QED BY <2>1
<1>3. ASSUME NEW t \in Task, AppCall(t) \/ KernelStep(t) PROVE "uaf" \notin fault'
    <2>1. CASE task_delete_found(t) \/ task_exit(t) \/ create_fail(t)
        <3>1. k.state[t] = "RUNNING"
            BY <2>1, DeletionFacts
        <3>2. task_delete_found(t) => k.state[reg[t].obj] # "UNUSED"
            <4>1. task_delete_found(t) => pc[t] = "d_obj"
                BY DEF task_delete_found, At
            <4> QED BY <3>1, <4>1 DEF TargetsOK, TargetAt, IsLive
        <3>3. PICK u \in Task : \/ Deleted(t, u)
                                \/ k.state[u] # "UNUSED" /\ fault' = fault
            <4>1. PICK u \in Task :
                    /\ task_exit(t) => u = t
                    /\ create_fail(t) => u = reg[t].obj /\ k.state[u] # "UNUSED"
                    /\ task_delete_found(t) => u = reg[t].obj
                    /\ Deleted(t, u) \/ (k.state[u] # "UNUSED" => fault' = fault)
                BY <2>1, DeletionFacts
            <4>2. k.state[u] # "UNUSED"
                BY <2>1, <3>1, <3>2, <4>1
            <4> QED BY <4>1, <4>2
        <3> QED BY <3>3 DEF Deleted
    <2>2. CASE create_set_handle(t)
        <3>1. k.state[reg[t].obj] # "UNUSED"
            BY <2>2 DEF create_set_handle, At, ListInv, CreateOK, CreatorOK, CreatePc, IsLive
        <3> QED BY <2>2, <3>1 DEF create_set_handle
    <2>3. CASE cleanup_free
        BY <2>3, CleanupFacts
    <2>4. CASE \E p \in CreatePrio : task_create(t, p)
        BY <2>4 DEF task_create
    <2>5. CASE count_store(t) \/ create_handle(t)
        BY <2>5 DEF count_store, create_handle
    <2>6. CASE /\ ~task_delete_found(t) /\ ~task_exit(t) /\ ~create_fail(t)
               /\ ~create_set_handle(t) /\ ~cleanup_free
               /\ \A p \in CreatePrio : ~task_create(t, p)
               /\ ~count_store(t) /\ ~create_handle(t)
        BY <1>3, <2>6, CallSteady, StepSteady
    <2> QED BY <2>1, <2>2, <2>3, <2>4, <2>5, <2>6
<1>4. CASE UNCHANGED vars
    BY <1>4 DEF vars
<1> QED BY <1>1, <1>2, <1>3, <1>4 DEF Next, CorruptLoop

(* A TCB is not touched after it was freed, unless a task was deleted amid *)
(* a task_create or a window was hit before (task_delete,                  *)
(* trt_handle_alloc).                                                      *)
THEOREM FreedTasksAreNotUsed == Spec => []NoUseAfterFree
<1>1. Init => NoUseAfterFree
    BY DEF Init, NoUseAfterFree
<1>2. LifeInv /\ NoUseAfterFree /\ [Next]_vars => NoUseAfterFree'
    <2> SUFFICES ASSUME LifeInv, NoUseAfterFree, [Next]_vars PROVE NoUseAfterFree'
        OBVIOUS
    <2>1. CASE fault = {}
        <3>1. ListInv /\ PlacesOK /\ TargetsOK
            BY <2>1 DEF LifeInv, ListsOK, LifeOK
        <3> QED BY <2>1, <3>1, TouchesLive DEF LifeInv, NoUseAfterFree
    <2>2. CASE fault # {}
        <3>1. fault \cap {"torn", "orphan"} # {}
            BY <2>2 DEF LifeInv, TypeInv, TypeOK, NoUseAfterFree
        <3> QED BY <3>1, FaultStays DEF NoUseAfterFree
    <2> QED BY <2>1, <2>2
<1> QED BY <1>1, <1>2, LifeCorrect, PTL DEF Spec

-----------------------------------------------------------------------------
(* The number of tasks.  Where task_create has not counted its task yet.   *)
CountPc == {"c_link", "c_load", "c_store", "c_cload", "c_cstore"}

(* c is at one of them with the TCB x. *)
Waiting(c, x) == pc[c] \in CountPc /\ reg[c].obj = x

(* The tasks that task_count counts. *)
Counted == {t \in Task : IsLive(t)} \ Uncounted

(* Before the first fault, the counter is their number. *)
CountOK == fault = {} => IsFiniteSet(Counted) /\ Cardinality(Counted) = task_count

(* A creator is live. *)
LEMMA UncountedIs ==
    ASSUME ListInv, ListInv', NEW x \in Task
    PROVE  /\ x \in Uncounted <=> \E c \in Task : Waiting(c, x)
           /\ x \in Uncounted' <=> \E c \in Task : Waiting(c, x)'
<1>1. CountPc \subseteq CreatePc
    BY DEF CountPc, CreatePc
<1>2. x \in Uncounted <=> \E c \in Task : Waiting(c, x)
    BY <1>1 DEF Uncounted, Waiting, CountPc, ListInv, CreateOK, CreatorOK
<1>3. x \in Uncounted' <=> \E c \in Task : Waiting(c, x)'
    BY <1>1 DEF Uncounted, Waiting, CountPc, ListInv, CreateOK, CreatorOK
<1> QED BY <1>2, <1>3

(* A task in task_create goes on with it. *)
LEMMA CreateSteps ==
    ASSUME NEW t \in Task, AppCall(t) \/ KernelStep(t), pc[t] \in CreatePc
    PROVE  task_create_step(t)
<1>1. CASE AppCall(t)
    BY <1>1 DEF CreatePc, AppCall, task_yield, task_sleep, sched_lock, sched_unlock,
        trt_wait_q_block, trt_wait_q_block_ticks, trt_wait_q_wake_one, trt_wait_q_wake_all,
        task_delete, task_exit, task_create, Call, At
<1>2. CASE KernelStep(t)
    BY <1>2 DEF CreatePc, KernelStep, task_yield_step, yield_check, yield_link, mask_load,
        mask_store, arch_yield, sleep_loop, sleep_block, wait_return, wake_all_round,
        task_delete_found, idle_step, cleanup_pop, cleanup_free, idle_enable, At
<1> QED BY <1>1, <1>2

(* Only count_store counts. *)
LEMMA CountPlaces ==
    ASSUME TypeInv, ListInv, PlacesOK, NEW t \in Task, AppCall(t) \/ KernelStep(t), ~cleanup_free,
           \A p \in CreatePrio : ~task_create(t, p), ~count_store(t)
    PROVE  \A x : Waiting(t, x)' <=> Waiting(t, x)
<1>1. pc \in [Task -> Pc] /\ reg \in [Task -> Locals]
    BY DEF TypeInv, TypeOK
<1>2. pc'[t] \in CountPc => pc[t] \in CreatePc
    BY OwnPlaces DEF PlacesOK, CountPc, CreatePc
<1>3. CASE pc[t] \notin CreatePc
    BY <1>2, <1>3 DEF Waiting, CountPc, CreatePc
<1>4. CASE pc[t] \in CreatePc
    <2>1. task_create_step(t)
        BY <1>4, CreateSteps
    <2>2. CASE create_fail(t)
        <3>1. pc'[t] \notin CountPc
            BY <2>2, DeletionFacts DEF HoldPc, CountPc, CreatePc
        <3>2. pc[t] \notin CountPc
            BY <2>2 DEF create_fail, At, CountPc
        <3> QED BY <3>1, <3>2 DEF Waiting, CountPc
    <2>3. CASE create_handle(t) \/ create_set_handle(t)
        <3>1. pc'[t] \notin CountPc /\ pc[t] \notin CountPc
            BY <1>1, <2>3 DEF create_handle, create_set_handle, At, Goto, CountPc
        <3> QED BY <3>1 DEF Waiting, CountPc
    <2>4. CASE create_link(t) \/ count_load(t)
        <3>1. pc'[t] \in CountPc /\ pc[t] \in CountPc /\ reg'[t].obj = reg[t].obj
            BY <1>1, <2>4 DEF create_link, count_load, At, Goto, CountPc, Locals
        <3> QED BY <3>1 DEF Waiting
    <2>5. CASE mask_load(t, "c_load", "c_store") \/ mask_store(t, reg[t].obj, "c_store", "c_cload")
        <3>1. pc'[t] \in CountPc /\ pc[t] \in CountPc /\ reg'[t].obj = reg[t].obj
            BY <1>1, <2>5 DEF mask_load, mask_store, At, Goto, CountPc, Locals
        <3> QED BY <3>1 DEF Waiting
    <2> QED BY <2>1, <2>2, <2>3, <2>4, <2>5 DEF task_create_step
<1> QED BY <1>3, <1>4

(* What is counted depends on who is live and who waits. *)
LEMMA CountedKept ==
    ASSUME ListInv, ListInv',
           \A x \in Task : IsLive(x)' <=> IsLive(x),
           \A x \in Task : (\E c \in Task : Waiting(c, x)') <=> \E c \in Task : Waiting(c, x)
    PROVE  Counted' = Counted
<1>1. \A x \in Task : x \in Uncounted' <=> x \in Uncounted
    BY UncountedIs
<1> QED BY <1>1 DEF Counted

(* A step that neither creates nor deletes. *)
LEMMA SteadyCount ==
    ASSUME ListInv, ListInv', StatesKept(k, k'), k \in Scheduler, k' \in Scheduler,
           \A x \in Task : (\E c \in Task : Waiting(c, x)') <=> \E c \in Task : Waiting(c, x)
    PROVE  Counted' = Counted
<1>1. \A x \in Task : IsLive(x)' <=> IsLive(x)
    BY DEF StatesKept, LiveState, IsLive
<1> QED BY <1>1, CountedKept

(* A step of t that waits for nothing new. *)
LEMMA WaitingMoved ==
    ASSUME NEW t \in Task, Moves(t, pc'[t]), NEW x, Waiting(t, x)' <=> Waiting(t, x)
    PROVE  (\E c \in Task : Waiting(c, x)') <=> \E c \in Task : Waiting(c, x)
<1>1. \A c \in Task \ {t} : Waiting(c, x)' <=> Waiting(c, x)
    BY DEF Moves, Waiting
<1> QED BY <1>1

(* The new TCB is live, and not counted yet. *)
LEMMA CreateCount ==
    ASSUME TypeInv, TypeInv', ListInv, ListInv', AlwaysInv, NEW t \in Task, NEW p \in CreatePrio,
           task_create(t, p)
    PROVE  Counted' = Counted /\ task_count' = task_count
<1> DEFINE u == reg'[t].obj
<1>1. /\ pc[t] = "run" /\ pc'[t] = "c_link" /\ Moves(t, "c_link")
      /\ u \in Task /\ k.state[u] = "UNUSED" /\ task_count' = task_count
      /\ \A x \in Task : k'.state[x] = IF x = u THEN "READY" ELSE k.state[x]
    BY CreateFacts
<1>2. \A x : ~Waiting(t, x) /\ (Waiting(t, x)' <=> x = u)
    BY <1>1 DEF Waiting, CountPc
<1>3. \A c \in Task \ {t} : \A x : Waiting(c, x)' <=> Waiting(c, x)
    BY <1>1 DEF Moves, Waiting
<1> HIDE DEF u
<1>4. ASSUME NEW x \in Task PROVE x \in Counted' <=> x \in Counted
    <2>1. CASE x = u
        <3>1. x \in Uncounted'
            BY <1>2, <2>1, UncountedIs
        <3>2. ~IsLive(x)
            BY <1>1, <2>1 DEF IsLive
        <3> QED BY <3>1, <3>2 DEF Counted
    <2>2. CASE x # u
        <3>1. x \in Uncounted' <=> x \in Uncounted
            BY <1>2, <1>3, <2>2, UncountedIs
        <3>2. IsLive(x)' <=> IsLive(x)
            BY <1>1, <2>2 DEF IsLive
        <3> QED BY <3>1, <3>2 DEF Counted
    <2> QED BY <2>1, <2>2
<1> QED BY <1>1, <1>4 DEF Counted

(* task_count++ counts it, unless it overwrites a change. *)
LEMMA StoreCount ==
    ASSUME TypeInv, ListInv, ListInv', NEW t \in Task, count_store(t), fault' = {},
           IsFiniteSet(Counted), Cardinality(Counted) = task_count
    PROVE  IsFiniteSet(Counted') /\ Cardinality(Counted') = task_count'
<1>1. pc[t] = "c_cstore" /\ k' = k /\ task_count' = task_count + 1
    <2>1. /\ pc[t] = "c_cstore" /\ k' = k /\ task_count' = reg[t].count + 1
          /\ fault' = IF reg[t].count = task_count THEN fault ELSE fault \cup {"torn"}
        BY DEF count_store, At
    <2>2. reg[t].count = task_count
        BY <2>1
    <2> QED BY <2>1, <2>2
<1>2. Moves(t, "c_hnd") /\ pc'[t] = "c_hnd"
    <2>1. Goto(t, "c_hnd") /\ \E l : reg' = [reg EXCEPT ![t].count = l]
        BY DEF count_store
    <2>2. Moves(t, "c_hnd")
        BY <2>1, RegMoves
    <2> QED BY <2>2 DEF Moves
<1>3. PICK u \in Task : u = reg[t].obj /\ IsLive(u) /\ \A c \in Task : Waiting(c, u) => c = t
    BY <1>1 DEF ListInv, CreateOK, CreatorOK, CreatePc, Waiting, CountPc
<1>4. \A x : (Waiting(t, x) <=> x = u) /\ ~Waiting(t, x)'
    BY <1>1, <1>2, <1>3 DEF Waiting, CountPc
<1>5. \A c \in Task \ {t} : \A x : Waiting(c, x)' <=> Waiting(c, x)
    BY <1>2 DEF Moves, Waiting
<1>6. u \in Uncounted /\ u \notin Uncounted'
    BY <1>3, <1>4, <1>5, UncountedIs
<1>7. \A x \in Task \ {u} : x \in Uncounted' <=> x \in Uncounted
    BY <1>4, <1>5, UncountedIs
<1>8. \A x \in Task : IsLive(x)' <=> IsLive(x)
    BY <1>1 DEF IsLive
<1>9. Counted' = Counted \cup {u} /\ u \notin Counted
    BY <1>3, <1>6, <1>7, <1>8 DEF Counted
<1>10. task_count \in Nat
    BY DEF TypeInv, TypeOK
<1> QED BY <1>1, <1>9, <1>10, FS_AddElement

(* A task that is deleted outside a task_create was counted. *)
LEMMA DeleteCount ==
    ASSUME TypeInv, ListInv, ListInv', NEW t \in Task, fault' = {},
           task_delete_found(t) \/ task_exit(t) \/ create_fail(t),
           IsFiniteSet(Counted), Cardinality(Counted) = task_count
    PROVE  IsFiniteSet(Counted') /\ Cardinality(Counted') = task_count'
<1>1. PICK u \in Task : \/ Deleted(t, u)
                        \/ UNCHANGED <<k, task_count>>
    BY DeletionFacts
<1>2. Moves(t, pc'[t]) /\ pc'[t] \notin CountPc
    BY DeletionFacts DEF HoldPc, CountPc, CreatePc
<1>3. pc[t] \notin CountPc
    BY DEF task_delete_found, task_exit, create_fail, At, Call, CountPc
<1>4. \A x : ~Waiting(t, x) /\ ~Waiting(t, x)'
    BY <1>2, <1>3 DEF Waiting
<1>5. \A x \in Task : (\E c \in Task : Waiting(c, x)') <=> \E c \in Task : Waiting(c, x)
    BY <1>2, <1>4, WaitingMoved
<1>6. CASE UNCHANGED <<k, task_count>>
    <2>1. Counted' = Counted
        BY <1>5, <1>6, CountedKept DEF IsLive
    <2> QED BY <1>6, <2>1
<1>7. CASE Deleted(t, u)
    <2>1. /\ IsLive(u) /\ ~IsLive(u)' /\ \A x \in Task \ {u} : IsLive(x)' <=> IsLive(x)
          /\ ~Unpublished(t, u)
        BY <1>7 DEF Deleted, IsLive
    <2>2. ~\E c \in Task : Waiting(c, u)
        BY <1>4, <2>1 DEF Unpublished, Waiting, CountPc, CreatePc
    <2>3. u \in Counted
        BY <2>1, <2>2, UncountedIs DEF Counted
    <2>4. \A x \in Task : x \in Uncounted' <=> x \in Uncounted
        BY <1>5, UncountedIs
    <2>5. Counted' = Counted \ {u}
        BY <2>1, <2>4 DEF Counted
    <2>6. IsFiniteSet(Counted') /\ Cardinality(Counted') = task_count - 1
        BY <2>3, <2>5, FS_RemoveElement
    <2>7. Cardinality(Counted') \in Nat /\ task_count \in Nat
        BY <2>6, FS_CardinalityType DEF TypeInv, TypeOK
    <2>8. task_count' = IF task_count = 0 THEN 0 ELSE task_count - 1
        BY <1>7 DEF Deleted
    <2> QED BY <2>6, <2>7, <2>8
<1> QED BY <1>1, <1>6, <1>7

(* The TCB that is freed was not live. *)
LEMMA FreeCount ==
    ASSUME TypeInv, ListInv, ListInv', cleanup_free
    PROVE  Counted' = Counted /\ task_count' = task_count
<1> DEFINE u == reg[Idle].obj
<1>1. /\ u \in Task \ {Idle} /\ k.state[u] = "DELETED" /\ task_count' = task_count
      /\ \A x \in Task : k'.state[x] = IF x = u THEN "UNUSED" ELSE k.state[x]
      /\ pc'[Idle] = "i_clean" /\ pc'[u] = "run"
      /\ \A x \in Task \ {Idle, u} : pc'[x] = pc[x] /\ reg'[x] = reg[x]
    BY CleanupFacts
<1>2. pc[Idle] = "i_free" /\ pc[u] \notin CreatePc
    BY <1>1 DEF cleanup_free, At, ListInv, CreateOK, CreatorOK, IsLive
<1> HIDE DEF u
<1>3. \A c \in Task : \A x : Waiting(c, x)' <=> Waiting(c, x)
    <2>1. \A x : ~Waiting(Idle, x) /\ ~Waiting(Idle, x)' /\ ~Waiting(u, x)
        BY <1>1, <1>2 DEF Waiting, CountPc, CreatePc
    <2>2. ASSUME NEW c \in Task, NEW x PROVE Waiting(c, x)' <=> Waiting(c, x)
        <3>1. CASE c = u
            <4>1. pc'[c] = "run"
                BY <1>1, <3>1
            <4> QED BY <2>1, <3>1, <4>1 DEF Waiting, CountPc
        <3>2. CASE c = Idle
            BY <2>1, <3>2 DEF Waiting
        <3>3. CASE c # Idle /\ c # u
            BY <1>1, <3>3 DEF Waiting
        <3> QED BY <3>1, <3>2, <3>3
    <2> QED BY <2>2
<1>4. \A x \in Task : IsLive(x)' <=> IsLive(x)
    BY <1>1 DEF IsLive
<1> QED BY <1>1, <1>3, <1>4, CountedKept

(* While the kernel boots every live task is counted. *)
LEMMA BootCount ==
    ASSUME TypeInv, ListInv, ListInv', AlwaysInv, Boot,
           IsFiniteSet(Counted), Cardinality(Counted) = task_count
    PROVE  IsFiniteSet(Counted') /\ Cardinality(Counted') = task_count'
<1> USE DEF taskvars, history
<1>1. /\ k \in Scheduler /\ pc \in [Task -> Pc] /\ task_count \in Nat /\ ~k.started
      /\ Sound(k, Unlinked, BitUnderway)
    BY DEF TypeInv, TypeOK, Boot, kernel_init, app_main_create, app_main_object, rtos_start,
       ListInv, BootOK
<1>2. pc[Idle] \in IdlePc \cup {"run"} /\ \A x \in Task \ {Idle} : pc[x] = "run"
    <2>1. boot = "kernel_init" => k.state[Idle] = "UNUSED"
        BY SchedAssumption DEF ListInv, BootOK, sched_init
    <2>2. boot = "kernel_init" => pc[Idle] = "run"
        BY <2>1, SchedAssumption DEF AlwaysInv, UnusedAt
    <2> QED BY <1>1, <2>2 DEF ListInv, BootOK
<1>3. pc' = pc \/ pc' = [pc EXCEPT ![Idle] = "i_clean"]
    BY DEF Boot, kernel_init, app_main_create, app_main_object, rtos_start
<1>4. \A x : ~(\E c \in Task : Waiting(c, x)) /\ ~(\E c \in Task : Waiting(c, x)')
    BY <1>1, <1>2, <1>3 DEF Waiting, CountPc, IdlePc
<1>5. \A x \in Task : x \notin Uncounted /\ x \notin Uncounted'
    BY <1>4, UncountedIs
<1>6. \A x \in Task : (x \in Counted <=> IsLive(x)) /\ (x \in Counted' <=> IsLive(x)')
    BY <1>5 DEF Counted
<1>7. Counted \subseteq Task /\ Counted' \subseteq Task
    BY DEF Counted
<1>8. ASSUME NEW u \in Task, k.state[u] = "UNUSED", NEW p \in Prio,
             NEW s, s = sched_ready_enqueue(InitTcb(k, u, p), u)
      PROVE  s \in Scheduler /\ s.state[u] = "READY" /\ s.idle = k.idle
             /\ \A x \in Task \ {u} : s.state[x] = k.state[x]
    <2>1. s \in Scheduler /\ s.state[u] = "READY" /\ s.idle = k.idle
          /\ \A x \in Task \ {u} : SameTask(k, s, x)
        BY <1>1, <1>8, NewQueued
    <2> QED BY <2>1 DEF SameTask
<1>9. ASSUME NEW u \in Task, k.state[u] = "UNUSED", k'.state[u] = "READY",
             \A x \in Task \ {u} : k'.state[x] = k.state[x], task_count' = task_count + 1
      PROVE  IsFiniteSet(Counted') /\ Cardinality(Counted') = task_count'
    <2>1. u \notin Counted /\ u \in Counted' /\ \A x \in Task \ {u} : x \in Counted' <=> x \in Counted
        BY <1>6, <1>9 DEF IsLive
    <2>2. Counted' = Counted \cup {u}
        BY <1>7, <2>1
    <2> QED BY <1>1, <1>9, <2>1, <2>2, FS_AddElement
<1>10. ASSUME \A x \in Task : IsLive(x)' <=> IsLive(x), task_count' = task_count
       PROVE  IsFiniteSet(Counted') /\ Cardinality(Counted') = task_count'
    BY <1>6, <1>7, <1>10
<1>11. CASE kernel_init
    <2> DEFINE s == sched_ready_enqueue(InitTcb(k, Idle, 0), Idle)
    <2>1. /\ k' = [s EXCEPT !.idle = Idle] /\ task_count' = 1 /\ k = sched_init
        BY <1>11 DEF kernel_init, ListInv, BootOK
    <2>2. Idle \in Task /\ 0 \in Prio /\ \A x \in Task : k.state[x] = "UNUSED"
        BY <2>1, SchedAssumption DEF Prio, sched_init
    <2>3. s \in Scheduler /\ s.state[Idle] = "READY"
          /\ \A x \in Task \ {Idle} : s.state[x] = k.state[x]
        BY <1>8, <2>2
    <2> HIDE DEF s
    <2>4. k'.state = s.state
        BY <2>1, <2>3 DEF Scheduler
    <2>5. Counted = {}
        BY <1>6, <1>7, <2>2 DEF IsLive
    <2>6. task_count = 0
        BY <2>5, FS_EmptySet
    <2> QED BY <1>9, <2>1, <2>2, <2>3, <2>4, <2>6
<1>12. CASE app_main_object
    BY <1>10, <1>12 DEF app_main_object, IsLive
<1>13. CASE rtos_start
    <2> DEFINE s == sched_pick_next(k)
    <2>1. k' = [s EXCEPT !.started = TRUE] /\ boot = "app_main" /\ UNCHANGED taskvars
        BY <1>13 DEF rtos_start
    <2>2. /\ k.idle = Idle /\ k.state[Idle] \in {"READY", "RUNNING"} /\ Sound(k, {Idle}, {})
        BY <2>1, BeforeStart
    <2>3. s \in Scheduler /\ SwitchFrame(k, s)
        BY <1>1, <2>2, PickNextType, PickNextSound DEF Picked
    <2> HIDE DEF s
    <2>4. k'.state = s.state
        BY <2>1, <2>3 DEF Scheduler
    <2>5. \A x \in Task : IsLive(x)' <=> IsLive(x)
        BY <2>3, <2>4 DEF SwitchFrame, IsLive
    <2> QED BY <1>10, <2>1, <2>5
<1>14. ASSUME NEW p \in CreatePrio, app_main_create(p)
       PROVE  IsFiniteSet(Counted') /\ Cardinality(Counted') = task_count'
    <2>1. boot = "app_main" /\ p \in Prio
        BY <1>14, KernelAssumption DEF app_main_create
    <2>2. PICK u \in FreeSlots :
            \/ /\ k' = sched_ready_enqueue(InitTcb(k, u, p), u)
               /\ task_count' = task_count + 1
            \/ /\ k' = sched_mark_deleted(sched_ready_enqueue(InitTcb(k, u, p), u), u)
               /\ UNCHANGED taskvars
        BY <1>14 DEF app_main_create
    <2> DEFINE s == sched_ready_enqueue(InitTcb(k, u, p), u)
    <2>3. u \in Task \ {Idle} /\ k.state[u] = "UNUSED"
        BY DEF FreeSlots
    <2>4. /\ s \in Scheduler /\ s.state[u] = "READY" /\ s.idle = k.idle
          /\ \A x \in Task \ {u} : s.state[x] = k.state[x]
        BY <1>8, <2>1, <2>3
    <2>5. Sound(s, Unlinked, BitUnderway)
        BY <1>1, <2>1, <2>3, NewQueued
    <2> HIDE DEF s
    <2>6. CASE k' = s /\ task_count' = task_count + 1
        BY <1>9, <2>3, <2>4, <2>6
    <2>7. CASE k' = sched_mark_deleted(s, u) /\ UNCHANGED taskvars
        <3>1. u # s.idle
            BY <2>1, <2>3, <2>4, BeforeStart
        <3>2. k'.state[u] = "DELETED" /\ \A x \in Task \ {u} : SameTask(s, k', x)
            BY <2>3, <2>4, <2>5, <2>7, <3>1, MarkDeletedSound
        <3>3. \A x \in Task : IsLive(x)' <=> IsLive(x)
            BY <2>3, <2>4, <3>2 DEF SameTask, IsLive
        <3> QED BY <1>10, <2>7, <3>3
    <2> QED BY <2>2, <2>6, <2>7 DEF s
<1> QED BY <1>11, <1>12, <1>13, <1>14 DEF Boot

(* Every step counts. *)
LEMMA NextCount ==
    LifeInv /\ LifeInv' /\ CountOK /\ [Next]_vars => CountOK'
<1> SUFFICES ASSUME LifeInv, LifeInv', CountOK, [Next]_vars, fault' = {}
             PROVE  IsFiniteSet(Counted') /\ Cardinality(Counted') = task_count'
    BY DEF CountOK
<1>1. fault = {}
    BY FaultStays
<1>2. /\ TypeInv /\ TypeInv' /\ ListInv /\ ListInv' /\ AlwaysInv /\ PlacesOK
      /\ k \in Scheduler /\ k' \in Scheduler
    BY <1>1 DEF LifeInv, ListsOK, LifeOK, TypeInv, TypeOK
<1>3. IsFiniteSet(Counted) /\ Cardinality(Counted) = task_count
    BY <1>1 DEF CountOK
<1>5. CASE Boot
    BY <1>2, <1>3, <1>5, BootCount
<1>6. CASE Systick \/ Irq \/ TrapStep
    <2>1. /\ UNCHANGED <<reg, task_count>> /\ StatesKept(k, k')
          /\ \A x \in Task : pc'[x] = pc[x] \/ (pc[x] = "i_wfi" /\ pc'[x] = "i_clean")
        BY <1>2, <1>6, TrapFacts
    <2>2. \A c \in Task : \A x : Waiting(c, x)' <=> Waiting(c, x)
        BY <2>1 DEF Waiting, CountPc
    <2>3. \A x \in Task : (\E c \in Task : Waiting(c, x)') <=> \E c \in Task : Waiting(c, x)
        BY <2>2
    <2>4. Counted' = Counted
        BY <1>2, <2>1, <2>3, SteadyCount
    <2> QED BY <1>3, <2>1, <2>4
<1>7. ASSUME NEW t \in Task, AppCall(t) \/ KernelStep(t)
      PROVE  IsFiniteSet(Counted') /\ Cardinality(Counted') = task_count'
    <2>1. CASE task_delete_found(t) \/ task_exit(t) \/ create_fail(t)
        BY <1>2, <1>3, <2>1, DeleteCount
    <2>2. CASE cleanup_free
        BY <1>2, <1>3, <2>2, FreeCount
    <2>3. ASSUME NEW p \in CreatePrio, task_create(t, p)
          PROVE  IsFiniteSet(Counted') /\ Cardinality(Counted') = task_count'
        BY <1>2, <1>3, <2>3, CreateCount
    <2>4. CASE count_store(t)
        BY <1>2, <1>3, <2>4, StoreCount
    <2>5. CASE /\ ~task_delete_found(t) /\ ~task_exit(t) /\ ~create_fail(t) /\ ~cleanup_free
               /\ ~count_store(t) /\ \A p \in CreatePrio : ~task_create(t, p)
        <3>1. StatesKept(k, k') /\ Moves(t, pc'[t])
            BY <1>2, <1>7, <2>5, CallSteady, StepSteady, StepMoves DEF Steady
        <3>2. task_count' = task_count
            <4>1. CASE create_handle(t) \/ create_set_handle(t)
                BY <4>1 DEF create_handle, create_set_handle
            <4>2. CASE ~create_handle(t) /\ ~create_set_handle(t)
                BY <1>2, <1>7, <2>5, <4>2, CallSteady, StepSteady
            <4> QED BY <4>1, <4>2
        <3>3. \A x \in Task : Waiting(t, x)' <=> Waiting(t, x)
            BY <1>2, <1>7, <2>5, CountPlaces
        <3>4. \A x \in Task : (\E c \in Task : Waiting(c, x)') <=> \E c \in Task : Waiting(c, x)
            BY <3>1, <3>3, WaitingMoved
        <3>5. Counted' = Counted
            BY <1>2, <3>1, <3>4, SteadyCount
        <3> QED BY <1>3, <3>2, <3>5
    <2> QED BY <2>1, <2>2, <2>3, <2>4, <2>5
<1>8. CASE UNCHANGED vars
    <2>1. k' = k /\ pc' = pc /\ reg' = reg /\ task_count' = task_count
        BY <1>8 DEF vars
    <2>2. Counted' = Counted
        BY <2>1 DEF Counted, Uncounted, IsLive
    <2> QED BY <1>3, <2>1, <2>2
<1> QED BY <1>5, <1>6, <1>7, <1>8 DEF Next, CorruptLoop

(* task_count is the number of live tasks, those that task_create has not  *)
(* counted yet aside (task_create_kernel, task_delete_obj): also while a   *)
(* task_count++ waits for its store behind traps and other tasks, and      *)
(* after it, unless it overwrites a change made in between.                *)
THEOREM TasksAreCounted == Spec => []TaskCountExact
<1>1. Init => CountOK
    <2> SUFFICES ASSUME Init PROVE CountOK
        OBVIOUS
    <2>1. (\A c \in Task : pc[c] = "run" /\ k.state[c] = "UNUSED") /\ task_count = 0
        BY DEF Init, sched_init
    <2>2. Counted = {}
        BY <2>1 DEF Counted, IsLive
    <2> QED BY <2>1, <2>2, FS_EmptySet DEF CountOK
<1>2. CountOK => TaskCountExact
    BY DEF CountOK, TaskCountExact, Counted
<1>3. LifeInv /\ LifeInv' /\ CountOK /\ [Next]_vars => CountOK'
    BY NextCount
<1> QED BY <1>1, <1>2, <1>3, LifeCorrect, PTL DEF Spec

-----------------------------------------------------------------------------
(* The kernel below the objects. *)
BootLists == boot # "done" => ListInv

KernelInv == TypeInv /\ AlwaysInv /\ BootLists /\ CreatesOther

(* Before kernel_init. *)
LEMMA InitKernel == Init => KernelInv
<1>2. Init => CreatesOther
    BY DEF Init, CreatesOther, CreatePc
<1> QED BY <1>2, InitType, InitAlways, InitLists DEF KernelInv, BootLists

(* What it means for the steps of its own. *)
LEMMA KernelNext == KernelInv /\ [Next]_vars => KernelInv'
<1> SUFFICES ASSUME KernelInv, [Next]_vars PROVE KernelInv'
    OBVIOUS
<1> USE DEF KernelInv
<1>1. TypeInv' /\ CreatesOther'
    BY NextType, CreatesOtherStep
<1>2. CASE boot # "done"
    <2>1. fault = {} /\ ListsOK
        BY <1>2 DEF AlwaysInv, EarlyOK, BootLists, ListsOK
    <2>2. AlwaysInv' /\ ListsOK'
        BY <1>1, <2>1, NextAlways, NextLists
    <2> QED BY <1>1, <2>2 DEF AlwaysInv, EarlyOK, BootLists, ListsOK
<1>3. CASE boot = "done"
    <2>1. ~Boot
        BY <1>3 DEF Boot, kernel_init, app_main_create, app_main_object, rtos_start
    <2>2. AlwaysInv'
        BY <2>1, RunAlways
    <2>3. boot' = "done"
        <3>1. CASE UNCHANGED vars
            BY <1>3, <3>1 DEF vars
        <3>2. ASSUME NEW t \in Task, AppCall(t) \/ KernelStep(t) PROVE boot' = boot
            <4>2. CASE AppCall(t)
                BY <4>2 DEF AppCall, task_yield, task_sleep, sched_lock, sched_unlock,
                    trt_wait_q_block, trt_wait_q_block_ticks, trt_wait_q_wake_one,
                    trt_wait_q_wake_all, task_delete, task_exit, task_create
            <4>3. CASE KernelStep(t)
                BY <4>3 DEF KernelStep, task_yield_step, yield_check, yield_link, mask_load,
                    mask_store, arch_yield, sleep_loop, sleep_block, wait_return,
                    wake_all_round, task_delete_found, task_create_step, create_link,
                    count_load, count_store, create_handle, create_set_handle, create_fail,
                    idle_step, cleanup_pop, cleanup_free, idle_enable
            <4> QED BY <3>2, <4>2, <4>3
        <3>3. CASE Systick \/ Irq \/ TrapStep \/ CorruptLoop
            BY <1>3, <3>3 DEF Systick, SysTick, Irq, TrapStep, sched_wake_expired, TrapReturn,
                CorruptLoop, vars
        <3> QED BY <1>3, <2>1, <3>1, <3>2, <3>3 DEF Next
    <2> QED BY <1>1, <2>2, <2>3 DEF BootLists
<1> QED BY <1>2, <1>3

-----------------------------------------------------------------------------
(* What an operation of an object does to the kernel when its caller t      *)
(* keeps the CPU: it may ask for a reschedule or wake a waiter, and goes   *)
(* on at p.                                                                *)
Wakes == k' = k \/ k' = sched_set_pending(k)
            \/ \E q \in WaitQ, result \in WaitResult \ {"NONE"} :
                  k' = trt_wait_q_wake_one_result_locked(k, q, result)

OnwardPc == {"run", "o_op", "o_crit", "o_wake", "o_close", "o_free", "y_chk"}

Onward(t, p) ==
    /\ Runs(t) /\ t # Idle
    /\ pc[t] \in ObjectPc \cup {"run"}
    /\ Goto(t, p) \/ (p = pc[t] /\ UNCHANGED pc)
    /\ ret' = IF p = "y_chk" THEN [ret EXCEPT ![t] = "run"] ELSE ret
    /\ Wakes
    /\ UNCHANGED <<tick, trap, boot, reg, taskvars, left, owed>>
    /\ fault' \in {fault, fault \cup {"uaf"}}

(* What the scheduler does then. *)
LEMMA WakesTame ==
    ASSUME k \in Scheduler, Orderly(k), Wakes
    PROVE  /\ k' \in Scheduler
           /\ Orderly(k')
           /\ Frame(k, k')
           /\ \A x \in Task : Tame(k, k', x)
           /\ \A x \in Task : k.state[x] # "BLOCKED" => k'.state[x] = k.state[x]
           /\ \A w \in WaitQ : k'.wq[w] # <<>> => k.wq[w] # <<>>
<1>1. CASE k' = k \/ k' = sched_set_pending(k)
    <2>1. ASSUME k' = k
          PROVE  k' \in Scheduler /\ Quiet(k, k') /\ Frame(k, k')
        BY <2>1 DEF Quiet, Frame
    <2>2. ASSUME k' = sched_set_pending(k)
          PROVE  k' \in Scheduler /\ Quiet(k, k') /\ Frame(k, k')
        <3>1. k' \in Scheduler
            BY <2>2 DEF sched_set_pending, Scheduler
        <3>2. Quiet(k, k') /\ Frame(k, k')
            BY <2>2 DEF sched_set_pending, Scheduler, Quiet, Frame
        <3> QED BY <3>1, <3>2
    <2>3. k' \in Scheduler /\ Quiet(k, k') /\ Frame(k, k')
        BY <1>1, <2>1, <2>2
    <2> QED BY <2>3, QuietTame DEF Quiet
<1>2. ASSUME NEW q \in WaitQ, NEW result \in WaitResult \ {"NONE"},
             k' = trt_wait_q_wake_one_result_locked(k, q, result)
      PROVE  /\ k' \in Scheduler
             /\ Orderly(k')
             /\ Frame(k, k')
             /\ \A x \in Task : Tame(k, k', x)
             /\ \A x \in Task : k.state[x] # "BLOCKED" => k'.state[x] = k.state[x]
             /\ \A w \in WaitQ : k'.wq[w] # <<>> => k.wq[w] # <<>>
    BY <1>2, WaitQueueType, WakeOrderly
<1> QED BY <1>1, <1>2 DEF Wakes

(* The kernel below a call that keeps the CPU. *)
LEMMA OnwardKernel ==
    ASSUME KernelInv, NEW t \in Task, NEW p \in OnwardPc, Onward(t, p)
    PROVE  KernelInv'
<1> USE DEF taskvars, KernelInv
<1>1. /\ k \in Scheduler /\ Orderly(k) /\ boot = "done" /\ boot' = boot /\ trap = "none"
      /\ RunsAt(t) /\ LockedAt(t) /\ Runs(t) /\ t # Idle
    BY AlwaysFacts DEF Onward
<1>2. k.state[t] = "RUNNING"
    <2>1. pc[t] \notin LinkPc \cup {"y_chk", "ecall"}
        BY DEF Onward, ObjectPc, LinkPc
    <2> QED BY <1>1, <2>1 DEF RunsAt
<1>3. reg' = reg /\ Moves(t, p)
    BY RegMoves DEF Onward
<1>4. (\A x \in Task \ {t} : ret'[x] = ret[x]) /\ ret' \in [Task -> RetPc]
      /\ (p = "y_chk" => ret'[t] = "run")
    BY DEF Onward, TypeInv, TypeOK, RetPc
<1>5. /\ k' \in Scheduler /\ Orderly(k') /\ Frame(k, k') /\ k'.state[t] = "RUNNING"
      /\ \A x \in Task : Tame(k, k', x)
    BY <1>1, <1>2, WakesTame DEF Onward
<1>6. AlwaysInv'
    <2>1. /\ p \in YieldPc => ret'[t] # "wq_ret"
          /\ p # "wq_ret" /\ p \notin LinkPc \cup {"sl_loop", "sl_crit"}
          /\ p \in {"y_chk", "ecall"} => ret'[t] # "sl_loop"
        BY <1>4 DEF OnwardPc, YieldPc, LinkPc
    <2>2. k.state[t] # "DELETED"
        BY <1>2
    <2>3. k'.current = k.current /\ k'.idle = k.idle /\ k'.started = k.started
        BY <1>5 DEF Frame
    <2>4. Advances
        BY <1>1, <1>3, <1>4, <1>5, <2>1, <2>2, <2>3, RunningTame
    <2> QED BY <2>4 DEF Advances
<1>7. TypeInv'
    <2>1. pc' \in [Task -> Pc] /\ LocalsOK'
        <3>1. CASE Goto(t, p)
            <4>1. p \in PlainPc
                BY DEF OnwardPc, PlainPc, Pc, ObjectPc, YieldPc, CreatePc
            <4> QED BY <1>3, <3>1, <4>1, PlainGotoType
        <3>2. CASE UNCHANGED pc
            BY <1>3, <3>2 DEF TypeInv, TypeOK, LocalsOK
        <3> QED BY <3>1, <3>2 DEF Onward
    <2>2. fault' \in SUBSET {"torn", "orphan", "uaf"}
        BY DEF Onward, TypeInv, TypeOK
    <2>3. /\ tick' = tick /\ trap' = trap /\ boot' = boot /\ reg' = reg /\ task_count' = task_count
          /\ hnd' = hnd /\ htab' = htab /\ left' = left /\ owed' = owed
        BY DEF Onward
    <2> QED BY <1>4, <1>5, <2>1, <2>2, <2>3 DEF TypeInv, TypeOK
<1>8. CreatesOther'
    <2>1. p \notin CreatePc
        BY DEF OnwardPc, CreatePc
    <2> QED BY <1>3, <2>1, OtherCreates DEF Moves
<1> QED BY <1>1, <1>6, <1>7, <1>8 DEF BootLists

-----------------------------------------------------------------------------
(* An interrupt handler, or a callback of the trap handler, may wake a task. *)
InTrap ==
    \/ Interrupted /\ trap' = "irq"
    \/ trap # "none" /\ UNCHANGED <<trap, pc, fault>>

HandlerWakes ==
    /\ InTrap
    /\ \/ k' = k \/ k' = sched_set_pending(k)
       \/ \E q \in WaitQ : k' = trt_wait_q_wake_one_from_isr(k, q)
    /\ UNCHANGED <<tick, boot, ret, reg, taskvars, left, owed>>

(* An interrupt handler that wakes a waiter leaves the caller where it is. *)
LEMMA HandlerFacts ==
    ASSUME KernelInv, HandlerWakes
    PROVE  /\ k' \in Scheduler /\ Orderly(k') /\ Frame(k, k') /\ \A x \in Task : Tame(k, k', x)
           /\ \A x \in Task : k.state[x] # "BLOCKED" => k'.state[x] = k.state[x]
           /\ \A w \in WaitQ : k'.wq[w] # <<>> => k.wq[w] # <<>>
           /\ k.started /\ boot = "done"
           /\ \A x \in Task : pc'[x] = pc[x] \/ (pc[x] = "i_wfi" /\ pc'[x] = "i_clean")
<1> USE DEF KernelInv
<1>1. k \in Scheduler /\ Orderly(k)
    BY DEF TypeInv, TypeOK, AlwaysInv
<1>2. k.started /\ boot = "done"
    BY DEF HandlerWakes, InTrap, Interrupted, CanInterrupt, AlwaysInv, BootOK
<1>3. \A x \in Task : pc'[x] = pc[x] \/ (pc[x] = "i_wfi" /\ pc'[x] = "i_clean")
    BY DEF HandlerWakes, InTrap, Interrupted, TypeInv, TypeOK
<1>4. CASE k' = k \/ k' = sched_set_pending(k)
    BY <1>1, <1>2, <1>3, <1>4, WakesTame DEF Wakes
<1>5. ASSUME NEW q \in WaitQ, k' = trt_wait_q_wake_one_from_isr(k, q)
      PROVE  /\ k' \in Scheduler /\ Orderly(k') /\ Frame(k, k') /\ \A x \in Task : Tame(k, k', x)
             /\ \A x \in Task : k.state[x] # "BLOCKED" => k'.state[x] = k.state[x]
             /\ \A w \in WaitQ : k'.wq[w] # <<>> => k.wq[w] # <<>>
    <2>1. "OBJECT" \in WaitResult \ {"NONE"}
        BY DEF WaitResult
    <2>2. k' \in Scheduler
        BY <1>1, <1>5, WaitQueueType
    <2>3. /\ Orderly(k') /\ Frame(k, k') /\ \A x \in Task : Tame(k, k', x)
          /\ \A x \in Task : k.state[x] # "BLOCKED" => k'.state[x] = k.state[x]
          /\ \A w \in WaitQ : k'.wq[w] = IF w = q /\ k.wq[q] # <<>> THEN Tail(k.wq[w]) ELSE k.wq[w]
        BY <1>1, <1>5, <2>1, WakeOrderly
    <2>4. \A w \in WaitQ : k'.wq[w] # <<>> => k.wq[w] # <<>>
        BY <2>3
    <2> QED BY <2>2, <2>3, <2>4
<1> QED BY <1>2, <1>3, <1>4, <1>5 DEF HandlerWakes

(* The kernel below a call from an interrupt handler. *)
LEMMA HandlerKernel ==
    ASSUME KernelInv, HandlerWakes
    PROVE  KernelInv'
<1> USE DEF taskvars, KernelInv
<1>1. /\ k' \in Scheduler /\ Orderly(k') /\ Frame(k, k') /\ \A x \in Task : Tame(k, k', x)
      /\ \A x \in Task : k.state[x] # "BLOCKED" => k'.state[x] = k.state[x]
      /\ k.started /\ boot = "done"
      /\ \A x \in Task : pc'[x] = pc[x] \/ (pc[x] = "i_wfi" /\ pc'[x] = "i_clean")
    BY HandlerFacts
<1>2. /\ pc' = pc \/ (pc[k.current] = "i_wfi" /\ pc' = [pc EXCEPT ![k.current] = "i_clean"])
      /\ fault' \in {fault, fault \cup {"torn"}}
      /\ trap' # "none" /\ trap' \in {trap, "irq"}
      /\ boot' = boot /\ reg' = reg /\ ret' = ret /\ tick' = tick
      /\ task_count' = task_count /\ hnd' = hnd /\ htab' = htab /\ left' = left /\ owed' = owed
    BY DEF HandlerWakes, InTrap, Interrupted
<1>3. AlwaysInv'
    <2>1. Advances
        BY <1>1, <1>2, TrapAlways
    <2> QED BY <2>1 DEF Advances
<1>4. TypeInv'
    <2>1. pc' \in [Task -> Pc]
        BY <1>2 DEF TypeInv, TypeOK, Pc, IdlePc
    <2>2. LocalsOK'
        BY <1>1, <1>2 DEF TypeInv, LocalsOK, CreatePc
    <2>3. fault' \in SUBSET {"torn", "orphan", "uaf"}
        BY <1>2 DEF TypeInv, TypeOK
    <2> QED BY <1>1, <1>2, <2>1, <2>2, <2>3 DEF TypeInv, TypeOK
<1>5. CreatesOther'
    BY <1>1, <1>2 DEF CreatesOther, CreatePc
<1> QED BY <1>1, <1>2, <1>3, <1>4, <1>5 DEF BootLists

=============================================================================
