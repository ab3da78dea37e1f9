----------------------------- MODULE Semaphore -----------------------------
(***************************************************************************)
(* src/kernel/semaphore.c: counting semaphores used through handles by the *)
(* tasks and interrupt handlers of Kernel.                                 *)
(***************************************************************************)
EXTENDS KObject

CONSTANTS SemMax, SemCnt        \* arguments max and cnt of trt_sem_create

(* Calls: "wait", "timedwait", "trywait", "post", "isr_post", "destroy". *)
(* wait_queue.h is no part of the API: only the objects block and wake.    *)
(* The TCBs are blocks of a finite heap.                                   *)
ASSUME SemAssumption ==
    /\ IsFiniteSet(Task)
    /\ SemMax \subseteq Int
    /\ SemCnt \subseteq Int
    /\ \A o \in Obj : Len(Queues[o]) >= 1
    /\ Calls \cap {"wait", "timedwait", "wake"} = {}

VARIABLES
    sem,        \* count and limit of each semaphore
    balance     \* history: initial count + posts accepted - waits that succeeded

semvars == <<objvars, sem, balance>>

SemTypeOK ==
    /\ ObjTypeOK
    /\ sem \in [Obj -> [cnt : Nat, max : Int]]
    /\ balance \in [Obj -> Int]

SemInit ==
    /\ ObjInit
    /\ sem = [o \in Obj |-> [cnt |-> 0, max |-> 0]]
    /\ balance = [o \in Obj |-> 0]

-----------------------------------------------------------------------------
sem_init_obj(max, cnt) ==
    [cnt |-> IF cnt < 0 THEN 0 ELSE cnt, max |-> IF max < cnt THEN cnt ELSE max]

trt_sem_create(o, max, cnt) ==
    /\ Create(o)
    /\ sem' = [sem EXCEPT ![o] = sem_init_obj(max, cnt)]
    /\ balance' = [balance EXCEPT ![o] = sem_init_obj(max, cnt).cnt]

sem_lookup(t, o, op, d) ==
    /\ Lookup(t, o, op, d)
    /\ UNCHANGED <<sem, balance>>

(* The object is freed or destroyed when the call gets to it. *)
sem_gone(t) ==
    /\ OperateFreed(t) \/ \E o \in Obj : OperateGone(t, o)
    /\ UNCHANGED <<sem, balance>>

(* MUTANT: the count goes up although a waiter got the token. *)
post_counts_and_wakes(o, woken, counted) ==
    /\ k' = IF k.wq[waiters(o)] # <<>> THEN woken ELSE counted
    /\ sem' = [sem EXCEPT ![o].cnt = IF @ = sem[o].max THEN @ ELSE @ + 1]
    /\ balance' = [balance EXCEPT ![o] = @ + 1]

(* sem_post_obj and sem_post_from_isr_obj differ in how they wake and      *)
(* whether they ask for a reschedule: a waiter gets the token directly, or *)
(* the count goes up unless it is at its limit (ERR_BUSY).                 *)
SemPosted(o, woken, counted) ==
    IF k.wq[waiters(o)] # <<>>
    THEN /\ k' = woken
         /\ balance' = [balance EXCEPT ![o] = @ + 1]
         /\ UNCHANGED sem
    ELSE IF sem[o].cnt = sem[o].max
         THEN UNCHANGED <<k, sem, balance>>
         ELSE /\ sem' = [sem EXCEPT ![o].cnt = @ + 1]
              /\ balance' = [balance EXCEPT ![o] = @ + 1]
              /\ k' = counted

sem_post_obj(t, o) ==
    /\ Operates(t, o, {"post"})
    /\ Usable(o)
    /\ SemPosted(o, trt_wait_q_wake_one_locked(k, waiters(o)), k)
    /\ Return(t)
    /\ UNCHANGED <<tick, trap, boot, ret, reg, taskvars, history, obj>>

(* An interrupt handler looks the handle up and posts, with interrupts off. *)
trt_sem_post_from_isr(o) ==
    /\ "isr_post" \in ObjOps
    /\ obj[o].open
    /\ Usable(o)
    /\ Interrupted
    /\ trap' = "irq"
    /\ SemPosted(o, trt_wait_q_wake_one_from_isr(k, waiters(o)), sched_set_pending(k))
    /\ UNCHANGED <<tick, boot, ret, reg, taskvars, left, owed, objvars>>

(* MUTANT: the count is not compared with 0 first. *)
take_unchecked(t, o) ==
    /\ Operates(t, o, {"wait", "timedwait", "trywait"})
    /\ Usable(o)
    /\ sem' = [sem EXCEPT ![o].cnt = @ - 1]
    /\ balance' = [balance EXCEPT ![o] = @ - 1]
    /\ ReturnUnchanged(t)

(* sem_wait_obj, sem_wait_timeout_obj, sem_trywait_obj: a token is there. *)
sem_take(t, o) ==
    /\ Operates(t, o, {"wait", "timedwait", "trywait"})
    /\ Usable(o)
    /\ sem[o].cnt > 0
    /\ sem' = [sem EXCEPT ![o].cnt = @ - 1]
    /\ balance' = [balance EXCEPT ![o] = @ - 1]
    /\ ReturnUnchanged(t)

(* sem_trywait_obj: ERR_BUSY. *)
sem_trywait_busy(t, o) ==
    /\ Operates(t, o, {"trywait"})
    /\ Usable(o)
    /\ sem[o].cnt = 0
    /\ ReturnUnchanged(t)
    /\ UNCHANGED <<sem, balance>>

(* The waits return ERR_LOCKED if the scheduler is locked, and a zero      *)
(* timeout ERR_TIMEOUT.                                                    *)
sem_wait_refused(t, o) ==
    /\ Operates(t, o, {"wait", "timedwait"})
    /\ Usable(o)
    /\ sem[o].cnt <= 0
    /\ \/ sched_is_locked(k) /\ k' = sched_set_pending(k)
       \/ ~sched_is_locked(k) /\ call[t].op = "timedwait" /\ call[t].d = 0 /\ UNCHANGED k
    /\ Return(t)
    /\ UNCHANGED <<tick, trap, boot, ret, reg, taskvars, history, obj, sem, balance>>

(* MUTANT: the task blocks although a token is there. *)
block_beside_token(t, o) ==
    /\ Operates(t, o, {"wait"})
    /\ Usable(o)
    /\ ~sched_is_locked(k)
    /\ BlockOn(t, waiters(o), FALSE)
    /\ UNCHANGED <<sem, balance>>

sem_block(t, o) ==
    /\ Operates(t, o, {"wait", "timedwait"})
    /\ Usable(o)
    /\ sem[o].cnt <= 0
    /\ ~sched_is_locked(k)
    /\ call[t].op = "timedwait" => call[t].d > 0
    /\ BlockOn(t, waiters(o), call[t].op = "timedwait")
    /\ UNCHANGED <<sem, balance>>

(* After task_yield the result is read from the TCB, not from the object:  *)
(* ERR_OK exactly if a post granted the token.                             *)
sem_wait_return(t) ==
    /\ At(t, "o_ret")
    /\ balance' = IF k.wres[t] = "OBJECT" /\ call[t].o # None
                  THEN [balance EXCEPT ![call[t].o] = @ - 1]
                  ELSE balance
    /\ ReturnUnchanged(t)
    /\ UNCHANGED sem

(* MUTANT: the waiters are not woken. *)
destroy_forgets_waiters(t, o) ==
    /\ Operates(t, o, {"destroy"})
    /\ Usable(o)
    /\ obj' = [obj EXCEPT ![o].destroyed = TRUE]
    /\ sem' = [sem EXCEPT ![o].cnt = 0]
    /\ Goto(t, "o_close")
    /\ UNCHANGED <<k, tick, trap, boot, ret, reg, taskvars, history, call, balance>>

sem_destroy_obj(t, o) ==
    /\ Destroy(t, o)
    /\ sem' = [sem EXCEPT ![o].cnt = 0]
    /\ UNCHANGED balance

(* The rest of trt_sem_destroy. *)
trt_sem_destroy(t) ==
    /\ WakeDestroyed(t) \/ Close(t) \/ Free(t)
    /\ UNCHANGED <<sem, balance>>

-----------------------------------------------------------------------------
SemCall(t) ==
    \E o \in Obj : \/ \E op \in ObjOps \ {"timedwait", "isr_post"} : sem_lookup(t, o, op, 0)
                   \/ \E d \in Delays : sem_lookup(t, o, "timedwait", d)

SemStep(t) ==
    \/ \E o \in Obj :
          \/ sem_post_obj(t, o)
          \/ sem_take(t, o)
          \/ sem_trywait_busy(t, o)
          \/ sem_wait_refused(t, o)
          \/ sem_block(t, o)
          \/ sem_destroy_obj(t, o)
    \/ sem_gone(t)
    \/ sem_wait_return(t)
    \/ trt_sem_destroy(t)

SemIrq == \E o \in Obj : trt_sem_post_from_isr(o)

SemCreate == \E o \in Obj, max \in SemMax, cnt \in SemCnt : trt_sem_create(o, max, cnt)

SemNext ==
    \/ Next /\ UNCHANGED semvars
    \/ SemCreate
    \/ \E t \in Task : SemCall(t) \/ SemStep(t)
    \/ SemIrq

SemSpec == SemInit /\ [][SemNext]_<<vars, semvars>>

-----------------------------------------------------------------------------
(* A post never leaves a token behind for a waiter that sleeps: while      *)
(* tasks wait on a semaphore its count is 0, whatever posts, timeouts and  *)
(* interrupt handlers raced with them.                                     *)
NoWaiterBesideToken ==
    \A o \in Obj : k.wq[waiters(o)] # <<>> => sem[o].cnt = 0

(* Tokens are neither lost nor made up: initial count plus accepted posts, *)
(* less the waits that returned ERR_OK, is what the count says and what is *)
(* on its way to woken waiters; a timeout that races a post gets one or    *)
(* the other, never both; and the count stays within the limit             *)
(* trt_sem_create was asked for.                                           *)
TokensConserved ==
    \A o \in Obj : Usable(o) =>
        /\ balance[o] = sem[o].cnt + Cardinality({t \in Task : Granted(t, o)})
        /\ sem[o].cnt <= sem[o].max

=============================================================================
