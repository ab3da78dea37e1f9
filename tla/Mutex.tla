------------------------------- MODULE Mutex -------------------------------
(***************************************************************************)
(* src/kernel/mutex.c: recursive mutexes.  Unlocking hands the mutex over  *)
(* to the first waiter, which owns it before it runs again.                *)
(***************************************************************************)
EXTENDS KObject

CONSTANT MaxNest        \* bound: how often an owner locks its mutex again

(* Calls: "lock", "timedlock", "trylock", "unlock", "destroy". *)
(* wait_queue.h is no part of the API: only the objects block and wake.   *)
ASSUME MutexAssumption ==
    /\ MaxNest \in Nat \ {0}
    /\ \A o \in Obj : Len(Queues[o]) >= 1
    /\ Calls \cap {"wait", "timedwait", "wake"} = {}

VARIABLES
    mutex,      \* owner and lock_count of each mutex
    held        \* history: locks that returned ERR_OK less unlocks that did,
                \* per task, since the mutex was created

mutexvars == <<objvars, mutex, held>>

MutexTypeOK ==
    /\ ObjTypeOK
    /\ mutex \in [Obj -> [owner : Task \cup {None}, lock_count : Nat]]
    /\ held \in [Obj -> [Task -> Nat]]

mutex_init_obj == [owner |-> None, lock_count |-> 0]

NobodyHolds == [t \in Task |-> 0]

MutexInit ==
    /\ ObjInit
    /\ mutex = [o \in Obj |-> mutex_init_obj]
    /\ held = [o \in Obj |-> NobodyHolds]

-----------------------------------------------------------------------------
trt_mutex_create(o) ==
    /\ Create(o)
    /\ mutex' = [mutex EXCEPT ![o] = mutex_init_obj]
    /\ UNCHANGED held

mutex_lookup(t, o, op, d) ==
    /\ Lookup(t, o, op, d)
    /\ UNCHANGED <<mutex, held>>

(* The object is freed or destroyed when the call gets to it. *)
mutex_gone(t) ==
    /\ OperateFreed(t) \/ \E o \in Obj : OperateGone(t, o)
    /\ UNCHANGED <<mutex, held>>

(* mutex_lock_obj, mutex_lock_timeout_obj, mutex_trylock_obj: the mutex is *)
(* free, or the caller owns it.                                            *)
mutex_take(t, o) ==
    /\ Operates(t, o, {"lock", "timedlock", "trylock"})
    /\ Usable(o)
    /\ \/ /\ mutex[o].owner = None
          /\ mutex' = [mutex EXCEPT ![o] = [owner |-> t, lock_count |-> 1]]
       \/ /\ mutex[o].owner = t
          /\ mutex[o].lock_count < MaxNest
          /\ mutex' = [mutex EXCEPT ![o].lock_count = @ + 1]
    /\ held' = [held EXCEPT ![o][t] = @ + 1]
    /\ ReturnUnchanged(t)

OwnedByOther(t, o) == mutex[o].owner \notin {None, t}

(* ERR_BUSY *)
mutex_trylock_busy(t, o) ==
    /\ Operates(t, o, {"trylock"})
    /\ Usable(o)
    /\ OwnedByOther(t, o)
    /\ ReturnUnchanged(t)
    /\ UNCHANGED <<mutex, held>>

(* A zero timeout returns ERR_TIMEOUT, before the wait queue refuses to    *)
(* block because the scheduler is locked.                                  *)
mutex_lock_refused(t, o) ==
    LET zero == call[t].op = "timedlock" /\ call[t].d = 0
    IN /\ Operates(t, o, {"lock", "timedlock"})
       /\ Usable(o)
       /\ OwnedByOther(t, o)
       /\ zero \/ sched_is_locked(k)
       /\ k' = IF zero THEN k ELSE sched_set_pending(k)
       /\ Return(t)
       /\ UNCHANGED <<tick, trap, boot, ret, reg, taskvars, history, obj, mutex, held>>

mutex_block(t, o) ==
    /\ Operates(t, o, {"lock", "timedlock"})
    /\ Usable(o)
    /\ OwnedByOther(t, o)
    /\ ~sched_is_locked(k)
    /\ call[t].op = "timedlock" => call[t].d > 0
    /\ BlockOn(t, waiters(o), call[t].op = "timedlock")
    /\ UNCHANGED <<mutex, held>>

(* Whether the call reads the mutex after the wait: mutex_lock_obj unless  *)
(* it was destroyed, mutex_lock_timeout_obj only if it was handed over.    *)
ReadsOwner(t) ==
    \/ k.wres[t] = "OBJECT"
    \/ call[t].op = "lock" /\ k.wres[t] # "DESTROYED"

(* MUTANT: a timed lock whose time is up returns ERR_TIMEOUT although the  *)
(* mutex was handed over in time.                                          *)
return_by_the_clock(t) ==
    LET o == call[t].o
        late == call[t].op = "timedlock" /\ timer_expired(tick, k.wakeup[t])
    IN /\ At(t, "o_ret")
       /\ o # None
       /\ held' = IF ~late /\ ReadsOwner(t) THEN [held EXCEPT ![o][t] = 1] ELSE held
       /\ ReturnUnchanged(t)
       /\ UNCHANGED mutex

(* ERR_OK if the caller is the owner. *)
mutex_lock_return(t) ==
    LET o == call[t].o
    IN /\ At(t, "o_ret")
       /\ IF ReadsOwner(t) /\ o = None
          THEN UseFreed(t) /\ UNCHANGED held
          ELSE /\ held' = IF ReadsOwner(t) /\ mutex[o].owner = t
                          THEN [held EXCEPT ![o][t] = @ + 1]
                          ELSE held
               /\ ReturnUnchanged(t)
       /\ UNCHANGED mutex

(* MUTANT: one unlock undoes all locks. *)
unlock_all_at_once(t, o) ==
    /\ Operates(t, o, {"unlock"})
    /\ Usable(o)
    /\ mutex[o].owner = t
    /\ mutex' = [mutex EXCEPT ![o] =
                    IF k.wq[waiters(o)] = <<>>
                    THEN mutex_init_obj
                    ELSE [owner |-> Head(k.wq[waiters(o)]), lock_count |-> 1]]
    /\ k' = trt_wait_q_wake_one_locked(k, waiters(o))
    /\ held' = [held EXCEPT ![o][t] = @ - 1]
    /\ Return(t)
    /\ UNCHANGED <<tick, trap, boot, ret, reg, taskvars, history, obj>>

(* MUTANT: the last unlock frees the mutex and wakes nobody. *)
unlock_without_wake(t, o) ==
    /\ Operates(t, o, {"unlock"})
    /\ Usable(o)
    /\ mutex[o].owner = t
    /\ mutex[o].lock_count = 1
    /\ mutex' = [mutex EXCEPT ![o] = mutex_init_obj]
    /\ held' = [held EXCEPT ![o][t] = @ - 1]
    /\ ReturnUnchanged(t)

(* MUTANT: lock_count goes below zero. *)
unlock_unowned(t, o) ==
    /\ Operates(t, o, {"unlock"})
    /\ Usable(o)
    /\ mutex' = [mutex EXCEPT ![o].lock_count = @ - 1]
    /\ UNCHANGED held
    /\ ReturnUnchanged(t)

(* mutex_unlock_obj by the owner *)
mutex_unlock_obj(t, o) ==
    LET q == waiters(o)
        last == mutex[o].lock_count = 1
    IN /\ Operates(t, o, {"unlock"})
       /\ Usable(o)
       /\ mutex[o].owner = t
       /\ mutex[o].lock_count # 0
       /\ k' = IF last THEN trt_wait_q_wake_one_locked(k, q) ELSE k
       /\ mutex' = [mutex EXCEPT ![o] =
                       IF ~last
                       THEN [owner |-> t, lock_count |-> @.lock_count - 1]
                       ELSE IF k.wq[q] # <<>>
                            THEN [owner |-> Head(k.wq[q]), lock_count |-> 1]
                            ELSE mutex_init_obj]
       /\ held' = [held EXCEPT ![o][t] = @ - 1]
       /\ Return(t)
       /\ UNCHANGED <<tick, trap, boot, ret, reg, taskvars, history, obj>>

(* ERR_PERM *)
mutex_unlock_refused(t, o) ==
    /\ Operates(t, o, {"unlock"})
    /\ Usable(o)
    /\ mutex[o].owner # t \/ mutex[o].lock_count = 0
    /\ ReturnUnchanged(t)
    /\ UNCHANGED <<mutex, held>>

(* The holder, if any, has lost the mutex. *)
mutex_destroy_obj(t, o) ==
    /\ Destroy(t, o)
    /\ mutex' = [mutex EXCEPT ![o] = mutex_init_obj]
    /\ held' = [held EXCEPT ![o] = NobodyHolds]

(* The rest of trt_mutex_destroy. *)
trt_mutex_destroy(t) ==
    /\ WakeDestroyed(t) \/ Close(t) \/ Free(t)
    /\ UNCHANGED <<mutex, held>>

-----------------------------------------------------------------------------
MutexCall(t) ==
    \E o \in Obj : \/ \E op \in ObjOps \ {"timedlock"} : mutex_lookup(t, o, op, 0)
                   \/ \E d \in Delays : mutex_lookup(t, o, "timedlock", d)

MutexStep(t) ==
    \/ \E o \in Obj :
          \/ mutex_take(t, o)
          \/ mutex_trylock_busy(t, o)
          \/ mutex_lock_refused(t, o)
          \/ mutex_block(t, o)
          \/ mutex_unlock_obj(t, o)
          \/ mutex_unlock_refused(t, o)
          \/ mutex_destroy_obj(t, o)
    \/ mutex_gone(t)
    \/ mutex_lock_return(t)
    \/ trt_mutex_destroy(t)

MutexCreate == \E o \in Obj : trt_mutex_create(o)

MutexNext ==
    \/ Next /\ UNCHANGED mutexvars
    \/ MutexCreate
    \/ \E t \in Task : MutexCall(t) \/ MutexStep(t)

MutexSpec == MutexInit /\ [][MutexNext]_<<vars, mutexvars>>

-----------------------------------------------------------------------------
(* Mutual exclusion, as the callers see it: a task whose locks have        *)
(* returned ERR_OK more often than its unlocks is the owner, with exactly  *)
(* this count; so no two tasks hold a mutex at once, through hand-overs,   *)
(* timeouts and nested locks.                                              *)
HolderOwns ==
    \A o \in Obj, t \in Task : Usable(o) /\ held[o][t] > 0 =>
        mutex[o].owner = t /\ mutex[o].lock_count = held[o][t]

(* A mutex is never owned by a task that does not know: the owner holds    *)
(* it, or it was handed over while it waited and its call will return      *)
(* ERR_OK, even if its timeout comes before it runs.  And a task that an   *)
(* unlock woke stays the owner until it runs, whoever calls in between, so *)
(* that the ERR_STATE of mutex_lock_obj is never returned on a mutex that  *)
(* is not destroyed.                                                       *)
OwnerKnows ==
    \A o \in Obj, t \in Task : Usable(o) =>
        (mutex[o].owner = t <=> held[o][t] > 0 \/ Granted(t, o))

(* Nobody waits for a free mutex. *)
NoWaiterWithoutOwner ==
    \A o \in Obj : k.wq[waiters(o)] # <<>> /\ Usable(o) => mutex[o].owner # None

=============================================================================
