----------------------------- MODULE TimerProofs ----------------------------
(***************************************************************************)
(* Theorems about the software timers, for any number of tasks and timers, *)
(* any delays and any width of the tick counter: the list holds the active *)
(* timers in the order in which they are due, a callback is called when    *)
(* the time of its timer has come, and a trap is left when there is none   *)
(* left to call.  Everything is promised up to the first fault, as Timer   *)
(* goes no further.                                                        *)
(*                                                                         *)
(* InOrder is the invariant of the list; every operator of timer.c takes   *)
(* one timer out of it (Detached), changes its fields and puts it back, or *)
(* leaves it out.  The lemmas about them hold for any list T that is in    *)
(* order, since a callback acts on the list that the loop around it is     *)
(* changing.  CallsOK is about the calls that are under way, ListOK joins  *)
(* the two, and TimerInv adds the kernel below.                            *)
(***************************************************************************)
EXTENDS KernelAlways, Timer

-----------------------------------------------------------------------------
(* The timers T, at the time now, with the ticks L that each still has to  *)
(* run.                                                                    *)
Timers == [list : Seq(Obj), initialized : BOOLEAN,
           deadline : [Obj -> Ticks], period : [Obj -> {0, Period}],
           callback : [Obj -> BOOLEAN], active : [Obj -> BOOLEAN]]

Times == [Obj -> Int]

(* How late each timer is.                                                 *)
Overdue(L) == [o \in Obj |-> -L[o]]

(* The ticks a timer may still have to run, or be late, while it is        *)
(* active.                                                                 *)
InTime == -MaxJump..(Half - MaxJump - 1)

(* An active timer is not destroyed, and its deadline is as far away as it *)
(* has ticks to run.                                                       *)
TimerAt(T, L, now, o) ==
    T.active[o] => T.callback[o] /\ L[o] \in InTime /\ Signed(now - T.deadline[o]) = -L[o]

(* The same of all timers but o, which is on no list.                      *)
Detached(T, L, now, o) ==
    /\ T \in Timers /\ L \in Times
    /\ Distinct(T.list) /\ Falling(T.list, Overdue(L))
    /\ ~Contains(T.list, o)
    /\ \A p \in Obj \ {o} : TimerAt(T, L, now, p) /\ (T.active[p] <=> Contains(T.list, p))

(* The list is sound.                                                      *)
InOrder(T, L, now) ==
    /\ T \in Timers /\ L \in Times
    /\ Distinct(T.list) /\ Falling(T.list, Overdue(L))
    /\ \A p \in Obj : TimerAt(T, L, now, p) /\ (T.active[p] <=> Contains(T.list, p))

(* The bounds fit half the range of the counter.                           *)
LEMMA TimerBounds ==
    /\ MaxJump \in Nat \ {0} /\ Half \in Nat \ {0} /\ TickMod = 2 * Half
    /\ Period \in Nat \ {0} /\ Period + MaxJump < Half
    /\ \A d \in Delays \cup {0, Period} : d \in Nat /\ d \in InTime /\ d \in 0..Half
    /\ InTime \subseteq Int
<1>1. MaxJump \in Nat \ {0} /\ Half \in Nat \ {0} /\ TickMod = 2 * Half
    BY Halves, KernelAssumption DEF Half
<1>2. Period \in Nat \ {0} /\ Period + MaxJump < Half
    BY TimerAssumption DEF Half
<1>3. \A d \in Delays : d \in Nat /\ d + MaxJump < Half
    BY <1>1, KernelAssumption, TimerAssumption DEF Half
<1> QED BY <1>1, <1>2, <1>3 DEF InTime

(* How late they are is a number.                                          *)
LEMMA OverdueType ==
    ASSUME NEW L \in Times
    PROVE  Overdue(L) \in [Obj -> Int] /\ \A o \in Obj : Overdue(L)[o] = -L[o]
BY DEF Times, Overdue

(* timer_unlink takes a timer off the list.                                *)
LEMMA UnlinkDetaches ==
    ASSUME NEW T, NEW L, NEW now, InOrder(T, L, now), NEW o \in Obj
    PROVE  /\ Detached(timer_unlink(T, o), L, now, o)
           /\ ~T.active[o] => Detached(T, L, now, o)
<1> DEFINE u == timer_unlink(T, o)
           l == RemoveFirst(T.list, o)
<1>1. /\ T \in Timers /\ L \in Times /\ T.list \in Seq(Obj)
      /\ Distinct(T.list) /\ Falling(T.list, Overdue(L))
    BY DEF InOrder, Timers
<1>2. /\ l \in Seq(Obj) /\ Distinct(l) /\ ~Contains(l, o)
      /\ \A x \in Obj \ {o} : Contains(l, x) <=> Contains(T.list, x)
    BY <1>1, RemoveFirstShape
<1>3. Falling(l, Overdue(L))
    BY <1>1, OverdueType, RemoveFalling
<1>4. u = [T EXCEPT !.list = l]
    BY DEF timer_unlink
<1> HIDE DEF l, u
<1>5. /\ u \in Timers /\ u.list = l /\ u.deadline = T.deadline /\ u.callback = T.callback
      /\ u.active = T.active
    BY <1>1, <1>2, <1>4 DEF Timers
<1>6. \A p \in Obj : TimerAt(T, L, now, p) /\ (T.active[p] <=> Contains(T.list, p))
    BY DEF InOrder
<1>7. Detached(u, L, now, o)
    BY <1>1, <1>2, <1>3, <1>5, <1>6 DEF Detached, TimerAt
<1>8. ~T.active[o] => Detached(T, L, now, o)
    BY <1>1, <1>6 DEF Detached
<1> QED BY <1>7, <1>8 DEF u

(* Another deadline and other times for a timer that is on no list.        *)
LEMMA DetachedKept ==
    ASSUME NEW T, NEW L, NEW now, NEW o \in Obj, Detached(T, L, now, o),
           NEW R \in Timers, NEW J \in Times, R.list = T.list,
           \A p \in Obj \ {o} : /\ R.active[p] = T.active[p]
                                /\ R.callback[p] = T.callback[p]
                                /\ R.deadline[p] = T.deadline[p]
                                /\ J[p] = L[p]
    PROVE  Detached(R, J, now, o)
<1>1. /\ T \in Timers /\ L \in Times /\ T.list \in Seq(Obj)
      /\ Distinct(T.list) /\ Falling(T.list, Overdue(L)) /\ ~Contains(T.list, o)
    BY DEF Detached, Timers
<1>2. Falling(R.list, Overdue(J))
    <2>1. \A x \in Obj : Contains(T.list, x) => Overdue(J)[x] = Overdue(L)[x]
        BY <1>1, OverdueType
    <2> QED BY <1>1, <2>1, SameFalling
<1>3. \A p \in Obj \ {o} : TimerAt(R, J, now, p) /\ (R.active[p] <=> Contains(R.list, p))
    BY DEF Detached, TimerAt
<1> QED BY <1>1, <1>2, <1>3 DEF Detached

(* It is in order if it is not active.                                     *)
LEMMA RetireInOrder ==
    ASSUME NEW T, NEW L, NEW now, NEW o \in Obj, Detached(T, L, now, o), ~T.active[o]
    PROVE  InOrder(T, L, now)
BY DEF Detached, InOrder, TimerAt

(* timer_insert_locked puts it at its place.                               *)
LEMMA InsertInOrder ==
    ASSUME NEW T, NEW L, NEW now \in Ticks, NEW o \in Obj, Detached(T, L, now, o),
           T.active[o], TimerAt(T, L, now, o)
    PROVE  InOrder(timer_insert_locked(T, o), L, now)
<1> DEFINE f == Overdue(L)
           O == {i \in DOMAIN T.list : TickBefore(T.deadline[o], T.deadline[T.list[i]])}
           l == InsertBeforeFirst(T.list, o, O)
           e == timer_insert_locked(T, o)
<1>1. /\ T \in Timers /\ L \in Times /\ T.list \in Seq(Obj)
      /\ Distinct(T.list) /\ Falling(T.list, f) /\ ~Contains(T.list, o)
    BY DEF Detached, Timers
<1>2. \A p \in Obj : p = o \/ Contains(T.list, p) =>
          L[p] \in InTime /\ Signed(now - T.deadline[p]) = -L[p]
    BY DEF Detached, TimerAt
<1>3. \A i \in 1..Len(T.list) : T.list[i] \in Obj /\ Contains(T.list, T.list[i])
    BY <1>1, ElementOfSeq DEF Contains
<1>4. ASSUME NEW i \in DOMAIN T.list
      PROVE  TickBefore(T.deadline[o], T.deadline[T.list[i]]) <=> f[T.list[i]] < f[o]
    <2> DEFINE p == T.list[i]
    <2>1. p \in Obj /\ Contains(T.list, p)
        BY <1>1, <1>3
    <2> HIDE DEF p
    <2>2. /\ L[p] \in InTime /\ Signed(now - T.deadline[p]) = -L[p]
          /\ L[o] \in InTime /\ Signed(now - T.deadline[o]) = -L[o]
        BY <1>2, <2>1
    <2>3. T.deadline[o] \in Ticks /\ T.deadline[p] \in Ticks
        BY <1>1, <2>1 DEF Timers
    <2>4. -L[o] - (-L[p]) < Half /\ -L[p] - (-L[o]) < Half
        BY <2>2, TimerBounds DEF InTime
    <2>5. TickBefore(T.deadline[o], T.deadline[p]) <=>
              Signed(now - T.deadline[p]) < Signed(now - T.deadline[o])
        BY <2>2, <2>3, <2>4, SignedBetween
    <2>6. f[p] = -L[p] /\ f[o] = -L[o]
        BY <1>1, <2>1, OverdueType
    <2> QED BY <2>2, <2>5, <2>6 DEF p
<1>5. O = {i \in DOMAIN T.list : f[T.list[i]] < f[o]}
    BY <1>4
<1>6. e = [T EXCEPT !.list = l]
    BY DEF timer_insert_locked
<1>7. l \in Seq(Obj)
    <2>1. O \subseteq DOMAIN T.list
        OBVIOUS
    <2> HIDE DEF O
    <2> QED BY <1>1, <2>1, InsertType
<1>8. Distinct(l) /\ \A x : Contains(l, x) <=> Contains(T.list, x) \/ x = o
    <2>1. O \subseteq DOMAIN T.list
        OBVIOUS
    <2> HIDE DEF O
    <2> QED BY <1>1, <2>1, InsertContents
<1>9. Falling(l, f)
    <2>1. f \in [Obj -> Int]
        BY <1>1, OverdueType
    <2> HIDE DEF f, O
    <2> QED BY <1>1, <1>5, <2>1, InsertFalling
<1> HIDE DEF l, e, f, O
<1>10. /\ e \in Timers /\ e.list = l /\ e.deadline = T.deadline /\ e.callback = T.callback
       /\ e.active = T.active
    BY <1>1, <1>6, <1>7 DEF Timers
<1>11. ASSUME NEW p \in Obj
       PROVE  TimerAt(e, L, now, p) /\ (e.active[p] <=> Contains(e.list, p))
    BY <1>8, <1>10 DEF Detached, TimerAt
<1> QED BY <1>1, <1>8, <1>9, <1>10, <1>11 DEF InOrder, e, f

-----------------------------------------------------------------------------
(* The functions of timer.c keep the list in order.  Sparing: they destroy *)
(* no timer, and make none active but o.                                   *)
Sparing(T, R, o) ==
    /\ R.callback = T.callback
    /\ \A p \in Obj : R.active[p] => p = o \/ T.active[p]

(* The critical section of timer_start_ticks_obj.                          *)
LEMMA StartInOrder ==
    ASSUME tick \in Ticks, NEW T, NEW L, InOrder(T, L, tick), NEW o \in Obj, T.callback[o],
           NEW d \in Delays \cup {0}, NEW p \in {0, Period}
    PROVE  /\ InOrder(timer_start_ticks_obj(T, o, d, p), [L EXCEPT ![o] = d], tick)
           /\ Sparing(T, timer_start_ticks_obj(T, o, d, p), o)
<1> DEFINE u == IF T.active[o] THEN timer_unlink(T, o) ELSE T
           w == (tick + d) % TickMod
           R == [u EXCEPT !.deadline[o] = w, !.period[o] = p, !.active[o] = TRUE]
           J == [L EXCEPT ![o] = d]
           e == timer_start_ticks_obj(T, o, d, p)
<1>1. T \in Timers /\ L \in Times
    BY DEF InOrder
<1>2. /\ Detached(u, L, tick, o)
      /\ u.callback = T.callback /\ u.active = T.active
    <2>1. /\ timer_unlink(T, o).callback = T.callback
          /\ timer_unlink(T, o).active = T.active
        BY <1>1 DEF timer_unlink, Timers
    <2> QED BY <2>1, UnlinkDetaches
<1>3. e = timer_insert_locked(R, o)
    BY DEF timer_start_ticks_obj
<1> HIDE DEF u, e
<1>4. d \in InTime /\ d \in 0..Half
    BY TimerBounds
<1>5. w \in Ticks /\ Signed(tick - w) = -d
    BY <1>4, SignedAsked
<1> HIDE DEF w
<1>6. u \in Timers
    BY <1>2 DEF Detached
<1>7. /\ R \in Timers /\ R.list = u.list /\ R.callback = u.callback
      /\ R.active[o] /\ R.deadline[o] = w
      /\ \A x \in Obj \ {o} : R.active[x] = u.active[x] /\ R.deadline[x] = u.deadline[x]
    BY <1>5, <1>6 DEF Timers
<1>8. J \in Times /\ J[o] = d /\ \A x \in Obj \ {o} : J[x] = L[x]
    BY <1>1, <1>4, TimerBounds DEF Times
<1> HIDE DEF R, J
<1>9. Detached(R, J, tick, o)
    BY <1>2, <1>7, <1>8, DetachedKept
<1>10. TimerAt(R, J, tick, o)
    BY <1>2, <1>4, <1>5, <1>7, <1>8 DEF TimerAt
<1>11. InOrder(e, J, tick)
    BY <1>3, <1>7, <1>9, <1>10, InsertInOrder
<1>12. e.callback = R.callback /\ e.active = R.active
    BY <1>3, <1>7 DEF timer_insert_locked, Timers
<1>13. Sparing(T, e, o)
    BY <1>2, <1>7, <1>12 DEF Sparing
<1> QED BY <1>11, <1>13 DEF e, J

(* timer_stop_obj                                                          *)
LEMMA StopInOrder ==
    ASSUME NEW T, NEW L, NEW now, InOrder(T, L, now), NEW o \in Obj
    PROVE  /\ InOrder(timer_stop_obj(T, o), L, now)
           /\ \A x : Sparing(T, timer_stop_obj(T, o), x)
<1> DEFINE u == timer_unlink(T, o)
           R == [u EXCEPT !.active[o] = FALSE]
<1>1. T \in Timers /\ L \in Times
    BY DEF InOrder
<1>2. Detached(u, L, now, o)
    BY UnlinkDetaches
<1>3. u.callback = T.callback /\ u.active = T.active /\ u \in Timers
    BY <1>1, <1>2 DEF timer_unlink, Timers, Detached
<1>4. timer_stop_obj(T, o) \in {T, R}
    BY DEF timer_stop_obj
<1> HIDE DEF u
<1>5. /\ R \in Timers /\ R.list = u.list /\ R.callback = u.callback /\ R.deadline = u.deadline
      /\ ~R.active[o] /\ \A x \in Obj \ {o} : R.active[x] = u.active[x]
    BY <1>3 DEF Timers
<1> HIDE DEF R
<1>6. Detached(R, L, now, o)
    BY <1>1, <1>2, <1>5, DetachedKept
<1>7. InOrder(R, L, now) /\ \A x : Sparing(T, R, x)
    BY <1>3, <1>5, <1>6, RetireInOrder DEF Sparing
<1>8. \A x : Sparing(T, T, x)
    BY DEF Sparing
<1> QED BY <1>4, <1>7, <1>8

(* A new timer, or one that is destroyed.                                  *)
LEMMA SetupInOrder ==
    ASSUME tick \in Ticks, NEW T, NEW L, NEW now, NEW o \in Obj, Detached(T, L, now, o),
           NEW b \in BOOLEAN, NEW J \in Times, \A x \in Obj \ {o} : J[x] = L[x]
    PROVE  /\ InOrder(timer_setup_obj(T, o, b), J, now)
           /\ timer_setup_obj(T, o, b).callback = [T.callback EXCEPT ![o] = b]
           /\ \A x \in Obj : timer_setup_obj(T, o, b).active[x] => x # o /\ T.active[x]
<1> DEFINE R == timer_setup_obj(T, o, b)
<1>1. T \in Timers /\ 0 \in Ticks
    BY SchedAssumption DEF Detached, Ticks
<1>2. /\ R \in Timers /\ R.list = T.list /\ R.callback = [T.callback EXCEPT ![o] = b]
      /\ ~R.active[o]
      /\ \A x \in Obj \ {o} : R.active[x] = T.active[x] /\ R.deadline[x] = T.deadline[x]
    BY <1>1 DEF timer_setup_obj, Timers
<1> HIDE DEF R
<1>3. \A x \in Obj \ {o} : /\ R.active[x] = T.active[x] /\ R.callback[x] = T.callback[x]
                           /\ R.deadline[x] = T.deadline[x] /\ J[x] = L[x]
    BY <1>1, <1>2 DEF Timers
<1>4. R \in Timers /\ R.list = T.list
    BY <1>2
<1>5. Detached(R, J, now, o)
    BY <1>3, <1>4, DetachedKept
<1> QED BY <1>2, <1>5, RetireInOrder DEF R

(* The head of the list.                                                   *)
LEMMA HeadTimer ==
    ASSUME NEW T, NEW L, NEW now \in Ticks, InOrder(T, L, now), T.list # <<>>
    PROVE  /\ Head(T.list) \in Obj /\ T.active[Head(T.list)]
           /\ timer_expired(now, T.deadline[Head(T.list)]) <=> L[Head(T.list)] <= 0
           /\ \A p \in Obj : T.active[p] => L[Head(T.list)] <= L[p]
<1> DEFINE o == Head(T.list)
<1>1. T \in Timers /\ L \in Times /\ T.list \in Seq(Obj) /\ Falling(T.list, Overdue(L))
    BY DEF InOrder, Timers
<1>2. o \in Obj /\ Contains(T.list, o) /\ o = T.list[1] /\ 1 \in 1..Len(T.list)
    BY <1>1, TailShape, HeadTailProperties
<1> HIDE DEF o
<1>3. T.active[o] /\ L[o] \in Int /\ Signed(now - T.deadline[o]) = -L[o]
    BY <1>1, <1>2 DEF InOrder, TimerAt, Times
<1>4. T.deadline[o] \in Ticks
    BY <1>1, <1>2 DEF Timers
<1>5. timer_expired(now, T.deadline[o]) <=> L[o] <= 0
    BY <1>3, <1>4, SignedExpired
<1>6. ASSUME NEW p \in Obj, T.active[p] PROVE L[o] <= L[p]
    <2>1. Contains(T.list, p)
        BY <1>6 DEF InOrder
    <2>2. PICK i \in 1..Len(T.list) : T.list[i] = p
        BY <2>1 DEF Contains
    <2>3. i = 1 \/ 1 < i
        BY <2>2
    <2>4. CASE 1 < i
        <3>1. Overdue(L)[o] >= Overdue(L)[p]
            BY <1>1, <1>2, <2>2, <2>4 DEF Falling
        <3>2. Overdue(L)[o] = -L[o] /\ Overdue(L)[p] = -L[p] /\ L[p] \in Int
            BY <1>1, <1>2, OverdueType DEF Times
        <3> QED BY <1>3, <3>1, <3>2
    <2> QED BY <1>2, <1>3, <2>2, <2>3, <2>4
<1> QED BY <1>2, <1>3, <1>5, <1>6 DEF o

(* A deadline that is put off is that much less late.                      *)
LEMMA SignedPutOff ==
    ASSUME NEW now \in Ticks, NEW w \in Ticks, NEW d \in 0..Half,
           Signed(now - w) - d \in -Half..(Half - 1), NEW e, e = (w + d) % TickMod
    PROVE  e \in Ticks /\ Signed(now - e) = Signed(now - w) - d
<1>1. TickMod \in Nat /\ Half \in Nat \ {0} /\ TickMod = 2 * Half
    BY Halves
<1> DEFINE x == Signed(now - w)
<1>2. now - w \in -(TickMod - 1)..(TickMod - 1)
    BY <1>1 DEF Ticks
<1>3. x \in -Half..(Half - 1) /\ (now - w) - x \in {0, TickMod, -TickMod}
    BY <1>2, SignedFact
<1> HIDE DEF x
<1>4. e = IF w + d < TickMod THEN w + d ELSE w + d - TickMod
    BY <1>1, WrapSum DEF Ticks
<1>5. e \in Ticks
    BY <1>1, <1>4 DEF Ticks
<1>6. (now - e) - (x - d) \in {0, TickMod, -TickMod, 2 * TickMod, -(2 * TickMod)}
    BY <1>1, <1>3, <1>4 DEF Ticks
<1>7. x - d \in -Half..(Half - 1)
    BY DEF x
<1>8. Signed(now - e) = x - d
    BY <1>5, <1>6, <1>7, SignedIs DEF Ticks
<1> QED BY <1>5, <1>8 DEF x

(* One round of timer_run_expired, up to the call of the callback.         *)
LEMMA ExpireInOrder ==
    ASSUME NEW now \in Ticks, NEW T, NEW L, InOrder(T, L, now), NEW o \in Obj, o = Head(T.list),
           T.active[o], L[o] <= 0, NEW J \in Times, J[o] = L[o] + T.period[o],
           \A x \in Obj \ {o} : J[x] = L[x]
    PROVE  /\ InOrder(timer_expire(T), J, now)
           /\ \A x : Sparing(T, timer_expire(T), x)
<1> DEFINE u == timer_unlink(T, o)
           w == (T.deadline[o] + T.period[o]) % TickMod
           R == [u EXCEPT !.deadline[o] = w]
           N == [u EXCEPT !.active[o] = FALSE]
<1>1. T \in Timers /\ L \in Times
    BY DEF InOrder
<1>2. Detached(u, L, now, o)
    BY <1>1, UnlinkDetaches
<1>3. u \in Timers /\ u.callback = T.callback /\ u.active = T.active /\ u.deadline = T.deadline
    BY <1>1, <1>2 DEF timer_unlink, Timers, Detached
<1>4. timer_expire(T) = IF T.period[o] # 0 THEN timer_insert_locked(R, o) ELSE N
    BY <1>3 DEF timer_expire
<1>5. /\ T.callback[o] /\ L[o] \in InTime /\ Signed(now - T.deadline[o]) = -L[o]
      /\ T.deadline[o] \in Ticks /\ T.period[o] \in {0, Period}
    BY <1>1 DEF InOrder, TimerAt, Timers
<1> HIDE DEF u
<1>6. L[o] \in Int
    BY <1>5, TimerBounds
<1>7. T.period[o] \in Int
    BY <1>5, TimerBounds
<1>8. CASE T.period[o] = 0
    <2>1. /\ N \in Timers /\ N.list = u.list /\ N.callback = u.callback /\ N.deadline = u.deadline
          /\ ~N.active[o] /\ \A x \in Obj \ {o} : N.active[x] = u.active[x]
        BY <1>1, <1>3 DEF Timers
    <2> HIDE DEF N
    <2>2. Detached(N, J, now, o)
        <3>1. \A x \in Obj \ {o} : /\ N.active[x] = u.active[x] /\ N.callback[x] = u.callback[x]
                                   /\ N.deadline[x] = u.deadline[x] /\ J[x] = L[x]
            BY <2>1
        <3>2. N \in Timers /\ J \in Times /\ N.list = u.list /\ o \in Obj
            BY <1>1, <2>1
        <3> QED BY <1>2, <3>1, <3>2, DetachedKept
    <2>3. InOrder(N, J, now)
        BY <1>1, <2>1, <2>2, RetireInOrder
    <2>4. \A x : Sparing(T, N, x)
        BY <1>3, <2>1 DEF Sparing
    <2> QED BY <1>4, <1>8, <2>3, <2>4 DEF N
<1>9. CASE T.period[o] = Period
    <2>1. /\ Period \in 0..Half /\ -L[o] - Period \in -Half..(Half - 1)
          /\ L[o] + Period \in InTime
        BY <1>1, <1>5, TimerBounds DEF InTime
    <2>2. w \in Ticks /\ Signed(now - w) = -L[o] - Period
        BY <1>5, <1>9, <2>1, SignedPutOff
    <2> HIDE DEF w
    <2>3. /\ R \in Timers /\ R.list = u.list /\ R.callback = u.callback /\ R.active = u.active
          /\ R.deadline[o] = w /\ \A x \in Obj \ {o} : R.deadline[x] = u.deadline[x]
        BY <1>1, <1>3, <2>2 DEF Timers
    <2> HIDE DEF R
    <2>4. Detached(R, J, now, o)
        <3>1. \A x \in Obj \ {o} : /\ R.active[x] = u.active[x] /\ R.callback[x] = u.callback[x]
                                   /\ R.deadline[x] = u.deadline[x] /\ J[x] = L[x]
            BY <2>3
        <3>2. R \in Timers /\ J \in Times /\ R.list = u.list /\ o \in Obj
            BY <1>1, <2>3
        <3> QED BY <1>2, <3>1, <3>2, DetachedKept
    <2>5. TimerAt(R, J, now, o) /\ R.active[o]
        <3>1. -L[o] - Period = -(L[o] + Period)
            BY <1>6, <1>7, <1>9
        <3> QED BY <1>1, <1>3, <1>5, <1>9, <2>1, <2>2, <2>3, <3>1 DEF TimerAt
    <2>6. InOrder(timer_insert_locked(R, o), J, now)
        BY <1>1, <2>4, <2>5, InsertInOrder
    <2>7. \A x : Sparing(T, timer_insert_locked(R, o), x)
        <3>1. /\ timer_insert_locked(R, o).callback = R.callback
              /\ timer_insert_locked(R, o).active = R.active
            BY <2>3 DEF timer_insert_locked, Timers
        <3> QED BY <1>3, <2>3, <3>1 DEF Sparing
    <2> QED BY <1>4, <1>9, <2>6, <2>7, TimerBounds DEF R, w
<1> QED BY <1>5, <1>8, <1>9

(* A tick: every active timer has that much less to run.                   *)
LEMMA LaterInOrder ==
    ASSUME tick \in Ticks, NEW T, NEW L, InOrder(T, L, tick),
           \A o \in Obj : T.active[o] => L[o] >= 0, NEW d \in 1..MaxJump,
           NEW then, then = (tick + d) % TickMod,
           NEW J, J = [o \in Obj |-> IF T.active[o] THEN L[o] - d ELSE 0]
    PROVE  InOrder(T, J, then)
<1>1. /\ T \in Timers /\ L \in Times /\ T.list \in Seq(Obj) /\ Falling(T.list, Overdue(L))
      /\ Distinct(T.list)
      /\ \A p \in Obj : TimerAt(T, L, tick, p) /\ (T.active[p] <=> Contains(T.list, p))
    BY DEF InOrder, Timers
<1>2. J \in Times
    BY <1>1, TimerBounds DEF Times
<1>3. ASSUME NEW o \in Obj, T.active[o]
      PROVE  /\ J[o] = L[o] - d /\ J[o] \in InTime /\ T.callback[o]
             /\ Signed(then - T.deadline[o]) = -J[o]
    <2>1. /\ L[o] \in InTime /\ Signed(tick - T.deadline[o]) = -L[o] /\ L[o] >= 0
          /\ T.callback[o] /\ T.deadline[o] \in Ticks
        BY <1>1, <1>3 DEF TimerAt, Timers
    <2>2. L[o] - d \in InTime /\ -L[o] + d < Half /\ d \in Nat /\ L[o] \in Int
        BY <2>1, TimerBounds DEF InTime
    <2>3. Signed(then - T.deadline[o]) = -L[o] + d
        BY <2>1, <2>2, SignedLater
    <2>4. -L[o] + d = -(L[o] - d)
        BY <2>2
    <2> QED BY <1>3, <2>1, <2>2, <2>3, <2>4
<1>4. Falling(T.list, Overdue(J))
    <2> DEFINE f == Overdue(L)
               g == Overdue(J)
    <2>1. ASSUME NEW i \in 1..Len(T.list)
          PROVE  /\ f[T.list[i]] \in Int /\ g[T.list[i]] = f[T.list[i]] + d
        <3> DEFINE o == T.list[i]
        <3>1. o \in Obj /\ T.active[o]
            BY <1>1, ElementOfSeq DEF Contains
        <3> HIDE DEF o
        <3>2. J[o] = L[o] - d /\ L[o] \in Int /\ d \in Int
            BY <1>1, <1>3, <3>1, TimerBounds DEF Times
        <3>3. f[o] = -L[o] /\ g[o] = -J[o]
            BY <1>1, <1>2, <3>1, OverdueType
        <3>4. f[o] \in Int /\ g[o] = f[o] + d
            BY <3>2, <3>3
        <3> QED BY <3>4 DEF o
    <2> HIDE DEF f, g
    <2>2. \A i, j \in 1..Len(T.list) : i < j => f[T.list[i]] >= f[T.list[j]]
        BY <1>1 DEF Falling, f
    <2>3. \A i, j \in 1..Len(T.list) : i < j => g[T.list[i]] >= g[T.list[j]]
        BY <2>1, <2>2, TimerBounds
    <2> QED BY <2>3 DEF Falling, g
<1> QED BY <1>1, <1>2, <1>3, <1>4 DEF InOrder, TimerAt

-----------------------------------------------------------------------------
(* The calls of the tasks, and the objects they work on.                   *)
ObjectRecord == [alloc : BOOLEAN, open : BOOLEAN, destroyed : BOOLEAN]
CallRecord == [op : ObjOps \cup {"none"}, o : Obj \cup {None},
               d : Delays \cup {0}, woken : BOOLEAN]

(* Where a call is about to close the handle and to free the memory.       *)
Releasing == {"o_close", "o_free"}

(* The object a call has looked up is there until another call frees it,   *)
(* and a call that is about to release it has destroyed it.                *)
CallAt(x) ==
    call[x].o # None =>
        obj[call[x].o].alloc /\ (pc[x] \in Releasing => obj[call[x].o].destroyed)

(* Objects and calls keep their types, and all calls are as said.          *)
CallsOK ==
    /\ obj \in [Obj -> ObjectRecord]
    /\ call \in [Task -> CallRecord]
    /\ \A o \in Obj : obj[o].open => obj[o].alloc
    /\ \A x \in Task : CallAt(x)

(* Only timers that can be used have a callback; the list is sound, empty  *)
(* before the system runs, and out of a trap no timer of it is late.       *)
ListOK ==
    /\ \A o \in Obj : tm.callback[o] => Usable(o)
    /\ InOrder(tm, tleft, tick)
    /\ boot # "done" => tm.list = <<>>
    /\ trap = "none" => \A o \in Obj : tm.active[o] => tleft[o] >= 0

(* The inductive invariant.                                                *)
TimerInv == fault = {} => KernelInv /\ CallsOK /\ ListOK

(* Before kernel_init. *)
LEMMA InitTimer == TimerInit => TimerInv
<1> SUFFICES ASSUME TimerInit PROVE KernelInv /\ CallsOK /\ ListOK
    BY DEF TimerInv
<1>1. KernelInv
    BY InitKernel DEF TimerInit, ObjInit
<1>2. CallsOK
    BY ObjectAssumption DEF TimerInit, ObjInit, NoObj, NoCall, CallsOK, CallAt, ObjectRecord, CallRecord
<1>3. ListOK
    <2>1. tm \in Timers /\ tleft \in Times /\ tm.list = <<>>
          /\ \A o \in Obj : ~tm.callback[o] /\ ~tm.active[o]
        BY SchedAssumption DEF TimerInit, Timers, Times, Ticks
    <2>2. Distinct(tm.list) /\ Falling(tm.list, Overdue(tleft)) /\ \A o \in Obj : ~Contains(tm.list, o)
        BY <2>1 DEF Distinct, Falling, Contains
    <2> QED BY <2>1, <2>2 DEF ListOK, InOrder, TimerAt
<1> QED BY <1>1, <1>2, <1>3

(* A step that leaves objects and calls alone, and takes no call to the    *)
(* point where it releases the object.                                     *)
LEMMA CallsKept ==
    ASSUME CallsOK, UNCHANGED objvars,
           \A x \in Task : pc'[x] \in Releasing => pc[x] \in Releasing
    PROVE  CallsOK'
BY DEF CallsOK, CallAt, objvars

(* A step that leaves the timers alone.                                    *)
LEMMA TimersKept ==
    ASSUME ListOK, UNCHANGED <<tick, tm, tleft>>, boot' # "done" => boot # "done",
           \A o \in Obj : Usable(o) => Usable(o)',
           trap' = "none" => trap = "none" \/ \A o \in Obj : tm.active[o] => tleft[o] >= 0
    PROVE  ListOK'
BY DEF ListOK

-----------------------------------------------------------------------------
(* The steps of the kernel and its tasks: none of them takes a call to the *)
(* point where it releases the object, or returns from a trap.             *)
LEMMA TaskStepKeeps ==
    ASSUME TypeInv, NEW t \in Task, AppCall(t) \/ KernelStep(t)
    PROVE  /\ UNCHANGED <<tick, boot>>
           /\ trap' = "none" => trap = "none"
           /\ \A x \in Task : pc'[x] \in Releasing => pc[x] \in Releasing
<1> USE DEF taskvars, history, Releasing
<1>1. pc \in [Task -> Pc] /\ ret[t] \in RetPc /\ ret[t] \notin Releasing
    BY DEF TypeInv, TypeOK, RetPc
<1> DEFINE Goal == /\ UNCHANGED <<tick, boot>>
                   /\ trap' = "none" => trap = "none"
                   /\ \A x \in Task : pc'[x] \in Releasing => pc[x] \in Releasing
<1>2. CASE \/ task_yield(t) \/ sched_lock(t) \/ sched_unlock(t)
           \/ \E d \in Delays : task_sleep(t, d)
    BY <1>1, <1>2 DEF task_yield, sched_lock, sched_unlock, task_sleep, CallYield, Goto
<1>3. ASSUME NEW q \in WaitQ, \/ trt_wait_q_block(t, q)
                              \/ \E d \in Delays : trt_wait_q_block_ticks(t, q, d)
                              \/ trt_wait_q_wake_one(t, q)
                              \/ trt_wait_q_wake_all(t, q)
      PROVE  Goal
    BY <1>1, <1>3 DEF trt_wait_q_block, trt_wait_q_block_ticks, trt_wait_q_wake_one,
       trt_wait_q_wake_all, CallYield, Goto
<1>4. CASE \/ \E h \in Handle : task_delete(t, h)
           \/ \E p \in CreatePrio : task_create(t, p)
    BY <1>1, <1>4 DEF task_delete, task_create, Goto
<1>5. CASE task_exit(t) \/ task_delete_found(t) \/ create_fail(t)
    BY <1>1, <1>5 DEF task_exit, task_delete_found, create_fail, task_delete_obj, Goto
<1>6. CASE task_yield_step(t)
    BY <1>1, <1>6 DEF task_yield_step, yield_check, yield_link, mask_load, mask_store,
       arch_yield, Goto
<1>7. CASE sleep_loop(t) \/ sleep_block(t) \/ wait_return(t)
    BY <1>1, <1>7 DEF sleep_loop, sleep_block, sleep_done, wait_return, CallYield, Goto
<1>8. CASE wake_all_round(t, "wq_all", "OBJECT", "run")
    BY <1>1, <1>8 DEF wake_all_round, Goto
<1>9. CASE \/ create_link(t) \/ mask_load(t, "c_load", "c_store") \/ count_load(t)
           \/ mask_store(t, reg[t].obj, "c_store", "c_cload")
           \/ count_store(t) \/ create_handle(t) \/ create_set_handle(t)
    BY <1>1, <1>9 DEF create_link, mask_load, count_load, mask_store, count_store,
       create_handle, create_set_handle, Goto
<1>10. CASE t = Idle /\ (cleanup_pop \/ cleanup_free \/ idle_enable)
    BY <1>1, <1>10 DEF cleanup_pop, cleanup_free, idle_enable, Goto
<1> QED BY <1>2, <1>3, <1>4, <1>5, <1>6, <1>7, <1>8, <1>9, <1>10
        DEF AppCall, KernelStep, task_create_step, idle_step

(* They keep the timers sound. *)
LEMMA TaskStepTimers ==
    ASSUME KernelInv, CallsOK, ListOK, NEW t \in Task, AppCall(t) \/ KernelStep(t),
           UNCHANGED timervars
    PROVE  KernelInv' /\ CallsOK' /\ ListOK'
<1>1. KernelInv'
    <2>1. Next
        BY DEF Next
    <2> QED BY <2>1, KernelNext
<1>2. /\ UNCHANGED <<tick, boot>> /\ UNCHANGED objvars /\ UNCHANGED <<tm, tleft>>
      /\ trap' = "none" => trap = "none"
      /\ \A x \in Task : pc'[x] \in Releasing => pc[x] \in Releasing
    BY TaskStepKeeps DEF KernelInv, timervars
<1>3. \A o \in Obj : Usable(o) => Usable(o)'
    BY <1>2 DEF Usable, objvars
<1> QED BY <1>1, <1>2, <1>3, CallsKept, TimersKept

(* kernel_init, app_main and rtos_start.                                   *)
LEMMA BootTimers ==
    ASSUME KernelInv, CallsOK, ListOK, TimerBoot
    PROVE  KernelInv' /\ CallsOK' /\ ListOK'
<1>1. KernelInv'
    <2>1. Next
        BY DEF TimerBoot, Next, Boot
    <2> QED BY <2>1, KernelNext
<1>2. /\ UNCHANGED <<tick, trap>> /\ UNCHANGED objvars /\ boot # "done" /\ tleft' = tleft
      /\ tm' = tm \/ tm' = [tm EXCEPT !.list = <<>>, !.initialized = TRUE]
      /\ pc' = pc \/ pc' = [pc EXCEPT ![Idle] = "i_clean"]
    BY DEF TimerBoot, timervars, kernel_init, app_main_object, app_main_create, rtos_start, timer_init
<1>3. \A x \in Task : pc'[x] \in Releasing => pc[x] \in Releasing
    BY <1>2 DEF KernelInv, TypeInv, TypeOK, Releasing
<1>4. CallsOK'
    BY <1>2, <1>3, CallsKept
<1>5. tm.list = <<>> /\ tm \in Timers
    BY <1>2 DEF ListOK, InOrder
<1>6. tm' \in Timers /\ tm'.list = tm.list /\ tm'.active = tm.active /\ tm'.callback = tm.callback
      /\ tm'.deadline = tm.deadline
    BY <1>2, <1>5 DEF Timers
<1>7. ListOK'
    BY <1>2, <1>5, <1>6 DEF ListOK, InOrder, TimerAt, Usable, objvars
<1> QED BY <1>1, <1>4, <1>7

-----------------------------------------------------------------------------
(* The trap handler is left when no timer is due any more.                 *)
LEMMA NoneDue ==
    ASSUME NEW T, NEW L, InOrder(T, L, tick), tick \in Ticks, ~TimerDue(T)
    PROVE  \A o \in Obj : T.active[o] => L[o] > 0
<1> SUFFICES ASSUME NEW o \in Obj, T.active[o] PROVE L[o] > 0
    OBVIOUS
<1>1. T \in Timers /\ L \in Times /\ Contains(T.list, o)
    BY DEF InOrder
<1>2. T.list # <<>>
    BY <1>1 DEF Contains
<1>3. /\ Head(T.list) \in Obj /\ L[Head(T.list)] <= L[o]
      /\ timer_expired(tick, T.deadline[Head(T.list)]) <=> L[Head(T.list)] <= 0
    BY <1>2, HeadTimer
<1>4. ~(L[Head(T.list)] <= 0)
    BY <1>2, <1>3 DEF TimerDue
<1> QED BY <1>1, <1>3, <1>4 DEF Times

(* The part of do_trap that wakes tasks and switches.                      *)
LEMMA TrapTimers ==
    ASSUME KernelInv, CallsOK, ListOK, sched_wake_expired \/ trap_return, UNCHANGED timervars
    PROVE  KernelInv' /\ CallsOK' /\ ListOK'
<1>1. KernelInv'
    <2>1. Next
        BY DEF Next, TrapStep, trap_return
    <2> QED BY <2>1, KernelNext
<1>2. UNCHANGED <<tick, boot, pc>> /\ UNCHANGED objvars /\ UNCHANGED <<tm, tleft>>
    <2>1. CASE sched_wake_expired
        BY <2>1 DEF sched_wake_expired, timervars
    <2>2. CASE TrapReturn
        BY <2>2 DEF TrapReturn, timervars
    <2> QED BY <2>1, <2>2 DEF trap_return
<1>3. tick \in Ticks
    BY DEF KernelInv, TypeInv, TypeOK
<1>4. trap' = "none" => \A o \in Obj : tm.active[o] => tleft[o] >= 0
    <2>1. CASE sched_wake_expired
        BY <2>1 DEF sched_wake_expired
    <2>2. CASE trap_return
        <3>1. InOrder(tm, tleft, tick) /\ ~TimerDue(tm)
            BY <2>2 DEF ListOK, trap_return
        <3>2. \A o \in Obj : tm.active[o] => tleft[o] > 0
            BY <1>3, <3>1, NoneDue
        <3>3. tleft \in [Obj -> Int]
            BY <3>1 DEF InOrder, Times
        <3> QED BY <3>2, <3>3
    <2> QED BY <2>1, <2>2
<1>5. CallsOK'
    BY <1>2, CallsKept
<1>6. \A o \in Obj : Usable(o) => Usable(o)'
    BY <1>2 DEF Usable, objvars
<1> QED BY <1>1, <1>2, <1>4, <1>5, <1>6, TimersKept

(* An interrupt leaves all calls where they are.                           *)
LEMMA InterruptedCalls ==
    ASSUME KernelInv, CallsOK, Interrupted, UNCHANGED objvars
    PROVE  CallsOK'
<1>1. \A x \in Task : pc'[x] \in Releasing => pc[x] \in Releasing
    BY DEF KernelInv, TypeInv, TypeOK, Interrupted, Releasing
<1> QED BY <1>1, CallsKept

(* SysTick_Handler.                                                        *)
LEMMA SystickTimers ==
    ASSUME KernelInv, CallsOK, ListOK, TimerSystick
    PROVE  KernelInv' /\ CallsOK' /\ ListOK'
<1>1. PICK d \in 1..MaxJump : timer_systick(d)
    BY DEF TimerSystick
<1>2. KernelInv'
    <2>1. Next
        BY <1>1 DEF Next, Systick, timer_systick
    <2> QED BY <2>1, KernelNext
<1>3. /\ Interrupted /\ trap = "none" /\ trap' = "tick" /\ boot' = boot
      /\ tick' = (tick + d) % TickMod /\ tm' = tm /\ UNCHANGED objvars
      /\ tleft' = [o \in Obj |-> IF tm.active[o] THEN tleft[o] - d ELSE 0]
    BY <1>1 DEF timer_systick, SysTick, Interrupted, CanInterrupt
<1>4. CallsOK'
    BY <1>3, InterruptedCalls
<1>5. /\ tick \in Ticks /\ InOrder(tm, tleft, tick)
      /\ \A o \in Obj : tm.active[o] => tleft[o] >= 0
    BY <1>3 DEF KernelInv, TypeInv, TypeOK, ListOK
<1>6. InOrder(tm, tleft', tick')
    BY <1>3, <1>5, LaterInOrder
<1>7. ListOK'
    BY <1>3, <1>6 DEF ListOK, Usable, objvars
<1> QED BY <1>2, <1>4, <1>7

(* What a callback or an interrupt handler does to the kernel below.       *)
LEMMA HandlerAwakens ==
    ASSUME KernelInv, CallsOK, InTrap, NEW T, NEW L, Handler(T, L),
           UNCHANGED <<tick, boot, ret, reg, taskvars, left, owed, objvars>>
    PROVE  KernelInv' /\ CallsOK'
<1>1. k' = k \/ \E q \in WaitQ : k' = trt_wait_q_wake_one_from_isr(k, q)
    BY DEF Handler
<1>2. HandlerWakes
    BY <1>1 DEF HandlerWakes, taskvars
<1>3. KernelInv'
    BY <1>2, HandlerKernel
<1>4. CallsOK'
    <2>1. CASE Interrupted
        BY <2>1, InterruptedCalls DEF objvars
    <2>2. CASE UNCHANGED pc
        BY <2>2, CallsKept DEF objvars
    <2> QED BY <2>1, <2>2 DEF InTrap
<1> QED BY <1>3, <1>4

(* And to the timers, which are T with the times L before it.              *)
LEMMA HandlerInOrder ==
    ASSUME tick \in Ticks, NEW T, NEW L, InOrder(T, L, tick), Handler(T, L)
    PROVE  InOrder(tm', tleft', tick) /\ tm'.callback = T.callback
<1>1. CASE tm' = T /\ tleft' = L
    BY <1>1
<1>2. ASSUME NEW o \in Obj, NEW d \in Delays, NEW op, T.callback[o],
             tm' = timer_start_ticks_obj(T, o, d, PeriodOf(op)),
             tleft' = [L EXCEPT ![o] = d]
      PROVE  InOrder(tm', tleft', tick) /\ tm'.callback = T.callback
    <2>1. PeriodOf(op) \in {0, Period}
        BY DEF PeriodOf
    <2>2. /\ InOrder(timer_start_ticks_obj(T, o, d, PeriodOf(op)), [L EXCEPT ![o] = d], tick)
          /\ Sparing(T, timer_start_ticks_obj(T, o, d, PeriodOf(op)), o)
        BY <1>2, <2>1, StartInOrder
    <2> QED BY <1>2, <2>2 DEF Sparing
<1>3. ASSUME NEW o \in Obj, tm' = timer_stop_obj(T, o), tleft' = L
      PROVE  InOrder(tm', tleft', tick) /\ tm'.callback = T.callback
    BY <1>3, StopInOrder DEF Sparing
<1> QED BY <1>1, <1>2, <1>3 DEF Handler

(* An interrupt whose handler uses the timers.                             *)
LEMMA IrqTimers ==
    ASSUME KernelInv, CallsOK, ListOK, timer_irq
    PROVE  KernelInv' /\ CallsOK' /\ ListOK'
<1>1. /\ InTrap /\ Handler(tm, tleft) /\ trap' = "irq"
      /\ UNCHANGED <<tick, boot, ret, reg, taskvars, left, owed, objvars>>
    BY DEF timer_irq, InTrap
<1>2. KernelInv' /\ CallsOK'
    BY <1>1, HandlerAwakens
<1>3. boot = "done" /\ tick \in Ticks
    <2>1. HandlerWakes
        BY <1>1 DEF HandlerWakes, Handler, taskvars
    <2> QED BY <2>1, HandlerFacts DEF KernelInv, TypeInv, TypeOK
<1>4. InOrder(tm', tleft', tick) /\ tm'.callback = tm.callback
    BY <1>1, <1>3, HandlerInOrder DEF ListOK
<1>5. ListOK'
    BY <1>1, <1>3, <1>4 DEF ListOK, Usable, objvars
<1> QED BY <1>2, <1>5

(* The times of the timers after one round of timer_run_expired.           *)
LEMMA RoundTimes ==
    ASSUME ListOK, tick \in Ticks, TimerDue(tm), NEW o, o = Head(tm.list)
    PROVE  /\ o \in Obj /\ tleft[o] <= 0 /\ Usable(o)
           /\ InOrder(timer_expire(tm), [tleft EXCEPT ![o] = @ + tm.period[o]], tick)
           /\ timer_expire(tm).callback = tm.callback
<1> DEFINE J == [tleft EXCEPT ![o] = @ + tm.period[o]]
<1>1. InOrder(tm, tleft, tick) /\ tm.list # <<>> /\ timer_expired(tick, tm.deadline[Head(tm.list)])
    BY DEF ListOK, TimerDue
<1>2. o \in Obj /\ tm.active[o] /\ tleft[o] <= 0
    BY <1>1, HeadTimer
<1>3. tm.callback[o]
    BY <1>1, <1>2 DEF InOrder, TimerAt
<1>4. tleft \in [Obj -> Int] /\ tm.period[o] \in Int
    <2>1. tm.period[o] \in {0, Period} /\ tleft \in [Obj -> Int]
        BY <1>1, <1>2 DEF InOrder, Timers, Times
    <2> QED BY <2>1, TimerBounds
<1>5. /\ J \in Times /\ J[o] = tleft[o] + tm.period[o]
      /\ \A x \in Obj \ {o} : J[x] = tleft[x]
    BY <1>2, <1>4 DEF Times
<1> HIDE DEF J
<1>6. InOrder(timer_expire(tm), J, tick) /\ \A x : Sparing(tm, timer_expire(tm), x)
    BY <1>1, <1>2, <1>5, ExpireInOrder
<1>7. Usable(o)
    BY <1>2, <1>3 DEF ListOK
<1> QED BY <1>2, <1>6, <1>7 DEF Sparing, J

(* One round of timer_run_expired.                                         *)
LEMMA RoundTimers ==
    ASSUME KernelInv, CallsOK, ListOK, timer_run_expired
    PROVE  KernelInv' /\ CallsOK' /\ ListOK'
<1> DEFINE o == Head(tm.list)
           R == timer_expire(tm)
           J == [tleft EXCEPT ![o] = @ + tm.period[o]]
<1>1. /\ InTrap /\ Handler(R, J) /\ trap' = trap /\ trap # "none" /\ TimerDue(tm)
      /\ UNCHANGED <<tick, boot, ret, reg, taskvars, left, owed, objvars>>
    BY DEF timer_run_expired, InTrap, history
<1> HIDE DEF R, J
<1>2. KernelInv' /\ CallsOK'
    BY <1>1, HandlerAwakens
<1>3. boot = "done" /\ tick \in Ticks
    <2>1. HandlerWakes
        BY <1>1 DEF HandlerWakes, Handler, taskvars
    <2> QED BY <2>1, HandlerFacts DEF KernelInv, TypeInv, TypeOK
<1>4. InOrder(R, J, tick) /\ R.callback = tm.callback
    BY <1>1, <1>3, RoundTimes DEF R, J
<1>5. InOrder(tm', tleft', tick) /\ tm'.callback = tm.callback
    BY <1>1, <1>3, <1>4, HandlerInOrder
<1>6. ListOK'
    BY <1>1, <1>3, <1>5 DEF ListOK, Usable, objvars
<1> QED BY <1>2, <1>6

-----------------------------------------------------------------------------
(* The calls of the tasks on timers.                                       *)
LEMMA CreateTimers ==
    ASSUME KernelInv, CallsOK, ListOK, NEW o \in Obj, trt_timer_create(o)
    PROVE  KernelInv' /\ CallsOK' /\ ListOK'
<1>1. /\ ~obj[o].alloc /\ UNCHANGED vars /\ call' = call
      /\ obj' = [obj EXCEPT ![o] = [alloc |-> TRUE, open |-> TRUE, destroyed |-> FALSE]]
      /\ tm' = timer_setup_obj(tm, o, TRUE) /\ tleft' = [tleft EXCEPT ![o] = 0]
    BY DEF trt_timer_create, Create
<1>2. KernelInv'
    BY <1>1, KernelNext
<1>3. /\ obj' \in [Obj -> ObjectRecord] /\ Usable(o)' /\ obj'[o].alloc
      /\ \A p \in Obj \ {o} : obj'[p] = obj[p]
    BY <1>1 DEF CallsOK, ObjectRecord, Usable
<1>4. CallsOK'
    <2>1. \A x \in Task : CallAt(x)'
        <3> SUFFICES ASSUME NEW x \in Task, call[x].o # None
                     PROVE  obj'[call[x].o] = obj[call[x].o] /\ CallAt(x)'
            BY <1>1 DEF CallAt
        <3>1. call[x].o \in Obj /\ CallAt(x)
            BY DEF CallsOK, CallRecord
        <3>2. call[x].o # o
            BY <1>1, <3>1 DEF CallAt
        <3> QED BY <1>1, <1>3, <3>1, <3>2 DEF CallAt, vars
    <2>2. \A p \in Obj : obj'[p].open => obj'[p].alloc
        BY <1>3 DEF CallsOK
    <2> QED BY <1>1, <1>3, <2>1, <2>2 DEF CallsOK
<1>5. tm' \in Timers /\ InOrder(tm', tleft', tick) /\ tm'.callback = [tm.callback EXCEPT ![o] = TRUE]
      /\ \A p \in Obj : tm'.active[p] => tleft'[p] = tleft[p] /\ tm.active[p]
    <2>1. InOrder(tm, tleft, tick) /\ tick \in Ticks
        BY DEF ListOK, KernelInv, TypeInv, TypeOK
    <2>2. ~tm.active[o]
        BY <1>1, <2>1 DEF ListOK, InOrder, TimerAt, Usable
    <2>3. Detached(tm, tleft, tick, o)
        BY <2>1, <2>2, UnlinkDetaches
    <2>4. tleft' \in Times /\ \A p \in Obj \ {o} : tleft'[p] = tleft[p]
        BY <1>1, <2>1 DEF InOrder, Times
    <2>5. /\ InOrder(tm', tleft', tick)
          /\ tm'.callback = [tm.callback EXCEPT ![o] = TRUE]
          /\ \A x \in Obj : tm'.active[x] => x # o /\ tm.active[x]
        <3> DEFINE b == TRUE
        <3>1. tm' = timer_setup_obj(tm, o, b) /\ b \in BOOLEAN
            BY <1>1
        <3> HIDE DEF b
        <3>2. /\ InOrder(tm', tleft', tick)
              /\ tm'.callback = [tm.callback EXCEPT ![o] = b]
              /\ \A x \in Obj : tm'.active[x] => x # o /\ tm.active[x]
            BY <2>1, <2>3, <2>4, <3>1, SetupInOrder
        <3> QED BY <3>2 DEF b
    <2> QED BY <2>4, <2>5 DEF InOrder
<1>6. \A p \in Obj : tm'.callback[p] => Usable(p)'
    <2>1. tm.callback \in [Obj -> BOOLEAN]
        BY DEF ListOK, InOrder, Timers
    <2> QED BY <1>3, <1>5, <2>1 DEF ListOK, Usable
<1>7. tm'.list = tm.list
    <2>1. tm \in Timers
        BY DEF ListOK, InOrder
    <2> QED BY <1>1, <2>1 DEF timer_setup_obj, Timers
<1>8. ListOK'
    BY <1>1, <1>5, <1>6, <1>7 DEF ListOK, vars
<1> QED BY <1>2, <1>4, <1>8

(* A call goes on, or comes to its end, and asks nothing of the kernel.    *)
LEMMA MovesOn ==
    ASSUME KernelInv, NEW t \in Task, NEW p \in OnwardPc \ {"y_chk"}, Runs(t),
           t # Idle, pc[t] \in ObjectPc \cup {"run"},
           Goto(t, p), fault' = fault,
           UNCHANGED <<k, tick, trap, boot, ret, reg, taskvars, left, owed>>
    PROVE  /\ KernelInv' /\ boot = "done" /\ trap = "none" /\ tick \in Ticks
           /\ UNCHANGED <<tick, trap, boot>>
           /\ pc'[t] = p /\ \A x \in Task \ {t} : pc'[x] = pc[x]
<1>1. Onward(t, p)
    BY DEF Onward, Wakes
<1>2. KernelInv'
    BY <1>1, OnwardKernel
<1>3. boot = "done" /\ trap = "none" /\ tick \in Ticks
    BY AlwaysFacts DEF KernelInv, Runs, TypeInv, TypeOK
<1>4. pc \in [Task -> Pc]
    BY DEF KernelInv, TypeInv, TypeOK
<1> QED BY <1>2, <1>3, <1>4 DEF Goto

(* A task in a call is not the idle task.                                  *)
LEMMA CallerNotIdle ==
    ASSUME KernelInv, NEW t \in Task, Runs(t), pc[t] \in ObjectPc
    PROVE  t # Idle
<1>1. t = Idle => pc[t] \in IdlePc
    BY AlwaysFacts DEF KernelInv
<1> QED BY <1>1 DEF IdlePc, ObjectPc

(* The record of one call changes; it names the object it named before.    *)
LEMMA OneCall ==
    ASSUME CallsOK, NEW t \in Task, NEW c \in CallRecord, obj' = obj,
           call' = [call EXCEPT ![t] = c], \A x \in Task \ {t} : pc'[x] = pc[x],
           c.o # None => obj[c.o].alloc /\ (pc'[t] \in Releasing => obj[c.o].destroyed)
    PROVE  CallsOK'
<1>1. call' \in [Task -> CallRecord] /\ call'[t] = c /\ \A x \in Task \ {t} : call'[x] = call[x]
    BY DEF CallsOK
<1>2. \A x \in Task : CallAt(x)'
    BY <1>1 DEF CallsOK, CallAt
<1> QED BY <1>1, <1>2 DEF CallsOK

(* The handle is looked up.                                                *)
LEMMA LookupTimers ==
    ASSUME KernelInv, CallsOK, ListOK, NEW t \in Task, TimerCall(t)
    PROVE  KernelInv' /\ CallsOK' /\ ListOK'
<1>1. PICK o \in Obj, op \in ObjOps, d \in Delays \cup {0} : timer_lookup(t, o, op, d)
    BY DEF TimerCall
<1> DEFINE c == [op |-> op, o |-> o, d |-> d, woken |-> FALSE]
<1>2. /\ Runs(t) /\ pc[t] = "run" /\ t # Idle /\ obj[o].open
      /\ call' = [call EXCEPT ![t] = c] /\ Goto(t, "o_op") /\ fault' = fault /\ obj' = obj
      /\ UNCHANGED <<k, tick, trap, boot, ret, reg, taskvars, left, owed>>
      /\ tm' = tm /\ tleft' = tleft
    BY <1>1 DEF timer_lookup, Lookup, At, history
<1>3. c \in CallRecord /\ c.o = o
    BY DEF CallRecord
<1> HIDE DEF c
<1>4. "o_op" \in OnwardPc \ {"y_chk"} /\ "o_op" \notin Releasing
    BY DEF OnwardPc, Releasing
<1>5. /\ KernelInv' /\ UNCHANGED <<tick, trap, boot>>
      /\ pc'[t] = "o_op" /\ \A x \in Task \ {t} : pc'[x] = pc[x]
    BY <1>2, <1>4, MovesOn
<1>6. obj[o].alloc
    BY <1>2 DEF CallsOK
<1>7. CallsOK'
    BY <1>2, <1>3, <1>4, <1>5, <1>6, OneCall
<1>8. ListOK'
    BY <1>2, <1>5, TimersKept DEF Usable
<1> QED BY <1>5, <1>7, <1>8

(* A call on a timer, with interrupts off, that goes on at p: what the     *)
(* kernel below does, and what the caller has.                             *)
LEMMA CallMovesOn ==
    ASSUME KernelInv, CallsOK, NEW t \in Task, NEW o \in Obj, Runs(t), pc[t] \in ObjectPc,
           call[t].o = o,
           NEW p \in {"run", "o_crit", "o_close", "o_free"}, Goto(t, p), fault' = fault,
           UNCHANGED <<k, tick, trap, boot, ret, reg, taskvars, left, owed>>
    PROVE  /\ KernelInv' /\ boot = "done" /\ trap = "none" /\ tick \in Ticks
           /\ UNCHANGED <<tick, trap, boot>>
           /\ pc'[t] = p /\ \A x \in Task \ {t} : pc'[x] = pc[x]
           /\ obj[o].alloc /\ (pc[t] \in Releasing => obj[o].destroyed)
           /\ call[t] \in CallRecord
<1>1. t # Idle /\ p \in OnwardPc \ {"y_chk"}
    BY CallerNotIdle DEF OnwardPc
<1>2. obj[o].alloc /\ (pc[t] \in Releasing => obj[o].destroyed) /\ call[t] \in CallRecord
    BY ObjectAssumption DEF CallsOK, CallAt
<1> QED BY <1>1, <1>2, MovesOn

(* The call returns without having done anything to the objects.           *)
LEMMA CallReturns ==
    ASSUME CallsOK, NEW t \in Task, obj' = obj, call' = [call EXCEPT ![t] = NoCall],
           \A x \in Task \ {t} : pc'[x] = pc[x]
    PROVE  CallsOK'
<1>1. NoCall \in CallRecord /\ NoCall.o = None
    BY DEF CallRecord, NoCall
<1> QED BY <1>1, OneCall

(* trt_timer_start tests the callback.                                     *)
LEMMA StartCheckTimers ==
    ASSUME KernelInv, CallsOK, ListOK, NEW t \in Task, NEW o \in Obj, timer_start_check(t, o)
    PROVE  KernelInv' /\ CallsOK' /\ ListOK'
<1> DEFINE p == IF tm.callback[o] THEN "o_crit" ELSE "run"
<1>1. /\ Runs(t) /\ pc[t] \in ObjectPc /\ call[t].o = o
      /\ Goto(t, p) /\ p \in {"run", "o_crit", "o_close", "o_free"} /\ fault' = fault
      /\ UNCHANGED <<k, tick, trap, boot, ret, reg, taskvars, left, owed>>
      /\ obj' = obj /\ tm' = tm /\ tleft' = tleft
    BY DEF timer_start_check, Operates, At, ObjectPc, Return, history
<1>2. p \notin Releasing /\ (call' = call \/ call' = [call EXCEPT ![t] = NoCall])
    BY DEF timer_start_check, Return, Releasing
<1> HIDE DEF p
<1>3. /\ KernelInv' /\ UNCHANGED <<tick, trap, boot>>
      /\ pc'[t] = p /\ \A x \in Task \ {t} : pc'[x] = pc[x]
    BY <1>1, CallMovesOn
<1>4. CallsOK'
    <2>1. CASE call' = call
        <3>1. \A x \in Task : pc'[x] \in Releasing => pc[x] \in Releasing
            BY <1>2, <1>3
        <3> QED BY <1>1, <2>1, <3>1, CallsKept DEF objvars
    <2>2. CASE call' = [call EXCEPT ![t] = NoCall]
        BY <1>1, <1>3, <2>2, CallReturns
    <2> QED BY <1>2, <2>1, <2>2
<1>5. ListOK'
    BY <1>1, <1>3, TimersKept DEF Usable
<1> QED BY <1>3, <1>4, <1>5

(* The critical section of trt_timer_start, unless the timer was destroyed *)
(* since.                                                                  *)
LEMMA StartTimers ==
    ASSUME KernelInv, CallsOK, ListOK, NEW t \in Task, NEW o \in Obj, timer_start(t, o),
           fault = {}, fault' = {}
    PROVE  KernelInv' /\ CallsOK' /\ ListOK'
<1> DEFINE d == call[t].d
           p == PeriodOf(call[t].op)
<1>1. /\ Runs(t) /\ pc[t] \in ObjectPc /\ call[t].o = o /\ Goto(t, "run") /\ tm.callback[o]
      /\ UNCHANGED <<k, tick, trap, boot, ret, reg, taskvars, left, owed>>
      /\ obj' = obj /\ call' = [call EXCEPT ![t] = NoCall]
      /\ tm' = timer_start_ticks_obj(tm, o, d, p) /\ tleft' = [tleft EXCEPT ![o] = d]
    BY DEF timer_start, At, ObjectPc, Return
<1>2. /\ KernelInv' /\ boot = "done" /\ tick \in Ticks /\ UNCHANGED <<tick, trap, boot>>
      /\ \A x \in Task \ {t} : pc'[x] = pc[x]
      /\ call[t] \in CallRecord
    <2>1. fault' = fault /\ "run" \in {"run", "o_crit", "o_close", "o_free"}
        OBVIOUS
    <2> QED BY <1>1, <2>1, CallMovesOn
<1>3. CallsOK'
    BY <1>1, <1>2, CallReturns
<1>4. d \in Delays \cup {0} /\ p \in {0, Period} /\ InOrder(tm, tleft, tick)
    BY <1>2 DEF CallRecord, PeriodOf, ListOK
<1> HIDE DEF d, p
<1>5. InOrder(tm', tleft', tick) /\ Sparing(tm, tm', o)
    BY <1>1, <1>2, <1>4, StartInOrder
<1>6. \A x \in Obj : tm'.active[x] => tleft'[x] >= 0 \/ trap # "none"
    <2> SUFFICES ASSUME NEW x \in Obj, tm'.active[x], trap = "none" PROVE tleft'[x] >= 0
        OBVIOUS
    <2>1. tleft \in [Obj -> Int] /\ d >= 0
        BY <1>4, TimerBounds DEF InOrder, Times
    <2>2. CASE x = o
        BY <1>1, <2>1, <2>2
    <2>3. CASE x # o
        <3>1. tm.active[x]
            BY <1>5, <2>3 DEF Sparing
        <3> QED BY <1>1, <2>1, <2>3, <3>1 DEF ListOK
    <2> QED BY <2>2, <2>3
<1>7. ListOK'
    BY <1>1, <1>2, <1>5, <1>6 DEF ListOK, Usable, Sparing
<1> QED BY <1>2, <1>3, <1>7

(* trt_timer_stop.                                                         *)
LEMMA StopTimers ==
    ASSUME KernelInv, CallsOK, ListOK, NEW t \in Task, NEW o \in Obj, timer_stop(t, o)
    PROVE  KernelInv' /\ CallsOK' /\ ListOK'
<1>1. /\ Runs(t) /\ pc[t] \in ObjectPc /\ call[t].o = o /\ Goto(t, "run") /\ fault' = fault
      /\ UNCHANGED <<k, tick, trap, boot, ret, reg, taskvars, left, owed>>
      /\ obj' = obj /\ call' = [call EXCEPT ![t] = NoCall]
      /\ tm' = timer_stop_obj(tm, o) /\ tleft' = tleft
    BY DEF timer_stop, Operates, At, ObjectPc, ReturnUnchanged, Return, history
<1>2. /\ KernelInv' /\ boot = "done" /\ UNCHANGED <<tick, trap, boot>>
      /\ \A x \in Task \ {t} : pc'[x] = pc[x]
    <2>1. "run" \in {"run", "o_crit", "o_close", "o_free"}
        OBVIOUS
    <2> QED BY <1>1, <2>1, CallMovesOn
<1>3. CallsOK'
    BY <1>1, <1>2, CallReturns
<1>4. InOrder(tm, tleft, tick)
    BY DEF ListOK
<1>5. InOrder(tm', tleft', tick) /\ \A x : Sparing(tm, tm', x)
    BY <1>1, <1>4, StopInOrder
<1>6. tm'.callback = tm.callback /\ \A x \in Obj : tm'.active[x] => tm.active[x]
    <2> SUFFICES ASSUME NEW x \in Obj
                 PROVE  tm'.callback = tm.callback /\ (tm'.active[x] => tm.active[x])
        BY <1>5 DEF Sparing
    <2>1. Sparing(tm, tm', None)
        BY <1>5
    <2>2. None # x
        BY ObjectAssumption
    <2> QED BY <2>1, <2>2 DEF Sparing
<1>7. ListOK'
    BY <1>1, <1>2, <1>5, <1>6 DEF ListOK, Usable
<1> QED BY <1>2, <1>3, <1>7

(* The critical section of trt_timer_destroy.                              *)
LEMMA DestroyTimers ==
    ASSUME KernelInv, CallsOK, ListOK, NEW t \in Task, NEW o \in Obj, timer_destroy(t, o)
    PROVE  KernelInv' /\ CallsOK' /\ ListOK'
<1>1. /\ Runs(t) /\ pc[t] \in ObjectPc /\ call[t].o = o /\ Goto(t, "o_close") /\ fault' = fault
      /\ UNCHANGED <<k, tick, trap, boot, ret, reg, taskvars, left, owed>>
      /\ obj' = [obj EXCEPT ![o].destroyed = TRUE] /\ call' = call
      /\ tm' = timer_destroy_obj(tm, o) /\ tleft' = tleft
    BY DEF timer_destroy, Operates, At, ObjectPc, history
<1>2. /\ KernelInv' /\ boot = "done" /\ tick \in Ticks /\ UNCHANGED <<tick, trap, boot>>
      /\ \A x \in Task \ {t} : pc'[x] = pc[x]
      /\ obj[o].alloc
    <2>1. "o_close" \in {"run", "o_crit", "o_close", "o_free"}
        OBVIOUS
    <2> QED BY <1>1, <2>1, CallMovesOn
<1>3. /\ obj' \in [Obj -> ObjectRecord] /\ obj'[o].destroyed
      /\ \A p \in Obj : obj'[p].alloc = obj[p].alloc /\ obj'[p].open = obj[p].open
      /\ \A p \in Obj \ {o} : obj'[p] = obj[p]
    BY <1>1 DEF CallsOK, ObjectRecord
<1>4. CallsOK'
    <2>1. \A x \in Task : CallAt(x)'
        <3> SUFFICES ASSUME NEW x \in Task, call[x].o # None PROVE CallAt(x)'
            BY <1>1 DEF CallAt
        <3>1. call[x].o \in Obj /\ CallAt(x)
            BY DEF CallsOK, CallRecord
        <3>2. CASE call[x].o = o
            BY <1>1, <1>2, <1>3, <3>2 DEF CallAt
        <3>3. CASE call[x].o # o
            BY <1>1, <1>2, <1>3, <3>1, <3>3 DEF CallAt
        <3> QED BY <3>2, <3>3
    <2> QED BY <1>1, <1>3, <2>1 DEF CallsOK
<1>5. /\ InOrder(tm', tleft', tick)
      /\ tm'.callback = [tm.callback EXCEPT ![o] = FALSE]
      /\ \A x \in Obj : tm'.active[x] => tm.active[x]
    <2> DEFINE u == timer_unlink(tm, o)
               b == FALSE
    <2>1. InOrder(tm, tleft, tick) /\ tleft \in Times /\ tm \in Timers
        BY DEF ListOK, InOrder
    <2>2. Detached(u, tleft, tick, o) /\ u.callback = tm.callback /\ u.active = tm.active
        BY <2>1, UnlinkDetaches DEF timer_unlink, Timers
    <2>3. tm' = timer_setup_obj(u, o, b) /\ b \in BOOLEAN /\ tleft' = tleft
        BY <1>1 DEF timer_destroy_obj
    <2> HIDE DEF u, b
    <2>4. /\ InOrder(tm', tleft, tick) /\ tm'.callback = [u.callback EXCEPT ![o] = b]
          /\ \A x \in Obj : tm'.active[x] => x # o /\ u.active[x]
        BY <1>2, <2>1, <2>2, <2>3, SetupInOrder
    <2> QED BY <2>2, <2>3, <2>4 DEF b
<1>6. \A p \in Obj : tm'.callback[p] => Usable(p)'
    <2>1. tm.callback \in [Obj -> BOOLEAN]
        BY DEF ListOK, InOrder, Timers
    <2> QED BY <1>3, <1>5, <2>1 DEF ListOK, Usable
<1>7. ListOK'
    BY <1>1, <1>2, <1>5, <1>6 DEF ListOK
<1> QED BY <1>2, <1>4, <1>7

(* The handle is closed.                                                   *)
LEMMA CloseTimers ==
    ASSUME KernelInv, CallsOK, ListOK, NEW t \in Task, call[t].o # None, Close(t),
           UNCHANGED <<tm, tleft>>
    PROVE  KernelInv' /\ CallsOK' /\ ListOK'
<1> DEFINE o == call[t].o
<1>1. o \in Obj
    BY DEF CallsOK, CallRecord
<1>2. /\ Runs(t) /\ pc[t] \in ObjectPc /\ pc[t] \in Releasing /\ Goto(t, "o_free") /\ fault' = fault
      /\ UNCHANGED <<k, tick, trap, boot, ret, reg, taskvars, left, owed>>
      /\ obj' = [obj EXCEPT ![o].open = FALSE] /\ call' = call
    BY DEF Close, At, ObjectPc, Releasing, history
<1> HIDE DEF o
<1>3. /\ KernelInv' /\ UNCHANGED <<tick, trap, boot>>
      /\ \A x \in Task \ {t} : pc'[x] = pc[x]
      /\ obj[o].alloc /\ obj[o].destroyed
    <2>1. "o_free" \in {"run", "o_crit", "o_close", "o_free"} /\ call[t].o = o
        BY DEF o
    <2> QED BY <1>1, <1>2, <2>1, CallMovesOn
<1>4. /\ obj' \in [Obj -> ObjectRecord] /\ ~obj'[o].open
      /\ \A p \in Obj : obj'[p].alloc = obj[p].alloc /\ obj'[p].destroyed = obj[p].destroyed
      /\ \A p \in Obj \ {o} : obj'[p] = obj[p]
    BY <1>1, <1>2 DEF CallsOK, ObjectRecord
<1>5. CallsOK'
    <2>1. \A x \in Task : CallAt(x)'
        <3> SUFFICES ASSUME NEW x \in Task, call[x].o # None PROVE CallAt(x)'
            BY <1>2 DEF CallAt
        <3>1. call[x].o \in Obj /\ CallAt(x)
            BY DEF CallsOK, CallRecord
        <3>2. CASE x = t
            BY <1>2, <1>3, <1>4, <3>1, <3>2 DEF CallAt, o
        <3>3. CASE x # t
            BY <1>2, <1>3, <1>4, <3>1, <3>3 DEF CallAt
        <3> QED BY <3>2, <3>3
    <2>2. \A p \in Obj : obj'[p].open => obj'[p].alloc
        BY <1>4 DEF CallsOK
    <2> QED BY <1>2, <1>4, <2>1, <2>2 DEF CallsOK
<1>6. ListOK'
    BY <1>3, <1>4, TimersKept DEF Usable
<1> QED BY <1>3, <1>5, <1>6

(* The memory is freed.                                                    *)
LEMMA FreeTimers ==
    ASSUME KernelInv, CallsOK, ListOK, NEW t \in Task, call[t].o # None, Free(t),
           UNCHANGED <<tm, tleft>>
    PROVE  KernelInv' /\ CallsOK' /\ ListOK'
<1> DEFINE o == call[t].o
           p == IF call[t].woken THEN "y_chk" ELSE "run"
<1>1. o \in Obj
    BY DEF CallsOK, CallRecord
<1>2. /\ Runs(t) /\ pc[t] \in ObjectPc /\ pc[t] \in Releasing /\ Goto(t, p) /\ fault' = fault
      /\ ret' = IF p = "y_chk" THEN [ret EXCEPT ![t] = "run"] ELSE ret
      /\ UNCHANGED <<k, tick, trap, boot, reg, taskvars, left, owed>>
      /\ obj' = [obj EXCEPT ![o] = NoObj]
    BY DEF Free, At, ObjectPc, Releasing, history, CallYield
<1>3. call' = [u \in Task |-> CASE u = t -> NoCall
                                [] u # t /\ call[u].o = o -> [call[u] EXCEPT !.o = None]
                                [] OTHER -> call[u]]
    BY DEF Free
<1>4. p \in OnwardPc /\ p \notin Releasing /\ obj[o].destroyed
    BY <1>1, <1>2, ObjectAssumption DEF OnwardPc, Releasing, CallsOK, CallAt
<1> HIDE DEF o, p
<1>5. /\ KernelInv' /\ UNCHANGED <<tick, trap, boot>>
      /\ \A x \in Task \ {t} : pc'[x] = pc[x]
    <2>1. t # Idle
        BY <1>2, CallerNotIdle
    <2>2. Onward(t, p)
        BY <1>2, <2>1 DEF Onward, Wakes
    <2>3. pc \in [Task -> Pc]
        BY DEF KernelInv, TypeInv, TypeOK
    <2> QED BY <1>2, <1>4, <2>2, <2>3, OnwardKernel DEF Goto
<1>6. /\ obj' \in [Obj -> ObjectRecord] /\ obj'[o] = NoObj
      /\ \A q \in Obj \ {o} : obj'[q] = obj[q]
    BY <1>1, <1>2 DEF CallsOK, ObjectRecord, NoObj
<1>7. ASSUME NEW x \in Task
      PROVE  /\ call'[x] \in CallRecord
             /\ call'[x].o # None => x # t /\ call'[x] = call[x] /\ call[x].o \in Obj \ {o}
    <2>1. call[x] \in CallRecord
        BY DEF CallsOK
    <2>2. CASE x = t
        BY <1>3, <2>2 DEF NoCall, CallRecord
    <2>3. CASE x # t /\ call[x].o = o
        BY <1>3, <2>1, <2>3 DEF CallRecord
    <2>4. CASE x # t /\ call[x].o # o
        BY <1>3, <2>1, <2>4 DEF CallRecord
    <2> QED BY <2>2, <2>3, <2>4
<1>8. CallsOK'
    <2>1. call' \in [Task -> CallRecord]
        BY <1>3, <1>7
    <2>2. \A x \in Task : CallAt(x)'
        <3> SUFFICES ASSUME NEW x \in Task, call'[x].o # None PROVE CallAt(x)'
            BY DEF CallAt
        <3>1. /\ x # t /\ call'[x] = call[x] /\ call[x].o \in Obj \ {o} /\ CallAt(x)
            BY <1>7 DEF CallsOK
        <3> QED BY <1>5, <1>6, <3>1 DEF CallAt
    <2>3. \A q \in Obj : obj'[q].open => obj'[q].alloc
        BY <1>6 DEF CallsOK, NoObj
    <2> QED BY <1>6, <2>1, <2>2, <2>3 DEF CallsOK
<1>9. \A q \in Obj : tm.callback[q] => Usable(q)'
    <2> SUFFICES ASSUME NEW q \in Obj, tm.callback[q] PROVE Usable(q)'
        OBVIOUS
    <2>1. Usable(q)
        BY DEF ListOK
    <2>2. q # o
        BY <1>4, <2>1 DEF Usable
    <2> QED BY <1>6, <2>1, <2>2 DEF Usable
<1>10. ListOK'
    BY <1>5, <1>9 DEF ListOK
<1> QED BY <1>5, <1>8, <1>10

-----------------------------------------------------------------------------
(* Every step, until a fault.                                              *)
LEMMA NextTimer == TimerInv /\ [TimerNext]_allvars => TimerInv'
<1> SUFFICES ASSUME TimerInv, [TimerNext]_allvars, fault' = {}
             PROVE  KernelInv' /\ CallsOK' /\ ListOK'
    BY DEF TimerInv
<1>1. CASE UNCHANGED allvars
    <2>1. UNCHANGED vars /\ UNCHANGED timervars
        BY <1>1 DEF allvars
    <2>2. fault = {}
        BY <2>1 DEF vars, history
    <2>3. KernelInv /\ CallsOK /\ ListOK
        BY <2>2 DEF TimerInv
    <2>4. KernelInv'
        BY <2>1, <2>3, KernelNext
    <2>5. UNCHANGED objvars /\ UNCHANGED <<tm, tleft, pc, tick, trap, boot>>
        BY <2>1 DEF vars, timervars
    <2> QED BY <2>3, <2>4, <2>5, CallsKept, TimersKept DEF Usable, objvars
<1>2. CASE fault # {}
    <2>1. UNCHANGED allvars
        BY <1>2 DEF TimerNext, Undefined
    <2> QED BY <1>1, <2>1
<1>3. CASE fault = {} /\ TimerNext
    <2>1. KernelInv /\ CallsOK /\ ListOK
        BY <1>3 DEF TimerInv
    <2>2. CASE TimerBoot
        BY <2>1, <2>2, BootTimers
    <2>3. ASSUME NEW o \in Obj, trt_timer_create(o) PROVE KernelInv' /\ CallsOK' /\ ListOK'
        BY <2>1, <2>3, CreateTimers
    <2>4. ASSUME NEW t \in Task, AppCall(t) \/ KernelStep(t), UNCHANGED timervars
          PROVE  KernelInv' /\ CallsOK' /\ ListOK'
        BY <2>1, <2>4, TaskStepTimers
    <2>5. ASSUME NEW t \in Task, TimerCall(t) PROVE KernelInv' /\ CallsOK' /\ ListOK'
        BY <2>1, <2>5, LookupTimers
    <2>6. ASSUME NEW t \in Task, TimerStep(t) PROVE KernelInv' /\ CallsOK' /\ ListOK'
        <3>1. ASSUME NEW o \in Obj, \/ timer_start_check(t, o) \/ timer_start(t, o)
                                    \/ timer_stop(t, o) \/ timer_destroy(t, o)
              PROVE  KernelInv' /\ CallsOK' /\ ListOK'
            BY <1>3, <2>1, <3>1, StartCheckTimers, StartTimers, StopTimers, DestroyTimers
        <3>2. CASE trt_timer_destroy(t)
            BY <2>1, <3>2, CloseTimers, FreeTimers DEF trt_timer_destroy
        <3>3. ~timer_freed(t)
            BY DEF timer_freed, UseFreed
        <3> QED BY <2>6, <3>1, <3>2, <3>3 DEF TimerStep
    <2>7. CASE TimerSystick
        BY <2>1, <2>7, SystickTimers
    <2>8. CASE timer_irq
        BY <2>1, <2>8, IrqTimers
    <2>9. CASE TimerTrap
        BY <2>1, <2>9, TrapTimers, RoundTimers DEF TimerTrap
    <2>10. CASE Undefined
        BY <1>1, <2>10 DEF Undefined
    <2> QED BY <1>3, <2>2, <2>3, <2>4, <2>5, <2>6, <2>7, <2>8, <2>9, <2>10 DEF TimerNext
<1> QED BY <1>1, <1>2, <1>3

(* The invariant of the timers, always.                                    *)
LEMMA TimersAlways == TimerSpec => []TimerInv
BY InitTimer, NextTimer, PTL DEF TimerSpec

-----------------------------------------------------------------------------
(* What the runs check of the timers, for every value of the constants.    *)
LEMMA ListSound == TimerInv => TimerListSound
<1> SUFFICES ASSUME fault = {}, KernelInv, CallsOK, ListOK
             PROVE  /\ TimerTypeOK
                    /\ \A o \in Obj : tm.active[o] <=> Contains(tm.list, o)
                    /\ \A i, j \in DOMAIN tm.list :
                          i < j => /\ tm.list[i] # tm.list[j]
                                   /\ tleft[tm.list[i]] <= tleft[tm.list[j]]
                    /\ \A o \in Obj : tm.active[o] => Usable(o) /\ tm.callback[o]
    BY DEF TimerInv, TimerListSound
<1>1. /\ tm \in Timers /\ tleft \in Times /\ tm.list \in Seq(Obj)
      /\ Distinct(tm.list) /\ Falling(tm.list, Overdue(tleft))
      /\ \A o \in Obj : TimerAt(tm, tleft, tick, o) /\ (tm.active[o] <=> Contains(tm.list, o))
    BY DEF ListOK, InOrder, Timers
<1>2. TimerTypeOK
    <2>1. ObjTypeOK
        BY DEF ObjTypeOK, CallsOK, ObjectRecord, CallRecord, KernelInv, TypeInv
    <2> QED BY <1>1, <2>1 DEF TimerTypeOK, Timers, Times
<1>3. ASSUME NEW i \in DOMAIN tm.list, NEW j \in DOMAIN tm.list, i < j
      PROVE  tm.list[i] # tm.list[j] /\ tleft[tm.list[i]] <= tleft[tm.list[j]]
    <2>1. i \in 1..Len(tm.list) /\ j \in 1..Len(tm.list) /\ i # j
        BY <1>1, <1>3
    <2>2. tm.list[i] # tm.list[j]
        BY <2>1, <1>1 DEF Distinct
    <2>3. tm.list[i] \in Obj /\ tm.list[j] \in Obj
        BY <1>1, <2>1, ElementOfSeq
    <2>4. Overdue(tleft)[tm.list[i]] >= Overdue(tleft)[tm.list[j]]
        BY <1>1, <1>3, <2>1 DEF Falling
    <2>5. /\ Overdue(tleft)[tm.list[i]] = -tleft[tm.list[i]]
          /\ Overdue(tleft)[tm.list[j]] = -tleft[tm.list[j]]
          /\ tleft[tm.list[i]] \in Int /\ tleft[tm.list[j]] \in Int
        BY <1>1, <2>3, OverdueType DEF Times
    <2>6. tleft[tm.list[i]] <= tleft[tm.list[j]]
        BY <2>4, <2>5
    <2> QED BY <2>2, <2>6
<1>4. \A o \in Obj : tm.active[o] => Usable(o) /\ tm.callback[o]
    BY <1>1 DEF TimerAt, ListOK
<1> QED BY <1>1, <1>2, <1>3, <1>4

(* The timer list holds exactly the active timers, each once, in the order *)
(* in which they are due, and none of them is destroyed or freed           *)
(* (timer_insert_locked, timer_unlink and their callers in timer.c).       *)
THEOREM TimerListCorrect == TimerSpec => []TimerListSound
BY TimersAlways, ListSound, PTL

(* The step out of a trap leaves no timer that is due.                     *)
LEMMA TrapLeft ==
    TimerInv /\ [TimerNext]_allvars =>
        [fault = {} /\ trap # "none" /\ trap' = "none" =>
            \A o \in Obj : tm.active[o] => tleft[o] > 0]_allvars
<1> SUFFICES ASSUME TimerInv, [TimerNext]_allvars, fault = {}, trap # "none", trap' = "none"
             PROVE  \A o \in Obj : tm.active[o] => tleft[o] > 0
    OBVIOUS
<1>1. KernelInv /\ ListOK /\ tick \in Ticks
    BY DEF TimerInv, KernelInv, TypeInv, TypeOK
<1>2. TimerNext
    BY DEF allvars, vars
<1>3. CASE trap_return
    BY <1>1, <1>3, NoneDue DEF trap_return, ListOK
<1>4. CASE ~trap_return
    <2>1. ~TimerBoot
        BY DEF TimerBoot, kernel_init, app_main_object, app_main_create, rtos_start
    <2>2. ASSUME NEW o \in Obj, trt_timer_create(o) PROVE FALSE
        BY <2>2 DEF trt_timer_create, Create, vars
    <2>3. ASSUME NEW t \in Task, AppCall(t) \/ KernelStep(t) PROVE FALSE
        BY <1>1, <2>3, TaskStepKeeps DEF KernelInv
    <2>4. ASSUME NEW t \in Task, TimerCall(t) \/ TimerStep(t) PROVE FALSE
        <3>1. trap = "none"
            BY <2>4 DEF TimerCall, timer_lookup, Lookup, TimerStep, timer_start_check, timer_start,
               timer_stop, timer_destroy, trt_timer_destroy, timer_freed, Close, Free, Operates,
               At, Runs
        <3> QED BY <3>1
    <2>5. ~TimerSystick /\ ~timer_irq
        BY DEF TimerSystick, timer_systick, SysTick, timer_irq
    <2>6. ~TimerTrap
        BY <1>4 DEF TimerTrap, sched_wake_expired, timer_run_expired
    <2>7. ~Undefined
        BY DEF Undefined
    <2> QED BY <1>2, <2>1, <2>2, <2>3, <2>4, <2>5, <2>6, <2>7 DEF TimerNext
<1> QED BY <1>3, <1>4

(* A step of the trap handler that changes the timers calls one whose time *)
(* has come.                                                               *)
LEMMA CallsOnTime ==
    TimerInv /\ [TimerNext]_allvars =>
        [fault = {} /\ trap # "none" /\ trap' = trap /\ tm' # tm =>
            LET o == Head(tm.list) IN tleft[o] <= 0 /\ Usable(o)]_allvars
<1> DEFINE o == Head(tm.list)
<1> SUFFICES ASSUME TimerInv, [TimerNext]_allvars, fault = {}, trap # "none", trap' = trap,
                    tm' # tm
             PROVE  tleft[o] <= 0 /\ Usable(o)
    OBVIOUS
<1>1. KernelInv /\ ListOK /\ tick \in Ticks
    BY DEF TimerInv, KernelInv, TypeInv, TypeOK
<1>2. TimerNext
    BY DEF allvars, timervars
<1>3. boot = "done"
    BY <1>1 DEF KernelInv, AlwaysInv, BootOK
<1>4. timer_run_expired
    <2>1. ~TimerBoot
        BY <1>3 DEF TimerBoot, kernel_init, app_main_object, app_main_create, rtos_start
    <2>2. ASSUME NEW p \in Obj, trt_timer_create(p) PROVE FALSE
        BY <1>3, <2>2 DEF trt_timer_create, Create, At, Runs
    <2>3. ~UNCHANGED timervars
        BY DEF timervars
    <2>4. ASSUME NEW t \in Task, TimerCall(t) \/ TimerStep(t) PROVE FALSE
        <3>1. trap = "none"
            BY <2>4 DEF TimerCall, timer_lookup, Lookup, TimerStep, timer_start_check, timer_start,
               timer_stop, timer_destroy, trt_timer_destroy, timer_freed, Close, Free, Operates,
               At, Runs
        <3> QED BY <3>1
    <2>5. ~TimerSystick /\ ~timer_irq
        BY DEF TimerSystick, timer_systick, SysTick, timer_irq, Interrupted, CanInterrupt
    <2>6. ~Undefined
        BY DEF Undefined
    <2> QED BY <1>2, <2>1, <2>2, <2>3, <2>4, <2>5, <2>6 DEF TimerNext, TimerTrap
<1>5. TimerDue(tm)
    BY <1>4 DEF timer_run_expired
<1> QED BY <1>1, <1>5, RoundTimes

(* A trap is not left while a timer is due (the loop of timer_run_expired, *)
(* which do_trap calls).                                                   *)
THEOREM NoTimerIsForgotten == TimerSpec => DueTimersRun
BY TimersAlways, TrapLeft, PTL DEF TimerSpec, DueTimersRun

(* A callback is not called before the time its timer was started for, nor *)
(* after its timer was destroyed (timer_run_expired).                      *)
THEOREM TimersFireOnTime == TimerSpec => NoEarlyFire
BY TimersAlways, CallsOnTime, PTL DEF TimerSpec, NoEarlyFire

=============================================================================
