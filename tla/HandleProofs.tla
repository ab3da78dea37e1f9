---------------------------- MODULE HandleProofs ----------------------------
(***************************************************************************)
(* Proofs about Handle, for every size of the table and of the generation  *)
(* field.                                                                  *)
(***************************************************************************)
EXTENDS Handle, ListLemmas, FiniteSetTheorems, FunctionTheorems

(* The generation an entry has d closes after generation g, d < GenMax. *)
Later(g, d) == IF g + d <= GenMax THEN g + d ELSE g + d - GenMax

(* Before the first call the table is empty; afterwards every entry has a  *)
(* generation that is not 0, and the entries in use are complete.          *)
TableInv ==
    /\ ~handle_initialized => issued = {} /\ \A i \in Index : ~handle_table[i].used
    /\ handle_initialized => \A i \in Index : handle_table[i].generation \in Generation
    /\ \A i \in Index : handle_table[i].used =>
          handle_table[i].object \in Object /\ handle_table[i].type \in Type

(* The generation of an entry tells how old each of its handles is. *)
IssueOK(r) ==
    LET i == handle_index(r.h) IN
    /\ i \in Index
    /\ handle_generation(r.h) \in Generation
    /\ r.age < GenMax
    /\ handle_table[i].generation = Later(handle_generation(r.h), r.age)
    /\ r.age = 0 => /\ handle_table[i].used
                    /\ handle_table[i].object = r.object
                    /\ handle_table[i].type = r.type
                    /\ handle_table[i].rights = r.rights

IssuedInv == \A r \in issued : IssueOK(r)

Inv == TypeOK /\ TableInv /\ IssuedInv

-----------------------------------------------------------------------------
(* Packing and unpacking a handle are inverse to each other. *)
LEMMA Packing ==
    ASSUME NEW i \in Index, NEW g \in Generation
    PROVE  /\ handle_make(i, g) \in Nat
           /\ handle_make(i, g) # 0
           /\ handle_index(handle_make(i, g)) = i
           /\ handle_generation(handle_make(i, g)) = g
BY HandleAssumption, SMTT(30) DEF Index, Generation, handle_make, handle_index, handle_generation

(* A handle that is not 0 and has its index and generation in range is the *)
(* packing of the two.                                                     *)
LEMMA Unpacking ==
    ASSUME NEW h \in Nat
    PROVE  h = handle_make(handle_index(h), handle_generation(h))
BY SMTT(30) DEF handle_make, handle_index, handle_generation

(* The table a call works on has the invariant and is marked initialised. *)
LEMMA Initialised ==
    ASSUME Inv
    PROVE  /\ InitializedTable \in [Index -> handle_slot_t]
           /\ \A i \in Index : InitializedTable[i].generation \in Generation
           /\ \A i \in Index : InitializedTable[i].used =>
                 InitializedTable[i].object \in Object /\ InitializedTable[i].type \in Type
           /\ handle_initialized => InitializedTable = handle_table
           /\ ~handle_initialized => issued = {}
<1>1. CASE handle_initialized
    BY <1>1 DEF Inv, TypeOK, TableInv, InitializedTable
<1>2. CASE ~handle_initialized
    <2>1. InitializedTable = [i \in Index |-> FreeSlot(1)]
        BY <1>2 DEF InitializedTable
    <2>2. FreeSlot(1) \in handle_slot_t
        BY HandleAssumption DEF FreeSlot, handle_slot_t
    <2>3. FreeSlot(1).generation \in Generation /\ ~FreeSlot(1).used
        BY HandleAssumption DEF FreeSlot, Generation
    <2> HIDE DEF FreeSlot
    <2> QED BY <1>2, <2>1, <2>2, <2>3 DEF Inv, TableInv
<1> QED BY <1>1, <1>2

(* The entry trt_handle_alloc takes is free. *)
LEMMA FirstFree ==
    ASSUME NEW table, FreeEntries(table) # {}
    PROVE  Min(FreeEntries(table)) \in Index /\ ~table[Min(FreeEntries(table))].used
<1>0. Index \subseteq Nat
    BY HandleAssumption DEF Index
<1>1. FreeEntries(table) \subseteq Nat
    BY <1>0, Zenon DEF FreeEntries
<1>2. Min(FreeEntries(table)) \in FreeEntries(table)
    BY <1>1, MinLeast
<1> QED BY <1>2 DEF FreeEntries

-----------------------------------------------------------------------------
(* The invariant is inductive. *)

(* The initial table is empty. *)
LEMMA InitInv == Init => Inv
<1> SUFFICES ASSUME Init PROVE Inv
    OBVIOUS
<1> DEFINE zero == [object |-> Null, type |-> TRT_OBJ_ANY, rights |-> {},
                    generation |-> 0, used |-> FALSE]
<1>1. handle_table = [i \in Index |-> zero]
    BY DEF Init
<1>2. zero \in handle_slot_t /\ ~zero.used
    BY HandleAssumption DEF handle_slot_t
<1> HIDE DEF zero
<1>3. TypeOK
    BY <1>1, <1>2 DEF Init, TypeOK, Result, TRT_HANDLE_INVALID
<1>4. TableInv /\ IssuedInv
    BY <1>1, <1>2 DEF Init, TableInv, IssuedInv
<1> QED BY <1>3, <1>4 DEF Inv

(* Allocation preserves the invariant: the handles of the entry it takes   *)
(* have all been closed.                                                   *)
LEMMA AllocInv ==
    ASSUME Inv, NEW object \in Object \cup {Null}, NEW type \in Type \cup {TRT_OBJ_ANY},
           NEW rights \in SUBSET Right, trt_handle_alloc(object, type, rights)
    PROVE  Inv'
<1> DEFINE table == InitializedTable
           i == Min(FreeEntries(table))
           h == handle_make(i, table[i].generation)
           new == [h |-> h, object |-> object, type |-> type, rights |-> rights, age |-> 0]
<1>1. CASE object = Null \/ type = TRT_OBJ_ANY
    BY <1>1 DEF Inv, TypeOK, TableInv, IssuedInv, IssueOK, trt_handle_alloc, Result,
                TRT_HANDLE_INVALID
<1>2. CASE ~(object = Null \/ type = TRT_OBJ_ANY) /\ FreeEntries(table) = {}
    <2>1. /\ handle_initialized' = TRUE
          /\ handle_table' = table
          /\ issued' = issued
          /\ out' = Result("NO_MEM", TRT_HANDLE_INVALID, Null)
        BY <1>2 DEF trt_handle_alloc
    <2> QED BY <2>1, Initialised
            DEF Inv, TypeOK, TableInv, IssuedInv, IssueOK, Result, TRT_HANDLE_INVALID
<1>3. CASE ~(object = Null \/ type = TRT_OBJ_ANY) /\ FreeEntries(table) # {}
    <2>1. /\ handle_initialized' = TRUE
          /\ handle_table' = [table EXCEPT ![i].object = object, ![i].type = type,
                                           ![i].rights = rights, ![i].used = TRUE]
          /\ issued' = issued \cup {new}
          /\ out' = Result("OK", h, Null)
        BY <1>3 DEF trt_handle_alloc
    <2>2. i \in Index /\ ~table[i].used
        BY <1>3, FirstFree
    <2>3. table \in [Index -> handle_slot_t] /\ table[i].generation \in Generation
        BY <2>2, Initialised
    <2>4. h \in Nat /\ handle_index(h) = i /\ handle_generation(h) = table[i].generation
        BY <2>2, <2>3, Packing
    <2> HIDE DEF table, i, h
    <2>5. handle_table'[i] = [object |-> object, type |-> type, rights |-> rights,
                              generation |-> table[i].generation, used |-> TRUE]
        BY <2>1, <2>2, <2>3 DEF handle_slot_t
    <2>6. \A j \in Index : j # i => handle_table'[j] = table[j]
        BY <2>1, <2>2, <2>3
    <2>7. handle_table' \in [Index -> handle_slot_t]
        BY <2>1, <2>2, <2>3 DEF handle_slot_t
    <2>8. TypeOK'
        <3>1. new \in Issue
            BY <1>3, <2>4, HandleAssumption DEF Issue
        <3> QED BY <2>1, <2>4, <2>7, <3>1 DEF Inv, TypeOK, Result
    <2>9. TableInv'
        <3>1. \A j \in Index : table[j].generation \in Generation
            BY Initialised DEF table
        <3>2. \A j \in Index : table[j].used => table[j].object \in Object /\ table[j].type \in Type
            BY Initialised DEF table
        <3> QED BY <1>3, <2>1, <2>2, <2>3, <2>5, <2>6, <3>1, <3>2 DEF TableInv
    <2>10. IssuedInv'
        <3> SUFFICES ASSUME NEW r \in issued'
                     PROVE  IssueOK(r)'
            BY DEF IssuedInv
        <3>1. CASE r = new
            BY <1>3, <2>2, <2>3, <2>4, <2>5, <3>1, HandleAssumption DEF IssueOK, Later, Generation
        <3>2. CASE r \in issued
            <4>1. handle_initialized /\ table = handle_table
                BY <3>2, Initialised DEF table
            <4>2. IssueOK(r)
                BY <3>2 DEF Inv, IssuedInv
            <4>3. CASE handle_index(r.h) = i
                <5>1. r.age # 0
                    BY <2>2, <4>1, <4>2, <4>3 DEF IssueOK
                <5> QED BY <2>5, <4>1, <4>2, <4>3, <5>1 DEF IssueOK
            <4>4. CASE handle_index(r.h) # i
                BY <2>6, <4>1, <4>2, <4>4 DEF IssueOK
            <4> QED BY <4>3, <4>4
        <3> QED BY <2>1, <3>1, <3>2
    <2> QED BY <2>8, <2>9, <2>10 DEF Inv
<1> QED BY <1>1, <1>2, <1>3

(* A lookup changes at most whether the table is initialised. *)
LEMMA LookupInv ==
    ASSUME Inv, NEW h \in HandleArg, NEW type, NEW rights, trt_handle_lookup(h, type, rights)
    PROVE  Inv'
<1> DEFINE table == InitializedTable
<1>1. handle_initialized' = TRUE /\ handle_table' = table /\ issued' = issued
    BY DEF trt_handle_lookup
<1>2. out' \in [err : {"OK", "INVAL", "PERM"}, h : Nat, object : Object \cup {Null}]
    <2>1. h \in Nat
        BY HandleAssumption
    <2>2. CASE ~HasSlot(table, h) \/ (type # TRT_OBJ_ANY /\ table[handle_index(h)].type # type)
        BY <2>1, <2>2 DEF trt_handle_lookup, Result
    <2>3. CASE HasSlot(table, h) /\ ~(type # TRT_OBJ_ANY /\ table[handle_index(h)].type # type)
        <3>1. table[handle_index(h)].object \in Object
            BY <2>3, Initialised DEF HasSlot
        <3> QED BY <2>1, <2>3, <3>1 DEF trt_handle_lookup, Result
    <2> QED BY <2>2, <2>3
<1>3. TypeOK'
    BY <1>1, <1>2, Initialised DEF Inv, TypeOK
<1>4. TableInv'
    BY <1>1, Initialised DEF TableInv
<1>5. IssuedInv'
    BY <1>1, Initialised DEF Inv, IssuedInv, IssueOK
<1> QED BY <1>3, <1>4, <1>5 DEF Inv

(* The next generation of an entry is one later for all its handles. *)
LEMMA NextIsLater ==
    ASSUME NEW g \in Generation, NEW d \in Nat, d + 1 < GenMax
    PROVE  NextGeneration(Later(g, d)) = Later(g, d + 1)
BY HandleAssumption DEF Generation, Later, NextGeneration

(* Closing a handle ages the handles of its entry by one. *)
LEMMA CloseInv ==
    ASSUME Inv, NEW h \in HandleArg, trt_handle_close(h)
    PROVE  Inv'
<1> DEFINE table == InitializedTable
           i == handle_index(h)
           next == NextGeneration(table[i].generation)
<1>0. h \in Nat
    BY HandleAssumption
<1>1. CASE ~HasSlot(table, h)
    <2>1. /\ handle_initialized' = TRUE
          /\ handle_table' = table
          /\ issued' = issued
          /\ out' = Result("INVAL", h, Null)
        BY <1>1 DEF trt_handle_close
    <2> QED BY <1>0, <2>1, Initialised
            DEF Inv, TypeOK, TableInv, IssuedInv, IssueOK, Result
<1>2. CASE HasSlot(table, h)
    <2>1. /\ handle_initialized' = TRUE
          /\ handle_table' = [table EXCEPT ![i] = FreeSlot(next)]
          /\ issued' = {r \in Aged(i) : r.age < GenMax}
          /\ out' = Result("OK", h, Null)
        BY <1>2 DEF trt_handle_close
    <2>2. i \in Index /\ table[i].used
        BY <1>2 DEF HasSlot
    <2>3. table \in [Index -> handle_slot_t] /\ table[i].generation \in Generation
        BY <2>2, Initialised
    <2>4. next \in Generation
        BY <2>3, HandleAssumption DEF NextGeneration, Generation
    <2>5. FreeSlot(next) \in handle_slot_t
        BY <2>4, HandleAssumption DEF FreeSlot, handle_slot_t, Generation
    <2>6. FreeSlot(next).generation = next /\ ~FreeSlot(next).used
        BY DEF FreeSlot
    <2>7. handle_initialized /\ table = handle_table
        BY <2>2, Initialised DEF InitializedTable, FreeSlot
    <2> HIDE DEF table, i, next
    <2>8. \A r \in issued' : /\ r \in Issue
                            /\ \/ r \in issued /\ handle_index(r.h) # i
                               \/ \E s \in issued :
                                    /\ handle_index(s.h) = i
                                    /\ r = [s EXCEPT !.age = s.age + 1]
                                    /\ s.age + 1 < GenMax
        <3> SUFFICES ASSUME NEW r \in issued'
                     PROVE  /\ r \in Issue
                            /\ \/ r \in issued /\ handle_index(r.h) # i
                               \/ \E s \in issued :
                                    /\ handle_index(s.h) = i
                                    /\ r = [s EXCEPT !.age = s.age + 1]
                                    /\ s.age + 1 < GenMax
            OBVIOUS
        <3>1. r.age < GenMax
            BY <2>1
        <3>2. PICK s \in issued :
                 r = IF handle_index(s.h) = i THEN [s EXCEPT !.age = s.age + 1] ELSE s
            BY <2>1 DEF Aged
        <3>3. s \in Issue
            BY DEF Inv, TypeOK
        <3>4. CASE handle_index(s.h) = i
            <4>1. r = [s EXCEPT !.age = s.age + 1]
                BY <3>2, <3>4
            <4>2. r.age = s.age + 1 /\ s.age \in Nat
                BY <3>3, <4>1 DEF Issue
            <4>3. r.age \in 0..GenMax
                BY <3>1, <4>2, HandleAssumption
            <4>4. r = [h |-> s.h, object |-> s.object, type |-> s.type,
                       rights |-> s.rights, age |-> r.age]
                BY <3>3, <4>1, <4>2 DEF Issue
            <4>5. /\ s.h \in Nat /\ s.object \in Object
                  /\ s.type \in Type /\ s.rights \in SUBSET Right
                BY <3>3 DEF Issue
            <4>6. r \in Issue
                BY <4>3, <4>4, <4>5 DEF Issue
            <4> QED BY <3>1, <3>4, <4>1, <4>2, <4>6
        <3>5. CASE handle_index(s.h) # i
            BY <3>2, <3>3, <3>5
        <3> QED BY <3>4, <3>5
    <2>9. TypeOK'
        BY <1>0, <2>1, <2>2, <2>3, <2>5, <2>8 DEF Inv, TypeOK, Result
    <2>10. TableInv'
        BY <2>1, <2>2, <2>3, <2>4, <2>5, <2>6, <2>7, Initialised DEF Inv, TableInv
    <2>11. IssuedInv'
        <3> SUFFICES ASSUME NEW r \in issued'
                     PROVE  IssueOK(r)'
            BY DEF IssuedInv
        <3>1. CASE r \in issued /\ handle_index(r.h) # i
            BY <2>1, <2>2, <2>3, <2>7, <3>1 DEF Inv, IssuedInv, IssueOK
        <3>2. ASSUME NEW s \in issued, handle_index(s.h) = i, s.age + 1 < GenMax,
                     r = [s EXCEPT !.age = s.age + 1]
              PROVE  IssueOK(r)'
            <4>1. s \in Issue /\ IssueOK(s)
                BY DEF Inv, TypeOK, IssuedInv
            <4>2. r.h = s.h /\ r.age = s.age + 1 /\ s.age \in Nat
                BY <3>2, <4>1 DEF Issue
            <4>3. handle_table'[i].generation = next
                BY <2>1, <2>2, <2>3, <2>6
            <4>4. next = Later(handle_generation(s.h), s.age + 1)
                BY <2>7, <3>2, <4>1, <4>2, NextIsLater DEF next, IssueOK
            <4> QED BY <2>2, <3>2, <4>1, <4>2, <4>3, <4>4 DEF IssueOK
        <3> QED BY <2>8, <3>1, <3>2
    <2> QED BY <2>9, <2>10, <2>11 DEF Inv
<1> QED BY <1>1, <1>2

(* The three facts together. *)
LEMMA Invariance == Spec => []Inv
<1>1. Init => Inv
    BY InitInv
<1>2. Inv /\ [Next]_vars => Inv'
    <2> SUFFICES ASSUME Inv, [Next]_vars PROVE Inv'
        OBVIOUS
    <2>1. CASE UNCHANGED vars
        BY <2>1 DEF vars, Inv, TypeOK, TableInv, IssuedInv, IssueOK
    <2>2. CASE Next
        BY <2>2, AllocInv, LookupInv, CloseInv DEF Next
    <2> QED BY <2>1, <2>2
<1> QED BY <1>1, <1>2, PTL DEF Spec

-----------------------------------------------------------------------------
(* handle.c: every field of the table stays in its type; the generation of *)
(* an entry stays within its 16 bits.                                      *)
THEOREM TypeCorrect == Spec => []TypeOK
BY Invariance, PTL DEF Inv

(* An open handle finds its object and a closed one is refused, until its  *)
(* entry has been closed GenMax times.                                     *)
THEOREM MeaningKept == Spec => []HandlesKeepMeaning
<1>1. Inv => HandlesKeepMeaning
    <2> SUFFICES ASSUME Inv, NEW r \in issued
                 PROVE  HandlesKeepMeaning!(r)
        BY DEF HandlesKeepMeaning
    <2>1. IssueOK(r) /\ r \in Issue
        BY DEF Inv, TypeOK, IssuedInv
    <2>2. r.h = handle_make(handle_index(r.h), handle_generation(r.h)) /\ r.age \in Nat
        BY <2>1, Unpacking DEF Issue
    <2>3. r.h # TRT_HANDLE_INVALID
        BY <2>1, <2>2, Packing DEF IssueOK, TRT_HANDLE_INVALID
    <2>4. CASE r.age = 0
        <3>1. handle_table[handle_index(r.h)].generation = handle_generation(r.h)
            BY <2>1, <2>4, HandleAssumption DEF IssueOK, Later, Generation
        <3> QED BY <2>1, <2>3, <2>4, <3>1 DEF IssueOK, HasSlot
    <2>5. CASE r.age # 0
        <3>1. handle_table[handle_index(r.h)].generation # handle_generation(r.h)
            BY <2>1, <2>2, <2>5, HandleAssumption DEF IssueOK, Later, Generation
        <3> QED BY <2>5, <3>1 DEF HasSlot
    <2> QED BY <2>4, <2>5
<1> QED BY <1>1, Invariance, PTL

-----------------------------------------------------------------------------
(* The refinement *)

(* The registry entry of entry i of a table. *)
EntryOf(table, i) ==
    [h |-> handle_make(i, table[i].generation), object |-> table[i].object,
     type |-> table[i].type, rights |-> table[i].rights]

OpenIn(table) == {EntryOf(table, i) : i \in {j \in Index : table[j].used}}

(* Initialising the table opens no handle, and the open handles are those  *)
(* of the table the call works on.                                         *)
LEMMA OpenInitialised ==
    ASSUME Inv
    PROVE  open = OpenIn(InitializedTable)
<1>1. CASE handle_initialized
    BY <1>1 DEF open, OpenIn, EntryOf, InitializedTable
<1>2. CASE ~handle_initialized
    <2>1. open = {}
        BY <1>2 DEF open, Inv, TableInv
    <2>2. \A i \in Index : ~InitializedTable[i].used
        BY <1>2 DEF InitializedTable, FreeSlot
    <2> QED BY <2>1, <2>2 DEF OpenIn
<1> QED BY <1>1, <1>2

(* Different entries have different handles. *)
LEMMA EntriesDiffer ==
    ASSUME Inv, NEW i \in Index, NEW j \in Index,
           EntryOf(InitializedTable, i).h = EntryOf(InitializedTable, j).h
    PROVE  i = j
<1>1. /\ InitializedTable[i].generation \in Generation
      /\ InitializedTable[j].generation \in Generation
    BY Initialised
<1>2. handle_make(i, InitializedTable[i].generation)
        = handle_make(j, InitializedTable[j].generation)
    BY DEF EntryOf
<1> QED BY <1>1, <1>2, Packing

(* h names entry i exactly if handle_get_slot_locked finds it there. *)
LEMMA SlotIsEntry ==
    ASSUME Inv, NEW h \in Nat
    PROVE  /\ HasSlot(InitializedTable, h) =>
                 /\ handle_index(h) \in Index
                 /\ EntryOf(InitializedTable, handle_index(h)) \in OpenIn(InitializedTable)
                 /\ EntryOf(InitializedTable, handle_index(h)).h = h
           /\ \A e \in OpenIn(InitializedTable) : e.h = h =>
                 /\ HasSlot(InitializedTable, h)
                 /\ e = EntryOf(InitializedTable, handle_index(h))
<1> DEFINE table == InitializedTable
<1>1. ASSUME HasSlot(table, h)
      PROVE  /\ handle_index(h) \in Index
             /\ EntryOf(table, handle_index(h)) \in OpenIn(table)
             /\ EntryOf(table, handle_index(h)).h = h
    <2>1. h = handle_make(handle_index(h), handle_generation(h))
        BY Unpacking
    <2> QED BY <1>1, <2>1 DEF HasSlot, OpenIn, EntryOf
<1>2. ASSUME NEW e \in OpenIn(table), e.h = h
      PROVE  HasSlot(table, h) /\ e = EntryOf(table, handle_index(h))
    <2>1. PICK i \in Index : table[i].used /\ e = EntryOf(table, i)
        BY <1>2 DEF OpenIn
    <2>2. table[i].generation \in Generation /\ h = handle_make(i, table[i].generation)
        BY <1>2, <2>1, Initialised DEF EntryOf
    <2>3. handle_index(h) = i /\ handle_generation(h) = table[i].generation /\ h # 0
        BY <2>2, Packing
    <2> QED BY <2>1, <2>2, <2>3 DEF HasSlot, TRT_HANDLE_INVALID
<1> QED BY <1>1, <1>2

(* If no entry is free, RTOS_HANDLE_MAX handles are open. *)
LEMMA FullTable ==
    ASSUME Inv, FreeEntries(InitializedTable) = {}
    PROVE  Cardinality(open) = RTOS_HANDLE_MAX
<1> DEFINE table == InitializedTable
           f == [i \in Index |-> EntryOf(table, i)]
<1>1. open = {EntryOf(table, i) : i \in Index}
    BY OpenInitialised DEF OpenIn, FreeEntries
<1>2. f \in [Index -> open] /\ \A e \in open : \E i \in Index : f[i] = e
    BY <1>1
<1>3. \A i, j \in Index : f[i] = f[j] => i = j
    BY EntriesDiffer
<1>4. f \in Bijection(Index, open)
    BY <1>2, <1>3, Fun_IsBij
<1>5. IsFiniteSet(Index) /\ Cardinality(Index) = RTOS_HANDLE_MAX
    BY HandleAssumption, FS_Interval DEF Index
<1> QED BY <1>4, <1>5, FS_Bijection, Fun_ExistsBij

(* Every call is a step of the registry. *)
LEMMA AllocRefines ==
    ASSUME Inv, Inv', NEW object \in Object \cup {Null}, NEW type \in Type \cup {TRT_OBJ_ANY},
           NEW rights \in SUBSET Right, trt_handle_alloc(object, type, rights)
    PROVE  Registry!Next
<1> DEFINE table == InitializedTable
           i == Min(FreeEntries(table))
           h == handle_make(i, table[i].generation)
           e == [h |-> h, object |-> object, type |-> type, rights |-> rights]
<1>1. CASE object = Null \/ type = TRT_OBJ_ANY
    <2>1. out' = Result("INVAL", TRT_HANDLE_INVALID, Null) /\ handle_table' = handle_table
        BY <1>1 DEF trt_handle_alloc
    <2>2. open' = open
        BY <2>1 DEF open
    <2> QED BY <2>1, <2>2 DEF Registry!Next, Registry!AllocFails, Registry!Result, Result
<1>2. CASE ~(object = Null \/ type = TRT_OBJ_ANY) /\ FreeEntries(table) = {}
    <2>1. out' = Result("NO_MEM", TRT_HANDLE_INVALID, Null) /\ handle_table' = table
        BY <1>2 DEF trt_handle_alloc
    <2>2. open' = open
        BY <2>1, OpenInitialised DEF open, OpenIn, EntryOf
    <2>3. Cardinality(open) = RTOS_HANDLE_MAX
        BY <1>2, FullTable
    <2> QED BY <2>1, <2>2, <2>3 DEF Registry!Next, Registry!AllocFails, Registry!Result, Result,
                 Registry!Cardinality, Cardinality, Registry!IsFiniteSet, IsFiniteSet
<1>3. CASE ~(object = Null \/ type = TRT_OBJ_ANY) /\ FreeEntries(table) # {}
    <2>1. /\ handle_table' = [table EXCEPT ![i].object = object, ![i].type = type,
                                           ![i].rights = rights, ![i].used = TRUE]
          /\ out' = Result("OK", h, Null)
        BY <1>3 DEF trt_handle_alloc
    <2>2. i \in Index /\ ~table[i].used
        BY <1>3, FirstFree
    <2>3. table \in [Index -> handle_slot_t] /\ table[i].generation \in Generation
        BY <2>2, Initialised
    <2>4. h # 0 /\ h \in AnyHandle
        BY <2>2, <2>3, Packing DEF AnyHandle
    <2>5. open = OpenIn(table)
        BY OpenInitialised
    <2>6. \A f \in open : f.h # e.h
        <3> SUFFICES ASSUME NEW f \in open, f.h = e.h PROVE FALSE
            OBVIOUS
        <3>1. PICK j \in Index : table[j].used /\ f = EntryOf(table, j)
            BY <2>5 DEF OpenIn
        <3>2. EntryOf(table, i).h = h
            BY DEF EntryOf
        <3> QED BY <2>2, <3>1, <3>2, EntriesDiffer
    <2> HIDE DEF table, i, h
    <2>7. open' = open \cup {e}
        <3>1. handle_table'[i] = [object |-> object, type |-> type, rights |-> rights,
                                  generation |-> table[i].generation, used |-> TRUE]
            BY <2>1, <2>2, <2>3 DEF handle_slot_t
        <3>2. \A j \in Index : j # i => handle_table'[j] = table[j]
            BY <2>1, <2>2, <2>3
        <3>3. EntryOf(handle_table', i) = e /\ \A j \in Index : j # i =>
                EntryOf(handle_table', j) = EntryOf(table, j)
            BY <3>1, <3>2 DEF EntryOf, h
        <3>4. open' = OpenIn(handle_table')
            BY DEF open, OpenIn, EntryOf
        <3> QED BY <2>2, <2>5, <3>1, <3>2, <3>3, <3>4 DEF OpenIn
    <2>8. e \in Registry!Entry
        BY <1>3, <2>4 DEF Registry!Entry
    <2>9. Registry!Alloc
        BY <2>1, <2>4, <2>6, <2>7, <2>8
        DEF Registry!Alloc, Registry!Result, Result, TRT_HANDLE_INVALID
    <2> QED BY <2>9 DEF Registry!Next
<1> QED BY <1>1, <1>2, <1>3

(* A lookup answers from the open handles alone. *)
LEMMA LookupRefines ==
    ASSUME Inv, NEW h \in HandleArg, NEW type \in Type \cup {TRT_OBJ_ANY},
           NEW rights \in SUBSET Right, trt_handle_lookup(h, type, rights)
    PROVE  Registry!Next
<1> DEFINE table == InitializedTable
           slot == table[handle_index(h)]
           e == EntryOf(table, handle_index(h))
<1>1. h \in Nat /\ h \in AnyHandle
    BY HandleAssumption DEF AnyHandle
<1>2. open = OpenIn(table) /\ open' = open
    BY OpenInitialised DEF trt_handle_lookup, open, OpenIn, EntryOf
<1>3. e.object = slot.object /\ e.type = slot.type /\ e.rights = slot.rights
    BY DEF EntryOf
<1>4. Registry!Lookup(h, type, rights)
    <2>1. CASE ~HasSlot(table, h)
        <3>1. \A f \in open : f.h # h
            BY <1>1, <1>2, <2>1, SlotIsEntry
        <3>2. out' = Result("INVAL", h, Null)
            BY <2>1 DEF trt_handle_lookup
        <3> QED BY <1>2, <3>1, <3>2 DEF Registry!Lookup, Registry!Matches, Registry!Result, Result
    <2>2. CASE HasSlot(table, h)
        <3>1. /\ e \in open
              /\ e.h = h
              /\ \A f \in open : f.h = h => f = e
            BY <1>1, <1>2, <2>2, SlotIsEntry
        <3> HIDE DEF e
        <3>2. CASE type # TRT_OBJ_ANY /\ slot.type # type
            <4>1. out' = Result("INVAL", h, Null)
                BY <2>2, <3>2 DEF trt_handle_lookup
            <4>2. ~\E f \in open : Registry!Matches(f, h, type)
                BY <1>3, <3>1, <3>2 DEF Registry!Matches
            <4> QED BY <1>2, <4>1, <4>2 DEF Registry!Lookup, Registry!Result, Result
        <3>3. CASE ~(type # TRT_OBJ_ANY /\ slot.type # type)
            <4>1. Registry!Matches(e, h, type)
                BY <1>3, <3>1, <3>3 DEF Registry!Matches
            <4>2. out' = IF rights \subseteq slot.rights
                         THEN Result("OK", h, slot.object)
                         ELSE Result("PERM", h, Null)
                BY <2>2, <3>3 DEF trt_handle_lookup
            <4> QED BY <1>2, <1>3, <3>1, <4>1, <4>2 DEF Registry!Lookup, Registry!Result, Result
        <3> QED BY <3>2, <3>3
    <2> QED BY <2>1, <2>2
<1> QED BY <1>1, <1>4 DEF Registry!Next

(* A close removes the one open handle it names. *)
LEMMA CloseRefines ==
    ASSUME Inv, NEW h \in HandleArg, trt_handle_close(h)
    PROVE  Registry!Next
<1> DEFINE table == InitializedTable
           i == handle_index(h)
           e == EntryOf(table, i)
<1>1. h \in Nat /\ h \in AnyHandle
    BY HandleAssumption DEF AnyHandle
<1>2. open = OpenIn(table)
    BY OpenInitialised
<1>3. open' = OpenIn(handle_table')
    BY DEF open, OpenIn, EntryOf
<1>4. Registry!Close(h)
    <2>1. CASE ~HasSlot(table, h)
        <3>1. \A f \in open : f.h # h
            BY <1>1, <1>2, <2>1, SlotIsEntry
        <3>2. out' = Result("INVAL", h, Null) /\ open' = open
            BY <1>2, <1>3, <2>1 DEF trt_handle_close
        <3> QED BY <3>1, <3>2 DEF Registry!Close, Registry!Result, Result
    <2>2. CASE HasSlot(table, h)
        <3>1. i \in Index /\ e \in open /\ e.h = h
            BY <1>1, <1>2, <2>2, SlotIsEntry
        <3>2. /\ out' = Result("OK", h, Null)
              /\ handle_table' = [table EXCEPT ![i] =
                                     FreeSlot(NextGeneration(table[i].generation))]
            BY <2>2 DEF trt_handle_close
        <3>3. table \in [Index -> handle_slot_t]
            BY Initialised
        <3>4. ~handle_table'[i].used /\ \A j \in Index : j # i => handle_table'[j] = table[j]
            BY <3>1, <3>2, <3>3 DEF FreeSlot
        <3>5. \A j \in Index : EntryOf(table, j) = e => j = i
            BY <3>1, EntriesDiffer
        <3>6. \A j \in Index : j # i => EntryOf(handle_table', j) = EntryOf(table, j)
            BY <3>4 DEF EntryOf
        <3>7. open' = open \ {e}
            <4> HIDE DEF table, i
            <4> QED BY <1>2, <1>3, <3>1, <3>4, <3>5, <3>6 DEF OpenIn
        <3> QED BY <3>1, <3>2, <3>7 DEF Registry!Close, Registry!Result, Result
    <2> QED BY <2>1, <2>2
<1> QED BY <1>1, <1>4 DEF Registry!Next

(* handle.c implements HandleRegistry: whatever the order of the calls and *)
(* however often entries are used again, every result is the one the set   *)
(* of open handles gives.                                                  *)
THEOREM Refinement == Spec => RefinesRegistry
<1>1. Init => Registry!Init
    <2> SUFFICES ASSUME Init PROVE Registry!Init
        OBVIOUS
    <2>1. \A i \in Index : ~handle_table[i].used
        BY DEF Init
    <2>2. open = {}
        BY <2>1 DEF open
    <2> QED BY <2>2 DEF Init, Registry!Init, Registry!Result, Result
<1>2. Inv /\ Inv' /\ [Next]_vars => [Registry!Next]_<<open, out>>
    <2> SUFFICES ASSUME Inv, Inv', [Next]_vars PROVE [Registry!Next]_<<open, out>>
        OBVIOUS
    <2>1. CASE UNCHANGED vars
        BY <2>1 DEF vars, open
    <2>2. CASE Next
        <3>1. Registry!Next
            BY <2>2, AllocRefines, LookupRefines, CloseRefines DEF Next
        <3> QED BY <3>1
    <2> QED BY <2>1, <2>2
<1> QED BY <1>1, <1>2, Invariance, PTL DEF Spec, RefinesRegistry, Registry!Spec

=============================================================================
