------------------------------- MODULE Handle -------------------------------
(***************************************************************************)
(* src/kernel/handle.c: the table through which tasks, semaphores, mutexes,*)
(* message queues and timers are named.  A handle is the number of its     *)
(* entry and the generation of the entry packed into one word; closing a   *)
(* handle moves the entry to the next generation, so that the old handle   *)
(* is refused when the entry is used again.  Every call is one critical    *)
(* section, hence one action.                                              *)
(***************************************************************************)
EXTENDS Integers, FiniteSets, FiniteSetsExt

CONSTANTS
    RTOS_HANDLE_MAX,
    GenMax,         \* largest value of the field generation: 2^16 - 1
    HandleArg,      \* the handles callers pass, right or wrong
    Object, Type, Right,
    Null,           \* the null pointer
    TRT_OBJ_ANY

(* handle_private.h: the index fits its field. *)
ASSUME HandleAssumption ==
    /\ RTOS_HANDLE_MAX \in Nat \ {0}
    /\ RTOS_HANDLE_MAX <= 65536
    /\ GenMax \in Nat \ {0}
    /\ HandleArg \subseteq Nat
    /\ Null \notin Object
    /\ TRT_OBJ_ANY \notin Type

VARIABLES
    handle_table,
    handle_initialized,
    out,            \* error code, handle and object the last call returned
    issued          \* history: handles given out, for what, and how often their
                    \* entry was closed since; forgotten after GenMax times

vars == <<handle_table, handle_initialized, out, issued>>

TRT_HANDLE_INVALID == 0
Index == 0..(RTOS_HANDLE_MAX - 1)
Generation == 1..GenMax

handle_make(index, generation) == generation * 65536 + index
handle_index(handle) == handle % 65536
handle_generation(handle) == handle \div 65536

AnyHandle == HandleArg \cup {handle_make(i, g) : i \in Index, g \in Generation} \cup {0}

handle_slot_t ==
    [object : Object \cup {Null}, type : Type \cup {TRT_OBJ_ANY},
     rights : SUBSET Right, generation : 0..GenMax, used : BOOLEAN]

Issue == [h : Nat, object : Object, type : Type, rights : SUBSET Right, age : 0..GenMax]

Result(err, h, object) == [err |-> err, h |-> h, object |-> object]

TypeOK ==
    /\ handle_table \in [Index -> handle_slot_t]
    /\ handle_initialized \in BOOLEAN
    /\ out \in [err : {"OK", "INVAL", "NO_MEM", "PERM"}, h : Nat, object : Object \cup {Null}]
    /\ issued \in SUBSET Issue

(* Static storage is zero until the first call initialises it. *)
Init ==
    /\ handle_table = [i \in Index |-> [object |-> Null, type |-> TRT_OBJ_ANY, rights |-> {},
                                        generation |-> 0, used |-> FALSE]]
    /\ handle_initialized = FALSE
    /\ out = Result("OK", TRT_HANDLE_INVALID, Null)
    /\ issued = {}

(* An entry that is not in use, in its generation. *)
FreeSlot(generation) ==
    [object |-> Null, type |-> TRT_OBJ_ANY, rights |-> {},
     generation |-> generation, used |-> FALSE]

(* handle_table_init_locked: the table the rest of a call works on. *)
InitializedTable ==
    IF handle_initialized
    THEN handle_table
    ELSE [i \in Index |-> FreeSlot(1)]

(* MUTANT: the generation of the handle is not compared. *)
get_slot_any_generation(table, h) ==
    /\ h # TRT_HANDLE_INVALID
    /\ handle_index(h) \in Index
    /\ table[handle_index(h)].used

(* handle_get_slot_locked finds the entry of h. *)
HasSlot(table, h) ==
    /\ h # TRT_HANDLE_INVALID
    /\ handle_index(h) \in Index
    /\ table[handle_index(h)].used
    /\ table[handle_index(h)].generation = handle_generation(h)

FreeEntries(table) == {i \in Index : ~table[i].used}

-----------------------------------------------------------------------------
trt_handle_alloc(object, type, rights) ==
    LET table == InitializedTable
        i == Min(FreeEntries(table))
        h == handle_make(i, table[i].generation)
    IN IF object = Null \/ type = TRT_OBJ_ANY
       THEN /\ out' = Result("INVAL", TRT_HANDLE_INVALID, Null)
            /\ UNCHANGED <<handle_table, handle_initialized, issued>>
       ELSE /\ handle_initialized' = TRUE
            /\ IF FreeEntries(table) = {}
               THEN /\ out' = Result("NO_MEM", TRT_HANDLE_INVALID, Null)
                    /\ handle_table' = table
                    /\ UNCHANGED issued
               ELSE /\ out' = Result("OK", h, Null)
                    /\ handle_table' = [table EXCEPT ![i].object = object,
                                                     ![i].type = type,
                                                     ![i].rights = rights,
                                                     ![i].used = TRUE]
                    /\ issued' = issued \cup {[h |-> h, object |-> object, type |-> type,
                                               rights |-> rights, age |-> 0]}

(* trt_handle_valid is the lookup of any type with no rights. *)
trt_handle_lookup(h, type, rights) ==
    LET table == InitializedTable
        slot == table[handle_index(h)]
    IN /\ handle_initialized' = TRUE
       /\ handle_table' = table
       /\ out' = IF ~HasSlot(table, h) \/ (type # TRT_OBJ_ANY /\ slot.type # type)
                 THEN Result("INVAL", h, Null)
                 ELSE IF ~(rights \subseteq slot.rights)
                      THEN Result("PERM", h, Null)
                      ELSE Result("OK", h, slot.object)
       /\ UNCHANGED issued

(* MUTANT: the generation grows past the width of its field. *)
next_generation_unbounded(generation) == generation + 1

(* MUTANT: the generation wraps to 0. *)
next_generation_may_be_zero(generation) == (generation + 1) % (GenMax + 1)

(* generation++ in its width, skipping 0 *)
NextGeneration(generation) ==
    IF generation = GenMax THEN 1 ELSE generation + 1

(* The handles of entry i are one generation older. *)
Aged(i) ==
    {IF handle_index(r.h) = i THEN [r EXCEPT !.age = @ + 1] ELSE r : r \in issued}

trt_handle_close(h) ==
    LET table == InitializedTable
        i == handle_index(h)
    IN /\ handle_initialized' = TRUE
       /\ IF HasSlot(table, h)
          THEN /\ handle_table' = [table EXCEPT ![i] =
                                      FreeSlot(NextGeneration(table[i].generation))]
               /\ issued' = {r \in Aged(i) : r.age < GenMax}
               /\ out' = Result("OK", h, Null)
          ELSE /\ handle_table' = table
               /\ out' = Result("INVAL", h, Null)
               /\ UNCHANGED issued

-----------------------------------------------------------------------------
Next ==
    \/ \E object \in Object \cup {Null}, type \in Type \cup {TRT_OBJ_ANY},
          rights \in SUBSET Right : trt_handle_alloc(object, type, rights)
    \/ \E h \in HandleArg, type \in Type \cup {TRT_OBJ_ANY}, rights \in SUBSET Right :
          trt_handle_lookup(h, type, rights)
    \/ \E h \in HandleArg : trt_handle_close(h)

Spec == Init /\ [][Next]_vars

-----------------------------------------------------------------------------
(* A handle keeps its meaning: until it is closed it finds the object it   *)
(* was given out for, with its type and rights; after that it is refused,  *)
(* although its entry is used again, until the generation of the entry has *)
(* gone once round (handle.c trt_handle_close).                            *)
HandlesKeepMeaning ==
    \A r \in issued :
        IF r.age = 0
        THEN /\ HasSlot(handle_table, r.h)
             /\ handle_table[handle_index(r.h)].object = r.object
             /\ handle_table[handle_index(r.h)].type = r.type
             /\ handle_table[handle_index(r.h)].rights = r.rights
        ELSE ~HasSlot(handle_table, r.h)

(* The open handles as a set: the state of HandleRegistry. *)
open ==
    {[h |-> handle_make(i, handle_table[i].generation),
      object |-> handle_table[i].object,
      type |-> handle_table[i].type,
      rights |-> handle_table[i].rights] : i \in {j \in Index : handle_table[j].used}}

Registry == INSTANCE HandleRegistry WITH
    Handle <- AnyHandle, Invalid <- TRT_HANDLE_INVALID, Any <- TRT_OBJ_ANY,
    Capacity <- RTOS_HANDLE_MAX

(* The table implements the registry: first-free search, generations and   *)
(* the encoding of handles never show, except that a handle comes back     *)
(* after GenMax closes.                                                    *)
RefinesRegistry == Registry!Spec

=============================================================================
