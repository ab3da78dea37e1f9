--------------------------- MODULE HandleRegistry ---------------------------
(***************************************************************************)
(* What the handle table promises its callers: a handle names the object   *)
(* it was allocated for from trt_handle_alloc to trt_handle_close, and     *)
(* nothing before or after; an allocation fails only when Capacity handles *)
(* are open.  How handles are chosen and encoded is left open.             *)
(***************************************************************************)
EXTENDS FiniteSets

CONSTANTS
    Handle,     \* every value a handle can have
    Invalid,    \* the one that stands for no handle
    Object, Type, Any, Right,
    Null,       \* no object
    Capacity

VARIABLES
    open,       \* the open handles, each with its object, type and rights
    out         \* error code, handle and object of the last call

Entry == [h : Handle, object : Object, type : Type, rights : SUBSET Right]

Result(err, h, object) == [err |-> err, h |-> h, object |-> object]

Init ==
    /\ open = {}
    /\ out = Result("OK", Invalid, Null)

Alloc ==
    \E e \in Entry :
        /\ e.h # Invalid
        /\ \A f \in open : f.h # e.h
        /\ open' = open \cup {e}
        /\ out' = Result("OK", e.h, Null)

AllocFails ==
    /\ \/ out' = Result("INVAL", Invalid, Null)
       \/ Cardinality(open) = Capacity /\ out' = Result("NO_MEM", Invalid, Null)
    /\ UNCHANGED open

Matches(e, h, type) == e.h = h /\ type \in {Any, e.type}

Lookup(h, type, rights) ==
    /\ \/ \E e \in open : /\ Matches(e, h, type)
                          /\ rights \subseteq e.rights
                          /\ out' = Result("OK", h, e.object)
       \/ \E e \in open : /\ Matches(e, h, type)
                          /\ ~(rights \subseteq e.rights)
                          /\ out' = Result("PERM", h, Null)
       \/ /\ ~\E e \in open : Matches(e, h, type)
          /\ out' = Result("INVAL", h, Null)
    /\ UNCHANGED open

Close(h) ==
    \/ \E e \in open : /\ e.h = h
                       /\ open' = open \ {e}
                       /\ out' = Result("OK", h, Null)
    \/ /\ \A e \in open : e.h # h
       /\ out' = Result("INVAL", h, Null)
       /\ UNCHANGED open

Next ==
    \/ Alloc
    \/ AllocFails
    \/ \E h \in Handle : \/ Close(h)
                         \/ \E type \in Type \cup {Any}, rights \in SUBSET Right :
                               Lookup(h, type, rights)

Spec == Init /\ [][Next]_<<open, out>>

=============================================================================
