----------------------------- MODULE Allocator -----------------------------
(***************************************************************************)
(* What malloc.c promises its callers: the bytes it has handed out are     *)
(* disjoint regions inside the heap, a region stays where it is until its  *)
(* owner gives it back, and one call touches one region only.              *)
(***************************************************************************)
EXTENDS Naturals

CONSTANTS Low, High     \* the heap is the addresses from Low to High - 1

VARIABLE regions        \* handed out and not given back

Region == {r \in [lo : Low..High, hi : Low..High] : r.lo <= r.hi}

Apart(r, s) == r.hi < s.lo \/ s.hi < r.lo

Init == regions = {}

Allocate ==
    \E r \in regions' : /\ r \in Region
                        /\ \A s \in regions : Apart(r, s)
                        /\ regions' = regions \cup {r}

Release == \E r \in regions : regions' = regions \ {r}

(* realloc in place keeps the first bytes. *)
Shrink ==
    \E r \in regions, s \in regions' :
        /\ s \in Region
        /\ s.lo = r.lo
        /\ s.hi <= r.hi
        /\ regions' = (regions \ {r}) \cup {s}

Next == Allocate \/ Release \/ Shrink

Spec == Init /\ [][Next]_regions

=============================================================================
