------------------------------ MODULE MCHandle ------------------------------
(* Values for the runs of Handle. *)
EXTENDS Handle, TLC

CONSTANTS o1, o2

(* Every generation of every entry, generation 0, one entry past the end   *)
(* and one generation past the last.                                       *)
MCHandleArg == {handle_make(i, g) : i \in 0..RTOS_HANDLE_MAX, g \in 0..(GenMax + 1)}

MCObject == {o1, o2}
Objects == Permutations(MCObject)

(* No action or invariant reads what the last call returned, nor what a    *)
(* closed handle stood for.                                                *)
View ==
    << handle_table, handle_initialized,
       {r \in issued : r.age = 0}, {<<r.h, r.age>> : r \in issued} >>

=============================================================================
