------------------------------- MODULE MCHeap -------------------------------
(* Model values and symmetry for the run of Heap. *)
EXTENDS Heap

CONSTANTS client1, client2

MCClient == {client1, client2}
Clients == Permutations(Client)

=============================================================================
