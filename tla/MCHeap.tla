------------------------------- MODULE MCHeap -------------------------------
(* Small instances of the heap for TLC. *)
EXTENDS Heap, TLC

(* Nodes are only compared, so they are interchangeable. *)
Symmetry == Permutations(Nodes)
=============================================================================
