------------------------------- MODULE MCHeap -------------------------------
(* Small instances of Heap: ten grains of memory. *)
EXTENDS Heap
=============================================================================
