------------------------------ MODULE MCHeap ------------------------------
(***************************************************************************)
(* Instances of Heap: threads are interchangeable.                         *)
(***************************************************************************)
EXTENDS Heap, TLC

Threads == Permutations(Thread)
=============================================================================
