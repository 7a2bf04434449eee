------------------------------- MODULE MCHeap -------------------------------
(* The instance of Heap for TLC.                                           *)
EXTENDS Heap
=============================================================================
