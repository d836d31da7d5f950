----------------------------- MODULE MCHeapScheduler ----------------------------
(* Bounds of the scheduler runs: see the README for why they suffice. *)
EXTENDS HeapScheduler

MCDelays == {0, 1, 2}
=============================================================================
