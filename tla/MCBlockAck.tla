------------------------------ MODULE MCBlockAck ------------------------------
(* Bounds of the Block Ack runs: a space of 16 numbers that the agreement     *)
(* crosses the end of, a window of 2 and fewer packets than half the space.   *)
EXTENDS BlockAck

MCStartingSeqs == {14}
=============================================================================
