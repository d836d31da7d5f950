------------------------- MODULE MCRealtimeSimulator -------------------------
(* Bounds of the real-time runs: waits that spin, that sleep and that idle,  *)
(* with another thread inserting events before, at and after the next one.   *)
EXTENDS RealtimeSimulator

MCDelays == {0, 1, 3}
MCHardLimits == {NoLimit, 1}
=============================================================================
