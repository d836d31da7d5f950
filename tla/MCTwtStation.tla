---------------------------- MODULE MCTwtStation ----------------------------
(* TwtStation by itself. *)
EXTENDS TwtStation, TwtWorlds
=============================================================================
