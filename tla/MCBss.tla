-------------------------------- MODULE MCBss --------------------------------
(* Bss by itself. *)
EXTENDS Bss, BssWorlds
=============================================================================
