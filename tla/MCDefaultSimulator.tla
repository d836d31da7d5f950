------------------------- MODULE MCDefaultSimulator -------------------------
(* Small instances of DefaultSimulator for TLC. *)
EXTENDS DefaultSimulator

\* One negative delay (clamped by Schedule), the present and the next step.
MCDelays == {-1, 0, 1}
MCForeignDelays == {0, 1}
MCContexts == {1}
=============================================================================
