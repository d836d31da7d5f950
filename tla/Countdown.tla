------------------------------ MODULE Countdown ------------------------------
(***************************************************************************)
(* What the timers of Timers promise: the callback is called once, when    *)
(* the delay asked for has passed, counted while the timer runs, neither   *)
(* earlier nor later; a timer stops in no other way than being cancelled.  *)
(***************************************************************************)
EXTENDS Integers

CONSTANT Delays   \* the delays asked for, natural numbers

VARIABLES
    phase,     \* "stopped", "running" or "paused"
    left,      \* time left of the delay asked for, 0 when stopped
    did        \* what the last step did to this timer, "nothing" if it was not about it

countdownVars == <<phase, left, did>>

Init == phase = "stopped" /\ left = 0 /\ did = "nothing"

\* Started, or given another delay while it runs.
Start == phase # "paused" /\ did' = "start" /\ phase' = "running" /\ left' \in Delays

\* Held for at least another delay.
Hold ==
    /\ phase = "running" /\ did' = "hold"
    /\ \E delay \in Delays : left' = IF left < delay THEN delay ELSE left
    /\ UNCHANGED phase

Pause == phase = "running" /\ did' = "pause" /\ phase' = "paused" /\ UNCHANGED left

Continue == phase = "paused" /\ did' = "continue" /\ phase' = "running" /\ UNCHANGED left

\* A paused timer does not hear of it.
Cancel ==
    /\ did' = "cancel"
    /\ IF phase = "paused" THEN UNCHANGED <<phase, left>> ELSE phase' = "stopped" /\ left' = 0

Fire == phase = "running" /\ left = 0 /\ did' = "fire" /\ phase' = "stopped" /\ UNCHANGED left

Tick ==
    /\ IF phase = "running" THEN left > 0 /\ left' = left - 1 ELSE UNCHANGED left
    /\ did' = "nothing" /\ UNCHANGED phase

\* Something else happens.
Elsewhere == did' = "nothing" /\ UNCHANGED <<phase, left>>

Next == Start \/ Hold \/ Pause \/ Continue \/ Cancel \/ Fire \/ Tick \/ Elsewhere

Spec == Init /\ [][Next]_countdownVars
=============================================================================
