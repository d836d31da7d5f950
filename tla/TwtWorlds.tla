------------------------------ MODULE TwtWorlds ------------------------------
(* Nodes, schedules and delays of the TWT runs, in ticks. *)
EXTENDS Naturals

Schedule(wi, nd) == [wakeInterval |-> wi, nominalWakeDuration |-> nd]

MCSpaced == {Schedule(6, 2), Schedule(5, 3)}
\* In the last, the next period begins when the one before ends.
MCSchedules == MCSpaced \cup {Schedule(3, 3)}

MCFlows == {0, 1}
Ap(flows) == [isSta |-> FALSE, flows |-> flows, firstDelays |-> {0, 1, 3}]
\* The first period is no nearer than a frame and its response take.
Sta == [isSta |-> TRUE, flows |-> {0}, firstDelays |-> {3}]
MCNodes == {Ap({0, 1}), Sta}
MCSta == {Sta}
MCAp == {Ap({0, 1})}

MCFrames == {1, 2}
MCFrame == {2}
MCNavs == {1, 3}
MCNone == {}
=============================================================================
