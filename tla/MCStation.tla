------------------------------ MODULE MCStation ------------------------------
(***************************************************************************)
(* The run Station: a behaviour exercises the association and power        *)
(* management of Bss, or the service periods and sleep of TwtStation; the  *)
(* other part stays as it is created.                                      *)
(***************************************************************************)
EXTENDS MCBss, TwtStation, TwtWorlds

VARIABLES part   \* chosen once

stationVars == <<part, twtVars, vars>>

StationInit ==
    /\ part \in {"Twt", "Bss"}
    /\ TwtInit /\ Init
    /\ part = "Bss" => node = Sta
    /\ part = "Twt" => world = Pm

InTwt == part = "Twt" /\ UNCHANGED <<part, vars>>
InBss == part = "Bss" /\ UNCHANGED <<part, twtVars>>

StationNext ==
    \/ InTwt /\ TwtNext
    \/ InBss /\ Next

\* The simulator runs its events, timers expire, and the medium is no dead one: see
\* TwtStation and Bss.
StationSpec ==
    /\ StationInit /\ [][StationNext]_stationVars
    /\ WF_stationVars(InTwt /\ (RunNext \/ Tick))
    /\ WF_stationVars(InBss /\ TimersExpire) /\ WF_stationVars(InBss /\ AckTimeout)
    /\ WF_stationVars(InBss /\ PmModeSwitchTimeout(TRUE))
    /\ SF_stationVars(InBss /\ Arrives) /\ SF_stationVars(InBss /\ IsAcked)

-----------------------------------------------------------------------------
\* The type invariants of both; of TwtStation also that pending events are in order.
StationTypeOK == TwtTypeOK /\ TypeOK
=============================================================================
