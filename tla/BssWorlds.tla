------------------------------ MODULE BssWorlds ------------------------------
(* What the runs of Bss are about. *)
EXTENDS Naturals

World(accepts, busy, kinds, n) ==
    [aps |-> DOMAIN accepts, accepts |-> accepts, busy |-> busy, calls |-> kinds, maxCalls |-> n]

\* Two APs to roam between, one that refuses the station, a probing station, beacons
\* missed in the middle of a reception, and power management.
Roam == World(<<{TRUE}, {TRUE}>>, FALSE, {"phy", "channel"}, 1)
Refuse == World(<<{TRUE}, {FALSE}>>, FALSE, {}, 0)
Probe == World(<<{TRUE}>>, FALSE, {"probing", "phy", "channel"}, 2)
Busy == World(<<{TRUE}>>, TRUE, {"probing", "channel"}, 1)
Pm == World(<<{TRUE}>>, FALSE, {"pm", "packet"}, 2)

MCWorlds == {Roam, Refuse, Probe, Busy, Pm}
MCRoam == {Roam}
MCPm == {Pm}
=============================================================================
