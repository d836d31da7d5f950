--------------------------------- MODULE Bss ---------------------------------
(***************************************************************************)
(* sta-wifi-mac.cc with its association manager, and the part of           *)
(* ap-wifi-mac.cc that answers it: a station with one link that scans,     *)
(* associates, loses its access point and changes its power management     *)
(* mode, over a medium that loses frames and acknowledgements. Timers may  *)
(* expire in any order: how long each runs is an attribute.                *)
(***************************************************************************)
EXTENDS Naturals, Sequences, FiniteSets
SeqExt == INSTANCE SequencesExt

CONSTANTS
    Worlds,      \* what a behaviour is about: aps, how they may answer (accepts), the
                 \* calls the user makes and how many, and whether a frame may be in
                 \* reception when beacons are missed (busy)
    MaxFrames,   \* bound: frames of one kind in the queue; Enqueue on a full one drops
    MaxRetries   \* bound: scheduled calls of SetPowerSaveMode with one argument

NoAp == 0
States == {"UNASSOCIATED", "SCANNING", "WAIT_ASSOC_RESP", "ASSOCIATED", "REFUSED"}
PmModes == {"ACTIVE", "SWITCHING_TO_PS", "POWERSAVE", "SWITCHING_TO_ACTIVE"}
ApStates == {"BRAND_NEW", "WAIT_ASSOC_TX_OK", "GOT_ASSOC_TX_OK", "DISASSOC"}

VARIABLES
    world,
    sta,         \* StaWifiMac and its association manager, see Station
    staQueue,    \* frames the station has to send, see Frame
    responses,   \* per AP, its queue of Association Responses
    apState,     \* per AP, WifiRemoteStationState::m_state of the station
    isInPsMode,  \* per AP, m_isInPsMode: frames to the station are held back
    calls,       \* bound: calls of the user left
    \* History, read by properties only:
    overlapped,  \* a scan was started while another one was still to end
    gaveUp,      \* APs that gave up a response, and had none acknowledged since
    askedPm,     \* the modes SetPowerSaveMode was called with
    untold       \* APs that did not look at the flag of the last frame they received, or
                 \* have received none since the mode was set without telling them: while
                 \* the station was not associated, or by what another AP acknowledged

queues == <<staQueue, responses>>
ap == <<apState, isInPsMode>>
history == <<overlapped, gaveUp, askedPm, untold>>
vars == <<world, sta, queues, ap, calls, history>>

Aps == world.aps

\* FinalizeMacHeader: the power management flag of what is transmitted in a mode.
Announces(pmMode) == pmMode \in {"POWERSAVE", "SWITCHING_TO_PS"}
MustBeTold(pmMode) == {a \in Aps : isInPsMode[a] # Announces(pmMode)}

\* scanEnd: m_waitBeaconEvent or m_probeRequestEvent runs; endNow: the calls of
\* EndScanning that are scheduled for now; leaving: MissedBeacons has scheduled
\* Disassociated for the end of the frame being received; femBssid: the BSSID of the
\* frame exchange manager; retries: the calls of SetPowerSaveMode scheduled, by mode.
Station ==
    [m_state |-> "UNASSOCIATED", bssid |-> NoAp, femBssid |-> NoAp, m_aid |-> NoAp,
     apList |-> {}, scanEnd |-> FALSE, endNow |-> 0, probed |-> FALSE,
     m_activeProbing |-> FALSE, m_assocRequestEvent |-> FALSE, m_beaconWatchdog |-> FALSE,
     leaving |-> "no", pmMode |-> "ACTIVE", retries |-> [enable \in BOOLEAN |-> 0]]

-----------------------------------------------------------------------------
(* Scanning                                                                 *)

\* StaWifiMac::StartScanning with DoStartScanning: candidates left over are used at
\* once, and the end of an earlier scan is cancelled only if there are none.
StartScanning(s) ==
    [s EXCEPT !.m_state = "SCANNING",
              !.endNow = IF s.apList # {} THEN @ + 1 ELSE @,
              !.scanEnd = @ \/ s.apList = {},
              !.probed = @ \/ (s.m_activeProbing /\ s.apList = {})]

\* Whether StartScanning leaves two ends of a scan to come.
Overlaps(s) == s.endNow > 0 \/ (s.apList # {} /\ s.scanEnd)

\* WifiAssocManager::NotifyApInfo. The SNR, by which the list is sorted, may be any.
NotifyApInfo(s, a) == IF s.scanEnd THEN [s EXCEPT !.apList = @ \cup {a}] ELSE s

\* heard: MacRxMiddle of the AP would know it again; qos: QoS data.
Frame(kind, a) ==
    [kind |-> kind, to |-> a, qos |-> FALSE, heard |-> FALSE, air |-> "queued", pm |-> FALSE]
QosData(a) == [Frame("data", a) EXCEPT !.qos = TRUE]
OfKind(q, kind) == SelectSeq(q, LAMBDA f : f.kind = kind)
Enqueue(q, f) == IF Len(OfKind(q, f.kind)) < MaxFrames THEN Append(q, f) ELSE q

\* WifiAssocManager::ScanningTimeout and StaWifiMac::ScanningTimeout with the best AP.
Attempt(s, a) ==
    [s EXCEPT !.apList = @ \ {a}, !.bssid = a, !.m_beaconWatchdog = TRUE,
              !.m_state = "WAIT_ASSOC_RESP", !.m_assocRequestEvent = TRUE]

ScanningTimeout(s) ==
    IF s.apList = {}
    THEN /\ sta' = StartScanning(s) /\ UNCHANGED staQueue
    ELSE \E a \in s.apList :
            /\ sta' = Attempt(s, a)
            /\ staQueue' = Enqueue(staQueue, Frame("request", a))

\* What is due now comes before anything else: the scan that ends now, and
\* Disassociated when the frame that delayed it has been received.
NothingDue == sta.endNow = 0 /\ sta.leaving # "due"

\* An acknowledgement comes, or is missed, before anything else is transmitted.
MediumFree == NothingDue /\ \A i \in DOMAIN staQueue : staQueue[i].air = "queued"

EndScanning ==
    /\ sta.leaving # "due"
    /\ \/ sta.endNow > 0 /\ ScanningTimeout([sta EXCEPT !.endNow = @ - 1])
       \/ sta.endNow = 0 /\ sta.scanEnd /\ ScanningTimeout([sta EXCEPT !.scanEnd = FALSE])
    /\ UNCHANGED <<world, responses, ap, calls, history>>

SetActiveProbing(enable) ==
    LET s == [sta EXCEPT !.m_activeProbing = enable]
    IN  /\ sta' = IF s.m_state = "SCANNING" THEN StartScanning(s) ELSE s
        /\ overlapped' = (overlapped \/ (s.m_state = "SCANNING" /\ Overlaps(s)))
        /\ UNCHANGED <<queues, ap, gaveUp, askedPm, untold>>

-----------------------------------------------------------------------------
(* Association                                                              *)

AssocRequestTimeout ==
    /\ NothingDue /\ sta.m_assocRequestEvent
    /\ sta' = [sta EXCEPT !.m_state = "WAIT_ASSOC_RESP"]
    /\ staQueue' = Enqueue(staQueue, Frame("request", sta.bssid))
    /\ UNCHANGED <<world, responses, ap, calls, history>>

PhyCapabilitiesChanged ==
    /\ sta.m_state = "ASSOCIATED"
    /\ sta' = [sta EXCEPT !.m_state = "WAIT_ASSOC_RESP", !.m_assocRequestEvent = TRUE]
    /\ staQueue' = Enqueue(staQueue, Frame("request", sta.bssid))
    /\ UNCHANGED <<responses, ap, history>>

\* Mutant: the association request timer goes on.
DisassociatedStillAsking(s) ==
    StartScanning([s EXCEPT !.bssid = NoAp, !.m_aid = NoAp])

Disassociated(s) ==
    StartScanning([s EXCEPT !.bssid = NoAp, !.m_aid = NoAp, !.m_assocRequestEvent = FALSE])

Leave(s) == sta' = Disassociated(s) /\ overlapped' = (overlapped \/ Overlaps(s))

\* The watchdog expires for good; while its end was put off it is scheduled again.
MissedBeacons ==
    /\ NothingDue /\ sta.m_beaconWatchdog
    /\ LET s == [sta EXCEPT !.m_beaconWatchdog = FALSE]
       IN  \/ Leave(s)
           \/ /\ world.busy /\ sta.leaving = "no"
              /\ sta' = [s EXCEPT !.leaving = "receiving"] /\ UNCHANGED overlapped
    /\ UNCHANGED <<world, queues, ap, calls, gaveUp, askedPm, untold>>

\* The frame that was being received when the beacons were missed is over.
ReceptionEnds ==
    /\ NothingDue /\ sta.leaving = "receiving" /\ sta' = [sta EXCEPT !.leaving = "due"]
    /\ UNCHANGED <<world, queues, ap, calls, history>>

\* Scheduled before the frame was over, this comes before what the frame schedules for
\* now, which with a refusal is the end of a scan.
DisassociatedLater ==
    /\ sta.leaving = "due" /\ Leave([sta EXCEPT !.leaving = "no"])
    /\ UNCHANGED <<world, queues, ap, calls, gaveUp, askedPm, untold>>

NotifyChannelSwitching ==
    /\ sta.m_state = "ASSOCIATED" /\ Leave(sta)
    /\ UNCHANGED <<queues, ap, gaveUp, askedPm, untold>>

Received(s) == IF s.leaving = "receiving" THEN [s EXCEPT !.leaving = "due"] ELSE s

ReceiveBeacon(a) ==
    /\ MediumFree
    /\ sta.m_state \in {"WAIT_ASSOC_RESP", "ASSOCIATED"} => a = sta.bssid
    /\ sta' = Received(IF sta.m_state = "ASSOCIATED" THEN [sta EXCEPT !.m_beaconWatchdog = TRUE]
                       ELSE NotifyApInfo(sta, a))
    /\ UNCHANGED <<world, queues, ap, calls, history>>

\* A Probe Response is looked at in every state.
ReceiveProbeResp(a) ==
    /\ MediumFree /\ sta.probed
    /\ sta' = Received(NotifyApInfo(sta, a))
    /\ UNCHANGED <<world, queues, ap, calls, history>>

\* The mode the user chose before is entered anew, from active mode.
SetPmModeAfterAssociation(s) ==
    IF s.bssid = NoAp THEN s
    ELSE [s EXCEPT !.pmMode = "ACTIVE", !.retries[TRUE] = IF s.pmMode = "POWERSAVE" THEN @ + 1 ELSE @]

\* Mutant: a response is taken in any state.
AwaitsResponseAlways(s) == TRUE

AwaitsResponse(s) == s.m_state = "WAIT_ASSOC_RESP"

ReceiveAssocResp(s, a, success) ==
    LET asked == [s EXCEPT !.m_assocRequestEvent = FALSE]
    IN  IF ~AwaitsResponse(s) THEN s
        ELSE IF success
        THEN SetPmModeAfterAssociation(
                [asked EXCEPT !.m_aid = a, !.femBssid = a, !.m_state = "ASSOCIATED"])
        ELSE StartScanning(asked)

-----------------------------------------------------------------------------
(* The access point                                                         *)

\* MacRxMiddle::Lookup: QoS data has a record of its own, all else of the station shares
\* one, and a record knows the last frame only.
SameRecord(f, g) == f.to = g.to /\ f.qos = g.qos

\* The queue when its i-th frame, transmitted as f, has been received.
Heard(q, i, f) ==
    [j \in DOMAIN q |-> IF j = i THEN [f EXCEPT !.air = "received", !.heard = TRUE]
                       ELSE IF SameRecord(q[j], f) THEN [q[j] EXCEPT !.heard = FALSE]
                       ELSE q[j]]

\* The power management flag is looked at in what MacRxMiddle does not drop as a
\* duplicate, of a station that is associated.
Looks(f) == ~f.heard /\ apState[f.to] = "GOT_ASSOC_TX_OK"

ProcessPowerManagementFlag(f) ==
    isInPsMode' = IF Looks(f) THEN [isInPsMode EXCEPT ![f.to] = f.pm] ELSE isInPsMode

\* ReceiveAssocRequest and SendAssocResp, which forgets a station it refuses.
ReceiveAssocRequest(a) ==
    \E accepted \in world.accepts[a] :
        /\ apState' = [apState EXCEPT ![a] = IF accepted THEN "WAIT_ASSOC_TX_OK" ELSE "DISASSOC"]
        /\ responses' = [responses EXCEPT ![a] =
              IF Len(@) < MaxFrames THEN Append(@, [success |-> accepted, heard |-> FALSE]) ELSE @]

\* ApWifiMac::Receive, after MacRxMiddle has dropped what was received before.
ApReceive(f) ==
    /\ ProcessPowerManagementFlag(f)
    /\ IF f.kind = "request" /\ ~f.heard THEN ReceiveAssocRequest(f.to)
       ELSE UNCHANGED <<apState, responses>>

\* Mutant: the acknowledgement of a response is only taken from a new station.
TxOkNew(a) == IF apState[a] = "BRAND_NEW" THEN "GOT_ASSOC_TX_OK" ELSE apState[a]

\* ApWifiMac::TxOk: the response was acknowledged.
TxOk(a) == IF apState[a] = "WAIT_ASSOC_TX_OK" THEN "GOT_ASSOC_TX_OK" ELSE apState[a]

\* A response reaches the station, whose acknowledgement may get lost; what is
\* received again is a duplicate.
ResponseReceived(a) ==
    /\ MediumFree /\ responses[a] # <<>> /\ sta.retries[TRUE] < MaxRetries
    /\ LET r == Head(responses[a])
           s == IF r.heard THEN sta ELSE ReceiveAssocResp(sta, a, r.success)
           taken == ~r.heard /\ AwaitsResponse(sta)
       IN  /\ sta' = Received(s)
           /\ overlapped' = (overlapped \/ (taken /\ ~r.success /\ Overlaps(sta)))
           /\ \/ /\ responses' = [responses EXCEPT ![a] = Tail(@)]
                 /\ apState' = [apState EXCEPT ![a] = TxOk(a)]
                 /\ gaveUp' = IF TxOk(a) = "GOT_ASSOC_TX_OK" THEN gaveUp \ {a} ELSE gaveUp
              \/ /\ responses' = [responses EXCEPT ![a][1].heard = TRUE]
                 /\ UNCHANGED <<apState, gaveUp>>
           /\ untold' = IF s.pmMode = sta.pmMode THEN untold ELSE MustBeTold(s.pmMode)
    /\ UNCHANGED <<world, staQueue, isInPsMode, calls, askedPm>>

\* ApWifiMac::TxFailed: the response was transmitted too often, or too long.
ResponseDropped(a) ==
    /\ NothingDue /\ responses[a] # <<>>
    /\ responses' = [responses EXCEPT ![a] = Tail(@)]
    /\ apState' = [apState EXCEPT ![a] = IF @ = "WAIT_ASSOC_TX_OK" THEN "DISASSOC" ELSE @]
    /\ gaveUp' = gaveUp \cup {a}
    /\ UNCHANGED <<world, sta, staQueue, isInPsMode, calls, overlapped, askedPm, untold>>

-----------------------------------------------------------------------------
(* Power management, and the frames of the station                          *)

Reached(enable) == IF enable THEN "POWERSAVE" ELSE "ACTIVE"
Switching(enable) == IF enable THEN "SWITCHING_TO_PS" ELSE "SWITCHING_TO_ACTIVE"

HasFramesToTransmit == \E i \in DOMAIN staQueue : staQueue[i].air = "queued"

\* Mutant: the call is not repeated.
RetryNever(s, enable) == s

\* PmModeSwitchTimeout later the function is called again.
Retry(s, enable) == [s EXCEPT !.retries[enable] = @ + 1]

SetPowerSaveMode(s, enable) ==
    /\ untold' = IF s.m_state = "ASSOCIATED" THEN untold ELSE MustBeTold(Reached(enable))
    /\ IF s.m_state # "ASSOCIATED"
       THEN sta' = [s EXCEPT !.pmMode = Reached(enable)] /\ UNCHANGED staQueue
       ELSE IF s.bssid = NoAp \/ s.pmMode = Reached(enable)
       THEN sta' = s /\ UNCHANGED staQueue
       ELSE /\ sta' = Retry([s EXCEPT !.pmMode = Switching(enable)], enable)
            /\ staQueue' = IF HasFramesToTransmit THEN staQueue
                           ELSE Enqueue(staQueue, Frame("data", s.femBssid))

PmModeSwitchTimeout(enable) ==
    /\ NothingDue /\ sta.retries[enable] > 0
    /\ SetPowerSaveMode([sta EXCEPT !.retries[enable] = @ - 1], enable)
    /\ UNCHANGED <<world, responses, ap, calls, overlapped, gaveUp, askedPm>>

\* FinalizeMacHeader puts the mode of the moment into every transmission. The
\* first frame of each queue may be transmitted, and may not arrive.
First(i) == \A j \in 1..i - 1 : staQueue[j].kind # staQueue[i].kind

Transmit(i) ==
    /\ MediumFree /\ First(i)
    /\ LET f == [staQueue[i] EXCEPT !.pm = Announces(sta.pmMode)]
       IN  \/ /\ staQueue' = [staQueue EXCEPT ![i] = [f EXCEPT !.air = "lost"]]
              /\ UNCHANGED <<ap, responses, untold>>
           \/ /\ staQueue' = Heard(staQueue, i, f)
              /\ ApReceive(f)
              /\ untold' = IF isInPsMode'[f.to] = f.pm THEN untold \ {f.to} ELSE untold \cup {f.to}
    /\ UNCHANGED <<world, sta, calls, overlapped, gaveUp, askedPm>>

\* Mutant: the power management bit of the frame is not compared.
AckedAnyMode(s, f) ==
    [s EXCEPT !.pmMode = IF Announces(@) THEN "POWERSAVE" ELSE "ACTIVE"]

\* StaWifiMac::TxOk
Acked(s, f) ==
    [s EXCEPT !.pmMode = IF s.pmMode = Switching(f.pm) THEN Reached(f.pm) ELSE @]

GotAck(i) ==
    /\ NothingDue /\ staQueue[i].air = "received"
    /\ sta' = Acked(sta, staQueue[i]) /\ staQueue' = SeqExt!RemoveAt(staQueue, i)
    /\ untold' = IF sta'.pmMode = sta.pmMode THEN untold
                 ELSE untold \cup (MustBeTold(sta'.pmMode) \ {staQueue[i].to})
    /\ UNCHANGED <<world, responses, ap, calls, overlapped, gaveUp, askedPm>>

MissedAck(i) ==
    /\ NothingDue /\ staQueue[i].air # "queued"
    /\ \/ staQueue' = [staQueue EXCEPT ![i].air = "queued", ![i].pm = FALSE]
       \/ staQueue' = SeqExt!RemoveAt(staQueue, i)
    /\ UNCHANGED <<world, sta, responses, ap, calls, history>>

\* StaWifiMac::Enqueue, of a packet for the network, in a station with QoS.
EnqueuePacket ==
    /\ sta.m_state = "ASSOCIATED" /\ staQueue' = Enqueue(staQueue, QosData(sta.femBssid))
    /\ UNCHANGED <<sta, responses, ap, history>>

-----------------------------------------------------------------------------
\* DoInitialize starts the first scan. What the user does is bounded by `calls'.
Init ==
    /\ world \in Worlds
    /\ sta = StartScanning(Station) /\ staQueue = <<>>
    /\ responses = [a \in Aps |-> <<>>] /\ apState = [a \in Aps |-> "BRAND_NEW"]
    /\ isInPsMode = [a \in Aps |-> FALSE] /\ calls = world.maxCalls
    /\ overlapped = FALSE /\ gaveUp = {} /\ askedPm = {} /\ untold = {}

UserSetsPowerSaveMode(enable) ==
    /\ sta.retries[enable] < MaxRetries
    /\ SetPowerSaveMode(sta, enable) /\ askedPm' = askedPm \cup {enable}
    /\ UNCHANGED <<responses, ap, overlapped, gaveUp>>

UserStep ==
    /\ NothingDue /\ calls > 0 /\ calls' = calls - 1
    /\ \/ "probing" \in world.calls /\ \E enable \in BOOLEAN : SetActiveProbing(enable)
       \/ "phy" \in world.calls /\ PhyCapabilitiesChanged
       \/ "channel" \in world.calls /\ NotifyChannelSwitching
       \/ "pm" \in world.calls /\ \E enable \in BOOLEAN : UserSetsPowerSaveMode(enable)
       \/ "packet" \in world.calls /\ EnqueuePacket
    /\ UNCHANGED world

MediumStep ==
    \/ \E a \in Aps : ReceiveBeacon(a) \/ ReceiveProbeResp(a) \/ ResponseReceived(a) \/ ResponseDropped(a)
    \/ \E i \in DOMAIN staQueue : Transmit(i) \/ GotAck(i) \/ MissedAck(i)

TimerStep ==
    \/ EndScanning \/ AssocRequestTimeout \/ MissedBeacons \/ ReceptionEnds \/ DisassociatedLater
    \/ \E enable \in BOOLEAN : PmModeSwitchTimeout(enable)

Next == UserStep \/ MediumStep \/ TimerStep

Spec == Init /\ [][Next]_vars

\* Timers expire, and of what is transmitted again and again something arrives and
\* is acknowledged.
TimersExpire == EndScanning \/ DisassociatedLater
AckTimeout == \E i \in DOMAIN staQueue : MissedAck(i)
Arrives == \E i \in DOMAIN staQueue : Transmit(i) /\ staQueue'[i].air = "received"
IsAcked == \E i \in DOMAIN staQueue : GotAck(i)

-----------------------------------------------------------------------------
\* Type invariant.
TypeOK ==
    /\ sta.m_state \in States /\ {sta.bssid, sta.femBssid, sta.m_aid} \subseteq Aps \cup {NoAp}
    /\ sta.apList \subseteq Aps /\ sta.leaving \in {"no", "receiving", "due"}
    /\ sta.pmMode \in PmModes /\ sta.retries \in [BOOLEAN -> 0..MaxRetries]
    /\ {sta.scanEnd, sta.m_assocRequestEvent, sta.m_beaconWatchdog} \subseteq BOOLEAN
    /\ sta.endNow \in Nat
    /\ apState \in [Aps -> ApStates] /\ isInPsMode \in [Aps -> BOOLEAN]

\* No state of the station is a dead end: while it scans the end of a scan is
\* scheduled, while it waits for a response the request timer runs, and while it is
\* associated missed beacons will be noticed (the arrows of the state diagram in
\* sta-wifi-mac.h), whatever calls and late frames come in between.
MovesOn ==
    /\ sta.m_state = "SCANNING" => sta.scanEnd \/ sta.endNow > 0
    /\ sta.m_state = "WAIT_ASSOC_RESP" => sta.m_assocRequestEvent
    /\ sta.m_state = "ASSOCIATED" => sta.m_beaconWatchdog \/ sta.leaving # "no"

\* Whenever SendAssociationRequest may be called by a timer there is a BSSID to send
\* the request to: it aborts the simulation if there is none.
AsksKnownAp == sta.m_assocRequestEvent => sta.bssid # NoAp

\* Unless a scan was started while the end of another one was scheduled, a scan ends
\* only in a station that scans and a request is repeated only in a station that waits
\* for the response: ScanningTimeout and AssocRequestTimeout take a station that
\* associated in the meantime out of its BSS without looking at its state.
CleanScan ==
    ~overlapped => /\ sta.scanEnd \/ sta.endNow > 0 => sta.m_state = "SCANNING"
                   /\ sta.m_assocRequestEvent => sta.m_state = "WAIT_ASSOC_RESP"

\* Once its responses are delivered, the AP a station is associated with has it
\* associated as well, though the acknowledgement of a response may get lost and the
\* station ask again; unless the AP gave up the response (ApWifiMac::TxFailed).
AssociationAgreed ==
    LET a == sta.femBssid
    IN  sta.m_state = "ASSOCIATED" /\ responses[a] = <<>>
           => apState[a] = "GOT_ASSOC_TX_OK" \/ a \in gaveUp

\* What the station has to say about its mode is said.
Settled(a) ==
    /\ sta.m_state = "ASSOCIATED" /\ staQueue = <<>> /\ apState[a] = "GOT_ASSOC_TX_OK"
    /\ \A enable \in BOOLEAN : sta.retries[enable] = 0

SameMode(a) == /\ sta.pmMode = "ACTIVE" => ~isInPsMode[a]
               /\ sta.pmMode = "POWERSAVE" => isInPsMode[a]

\* When a mode switch is over the AP holds frames back for the station exactly if it
\* is in power save mode: the acknowledgement on which StaWifiMac::TxOk completes the
\* switch is that of a frame with the new flag ("the PM mode change is effective
\* now"), and ApWifiMac::Receive processes the flag of what it acknowledges.
PowerModeAgreed == LET a == sta.femBssid IN Settled(a) => SameMode(a)

\* The same of every AP at every time a switch is over, unless the last frame the AP
\* got was a duplicate, or came before the AP had the station associated, or the mode
\* was set while the station was not associated or by what another AP acknowledged.
PowerModeAgreedIfTold == \A a \in Aps \ untold : SameMode(a)

\* An associated station takes frames and beacons from one and the same AP: the
\* link's BSSID is the one of its frame exchange manager (NS_ASSERT in
\* ReceiveAssocResp: "*GetLink(linkId).bssid == hdr.GetAddr3()").
BssidAgrees == sta.m_state = "ASSOCIATED" => sta.bssid = sta.femBssid

\* A station that stays associated and is asked for power save mode only gets there:
\* the call is repeated "to make sure that the PM mode switch is eventually
\* completed", though the frames that announce the mode may be lost or dropped.
PmSettles ==
    askedPm = {TRUE} ~> \/ sta.pmMode = "POWERSAVE"
                        \/ askedPm # {TRUE} \/ sta.m_state # "ASSOCIATED"
=============================================================================
