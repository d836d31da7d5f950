------------------------------ MODULE TwtStation ------------------------------
(***************************************************************************)
(* Target Wake Time at one node (an AP, or a non-AP STA with its PHY), for *)
(* one peer: the agreements and their service periods in                   *)
(* src/src/wifi/model/wifi-remote-station-manager.cc, the blocking of the  *)
(* peer's queues, and, at a STA, the sleep requests of sta-wifi-mac.cc and *)
(* wifi-phy.cc with the frame exchanges that postpone them.                *)
(*                                                                         *)
(* Time is relative: every pending simulator event carries the ticks left. *)
(***************************************************************************)
EXTENDS Integers, Sequences, FiniteSets

Seqs == INSTANCE SequencesExt

CONSTANTS
    Flows,          \* flow ids in use (0..7 in the code)
    Nodes,          \* the nodes to look at
    Schedules,      \* [wakeInterval, nominalWakeDuration] given to SetTwtSchedule
    TxDurations,    \* how long a frame that asks for a response takes, in ticks
    RxDurations,    \* the same for a frame addressed to us
    NavDurations,   \* Duration/ID of frames addressed to other stations
    MaxPending      \* bound: no new exchange with this many events pending

ASSUME TwtAssumption ==
    /\ MaxPending \in Nat /\ IsFiniteSet(Flows)
    \* whether GetTypeOfStation() == STA, the flows its agreements are for, and
    \* nextTwt + time left till the next beacon
    /\ \A n \in Nodes : n.isSta \in BOOLEAN /\ n.flows \subseteq Flows /\ n.firstDelays \subseteq Nat
    /\ UNION {TxDurations, RxDurations, NavDurations} \subseteq Nat \ {0}
    \* SetTwtSchedule aborts when wakeInterval < nominalWakeDuration
    /\ \A s \in Schedules : /\ s.nominalWakeDuration \in Nat \ {0}
                            /\ s.wakeInterval \in Nat
                            /\ s.wakeInterval >= s.nominalWakeDuration

VARIABLES
    node,                \* the one of Nodes this behaviour is about
    m_twtAgreementMap,   \* flow -> whether its SP is active, or NoAgreement
    m_twtAgreementCount,
    m_events,            \* pending simulator events, in the order they will run
    blocked,             \* the peer's queues are blocked for POWER_SAVE_MODE
    m_sleeping,          \* STA: state of the PHY
    phyBusy,             \* STA: ticks the PHY is still in TX or RX
    nav,                 \* STA: GetNavDurationLeft
    \* History, read by properties only:
    sleepAsked,          \* the last argument of SetPhySleepState from TWT
    crowded,             \* that call came while an earlier one was pending
    served               \* flows whose current agreement has had a whole SP

agreements == <<node, m_twtAgreementMap, m_twtAgreementCount>>
phy == <<m_sleeping, phyBusy, nav>>
twtHistory == <<sleepAsked, crowded, served>>
twtVars == <<agreements, m_events, blocked, phy, twtHistory>>

IsSta == node.isSta

NoAgreement == [isSpActiveNow |-> FALSE, exists |-> FALSE]
Agreement(active) == [isSpActiveNow |-> active, exists |-> TRUE]
Agreed(flow) == m_twtAgreementMap[flow].exists
Active(flow) == m_twtAgreementMap[flow].isSpActiveNow

-----------------------------------------------------------------------------
(* The simulator: events run in order of time, then of insertion. Names     *)
(* preceded by `Mutant' are plausible errors the properties must notice.     *)
NoFlow == -1
NoSchedule == [wakeInterval |-> 0, nominalWakeDuration |-> 0]
Spaced(schedule) == schedule.wakeInterval > schedule.nominalWakeDuration

\* `held': the agreement's EventId member for this call refers to this event.
TwtEvent(call, flow, schedule, left) ==
    [call |-> call, flow |-> flow, schedule |-> schedule, left |-> left, held |-> TRUE]
PhyEvent(call, left) ==
    [call |-> call, flow |-> NoFlow, schedule |-> NoSchedule, left |-> left, held |-> FALSE]

\* How many of the pending events q run before one inserted now for this time.
Before(q, left) == Cardinality({i \in DOMAIN q : q[i].left <= left})

Insert(q, ev) == Seqs!InsertAt(q, Before(q, ev.left) + 1, ev)

IsOf(ev, call, flow) == ev.call = call /\ ev.flow = flow

\* The members of this flow's agreement are assigned new events.
Forget(q, flow) ==
    [i \in DOMAIN q |-> IF q[i].flow = flow THEN [q[i] EXCEPT !.held = FALSE] ELSE q[i]]

\* EventId::Cancel through the member: the one event it holds, if there is one.
HeldAt(q, call, flow) == {i \in DOMAIN q : IsOf(q[i], call, flow) /\ q[i].held}
Cancel(q, call, flow) ==
    IF HeldAt(q, call, flow) = {} THEN q
    ELSE Seqs!RemoveAt(q, CHOOSE i \in HeldAt(q, call, flow) : TRUE)

Pending(call, flow) == {m_events[i] : i \in {j \in DOMAIN m_events : IsOf(m_events[j], call, flow)}}
Held(call, flow) == {e \in Pending(call, flow) : e.held}

NextIs(call) == m_events # <<>> /\ m_events[1].left = 0 /\ m_events[1].call = call

-----------------------------------------------------------------------------
(* StaWifiMac::SetPhySleepState and the PHY it acts on.                     *)
SleepRequests == UNION {Pending(call, NoFlow) : call \in {"Sleep", "Wake", "SetSleepMode"}}

TxTimeouts == Pending("TxTimeout", NoFlow)
TxTimerIsRunning == TxTimeouts # {}

\* Mutant: the timer of a pending response is not looked at.
SleepPostponedByNav == nav > 0

SleepPostponed == TxTimerIsRunning \/ nav > 0
PostponedBy == IF TxTimerIsRunning THEN (CHOOSE e \in TxTimeouts : TRUE).left ELSE nav

\* Pending events after SetPhySleepState(enable), q being those before.
EventsAfterSleepState(q, enable) ==
    CASE ~IsSta -> q
      [] IsSta /\ SleepPostponed -> Insert(q, PhyEvent(IF enable THEN "Sleep" ELSE "Wake", PostponedBy))
      [] IsSta /\ ~SleepPostponed /\ enable /\ ~m_sleeping /\ phyBusy > 0
            -> Insert(q, PhyEvent("SetSleepMode", phyBusy))
      [] OTHER -> q

\* The PHY after it: SetSleepMode waits for an idle PHY, ResumeFromSleep only
\* acts on a sleeping one. A PHY that falls asleep resets the frame exchange manager,
\* which has nothing to cancel then: neither TxTimer nor NAV runs, and while
\* SetSleepMode waits for the end of a frame neither starts.
SleepingAfterSleepState(enable) ==
    IF ~IsSta \/ SleepPostponed THEN m_sleeping
    ELSE enable /\ (m_sleeping \/ phyBusy = 0)

SetPhySleepState(q, enable) ==
    /\ m_events' = EventsAfterSleepState(q, enable)
    /\ m_sleeping' = SleepingAfterSleepState(enable)

-----------------------------------------------------------------------------
TwtInit ==
    /\ node \in Nodes
    /\ m_twtAgreementMap = [flow \in Flows |-> NoAgreement] /\ m_twtAgreementCount = 0
    /\ m_events = <<>> /\ blocked = FALSE
    /\ m_sleeping = FALSE /\ phyBusy = 0 /\ nav = 0
    /\ sleepAsked = FALSE /\ crowded = FALSE /\ served = {}

\* Mutant: only the End event of a replaced agreement is cancelled.
CancelEnd(q, flow) == Cancel(q, "EndTwtSpNow", flow)

CancelBoth(q, flow) == Cancel(Cancel(q, "BeginTwtSpNow", flow), "EndTwtSpNow", flow)

\* WifiMac::SetTwtSchedule and CreateTwtAgreement, called by the scenario: an
\* agreement in place is replaced, its events cancelled.
SetTwtSchedule(flow, schedule, first) ==
    /\ m_twtAgreementMap' = [m_twtAgreementMap EXCEPT ![flow] = Agreement(FALSE)]
    /\ m_twtAgreementCount' = m_twtAgreementCount + (IF Agreed(flow) THEN 0 ELSE 1)
    /\ served' = served \ {flow}
    /\ UNCHANGED <<node, blocked, phy, sleepAsked, crowded>>
    /\ \E q \in {CancelBoth(m_events, flow)} :
          m_events' = Insert(q, TwtEvent("BeginTwtSpNow", flow, schedule, first))

\* BlockUnicastTxOnLinks and UnblockUnicastTxOnLinks for the peer's only link.
BlockPeer == blocked' = TRUE
UnblockPeer == blocked' = FALSE

\* The two events BeginTwtSpNow schedules, the next Begin first.
BeginOf(ev) == TwtEvent("BeginTwtSpNow", ev.flow, ev.schedule, ev.schedule.wakeInterval)
EndOf(ev) == TwtEvent("EndTwtSpNow", ev.flow, ev.schedule, ev.schedule.nominalWakeDuration)

\* Mutant: the next period is not scheduled.
ChainBroken(q, ev) == Insert(Forget(q, ev.flow), EndOf(ev))

Chain(q, ev) == Insert(Insert(Forget(q, ev.flow), BeginOf(ev)), EndOf(ev))

\* Everything BeginTwtSpNow does but for the queues of the peer. The code
\* aborts if the flow has no agreement, which OneChain excludes.
BeginPeriod ==
    /\ NextIs("BeginTwtSpNow") /\ Agreed(m_events[1].flow)
    /\ m_twtAgreementMap' = [m_twtAgreementMap EXCEPT ![m_events[1].flow] = Agreement(TRUE)]
    /\ m_sleeping' = SleepingAfterSleepState(FALSE)
    /\ sleepAsked' = FALSE /\ crowded' = (SleepRequests # {})
    /\ UNCHANGED <<node, m_twtAgreementCount, phyBusy, nav, served>>
    /\ \E q \in {EventsAfterSleepState(Tail(m_events), FALSE)} : m_events' = Chain(q, m_events[1])

\* Mutant: the peer's queues are not unblocked.
BeginBlocked == BeginPeriod /\ UNCHANGED blocked

BeginTwtSpNow == BeginPeriod /\ UnblockPeer

EndPeriod ==
    /\ NextIs("EndTwtSpNow")
    /\ LET flow == m_events[1].flow
       IN  /\ m_twtAgreementMap' = [m_twtAgreementMap EXCEPT ![flow].isSpActiveNow = FALSE]
           /\ served' = served \cup {flow}
    /\ SetPhySleepState(Tail(m_events), TRUE)
    /\ sleepAsked' = TRUE /\ crowded' = (SleepRequests # {})
    /\ UNCHANGED <<node, m_twtAgreementCount, phyBusy, nav>>

\* Mutant: the peer's queues are left open.
EndOpen == EndPeriod /\ UNCHANGED blocked

EndTwtSpNow == EndPeriod /\ BlockPeer

\* A postponed SetPhySleepState looks at the timer and the NAV again.
PostponedSleepState ==
    /\ \/ NextIs("Sleep") /\ SetPhySleepState(Tail(m_events), TRUE)
       \/ NextIs("Wake") /\ SetPhySleepState(Tail(m_events), FALSE)
    /\ UNCHANGED <<agreements, blocked, phyBusy, nav, twtHistory>>

\* Mutant: the postponed call finds an idle PHY and does nothing.
SetSleepModeForgotten ==
    /\ NextIs("SetSleepMode") /\ m_events' = Tail(m_events)
    /\ UNCHANGED <<agreements, blocked, phy, twtHistory>>

\* WifiPhy::SetSleepMode, at the end of the frame it waited for.
PostponedSetSleepMode ==
    /\ NextIs("SetSleepMode")
    /\ m_events' = IF phyBusy > 0 /\ ~m_sleeping
                   THEN Insert(Tail(m_events), PhyEvent("SetSleepMode", phyBusy))
                   ELSE Tail(m_events)
    /\ m_sleeping' = (m_sleeping \/ phyBusy = 0)
    /\ UNCHANGED <<agreements, blocked, phyBusy, nav, twtHistory>>

-----------------------------------------------------------------------------
(* Frame exchanges of the STA, as far as they postpone sleeping. A frame    *)
(* starts strictly after the events of its instant (SIFS and AIFS are       *)
(* positive).                                                               *)
Due == m_events # <<>> /\ m_events[1].left = 0
Awake == IsSta /\ ~m_sleeping /\ phyBusy = 0 /\ ~Due
Sifs == 1

MayStart == Awake /\ Len(m_events) < MaxPending

\* A frame that asks for a response: the timer covers it and the response. One
\* that is owed goes first: a SIFS is shorter than an AIFS.
SendMpdu(d) ==
    /\ MayStart /\ nav = 0 /\ ~TxTimerIsRunning /\ Pending("SendResponse", NoFlow) = {}
    /\ phyBusy' = d
    /\ m_events' = Insert(m_events, PhyEvent("TxTimeout", d + Sifs))
    /\ UNCHANGED <<agreements, blocked, m_sleeping, nav, twtHistory>>

\* The response is received: the timer is cancelled.
ReceivedNormalAck ==
    /\ Awake
    /\ \E i \in DOMAIN m_events :
          m_events[i].call = "TxTimeout" /\ m_events' = Seqs!RemoveAt(m_events, i)
    /\ UNCHANGED <<agreements, blocked, phy, twtHistory>>

TxTimeout ==
    /\ NextIs("TxTimeout") /\ m_events' = Tail(m_events)
    /\ UNCHANGED <<agreements, blocked, phy, twtHistory>>

\* A frame addressed to us: the response is scheduled a SIFS after its end.
Receive(d) ==
    /\ MayStart /\ ~TxTimerIsRunning /\ Pending("SendResponse", NoFlow) = {}
    /\ phyBusy' = d
    /\ m_events' = Insert(m_events, PhyEvent("SendResponse", d + Sifs))
    /\ UNCHANGED <<agreements, blocked, m_sleeping, nav, twtHistory>>

\* WifiPhy::Send drops the response when the PHY sleeps.
SendResponse ==
    /\ NextIs("SendResponse") /\ m_events' = Tail(m_events)
    /\ phyBusy' = IF m_sleeping THEN phyBusy ELSE 1
    /\ UNCHANGED <<agreements, blocked, m_sleeping, nav, twtHistory>>

\* FrameExchangeManager::UpdateNav, for a frame addressed to another station.
UpdateNav(d) ==
    /\ MayStart /\ d > nav /\ nav' = d
    /\ UNCHANGED <<agreements, m_events, blocked, m_sleeping, phyBusy, twtHistory>>

-----------------------------------------------------------------------------
\* The clock advances to the next event, a tick at a time.

\* Mutant: counts below zero.
LessUnchecked(n) == n - 1

Less(n) == IF n = 0 THEN 0 ELSE n - 1
Tick ==
    /\ m_events # <<>> /\ ~Due
    /\ m_events' = [i \in DOMAIN m_events |-> [m_events[i] EXCEPT !.left = @ - 1]]
    /\ phyBusy' = Less(phyBusy) /\ nav' = Less(nav)
    /\ UNCHANGED <<agreements, blocked, m_sleeping, twtHistory>>

Create ==
    \E flow \in node.flows, schedule \in Schedules, first \in node.firstDelays :
        SetTwtSchedule(flow, schedule, first)

RunNext ==
    \/ BeginTwtSpNow \/ EndTwtSpNow \/ PostponedSleepState \/ PostponedSetSleepMode
    \/ TxTimeout \/ SendResponse

Exchange ==
    \/ ReceivedNormalAck
    \/ \E d \in TxDurations : SendMpdu(d)
    \/ \E d \in RxDurations : Receive(d)
    \/ \E d \in NavDurations : UpdateNav(d)

TwtNext == Create \/ RunNext \/ Exchange \/ Tick

TwtSpec == TwtInit /\ [][TwtNext]_twtVars

\* The simulator runs its events: time passes and what is due is executed.
TwtFairSpec == TwtSpec /\ WF_twtVars(RunNext \/ Tick)

-----------------------------------------------------------------------------
\* Type invariant.
Calls == {"BeginTwtSpNow", "EndTwtSpNow", "Sleep", "Wake", "SetSleepMode", "TxTimeout", "SendResponse"}
TwtTypeOK ==
    /\ node \in Nodes
    /\ m_twtAgreementMap \in [Flows -> {NoAgreement, Agreement(TRUE), Agreement(FALSE)}]
    /\ m_twtAgreementCount = Cardinality({flow \in Flows : Agreed(flow)})
    /\ \A i \in DOMAIN m_events : m_events[i].call \in Calls /\ m_events[i].left \in Nat
    /\ \A i, j \in DOMAIN m_events : i < j => m_events[i].left <= m_events[j].left
    /\ {blocked, m_sleeping, sleepAsked, crowded} \subseteq BOOLEAN /\ phyBusy \in Nat /\ nav \in Nat
    /\ served \subseteq Flows

\* GetTimeTillEndOfOngoingTwtSPs
TimeTillEndOfOngoingTwtSPs ==
    LET lefts == {0} \cup {e.left : e \in UNION {Held("EndTwtSpNow", flow) : flow \in Flows}}
    IN  CHOOSE t \in lefts : \A u \in lefts : u <= t

\* Each agreement has exactly one chain of service periods: one pending Begin,
\* the one its EventId member refers to, whatever was replaced and when. A
\* chain that survived its replacement would run beside the new one for ever,
\* and one that died would leave the peer blocked for ever.
OneChain ==
    \A flow \in Flows :
        LET begins == {i \in DOMAIN m_events : IsOf(m_events[i], "BeginTwtSpNow", flow)}
        IN  IF Agreed(flow) THEN \E i \in begins : begins = {i} /\ m_events[i].held
            ELSE begins = {}

\* The peer can be sent frames while a service period with it is ongoing: "time
\* remaining till the end of all ongoing TWT SPs. If multiple TWT SPs are
\* ongoing, the latest ending TWT SP time is returned" (wifi-remote-station-
\* manager.h) is the time a frame exchange with it may take.
OpenInServicePeriod ==
    ~Due /\ TimeTillEndOfOngoingTwtSPs > 0 => ~blocked

\* It is so while there is one agreement, whatever replaces it and when, if a period
\* ends before the next begins. (With wakeInterval = nominalWakeDuration the next one
\* begins first, and the end of the one before it blocks the peer.)
OpenWithOneFlow ==
    m_twtAgreementCount <= 1 =>
        \A flow \in Flows : \A e \in Held("EndTwtSpNow", flow) : Spaced(e.schedule) => ~blocked

\* Between the service periods, once each agreement has had one, the peer is not
\* sent frames.
BlockedBetweenPeriods ==
    /\ served # {} /\ served = {flow \in Flows : Agreed(flow)}
    /\ \A flow \in Flows : ~Active(flow)
    => blocked

\* "Sleep if set if true, wake if set to false" (sta-wifi-mac.h): once no sleep
\* request is pending any more, the PHY does what the last one asked.
SleepFollowsLast ==
    IsSta /\ SleepRequests = {} => m_sleeping = sleepAsked

\* It does so, whatever postpones the request, if no earlier request was still
\* pending when it was made; and a request made in quiet repairs the effect of
\* earlier ones that overtook each other.
QuietRequestFollowed == ~crowded => SleepFollowsLast

\* "For sleeping, ongoing frame exchange is completed first" (sta-wifi-mac.h): the
\* STA is awake for the response of an exchange it started. (The PHY may be asleep
\* when it owes a response itself: it sleeps at the end of the frame it received.)
AwakeForResponse == TxTimerIsRunning => ~m_sleeping

\* Unless it is replaced over and over, every agreement keeps having service
\* periods.
KeepsWaking ==
    \A flow \in Flows : []<><<Create>>_twtVars \/ [](~Agreed(flow)) \/ []<>Active(flow)
=============================================================================
