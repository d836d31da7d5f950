------------------------- MODULE OriginatorAgreement -------------------------
(***************************************************************************)
(* The originator of a Block Ack agreement: originator-block-ack-          *)
(* agreement.cc and block-ack-manager.cc with the EDCA queue of one        *)
(* recipient and TID (wifi-mac-queue.cc, qos-txop.cc), as operators on a   *)
(* record of their state.                                                  *)
(***************************************************************************)
EXTENDS BlockAckWindow

CONSTANTS MaxMpdus    \* bound on the packets the upper layer sends

ASSUME MpdusAssumption == MaxMpdus \in Nat

Ids == 0..MaxMpdus - 1
NoSeq == -1
Mpdu(id, seq) == [id |-> id, seq |-> seq]
Mpdus == [id : Ids, seq : SeqNos]

\* An element of the EDCA queue, with or without a sequence number. The queue is in
\* the order of enqueuing, which is that of the identities.
Elements == [id : Ids, seq : SeqNos \cup {NoSeq}, retry : BOOLEAN, inFlight : BOOLEAN]

\* The BlockAckReq in the EDCA queue, where control frames have no lifetime. Its
\* starting sequence number is set when it is sent; it is `sent' if it, and not
\* its replacement, has been transmitted.
Bars == [queued : BOOLEAN, sent : BOOLEAN]
NoBar == [queued |-> FALSE, sent |-> FALSE]
NewBar == [queued |-> TRUE, sent |-> FALSE]

\* The ADDBA request in the EDCA queue: packets below `before' were enqueued
\* before it, so that their lifetime ends first.
Requests == [queued : BOOLEAN, inFlight : BOOLEAN, ssn : SeqNos, before : 0..MaxMpdus,
             expired : BOOLEAN]
NoRequest == [queued |-> FALSE, inFlight |-> FALSE, ssn |-> 0, before |-> 0, expired |-> FALSE]

\* OriginatorBlockAckAgreement::State, "NONE" for no agreement. A rejection is
\* not modelled: no recipient sends one.
States == {"NONE", "PENDING", "ESTABLISHED", "NO_REPLY", "RESET"}

NewOriginator ==
    [state |-> "NONE",
     queue |-> {},                \* the EDCA queue
     window |-> NewWindow(0),     \* OriginatorBlockAckAgreement::m_txWindow
     outstanding |-> <<>>,        \* the in flight queue of the agreement
     bar |-> NoBar,
     barIfData |-> FALSE,         \* in m_sendBarIfDataQueued
     notices |-> {},              \* calls of NotifyDiscardedMpdu scheduled now, in order
     expired |-> 0,               \* the lifetime of the packets below this one is over
     request |-> NoRequest,
     respTimer |-> FALSE,         \* QosTxop::AddBaResponseTimeout is scheduled
     resetTimer |-> FALSE]        \* QosTxop::ResetBa is scheduled

Originators ==
    [state : States, queue : SUBSET Elements, window : Windows, outstanding : Seq(Mpdus),
     bar : Bars, barIfData : BOOLEAN, notices : SUBSET Mpdus, expired : 0..MaxMpdus,
     request : Requests, respTimer : BOOLEAN, resetTimer : BOOLEAN]

Members(list) == {list[i] : i \in DOMAIN list}
IdsOf(mpdus) == {m.id : m \in mpdus}
First(mpdus) == CHOOSE m \in mpdus : \A n \in mpdus : m.id <= n.id
Queued(o, m) == m.id \in IdsOf(o.queue)
InFlight(o, m) == \E e \in o.queue : e.id = m.id /\ e.inFlight
Without(mpdus, ids) == {m \in mpdus : m.id \notin ids}
Established(o) == o.state = "ESTABLISHED"

\* The list of those in mpdus.
Only(list, mpdus) ==
    LET upTo[k \in 0..Len(list)] ==
            IF k = 0 THEN <<>>
            ELSE IF list[k] \in mpdus THEN Append(upTo[k - 1], list[k]) ELSE upTo[k - 1]
    IN  upTo[Len(list)]

\* The list without those.
Erase(list, ids) == Only(list, Without(Members(list), ids))

-----------------------------------------------------------------------------
\* BlockAckManager::ScheduleBar replaces a BlockAckReq that is queued.
ScheduleBar(o) == [o EXCEPT !.bar = NewBar]

\* OriginatorBlockAckAgreement::NotifyDiscardedMpdu
WindowPastDiscarded(w, seq) == AdvanceTxWindow(Advance(w, Distance(seq, w.m_winStart) + 1))

\* Outstanding MPDUs that are old, up to the first that is not.
OldOutstanding(o) ==
    {o.outstanding[i].id : i \in {j \in DOMAIN o.outstanding :
        \A k \in 1..j : IsOld(o.outstanding[k].seq, o.window.m_winStart)}}

\* The window past m, and what became old dropped.
Discard(o, m) ==
    LET advanced == [o EXCEPT !.window = WindowPastDiscarded(@, m.seq)]
        old == OldOutstanding(advanced)
    IN  [advanced EXCEPT !.queue = Without(@, old), !.outstanding = Erase(@, old)]

\* Mutant: the recipient is not told.
NotifyDiscardedSilently(o, m) ==
    IF ~Established(o) \/ IsOld(m.seq, o.window.m_winStart) THEN o ELSE Discard(o, m)

\* BlockAckManager::NotifyDiscardedMpdu, for an MPDU that has been transmitted.
NotifyDiscardedMpdu(o, m) ==
    IF ~Established(o) \/ IsOld(m.seq, o.window.m_winStart) THEN o
    ELSE ScheduleBar(Discard(o, m))

ToRetransmit(queue, id) ==
    {IF e.id = id THEN [e EXCEPT !.retry = TRUE, !.inFlight = FALSE] ELSE e : e \in queue}

\* Mutant: an MPDU in flight is kept after its lifetime.
HandleWithoutLifetime(o, m, toRetransmit) ==
    LET forgotten == [o EXCEPT !.outstanding = Erase(@, {m.id})]
    IN  CASE ~Queued(o, m) -> forgotten
          [] Queued(o, m) /\ IsOld(m.seq, o.window.m_winStart)
                -> [forgotten EXCEPT !.queue = Without(@, {m.id})]
          [] Queued(o, m) /\ ~IsOld(m.seq, o.window.m_winStart) /\ toRetransmit
                -> [forgotten EXCEPT !.queue = ToRetransmit(@, m.id)]
          [] OTHER -> o

\* BlockAckManager::HandleInFlightMpdu for an MPDU that is not acknowledged;
\* WifiMacQueue::TtlExceeded traces and removes one whose lifetime is over.
HandleInFlightMpdu(o, m, toRetransmit) ==
    LET forgotten == [o EXCEPT !.outstanding = Erase(@, {m.id})]
    IN  IF ~Queued(o, m) THEN forgotten
        ELSE IF IsOld(m.seq, o.window.m_winStart)
             THEN [forgotten EXCEPT !.queue = Without(@, {m.id})]
        ELSE IF m.id < o.expired
             THEN [NotifyDiscardedMpdu(o, m) EXCEPT !.queue = Without(@, {m.id})]
        ELSE IF toRetransmit
             THEN [forgotten EXCEPT !.queue = ToRetransmit(@, m.id)]
        ELSE o

\* OriginatorBlockAckAgreement::NotifyAckedMpdu
NotifyAckedMpdu(w, m) ==
    IF IsOld(m.seq, w.m_winStart) THEN w
    ELSE AdvanceTxWindow(SetAt(w, Distance(m.seq, w.m_winStart)))

\* The window after these MPDUs, one after the other.
AllAcked(w, got) ==
    LET after[k \in 0..Len(got)] ==
            IF k = 0 THEN w ELSE NotifyAckedMpdu(after[k - 1], got[k])
    IN  after[Len(got)]

\* Acknowledged MPDUs leave both queues.
AckedLeave(o, got) ==
    [o EXCEPT !.window = AllAcked(@, got), !.outstanding = Erase(@, IdsOf(Members(got))),
              !.queue = Without(@, IdsOf(Members(got)))]

\* The outstanding MPDUs that are in flight are to be retransmitted.
HandleUnacked(o, m) == HandleInFlightMpdu(o, m, InFlight(o, m))
AllUnacked(o) ==
    LET list == o.outstanding
        after[k \in 0..Len(list)] == IF k = 0 THEN o ELSE HandleUnacked(after[k - 1], list[k])
    IN  after[Len(list)]

\* BlockAckManager::NotifyGotBlockAck: these outstanding MPDUs are acknowledged.
NotifyGotBlockAck(o, got) ==
    IF Established(o) THEN AllUnacked(AckedLeave(o, got)) ELSE AckedLeave(o, got)

\* BlockAckManager::NeedBarRetransmission: the outstanding MPDUs up to the
\* first that stays in flight are handled; is there one?
HandleIfFirst(o, m) ==
    IF o.outstanding # <<>> /\ Head(o.outstanding) = m THEN HandleInFlightMpdu(o, m, FALSE) ELSE o
AfterNeedBar(o) ==
    LET list == o.outstanding
        after[k \in 0..Len(list)] == IF k = 0 THEN o ELSE HandleIfFirst(after[k - 1], list[k])
    IN  IF Established(o) THEN after[Len(list)] ELSE o
NeedBarRetransmission(o) == Established(o) /\ AfterNeedBar(o).outstanding # <<>>

\* WifiMacQueue::WipeAllExpiredMpdus: what is expired and not in flight leaves
\* the queue. BlockAckManager::NotifyDiscardedMpdu runs later in the same
\* instant, and returns at once for an MPDU that has never been transmitted and
\* for an ADDBA request.
WipeAllExpiredMpdus(o) ==
    LET wiped == {e \in o.queue : e.id < o.expired /\ ~e.inFlight}
    IN  [o EXCEPT !.queue = Without(@, IdsOf(wiped)),
                  !.request = IF @.expired /\ ~@.inFlight THEN NoRequest ELSE @,
                  !.notices = @ \cup {Mpdu(e.id, e.seq) : e \in {f \in wiped : f.retry}}]

\* HtFrameExchangeManager::GetBar: what it does to the queues.
GetBar(o) ==
    LET wiped == WipeAllExpiredMpdus(o)
    IN  IF ~wiped.bar.queued /\ wiped.barIfData /\ wiped.queue # {}
        THEN [ScheduleBar(wiped) EXCEPT !.barIfData = FALSE]
        ELSE wiped

\* The BlockAckReq that was sent, not a later one, leaves the queue.
DequeueBar(o) == IF o.bar.sent THEN [o EXCEPT !.bar = NoBar] ELSE o

-----------------------------------------------------------------------------
\* QosTxop::PeekNextMpdu removes old MPDUs from the queue and skips those in
\* flight; an MPDU is peeked only if the queue is not blocked.
WithoutOld(o) ==
    IF ~Established(o) THEN o
    ELSE [o EXCEPT !.queue = {e \in @ : e.seq = NoSeq \/ ~IsOld(e.seq, o.window.m_winStart)}]
Candidates(o) == {e \in o.queue : o.state # "PENDING" /\ ~e.inFlight}

\* The candidates with the numbers they have or get.
Numbered(elements, nextSeq) ==
    {Mpdu(e.id, IF e.seq # NoSeq THEN e.seq
                ELSE SeqPlus(nextSeq, Cardinality({f \in elements : f.seq = NoSeq /\ f.id < e.id}))) :
        e \in elements}

\* Mutant: an MPDU may be transmitted one number beyond the window.
IsInWindowOffByOne(seq, winStart) == Distance(seq, winStart) <= BufferSize

IsInWindow(seq, winStart) == Distance(seq, winStart) < BufferSize

\* BlockAckManager::StorePacket, for an MPDU within the window.
StorePacket(o, m) ==
    LET dist(e) == Distance(e.seq, o.window.m_winStart)
        earlier == {e \in Members(o.outstanding) : dist(e) < dist(m)}
    IN  IF ~Established(o) \/ IsOld(m.seq, o.window.m_winStart) \/ m \in Members(o.outstanding)
        THEN o
        ELSE [o EXCEPT !.outstanding = Append(Only(@, earlier), m)
                                       \o Only(@, Members(@) \ earlier)]

\* HtFrameExchangeManager::SendPsdu: the MPDUs are in flight and stored in order.
Flying(queue, mpdus) ==
    {IF e.id \in IdsOf(mpdus)
     THEN [e EXCEPT !.inFlight = TRUE, !.seq = (CHOOSE m \in mpdus : m.id = e.id).seq] ELSE e :
        e \in queue}
StoreIfSent(o, mpdus, id) ==
    IF id \in IdsOf(mpdus) THEN StorePacket(o, CHOOSE m \in mpdus : m.id = id) ELSE o
Sent(o, mpdus) ==
    LET after[n \in 0..MaxMpdus] ==
            IF n = 0 THEN [o EXCEPT !.queue = Flying(@, mpdus)]
            ELSE StoreIfSent(after[n - 1], mpdus, n - 1)
    IN  after[MaxMpdus]

\* WifiDefaultAckManager::ExistInflightOnSameLink: earlier ones are in flight.
ExistInflight(o, m) == \E e \in o.queue : e.inFlight /\ e.id < m.id

\* The acknowledgment WifiDefaultAckManager asks for.
Kind(o, mpdus) ==
    IF Cardinality(mpdus) > 1 THEN "Ampdu"
    ELSE IF Established(o) /\ \E m \in mpdus : ExistInflight(o, m) THEN "NoResponse"
    ELSE "Single"

-----------------------------------------------------------------------------
(* Setting up the agreement.                                                *)

\* The number an agreement starts with: that of a packet to be sent again, if
\* there is one at the head of these, otherwise the next one.
StartingSequence(elements, nextSeq) ==
    IF elements # {} /\ First(elements).retry THEN First(elements).seq ELSE nextSeq

\* BlockAckManager::CreateOriginatorAgreement; the queue is blocked.
CreateOriginatorAgreement(o, ssn) ==
    [o EXCEPT !.state = "PENDING", !.window = NewWindow(ssn), !.outstanding = <<>>]

\* QosTxop::GotAddBaResponse and BlockAckManager::UpdateOriginatorAgreement,
\* whatever the state; the queue is unblocked. PeekByTidAndAddress takes expired
\* packets out of the queue of QoS data only, which no ADDBA request is in.
GotAddBaResponse(o, nextSeq) ==
    LET wiped == [WipeAllExpiredMpdus(o) EXCEPT !.request = o.request]
    IN  [wiped EXCEPT !.state = "ESTABLISHED",
                      !.window = NewWindow(StartingSequence(wiped.queue, nextSeq))]

\* NO_REPLY and, later, QosTxop::ResetBa; the queue is unblocked.
NoReply(o) == [o EXCEPT !.state = "NO_REPLY", !.resetTimer = TRUE]
=============================================================================
