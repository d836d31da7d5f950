------------------------------- MODULE BlockAck -------------------------------
(***************************************************************************)
(* A Block Ack agreement over one link that loses frames, from the ADDBA   *)
(* handshake on: an originator and a recipient, with the frame exchanges   *)
(* of ht/ht-frame-exchange-manager.cc between them.                        *)
(*                                                                         *)
(* The attributes have their default values: no inactivity timeout, no     *)
(* TXOP limit, BaThreshold 0, an explicit BlockAckReq after a missed       *)
(* BlockAck. No RTS, no fragments, no A-MSDU. The time available for an    *)
(* exchange is limited by the end of a TWT service period, if at all.      *)
(***************************************************************************)
EXTENDS RecipientAgreement, OriginatorAgreement

CONSTANTS
    StartingSeqs,   \* the next sequence number when the model starts
    VhtSupported,   \* an agreement is set up for a single packet, too
    Fits,           \* whether a BlockAckReq or ADDBA request fits in the time available
    MaxRequests     \* bound on the ADDBA requests

ASSUME BlockAckAssumption ==
    /\ StartingSeqs \subseteq SeqNos /\ VhtSupported \in BOOLEAN
    /\ Fits \in {{TRUE}, {TRUE, FALSE}} /\ MaxRequests \in Nat

VARIABLES
    originator,
    psdu,         \* the frame whose response, or end, is awaited
    m_nextSeq,    \* MacTxMiddle: the next sequence number
    nMpdus,       \* packets enqueued so far: the identity of the next one
    nRequests,    \* ADDBA requests created so far: the identity of the last one
    recipient,
    response,     \* the ADDBA response the recipient has queued
    acked,        \* history: the MPDUs the originator took for acknowledged
    apart         \* history: the two ends of the agreement began at different numbers

vars == <<originator, psdu, m_nextSeq, nMpdus, nRequests, recipient, response, acked, apart>>

\* A psdu: its MPDUs, those still to arrive or get lost, whether one has arrived.
Psdus ==
    [kind : {"None", "Ampdu", "Bar", "Single", "NoResponse", "Request"}, mpdus : SUBSET Mpdus,
     left : SUBSET Mpdus, arrived : BOOLEAN, ssn : SeqNos]
Psdu(kind, mpdus, ssn) ==
    [kind |-> kind, mpdus |-> mpdus, left |-> mpdus, arrived |-> FALSE, ssn |-> ssn]
NoPsdu == Psdu("None", {}, 0)

Recipients ==
    [agreement : BOOLEAN, scoreboard : Windows, m_winStartB : 0..Uint16 - 1,
     m_bufferedMpdus : SUBSET Mpdus, passed : Seq(Mpdus)]

\* The response, and the last request MacRxMiddle has seen.
Responses == [queued : BOOLEAN, lastRequest : 0..MaxRequests]

Init ==
    /\ originator = NewOriginator /\ m_nextSeq \in StartingSeqs
    /\ recipient = NoAgreement /\ response = [queued |-> FALSE, lastRequest |-> 0]
    /\ psdu = NoPsdu /\ nMpdus = 0 /\ nRequests = 0 /\ acked = {} /\ apart = FALSE

-----------------------------------------------------------------------------
(* The upper layer, time, and the scheduled calls.                          *)
Enqueue ==
    /\ nMpdus < MaxMpdus /\ nMpdus' = nMpdus + 1
    /\ originator' = [WipeAllExpiredMpdus(originator) EXCEPT !.queue =
          @ \cup {[id |-> nMpdus, seq |-> NoSeq, retry |-> FALSE, inFlight |-> FALSE]}]
    /\ UNCHANGED <<psdu, m_nextSeq, nRequests, recipient, response, acked, apart>>

\* Lifetimes end in the order in which frames were enqueued.
RequestLives == originator.request.queued /\ ~originator.request.expired

LifetimeEnds ==
    /\ originator.notices = {} /\ originator.expired < nMpdus
    /\ RequestLives => originator.expired < originator.request.before
    /\ originator' = [originator EXCEPT !.expired = @ + 1]
    /\ UNCHANGED <<psdu, m_nextSeq, nMpdus, nRequests, recipient, response, acked, apart>>

RequestLifetimeEnds ==
    /\ originator.notices = {} /\ RequestLives
    /\ originator.expired >= originator.request.before
    /\ originator' = [originator EXCEPT !.request.expired = TRUE]
    /\ UNCHANGED <<psdu, m_nextSeq, nMpdus, nRequests, recipient, response, acked, apart>>

\* QosTxop::HasFramesToTransmit, when the channel is requested.
HasFramesToTransmit ==
    /\ originator' = WipeAllExpiredMpdus(originator)
    /\ UNCHANGED <<psdu, m_nextSeq, nMpdus, nRequests, recipient, response, acked, apart>>

\* The trace WifiMacQueue::m_traceExpired of an MPDU that was wiped.
ExpiredTrace ==
    /\ originator.notices # {}
    /\ LET m == First(originator.notices)
       IN  originator' = NotifyDiscardedMpdu([originator EXCEPT !.notices = @ \ {m}], m)
    /\ UNCHANGED <<psdu, m_nextSeq, nMpdus, nRequests, recipient, response, acked, apart>>

AddBaResponseTimeout ==
    /\ originator.notices = {} /\ originator.respTimer
    /\ LET o == [originator EXCEPT !.respTimer = FALSE]
       IN  originator' = IF o.state = "PENDING" THEN NoReply(o) ELSE o
    /\ UNCHANGED <<psdu, m_nextSeq, nMpdus, nRequests, recipient, response, acked, apart>>

ResetBa ==
    /\ originator.notices = {} /\ originator.resetTimer
    /\ originator' = [originator EXCEPT !.resetTimer = FALSE,
                                        !.state = IF @ = "ESTABLISHED" THEN @ ELSE "RESET"]
    /\ UNCHANGED <<psdu, m_nextSeq, nMpdus, nRequests, recipient, response, acked, apart>>

-----------------------------------------------------------------------------
(* HtFrameExchangeManager::StartFrameExchange: a BlockAckReq, an ADDBA      *)
(* request or data, the first that can be sent. Both ends of an exchange    *)
(* are separated by the time the frames take, so the scheduled calls of an  *)
(* instant run in between.                                                  *)
MayStart == psdu.kind = "None" /\ originator.notices = {}

SendBar ==
    /\ MayStart
    /\ LET o == GetBar(originator)
       IN  /\ o.bar.queued
           /\ originator' = [o EXCEPT !.bar.sent = TRUE]
           /\ psdu' = Psdu("Bar", {}, o.window.m_winStart)
    /\ UNCHANGED <<m_nextSeq, nMpdus, nRequests, recipient, response, acked, apart>>

\* The originator when GetBar returns nothing, or a BlockAckReq for which there
\* is too little time. Only with data in the queue is the time limited.
Peeked == WithoutOld(GetBar(originator))
MayPassBar == Peeked.bar.queued => FALSE \in Fits

\* A request that is queued again; management frames go first.
SendRequest ==
    /\ MayStart /\ ~Peeked.bar.queued /\ Peeked.request.queued
    /\ originator' = [Peeked EXCEPT !.request.inFlight = TRUE]
    /\ psdu' = Psdu("Request", {}, Peeked.request.ssn)
    /\ UNCHANGED <<m_nextSeq, nMpdus, nRequests, recipient, response, acked, apart>>

NeedSetupBlockAck(o) ==
    /\ o.state \in {"NONE", "RESET"}
    /\ VhtSupported \/ Cardinality(o.queue) > 1

\* SendAddBaRequest: the agreement is created, then the time is checked.
SendAddBaRequest(fits) ==
    /\ MayStart /\ ~Peeked.bar.queued /\ ~Peeked.request.queued
    /\ Candidates(Peeked) # {} /\ NeedSetupBlockAck(Peeked) /\ nRequests < MaxRequests
    /\ LET ssn == StartingSequence(Candidates(Peeked), m_nextSeq)
           o == CreateOriginatorAgreement(Peeked, ssn)
           request == [queued |-> TRUE, inFlight |-> TRUE, ssn |-> ssn, before |-> nMpdus,
                       expired |-> FALSE]
       IN  /\ originator' = IF fits THEN [o EXCEPT !.request = request] ELSE o
           /\ psdu' = IF fits THEN Psdu("Request", {}, ssn) ELSE psdu
           /\ nRequests' = nRequests + 1
    /\ UNCHANGED <<m_nextSeq, nMpdus, recipient, response, acked, apart>>

\* The MPDUs an A-MPDU can have: the first ones.
Prefixes(mpdus) == {{m \in mpdus : m.id <= last.id} : last \in mpdus}

\* SendDataFrame: an MPDU or, with an agreement, an A-MPDU of as many as size
\* and time allow. An MPDU sent alone after others still in flight is followed
\* by a BlockAckReq.
SendData ==
    /\ MayStart /\ MayPassBar /\ ~Peeked.request.queued /\ ~NeedSetupBlockAck(Peeked)
    /\ \E mpdus \in Prefixes(Numbered(Candidates(Peeked), m_nextSeq)) :
          /\ IF Established(Peeked)
             THEN \A m \in mpdus : IsInWindow(m.seq, Peeked.window.m_winStart)
             ELSE Cardinality(mpdus) = 1
          /\ psdu' = Psdu(Kind(Peeked, mpdus), mpdus, 0)
          /\ originator' = IF Kind(Peeked, mpdus) = "NoResponse" THEN ScheduleBar(Sent(Peeked, mpdus))
                           ELSE Sent(Peeked, mpdus)
          /\ m_nextSeq' = SeqPlus(m_nextSeq, Cardinality(
                {e \in Candidates(Peeked) : e.seq = NoSeq /\ e.id \in IdsOf(mpdus)}))
    /\ UNCHANGED <<nMpdus, nRequests, recipient, response, acked, apart>>

-----------------------------------------------------------------------------
(* The ends of MPDUs and of exchanges.                                      *)

\* PhyEntity::EndOfMpdu: the next MPDU is received, on its own, or lost.
MpduEnds(arrives) ==
    /\ psdu.left # {} /\ originator.notices = {}
    /\ LET m == First(psdu.left)
       IN  /\ recipient' = IF arrives THEN ReceiveMpdu(recipient, m) ELSE recipient
           /\ psdu' = [psdu EXCEPT !.left = @ \ {m}, !.arrived = @ \/ arrives]
    /\ UNCHANGED <<originator, m_nextSeq, nMpdus, nRequests, response, acked, apart>>

Ends == psdu.kind # "None" /\ psdu.left = {} /\ originator.notices = {} /\ psdu' = NoPsdu

\* A BlockAck made from the state r of the recipient arrives. The BlockAckReq it
\* answers is dequeued, and TransmissionSucceeded looks for the next one.
BlockAckArrives(r) ==
    LET got == Only(originator.outstanding,
                    {m \in Members(originator.outstanding) : IsPacketReceived(r, m.seq)})
        o == NotifyGotBlockAck(originator, got)
    IN  /\ originator' = GetBar(IF psdu.kind = "Bar" THEN DequeueBar(o) ELSE o)
        /\ acked' = acked \cup Members(got)

\* HtFrameExchangeManager::MissedBlockAck
MissedBlockAck(o) ==
    LET left == AfterNeedBar(o)
    IN  CASE NeedBarRetransmission(o) /\ psdu.kind = "Bar" -> left
          [] NeedBarRetransmission(o) /\ psdu.kind # "Bar" -> ScheduleBar(left)
          [] ~NeedBarRetransmission(o) /\ psdu.kind = "Bar"
                -> [DequeueBar(left) EXCEPT !.barIfData = TRUE]
          [] OTHER -> [left EXCEPT !.barIfData = TRUE]

BlockAckTimeout == originator' = MissedBlockAck(originator) /\ UNCHANGED acked

\* A BlockAck is sent if an MPDU of the A-MPDU has arrived, and may be lost.
AmpduEnds(answered) ==
    /\ Ends /\ psdu.kind = "Ampdu" /\ (answered => psdu.arrived)
    /\ IF answered THEN BlockAckArrives(recipient) ELSE BlockAckTimeout
    /\ UNCHANGED <<m_nextSeq, nMpdus, nRequests, recipient, response, apart>>

BarEnds(arrives, answered) ==
    /\ Ends /\ psdu.kind = "Bar" /\ (answered => arrives)
    /\ LET r == IF arrives THEN ReceiveBar(recipient, psdu.ssn) ELSE recipient
       IN  /\ recipient' = r
           /\ IF answered THEN BlockAckArrives(r) ELSE BlockAckTimeout
    /\ UNCHANGED <<m_nextSeq, nMpdus, nRequests, response, apart>>

\* The ack arrives: BlockAckManager::NotifyGotAck, and the MPDU is dequeued.
GotAck(o, m) ==
    IF Established(o) THEN AckedLeave(o, <<m>>) ELSE [o EXCEPT !.queue = Without(@, {m.id})]

\* FrameExchangeManager::NormalAckTimeout with or without a retry left.
MissedAck(o, m, retry) ==
    CASE retry /\ Established(o) -> HandleInFlightMpdu(o, m, TRUE)
      [] retry /\ ~Established(o) -> [o EXCEPT !.queue = ToRetransmit(@, m.id)]
      [] OTHER -> [NotifyDiscardedMpdu(o, m) EXCEPT !.queue = Without(@, {m.id})]

SingleEnds(answered, retry) ==
    /\ Ends /\ psdu.kind = "Single" /\ (answered => psdu.arrived)
    /\ \E m \in psdu.mpdus :
          IF answered
          THEN originator' = GetBar(GotAck(originator, m)) /\ acked' = acked \cup {m}
          ELSE originator' = MissedAck(originator, m, retry) /\ UNCHANGED acked
    /\ UNCHANGED <<m_nextSeq, nMpdus, nRequests, recipient, response, apart>>

\* An MPDU with Block Ack policy is not answered.
NoResponseEnds ==
    /\ Ends /\ psdu.kind = "NoResponse"
    /\ originator' = GetBar(originator)
    /\ UNCHANGED <<m_nextSeq, nMpdus, nRequests, recipient, response, acked, apart>>

\* An ADDBA request ends. One that MacRxMiddle has not seen creates an agreement
\* and a response that replaces an earlier one.
RequestEnds(arrives, answered, retry) ==
    /\ Ends /\ psdu.kind = "Request" /\ (answered => arrives)
    /\ LET new == arrives /\ response.lastRequest # nRequests
           o == [originator EXCEPT !.request = NoRequest]
       IN  /\ recipient' = IF new THEN CreateRecipientAgreement(recipient, psdu.ssn) ELSE recipient
           /\ response' = IF new THEN [queued |-> TRUE, lastRequest |-> nRequests] ELSE response
           /\ originator' =
                 CASE answered -> GetBar([o EXCEPT !.respTimer = TRUE])
                   [] ~answered /\ retry -> [originator EXCEPT !.request.inFlight = FALSE]
                   [] ~answered /\ ~retry -> IF o.state = "PENDING" THEN NoReply(o) ELSE o
    /\ UNCHANGED <<m_nextSeq, nMpdus, nRequests, acked, apart>>

\* The recipient's response arrives, after any number of attempts, or is
\* discarded. A retransmission of one that arrived is a duplicate.
ResponseEnds(arrives) ==
    /\ MayStart /\ response.queued
    /\ response' = [response EXCEPT !.queued = FALSE]
    /\ originator' = IF arrives THEN GotAddBaResponse(originator, m_nextSeq) ELSE originator
    /\ apart' = (apart \/ (arrives /\ originator'.window.m_winStart # recipient.m_winStartB))
    /\ UNCHANGED <<psdu, m_nextSeq, nMpdus, nRequests, recipient, acked>>

Resolve ==
    \/ \E arrives \in BOOLEAN : MpduEnds(arrives)
    \/ \E answered \in BOOLEAN : AmpduEnds(answered)
    \/ \E arrives, answered \in BOOLEAN : BarEnds(arrives, answered)
    \/ \E answered, retry \in BOOLEAN : SingleEnds(answered, retry)
    \/ NoResponseEnds
    \/ \E arrives, answered, retry \in BOOLEAN : RequestEnds(arrives, answered, retry)

Respond == \E arrives \in BOOLEAN : ResponseEnds(arrives)

Send ==
    \/ SendBar \/ SendRequest
    \/ \E fits \in Fits : SendAddBaRequest(fits)
    \/ SendData

Timeout == AddBaResponseTimeout \/ ResetBa

Lifetime == LifetimeEnds \/ RequestLifetimeEnds

Next ==
    \/ Enqueue \/ Lifetime \/ HasFramesToTransmit \/ ExpiredTrace \/ Timeout
    \/ Send \/ Resolve \/ Respond

Spec == Init /\ [][Next]_vars

\* Channel access is requested only for a queue with a frame that may be sent.
AccessRequested ==
    /\ originator.state # "PENDING" \/ originator.request.queued
    /\ HasFramesToTransmit

\* What Resolve does to the psdu, and only Resolve: its fairness is that of this.
PsduEnds ==
    /\ psdu.kind # "None" /\ originator.notices = {}
    /\ IF psdu.left = {} THEN psdu' = NoPsdu
       ELSE \E arrives \in BOOLEAN :
               psdu' = [psdu EXCEPT !.left = @ \ {First(@)}, !.arrived = @ \/ arrives]

\* Channel access is granted again and again, with time for a BlockAckReq in
\* between, every exchange ends, lifetimes pass and what is scheduled is executed.
\* Nothing is assumed of the channel.
FairSpec ==
    /\ Spec
    /\ WF_vars(Send) /\ SF_vars(SendBar) /\ WF_psdu(PsduEnds) /\ WF_vars(Respond)
    /\ WF_vars(ExpiredTrace) /\ WF_vars(AddBaResponseTimeout) /\ WF_vars(ResetBa)
    /\ WF_vars(AccessRequested) /\ WF_vars(Lifetime)

-----------------------------------------------------------------------------
\* Type invariant.
TypeOK ==
    /\ originator \in Originators /\ psdu \in Psdus
    /\ m_nextSeq \in SeqNos /\ nMpdus \in 0..MaxMpdus /\ nRequests \in 0..MaxRequests
    /\ recipient \in Recipients /\ response \in Responses /\ acked \subseteq Mpdus /\ apart \in BOOLEAN

WinStartB == recipient.m_winStartB

\* Where NotifyReceivedMpdu moves the start of the buffer so that it ends with a
\* number near zero, the start is a sequence number: block-ack-agreement.cc:200
\* asserts "seqNumber < SEQNO_SPACE_SIZE && startingSeqNumber < SEQNO_SPACE_SIZE"
\* in GetDistance, which every use of m_winStartB goes through.
WinStartBInSpace == WinStartB \in SeqNos

\* Packets are handed up in the order they were sent, and none twice, whatever
\* is lost, given up or set up again.
InOrder ==
    \A i, j \in DOMAIN recipient.passed : i < j => recipient.passed[i].id < recipient.passed[j].id

\* The agreement was requested once: a second request makes the recipient start anew.
SetUpOnce == nRequests <= 1

Arrived(m) ==
    m \in recipient.m_bufferedMpdus \cup {recipient.passed[i] : i \in DOMAIN recipient.passed}

\* An MPDU the originator takes for acknowledged is, or will be, handed up: "forward
\* up the buffered MPDUs before destroying the agreement", as DestroyRecipientAgreement
\* (block-ack-manager.cc:234) says where an agreement ends. (As long as the agreement
\* was set up once and the start of the buffer is a sequence number.)
AckedArrives == SetUpOnce /\ WinStartBInSpace => \A m \in acked : Arrived(m)

\* The bits of the transmit window are the acknowledged MPDUs it covers, and it
\* starts with one that is not acknowledged.
WindowMarksAcked ==
    LET w == originator.window
    IN  SetUpOnce /\ Established(originator) =>
            /\ ~At(w, 0)
            /\ Marked(w) = {m.seq : m \in {a \in acked : ~IsOld(a.seq, w.m_winStart)}}

\* The in flight queue is sorted and within the transmit window, so that what
\* is old is at its front and NotifyAckedMpdu finds its bit.
OutstandingInWindow ==
    LET dist(i) == Distance(originator.outstanding[i].seq, originator.window.m_winStart)
    IN  SetUpOnce =>
            /\ \A i, j \in DOMAIN originator.outstanding : i < j => dist(i) < dist(j)
            /\ \A i \in DOMAIN originator.outstanding : dist(i) < BufferSize

\* The two windows of the recipient: all it has passed up or passed over within
\* the scoreboard's window is acknowledged, and what it buffers is within reach
\* and acknowledged.
ScoreboardAgrees ==
    WinStartBInSpace =>
        LET ahead == Distance(WinStartB, recipient.scoreboard.m_winStart)
        IN  /\ ahead <= BufferSize
            /\ \A d \in 0..ahead - 1 : At(recipient.scoreboard, d)
            /\ \A m \in recipient.m_bufferedMpdus :
                  /\ Distance(m.seq, WinStartB) \in 1..BufferSize - 1
                  /\ IsPacketReceived(recipient, m.seq)

\* When the recipient waits for an MPDU the originator has given up, a BlockAckReq
\* is going to tell it, if both began the agreement with the same number.
GapAnnounced ==
    LET behind == Distance(originator.window.m_winStart, WinStartB)
    IN  /\ SetUpOnce /\ ~apart /\ Established(originator) /\ WinStartBInSpace
        /\ behind > 0 /\ 2 * behind < SeqSpace
        => originator.bar.queued \/ originator.barIfData

\* Whatever the channel loses, the queue drains, unless it is blocked for ever.
QueueDrains ==
    []<>(originator.queue = {}) \/ <>[](originator.state = "PENDING")

\* qos-txop.cc:624 of a blocked queue: "when the Add BA Request timer expires, the
\* (destination, TID) pair is "unblocked" and packets to the destination are sent
\* again". No agreement stays pending for ever.
PendingEnds == originator.state = "PENDING" ~> originator.state # "PENDING"
=============================================================================
