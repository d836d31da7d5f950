-------------------------- MODULE RecipientAgreement --------------------------
(***************************************************************************)
(* recipient-block-ack-agreement.cc: the scoreboard that block acks are    *)
(* made from, and the buffer that puts MPDUs back in order. A recipient is *)
(* a record of its agreement, if any, and of what MacRxMiddle forwarded.   *)
(***************************************************************************)
EXTENDS BlockAckWindow

NoAgreement ==
    [agreement |-> FALSE, scoreboard |-> NewWindow(0), m_winStartB |-> 0,
     m_bufferedMpdus |-> {}, passed |-> <<>>]

\* BlockAckManager::CreateRecipientAgreement: an agreement that exists is
\* replaced, with the MPDUs it buffers.
CreateRecipientAgreement(r, startingSeq) ==
    [r EXCEPT !.agreement = TRUE, !.scoreboard = NewWindow(startingSeq),
              !.m_winStartB = startingSeq, !.m_bufferedMpdus = {}]

\* MacRxMiddle::Receive for MPDUs with different numbers: one with the number of the
\* last one is a duplicate. (Only a retransmission, with its retry bit, has a number again.)
Receive(passed, mpdus) ==
    IF passed # <<>> /\ mpdus # <<>> /\ passed[Len(passed)].seq = Head(mpdus).seq
    THEN passed \o Tail(mpdus) ELSE passed \o mpdus

\* m_bufferedMpdus is a map sorted by the distance from m_winStartB.
Sorted(r, mpdus) ==
    CHOOSE list \in [1..Cardinality(mpdus) -> mpdus] :
        \A i, j \in DOMAIN list : i < j =>
            Distance(list[i].seq, r.m_winStartB) < Distance(list[j].seq, r.m_winStartB)

\* What the map holds once m is inserted: an MPDU with its number is kept.
Buffered(r, m) ==
    IF \E b \in r.m_bufferedMpdus : b.seq = m.seq THEN r.m_bufferedMpdus
    ELSE r.m_bufferedMpdus \cup {m}

\* These MPDUs leave the buffer for MacRxMiddle, the window starts at winStartB.
PassUp(r, mpdus, winStartB) ==
    [r EXCEPT !.m_bufferedMpdus = @ \ mpdus, !.passed = Receive(@, Sorted(r, mpdus)),
              !.m_winStartB = winStartB]

\* How many MPDUs are buffered without a gap from m_winStartB on.
FirstLost(r) ==
    LET buffered(d) ==
            \E b \in r.m_bufferedMpdus : r.m_winStartB + d \in {b.seq, b.seq + SeqSpace}
    IN  CHOOSE n \in 0..SeqSpace : ~buffered(n) /\ \A d \in 0..n - 1 : buffered(d)

\* Mutant: what is buffered is handed up at once, whether an MPDU before it is lost or not.
PassBufferedMpdus(r) == PassUp(r, r.m_bufferedMpdus, r.m_winStartB)

PassBufferedMpdusUntilFirstLost(r) ==
    IF FirstLost(r) = 0 THEN r
    ELSE PassUp(r, {m \in r.m_bufferedMpdus : Distance(m.seq, r.m_winStartB) < FirstLost(r)},
                SeqPlus(r.m_winStartB, FirstLost(r)))

\* Mutant: the MPDUs before the new start of the window are left in the buffer.
JumpTo(r, newWinStartB) == [r EXCEPT !.m_winStartB = newWinStartB]

PassBufferedMpdusWithSeqNumberLessThan(r, newWinStartB) ==
    PassUp(r, {m \in r.m_bufferedMpdus :
                  Distance(m.seq, r.m_winStartB) < Distance(newWinStartB, r.m_winStartB)},
           newWinStartB)

\* The scoreboard after an MPDU with this number.
Scored(w, seq) ==
    LET distance == Distance(seq, w.m_winStart)
    IN  IF distance < BufferSize THEN SetAt(w, distance)
        ELSE IF ~IsOld(seq, w.m_winStart)
             THEN SetAt(Advance(w, distance - BufferSize + 1), BufferSize - 1)
             ELSE w

\* The new start of the buffer when it must end with this number: the sum is
\* computed in int and passed as a uint16_t, not reduced to the space.
WinStartForEnd(seq) == (seq - BufferSize + 1 + Uint16) % Uint16

\* RecipientBlockAckAgreement::NotifyReceivedMpdu
NotifyReceivedMpdu(r, m) ==
    LET scored == [r EXCEPT !.scoreboard = Scored(@, m.seq)]
        stored == [scored EXCEPT !.m_bufferedMpdus = Buffered(r, m)]
    IN  IF Distance(m.seq, r.m_winStartB) < BufferSize
        THEN PassBufferedMpdusUntilFirstLost(stored)
        ELSE IF ~IsOld(m.seq, r.m_winStartB)
             THEN PassBufferedMpdusUntilFirstLost(
                     PassBufferedMpdusWithSeqNumberLessThan(stored, WinStartForEnd(m.seq)))
             ELSE scored

\* The scoreboard after a BlockAckReq with this starting sequence number.
ScoredBar(w, seq) ==
    LET distance == Distance(seq, w.m_winStart)
    IN  IF distance > 0 /\ distance < BufferSize THEN Advance(w, distance)
        ELSE IF distance > 0 /\ ~IsOld(seq, w.m_winStart) THEN NewWindow(seq)
             ELSE w

\* RecipientBlockAckAgreement::NotifyReceivedBar
NotifyReceivedBar(r, seq) ==
    LET scored == [r EXCEPT !.scoreboard = ScoredBar(@, seq)]
    IN  IF Distance(seq, r.m_winStartB) > 0 /\ ~IsOld(seq, r.m_winStartB)
        THEN PassBufferedMpdusUntilFirstLost(
                 PassBufferedMpdusWithSeqNumberLessThan(scored, seq))
        ELSE scored

\* HtFrameExchangeManager::ReceiveMpdu, for a data frame and a BlockAckReq.
ReceiveMpdu(r, m) ==
    IF r.agreement THEN NotifyReceivedMpdu(r, m) ELSE [r EXCEPT !.passed = Receive(@, <<m>>)]
ReceiveBar(r, seq) == IF r.agreement THEN NotifyReceivedBar(r, seq) ELSE r

\* FillBlockAckBitmap, read by CtrlBAckResponseHeader::IsPacketReceived.
IsPacketReceived(r, seq) == seq \in Marked(r.scoreboard)
=============================================================================
