---------------------------- MODULE BlockAckProofs ----------------------------
(*****************************************************************************)
(* Theorems about BlockAck.                                                  *)
(*****************************************************************************)
EXTENDS BlockAckLemmas

-----------------------------------------------------------------------------
(* The inductive invariant.                                                 *)

PsduOK(base, sent, next) ==
    /\ psdu.mpdus \subseteq sent /\ psdu.left \subseteq psdu.mpdus
    /\ psdu.kind \in {"None", "Bar", "Request"} => psdu.mpdus = {}
    /\ psdu.kind = "Bar" => Position(psdu.ssn, base) <= next
    /\ psdu.kind = "Request" =>
          originator.request.queued /\ originator.request.inFlight /\ psdu.ssn = originator.request.ssn
    /\ SetUpOnce /\ Established(originator) /\ psdu.kind = "Single" =>
          \A m \in psdu.mpdus :
              Position(m.seq, base) < Position(originator.window.m_winStart, base) + BufferSize

\* Without an agreement the originator sends one MPDU after the other.
OneByOne ==
    ~Established(originator) =>
        /\ psdu.kind \in {"None", "Single", "Request"}
        /\ \A x, y \in psdu.mpdus : x = y
        /\ \A e \in originator.queue : e.inFlight => e.id \in IdsOf(psdu.mpdus)
        /\ \A e \in originator.queue : \A x \in psdu.mpdus \cup acked \cup Arrivals(recipient) :
              x.id <= e.id
        /\ \A x \in Arrivals(recipient) : \A y \in psdu.left : x.id <= y.id

\* A request the recipient has not seen blocks the data.
RequestOK(base, next) ==
    /\ originator.request.queued => nRequests > 0 /\ Position(originator.request.ssn, base) <= next
    /\ originator.request.queued /\ response.lastRequest # nRequests =>
          /\ psdu.left = {}
          /\ \A x \in Arrivals(recipient) :
                Position(x.seq, base) <= Position(originator.request.ssn, base)
    /\ response.lastRequest <= nRequests
    /\ response.queued => response.lastRequest > 0
    /\ response.queued \/ Established(originator) => recipient.agreement
    /\ SetUpOnce /\ (response.queued \/ response.lastRequest = 0) => ~Established(originator)

Safe(base, sent) ==
    LET next == Position(m_nextSeq, base)
    IN  /\ TypeOK
        /\ Numbering(base, sent, next, nMpdus)
        /\ OriginatorOK(originator, acked, base, sent, next, nMpdus)
        /\ SetUpOnce => TransmitOK(originator, acked, base)
        /\ RecipientOK(recipient, base, sent, next)
        /\ PsduOK(base, sent, next) /\ OneByOne /\ RequestOK(base, next)

IInv == \E base \in SeqNos, sent \in SUBSET Mpdus : Safe(base, sent)

-----------------------------------------------------------------------------
(* Steps of the originator alone.                                           *)

\* p is o after a step that leaves the agreement in the same state.
Follows(p, o, A, base, sent, next, n) ==
    /\ OriginatorOK(p, A, base, sent, next, n)
    /\ TransmitOK(o, A, base) => TransmitOK(p, A, base)
    /\ Established(p) <=> Established(o)
    /\ IdsOf(p.queue) \subseteq IdsOf(o.queue) /\ (~Established(o) => p.queue \subseteq o.queue)
    /\ \/ p.request.queued = o.request.queued /\ p.request.inFlight = o.request.inFlight
          /\ p.request.ssn = o.request.ssn
       \/ ~p.request.queued /\ ~o.request.inFlight
    /\ Established(o) => Position(o.window.m_winStart, base) <= Position(p.window.m_winStart, base)
    /\ Announces(p, o)

\* A look at the queues is a step of the originator.
LEMMA PeekFollows ==
  ASSUME NEW base \in SeqNos, NEW o, NEW p, NEW A, NEW sent, NEW next, NEW n,
         o \in Originators, Peek(p, o, A, base, sent, next, n)
  PROVE  Follows(p, o, A, base, sent, next, n)
<1>1. /\ OriginatorOK(p, A, base, sent, next, n)
      /\ TransmitOK(o, A, base) => TransmitOK(p, A, base)
      /\ p.state = o.state /\ p.window = o.window /\ p.queue \subseteq o.queue
      /\ p.request = o.request \/ (p.request = NoRequest /\ ~o.request.inFlight)
      /\ Announces(p, o)
  BY DEF Peek
<1>2. IdsOf(p.queue) \subseteq IdsOf(o.queue)
  BY <1>1 DEF IdsOf
<1>3. ~NoRequest.queued
  BY DEF NoRequest
<1>4. Position(o.window.m_winStart, base) \in Nat
  BY PositionType DEF Originators, Windows
<1>5. Position(o.window.m_winStart, base) <= Position(p.window.m_winStart, base)
  BY <1>1, <1>4
<1> QED
  BY <1>1, <1>2, <1>3, <1>5 DEF Follows, Established

\* So is NotifyDiscardedMpdu.
LEMMA NotifyDiscardedFollows ==
  ASSUME FewPackets, NEW base, NEW sent, NEW next, NEW n, Numbering(base, sent, next, n),
         NEW o, NEW A, OriginatorOK(o, A, base, sent, next, n), NEW m \in sent
  PROVE  Follows(NotifyDiscardedMpdu(o, m), o, A, base, sent, next, n)
<1> DEFINE p == NotifyDiscardedMpdu(o, m)
<1>1. ~Established(o) => p = o
  BY DEF NotifyDiscardedMpdu
<1> HIDE DEF p
<1>2. /\ After(p, o, A, base, sent, next, n) /\ Announces(p, o)
      /\ Position(o.window.m_winStart, base) <= Position(p.window.m_winStart, base)
  BY NotifyDiscardedOK DEF p
<1>3. Follows(p, o, A, base, sent, next, n)
  BY <1>1, <1>2 DEF Follows, After, Established
<1> QED
  BY <1>3 DEF p

\* One such step after the other.
LEMMA FollowsFollows ==
  ASSUME NEW base \in SeqNos, NEW o, NEW p, NEW q, NEW A, NEW sent, NEW next, NEW n,
         o \in Originators, Follows(p, o, A, base, sent, next, n), Follows(q, p, A, base, sent, next, n)
  PROVE  Follows(q, o, A, base, sent, next, n)
<1>1. p \in Originators /\ q \in Originators
  BY DEF Follows, OriginatorOK
<1>2. /\ Position(o.window.m_winStart, base) \in Nat /\ Position(p.window.m_winStart, base) \in Nat
      /\ Position(q.window.m_winStart, base) \in Nat
  BY <1>1, PositionType DEF Originators, Windows
<1>3. Announces(q, o)
  BY DEF Follows, Announces
<1> QED
  BY <1>2, <1>3 DEF Follows

\* Fields the invariant says little of: timers, lifetimes, notices, a request.
LEMMA FieldsFollow ==
  ASSUME NEW base \in SeqNos, NEW o, NEW A, NEW sent, NEW next, NEW n,
         OriginatorOK(o, A, base, sent, next, n),
         NEW p \in Originators, p.window = o.window, p.queue = o.queue,
         p.outstanding = o.outstanding, p.bar = o.bar, p.barIfData = o.barIfData,
         p.notices \subseteq o.notices, Established(p) <=> Established(o),
         \/ /\ p.request.queued = o.request.queued /\ p.request.inFlight = o.request.inFlight
            /\ p.request.ssn = o.request.ssn
         \/ ~p.request.queued /\ ~o.request.inFlight
  PROVE  Follows(p, o, A, base, sent, next, n)
<1>1. Position(o.window.m_winStart, base) \in Nat
  BY PositionType DEF OriginatorOK, Originators, Windows
<1>2. OriginatorOK(p, A, base, sent, next, n)
  BY DEF OriginatorOK
<1>3. TransmitOK(o, A, base) => TransmitOK(p, A, base)
  BY DEF TransmitOK
<1>4. Announces(p, o)
  BY DEF Announces
<1> QED
  BY <1>1, <1>2, <1>3, <1>4 DEF Follows

\* The invariant, part by part.
LEMMA SafeParts ==
  ASSUME NEW base, NEW sent, Safe(base, sent)
  PROVE  LET next == Position(m_nextSeq, base)
         IN  /\ base \in SeqNos /\ sent \in SUBSET Mpdus /\ next \in Nat /\ next <= MaxMpdus
             /\ originator \in Originators /\ psdu \in Psdus /\ m_nextSeq \in SeqNos
             /\ nMpdus \in 0..MaxMpdus /\ nRequests \in 0..MaxRequests /\ recipient \in Recipients
             /\ response \in Responses /\ acked \subseteq Mpdus /\ apart \in BOOLEAN
             /\ Numbering(base, sent, next, nMpdus)
             /\ OriginatorOK(originator, acked, base, sent, next, nMpdus)
             /\ SetUpOnce => TransmitOK(originator, acked, base)
             /\ RecipientOK(recipient, base, sent, next)
             /\ PsduOK(base, sent, next) /\ OneByOne /\ RequestOK(base, next)
             /\ acked \subseteq sent /\ Arrivals(recipient) \subseteq sent /\ psdu.mpdus \subseteq sent
<1> DEFINE next == Position(m_nextSeq, base)
<1>1. Numbering(base, sent, next, nMpdus) /\ TypeOK
  BY DEF Safe
<1>2. base \in SeqNos /\ sent \in SUBSET Mpdus /\ next \in 0..nMpdus /\ nMpdus \in 0..MaxMpdus
  BY <1>1 DEF Numbering
<1>3. next \in Nat /\ next <= MaxMpdus
  <2> HIDE DEF next
  <2> QED
    BY <1>2, MpdusAssumption
<1>4. acked \subseteq sent /\ Arrivals(recipient) \subseteq sent /\ psdu.mpdus \subseteq sent
  BY DEF Safe, OriginatorOK, RecipientOK, PsduOK
<1> QED
  BY <1>1, <1>2, <1>3, <1>4 DEF Safe, TypeOK

\* A step of the originator that leaves the agreement in the same state.
OriginatorMoves(base, sent) ==
    /\ Follows(originator', originator, acked, base, sent, Position(m_nextSeq, base), nMpdus)
    /\ UNCHANGED <<psdu, m_nextSeq, nMpdus, nRequests, recipient, response, acked, apart>>

\* Such a step keeps the invariant.
LEMMA OriginatorStep ==
  ASSUME NEW base, NEW sent, Safe(base, sent), OriginatorMoves(base, sent)
  PROVE  Safe(base, sent)'
<1> DEFINE next == Position(m_nextSeq, base)
<1>1. UNCHANGED <<psdu, m_nextSeq, nMpdus, nRequests, recipient, response, acked, apart>>
  BY DEF OriginatorMoves
<1>2. next' = next /\ (SetUpOnce' <=> SetUpOnce)
  BY <1>1 DEF SetUpOnce
<1>3. /\ OriginatorOK(originator', acked, base, sent, next, nMpdus)
      /\ TransmitOK(originator, acked, base) => TransmitOK(originator', acked, base)
      /\ Established(originator') <=> Established(originator)
      /\ IdsOf(originator'.queue) \subseteq IdsOf(originator.queue)
      /\ ~Established(originator) => originator'.queue \subseteq originator.queue
      /\ \/ originator'.request.queued = originator.request.queued
            /\ originator'.request.inFlight = originator.request.inFlight
            /\ originator'.request.ssn = originator.request.ssn
         \/ ~originator'.request.queued /\ ~originator.request.inFlight
      /\ Established(originator) => Position(originator.window.m_winStart, base)
                                    <= Position(originator'.window.m_winStart, base)
  BY DEF OriginatorMoves, Follows
<1>4. originator' \in Originators
  BY <1>3 DEF OriginatorOK
<1>5. TypeOK'
  BY <1>1, <1>4, SafeParts DEF TypeOK
<1>6. PsduOK(base, sent, next)'
  <2>1. PsduOK(base, sent, next) /\ base \in SeqNos /\ psdu.mpdus \subseteq sent
        /\ originator \in Originators /\ psdu \in Psdus
    BY SafeParts
  <2>2. psdu.kind = "Request" => /\ originator'.request.queued /\ originator'.request.inFlight
                                 /\ psdu.ssn = originator'.request.ssn
    <3>1. originator.request.inFlight \in BOOLEAN /\ originator'.request.inFlight \in BOOLEAN
          /\ originator.request.queued \in BOOLEAN /\ originator'.request.queued \in BOOLEAN
      BY <1>4, <2>1 DEF Originators, Requests
    <3> QED
      BY <1>3, <2>1, <3>1 DEF PsduOK
  <2>3. ASSUME SetUpOnce, Established(originator'), psdu.kind = "Single", NEW m \in psdu.mpdus
        PROVE  Position(m.seq, base) < Position(originator'.window.m_winStart, base) + BufferSize
    <3>1. Position(m.seq, base) < Position(originator.window.m_winStart, base) + BufferSize
      BY <1>3, <2>1, <2>3 DEF PsduOK
    <3>2. /\ Position(originator.window.m_winStart, base) \in Nat
          /\ Position(originator'.window.m_winStart, base) \in Nat
      BY <1>4, <2>1, PositionType DEF Originators, Windows
    <3>3. Position(m.seq, base) \in Nat
      BY <2>1, SafeParts, SentIs
    <3>4. Position(originator.window.m_winStart, base) <= Position(originator'.window.m_winStart, base)
      BY <1>3, <2>3
    <3> QED
      BY <3>1, <3>2, <3>3, <3>4, SlotsIn
  <2> QED
    BY <1>1, <1>2, <2>1, <2>2, <2>3 DEF PsduOK
<1>7. OneByOne'
  <2>1. OneByOne
    BY SafeParts
  <2>2. IdsOf(originator'.queue) \subseteq IdsOf(originator.queue)
    BY <1>3
  <2> QED
    BY <1>1, <1>3, <2>1 DEF OneByOne
<1>8. RequestOK(base, next)'
  <2>1. RequestOK(base, next)
    BY SafeParts
  <2> HIDE DEF next
  <2>2. originator'.request.queued =>
            originator.request.queued /\ originator'.request.ssn = originator.request.ssn
    BY <1>3
  <2> QED
    BY <1>1, <1>2, <1>3, <2>1, <2>2 DEF RequestOK
<1> QED
  BY <1>1, <1>2, <1>3, <1>5, <1>6, <1>7, <1>8, SafeParts DEF Safe

\* The lifetime of a packet ends.
LEMMA LifetimeEndsMoves ==
  ASSUME NEW base, NEW sent, Safe(base, sent), LifetimeEnds
  PROVE  OriginatorMoves(base, sent)
<1> DEFINE p == [originator EXCEPT !.expired = @ + 1]
<1>1. /\ originator' = p /\ originator.expired < nMpdus
      /\ UNCHANGED <<psdu, m_nextSeq, nMpdus, nRequests, recipient, response, acked, apart>>
  BY DEF LifetimeEnds
<1>2. /\ originator \in Originators /\ nMpdus \in 0..MaxMpdus /\ base \in SeqNos
      /\ OriginatorOK(originator, acked, base, sent, Position(m_nextSeq, base), nMpdus)
  BY SafeParts
<1>3. originator.expired \in Nat /\ originator.expired + 1 \in 0..MaxMpdus
  BY <1>1, <1>2, MpdusAssumption DEF Originators
<1>4. /\ p \in Originators /\ p.window = originator.window /\ p.queue = originator.queue
      /\ p.outstanding = originator.outstanding /\ p.bar = originator.bar
      /\ p.barIfData = originator.barIfData /\ p.notices = originator.notices
      /\ p.state = originator.state /\ p.request = originator.request
  BY <1>2, <1>3 DEF Originators
<1> HIDE DEF p
<1>5. Follows(p, originator, acked, base, sent, Position(m_nextSeq, base), nMpdus)
  BY <1>2, <1>4, FieldsFollow DEF Established
<1> QED
  BY <1>1, <1>5 DEF OriginatorMoves

\* The lifetime of the ADDBA request ends.
LEMMA RequestLifetimeEndsMoves ==
  ASSUME NEW base, NEW sent, Safe(base, sent), RequestLifetimeEnds
  PROVE  OriginatorMoves(base, sent)
<1> DEFINE p == [originator EXCEPT !.request.expired = TRUE]
<1>1. /\ originator' = p
      /\ UNCHANGED <<psdu, m_nextSeq, nMpdus, nRequests, recipient, response, acked, apart>>
  BY DEF RequestLifetimeEnds
<1>2. /\ originator \in Originators /\ base \in SeqNos
      /\ OriginatorOK(originator, acked, base, sent, Position(m_nextSeq, base), nMpdus)
  BY SafeParts
<1>3. /\ p \in Originators /\ p.window = originator.window /\ p.queue = originator.queue
      /\ p.outstanding = originator.outstanding /\ p.bar = originator.bar
      /\ p.barIfData = originator.barIfData /\ p.notices = originator.notices
      /\ p.state = originator.state /\ p.request.queued = originator.request.queued
      /\ p.request.inFlight = originator.request.inFlight
      /\ p.request.ssn = originator.request.ssn
  BY <1>2 DEF Originators, Requests
<1> HIDE DEF p
<1>4. Follows(p, originator, acked, base, sent, Position(m_nextSeq, base), nMpdus)
  BY <1>2, <1>3, FieldsFollow DEF Established
<1> QED
  BY <1>1, <1>4 DEF OriginatorMoves

\* HasFramesToTransmit wipes the queue.
LEMMA HasFramesToTransmitMoves ==
  ASSUME NEW base, NEW sent, Safe(base, sent), HasFramesToTransmit
  PROVE  OriginatorMoves(base, sent)
<1> DEFINE next == Position(m_nextSeq, base)
<1>1. /\ originator' = WipeAllExpiredMpdus(originator)
      /\ UNCHANGED <<psdu, m_nextSeq, nMpdus, nRequests, recipient, response, acked, apart>>
  BY DEF HasFramesToTransmit
<1>2. /\ originator \in Originators /\ base \in SeqNos /\ sent \subseteq Mpdus
      /\ OriginatorOK(originator, acked, base, sent, next, nMpdus)
  BY SafeParts
<1> HIDE DEF next
<1>3. Peek(WipeAllExpiredMpdus(originator), originator, acked, base, sent, next, nMpdus)
  BY <1>2, WipeOK
<1>4. Follows(originator', originator, acked, base, sent, next, nMpdus)
  BY <1>1, <1>2, <1>3, PeekFollows
<1> QED
  BY <1>1, <1>4 DEF OriginatorMoves, next

\* The least element of a set of elements with identities.
LEMMA FirstIs ==
  ASSUME NEW S, NEW e \in S, \A x \in S : x.id \in Nat
  PROVE  First(S) \in S /\ \A x \in S : First(S).id <= x.id
<1> DEFINE T == {x.id : x \in S}
<1>1. T \in SUBSET Nat /\ e.id \in T
  OBVIOUS
<1> HIDE DEF T
<1>2. PICK k \in T : \A j \in T : k <= j
  BY <1>1, Least
<1>3. \E x \in S : \A y \in S : x.id <= y.id
  BY <1>2 DEF T
<1> QED
  BY <1>3 DEF First

\* The trace of an expired MPDU reaches NotifyDiscardedMpdu.
LEMMA ExpiredTraceMoves ==
  ASSUME FewPackets, NEW base, NEW sent, Safe(base, sent), ExpiredTrace
  PROVE  OriginatorMoves(base, sent)
<1> DEFINE next == Position(m_nextSeq, base)
           m == First(originator.notices)
           o == [originator EXCEPT !.notices = @ \ {m}]
<1>1. /\ originator.notices # {} /\ originator' = NotifyDiscardedMpdu(o, m)
      /\ UNCHANGED <<psdu, m_nextSeq, nMpdus, nRequests, recipient, response, acked, apart>>
  BY DEF ExpiredTrace
<1>2. /\ originator \in Originators /\ base \in SeqNos /\ sent \subseteq Mpdus
      /\ OriginatorOK(originator, acked, base, sent, next, nMpdus)
      /\ Numbering(base, sent, next, nMpdus)
  BY SafeParts
<1>3. m \in originator.notices /\ m \in sent
  <2>1. originator.notices \subseteq sent
    BY <1>2 DEF OriginatorOK
  <2>2. \A x \in originator.notices : x.id \in Nat
    BY <1>2, <2>1, SentIs
  <2>3. PICK e : e \in originator.notices
    BY <1>1
  <2> QED
    BY <2>1, <2>2, <2>3, FirstIs
<1> HIDE DEF m, next
<1>4. /\ o \in Originators /\ o.window = originator.window /\ o.queue = originator.queue
      /\ o.outstanding = originator.outstanding /\ o.bar = originator.bar
      /\ o.barIfData = originator.barIfData /\ o.notices \subseteq originator.notices
      /\ o.state = originator.state /\ o.request = originator.request
  BY <1>2 DEF Originators
<1> HIDE DEF o
<1>5. Follows(o, originator, acked, base, sent, next, nMpdus)
  BY <1>2, <1>4, FieldsFollow DEF Established
<1>6. OriginatorOK(o, acked, base, sent, next, nMpdus)
  BY <1>5 DEF Follows
<1>7. Follows(originator', o, acked, base, sent, next, nMpdus)
  BY <1>1, <1>2, <1>3, <1>6, NotifyDiscardedFollows DEF m, o
<1>8. Follows(originator', originator, acked, base, sent, next, nMpdus)
  BY <1>2, <1>5, <1>7, FollowsFollows
<1> QED
  BY <1>1, <1>8 DEF OriginatorMoves, next

\* NO_REPLY and RESET: there was no agreement, and there is none.
LEMMA NoReplyFollows ==
  ASSUME NEW base \in SeqNos, NEW o, NEW A, NEW sent, NEW next, NEW n,
         OriginatorOK(o, A, base, sent, next, n), o.state = "PENDING"
  PROVE  Follows(NoReply(o), o, A, base, sent, next, n)
<1> DEFINE p == NoReply(o)
<1>1. o \in Originators
  BY DEF OriginatorOK
<1>2. /\ p \in Originators /\ p.window = o.window /\ p.queue = o.queue
      /\ p.outstanding = o.outstanding /\ p.bar = o.bar
      /\ p.barIfData = o.barIfData /\ p.notices = o.notices
      /\ p.state = "NO_REPLY" /\ p.request = o.request
  BY <1>1 DEF NoReply, Originators, States
<1> HIDE DEF p
<1>3. Follows(p, o, A, base, sent, next, n)
  BY <1>2, FieldsFollow DEF Established
<1> QED
  BY <1>3 DEF p

\* AddBaResponseTimeout: a pending agreement has no reply.
LEMMA AddBaResponseTimeoutMoves ==
  ASSUME NEW base, NEW sent, Safe(base, sent), AddBaResponseTimeout
  PROVE  OriginatorMoves(base, sent)
<1> DEFINE next == Position(m_nextSeq, base)
           o == [originator EXCEPT !.respTimer = FALSE]
<1>1. /\ originator' = IF o.state = "PENDING" THEN NoReply(o) ELSE o
      /\ UNCHANGED <<psdu, m_nextSeq, nMpdus, nRequests, recipient, response, acked, apart>>
  BY DEF AddBaResponseTimeout
<1>2. /\ originator \in Originators /\ base \in SeqNos
      /\ OriginatorOK(originator, acked, base, sent, next, nMpdus)
  BY SafeParts
<1>3. /\ o \in Originators /\ o.window = originator.window /\ o.queue = originator.queue
      /\ o.outstanding = originator.outstanding /\ o.bar = originator.bar
      /\ o.barIfData = originator.barIfData /\ o.notices = originator.notices
      /\ o.state = originator.state /\ o.request = originator.request
  BY <1>2 DEF Originators
<1> HIDE DEF o, next
<1>4. Follows(o, originator, acked, base, sent, next, nMpdus)
  BY <1>2, <1>3, FieldsFollow DEF Established
<1>5. o.state = "PENDING" => Follows(NoReply(o), o, acked, base, sent, next, nMpdus)
  BY <1>2, <1>4, NoReplyFollows DEF Follows
<1>6. Follows(originator', originator, acked, base, sent, next, nMpdus)
  BY <1>1, <1>2, <1>4, <1>5, FollowsFollows
<1> QED
  BY <1>1, <1>6 DEF OriginatorMoves, next

\* ResetBa: an agreement that is not established is reset.
LEMMA ResetBaMoves ==
  ASSUME NEW base, NEW sent, Safe(base, sent), ResetBa
  PROVE  OriginatorMoves(base, sent)
<1> DEFINE p == [originator EXCEPT !.resetTimer = FALSE,
                                   !.state = IF @ = "ESTABLISHED" THEN @ ELSE "RESET"]
<1>1. /\ originator' = p
      /\ UNCHANGED <<psdu, m_nextSeq, nMpdus, nRequests, recipient, response, acked, apart>>
  BY DEF ResetBa
<1>2. /\ originator \in Originators /\ base \in SeqNos
      /\ OriginatorOK(originator, acked, base, sent, Position(m_nextSeq, base), nMpdus)
  BY SafeParts
<1>3. /\ p \in Originators /\ p.window = originator.window /\ p.queue = originator.queue
      /\ p.outstanding = originator.outstanding /\ p.bar = originator.bar
      /\ p.barIfData = originator.barIfData /\ p.notices = originator.notices
      /\ p.request = originator.request
      /\ p.state = "ESTABLISHED" <=> originator.state = "ESTABLISHED"
  BY <1>2 DEF Originators, States
<1> HIDE DEF p
<1>4. Follows(p, originator, acked, base, sent, Position(m_nextSeq, base), nMpdus)
  BY <1>2, <1>3, FieldsFollow DEF Established
<1> QED
  BY <1>1, <1>4 DEF OriginatorMoves

\* A packet is enqueued, after those that were.
LEMMA EnqueueSafe ==
  ASSUME NEW base, NEW sent, Safe(base, sent), Enqueue
  PROVE  Safe(base, sent)'
<1> DEFINE next == Position(m_nextSeq, base)
           o == WipeAllExpiredMpdus(originator)
           e == [id |-> nMpdus, seq |-> NoSeq, retry |-> FALSE, inFlight |-> FALSE]
           p == [o EXCEPT !.queue = @ \cup {e}]
           n == nMpdus
<1>1. /\ nMpdus < MaxMpdus /\ nMpdus' = n + 1 /\ originator' = p
      /\ UNCHANGED <<psdu, m_nextSeq, nRequests, recipient, response, acked, apart>>
  BY DEF Enqueue
<1>2. /\ originator \in Originators /\ base \in SeqNos /\ sent \subseteq Mpdus /\ next \in Nat
      /\ nMpdus \in 0..MaxMpdus /\ n \in Nat /\ n + 1 \in 0..MaxMpdus
      /\ OriginatorOK(originator, acked, base, sent, next, n) /\ Numbering(base, sent, next, n)
      /\ PsduOK(base, sent, next) /\ OneByOne /\ RequestOK(base, next)
      /\ acked \subseteq sent /\ Arrivals(recipient) \subseteq sent /\ psdu.mpdus \subseteq sent
      /\ RecipientOK(recipient, base, sent, next)
      /\ SetUpOnce => TransmitOK(originator, acked, base)
  <2>1. nMpdus \in 0..MaxMpdus
    BY SafeParts
  <2>2. n \in Nat /\ n + 1 \in 0..MaxMpdus
    BY <1>1, <2>1, MpdusAssumption
  <2> HIDE DEF n
  <2> QED
    BY <2>1, <2>2, SafeParts DEF n
<1>3. \A x \in sent : x.id \in Nat /\ x.id < n
  BY <1>2, SentIs DEF Numbering
<1>4. next \in 0..n
  BY <1>2 DEF Numbering
<1>5. e \in Elements /\ e.id = n /\ e.seq = NoSeq /\ ~e.retry /\ ~e.inFlight
  BY <1>1, <1>2, MpdusAssumption DEF Elements, Ids
<1> HIDE DEF next, o, e, n
<1>6. Peek(o, originator, acked, base, sent, next, n)
  BY <1>2, WipeOK DEF o
<1>7. Follows(o, originator, acked, base, sent, next, n)
  BY <1>2, <1>6, PeekFollows
<1>8. /\ OriginatorOK(o, acked, base, sent, next, n) /\ o \in Originators
      /\ QueueOK(o.queue, sent, next, n)
  BY <1>6 DEF Peek, OriginatorOK
<1>9. /\ p \in Originators /\ p.window = o.window /\ p.outstanding = o.outstanding
      /\ p.bar = o.bar /\ p.barIfData = o.barIfData /\ p.notices = o.notices
      /\ p.state = o.state /\ p.request = o.request /\ p.queue = o.queue \cup {e}
  BY <1>5, <1>8 DEF Originators
<1> HIDE DEF p
<1>10. \A f \in o.queue : f.id \in Nat /\ f.id < n /\ f.id # n
  <2>1. \A f \in o.queue : f.id \in Nat /\ f.id < n
    BY <1>8, MpdusAssumption DEF QueueOK, Originators, Elements, Ids
  <2> QED
    BY <1>2, <2>1
<1>11. QueueOK(p.queue, sent, next, n + 1)
  <2>1. \A f \in p.queue : f.id < n + 1 /\ (f.seq # NoSeq => Mpdu(f.id, f.seq) \in sent)
    BY <1>2, <1>5, <1>8, <1>9, <1>10 DEF QueueOK
  <2>2. \A f \in p.queue : f.seq = NoSeq =>
          ~f.retry /\ ~f.inFlight /\ next <= f.id /\ \A x \in sent : x.id < f.id
    BY <1>2, <1>3, <1>4, <1>5, <1>8, <1>9 DEF QueueOK
  <2>3. \A f, g \in p.queue : f.id = g.id => f = g
    BY <1>5, <1>8, <1>9, <1>10 DEF QueueOK
  <2> QED
    BY <2>1, <2>2, <2>3 DEF QueueOK
<1>12. IdsOf(acked) \cap IdsOf(p.queue) = {}
  <2>1. IdsOf(acked) \cap IdsOf(o.queue) = {}
    BY <1>8 DEF OriginatorOK
  <2>2. IdsOf(p.queue) = IdsOf(o.queue) \cup {n}
    BY <1>5, <1>9 DEF IdsOf
  <2>3. n \notin IdsOf(acked)
    <3>1. \A x \in acked : x.id # n
      BY <1>2, <1>3
    <3> QED
      BY <3>1 DEF IdsOf
  <2> QED
    BY <2>1, <2>2, <2>3
<1>13. OriginatorOK(p, acked, base, sent, next, n + 1)
  BY <1>8, <1>9, <1>11, <1>12 DEF OriginatorOK, Established
<1>14. SetUpOnce => TransmitOK(p, acked, base)
  BY <1>2, <1>7, <1>9 DEF TransmitOK, Established, Follows
<1>15. Numbering(base, sent, next, n + 1)
  <2>1. next \in 0..n + 1 /\ \A x \in sent : x.id < n + 1
    BY <1>2, <1>3, <1>4
  <2> QED
    BY <1>2, <2>1 DEF Numbering
<1>16. next' = next /\ (SetUpOnce' <=> SetUpOnce)
  BY <1>1 DEF SetUpOnce, next
<1>17. /\ Established(p) <=> Established(originator)
       /\ o.window = originator.window /\ o.queue \subseteq originator.queue
       /\ o.request = originator.request \/ (~o.request.queued /\ ~originator.request.inFlight)
  <2>1. ~NoRequest.queued
    BY DEF NoRequest
  <2> QED
    BY <1>6, <1>9, <2>1 DEF Peek, Established
<1>18. TypeOK'
  BY <1>1, <1>2, <1>9, SafeParts DEF TypeOK, n
<1>19. PsduOK(base, sent, next)'
  BY <1>1, <1>2, <1>9, <1>16, <1>17 DEF PsduOK
<1>20. OneByOne'
  <2> SUFFICES ASSUME ~Established(originator)
               PROVE  /\ psdu.kind \in {"None", "Single", "Request"}
                      /\ \A x, y \in psdu.mpdus : x = y
                      /\ \A f \in p.queue : f.inFlight => f.id \in IdsOf(psdu.mpdus)
                      /\ \A f \in p.queue : \A x \in psdu.mpdus \cup acked \cup Arrivals(recipient) :
                            x.id <= f.id
                      /\ \A x \in Arrivals(recipient) : \A y \in psdu.left : x.id <= y.id
    BY <1>1, <1>17 DEF OneByOne
  <2>1. \A x \in psdu.mpdus \cup acked \cup Arrivals(recipient) : x.id <= n
    BY <1>2, <1>3
  <2> QED
    BY <1>2, <1>5, <1>9, <1>17, <2>1 DEF OneByOne
<1>21. RequestOK(base, next)'
  BY <1>1, <1>2, <1>9, <1>16, <1>17 DEF RequestOK
<1> QED
  BY <1>1, <1>2, <1>13, <1>14, <1>15, <1>16, <1>18, <1>19, <1>20, <1>21 DEF Safe, next, n

-----------------------------------------------------------------------------
(* The ends of exchanges.                                                   *)

\* The frame there is when none is awaited.
LEMMA NoPsduIs ==
  /\ NoPsdu.kind = "None" /\ NoPsdu.mpdus = {} /\ NoPsdu.left = {} /\ NoPsdu \in Psdus
<1>1. 0 \in SeqNos
  BY SpaceIs DEF SeqNos
<1> QED
  BY <1>1 DEF NoPsdu, Psdu, Psdus

\* What has to be shown of a step that ends an exchange.
LEMMA ExchangeEnds ==
  ASSUME NEW base, NEW sent, Safe(base, sent), psdu' = NoPsdu,
         UNCHANGED <<m_nextSeq, nMpdus, nRequests, apart>>,
         OriginatorOK(originator', acked', base, sent, Position(m_nextSeq, base), nMpdus),
         SetUpOnce => TransmitOK(originator', acked', base),
         RecipientOK(recipient', base, sent, Position(m_nextSeq, base)),
         Established(originator') <=> Established(originator),
         IdsOf(originator'.queue) \subseteq IdsOf(originator.queue),
         ~Established(originator) => \A e \in originator'.queue : ~e.inFlight,
         ~Established(originator) => acked' \subseteq acked \cup psdu.mpdus,
         Arrivals(recipient') \subseteq Arrivals(recipient),
         originator'.request.queued =>
            originator.request.queued /\ originator'.request.ssn = originator.request.ssn,
         response' \in Responses,
         \/ response' = response
         \/ /\ response'.lastRequest = nRequests /\ nRequests > 0
            /\ SetUpOnce => ~Established(originator),
         response'.queued \/ Established(originator) => recipient'.agreement
  PROVE  Safe(base, sent)'
<1> DEFINE next == Position(m_nextSeq, base)
<1>1. UNCHANGED <<m_nextSeq, nMpdus, nRequests, apart>>
  OBVIOUS
<1>2. next' = next /\ (SetUpOnce' <=> SetUpOnce)
  BY <1>1 DEF SetUpOnce
<1>3. /\ base \in SeqNos /\ sent \subseteq Mpdus /\ OneByOne /\ RequestOK(base, next)
      /\ acked \subseteq Mpdus /\ psdu.mpdus \subseteq sent /\ nRequests \in 0..MaxRequests
      /\ Numbering(base, sent, next, nMpdus)
  BY SafeParts
<1>4. originator' \in Originators /\ recipient' \in Recipients /\ psdu' \in Psdus /\ acked' \subseteq Mpdus
  <2>1. acked' \subseteq sent
    BY DEF OriginatorOK
  <2> QED
    BY <1>3, <2>1, NoPsduIs DEF OriginatorOK, RecipientOK
<1>5. TypeOK'
  BY <1>1, <1>4, SafeParts DEF TypeOK
<1>6. PsduOK(base, sent, next)'
  BY <1>2, NoPsduIs DEF PsduOK
<1>7. OneByOne'
  <2> SUFFICES ASSUME ~Established(originator)
               PROVE  \A e \in originator'.queue : \A x \in acked' \cup Arrivals(recipient') :
                            x.id <= e.id
    BY NoPsduIs DEF OneByOne
  <2> SUFFICES ASSUME NEW e \in originator'.queue, NEW x \in acked' \cup Arrivals(recipient')
               PROVE  x.id <= e.id
    OBVIOUS
  <2>1. PICK f \in originator.queue : e.id = f.id
    BY DEF IdsOf
  <2>2. x \in psdu.mpdus \cup acked \cup Arrivals(recipient)
    OBVIOUS
  <2> QED
    BY <1>3, <2>1, <2>2 DEF OneByOne
<1>8. RequestOK(base, next)'
  <2> HIDE DEF next
  <2>1. originator'.request.queued =>
           nRequests' > 0 /\ Position(originator'.request.ssn, base) <= next
    BY <1>1, <1>3 DEF RequestOK
  <2>2. ASSUME originator'.request.queued, response'.lastRequest # nRequests
        PROVE  \A x \in Arrivals(recipient') :
                 Position(x.seq, base) <= Position(originator'.request.ssn, base)
    <3>1. response' = response /\ originator'.request.ssn = originator.request.ssn
      BY <2>2
    <3> QED
      BY <1>3, <2>2, <3>1 DEF RequestOK
  <2>3. response'.lastRequest <= nRequests /\ (response'.queued => response'.lastRequest > 0)
    <3>1. CASE response' = response
      BY <1>3, <3>1 DEF RequestOK
    <3>2. CASE response'.lastRequest = nRequests /\ nRequests > 0
      <4>1. nRequests <= nRequests
        BY <1>3
      <4> QED
        BY <3>2, <4>1
    <3> QED
      BY <3>1, <3>2
  <2>4. SetUpOnce /\ (response'.queued \/ response'.lastRequest = 0) => ~Established(originator)
    BY <1>3 DEF RequestOK
  <2> QED
    BY <1>1, <1>2, <2>1, <2>2, <2>3, <2>4, NoPsduIs DEF RequestOK
<1> QED
  BY <1>1, <1>2, <1>3, <1>5, <1>6, <1>7, <1>8 DEF Safe

\* An agreement that was set up stays, and nothing is in flight without one.
LEMMA NothingInFlight ==
  ASSUME OneByOne, ~Established(originator), psdu.mpdus = {}
  PROVE  \A e \in originator.queue : ~e.inFlight
  BY DEF OneByOne, IdsOf

\* An MPDU with Block Ack policy has been sent.
LEMMA NoResponseEndsSafe ==
  ASSUME NEW base, NEW sent, Safe(base, sent), NoResponseEnds
  PROVE  Safe(base, sent)'
<1> DEFINE next == Position(m_nextSeq, base)
<1>1. /\ psdu.kind = "NoResponse" /\ psdu' = NoPsdu /\ originator' = GetBar(originator)
      /\ UNCHANGED <<m_nextSeq, nMpdus, nRequests, recipient, response, acked, apart>>
  BY DEF NoResponseEnds, Ends
<1>2. /\ originator \in Originators /\ base \in SeqNos /\ sent \subseteq Mpdus /\ OneByOne
      /\ OriginatorOK(originator, acked, base, sent, next, nMpdus) /\ RequestOK(base, next)
      /\ SetUpOnce => TransmitOK(originator, acked, base)
      /\ RecipientOK(recipient, base, sent, next) /\ response \in Responses
  BY SafeParts
<1>3. Established(originator)
  BY <1>1, <1>2 DEF OneByOne
<1> HIDE DEF next
<1>4. Follows(originator', originator, acked, base, sent, next, nMpdus)
  BY <1>1, <1>2, GetBarOK, PeekFollows
<1>5. /\ OriginatorOK(originator', acked, base, sent, next, nMpdus)
      /\ SetUpOnce => TransmitOK(originator', acked, base)
      /\ Established(originator')
      /\ IdsOf(originator'.queue) \subseteq IdsOf(originator.queue)
      /\ originator'.request.queued =>
            originator.request.queued /\ originator'.request.ssn = originator.request.ssn
  BY <1>2, <1>3, <1>4 DEF Follows
<1>6. recipient.agreement
  BY <1>2, <1>3 DEF RequestOK
<1> QED
  BY <1>1, <1>2, <1>3, <1>5, <1>6, ExchangeEnds DEF next

\* What changes when an originator with an agreement handles the end of an exchange.
Handled(p, o, B, base, sent, next, n) ==
    /\ OriginatorOK(p, B, base, sent, next, n) /\ p.state = o.state
    /\ IdsOf(p.queue) \subseteq IdsOf(o.queue)
    /\ p.request.queued => o.request.queued /\ p.request.ssn = o.request.ssn

\* GetBar at the end of an exchange changes nothing of what was handled.
LEMMA HandledGetBar ==
  ASSUME NEW base \in SeqNos, NEW sent \in SUBSET Mpdus, NEW next, NEW n, NEW o, NEW p, NEW B,
         Handled(p, o, B, base, sent, next, n)
  PROVE  /\ Handled(GetBar(p), o, B, base, sent, next, n)
         /\ TransmitOK(p, B, base) => TransmitOK(GetBar(p), B, base)
         /\ Later(o, p, base) => Later(o, GetBar(p), base)
<1>1. OriginatorOK(p, B, base, sent, next, n) /\ p \in Originators
  BY DEF Handled, OriginatorOK
<1>2. Peek(GetBar(p), p, B, base, sent, next, n)
  BY <1>1, GetBarOK
<1>3. Follows(GetBar(p), p, B, base, sent, next, n) /\ GetBar(p).state = p.state
  BY <1>1, <1>2, PeekFollows DEF Peek
<1>4. Later(o, p, base) => Later(o, GetBar(p), base)
  BY <1>2 DEF Peek, Later
<1> QED
  BY <1>3, <1>4 DEF Handled, Follows

\* Acknowledged MPDUs leave, the others are handled, and the BlockAckReq leaves.
LEMMA BlockAckArrivesOK ==
  ASSUME FewPackets, NEW base, NEW sent, Safe(base, sent), Established(originator),
         NEW r, BlockAckArrives(r)
  PROVE  /\ Handled(originator', originator, acked', base, sent, Position(m_nextSeq, base), nMpdus)
         /\ SetUpOnce =>
               /\ TransmitOK(originator', acked', base) /\ Later(originator, originator', base)
               /\ StillAnnounces(originator', originator, acked', base,
                                 psdu.kind = "Bar" /\ originator.bar.sent)
<1> DEFINE next == Position(m_nextSeq, base)
           list == {m \in Members(originator.outstanding) : IsPacketReceived(r, m.seq)}
           got == Only(originator.outstanding, list)
           o == NotifyGotBlockAck(originator, got)
           p == IF psdu.kind = "Bar" THEN DequeueBar(o) ELSE o
           B == acked \cup Members(got)
<1>1. originator' = GetBar(p) /\ acked' = B
  BY DEF BlockAckArrives
<1>2. /\ originator \in Originators /\ base \in SeqNos /\ sent \in SUBSET Mpdus
      /\ OriginatorOK(originator, acked, base, sent, next, nMpdus)
      /\ Numbering(base, sent, next, nMpdus)
      /\ SetUpOnce => TransmitOK(originator, acked, base)
  BY SafeParts
<1>3. got \in Seq(Mpdus) /\ Members(got) \subseteq Members(originator.outstanding)
  <2>1. originator.outstanding \in Seq(Mpdus)
    BY <1>2 DEF Originators
  <2> HIDE DEF list
  <2> QED
    BY <1>2, <2>1, OnlyIs
<1> HIDE DEF got, next
<1>4. /\ OriginatorOK(o, B, base, sent, next, nMpdus)
      /\ TransmitOK(originator, acked, base) =>
            /\ TransmitOK(o, B, base) /\ Later(originator, o, base)
            /\ AnnouncesLost(o, originator, B, base)
      /\ o.state = originator.state /\ o.request = originator.request
      /\ IdsOf(o.queue) \subseteq IdsOf(originator.queue)
  BY <1>2, <1>3, NotifyGotBlockAckOK
<1> HIDE DEF o, B
<1>5. After(p, o, B, base, sent, next, nMpdus)
  <2>1. Established(o)
    BY <1>4 DEF Established
  <2>2. o \in Originators /\ NoBar \in Bars /\ o.barIfData \in BOOLEAN
    BY <1>4 DEF OriginatorOK, Originators, NoBar, Bars
  <2> DEFINE q == [o EXCEPT !.bar = NoBar, !.barIfData = o.barIfData]
  <2>3. After(q, o, B, base, sent, next, nMpdus)
    BY <1>2, <1>4, <2>1, <2>2, BarOK
  <2>4. q = [o EXCEPT !.bar = NoBar]
    BY <2>2 DEF Originators
  <2> HIDE DEF q
  <2>5. DequeueBar(o) = q \/ DequeueBar(o) = o
    BY <2>4 DEF DequeueBar
  <2> QED
    BY <1>4, <2>3, <2>5, AfterItself
<1>7. ASSUME SetUpOnce
      PROVE  StillAnnounces(GetBar(p), originator, B, base, psdu.kind = "Bar" /\ originator.bar.sent)
  <2> DEFINE answered == psdu.kind = "Bar" /\ originator.bar.sent
  <2>1. AnnouncesLost(o, originator, B, base)
    BY <1>2, <1>4, <1>7
  <2>2. p = o \/ (psdu.kind = "Bar" /\ o.bar.sent /\ p = [o EXCEPT !.bar = NoBar])
    BY DEF DequeueBar
  <2>3. o \in Originators
    BY <1>4 DEF OriginatorOK
  <2>4. StillAnnounces(p, originator, B, base, answered)
    <3>1. CASE p = o
      BY <2>1, <3>1, LostStill DEF StillAnnounces
    <3>2. CASE psdu.kind = "Bar" /\ o.bar.sent /\ p = [o EXCEPT !.bar = NoBar]
      <4>1. p.window = o.window /\ p.barIfData = o.barIfData
        BY <2>3, <3>2 DEF Originators
      <4> QED
        BY <2>1, <3>2, <4>1 DEF AnnouncesLost, StillAnnounces, NewBar
    <3> QED
      BY <2>2, <3>1, <3>2
  <2> HIDE DEF p, answered
  <2>5. Announces(GetBar(p), p)
    <3>1. OriginatorOK(p, B, base, sent, next, nMpdus)
      BY <1>5 DEF After
    <3>2. Peek(GetBar(p), p, B, base, sent, next, nMpdus)
      BY <1>2, <3>1, GetBarOK
    <3> QED
      BY <3>2 DEF Peek
  <2>6. StillAnnounces(GetBar(p), originator, B, base, answered)
    BY <2>4, <2>5, StillAnnouncesMore
  <2> QED
    BY <2>6 DEF answered
<1> HIDE DEF p
<1>6. Handled(p, originator, B, base, sent, next, nMpdus)
      /\ (TransmitOK(originator, acked, base) => TransmitOK(p, B, base) /\ Later(originator, p, base))
  BY <1>4, <1>5, LaterLater DEF Handled, After
<1> QED
  BY <1>1, <1>2, <1>6, <1>7, HandledGetBar DEF next

\* MissedBlockAck: what is outstanding is handled, and a BlockAckReq is scheduled.
LEMMA BlockAckTimeoutOK ==
  ASSUME FewPackets, NEW base, NEW sent, Safe(base, sent), Established(originator), BlockAckTimeout
  PROVE  /\ Handled(originator', originator, acked', base, sent, Position(m_nextSeq, base), nMpdus)
         /\ SetUpOnce => TransmitOK(originator', acked', base) /\ Later(originator, originator', base)
         /\ StillAnnounces(originator', originator, acked', base, FALSE)
<1> DEFINE next == Position(m_nextSeq, base)
           o == AfterNeedBar(originator)
           p == MissedBlockAck(originator)
<1>1. originator' = p /\ acked' = acked
  BY DEF BlockAckTimeout
<1>2. /\ originator \in Originators /\ base \in SeqNos /\ sent \in SUBSET Mpdus
      /\ OriginatorOK(originator, acked, base, sent, next, nMpdus)
      /\ Numbering(base, sent, next, nMpdus)
      /\ SetUpOnce => TransmitOK(originator, acked, base)
  BY SafeParts
<1> HIDE DEF next
<1>3. After(o, originator, acked, base, sent, next, nMpdus) /\ Announces(o, originator)
  BY <1>2, AfterNeedBarOK
<1>4. \/ p = o \/ p = ScheduleBar(o) \/ p = [DequeueBar(o) EXCEPT !.barIfData = TRUE]
      \/ p = [o EXCEPT !.barIfData = TRUE]
  BY DEF MissedBlockAck
<1> HIDE DEF o, p
<1>5. Established(o) /\ o \in Originators /\ OriginatorOK(o, acked, base, sent, next, nMpdus)
  BY <1>3 DEF After, OriginatorOK, Established
<1>6. \A bar \in Bars, ifData \in BOOLEAN :
         After([o EXCEPT !.bar = bar, !.barIfData = ifData], o, acked, base, sent, next, nMpdus)
  BY <1>2, <1>5, BarOK
<1>7. After(p, o, acked, base, sent, next, nMpdus)
  <2>1. CASE p = o
    BY <1>5, <2>1, AfterItself
  <2>2. CASE p = ScheduleBar(o)
    BY <1>2, <1>5, <2>2, ScheduleBarOK
  <2>3. o.bar \in Bars /\ NoBar \in Bars /\ TRUE \in BOOLEAN
    BY <1>5 DEF Originators, NoBar, Bars
  <2>4. [o EXCEPT !.barIfData = TRUE] = [o EXCEPT !.bar = o.bar, !.barIfData = TRUE]
    BY <1>5 DEF Originators
  <2>5. [[o EXCEPT !.bar = NoBar] EXCEPT !.barIfData = TRUE]
        = [o EXCEPT !.bar = NoBar, !.barIfData = TRUE]
    BY <1>5 DEF Originators
  <2>6. CASE p = [o EXCEPT !.barIfData = TRUE]
    BY <1>6, <2>3, <2>4, <2>6
  <2>7. CASE p = [DequeueBar(o) EXCEPT !.barIfData = TRUE]
    <3>1. DequeueBar(o) = o \/ DequeueBar(o) = [o EXCEPT !.bar = NoBar]
      BY DEF DequeueBar
    <3> QED
      BY <1>6, <2>3, <2>4, <2>5, <2>7, <3>1
  <2> QED
    BY <1>4, <2>1, <2>2, <2>6, <2>7
<1>8. After(p, originator, acked, base, sent, next, nMpdus)
  BY <1>3, <1>7, AfterAfter
<1>9. StillAnnounces(p, originator, acked, base, FALSE)
  <2>1. CASE p = o
    BY <1>2, <1>3, <2>1, AnnouncesStill
  <2>2. CASE p = ScheduleBar(o)
    BY <1>5, <2>2 DEF ScheduleBar, NewBar, StillAnnounces, Originators
  <2>3. CASE p \in {[DequeueBar(o) EXCEPT !.barIfData = TRUE], [o EXCEPT !.barIfData = TRUE]}
    BY <1>5, <2>3 DEF DequeueBar, StillAnnounces, Originators
  <2> QED
    BY <1>4, <2>1, <2>2, <2>3
<1> QED
  BY <1>1, <1>2, <1>8, <1>9 DEF After, Handled, next

\* An A-MPDU ends with a BlockAck or without one.
LEMMA AmpduEndsSafe ==
  ASSUME FewPackets, NEW base, NEW sent, Safe(base, sent), NEW answered, AmpduEnds(answered)
  PROVE  Safe(base, sent)'
<1> DEFINE next == Position(m_nextSeq, base)
<1>1. /\ psdu.kind = "Ampdu" /\ psdu' = NoPsdu
      /\ IF answered THEN BlockAckArrives(recipient) ELSE BlockAckTimeout
      /\ UNCHANGED <<m_nextSeq, nMpdus, nRequests, recipient, response, apart>>
  BY DEF AmpduEnds, Ends
<1>2. /\ OneByOne /\ RequestOK(base, next) /\ RecipientOK(recipient, base, sent, next)
      /\ response \in Responses
  BY SafeParts
<1>3. Established(originator)
  BY <1>1, <1>2 DEF OneByOne
<1> HIDE DEF next
<1>4. /\ Handled(originator', originator, acked', base, sent, next, nMpdus)
      /\ SetUpOnce => TransmitOK(originator', acked', base)
  BY <1>1, <1>3, BlockAckArrivesOK, BlockAckTimeoutOK DEF next
<1>5. /\ OriginatorOK(originator', acked', base, sent, next, nMpdus)
      /\ Established(originator') /\ IdsOf(originator'.queue) \subseteq IdsOf(originator.queue)
      /\ originator'.request.queued =>
            originator.request.queued /\ originator'.request.ssn = originator.request.ssn
  BY <1>3, <1>4 DEF Handled, Established
<1>6. recipient.agreement
  BY <1>2, <1>3 DEF RequestOK
<1> QED
  BY <1>1, <1>2, <1>3, <1>4, <1>5, <1>6, ExchangeEnds DEF next

\* A BlockAckReq ends with a BlockAck or without one.
LEMMA BarEndsSafe ==
  ASSUME FewPackets, NEW base, NEW sent, Safe(base, sent), NEW arrives, NEW answered,
         BarEnds(arrives, answered)
  PROVE  Safe(base, sent)'
<1> DEFINE next == Position(m_nextSeq, base)
           r == IF arrives THEN ReceiveBar(recipient, psdu.ssn) ELSE recipient
<1>1. /\ psdu.kind = "Bar" /\ psdu' = NoPsdu /\ recipient' = r
      /\ IF answered THEN BlockAckArrives(r) ELSE BlockAckTimeout
      /\ UNCHANGED <<m_nextSeq, nMpdus, nRequests, response, apart>>
  BY DEF BarEnds, Ends
<1>2. /\ OneByOne /\ RequestOK(base, next) /\ RecipientOK(recipient, base, sent, next)
      /\ response \in Responses /\ psdu \in Psdus /\ PsduOK(base, sent, next)
      /\ Numbering(base, sent, next, nMpdus)
  BY SafeParts
<1>3. Established(originator)
  BY <1>1, <1>2 DEF OneByOne
<1>4. recipient.agreement
  BY <1>2, <1>3 DEF RequestOK
<1>5. psdu.ssn \in SeqNos /\ Position(psdu.ssn, base) <= next
  BY <1>1, <1>2 DEF PsduOK, Psdus
<1> HIDE DEF next
<1>6. RecipientOK(r, base, sent, next) /\ r.agreement /\ Arrivals(r) = Arrivals(recipient)
  <2>1. r = NotifyReceivedBar(recipient, psdu.ssn) \/ r = recipient
    BY <1>4 DEF ReceiveBar
  <2> HIDE DEF r
  <2> QED
    BY <1>2, <1>4, <1>5, <2>1, NotifyReceivedBarOK
<1> HIDE DEF r
<1>7. /\ Handled(originator', originator, acked', base, sent, next, nMpdus)
      /\ SetUpOnce => TransmitOK(originator', acked', base)
  BY <1>1, <1>3, BlockAckArrivesOK, BlockAckTimeoutOK DEF next
<1>8. /\ OriginatorOK(originator', acked', base, sent, next, nMpdus)
      /\ Established(originator') /\ IdsOf(originator'.queue) \subseteq IdsOf(originator.queue)
      /\ originator'.request.queued =>
            originator.request.queued /\ originator'.request.ssn = originator.request.ssn
  BY <1>3, <1>7 DEF Handled, Established
<1> QED
  BY <1>1, <1>2, <1>3, <1>6, <1>7, <1>8, ExchangeEnds DEF next

\* Those with other identities.
LEMMA WithoutIs ==
  ASSUME NEW q \in SUBSET Elements, NEW sent, NEW next, NEW n, QueueOK(q, sent, next, n), NEW ids
  PROVE  /\ Without(q, ids) \in SUBSET Elements /\ QueueOK(Without(q, ids), sent, next, n)
         /\ IdsOf(Without(q, ids)) \subseteq IdsOf(q) /\ Without(q, ids) \subseteq q
         /\ \A e \in Without(q, ids) : e.id \notin ids
<1>1. Without(q, ids) \in SUBSET q /\ \A e \in Without(q, ids) : e.id \notin ids
  BY DEF Without
<1>2. QueueOK(Without(q, ids), sent, next, n) /\ IdsOf(Without(q, ids)) \subseteq IdsOf(q)
  BY <1>1, QueueSubset
<1> QED
  BY <1>1, <1>2

\* The only MPDU in flight, without an agreement, leaves the queue or is to be sent again.
LEMMA AloneOK ==
  ASSUME NEW base, NEW sent, Safe(base, sent), ~Established(originator), NEW m \in psdu.mpdus,
         NEW queue, queue = Without(originator.queue, {m.id}) \/ queue = ToRetransmit(originator.queue, m.id),
         NEW B, B = acked \/ (B = acked \cup {m} /\ queue = Without(originator.queue, {m.id})),
         NEW p, p = [originator EXCEPT !.queue = queue]
  PROVE  /\ Handled(p, originator, B, base, sent, Position(m_nextSeq, base), nMpdus)
         /\ \A e \in p.queue : ~e.inFlight
<1> DEFINE next == Position(m_nextSeq, base)
<1>1. /\ originator \in Originators /\ base \in SeqNos /\ sent \subseteq Mpdus
      /\ OriginatorOK(originator, acked, base, sent, next, nMpdus)
      /\ Numbering(base, sent, next, nMpdus) /\ OneByOne /\ psdu.mpdus \subseteq sent
  BY SafeParts
<1>2. originator.queue \in SUBSET Elements /\ QueueOK(originator.queue, sent, next, nMpdus) /\ m \in sent
  BY <1>1 DEF OriginatorOK, Originators
<1> HIDE DEF next
<1>3. /\ queue \in SUBSET Elements /\ QueueOK(queue, sent, next, nMpdus)
      /\ IdsOf(queue) \subseteq IdsOf(originator.queue)
      /\ \A e \in queue : e.inFlight => e.id # m.id /\ e \in originator.queue
  <2>1. CASE queue = Without(originator.queue, {m.id})
    BY <1>2, <2>1, WithoutIs
  <2>2. CASE queue = ToRetransmit(originator.queue, m.id)
    BY <1>2, <2>2, ToRetransmitIs
  <2> QED
    BY <2>1, <2>2
<1>4. \A e \in queue : ~e.inFlight
  <2> SUFFICES ASSUME NEW e \in queue, e.inFlight
               PROVE  FALSE
    OBVIOUS
  <2>1. e.id # m.id /\ e \in originator.queue
    BY <1>3
  <2>2. PICK x \in psdu.mpdus : e.id = x.id
    BY <1>1, <2>1 DEF OneByOne, IdsOf
  <2>3. x = m
    BY <1>1 DEF OneByOne
  <2> QED
    BY <2>1, <2>2, <2>3
<1>5. /\ p \in Originators /\ p.window = originator.window /\ p.outstanding = originator.outstanding
      /\ p.bar = originator.bar /\ p.barIfData = originator.barIfData
      /\ p.notices = originator.notices /\ p.state = originator.state
      /\ p.request = originator.request /\ p.queue = queue
  BY <1>1, <1>3 DEF Originators
<1>6. originator.outstanding = <<>> /\ Members(originator.outstanding) = {}
  <2>1. originator.outstanding = <<>>
    BY <1>1 DEF OriginatorOK
  <2> QED
    BY <2>1 DEF Members
<1>7. IdsOf(B) \cap IdsOf(queue) = {}
  <2>1. IdsOf(acked) \cap IdsOf(queue) = {}
    BY <1>1, <1>3 DEF OriginatorOK
  <2>2. CASE B = acked
    BY <2>1, <2>2
  <2>3. CASE B = acked \cup {m} /\ queue = Without(originator.queue, {m.id})
    <3>1. m.id \notin IdsOf(queue)
      BY <2>3 DEF Without, IdsOf
    <3>2. IdsOf(B) = IdsOf(acked) \cup {m.id}
      BY <2>3 DEF IdsOf
    <3> QED
      BY <2>1, <3>1, <3>2
  <2> QED
    BY <2>2, <2>3
<1>8. B \subseteq sent /\ B \cap {} = {}
  BY <1>1, <1>2 DEF OriginatorOK
<1>9. OriginatorOK(p, B, base, sent, next, nMpdus)
  BY <1>1, <1>3, <1>5, <1>6, <1>7, <1>8 DEF OriginatorOK, Established
<1> QED
  BY <1>3, <1>4, <1>5, <1>9 DEF Handled, next

\* One MPDU is acknowledged.
LEMMA AckedOneOK ==
  ASSUME FewPackets, NEW base, NEW sent, NEW next, NEW n, Numbering(base, sent, next, n),
         NEW o, NEW A, OriginatorOK(o, A, base, sent, next, n), Established(o), NEW m \in sent
  PROVE  /\ Handled(AckedLeave(o, <<m>>), o, A \cup {m}, base, sent, next, n)
         /\ /\ TransmitOK(o, A, base)
            /\ Position(m.seq, base) < Position(o.window.m_winStart, base) + BufferSize
            => /\ TransmitOK(AckedLeave(o, <<m>>), A \cup {m}, base) /\ Later(o, AckedLeave(o, <<m>>), base)
               /\ AnnouncesLost(AckedLeave(o, <<m>>), o, A \cup {m}, base)
<1> DEFINE got == <<m>>
           p == AckedLeave(o, got)
           B == A \cup Members(got)
<1>1. got \in Seq(Mpdus) /\ Members(got) = {m} /\ Members(got) \subseteq sent
  <2>1. m \in Mpdus
    BY SentIs
  <2>2. got \in Seq(Mpdus) /\ DOMAIN got = {1} /\ got[1] = m
    BY <2>1
  <2> QED
    BY <2>2 DEF Members
<1> HIDE DEF got
<1>2. got \in Seq(Mpdus) /\ Members(got) \subseteq sent
  BY <1>1
<1>3. /\ OriginatorOK(p, B, base, sent, next, n) /\ Established(p)
      /\ p.state = o.state /\ p.request = o.request /\ IdsOf(p.queue) \subseteq IdsOf(o.queue)
      /\ /\ TransmitOK(o, A, base)
         /\ \A x \in Members(got) :
               Position(x.seq, base) < Position(o.window.m_winStart, base) + BufferSize
         => TransmitOK(p, B, base) /\ Later(o, p, base) /\ AnnouncesLost(p, o, B, base)
  BY <1>2, AckedLeaveOK
<1> HIDE DEF p
<1>4. B = A \cup {m}
  BY <1>1
<1> HIDE DEF B
<1>5. Handled(p, o, B, base, sent, next, n)
  BY <1>3 DEF Handled
<1>6. /\ TransmitOK(o, A, base)
      /\ Position(m.seq, base) < Position(o.window.m_winStart, base) + BufferSize
      => TransmitOK(p, B, base) /\ Later(o, p, base) /\ AnnouncesLost(p, o, B, base)
  BY <1>1, <1>3
<1> QED
  BY <1>4, <1>5, <1>6 DEF p, got

\* GotAck, with an agreement or without.
LEMMA GotAckOK ==
  ASSUME FewPackets, NEW base, NEW sent, Safe(base, sent), psdu.kind = "Single",
         NEW m \in psdu.mpdus
  PROVE  LET p == GotAck(originator, m)
             B == acked \cup {m}
         IN  /\ Handled(p, originator, B, base, sent, Position(m_nextSeq, base), nMpdus)
             /\ SetUpOnce => TransmitOK(p, B, base) /\ Later(originator, p, base)
             /\ SetUpOnce /\ Established(originator) => AnnouncesLost(p, originator, B, base)
             /\ ~Established(originator) => \A e \in p.queue : ~e.inFlight
<1> DEFINE next == Position(m_nextSeq, base)
           p == GotAck(originator, m)
           B == acked \cup {m}
<1>1. /\ originator \in Originators /\ base \in SeqNos /\ sent \subseteq Mpdus
      /\ OriginatorOK(originator, acked, base, sent, next, nMpdus)
      /\ Numbering(base, sent, next, nMpdus) /\ psdu.mpdus \subseteq sent
      /\ SetUpOnce => TransmitOK(originator, acked, base)
      /\ PsduOK(base, sent, next)
  BY SafeParts
<1>2. CASE ~Established(originator)
  <2> DEFINE queue == Without(originator.queue, {m.id})
             q == [originator EXCEPT !.queue = queue]
  <2>1. p = q
    BY <1>2 DEF GotAck
  <2> HIDE DEF queue
  <2>2. /\ Handled(q, originator, B, base, sent, Position(m_nextSeq, base), nMpdus)
        /\ \A e \in q.queue : ~e.inFlight
    BY <1>2, AloneOK DEF queue
  <2> HIDE DEF p, q
  <2>3. ~Established(p)
    BY <1>2, <2>1, <2>2 DEF Handled, Established
  <2> QED
    BY <1>2, <2>1, <2>2, <2>3 DEF p, TransmitOK, Later
<1>3. CASE Established(originator)
  <2>1. p = AckedLeave(originator, <<m>>) /\ m \in sent
    BY <1>1, <1>3 DEF GotAck
  <2> HIDE DEF p, B, next
  <2>2. /\ Handled(AckedLeave(originator, <<m>>), originator, acked \cup {m}, base, sent, next, nMpdus)
        /\ /\ TransmitOK(originator, acked, base)
           /\ Position(m.seq, base) < Position(originator.window.m_winStart, base) + BufferSize
           => /\ TransmitOK(AckedLeave(originator, <<m>>), acked \cup {m}, base)
              /\ Later(originator, AckedLeave(originator, <<m>>), base)
              /\ AnnouncesLost(AckedLeave(originator, <<m>>), originator, acked \cup {m}, base)
    BY <1>1, <1>3, <2>1, AckedOneOK
  <2>3. Handled(p, originator, B, base, sent, next, nMpdus)
    BY <2>1, <2>2 DEF B
  <2>4. SetUpOnce => /\ TransmitOK(p, B, base) /\ Later(originator, p, base)
                     /\ AnnouncesLost(p, originator, B, base)
    BY <1>1, <1>3, <2>1, <2>2 DEF B, PsduOK
  <2> QED
    BY <1>3, <2>3, <2>4 DEF p, next, B
<1> QED
  BY <1>2, <1>3

\* MissedAck, with an agreement or without.
LEMMA MissedAckOK ==
  ASSUME FewPackets, NEW base, NEW sent, Safe(base, sent), NEW m \in psdu.mpdus, NEW retry \in BOOLEAN
  PROVE  LET p == MissedAck(originator, m, retry)
         IN  /\ Handled(p, originator, acked, base, sent, Position(m_nextSeq, base), nMpdus)
             /\ SetUpOnce => TransmitOK(p, acked, base)
             /\ Later(originator, p, base) /\ (Established(originator) => Announces(p, originator))
             /\ ~Established(originator) => \A e \in p.queue : ~e.inFlight
<1> DEFINE next == Position(m_nextSeq, base)
           p == MissedAck(originator, m, retry)
<1>1. /\ originator \in Originators /\ base \in SeqNos /\ sent \in SUBSET Mpdus
      /\ OriginatorOK(originator, acked, base, sent, next, nMpdus)
      /\ Numbering(base, sent, next, nMpdus) /\ psdu.mpdus \subseteq sent
      /\ SetUpOnce => TransmitOK(originator, acked, base)
  BY SafeParts
<1>2. CASE ~Established(originator)
  <2> DEFINE queue == IF retry THEN ToRetransmit(originator.queue, m.id)
                      ELSE Without(originator.queue, {m.id})
             q == [originator EXCEPT !.queue = queue]
  <2>1. p = q
    BY <1>2 DEF MissedAck, NotifyDiscardedMpdu
  <2>2. queue = Without(originator.queue, {m.id}) \/ queue = ToRetransmit(originator.queue, m.id)
    OBVIOUS
  <2> HIDE DEF queue
  <2>3. /\ Handled(q, originator, acked, base, sent, Position(m_nextSeq, base), nMpdus)
        /\ \A e \in q.queue : ~e.inFlight
    BY <1>2, <2>2, AloneOK
  <2> HIDE DEF p, q
  <2>4. ~Established(p)
    BY <1>2, <2>1, <2>3 DEF Handled, Established
  <2> QED
    BY <1>2, <2>1, <2>3, <2>4 DEF p, TransmitOK, Later
<1>3. CASE Established(originator)
  <2>1. m \in sent
    BY <1>1
  <2> HIDE DEF next
  <2>2. CASE retry
    <3>1. p = HandleInFlightMpdu(originator, m, TRUE)
      BY <1>3, <2>2 DEF MissedAck
    <3> HIDE DEF p
    <3>2. After(p, originator, acked, base, sent, next, nMpdus) /\ Announces(p, originator)
      BY <1>1, <2>1, <3>1, HandleInFlightOK
    <3> QED
      BY <1>1, <1>3, <3>2 DEF After, Handled, p, next
  <2>3. CASE ~retry
    <3> DEFINE o == NotifyDiscardedMpdu(originator, m)
               queue == Without(o.queue, {m.id})
               q == [o EXCEPT !.queue = queue]
    <3>1. p = q
      BY <2>3 DEF MissedAck
    <3>2. After(o, originator, acked, base, sent, next, nMpdus) /\ Announces(o, originator)
      BY <1>1, <2>1, NotifyDiscardedOK
    <3> HIDE DEF o, p
    <3>3. OriginatorOK(o, acked, base, sent, next, nMpdus)
          /\ o.queue \in SUBSET Elements /\ QueueOK(o.queue, sent, next, nMpdus)
      BY <3>2 DEF After, OriginatorOK, Originators
    <3>4. /\ queue \in SUBSET Elements /\ QueueOK(queue, sent, next, nMpdus)
          /\ IdsOf(queue) \subseteq IdsOf(o.queue)
      BY <3>3, WithoutIs
    <3> HIDE DEF queue
    <3>5. After(q, o, acked, base, sent, next, nMpdus)
      BY <1>1, <3>3, <3>4, QueueLessOK
    <3>7. Announces(q, originator)
      BY <3>2 DEF Announces, After, OriginatorOK, Originators
    <3> HIDE DEF q
    <3>6. After(p, originator, acked, base, sent, next, nMpdus) /\ Announces(p, originator)
      BY <3>1, <3>2, <3>5, <3>7, AfterAfter
    <3> QED
      BY <1>1, <1>3, <3>6 DEF After, Handled, p, next
  <2> QED
    BY <2>2, <2>3
<1> QED
  BY <1>2, <1>3

\* An MPDU sent alone ends with an ack or without one.
LEMMA SingleEndsSafe ==
  ASSUME FewPackets, NEW base, NEW sent, Safe(base, sent), NEW answered, NEW retry \in BOOLEAN,
         SingleEnds(answered, retry)
  PROVE  Safe(base, sent)'
<1> DEFINE next == Position(m_nextSeq, base)
<1>1. /\ psdu.kind = "Single" /\ psdu' = NoPsdu
      /\ UNCHANGED <<m_nextSeq, nMpdus, nRequests, recipient, response, apart>>
  BY DEF SingleEnds, Ends
<1>2. PICK m \in psdu.mpdus :
        IF answered
        THEN originator' = GetBar(GotAck(originator, m)) /\ acked' = acked \cup {m}
        ELSE originator' = MissedAck(originator, m, retry) /\ UNCHANGED acked
  BY DEF SingleEnds
<1>3. /\ base \in SeqNos /\ sent \in SUBSET Mpdus /\ RequestOK(base, next)
      /\ RecipientOK(recipient, base, sent, next) /\ response \in Responses
      /\ originator \in Originators
  BY SafeParts
<1> HIDE DEF next
<1>4. /\ Handled(originator', originator, acked', base, sent, next, nMpdus)
      /\ SetUpOnce => TransmitOK(originator', acked', base)
      /\ ~Established(originator) => \A e \in originator'.queue : ~e.inFlight
      /\ acked' \subseteq acked \cup psdu.mpdus
  <2>1. CASE answered
    <3> DEFINE p == GotAck(originator, m)
               B == acked \cup {m}
    <3>1. /\ Handled(p, originator, B, base, sent, next, nMpdus)
          /\ SetUpOnce => TransmitOK(p, B, base)
          /\ ~Established(originator) => \A e \in p.queue : ~e.inFlight
      BY <1>1, GotAckOK DEF next
    <3>2. originator' = GetBar(p) /\ acked' = B
      BY <1>2, <2>1
    <3> HIDE DEF p, B
    <3>3. /\ Handled(GetBar(p), originator, B, base, sent, next, nMpdus)
          /\ TransmitOK(p, B, base) => TransmitOK(GetBar(p), B, base)
      BY <1>3, <3>1, HandledGetBar
    <3>4. GetBar(p).queue \subseteq p.queue
      <4>1. Peek(GetBar(p), p, B, base, sent, next, nMpdus)
        BY <1>3, <3>1, GetBarOK DEF Handled
      <4> QED
        BY <4>1 DEF Peek
    <3> QED
      BY <3>1, <3>2, <3>3, <3>4 DEF B
  <2>2. CASE ~answered
    <3>1. originator' = MissedAck(originator, m, retry) /\ acked' = acked
      BY <1>2, <2>2
    <3> QED
      BY <3>1, MissedAckOK DEF next
  <2> QED
    BY <2>1, <2>2
<1>5. /\ OriginatorOK(originator', acked', base, sent, next, nMpdus)
      /\ Established(originator') <=> Established(originator)
      /\ IdsOf(originator'.queue) \subseteq IdsOf(originator.queue)
      /\ originator'.request.queued =>
            originator.request.queued /\ originator'.request.ssn = originator.request.ssn
  BY <1>4 DEF Handled, Established
<1>6. response.queued \/ Established(originator) => recipient.agreement
  BY <1>3 DEF RequestOK
<1> QED
  BY <1>1, <1>3, <1>4, <1>5, <1>6, ExchangeEnds DEF next

\* The ADDBA request leaves the queue or is to be sent again.
LEMMA RequestEndsSafe ==
  ASSUME FewPackets, NEW base, NEW sent, Safe(base, sent),
         NEW arrives \in BOOLEAN, NEW answered \in BOOLEAN, NEW retry \in BOOLEAN,
         RequestEnds(arrives, answered, retry)
  PROVE  Safe(base, sent)'
<1> DEFINE next == Position(m_nextSeq, base)
           new == arrives /\ response.lastRequest # nRequests
           o == [originator EXCEPT !.request = NoRequest]
           timed == [o EXCEPT !.respTimer = TRUE]
           again == [originator EXCEPT !.request.inFlight = FALSE]
<1>1. /\ psdu.kind = "Request" /\ psdu' = NoPsdu
      /\ recipient' = IF new THEN CreateRecipientAgreement(recipient, psdu.ssn) ELSE recipient
      /\ response' = IF new THEN [queued |-> TRUE, lastRequest |-> nRequests] ELSE response
      /\ UNCHANGED <<m_nextSeq, nMpdus, nRequests, acked, apart>>
  BY DEF RequestEnds, Ends
<1>2. \/ originator' = GetBar(timed) \/ originator' = again \/ originator' = o
      \/ o.state = "PENDING" /\ originator' = NoReply(o)
  BY DEF RequestEnds
<1>3. /\ base \in SeqNos /\ sent \in SUBSET Mpdus /\ RequestOK(base, next) /\ PsduOK(base, sent, next)
      /\ RecipientOK(recipient, base, sent, next) /\ response \in Responses /\ psdu \in Psdus
      /\ originator \in Originators /\ OneByOne
      /\ OriginatorOK(originator, acked, base, sent, next, nMpdus)
      /\ Numbering(base, sent, next, nMpdus) /\ nRequests \in 0..MaxRequests
      /\ SetUpOnce => TransmitOK(originator, acked, base)
  BY SafeParts
<1>4. /\ originator.request.queued /\ originator.request.inFlight
      /\ psdu.ssn = originator.request.ssn /\ psdu.mpdus = {} /\ psdu.ssn \in SeqNos
  BY <1>1, <1>3 DEF PsduOK, Psdus
<1>5. nRequests > 0 /\ nRequests \in Nat /\ Position(psdu.ssn, base) <= next
  <2>1. nRequests > 0 /\ Position(psdu.ssn, base) <= next
    BY <1>3, <1>4 DEF RequestOK
  <2> QED
    BY <1>3, <2>1
<1>6. NoRequest \in Requests /\ ~NoRequest.queued
  BY SpaceIs, MpdusAssumption DEF NoRequest, Requests, SeqNos
<1> HIDE DEF next
<1>7. /\ o \in Originators /\ o.window = originator.window /\ o.queue = originator.queue
      /\ o.outstanding = originator.outstanding /\ o.bar = originator.bar
      /\ o.barIfData = originator.barIfData /\ o.notices = originator.notices
      /\ o.state = originator.state /\ o.request = NoRequest
  BY <1>3, <1>6 DEF Originators
<1>8. /\ timed \in Originators /\ timed.window = o.window /\ timed.queue = o.queue
      /\ timed.outstanding = o.outstanding /\ timed.bar = o.bar
      /\ timed.barIfData = o.barIfData /\ timed.notices = o.notices
      /\ timed.state = o.state /\ timed.request = NoRequest
  <2> HIDE DEF o
  <2> QED
    BY <1>7 DEF Originators
<1>9. /\ again \in Originators /\ again.window = originator.window /\ again.queue = originator.queue
      /\ again.outstanding = originator.outstanding /\ again.bar = originator.bar
      /\ again.barIfData = originator.barIfData /\ again.notices = originator.notices
      /\ again.state = originator.state /\ again.request.queued = originator.request.queued
      /\ again.request.ssn = originator.request.ssn
  BY <1>3 DEF Originators, Requests
<1> HIDE DEF o, timed, again
<1>10. ASSUME NEW p \in Originators, p.window = originator.window, p.queue = originator.queue,
              p.outstanding = originator.outstanding, p.bar = originator.bar,
              p.barIfData = originator.barIfData, p.notices = originator.notices,
              Established(p) <=> Established(originator)
       PROVE  /\ OriginatorOK(p, acked, base, sent, next, nMpdus)
              /\ SetUpOnce => TransmitOK(p, acked, base)
  <2>1. OriginatorOK(p, acked, base, sent, next, nMpdus)
    BY <1>3, <1>10 DEF OriginatorOK
  <2>2. TransmitOK(originator, acked, base) => TransmitOK(p, acked, base)
    BY <1>10 DEF TransmitOK
  <2> QED
    BY <1>3, <2>1, <2>2
<1>11. /\ OriginatorOK(originator', acked, base, sent, next, nMpdus)
       /\ SetUpOnce => TransmitOK(originator', acked, base)
       /\ Established(originator') <=> Established(originator)
       /\ originator'.queue \subseteq originator.queue \/ Established(originator)
       /\ IdsOf(originator'.queue) \subseteq IdsOf(originator.queue)
       /\ originator'.request.queued => originator'.request.ssn = originator.request.ssn
  <2>1. CASE originator' = GetBar(timed)
    <3>1. /\ OriginatorOK(timed, acked, base, sent, next, nMpdus)
          /\ SetUpOnce => TransmitOK(timed, acked, base)
      BY <1>7, <1>8, <1>10 DEF Established
    <3>2. Peek(GetBar(timed), timed, acked, base, sent, next, nMpdus)
      BY <1>3, <3>1, GetBarOK
    <3>3. Follows(GetBar(timed), timed, acked, base, sent, next, nMpdus)
      BY <1>3, <1>8, <3>2, PeekFollows
    <3>4. GetBar(timed).queue \subseteq timed.queue /\ ~GetBar(timed).request.queued
      BY <1>6, <1>8, <3>2 DEF Peek
    <3> QED
      BY <1>7, <1>8, <2>1, <3>1, <3>3, <3>4 DEF Follows, Established
  <2>2. CASE originator' = again
    BY <1>9, <1>10, <2>2 DEF Established
  <2>3. CASE originator' = o
    BY <1>6, <1>7, <1>10, <2>3 DEF Established
  <2>4. CASE o.state = "PENDING" /\ originator' = NoReply(o)
    <3>1. /\ OriginatorOK(o, acked, base, sent, next, nMpdus)
          /\ SetUpOnce => TransmitOK(o, acked, base)
      BY <1>7, <1>10 DEF Established
    <3>2. Follows(NoReply(o), o, acked, base, sent, next, nMpdus)
      BY <1>3, <2>4, <3>1, NoReplyFollows
    <3>3. NoReply(o).queue = o.queue /\ NoReply(o).request = o.request
      BY <1>7 DEF NoReply, Originators
    <3> QED
      BY <1>6, <1>7, <2>4, <3>1, <3>2, <3>3 DEF Follows, Established
  <2> QED
    BY <1>2, <2>1, <2>2, <2>3, <2>4
<1>12. ~Established(originator) => \A e \in originator'.queue : ~e.inFlight
  BY <1>3, <1>4, <1>11, NothingInFlight
<1>13. /\ RecipientOK(recipient', base, sent, next) /\ Arrivals(recipient') \subseteq Arrivals(recipient)
       /\ new \/ recipient.agreement => recipient'.agreement
  <2>1. CASE new
    <3>1. recipient' = CreateRecipientAgreement(recipient, psdu.ssn)
      BY <1>1, <2>1
    <3>2. \A x \in Arrivals(recipient) : Position(x.seq, base) <= Position(psdu.ssn, base)
      BY <1>3, <1>4, <2>1 DEF RequestOK
    <3> QED
      BY <1>3, <1>4, <1>5, <3>1, <3>2, CreateRecipientAgreementOK
  <2>2. CASE ~new
    <3>1. recipient' = recipient
      BY <1>1, <2>2
    <3> QED
      BY <1>3, <2>2, <3>1
  <2> QED
    BY <2>1, <2>2
<1>14. /\ response' \in Responses
       /\ \/ response' = response
          \/ /\ response'.lastRequest = nRequests /\ nRequests > 0
             /\ SetUpOnce => ~Established(originator)
       /\ response'.queued \/ Established(originator) => recipient'.agreement
  <2>1. CASE new
    <3>1. response' = [queued |-> TRUE, lastRequest |-> nRequests]
      BY <1>1, <2>1
    <3>2. SetUpOnce => response.lastRequest = 0
      <4>1. response.lastRequest <= nRequests /\ response.lastRequest \in Nat
        BY <1>3 DEF RequestOK, Responses
      <4> QED
        BY <1>5, <2>1, <4>1 DEF SetUpOnce
    <3>3. SetUpOnce => ~Established(originator)
      BY <1>3, <3>2 DEF RequestOK
    <3> QED
      BY <1>3, <1>5, <1>13, <2>1, <3>1, <3>3 DEF Responses
  <2>2. CASE ~new
    <3>1. response' = response
      BY <1>1, <2>2
    <3>2. response.queued \/ Established(originator) => recipient.agreement
      BY <1>3 DEF RequestOK
    <3> QED
      BY <1>3, <1>13, <3>1, <3>2
  <2> QED
    BY <2>1, <2>2
<1> HIDE DEF new
<1> QED
  BY <1>1, <1>4, <1>11, <1>12, <1>13, <1>14, ExchangeEnds DEF next

-----------------------------------------------------------------------------
(* The agreement of the originator.                                         *)

\* The number an agreement starts with: beyond what was acknowledged or handed up.
LEMMA StartingSequenceOK ==
  ASSUME NEW base, NEW sent, Safe(base, sent), NEW C \in SUBSET originator.queue
  PROVE  LET ssn == StartingSequence(C, m_nextSeq)
         IN  /\ ssn \in SeqNos /\ Position(ssn, base) <= Position(m_nextSeq, base)
             /\ ~Established(originator) =>
                   /\ \A x \in Arrivals(recipient) : Position(x.seq, base) <= Position(ssn, base)
                   /\ \A x \in acked : Position(x.seq, base) < Position(ssn, base)
<1> DEFINE next == Position(m_nextSeq, base)
           ssn == StartingSequence(C, m_nextSeq)
           e == First(C)
<1>1. /\ base \in SeqNos /\ sent \in SUBSET Mpdus /\ OneByOne /\ m_nextSeq \in SeqNos
      /\ originator \in Originators /\ next \in Nat
      /\ OriginatorOK(originator, acked, base, sent, next, nMpdus)
      /\ Numbering(base, sent, next, nMpdus)
      /\ acked \subseteq sent /\ Arrivals(recipient) \subseteq sent
  BY SafeParts
<1>2. \A x \in sent : /\ Position(x.seq, base) \in Nat /\ Position(x.seq, base) < next
                      /\ x.id \in Nat /\ x.seq \in SeqNos
  BY <1>1, SentIs
<1>3. CASE ssn = m_nextSeq
  <2> HIDE DEF ssn
  <2>1. \A x \in sent : Position(x.seq, base) <= next
    <3> HIDE DEF next
    <3> QED
      BY <1>1, <1>2
  <2> QED
    BY <1>1, <1>2, <1>3, <2>1 DEF ssn
<1>4. CASE C # {} /\ e.retry
  <2>1. ssn = e.seq
    BY <1>4 DEF StartingSequence
  <2>2. e \in C
    <3>1. \A x \in C : x.id \in Nat
      BY <1>1, MpdusAssumption DEF Originators, Elements, Ids
    <3>2. PICK x : x \in C
      BY <1>4
    <3> QED
      BY <3>1, <3>2, FirstIs
  <2> HIDE DEF e, ssn
  <2> DEFINE m == Mpdu(e.id, e.seq)
  <2>3. m \in sent /\ m.id = e.id /\ m.seq = e.seq
    BY <1>1, <1>4, <2>2 DEF OriginatorOK, QueueOK, Mpdu
  <2> HIDE DEF m
  <2>4. ASSUME ~Established(originator), NEW x \in acked \cup Arrivals(recipient)
        PROVE  Position(x.seq, base) <= Position(m.seq, base)
    <3>1. x.id <= e.id /\ x \in sent
      BY <1>1, <2>2, <2>4 DEF OneByOne
    <3>2. m.id < x.id <=> Position(m.seq, base) < Position(x.seq, base)
      BY <1>1, <2>3, <3>1 DEF Numbering
    <3> QED
      BY <1>2, <2>3, <3>1, <3>2
  <2>5. ASSUME ~Established(originator), NEW x \in acked
        PROVE  Position(x.seq, base) < Position(m.seq, base)
    <3>1. Position(x.seq, base) <= Position(m.seq, base) /\ x \in sent
      BY <1>1, <2>4, <2>5
    <3>2. x.id # m.id
      <4>1. m.id \in IdsOf(originator.queue) /\ x.id \in IdsOf(acked)
        BY <2>2, <2>3 DEF IdsOf
      <4> QED
        BY <1>1, <4>1 DEF OriginatorOK
    <3>3. Position(x.seq, base) # Position(m.seq, base)
      BY <1>1, <2>3, <3>1, <3>2, SentOnce
    <3> QED
      BY <1>2, <2>3, <3>1, <3>3
  <2>6. ssn \in SeqNos /\ Position(ssn, base) <= next
    BY <1>1, <1>2, <2>1, <2>3
  <2> QED
    BY <2>1, <2>3, <2>4, <2>5, <2>6 DEF ssn
<1>5. ssn = m_nextSeq \/ (C # {} /\ e.retry)
  BY DEF StartingSequence
<1> QED
  BY <1>3, <1>4, <1>5

\* The originator starts with an empty window beyond what was acknowledged.
LEMMA GotAddBaResponseOK ==
  ASSUME FewPackets, NEW base, NEW sent, Safe(base, sent)
  PROVE  LET p == GotAddBaResponse(originator, m_nextSeq)
         IN  /\ OriginatorOK(p, acked, base, sent, Position(m_nextSeq, base), nMpdus)
             /\ Established(p) /\ IdsOf(p.queue) \subseteq IdsOf(originator.queue)
             /\ p.request.queued => originator.request.queued /\ p.request.ssn = originator.request.ssn
             /\ ~Established(originator) => TransmitOK(p, acked, base)
<1> DEFINE next == Position(m_nextSeq, base)
           o == WipeAllExpiredMpdus(originator)
           ssn == StartingSequence(o.queue, m_nextSeq)
           w == NewWindow(ssn)
           p == GotAddBaResponse(originator, m_nextSeq)
<1>1. /\ base \in SeqNos /\ sent \in SUBSET Mpdus /\ originator \in Originators /\ next \in Nat
      /\ OriginatorOK(originator, acked, base, sent, next, nMpdus)
      /\ Numbering(base, sent, next, nMpdus) /\ acked \subseteq sent
  BY SafeParts
<1>2. Peek(o, originator, acked, base, sent, next, nMpdus)
  BY <1>1, WipeOK
<1>3. o.queue \in SUBSET originator.queue /\ o \in Originators
      /\ OriginatorOK(o, acked, base, sent, next, nMpdus)
  BY <1>2 DEF Peek, OriginatorOK
<1>4. originator.request \in Requests
  BY <1>1 DEF Originators
<1>5. p = [o EXCEPT !.request = originator.request, !.state = "ESTABLISHED", !.window = w]
  BY <1>3, <1>4 DEF GotAddBaResponse, Originators
<1> HIDE DEF o
<1>6. /\ ssn \in SeqNos /\ Position(ssn, base) <= next
      /\ ~Established(originator) => \A x \in acked : Position(x.seq, base) < Position(ssn, base)
  BY <1>3, StartingSequenceOK
<1> HIDE DEF ssn
<1>7. w \in Windows /\ w.m_winStart = ssn /\ \A d \in Slots : ~At(w, d)
  <2>1. NewWindow(ssn).m_winStart = ssn
    BY DEF NewWindow
  <2> QED
    BY <1>6, <2>1, NewWindowType
<1> HIDE DEF w, p
<1>8. /\ p \in Originators /\ p.window = w /\ p.queue = o.queue
      /\ p.outstanding = o.outstanding /\ p.bar = o.bar
      /\ p.barIfData = o.barIfData /\ p.notices = o.notices
      /\ p.state = "ESTABLISHED" /\ p.request = originator.request
  BY <1>5, <1>3, <1>7, <1>4 DEF Originators, States
<1>9. WindowBounded(w, base, next)
  BY <1>6, <1>7 DEF WindowBounded
<1> HIDE DEF next
<1>10. OriginatorOK(p, acked, base, sent, next, nMpdus)
  BY <1>3, <1>8, <1>9 DEF OriginatorOK, Established
<1>11. ~Established(originator) => TransmitOK(p, acked, base)
  <2> SUFFICES ASSUME ~Established(originator)
               PROVE  TransmitOK(p, acked, base)
    OBVIOUS
  <2>1. p.outstanding = <<>>
    BY <1>1, <1>2, <1>8 DEF Peek, OriginatorOK
  <2>2. Ascending(p.outstanding, base) /\ Within(p.outstanding, p.window, base)
    BY <2>1 DEF Ascending, Within
  <2>3. \A m \in acked : Position(m.seq, base) \in Nat /\ Position(ssn, base) \in Nat
                         /\ Position(m.seq, base) < Position(ssn, base)
    BY <1>1, <1>6, PositionType, SentIs
  <2>4. /\ \A m \in acked : Position(m.seq, base) < Position(ssn, base) + BufferSize
        /\ \A m \in acked : \A d \in Slots : Position(m.seq, base) # Position(ssn, base) + d
    BY <2>3, SlotsIn
  <2>5. WindowExact(w, acked, base)
    BY <1>7, <2>4, SlotsIn DEF WindowExact
  <2> QED
    BY <1>8, <2>2, <2>5 DEF TransmitOK
<1>12. /\ IdsOf(p.queue) \subseteq IdsOf(originator.queue)
       /\ p.request.queued => originator.request.queued /\ p.request.ssn = originator.request.ssn
  BY <1>2, <1>3, <1>8 DEF Peek, IdsOf
<1>13. Established(p)
  BY <1>8 DEF Established
<1> QED
  BY <1>10, <1>11, <1>12, <1>13 DEF p, next

\* The response arrives, so that the agreement is established, or is discarded.
LEMMA ResponseEndsSafe ==
  ASSUME FewPackets, NEW base, NEW sent, Safe(base, sent), NEW arrives \in BOOLEAN,
         ResponseEnds(arrives)
  PROVE  Safe(base, sent)'
<1> DEFINE next == Position(m_nextSeq, base)
           p == GotAddBaResponse(originator, m_nextSeq)
<1>1. /\ psdu.kind = "None" /\ response.queued /\ response' = [response EXCEPT !.queued = FALSE]
      /\ originator' = IF arrives THEN p ELSE originator
      /\ apart' = (apart \/ (arrives /\ originator'.window.m_winStart # recipient.m_winStartB))
      /\ UNCHANGED <<psdu, m_nextSeq, nMpdus, nRequests, recipient, acked>>
  BY DEF ResponseEnds, MayStart
<1>2. /\ base \in SeqNos /\ originator \in Originators /\ response \in Responses /\ psdu \in Psdus
      /\ OriginatorOK(originator, acked, base, sent, next, nMpdus)
      /\ SetUpOnce => TransmitOK(originator, acked, base)
      /\ PsduOK(base, sent, next) /\ OneByOne /\ RequestOK(base, next) /\ apart \in BOOLEAN
  BY SafeParts
<1>3. next' = next /\ (SetUpOnce' <=> SetUpOnce)
  BY <1>1 DEF SetUpOnce
<1>4. /\ OriginatorOK(p, acked, base, sent, next, nMpdus)
      /\ Established(p) /\ IdsOf(p.queue) \subseteq IdsOf(originator.queue)
      /\ p.request.queued => originator.request.queued /\ p.request.ssn = originator.request.ssn
      /\ ~Established(originator) => TransmitOK(p, acked, base)
  BY GotAddBaResponseOK DEF next
<1>5. /\ SetUpOnce => ~Established(originator)
      /\ response.lastRequest > 0 /\ recipient.agreement
  BY <1>1, <1>2 DEF RequestOK
<1> HIDE DEF p
<1>6. /\ OriginatorOK(originator', acked, base, sent, next, nMpdus)
      /\ SetUpOnce => TransmitOK(originator', acked, base)
      /\ originator'.request.queued =>
            originator.request.queued /\ originator'.request.ssn = originator.request.ssn
      /\ Established(originator') \/ originator' = originator
  BY <1>1, <1>2, <1>4, <1>5
<1>7. response' \in Responses /\ ~response'.queued /\ response'.lastRequest = response.lastRequest
  BY <1>1, <1>2 DEF Responses
<1>8. TypeOK'
  <2>1. apart' \in BOOLEAN
    BY <1>1, <1>2
  <2>2. originator' \in Originators
    BY <1>6 DEF OriginatorOK
  <2> QED
    BY <1>1, <1>7, <2>1, <2>2, SafeParts DEF TypeOK
<1>9. PsduOK(base, sent, next)'
  BY <1>1, <1>2, <1>3 DEF PsduOK
<1>10. OneByOne'
  BY <1>1, <1>2, <1>6 DEF OneByOne
<1>11. RequestOK(base, next)'
  <2> HIDE DEF next
  <2>1. response.lastRequest # 0 /\ ~(response.lastRequest = 0)
    BY <1>2, <1>5 DEF Responses
  <2> QED
    BY <1>1, <1>2, <1>3, <1>5, <1>6, <1>7, <2>1 DEF RequestOK
<1> QED
  BY <1>1, <1>3, <1>6, <1>8, <1>9, <1>10, <1>11, SafeParts DEF Safe

\* An MPDU arrives, with an agreement or without, or is lost.
LEMMA MpduEndsSafe ==
  ASSUME FewPackets, NEW base, NEW sent, Safe(base, sent), NEW arrives \in BOOLEAN, MpduEnds(arrives)
  PROVE  Safe(base, sent)'
<1> DEFINE next == Position(m_nextSeq, base)
           m == First(psdu.left)
           q == [psdu EXCEPT !.left = @ \ {m}, !.arrived = @ \/ arrives]
<1>1. /\ psdu.left # {} /\ psdu' = q
      /\ recipient' = IF arrives THEN ReceiveMpdu(recipient, m) ELSE recipient
      /\ UNCHANGED <<originator, m_nextSeq, nMpdus, nRequests, response, acked, apart>>
  BY DEF MpduEnds
<1>2. /\ base \in SeqNos /\ sent \in SUBSET Mpdus /\ psdu \in Psdus /\ recipient \in Recipients
      /\ Numbering(base, sent, next, nMpdus) /\ RecipientOK(recipient, base, sent, next)
      /\ PsduOK(base, sent, next) /\ OneByOne /\ RequestOK(base, next)
  BY SafeParts
<1>3. next' = next /\ (SetUpOnce' <=> SetUpOnce)
  BY <1>1 DEF SetUpOnce
<1>4. m \in psdu.left
  <2>1. \A x \in psdu.left : x.id \in Nat
    BY <1>2, MpdusAssumption DEF Psdus, Mpdus, Ids
  <2>2. PICK x : x \in psdu.left
    BY <1>1
  <2> QED
    BY <2>1, <2>2, FirstIs
<1> HIDE DEF m
<1>5. m \in psdu.mpdus /\ m \in sent /\ psdu.left \subseteq psdu.mpdus
  BY <1>2, <1>4 DEF PsduOK
<1>6. /\ q \in Psdus /\ q.kind = psdu.kind /\ q.mpdus = psdu.mpdus /\ q.ssn = psdu.ssn
      /\ q.left = psdu.left \ {m}
  BY <1>2 DEF Psdus
<1> HIDE DEF q
<1>7. /\ RecipientOK(recipient', base, sent, next) /\ recipient'.agreement = recipient.agreement
      /\ Arrivals(recipient') \subseteq Arrivals(recipient) \cup {m}
  <2> DEFINE r == ReceiveMpdu(recipient, m)
  <2>1. CASE ~arrives
    BY <1>1, <1>2, <2>1
  <2>2. CASE recipient.agreement
    <3>1. r = NotifyReceivedMpdu(recipient, m)
      BY <2>2 DEF ReceiveMpdu
    <3> HIDE DEF next, r
    <3>2. /\ RecipientOK(r, base, sent, next) /\ r.agreement
          /\ Arrivals(r) \subseteq Arrivals(recipient) \cup {m}
      BY <1>2, <1>5, <2>2, <3>1, NotifyReceivedMpduOK
    <3>3. r.agreement = recipient.agreement
      <4>1. r.agreement \in BOOLEAN /\ recipient.agreement \in BOOLEAN
        BY <1>2, <3>2 DEF RecipientOK, Recipients
      <4> QED
        BY <2>2, <3>2, <4>1
    <3> QED
      BY <1>1, <1>2, <3>2, <3>3 DEF r
  <2>3. CASE ~recipient.agreement
    <3>1. \A x \in Arrivals(recipient) : x.id <= m.id
      BY <1>2, <1>4, <2>3 DEF RequestOK, OneByOne
    <3> HIDE DEF next
    <3>2. /\ RecipientOK(r, base, sent, next) /\ ~r.agreement
          /\ Arrivals(r) = Arrivals(recipient) \cup {m}
      BY <1>2, <1>5, <2>3, <3>1, ReceiveAloneOK
    <3> HIDE DEF r
    <3>3. r.agreement = recipient.agreement
      <4>1. r.agreement \in BOOLEAN /\ recipient.agreement \in BOOLEAN
        BY <1>2, <3>2 DEF RecipientOK, Recipients
      <4> QED
        BY <2>3, <3>2, <4>1
    <3> QED
      BY <1>1, <1>2, <3>2, <3>3 DEF r
  <2> QED
    BY <2>1, <2>2, <2>3
<1>8. TypeOK'
  <2>1. recipient' \in Recipients
    BY <1>7 DEF RecipientOK
  <2> QED
    BY <1>1, <1>6, <2>1, SafeParts DEF TypeOK
<1>9. PsduOK(base, sent, next)'
  <2>1. q.left \subseteq q.mpdus
    BY <1>5, <1>6
  <2> QED
    BY <1>1, <1>2, <1>3, <1>6, <2>1 DEF PsduOK
<1>10. OneByOne'
  <2> SUFFICES ASSUME ~Established(originator)
               PROVE  OneByOne'
    BY <1>1 DEF OneByOne
  <2>1. /\ psdu.kind \in {"None", "Single", "Request"}
        /\ \A x, y \in psdu.mpdus : x = y
        /\ \A e \in originator.queue : e.inFlight => e.id \in IdsOf(psdu.mpdus)
        /\ \A e \in originator.queue : \A x \in psdu.mpdus \cup acked \cup Arrivals(recipient) :
              x.id <= e.id
    BY <1>2 DEF OneByOne
  <2>2. q.left = {}
    BY <1>5, <1>6, <2>1
  <2>3. psdu.mpdus \cup acked \cup Arrivals(recipient') \subseteq psdu.mpdus \cup acked \cup Arrivals(recipient)
    BY <1>5, <1>7
  <2>4. \A e \in originator.queue : \A x \in psdu.mpdus \cup acked \cup Arrivals(recipient') : x.id <= e.id
    BY <2>1, <2>3
  <2> QED
    BY <1>1, <1>6, <2>1, <2>2, <2>4 DEF OneByOne
<1>11. RequestOK(base, next)'
  <2>1. ~(originator.request.queued /\ response.lastRequest # nRequests)
    BY <1>1, <1>2 DEF RequestOK
  <2>2. recipient'.agreement = recipient.agreement
    BY <1>7
  <2> HIDE DEF next
  <2> QED
    BY <1>1, <1>2, <1>3, <2>1, <2>2 DEF RequestOK
<1> QED
  BY <1>1, <1>3, <1>7, <1>8, <1>9, <1>10, <1>11, SafeParts DEF Safe

-----------------------------------------------------------------------------
(* Frame exchanges start.                                                   *)

\* A new psdu has its MPDUs still to arrive.
LEMMA PsduIs ==
  ASSUME NEW kind \in {"None", "Ampdu", "Bar", "Single", "NoResponse", "Request"},
         NEW mpdus \in SUBSET Mpdus, NEW ssn \in SeqNos
  PROVE  LET q == Psdu(kind, mpdus, ssn)
         IN  /\ q \in Psdus /\ q.kind = kind /\ q.mpdus = mpdus /\ q.left = mpdus /\ q.ssn = ssn
             /\ ~q.arrived
  BY DEF Psdu, Psdus

\* An exchange without data starts: a BlockAckReq or an ADDBA request.
LEMMA ExchangeStarts ==
  ASSUME NEW base, NEW sent, Safe(base, sent), psdu.kind = "None",
         UNCHANGED <<m_nextSeq, nMpdus, recipient, response, acked, apart>>,
         psdu' \in Psdus, psdu'.mpdus = {}, psdu'.left = {}, psdu'.kind \in {"None", "Bar", "Request"},
         OriginatorOK(originator', acked, base, sent, Position(m_nextSeq, base), nMpdus),
         SetUpOnce => TransmitOK(originator', acked, base),
         Established(originator') <=> Established(originator),
         originator'.queue \subseteq originator.queue,
         ~Established(originator) => psdu'.kind # "Bar",
         psdu'.kind = "Bar" => Position(psdu'.ssn, base) <= Position(m_nextSeq, base),
         psdu'.kind = "Request" => /\ originator'.request.queued /\ originator'.request.inFlight
                                   /\ psdu'.ssn = originator'.request.ssn,
         nRequests' \in 0..MaxRequests, nRequests <= nRequests',
         originator'.request.queued =>
            /\ nRequests' > 0 /\ Position(originator'.request.ssn, base) <= Position(m_nextSeq, base)
            /\ response.lastRequest # nRequests' =>
                  \A x \in Arrivals(recipient) :
                     Position(x.seq, base) <= Position(originator'.request.ssn, base)
  PROVE  Safe(base, sent)'
<1> DEFINE next == Position(m_nextSeq, base)
<1>1. UNCHANGED <<m_nextSeq, nMpdus, recipient, response, acked, apart>>
  OBVIOUS
<1>2. /\ base \in SeqNos /\ originator \in Originators /\ response \in Responses /\ psdu \in Psdus
      /\ PsduOK(base, sent, next) /\ OneByOne /\ RequestOK(base, next)
      /\ nRequests \in 0..MaxRequests
  BY SafeParts
<1>3. next' = next /\ (SetUpOnce' => SetUpOnce)
  <2>1. SetUpOnce' => SetUpOnce
    BY <1>2 DEF SetUpOnce
  <2> QED
    BY <1>1, <2>1
<1>4. TypeOK'
  <2>1. originator' \in Originators
    BY DEF OriginatorOK
  <2> QED
    BY <1>1, <2>1, SafeParts DEF TypeOK
<1>5. PsduOK(base, sent, next)'
  <2>1. psdu'.mpdus \subseteq sent /\ psdu'.left \subseteq psdu'.mpdus
    OBVIOUS
  <2> QED
    BY <1>3, <2>1 DEF PsduOK
<1>6. OneByOne'
  <2> SUFFICES ASSUME ~Established(originator)
               PROVE  OneByOne'
    BY DEF OneByOne
  <2>1. psdu.mpdus = {}
    BY <1>2 DEF PsduOK
  <2>2. \A e \in originator.queue : ~e.inFlight
    BY <1>2, <2>1, NothingInFlight
  <2>3. \A e \in originator.queue : \A x \in acked \cup Arrivals(recipient) : x.id <= e.id
    BY <1>2, <2>1 DEF OneByOne
  <2>4. psdu'.kind \in {"None", "Single", "Request"}
    OBVIOUS
  <2>5. \A e \in originator'.queue : ~e.inFlight /\ \A x \in acked \cup Arrivals(recipient) : x.id <= e.id
    BY <2>2, <2>3
  <2>6. {} \cup acked = acked
    OBVIOUS
  <2> QED
    BY <1>1, <2>4, <2>5, <2>6 DEF OneByOne
<1>7. RequestOK(base, next)'
  <2>1. response.lastRequest <= nRequests /\ response.lastRequest \in Nat /\ nRequests \in Nat
        /\ nRequests' \in Nat
    BY <1>2 DEF RequestOK, Responses
  <2>2. response.lastRequest <= nRequests'
    BY <2>1
  <2>3. /\ response.queued => response.lastRequest > 0
        /\ response.queued \/ Established(originator) => recipient.agreement
        /\ SetUpOnce /\ (response.queued \/ response.lastRequest = 0) => ~Established(originator)
    BY <1>2 DEF RequestOK
  <2> HIDE DEF next
  <2> QED
    BY <1>1, <1>3, <2>2, <2>3 DEF RequestOK, next
<1> QED
  BY <1>1, <1>3, <1>4, <1>5, <1>6, <1>7, SafeParts DEF Safe

\* The request that is queued is still the last one.
LEMMA RequestKept ==
  ASSUME NEW base, NEW sent, Safe(base, sent), psdu.kind = "None",
         originator.request.queued
  PROVE  /\ nRequests > 0 /\ Position(originator.request.ssn, base) <= Position(m_nextSeq, base)
         /\ response.lastRequest # nRequests =>
               \A x \in Arrivals(recipient) :
                  Position(x.seq, base) <= Position(originator.request.ssn, base)
  BY SafeParts DEF RequestOK

\* A BlockAckReq with the start of the transmit window.
LEMMA SendBarSafe ==
  ASSUME NEW base, NEW sent, Safe(base, sent), SendBar
  PROVE  Safe(base, sent)'
<1> DEFINE next == Position(m_nextSeq, base)
           o == GetBar(originator)
           p == [o EXCEPT !.bar.sent = TRUE]
           bar == [o.bar EXCEPT !.sent = TRUE]
           q == [o EXCEPT !.bar = bar, !.barIfData = o.barIfData]
<1>1. /\ psdu.kind = "None" /\ o.bar.queued /\ originator' = p
      /\ psdu' = Psdu("Bar", {}, o.window.m_winStart)
      /\ UNCHANGED <<m_nextSeq, nMpdus, nRequests, recipient, response, acked, apart>>
  BY DEF SendBar, MayStart
<1>2. /\ base \in SeqNos /\ sent \in SUBSET Mpdus /\ originator \in Originators
      /\ OriginatorOK(originator, acked, base, sent, next, nMpdus)
      /\ nRequests \in 0..MaxRequests
      /\ SetUpOnce => TransmitOK(originator, acked, base)
  BY SafeParts
<1>3. Peek(o, originator, acked, base, sent, next, nMpdus)
  BY <1>2, GetBarOK
<1> HIDE DEF o
<1>4. /\ OriginatorOK(o, acked, base, sent, next, nMpdus) /\ o \in Originators
      /\ TransmitOK(originator, acked, base) => TransmitOK(o, acked, base)
      /\ o.state = originator.state /\ o.queue \subseteq originator.queue
      /\ o.request.queued => o.request = originator.request
  <2>1. ~NoRequest.queued
    BY DEF NoRequest
  <2> QED
    BY <1>3, <2>1 DEF Peek, OriginatorOK
<1>5. Established(o)
  <2>1. ~NoBar.queued
    BY DEF NoBar
  <2> QED
    BY <1>1, <1>4, <2>1 DEF OriginatorOK
<1>6. p = q /\ bar \in Bars
  BY <1>4 DEF Originators, Bars
<1>7. After(q, o, acked, base, sent, next, nMpdus)
  <2>1. bar \in Bars /\ o.barIfData \in BOOLEAN
    BY <1>4, <1>6 DEF Originators
  <2> HIDE DEF bar
  <2> QED
    BY <1>2, <1>4, <1>5, <2>1, BarOK
<1>8. p.queue = o.queue /\ p.request = o.request /\ p.state = o.state
  BY <1>4 DEF Originators
<1>9. o.window.m_winStart \in SeqNos /\ Position(o.window.m_winStart, base) <= next
  BY <1>4, <1>5 DEF OriginatorOK, WindowBounded, Originators, Windows
<1>10. /\ psdu' \in Psdus /\ psdu'.kind = "Bar" /\ psdu'.mpdus = {} /\ psdu'.left = {}
       /\ psdu'.ssn = o.window.m_winStart
  BY <1>1, <1>9, PsduIs
<1> HIDE DEF p, q
<1>11. /\ OriginatorOK(originator', acked, base, sent, next, nMpdus)
       /\ SetUpOnce => TransmitOK(originator', acked, base)
       /\ Established(originator') /\ Established(originator)
       /\ originator'.queue \subseteq originator.queue
       /\ originator'.request.queued => originator'.request = originator.request
  BY <1>1, <1>2, <1>4, <1>5, <1>6, <1>7, <1>8 DEF After, Established
<1>12. /\ psdu'.kind \in {"None", "Bar", "Request"} /\ psdu'.kind # "Request"
       /\ nRequests' \in 0..MaxRequests /\ nRequests <= nRequests' /\ nRequests' = nRequests
  <2>1. nRequests' = nRequests /\ nRequests \in Nat
    BY <1>1, <1>2
  <2>2. nRequests' \in 0..MaxRequests /\ nRequests <= nRequests'
    BY <1>2, <2>1
  <2> QED
    BY <1>10, <2>1, <2>2
<1>13. originator'.request.queued =>
            /\ nRequests' > 0 /\ Position(originator'.request.ssn, base) <= next
            /\ response.lastRequest # nRequests' =>
                  \A x \in Arrivals(recipient) :
                     Position(x.seq, base) <= Position(originator'.request.ssn, base)
  BY <1>1, <1>11, <1>12, RequestKept
<1> QED
  BY <1>1, <1>9, <1>10, <1>11, <1>12, <1>13, ExchangeStarts

\* What the originator is when it looks for a request or for data to send.
LEMMA PeekedOK ==
  ASSUME NEW base, NEW sent, Safe(base, sent)
  PROVE  /\ OriginatorOK(Peeked, acked, base, sent, Position(m_nextSeq, base), nMpdus)
         /\ SetUpOnce => TransmitOK(Peeked, acked, base)
         /\ Peeked \in Originators /\ Peeked.state = originator.state
         /\ Peeked.window = originator.window /\ Peeked.queue \subseteq originator.queue
         /\ Peeked.request.queued => Peeked.request = originator.request
         /\ Announces(Peeked, originator)
<1> DEFINE next == Position(m_nextSeq, base)
           o == GetBar(originator)
           p == WithoutOld(o)
<1>1. /\ base \in SeqNos /\ sent \in SUBSET Mpdus /\ originator \in Originators
      /\ OriginatorOK(originator, acked, base, sent, next, nMpdus)
      /\ SetUpOnce => TransmitOK(originator, acked, base)
  BY SafeParts
<1>2. Peek(o, originator, acked, base, sent, next, nMpdus)
  BY <1>1, GetBarOK
<1> HIDE DEF o
<1>3. Peek(p, o, acked, base, sent, next, nMpdus)
  BY <1>2, WithoutOldOK DEF Peek
<1> HIDE DEF p
<1>4. Peek(p, originator, acked, base, sent, next, nMpdus)
  BY <1>2, <1>3, PeekPeek
<1>5. Peeked = p
  BY DEF Peeked, p, o
<1>6. ~NoRequest.queued
  BY DEF NoRequest
<1> QED
  BY <1>1, <1>4, <1>5, <1>6 DEF Peek, OriginatorOK

\* The request that was kept is sent again.
LEMMA SendRequestSafe ==
  ASSUME NEW base, NEW sent, Safe(base, sent), SendRequest
  PROVE  Safe(base, sent)'
<1> DEFINE next == Position(m_nextSeq, base)
           o == Peeked
           p == [o EXCEPT !.request.inFlight = TRUE]
<1>1. /\ psdu.kind = "None" /\ o.request.queued /\ originator' = p
      /\ psdu' = Psdu("Request", {}, o.request.ssn)
      /\ UNCHANGED <<m_nextSeq, nMpdus, nRequests, recipient, response, acked, apart>>
  BY DEF SendRequest, MayStart
<1>2. /\ OriginatorOK(o, acked, base, sent, next, nMpdus)
      /\ SetUpOnce => TransmitOK(o, acked, base)
      /\ o \in Originators /\ o.state = originator.state
      /\ o.window = originator.window /\ o.queue \subseteq originator.queue
      /\ o.request.queued => o.request = originator.request
  BY PeekedOK
<1> HIDE DEF o
<1>3. /\ p \in Originators /\ p.state = o.state /\ p.queue = o.queue /\ p.window = o.window
      /\ p.outstanding = o.outstanding /\ p.bar = o.bar /\ p.barIfData = o.barIfData
      /\ p.notices = o.notices /\ p.request.queued = o.request.queued /\ p.request.inFlight
      /\ p.request.ssn = o.request.ssn
  BY <1>2 DEF Originators, Requests
<1> HIDE DEF p
<1>4. OriginatorOK(p, acked, base, sent, next, nMpdus)
  BY <1>2, <1>3 DEF OriginatorOK, Established
<1>5. TransmitOK(o, acked, base) => TransmitOK(p, acked, base)
  BY <1>3 DEF TransmitOK, Established
<1>6. o.request.ssn \in SeqNos
  BY <1>2 DEF Originators, Requests
<1>7. /\ psdu' \in Psdus /\ psdu'.kind = "Request" /\ psdu'.mpdus = {} /\ psdu'.left = {}
      /\ psdu'.ssn = o.request.ssn
  BY <1>1, <1>6, PsduIs
<1>8. nRequests' = nRequests /\ nRequests \in 0..MaxRequests
  BY <1>1, SafeParts
<1>9. nRequests' \in 0..MaxRequests /\ nRequests <= nRequests'
  BY <1>8
<1>10. /\ nRequests > 0 /\ Position(p.request.ssn, base) <= next
       /\ response.lastRequest # nRequests =>
             \A x \in Arrivals(recipient) : Position(x.seq, base) <= Position(p.request.ssn, base)
  BY <1>1, <1>2, <1>3, RequestKept
<1>11. /\ Established(originator') <=> Established(originator)
       /\ originator'.queue \subseteq originator.queue
       /\ psdu'.kind \in {"None", "Bar", "Request"} /\ psdu'.kind # "Bar"
       /\ originator'.request.queued /\ originator'.request.inFlight
       /\ psdu'.ssn = originator'.request.ssn
  BY <1>1, <1>2, <1>3, <1>7 DEF Established
<1> QED
  BY <1>1, <1>2, <1>4, <1>5, <1>7, <1>8, <1>9, <1>10, <1>11, ExchangeStarts

\* A request is created, and the agreement with it; there may be no time to send it.
LEMMA SendAddBaRequestSafe ==
  ASSUME NEW base, NEW sent, Safe(base, sent), NEW fits \in BOOLEAN, SendAddBaRequest(fits)
  PROVE  Safe(base, sent)'
<1> DEFINE next == Position(m_nextSeq, base)
           C == Candidates(Peeked)
           ssn == StartingSequence(C, m_nextSeq)
           o == CreateOriginatorAgreement(Peeked, ssn)
           request == [queued |-> TRUE, inFlight |-> TRUE, ssn |-> ssn, before |-> nMpdus,
                       expired |-> FALSE]
           p == [o EXCEPT !.request = request]
<1>1. /\ psdu.kind = "None" /\ ~Peeked.request.queued /\ Peeked.state \in {"NONE", "RESET"}
      /\ nRequests < MaxRequests /\ nRequests' = nRequests + 1
      /\ originator' = IF fits THEN p ELSE o
      /\ psdu' = IF fits THEN Psdu("Request", {}, ssn) ELSE psdu
      /\ UNCHANGED <<m_nextSeq, nMpdus, recipient, response, acked, apart>>
  BY DEF SendAddBaRequest, MayStart, NeedSetupBlockAck
<1>2. /\ OriginatorOK(Peeked, acked, base, sent, next, nMpdus)
      /\ Peeked \in Originators /\ Peeked.state = originator.state
      /\ Peeked.queue \subseteq originator.queue
  BY PeekedOK
<1>3. /\ psdu \in Psdus /\ PsduOK(base, sent, next) /\ nRequests \in 0..MaxRequests
      /\ nMpdus \in 0..MaxMpdus
  BY SafeParts
<1>4. ~Established(Peeked) /\ ~Established(originator)
  BY <1>1, <1>2 DEF Established
<1>5. /\ ssn \in SeqNos /\ Position(ssn, base) <= next
      /\ \A x \in Arrivals(recipient) : Position(x.seq, base) <= Position(ssn, base)
  <2>1. C \in SUBSET originator.queue
    BY <1>2 DEF Candidates
  <2> QED
    BY <1>4, <2>1, StartingSequenceOK
<1> HIDE DEF ssn, C
<1>6. /\ o \in Originators /\ o.state = "PENDING" /\ o.queue = Peeked.queue
      /\ o.outstanding = <<>> /\ o.bar = Peeked.bar /\ o.barIfData = Peeked.barIfData
      /\ o.notices = Peeked.notices /\ o.request = Peeked.request
  <2> DEFINE w == NewWindow(ssn)
  <2>1. w \in Windows /\ <<>> \in Seq(Mpdus) /\ "PENDING" \in States
    BY <1>5, NewWindowType DEF States
  <2>2. o = [Peeked EXCEPT !.state = "PENDING", !.window = w, !.outstanding = <<>>]
    BY DEF CreateOriginatorAgreement
  <2> HIDE DEF w, o
  <2> QED
    BY <1>2, <2>1, <2>2 DEF Originators
<1> HIDE DEF o
<1>7. request \in Requests
  BY <1>3, <1>5 DEF Requests
<1>8. /\ p \in Originators /\ p.state = o.state /\ p.queue = o.queue /\ p.outstanding = o.outstanding
      /\ p.bar = o.bar /\ p.barIfData = o.barIfData /\ p.notices = o.notices /\ p.request = request
  <2> HIDE DEF request
  <2> QED
    BY <1>6, <1>7 DEF Originators
<1> HIDE DEF p
<1>9. /\ originator' \in Originators /\ originator'.state = "PENDING"
      /\ originator'.queue = Peeked.queue /\ originator'.outstanding = <<>>
      /\ originator'.bar = Peeked.bar /\ originator'.barIfData = Peeked.barIfData
      /\ originator'.notices = Peeked.notices
      /\ fits => originator'.request = request
      /\ ~fits => ~originator'.request.queued
  BY <1>1, <1>6, <1>8
<1>10. ~Established(originator')
  BY <1>9 DEF Established
<1>11. OriginatorOK(originator', acked, base, sent, next, nMpdus)
  <2>1. Members(originator'.outstanding) = {}
    BY <1>9 DEF Members
  <2>2. Members(originator'.outstanding) \subseteq sent /\ acked \cap Members(originator'.outstanding) = {}
    BY <2>1
  <2> QED
    BY <1>2, <1>4, <1>9, <1>10, <2>2 DEF OriginatorOK
<1>12. TransmitOK(originator', acked, base)
  BY <1>10 DEF TransmitOK
<1>13. /\ psdu' \in Psdus /\ psdu'.mpdus = {} /\ psdu'.left = {} /\ psdu'.kind \in {"None", "Request"}
       /\ psdu'.kind = "Request" => fits /\ psdu'.ssn = ssn
  <2>1. psdu.mpdus = {} /\ psdu.left = {}
    BY <1>1, <1>3 DEF PsduOK
  <2>2. fits => /\ psdu' \in Psdus /\ psdu'.mpdus = {} /\ psdu'.left = {}
                /\ psdu'.kind = "Request" /\ psdu'.ssn = ssn
    BY <1>1, <1>5, PsduIs
  <2> QED
    BY <1>1, <1>3, <2>1, <2>2
<1>14. nRequests' \in 0..MaxRequests /\ nRequests <= nRequests' /\ nRequests' > 0
  <2>1. MaxRequests \in Nat
    BY BlockAckAssumption
  <2> QED
    BY <1>1, <1>3, <2>1
<1>15. /\ psdu'.kind \in {"None", "Bar", "Request"} /\ psdu'.kind # "Bar"
       /\ Established(originator') <=> Established(originator)
       /\ originator'.queue \subseteq originator.queue
       /\ psdu'.kind = "Request" => /\ originator'.request.queued /\ originator'.request.inFlight
                                    /\ psdu'.ssn = originator'.request.ssn
       /\ originator'.request.queued =>
             /\ nRequests' > 0 /\ Position(originator'.request.ssn, base) <= next
             /\ \A x \in Arrivals(recipient) :
                   Position(x.seq, base) <= Position(originator'.request.ssn, base)
  <2>1. request.queued /\ request.inFlight /\ request.ssn = ssn
    OBVIOUS
  <2> HIDE DEF request
  <2> QED
    BY <1>2, <1>4, <1>5, <1>9, <1>10, <1>13, <1>14, <2>1
<1> QED
  BY <1>1, <1>11, <1>12, <1>13, <1>14, <1>15, ExchangeStarts

\* Only one MPDU is sent where there is one.
LEMMA OnlyOne ==
  ASSUME NEW base, NEW sent, NEW next, NEW n, Numbering(base, sent, next, n),
         NEW mpdus \in SUBSET sent, Cardinality(mpdus) = 1
  PROVE  \A x, y \in mpdus : x = y
<1>1. n \in Nat /\ 0 \in Nat /\ 0 <= n
  BY MpdusAssumption DEF Numbering
<1>2. \A x \in mpdus : x.id \in 0..n - 1
  <2>1. \A x \in mpdus : x \in Mpdus /\ x.id < n
    BY DEF Numbering
  <2> QED
    BY <1>1, <2>1, MpdusAssumption DEF Mpdus, Ids
<1>3. \A x, y \in mpdus : x.id = y.id => x = y
  BY SentOnce
<1>4. IsFiniteSet(mpdus)
  BY <1>1, <1>2, <1>3, IdsBetween
<1>5. PICK z : mpdus = {z}
  BY <1>4, FS_Singleton
<1> QED
  BY <1>5

\* What asks for an acknowledgment of its own is one MPDU.
LEMMA SingleIs ==
  ASSUME NEW base, NEW sent, NEW next, NEW n, Numbering(base, sent, next, n),
         NEW mpdus \in SUBSET sent, NEW o, Kind(o, mpdus) = "Single"
  PROVE  \A x, y \in mpdus : x = y
<1>1. IsFiniteSet(mpdus) /\ Cardinality(mpdus) \in Nat
  <2>1. n \in Nat /\ 0 \in Nat /\ 0 <= n
    BY MpdusAssumption DEF Numbering
  <2>2. \A x \in mpdus : x.id \in 0..n - 1
    <3>1. \A x \in mpdus : x \in Mpdus /\ x.id < n
      BY DEF Numbering
    <3> QED
      BY <2>1, <3>1, MpdusAssumption DEF Mpdus, Ids
  <2>3. \A x, y \in mpdus : x.id = y.id => x = y
    BY SentOnce
  <2> QED
    BY <2>1, <2>2, <2>3, IdsBetween
<1>2. ~(Cardinality(mpdus) > 1)
  BY DEF Kind
<1>3. Cardinality(mpdus) = 0 \/ Cardinality(mpdus) = 1
  BY <1>1, <1>2
<1>4. CASE Cardinality(mpdus) = 0
  BY <1>1, <1>4, FS_EmptySet
<1>5. CASE Cardinality(mpdus) = 1
  BY <1>5, OnlyOne
<1> QED
  BY <1>3, <1>4, <1>5

\* The acknowledgment asked for.
LEMMA KindIs ==
  ASSUME NEW o, NEW mpdus
  PROVE  /\ Kind(o, mpdus) \in {"Ampdu", "NoResponse", "Single"}
         /\ Kind(o, mpdus) = "NoResponse" => Established(o)
         /\ Cardinality(mpdus) = 1 /\ ~Established(o) => Kind(o, mpdus) = "Single"
  BY DEF Kind

\* What is sent: packets of the queue with numbers within the window, new ones from the next on.
DataLeave(base, sent, more) ==
    /\ more = sent \cup psdu'.mpdus
    /\ \A x \in psdu'.mpdus :
          /\ x.id \in IdsOf(originator.queue)
          /\ x \in sent \/ Position(m_nextSeq, base) <= Position(x.seq, base)
          /\ Established(originator) =>
                /\ Position(originator.window.m_winStart, base) <= Position(x.seq, base)
                /\ Position(x.seq, base) < Position(originator.window.m_winStart, base) + BufferSize
    /\ psdu'.kind = "Single" => \A x, y \in psdu'.mpdus : x = y
    /\ ~Established(originator) => psdu'.mpdus # {}
    /\ ~psdu'.arrived /\ psdu'.kind # "Bar"
    /\ originator'.state = originator.state /\ originator'.window = originator.window
    /\ IdsOf(originator'.queue) \subseteq IdsOf(originator.queue) /\ ~originator'.request.queued
    /\ Announces(originator', originator)
    /\ UNCHANGED <<nRequests, recipient, response, acked, apart>>

\* Data are sent: they get their numbers, are in flight and stored.
LEMMA SendDataSafe ==
  ASSUME FewPackets, NEW base, NEW sent, Safe(base, sent), SendData
  PROVE  \E more \in SUBSET Mpdus : Safe(base, more)' /\ DataLeave(base, sent, more)
<1> DEFINE next == Position(m_nextSeq, base)
           o == Peeked
           C == Candidates(o)
<1>1. /\ psdu.kind = "None" /\ ~o.request.queued
      /\ UNCHANGED <<nMpdus, nRequests, recipient, response, acked, apart>>
  BY DEF SendData, MayStart
<1>2. PICK mpdus \in Prefixes(Numbered(C, m_nextSeq)) :
          /\ IF Established(o)
             THEN \A m \in mpdus : IsInWindow(m.seq, o.window.m_winStart)
             ELSE Cardinality(mpdus) = 1
          /\ psdu' = Psdu(Kind(o, mpdus), mpdus, 0)
          /\ originator' = IF Kind(o, mpdus) = "NoResponse" THEN ScheduleBar(Sent(o, mpdus))
                           ELSE Sent(o, mpdus)
          /\ m_nextSeq' = SeqPlus(m_nextSeq, Cardinality(
                {e \in C : e.seq = NoSeq /\ e.id \in IdsOf(mpdus)}))
  BY DEF SendData
<1> DEFINE k == Cardinality(Fresh(C, mpdus))
           more == sent \cup mpdus
           p == Sent(o, mpdus)
<1>3. /\ base \in SeqNos /\ sent \in SUBSET Mpdus /\ next \in Nat /\ m_nextSeq \in SeqNos
      /\ Numbering(base, sent, next, nMpdus) /\ nMpdus \in 0..MaxMpdus
      /\ RecipientOK(recipient, base, sent, next) /\ OneByOne /\ RequestOK(base, next)
      /\ PsduOK(base, sent, next) /\ originator \in Originators
      /\ acked \subseteq sent /\ Arrivals(recipient) \subseteq sent
  BY SafeParts
<1>4. /\ OriginatorOK(o, acked, base, sent, next, nMpdus)
      /\ SetUpOnce => TransmitOK(o, acked, base)
      /\ o \in Originators /\ o.state = originator.state
      /\ o.window = originator.window /\ o.queue \subseteq originator.queue
      /\ Announces(o, originator)
  BY PeekedOK
<1> HIDE DEF o, next
<1>5. o.state # "PENDING" /\ C = {e \in o.queue : ~e.inFlight}
  <2>1. C # {}
    <3>1. Prefixes(Numbered(C, m_nextSeq)) # {}
      BY <1>2
    <3>2. Numbered(C, m_nextSeq) # {}
      BY <3>1 DEF Prefixes
    <3> QED
      BY <3>2 DEF Numbered
  <2>2. o.state # "PENDING"
    BY <2>1 DEF Candidates
  <2> QED
    BY <2>1, <2>2 DEF Candidates
<1> HIDE DEF C
<1>6. /\ C \in SUBSET o.queue /\ o.queue \in SUBSET Elements /\ C \in SUBSET Elements
      /\ QueueOK(o.queue, sent, next, nMpdus) /\ \A e \in o.queue : e.seq = NoSeq => e \in C
  BY <1>4, <1>5 DEF OriginatorOK, QueueOK, Originators
<1>7. QueueOK(C, sent, next, nMpdus)
  BY <1>6, QueueSubset
<1>8. next = Position(m_nextSeq, base)
  BY DEF next
<1>9. /\ Numbering(base, more, next + k, nMpdus)
      /\ Position(SeqPlus(m_nextSeq, k), base) = next + k
  BY <1>2, <1>3, <1>6, <1>7, <1>8, NumberingOK
<1>10. /\ k \in Nat
       /\ \A e \in C, m \in mpdus : e.id < m.id => e.id \in IdsOf(mpdus)
       /\ \A m \in mpdus : m \in Mpdus /\ \E e \in C : e.id = m.id
  BY <1>2, <1>3, <1>6, <1>7, <1>8, NumberedIs
<1>11. /\ OriginatorOK(p, acked, base, more, next + k, nMpdus)
       /\ TransmitOK(o, acked, base) => TransmitOK(p, acked, base)
       /\ p.state = o.state /\ p.request = o.request /\ p.window = o.window
       /\ p.queue = Flying(o.queue, mpdus) /\ p.bar = o.bar /\ p.barIfData = o.barIfData
  <2>1. Established(o) => \A m \in mpdus : IsInWindow(m.seq, o.window.m_winStart)
    BY <1>2
  <2> QED
    BY <1>2, <1>3, <1>4, <1>6, <1>8, <2>1, SentOK
<1>12. /\ IdsOf(Flying(o.queue, mpdus)) = IdsOf(o.queue)
       /\ \A f \in Flying(o.queue, mpdus) : f.inFlight => f.id \in IdsOf(mpdus) \/ f \in o.queue
  <2> DEFINE q == o.queue
  <2>1. q \in SUBSET Elements /\ QueueOK(q, sent, next, nMpdus) /\ C \in SUBSET q
        /\ (\A e \in q : e.seq = NoSeq => e \in C) /\ mpdus \in Prefixes(Numbered(C, m_nextSeq))
    BY <1>2, <1>6
  <2> HIDE DEF q
  <2>2. LET r == Flying(q, mpdus)
        IN  /\ r \in SUBSET Elements /\ IdsOf(r) = IdsOf(q)
            /\ QueueOK(r, sent \cup mpdus, next + Cardinality(Fresh(C, mpdus)), nMpdus)
            /\ \A f \in r : f.inFlight => f.id \in IdsOf(mpdus) \/ f \in q
    BY <1>3, <1>8, <2>1, FlyingOK
  <2> QED
    BY <2>2 DEF q
<1>13. m_nextSeq' = SeqPlus(m_nextSeq, k) /\ m_nextSeq' \in SeqNos
  <2>1. m_nextSeq' = SeqPlus(m_nextSeq, k)
    BY <1>2 DEF Fresh
  <2> HIDE DEF k
  <2> QED
    BY <1>3, <1>10, <2>1, SeqPlusType
<1>14. more \in SUBSET Mpdus
  BY <1>3, <1>10
<1> HIDE DEF k, p
<1>15. /\ OriginatorOK(originator', acked, base, more, next + k, nMpdus)
       /\ SetUpOnce => TransmitOK(originator', acked, base)
       /\ originator'.state = o.state /\ originator'.request = o.request
       /\ originator'.window = o.window /\ Announces(originator', o)
       /\ originator'.queue = Flying(o.queue, mpdus)
  <2>1. CASE Kind(o, mpdus) = "NoResponse"
    <3>1. Established(p)
      BY <1>11, <2>1, KindIs DEF Established
    <3>2. originator' = ScheduleBar(p)
      BY <1>2, <2>1 DEF p
    <3> HIDE DEF more
    <3>3. After(ScheduleBar(p), p, acked, base, more, next + k, nMpdus)
      BY <1>3, <1>11, <3>1, ScheduleBarOK
    <3>4. /\ ScheduleBar(p).queue = p.queue /\ ScheduleBar(p).window = p.window
          /\ ScheduleBar(p).bar = NewBar
      <4>1. p \in Originators
        BY <1>11 DEF OriginatorOK
      <4> QED
        BY <4>1 DEF ScheduleBar, Originators
    <3> QED
      BY <1>4, <1>11, <3>2, <3>3, <3>4 DEF After, Announces
  <2>2. CASE Kind(o, mpdus) # "NoResponse"
    BY <1>2, <1>4, <1>11, <2>2 DEF p, Announces
  <2> QED
    BY <2>1, <2>2
<1>16. /\ psdu' \in Psdus /\ psdu'.kind = Kind(o, mpdus) /\ psdu'.mpdus = mpdus /\ psdu'.left = mpdus
       /\ ~psdu'.arrived
       /\ psdu'.kind \in {"Ampdu", "NoResponse", "Single"}
  <2>1. 0 \in SeqNos
    BY SpaceIs DEF SeqNos
  <2>2. Kind(o, mpdus) \in {"Ampdu", "NoResponse", "Single"} /\ mpdus \in SUBSET Mpdus
    BY <1>14, KindIs
  <2>3. Kind(o, mpdus) \in {"None", "Ampdu", "Bar", "Single", "NoResponse", "Request"}
    BY <2>2
  <2> QED
    BY <1>2, <2>1, <2>2, <2>3, PsduIs
<1>17. Established(originator') <=> Established(originator)
  BY <1>4, <1>15 DEF Established
<1>18. Position(m_nextSeq, base)' = next + k
  BY <1>9, <1>13
<1>19. UNCHANGED <<nMpdus, nRequests, recipient, response, acked, apart>> /\ (SetUpOnce' <=> SetUpOnce)
  BY <1>1 DEF SetUpOnce
<1>20. TypeOK'
  <2>1. originator' \in Originators
    BY <1>15 DEF OriginatorOK
  <2> QED
    BY <1>13, <1>16, <1>19, <2>1, SafeParts DEF TypeOK
<1>21. RecipientOK(recipient, base, more, next + k)
  <2>1. next + k \in Nat /\ next <= next + k /\ sent \subseteq more
    BY <1>3, <1>10
  <2> HIDE DEF more
  <2> QED
    BY <1>3, <2>1, RecipientMore
<1>22. ASSUME Established(originator), NEW m \in mpdus
       PROVE  /\ Position(originator'.window.m_winStart, base) <= Position(m.seq, base)
              /\ Position(m.seq, base) < Position(originator'.window.m_winStart, base) + BufferSize
  <2> DEFINE start == o.window.m_winStart
  <2>1. IsInWindow(m.seq, start) /\ m.seq \in SeqNos
    BY <1>2, <1>4, <1>10, <1>22 DEF Established, Mpdus
  <2>2. start \in SeqNos /\ Position(start, base) <= next
    BY <1>4, <1>22 DEF OriginatorOK, WindowBounded, Originators, Windows, Established
  <2>3. next <= MaxMpdus
    BY SafeParts DEF next
  <2>4. next + k <= MaxMpdus
    <3>1. next + k \in 0..nMpdus
      BY <1>9 DEF Numbering
    <3> QED
      BY <1>3, <1>10, <3>1, MpdusAssumption
  <2>5. Position(m.seq, base) < next + k
    BY <1>9 DEF Numbering
  <2>6. originator'.window.m_winStart = start
    BY <1>15
  <2> HIDE DEF start
  <2>7. Position(start, base) \in Nat /\ Position(m.seq, base) \in Nat
    BY <1>3, <2>1, <2>2, PositionType
  <2>8. Position(start, base) <= MaxMpdus /\ Position(m.seq, base) <= MaxMpdus
    BY <1>3, <1>10, <2>2, <2>3, <2>4, <2>5, <2>7, MpdusAssumption
  <2>9. /\ Position(start, base) <= Position(m.seq, base)
        /\ Position(m.seq, base) < Position(start, base) + BufferSize
    BY <1>3, <2>1, <2>2, <2>8, DistanceFromStart
  <2> QED
    BY <2>6, <2>9
<1>23. PsduOK(base, more, next)'
  <2>1. psdu'.mpdus \subseteq more /\ psdu'.left \subseteq psdu'.mpdus
    BY <1>16
  <2>2. psdu'.kind \notin {"None", "Bar", "Request"}
    BY <1>16
  <2> HIDE DEF more
  <2> QED
    BY <1>16, <1>17, <1>19, <1>22, <2>1, <2>2 DEF PsduOK
<1>24. OneByOne'
  <2> SUFFICES ASSUME ~Established(originator)
               PROVE  OneByOne'
    BY <1>17 DEF OneByOne
  <2>1. Cardinality(mpdus) = 1 /\ psdu'.kind = "Single"
    BY <1>2, <1>4, <1>16, KindIs DEF Established
  <2>2. \A x, y \in mpdus : x = y
    <3>1. mpdus \in SUBSET more
      OBVIOUS
    <3> HIDE DEF more
    <3> QED
      BY <1>9, <2>1, <3>1, OnlyOne
  <2>3. psdu.mpdus = {}
    BY <1>1, <1>3 DEF PsduOK
  <2>4. \A e \in originator.queue : ~e.inFlight
    BY <1>3, <2>3, NothingInFlight
  <2>5. C = o.queue /\ o.queue \subseteq originator.queue
    BY <1>4, <1>5, <2>4
  <2>6. \A e \in originator.queue : \A x \in acked \cup Arrivals(recipient) : x.id <= e.id
    BY <1>3 DEF OneByOne
  <2>7. \A f \in originator'.queue : f.inFlight => f.id \in IdsOf(mpdus)
    BY <1>12, <1>15, <2>4, <2>5
  <2>8. \A f \in originator'.queue : \E e \in o.queue : e.id = f.id
    <3>1. IdsOf(originator'.queue) = IdsOf(o.queue)
      BY <1>12, <1>15
    <3> QED
      BY <3>1 DEF IdsOf
  <2>9. \A e \in o.queue : \A x \in mpdus : x.id <= e.id
    <3> SUFFICES ASSUME NEW e \in o.queue, NEW x \in mpdus
                 PROVE  x.id <= e.id
      OBVIOUS
    <3>1. x.id \in Nat /\ e.id \in Nat
      BY <1>6, <1>10, MpdusAssumption DEF Elements, Mpdus, Ids
    <3>2. ~(e.id < x.id)
      <4> SUFFICES ASSUME e.id < x.id
                   PROVE  FALSE
        OBVIOUS
      <4>1. e.id \in IdsOf(mpdus)
        BY <1>10, <2>5
      <4>2. PICK y \in mpdus : e.id = y.id
        BY <4>1 DEF IdsOf
      <4>3. e.id = x.id
        BY <2>2, <4>2
      <4> QED
        BY <3>1, <4>3
    <3> QED
      BY <3>1, <3>2
  <2>10. \A f \in originator'.queue : \A x \in mpdus \cup acked \cup Arrivals(recipient) : x.id <= f.id
    <3> SUFFICES ASSUME NEW f \in originator'.queue, NEW x \in mpdus \cup acked \cup Arrivals(recipient)
                 PROVE  x.id <= f.id
      OBVIOUS
    <3>1. PICK e \in o.queue : e.id = f.id
      BY <2>8
    <3>2. x.id <= e.id
      BY <2>5, <2>6, <2>9
    <3> QED
      BY <3>1, <3>2
  <2>11. \A x \in Arrivals(recipient) : \A y \in mpdus : x.id <= y.id
    <3> SUFFICES ASSUME NEW x \in Arrivals(recipient), NEW y \in mpdus
                 PROVE  x.id <= y.id
      OBVIOUS
    <3>1. PICK e \in C : e.id = y.id
      BY <1>10
    <3> QED
      BY <2>5, <2>6, <3>1
  <2> QED
    BY <1>16, <1>19, <2>1, <2>2, <2>7, <2>10, <2>11 DEF OneByOne
<1>25. RequestOK(base, next)'
  <2>1. ~originator'.request.queued
    BY <1>1, <1>15 DEF o
  <2>2. RequestOK(base, next)
    BY <1>3
  <2> QED
    BY <1>17, <1>19, <2>1, <2>2 DEF RequestOK
<1> HIDE DEF more
<1>26. Safe(base, more)'
  <2> DEFINE later == next + k
  <2>1. Position(m_nextSeq, base)' = later
    BY <1>18
  <2>2. /\ Numbering(base, more, later, nMpdus')
        /\ OriginatorOK(originator', acked', base, more, later, nMpdus')
        /\ SetUpOnce' => TransmitOK(originator', acked', base)
        /\ RecipientOK(recipient', base, more, later)
    BY <1>9, <1>15, <1>19, <1>21
  <2>3. PsduOK(base, more, next)' /\ RequestOK(base, next)' /\ TypeOK' /\ OneByOne'
    BY <1>20, <1>23, <1>24, <1>25
  <2>4. next' = Position(m_nextSeq, base)'
    BY DEF next
  <2> HIDE DEF later
  <2> QED
    BY <2>1, <2>2, <2>3, <2>4 DEF Safe
<1>27. ASSUME NEW x \in mpdus
       PROVE  /\ x.id \in IdsOf(originator.queue)
              /\ x \in sent \/ next <= Position(x.seq, base)
  <2>1. PICK e \in C : e.id = x.id /\ (OldNumber(x, e, sent) \/ NewNumber(x, e, C, mpdus, base, sent, next))
    BY <1>2, <1>3, <1>6, <1>7, <1>8, NumberedIs
  <2>2. x.id \in IdsOf(originator.queue)
    BY <1>4, <1>6, <2>1 DEF IdsOf
  <2>3. Rank(C, e) \in Nat
    <3>1. C \in SUBSET Elements /\ \A d \in C : d.id < nMpdus
      BY <1>6, <1>7 DEF QueueOK
    <3>2. \A d, f \in C : d.id = f.id => d = f
      BY <1>7 DEF QueueOK
    <3> QED
      BY <1>3, <2>1, <3>1, <3>2, RankIs
  <2>4. NewNumber(x, e, C, mpdus, base, sent, next) => next <= Position(x.seq, base)
    <3> HIDE DEF next
    <3> QED
      BY <1>3, <2>3 DEF NewNumber
  <2> QED
    BY <2>1, <2>2, <2>4 DEF OldNumber
<1>28. Kind(o, mpdus) = "Single" => \A x, y \in mpdus : x = y
  <2>1. mpdus \in SUBSET more
    BY DEF more
  <2> QED
    BY <1>9, <2>1, SingleIs
<1>29. /\ originator'.state = originator.state /\ originator'.window = originator.window
       /\ IdsOf(originator'.queue) \subseteq IdsOf(originator.queue) /\ ~originator'.request.queued
       /\ Announces(originator', originator)
  <2>1. ~o.request.queued
    BY <1>1 DEF o
  <2>2. IdsOf(o.queue) \subseteq IdsOf(originator.queue)
    BY <1>4 DEF IdsOf
  <2>3. Announces(originator', originator)
    BY <1>4, <1>15 DEF Announces
  <2> QED
    BY <1>4, <1>12, <1>15, <2>1, <2>2, <2>3
<1>30. ~Established(originator) => mpdus # {}
  <2>1. ~Established(originator) => Cardinality(mpdus) = 1
    BY <1>2, <1>4 DEF Established
  <2> QED
    BY <2>1, FS_EmptySet
<1>31. DataLeave(base, sent, more)
  BY <1>16, <1>19, <1>22, <1>27, <1>28, <1>29, <1>30 DEF DataLeave, more, next
<1> QED
  BY <1>14, <1>26, <1>31

-----------------------------------------------------------------------------
(* The invariant.                                                           *)

\* Nothing has been numbered yet.
LEMMA InitSafe ==
  ASSUME Init
  PROVE  m_nextSeq \in SeqNos /\ Safe(m_nextSeq, {})
<1>1. /\ originator = NewOriginator /\ m_nextSeq \in SeqNos /\ recipient = NoAgreement
      /\ response = [queued |-> FALSE, lastRequest |-> 0] /\ psdu = NoPsdu /\ nMpdus = 0
      /\ nRequests = 0 /\ acked = {} /\ apart = FALSE
  BY BlockAckAssumption DEF Init
<1> DEFINE base == m_nextSeq
           none == {}
<1>2. Position(m_nextSeq, base) = 0 /\ base \in SeqNos
  BY <1>1, DistanceIs, SpaceIs DEF Position, SeqNos
<1>3. 0 \in SeqNos /\ 0 \in Slots /\ NewWindow(0) \in Windows /\ NewWindow(0).m_winStart = 0
  BY SpaceIs, SlotsIn, NewWindowType DEF SeqNos, NewWindow
<1>4. originator \in Originators
  <2> DEFINE w == NewWindow(0)
  <2>1. NoRequest \in Requests
    BY <1>3, MpdusAssumption DEF NoRequest, Requests
  <2>2. NoBar \in Bars
    BY DEF NoBar, Bars
  <2>3. w \in Windows /\ <<>> \in Seq(Mpdus) /\ 0 \in 0..MaxMpdus /\ "NONE" \in States
    BY <1>3, MpdusAssumption DEF States
  <2> HIDE DEF w
  <2> QED
    BY <1>1, <2>1, <2>2, <2>3 DEF NewOriginator, Originators, w
<1>5. /\ ~Established(originator) /\ originator.queue = {} /\ originator.outstanding = <<>>
      /\ originator.bar = NoBar /\ ~originator.barIfData /\ originator.notices = {}
      /\ ~originator.request.queued
  BY <1>1 DEF NewOriginator, Established, NoRequest
<1>6. /\ recipient \in Recipients /\ ~recipient.agreement /\ recipient.scoreboard = NewWindow(0)
      /\ recipient.m_winStartB = 0 /\ recipient.m_bufferedMpdus = {} /\ recipient.passed = <<>>
  <2> DEFINE w == NewWindow(0)
  <2>1. recipient = [agreement |-> FALSE, scoreboard |-> w, m_winStartB |-> 0,
                     m_bufferedMpdus |-> {}, passed |-> <<>>]
    BY <1>1 DEF NoAgreement
  <2>2. w \in Windows /\ <<>> \in Seq(Mpdus) /\ 0 \in 0..Uint16 - 1
    BY <1>3, SpaceIs
  <2> HIDE DEF w
  <2>3. /\ recipient \in Recipients /\ ~recipient.agreement /\ recipient.scoreboard = w
        /\ recipient.m_winStartB = 0 /\ recipient.m_bufferedMpdus = {} /\ recipient.passed = <<>>
    BY <2>1, <2>2 DEF Recipients
  <2> QED
    BY <2>3 DEF w
<1>7. psdu \in Psdus /\ psdu.kind = "None" /\ psdu.mpdus = {} /\ psdu.left = {}
  BY <1>1, NoPsduIs
<1>8. nMpdus \in 0..MaxMpdus /\ nRequests \in 0..MaxRequests /\ response \in Responses
      /\ ~response.queued /\ response.lastRequest = 0
  BY <1>1, MpdusAssumption, BlockAckAssumption DEF Responses
<1>9. TypeOK
  BY <1>1, <1>4, <1>6, <1>7, <1>8 DEF TypeOK
<1>10. Members(<<>>) = {}
  BY DEF Members
<1>11. Numbering(base, none, 0, nMpdus)
  BY <1>1, <1>2, <1>8 DEF Numbering
<1>12. OriginatorOK(originator, acked, base, none, 0, nMpdus)
  <2>1. QueueOK(originator.queue, none, 0, nMpdus)
    BY <1>5 DEF QueueOK
  <2>2. IdsOf(acked) = {}
    BY <1>1 DEF IdsOf
  <2> QED
    BY <1>1, <1>4, <1>5, <1>10, <2>1, <2>2 DEF OriginatorOK
<1>13. TransmitOK(originator, acked, base)
  BY <1>5 DEF TransmitOK
<1>14. Arrivals(recipient) = {}
  BY <1>6, <1>10 DEF Arrivals
<1>15. RecipientOK(recipient, base, none, 0)
  <2>1. Ascending(recipient.passed, base)
    BY <1>6 DEF Ascending
  <2> QED
    BY <1>3, <1>6, <1>14, <2>1 DEF RecipientOK
<1>16. PsduOK(base, none, 0)
  BY <1>5, <1>7 DEF PsduOK
<1>17. OneByOne
  BY <1>5, <1>7, <1>14 DEF OneByOne
<1>18. RequestOK(base, 0)
  BY <1>1, <1>5, <1>8 DEF RequestOK
<1> HIDE DEF base
<1>19. Safe(base, none)
  BY <1>2, <1>9, <1>11, <1>12, <1>13, <1>15, <1>16, <1>17, <1>18 DEF Safe
<1> QED
  BY <1>2, <1>19 DEF base

\* Every step keeps the invariant.
LEMMA NextSafe ==
  ASSUME FewPackets, IInv, [Next]_vars
  PROVE  IInv'
<1>1. PICK base \in SeqNos, sent \in SUBSET Mpdus : Safe(base, sent)
  BY DEF IInv
<1>2. SUFFICES \E more \in SUBSET Mpdus : Safe(base, more)'
  BY DEF IInv
<1>3. CASE UNCHANGED vars
  <2>1. Safe(base, sent)'
    BY <1>1, <1>3 DEF vars, Safe, TypeOK, PsduOK, OneByOne, RequestOK, SetUpOnce
  <2> QED
    BY <2>1
<1>4. CASE Enqueue
  BY <1>1, <1>4, EnqueueSafe
<1>5. CASE Lifetime
  BY <1>1, <1>5, LifetimeEndsMoves, RequestLifetimeEndsMoves, OriginatorStep DEF Lifetime
<1>6. CASE HasFramesToTransmit
  BY <1>1, <1>6, HasFramesToTransmitMoves, OriginatorStep
<1>7. CASE ExpiredTrace
  BY <1>1, <1>7, ExpiredTraceMoves, OriginatorStep
<1>8. CASE Timeout
  BY <1>1, <1>8, AddBaResponseTimeoutMoves, ResetBaMoves, OriginatorStep DEF Timeout
<1>9. CASE Send
  <2>1. \A fits \in Fits : fits \in BOOLEAN
    BY BlockAckAssumption
  <2> QED
    BY <1>1, <1>9, <2>1, SendBarSafe, SendRequestSafe, SendAddBaRequestSafe, SendDataSafe DEF Send
<1>10. CASE Resolve
  BY <1>1, <1>10, MpduEndsSafe, AmpduEndsSafe, BarEndsSafe, SingleEndsSafe, NoResponseEndsSafe,
     RequestEndsSafe DEF Resolve
<1>11. CASE Respond
  BY <1>1, <1>11, ResponseEndsSafe DEF Respond
<1> QED
  BY <1>3, <1>4, <1>5, <1>6, <1>7, <1>8, <1>9, <1>10, <1>11 DEF Next

\* The invariant holds in every state.
THEOREM BlockAckInvariant == ASSUME FewPackets PROVE Spec => []IInv
<1>1. Init => IInv
  <2>1. {} \in SUBSET Mpdus
    OBVIOUS
  <2> QED
    BY <2>1, InitSafe DEF IInv
<1>2. IInv /\ [Next]_vars => IInv'
  BY NextSafe
<1> QED
  BY <1>1, <1>2, PTL DEF Spec

-----------------------------------------------------------------------------
(* The theorems.                                                            *)

\* Every variable has its type: what the frames, the queues and the windows hold
\* is what the code's structures can hold.
THEOREM TypeCorrect == ASSUME FewPackets PROVE Spec => []TypeOK
<1>1. IInv => TypeOK
  BY DEF IInv, Safe
<1> QED
  BY <1>1, BlockAckInvariant, PTL

\* MacRxMiddle is handed the packets in the order in which they were enqueued,
\* and none twice: PassBufferedMpdusUntilFirstLost and
\* PassBufferedMpdusWithSeqNumberLessThan keep the order of m_bufferedMpdus,
\* whatever is lost, given up or set up again.
THEOREM HandedUpInOrder == ASSUME FewPackets PROVE Spec => []InOrder
<1>1. IInv => InOrder
  <2> SUFFICES ASSUME IInv
               PROVE  InOrder
    OBVIOUS
  <2>1. PICK base \in SeqNos, sent \in SUBSET Mpdus : Safe(base, sent)
    BY DEF IInv
  <2> DEFINE passed == recipient.passed
  <2>2. Numbering(base, sent, Position(m_nextSeq, base), nMpdus) /\ Members(passed) \subseteq sent
        /\ Ascending(passed, base)
    BY <2>1, SafeParts DEF RecipientOK, Arrivals
  <2> HIDE DEF passed
  <2>3. ASSUME NEW i \in DOMAIN passed, NEW j \in DOMAIN passed, i < j
        PROVE  passed[i].id < passed[j].id
    <3>1. passed[i] \in sent /\ passed[j] \in sent
      BY <2>2 DEF Members
    <3>2. Position(passed[i].seq, base) < Position(passed[j].seq, base)
      BY <2>2, <2>3 DEF Ascending
    <3> QED
      BY <2>2, <3>1, <3>2 DEF Numbering
  <2> QED
    BY <2>3 DEF InOrder, passed
<1> QED
  BY <1>1, BlockAckInvariant, PTL

\* The in flight queue of OriginatorBlockAckAgreement is sorted and within the
\* transmit window, as NotifyAckedMpdu and the removal of what is old rely on.
THEOREM InFlightInWindow == ASSUME FewPackets PROVE Spec => []OutstandingInWindow
<1>1. IInv => OutstandingInWindow
  <2> SUFFICES ASSUME IInv, SetUpOnce
               PROVE  OutstandingInWindow
    BY DEF OutstandingInWindow
  <2>1. PICK base \in SeqNos, sent \in SUBSET Mpdus : Safe(base, sent)
    BY DEF IInv
  <2> DEFINE next == Position(m_nextSeq, base)
             list == originator.outstanding
             start == originator.window.m_winStart
             dist(i) == Distance(list[i].seq, start)
  <2>2. /\ OriginatorOK(originator, acked, base, sent, next, nMpdus)
        /\ TransmitOK(originator, acked, base) /\ next \in Nat /\ next <= MaxMpdus
        /\ Numbering(base, sent, next, nMpdus)
    BY <2>1, SafeParts
  <2>3. CASE ~Established(originator)
    <3>1. DOMAIN list = {}
      BY <2>2, <2>3 DEF OriginatorOK
    <3> QED
      BY <3>1 DEF OutstandingInWindow
  <2>4. CASE Established(originator)
    <3>1. /\ Ascending(list, base) /\ Within(list, originator.window, base)
          /\ Members(list) \subseteq sent
          /\ start \in SeqNos /\ Position(start, base) <= next
      BY <2>2, <2>4 DEF TransmitOK, OriginatorOK, WindowBounded, Originators, Windows
    <3>2. Position(start, base) \in Nat
      BY <3>1, PositionType
    <3> HIDE DEF list, next
    <3>3. ASSUME NEW i \in DOMAIN list
          PROVE  /\ list[i].seq \in SeqNos /\ Position(list[i].seq, base) \in Nat
                 /\ Position(list[i].seq, base) <= MaxMpdus
                 /\ Position(start, base) <= Position(list[i].seq, base)
                 /\ Position(list[i].seq, base) < Position(start, base) + BufferSize
      <4>1. list[i] \in sent
        BY <3>1 DEF Members
      <4>2. /\ list[i].seq \in SeqNos /\ Position(list[i].seq, base) \in Nat
            /\ Position(list[i].seq, base) < next
        BY <2>2, <4>1, SentIs
      <4> QED
        BY <2>2, <3>1, <4>2, MpdusAssumption DEF Within
    <3> HIDE DEF start
    <3>4. Position(start, base) <= MaxMpdus
      BY <2>2, <3>1, <3>2, MpdusAssumption
    <3>5. \A i \in DOMAIN list : dist(i) = Position(list[i].seq, base) - Position(start, base)
      BY <3>1, <3>3, <3>4, DistanceFromStart
    <3>6. \A i \in DOMAIN list : dist(i) < BufferSize
      BY <3>2, <3>3, <3>5, SlotsIn
    <3>7. \A i, j \in DOMAIN list : i < j => dist(i) < dist(j)
      <4> SUFFICES ASSUME NEW i \in DOMAIN list, NEW j \in DOMAIN list, i < j
                   PROVE  dist(i) < dist(j)
        OBVIOUS
      <4>1. Position(list[i].seq, base) < Position(list[j].seq, base)
        BY <3>1 DEF Ascending
      <4> HIDE DEF dist
      <4> QED
        BY <3>2, <3>3, <3>5, <4>1
    <3> QED
      BY <3>6, <3>7 DEF OutstandingInWindow, dist, list, start
  <2> QED
    BY <2>3, <2>4
<1> QED
  BY <1>1, BlockAckInvariant, PTL

\* A number is marked when the bit at its position is set.
LEMMA MarkedIs ==
  ASSUME FewPackets, NEW base \in SeqNos, NEW w \in Windows, NEW next \in Nat, next <= MaxMpdus,
         Position(w.m_winStart, base) <= next, NEW s \in SeqNos
  PROVE  s \in Marked(w) <=>
            \E d \in Slots : At(w, d) /\ Position(s, base) = Position(w.m_winStart, base) + d
<1> DEFINE start == w.m_winStart
           pos == Position(start, base)
<1>1. start \in SeqNos
  BY DEF Windows
<1>2. pos \in Nat /\ pos <= next
  BY <1>1, PositionType
<1> HIDE DEF start
<1>3. \A d \in Slots : Position(SeqPlus(start, d), base) = pos + d /\ SeqPlus(start, d) \in SeqNos
  <2> SUFFICES ASSUME NEW d \in Slots
               PROVE  Position(SeqPlus(start, d), base) = pos + d /\ SeqPlus(start, d) \in SeqNos
    OBVIOUS
  <2>1. d \in Nat /\ d < BufferSize
    BY SlotsIn
  <2>2. pos + d < SeqSpace
    <3> HIDE DEF pos
    <3> QED
      BY <1>2, <2>1, FewPacketsIs
  <2> QED
    BY <1>1, <2>1, <2>2, PositionPlus, SeqPlusType
<1>4. s \in Marked(w) <=> \E d \in Slots : At(w, d) /\ s = SeqPlus(start, d)
  BY DEF Marked, start
<1>5. \A d \in Slots : s = SeqPlus(start, d) <=> Position(s, base) = pos + d
  BY <1>3, PositionInjective
<1> QED
  BY <1>4, <1>5 DEF start

\* The bits of OriginatorBlockAckAgreement's window are the acknowledged MPDUs it
\* covers, and AdvanceTxWindow leaves none at its start.
THEOREM WindowIsAcked == ASSUME FewPackets PROVE Spec => []WindowMarksAcked
<1>1. IInv => WindowMarksAcked
  <2> SUFFICES ASSUME IInv, SetUpOnce, Established(originator)
               PROVE  WindowMarksAcked
    BY DEF WindowMarksAcked
  <2>1. PICK base \in SeqNos, sent \in SUBSET Mpdus : Safe(base, sent)
    BY DEF IInv
  <2> DEFINE next == Position(m_nextSeq, base)
             w == originator.window
             start == Position(w.m_winStart, base)
             recent == {a \in acked : ~IsOld(a.seq, w.m_winStart)}
  <2>2. /\ OriginatorOK(originator, acked, base, sent, next, nMpdus)
        /\ TransmitOK(originator, acked, base) /\ next \in Nat /\ next <= MaxMpdus
        /\ Numbering(base, sent, next, nMpdus) /\ acked \subseteq sent
    BY <2>1, SafeParts
  <2>3. /\ WindowExact(w, acked, base) /\ w \in Windows /\ w.m_winStart \in SeqNos
        /\ start <= next
    BY <2>2 DEF TransmitOK, OriginatorOK, WindowBounded, Originators, Windows
  <2>4. start \in Nat
    BY <2>3, PositionType
  <2> HIDE DEF next, w
  <2>5. \A m \in acked : /\ m.seq \in SeqNos /\ Position(m.seq, base) \in Nat
                         /\ Position(m.seq, base) < next
    BY <2>2, SentIs
  <2>6. \A m \in acked : ~IsOld(m.seq, w.m_winStart) <=> start <= Position(m.seq, base)
    <3> SUFFICES ASSUME NEW m \in acked
                 PROVE  ~IsOld(m.seq, w.m_winStart) <=> start <= Position(m.seq, base)
      OBVIOUS
    <3> DEFINE pos == Position(m.seq, base)
    <3>1. pos \in Nat /\ pos < next /\ m.seq \in SeqNos
      BY <2>5
    <3> HIDE DEF pos, start
    <3>2. pos <= MaxMpdus /\ start <= MaxMpdus
      BY <2>2, <2>3, <2>4, <3>1, MpdusAssumption
    <3>3. IsOld(m.seq, w.m_winStart) <=> pos < start
      BY <2>3, <3>1, <3>2, DistancePosition DEF pos, start
    <3> QED
      BY <2>4, <3>1, <3>3 DEF pos
  <2>7. ASSUME NEW s \in SeqNos
        PROVE  s \in Marked(w) <=> \E m \in recent : s = m.seq
    <3>1. s \in Marked(w) <=> \E d \in Slots : At(w, d) /\ Position(s, base) = start + d
      BY <2>2, <2>3, MarkedIs
    <3>2. \A d \in Slots : At(w, d) <=> \E m \in acked : Position(m.seq, base) = start + d
      BY <2>3 DEF WindowExact
    <3>3. \A m \in acked : start <= Position(m.seq, base) =>
              \E d \in Slots : Position(m.seq, base) = start + d
      <4> SUFFICES ASSUME NEW m \in acked, start <= Position(m.seq, base)
                   PROVE  \E d \in Slots : Position(m.seq, base) = start + d
        OBVIOUS
      <4> DEFINE pos == Position(m.seq, base)
      <4>1. pos < start + BufferSize /\ pos \in Nat
        BY <2>3, <2>5 DEF WindowExact
      <4> HIDE DEF pos, start
      <4>2. pos - start \in Slots /\ pos = start + (pos - start)
        BY <2>4, <4>1, SlotsIn DEF Slots, pos
      <4> QED
        BY <4>2 DEF pos
    <3>4. \A m \in acked : Position(s, base) = Position(m.seq, base) <=> s = m.seq
      BY <2>5, PositionInjective
    <3>5. \A d \in Slots : start <= start + d
      BY <2>4, SlotsIn
    <3>6. ASSUME s \in Marked(w)
          PROVE  \E m \in recent : s = m.seq
      <4>1. PICK d \in Slots : At(w, d) /\ Position(s, base) = start + d
        BY <3>1, <3>6
      <4>2. PICK m \in acked : Position(m.seq, base) = start + d
        BY <3>2, <4>1
      <4>3. m \in recent
        BY <2>6, <3>5, <4>2
      <4> QED
        BY <3>4, <4>1, <4>2, <4>3
    <3>7. ASSUME NEW m \in recent, s = m.seq
          PROVE  s \in Marked(w)
      <4>1. m \in acked /\ start <= Position(m.seq, base)
        BY <2>6
      <4>2. PICK d \in Slots : Position(m.seq, base) = start + d
        BY <3>3, <4>1
      <4> QED
        BY <3>1, <3>2, <3>7, <4>1, <4>2
    <3> QED
      BY <3>6, <3>7
  <2>8. Marked(w) \subseteq SeqNos
    <3>1. \A d \in Slots : SeqPlus(w.m_winStart, d) \in SeqNos
      BY <2>3, SeqPlusType, SlotsIn
    <3> QED
      BY <3>1 DEF Marked
  <2>9. Marked(w) = {m.seq : m \in recent}
    BY <2>5, <2>7, <2>8
  <2>10. ~At(w, 0)
    BY <2>3 DEF WindowExact
  <2> QED
    BY <2>9, <2>10 DEF WindowMarksAcked, w
<1> QED
  BY <1>1, BlockAckInvariant, PTL

\* RecipientBlockAckAgreement's scoreboard and buffer agree: all that was passed up or
\* over within the window of the scoreboard is acknowledged, and what is buffered is
\* within reach and acknowledged.
THEOREM ScoreboardAndBuffer == ASSUME FewPackets PROVE Spec => []ScoreboardAgrees
<1>1. IInv => ScoreboardAgrees
  <2> SUFFICES ASSUME IInv, WinStartBInSpace
               PROVE  ScoreboardAgrees
    BY DEF ScoreboardAgrees
  <2>1. PICK base \in SeqNos, sent \in SUBSET Mpdus : Safe(base, sent)
    BY DEF IInv
  <2> DEFINE next == Position(m_nextSeq, base)
             r == recipient
             w == r.scoreboard
             start == Position(w.m_winStart, base)
             startB == Position(r.m_winStartB, base)
             ahead == Distance(WinStartB, w.m_winStart)
  <2>2. /\ RecipientOK(r, base, sent, next) /\ next \in Nat /\ next <= MaxMpdus
        /\ Numbering(base, sent, next, nMpdus) /\ r \in Recipients
    BY <2>1, SafeParts
  <2>3. w \in Windows /\ w.m_winStart \in SeqNos /\ r.m_winStartB \in SeqNos
    BY <2>2 DEF Recipients, Windows, WinStartBInSpace, WinStartB
  <2>4. start \in Nat /\ startB \in Nat
    BY <2>3, PositionType
  <2>5. CASE ~r.agreement
    <3>1. r.m_bufferedMpdus = {} /\ w.m_winStart = 0 /\ WinStartB = 0
      BY <2>2, <2>5 DEF RecipientOK, NewWindow, WinStartB
    <3>2. ahead = 0
      BY <2>3, <3>1, DistanceIs
    <3>3. ahead <= BufferSize /\ \A d \in 0..ahead - 1 : At(w, d)
      <4> HIDE DEF ahead, w
      <4> QED
        BY <3>2, SlotsIn
    <3> QED
      BY <3>1, <3>3 DEF ScoreboardAgrees
  <2>6. CASE r.agreement
    <3>1. /\ start <= startB /\ startB <= start + BufferSize /\ startB <= next
          /\ \A d \in 0..startB - start - 1 : At(w, d)
          /\ \A m \in r.m_bufferedMpdus :
                /\ startB < Position(m.seq, base)
                /\ Position(m.seq, base) < startB + BufferSize
                /\ Position(m.seq, base) < start + BufferSize
                /\ At(w, Position(m.seq, base) - start)
          /\ r.m_bufferedMpdus \subseteq sent
      BY <2>2, <2>3, <2>6 DEF RecipientOK, Arrivals
    <3> HIDE DEF next, r, start, startB
    <3>2. startB <= MaxMpdus /\ start <= MaxMpdus /\ start <= next
      BY <2>2, <2>4, <3>1, MpdusAssumption
    <3>3. ahead = startB - start
      BY <2>3, <3>1, <3>2, DistanceFromStart DEF start, startB, WinStartB, r
    <3>4. ahead <= BufferSize /\ \A d \in 0..ahead - 1 : At(w, d)
      <4> HIDE DEF ahead, w
      <4> QED
        BY <2>4, <3>1, <3>3, SlotsIn
    <3>5. ASSUME NEW m \in r.m_bufferedMpdus
          PROVE  Distance(m.seq, WinStartB) \in 1..BufferSize - 1 /\ IsPacketReceived(r, m.seq)
      <4> DEFINE pos == Position(m.seq, base)
      <4>1. m \in sent /\ m.seq \in SeqNos /\ pos \in Nat /\ pos < next
        BY <2>2, <3>1, SentIs
      <4>2. startB < pos /\ pos < startB + BufferSize /\ pos < start + BufferSize /\ At(w, pos - start)
        BY <3>1
      <4> HIDE DEF pos, w
      <4>3. pos <= MaxMpdus /\ startB <= pos
        BY <2>2, <2>4, <4>1, <4>2, MpdusAssumption
      <4>4. Distance(m.seq, r.m_winStartB) = pos - startB
        BY <2>3, <3>2, <4>1, <4>3, DistanceFromStart DEF pos, startB
      <4>5. pos - startB \in 1..BufferSize - 1 /\ pos - start \in Slots /\ pos = start + (pos - start)
        BY <2>4, <3>1, <4>1, <4>2, SlotsIn DEF Slots
      <4>6. m.seq \in Marked(w)
        <5>1. At(w, pos - start) /\ Position(m.seq, base) = start + (pos - start)
          BY <4>2, <4>5 DEF pos
        <5> QED
          BY <2>2, <2>3, <3>2, <4>1, <4>5, <5>1, MarkedIs DEF start
      <4> QED
        BY <4>4, <4>5, <4>6 DEF IsPacketReceived, WinStartB, r, w
    <3> QED
      BY <3>4, <3>5 DEF ScoreboardAgrees, r
  <2> QED
    BY <2>5, <2>6
<1> QED
  BY <1>1, BlockAckInvariant, PTL

-----------------------------------------------------------------------------
(* What is acknowledged arrives: an invariant that rests on the first one.  *)

\* Each number the scoreboard marks is that of an MPDU that arrived.
Marks(r, base) ==
    r.agreement /\ r.m_winStartB \in SeqNos =>
        \A p \in Nat : Has(r.scoreboard, base, p) => \E x \in Arrivals(r) : Position(x.seq, base) = p

\* Without an agreement only the first packet of the queue has been numbered, and
\* the agreement that is requested does not start beyond it.
FirstNumbered(base, sent) ==
    ~Established(originator) =>
        \A e \in originator.queue, x \in sent :
            /\ x.id <= e.id
            /\ x.id = e.id =>
                  /\ psdu.mpdus = {} => e.retry
                  /\ psdu.mpdus # {} => x \in psdu.mpdus
                  /\ originator.request.queued =>
                        Position(originator.request.ssn, base) <= Position(x.seq, base)

\* No frame moves the window of the recipient beyond that of the originator.
Paced(base) ==
    /\ psdu.kind = "Single" => \A x, y \in psdu.mpdus : x = y
    /\ SetUpOnce /\ Established(originator) =>
          /\ \A m \in psdu.mpdus :
                Position(m.seq, base) < Position(originator.window.m_winStart, base) + BufferSize
          /\ psdu.kind = "Bar" =>
                Position(psdu.ssn, base) <= Position(originator.window.m_winStart, base)

\* The MPDUs that may still arrive, or still be acknowledged.
Unsettled(base, sent) ==
    {x \in sent :
        \/ /\ Established(originator)
           /\ Position(originator.window.m_winStart, base) <= Position(x.seq, base)
        \/ ~Established(originator) /\ x.id \in IdsOf(originator.queue)
        \/ psdu.kind = "Single" /\ x \in psdu.left}

\* The recipient's window has passed none of them that did not arrive.
Delivered(base, sent) ==
    SetUpOnce /\ recipient.m_winStartB \in SeqNos =>
        /\ acked \subseteq Arrivals(recipient)
        /\ psdu.kind = "Single" /\ psdu.arrived => psdu.mpdus \subseteq Arrivals(recipient)
        /\ recipient.agreement =>
              \A x \in Unsettled(base, sent) :
                  Position(x.seq, base) < Position(recipient.scoreboard.m_winStart, base) =>
                      x \in Arrivals(recipient)

\* There is no agreement before the first request.
RequestedFirst == SetUpOnce /\ response.lastRequest = 0 => ~recipient.agreement

Sure(base, sent) ==
    /\ Marks(recipient, base) /\ FirstNumbered(base, sent) /\ Paced(base)
    /\ RequestedFirst /\ Delivered(base, sent)

ArrivalInv == \E base \in SeqNos, sent \in SUBSET Mpdus : Safe(base, sent) /\ Sure(base, sent)

\* What a later step needs to know of positions.
LEMMA PositionsAre ==
  ASSUME NEW base, NEW sent, Safe(base, sent)
  PROVE  /\ \A x \in sent : Position(x.seq, base) \in Nat /\ x.id \in Nat
         /\ Position(originator.window.m_winStart, base) \in Nat
         /\ Position(recipient.scoreboard.m_winStart, base) \in Nat
         /\ \A ssn \in SeqNos : Position(ssn, base) \in Nat
         /\ BufferSize \in Nat \ {0}
<1>1. /\ originator \in Originators /\ recipient \in Recipients /\ base \in SeqNos
      /\ Numbering(base, sent, Position(m_nextSeq, base), nMpdus)
  BY SafeParts
<1>2. originator.window.m_winStart \in SeqNos /\ recipient.scoreboard.m_winStart \in SeqNos
  BY <1>1 DEF Originators, Recipients, Windows
<1> QED
  BY <1>1, <1>2, PositionType, SentIs, SlotsIn

\* The originator alone does something.
LEMMA OriginatorMovesSure ==
  ASSUME NEW base, NEW sent, Safe(base, sent), Sure(base, sent), OriginatorMoves(base, sent)
  PROVE  Sure(base, sent)'
<1>1. /\ UNCHANGED <<psdu, m_nextSeq, nMpdus, nRequests, recipient, response, acked, apart>>
      /\ Follows(originator', originator, acked, base, sent, Position(m_nextSeq, base), nMpdus)
  BY DEF OriginatorMoves
<1>2. SetUpOnce' <=> SetUpOnce
  BY <1>1 DEF SetUpOnce
<1>3. /\ Established(originator') <=> Established(originator)
      /\ IdsOf(originator'.queue) \subseteq IdsOf(originator.queue)
      /\ ~Established(originator) => originator'.queue \subseteq originator.queue
      /\ originator'.request.queued =>
            originator.request.queued /\ originator'.request.ssn = originator.request.ssn
      /\ Established(originator) => Position(originator.window.m_winStart, base)
                                    <= Position(originator'.window.m_winStart, base)
  BY <1>1 DEF Follows
<1>4. /\ Position(originator.window.m_winStart, base) \in Nat
      /\ Position(originator'.window.m_winStart, base) \in Nat
      /\ \A x \in sent : Position(x.seq, base) \in Nat /\ BufferSize \in Nat
      /\ \A ssn \in SeqNos : Position(ssn, base) \in Nat
  <2>1. originator' \in Originators
    BY <1>1 DEF Follows, OriginatorOK
  <2>2. originator'.window.m_winStart \in SeqNos
    BY <2>1 DEF Originators, Windows
  <2> QED
    BY <2>2, PositionsAre
<1>5. FirstNumbered(base, sent)'
  <2>1. FirstNumbered(base, sent)
    BY DEF Sure
  <2> QED
    BY <1>1, <1>3, <2>1 DEF FirstNumbered
<1>6. Paced(base)'
  <2>1. Paced(base) /\ psdu.mpdus \subseteq sent /\ psdu.ssn \in SeqNos
    BY SafeParts DEF Sure, Psdus
  <2> DEFINE start == Position(originator.window.m_winStart, base)
             later == Position(originator'.window.m_winStart, base)
  <2>2. Established(originator) => start \in Nat /\ later \in Nat /\ start <= later
    BY <1>3, <1>4
  <2> HIDE DEF start, later
  <2>3. ASSUME Established(originator), NEW m \in psdu.mpdus, Position(m.seq, base) < start + BufferSize
        PROVE  Position(m.seq, base) < later + BufferSize
    BY <1>4, <2>1, <2>2, <2>3
  <2>4. ASSUME Established(originator), Position(psdu.ssn, base) <= start
        PROVE  Position(psdu.ssn, base) <= later
    BY <1>4, <2>1, <2>2, <2>4
  <2> QED
    BY <1>1, <1>2, <1>3, <2>1, <2>3, <2>4 DEF Paced, start, later
<1>7. Unsettled(base, sent)' \subseteq Unsettled(base, sent)
  <2> SUFFICES ASSUME NEW x \in sent, Established(originator),
                      Position(originator'.window.m_winStart, base) <= Position(x.seq, base)
               PROVE  Position(originator.window.m_winStart, base) <= Position(x.seq, base)
    BY <1>1, <1>3 DEF Unsettled
  <2> QED
    BY <1>3, <1>4
<1>8. Delivered(base, sent)'
  <2>1. Delivered(base, sent)
    BY DEF Sure
  <2> QED
    BY <1>1, <1>2, <1>7, <2>1 DEF Delivered
<1> QED
  BY <1>1, <1>2, <1>5, <1>6, <1>8 DEF Sure, Marks, RequestedFirst

\* A packet is enqueued; its number is still to come.
LEMMA EnqueueSure ==
  ASSUME NEW base, NEW sent, Safe(base, sent), Sure(base, sent), Enqueue
  PROVE  Sure(base, sent)'
<1> DEFINE o == WipeAllExpiredMpdus(originator)
           e == [id |-> nMpdus, seq |-> NoSeq, retry |-> FALSE, inFlight |-> FALSE]
           p == [o EXCEPT !.queue = @ \cup {e}]
<1>1. /\ originator' = p
      /\ UNCHANGED <<psdu, m_nextSeq, nRequests, recipient, response, acked, apart>>
  BY DEF Enqueue
<1>2. /\ originator \in Originators /\ base \in SeqNos /\ sent \subseteq Mpdus
      /\ OriginatorOK(originator, acked, base, sent, Position(m_nextSeq, base), nMpdus)
      /\ Numbering(base, sent, Position(m_nextSeq, base), nMpdus) /\ nMpdus \in 0..MaxMpdus
  BY SafeParts
<1>3. \A x \in sent : x.id \in Nat /\ x.id < nMpdus /\ x.id <= nMpdus /\ x.id # nMpdus
  <2>1. \A x \in sent : x.id \in Nat /\ x.id < nMpdus
    BY <1>2, SentIs DEF Numbering
  <2> QED
    BY <1>2, <2>1
<1>4. e.id = nMpdus
  OBVIOUS
<1> HIDE DEF o, e
<1>5. Peek(o, originator, acked, base, sent, Position(m_nextSeq, base), nMpdus)
  BY <1>2, WipeOK DEF o
<1>6. /\ o \in Originators /\ o.state = originator.state /\ o.window = originator.window
      /\ o.queue \subseteq originator.queue /\ (o.request.queued => o.request = originator.request)
  <2>1. ~NoRequest.queued
    BY DEF NoRequest
  <2> QED
    BY <1>5, <2>1 DEF Peek, OriginatorOK
<1>7. /\ p.state = o.state /\ p.window = o.window /\ p.request = o.request
      /\ p.queue = o.queue \cup {e}
  BY <1>6 DEF Originators
<1> HIDE DEF p
<1>8. SetUpOnce' <=> SetUpOnce
  BY <1>1 DEF SetUpOnce
<1>9. /\ Established(originator') <=> Established(originator)
      /\ originator'.window = originator.window
      /\ originator'.request.queued => originator'.request = originator.request
      /\ originator'.queue \subseteq originator.queue \cup {e}
  BY <1>1, <1>6, <1>7 DEF Established
<1>10. FirstNumbered(base, sent)'
  <2>1. FirstNumbered(base, sent)
    BY DEF Sure
  <2> QED
    BY <1>1, <1>3, <1>4, <1>9, <2>1 DEF FirstNumbered
<1>11. Unsettled(base, sent)' \subseteq Unsettled(base, sent)
  <2>1. \A x \in sent : x.id \in IdsOf(originator'.queue) => x.id \in IdsOf(originator.queue)
    BY <1>3, <1>4, <1>9 DEF IdsOf
  <2> QED
    BY <1>1, <1>9, <2>1 DEF Unsettled
<1>12. Delivered(base, sent)'
  <2>1. Delivered(base, sent)
    BY DEF Sure
  <2> QED
    BY <1>1, <1>8, <1>11, <2>1 DEF Delivered
<1>13. Paced(base)'
  BY <1>1, <1>8, <1>9 DEF Sure, Paced
<1> QED
  BY <1>1, <1>8, <1>10, <1>12, <1>13 DEF Sure, Marks, RequestedFirst

\* An agreement that is requested, or starts, does so with the packet that was numbered.
LEMMA StartsWithNumbered ==
  ASSUME NEW base, NEW sent, Safe(base, sent), FirstNumbered(base, sent), ~Established(originator),
         psdu.mpdus = {}, NEW C \in SUBSET originator.queue, NEW x \in sent
  PROVE  LET ssn == StartingSequence(C, m_nextSeq)
         IN  /\ x.id \in IdsOf(C) => ssn = x.seq
             /\ Position(ssn, base) <= Position(x.seq, base) => x.id \in IdsOf(originator.queue)
<1> DEFINE next == Position(m_nextSeq, base)
           ssn == StartingSequence(C, m_nextSeq)
           e == First(C)
<1>1. /\ originator \in Originators /\ base \in SeqNos /\ next \in Nat
      /\ OriginatorOK(originator, acked, base, sent, next, nMpdus)
      /\ Numbering(base, sent, next, nMpdus)
  BY SafeParts
<1> HIDE DEF next
<1>2. /\ QueueOK(originator.queue, sent, next, nMpdus)
      /\ \A f \in originator.queue : f.id \in Nat
  BY <1>1, MpdusAssumption DEF OriginatorOK, Originators, Elements, Ids
<1>3. C # {} => e \in C /\ \A f \in C : e.id <= f.id
  <2>1. \A f \in C : f.id \in Nat
    BY <1>2
  <2> QED
    BY <2>1, FirstIs
<1>4. ssn = IF C # {} /\ e.retry THEN e.seq ELSE m_nextSeq
  BY DEF StartingSequence
<1> HIDE DEF e, ssn
<1>5. x.id \in Nat /\ Position(x.seq, base) \in Nat /\ Position(x.seq, base) < next
  BY <1>1, SentIs
<1>6. ASSUME C # {}, e.retry
      PROVE  LET m == Mpdu(e.id, e.seq)
             IN  m \in sent /\ m.id = e.id /\ m.seq = e.seq
  BY <1>2, <1>3, <1>6 DEF QueueOK, Mpdu
<1>7. ASSUME NEW f \in C, x.id = f.id
      PROVE  ssn = x.seq
  <2>1. C # {} /\ e \in C /\ e.id <= f.id /\ x.id <= e.id
    BY <1>3, <1>7 DEF FirstNumbered
  <2>2. e.id = x.id
    BY <1>2, <1>5, <1>7, <2>1
  <2>3. e.retry
    BY <2>1, <2>2 DEF FirstNumbered
  <2> DEFINE m == Mpdu(e.id, e.seq)
  <2>4. m \in sent /\ m.id = e.id /\ m.seq = e.seq
    BY <1>6, <2>1, <2>3
  <2> HIDE DEF m
  <2>5. m = x
    BY <1>1, <2>2, <2>4, SentOnce
  <2> QED
    BY <1>4, <2>1, <2>3, <2>4, <2>5
<1>8. ASSUME Position(ssn, base) <= Position(x.seq, base)
      PROVE  x.id \in IdsOf(originator.queue)
  <2>1. ssn # m_nextSeq
    BY <1>1, <1>5, <1>8 DEF next
  <2>2. C # {} /\ e.retry /\ ssn = e.seq /\ e \in originator.queue
    BY <1>3, <1>4, <2>1
  <2> DEFINE m == Mpdu(e.id, e.seq)
  <2>3. m \in sent /\ m.id = e.id /\ m.seq = e.seq
    BY <1>6, <2>2
  <2> HIDE DEF m
  <2>4. ~(Position(x.seq, base) < Position(m.seq, base)) /\ m.id \in Nat
    BY <1>1, <1>5, <1>8, <2>2, <2>3, SentIs
  <2>5. ~(x.id < m.id)
    BY <1>1, <2>3, <2>4 DEF Numbering
  <2>6. x.id <= e.id
    BY <2>2 DEF FirstNumbered
  <2>7. x.id = e.id
    BY <1>5, <2>3, <2>4, <2>5, <2>6
  <2> QED
    BY <2>2, <2>7 DEF IdsOf
<1> QED
  BY <1>7, <1>8 DEF IdsOf, ssn

\* An exchange without data starts.
LEMMA ExchangeStartsSure ==
  ASSUME NEW base, NEW sent, Safe(base, sent), Sure(base, sent), psdu.kind = "None",
         UNCHANGED <<recipient, response, acked>>, nRequests <= nRequests', nRequests' \in Nat,
         psdu'.mpdus = {}, psdu'.left = {}, psdu'.kind \in {"None", "Bar", "Request"},
         Established(originator') <=> Established(originator),
         originator'.queue \subseteq originator.queue,
         Established(originator) =>
            /\ originator'.window = originator.window
            /\ psdu'.kind = "Bar" => psdu'.ssn = originator.window.m_winStart,
         ~Established(originator) /\ originator'.request.queued =>
            \A e \in originator'.queue, x \in sent :
               x.id = e.id => Position(originator'.request.ssn, base) <= Position(x.seq, base)
  PROVE  Sure(base, sent)'
<1>1. UNCHANGED <<recipient, response, acked>>
  OBVIOUS
<1>2. psdu.mpdus = {} /\ nRequests \in Nat
  BY SafeParts DEF PsduOK
<1>3. SetUpOnce' => SetUpOnce
  BY <1>2 DEF SetUpOnce
<1>4. FirstNumbered(base, sent)'
  BY <1>2 DEF Sure, FirstNumbered
<1>5. Paced(base)'
  <2>1. Position(originator.window.m_winStart, base) <= Position(originator.window.m_winStart, base)
    BY PositionsAre
  <2> QED
    BY <2>1 DEF Paced
<1>6. Unsettled(base, sent)' \subseteq Unsettled(base, sent)
  BY DEF Unsettled, IdsOf
<1>7. Delivered(base, sent)'
  <2>1. Delivered(base, sent)
    BY DEF Sure
  <2> QED
    BY <1>1, <1>3, <1>6, <2>1 DEF Delivered
<1> QED
  BY <1>1, <1>3, <1>4, <1>5, <1>7 DEF Sure, Marks, RequestedFirst

\* A BlockAckReq says where the transmit window starts.
LEMMA SendBarSure ==
  ASSUME NEW base, NEW sent, Safe(base, sent), Sure(base, sent), SendBar
  PROVE  Sure(base, sent)'
<1> DEFINE o == GetBar(originator)
           p == [o EXCEPT !.bar.sent = TRUE]
<1>1. /\ psdu.kind = "None" /\ originator' = p /\ psdu' = Psdu("Bar", {}, o.window.m_winStart)
      /\ UNCHANGED <<m_nextSeq, nMpdus, nRequests, recipient, response, acked, apart>>
  BY DEF SendBar, MayStart
<1>2. /\ base \in SeqNos /\ sent \in SUBSET Mpdus /\ originator \in Originators
      /\ OriginatorOK(originator, acked, base, sent, Position(m_nextSeq, base), nMpdus)
      /\ nRequests \in 0..MaxRequests /\ psdu \in Psdus /\ PsduOK(base, sent, Position(m_nextSeq, base))
  BY SafeParts
<1>3. Peek(o, originator, acked, base, sent, Position(m_nextSeq, base), nMpdus)
  BY <1>2, GetBarOK
<1> HIDE DEF o
<1>4. /\ o \in Originators /\ o.state = originator.state /\ o.window = originator.window
      /\ o.queue \subseteq originator.queue /\ (o.request.queued => o.request = originator.request)
  <2>1. ~NoRequest.queued
    BY DEF NoRequest
  <2> QED
    BY <1>3, <2>1 DEF Peek, OriginatorOK
<1>5. p.queue = o.queue /\ p.request = o.request /\ p.state = o.state /\ p.window = o.window
  BY <1>4 DEF Originators
<1>6. o.window.m_winStart \in SeqNos
  BY <1>4 DEF Originators, Windows
<1>7. /\ psdu'.kind = "Bar" /\ psdu'.mpdus = {} /\ psdu'.left = {}
      /\ psdu'.ssn = originator.window.m_winStart
  BY <1>1, <1>4, <1>6, PsduIs
<1> HIDE DEF p
<1>8. /\ Established(originator') <=> Established(originator)
      /\ originator'.queue \subseteq originator.queue /\ originator'.window = originator.window
      /\ originator'.request.queued => originator'.request = originator.request
  BY <1>1, <1>4, <1>5 DEF Established
<1>9. ~Established(originator) /\ originator'.request.queued =>
        \A e \in originator'.queue, x \in sent :
           x.id = e.id => Position(originator'.request.ssn, base) <= Position(x.seq, base)
  BY <1>8 DEF Sure, FirstNumbered
<1>10. nRequests <= nRequests' /\ nRequests' \in Nat
  <2>1. nRequests' = nRequests /\ nRequests \in Nat
    BY <1>1, <1>2
  <2> QED
    BY <2>1
<1> QED
  BY <1>1, <1>7, <1>8, <1>9, <1>10, ExchangeStartsSure

\* The request is sent again.
LEMMA SendRequestSure ==
  ASSUME NEW base, NEW sent, Safe(base, sent), Sure(base, sent), SendRequest
  PROVE  Sure(base, sent)'
<1> DEFINE o == Peeked
           p == [o EXCEPT !.request.inFlight = TRUE]
<1>1. /\ psdu.kind = "None" /\ originator' = p /\ psdu' = Psdu("Request", {}, o.request.ssn)
      /\ UNCHANGED <<m_nextSeq, nMpdus, nRequests, recipient, response, acked, apart>>
  BY DEF SendRequest, MayStart
<1>2. /\ o \in Originators /\ o.state = originator.state
      /\ o.window = originator.window /\ o.queue \subseteq originator.queue
      /\ o.request.queued => o.request = originator.request
  BY PeekedOK
<1> HIDE DEF o
<1>3. /\ p.state = o.state /\ p.queue = o.queue /\ p.window = o.window
      /\ p.request.queued = o.request.queued /\ p.request.ssn = o.request.ssn
      /\ o.request.ssn \in SeqNos
  BY <1>2 DEF Originators, Requests
<1>4. psdu'.kind = "Request" /\ psdu'.mpdus = {} /\ psdu'.left = {}
  BY <1>1, <1>3, PsduIs
<1> HIDE DEF p
<1>5. /\ Established(originator') <=> Established(originator)
      /\ originator'.queue \subseteq originator.queue /\ originator'.window = originator.window
      /\ originator'.request.queued =>
            originator.request.queued /\ originator'.request.ssn = originator.request.ssn
  BY <1>1, <1>2, <1>3 DEF Established
<1>6. ~Established(originator) /\ originator'.request.queued =>
        \A e \in originator'.queue, x \in sent :
           x.id = e.id => Position(originator'.request.ssn, base) <= Position(x.seq, base)
  BY <1>5 DEF Sure, FirstNumbered
<1>7. nRequests <= nRequests' /\ nRequests' \in Nat
  <2>1. nRequests' = nRequests /\ nRequests \in Nat
    BY <1>1, SafeParts
  <2> QED
    BY <2>1
<1> QED
  BY <1>1, <1>4, <1>5, <1>6, <1>7, ExchangeStartsSure

\* The request names the number of the packet that was numbered, if there is one.
LEMMA SendAddBaRequestSure ==
  ASSUME NEW base, NEW sent, Safe(base, sent), Sure(base, sent), NEW fits \in BOOLEAN,
         SendAddBaRequest(fits)
  PROVE  Sure(base, sent)'
<1> DEFINE C == Candidates(Peeked)
           ssn == StartingSequence(C, m_nextSeq)
           o == CreateOriginatorAgreement(Peeked, ssn)
           request == [queued |-> TRUE, inFlight |-> TRUE, ssn |-> ssn, before |-> nMpdus,
                       expired |-> FALSE]
           p == [o EXCEPT !.request = request]
<1>1. /\ psdu.kind = "None" /\ ~Peeked.request.queued /\ Peeked.state \in {"NONE", "RESET"}
      /\ nRequests' = nRequests + 1
      /\ originator' = IF fits THEN p ELSE o
      /\ psdu' = IF fits THEN Psdu("Request", {}, ssn) ELSE psdu
      /\ UNCHANGED <<m_nextSeq, nMpdus, recipient, response, acked, apart>>
  BY DEF SendAddBaRequest, MayStart, NeedSetupBlockAck
<1>2. /\ Peeked \in Originators /\ Peeked.state = originator.state
      /\ Peeked.queue \subseteq originator.queue
  BY PeekedOK
<1>3. /\ base \in SeqNos /\ psdu \in Psdus /\ PsduOK(base, sent, Position(m_nextSeq, base))
      /\ nRequests \in Nat /\ OneByOne
  BY SafeParts
<1>4. ~Established(originator) /\ psdu.mpdus = {} /\ psdu.left = {}
  BY <1>1, <1>2, <1>3 DEF Established, PsduOK
<1>5. C = Peeked.queue
  <2>1. \A e \in originator.queue : ~e.inFlight
    BY <1>3, <1>4, NothingInFlight
  <2> QED
    BY <1>1, <1>2, <2>1 DEF Candidates
<1> HIDE DEF C
<1>6. \A x \in sent : x.id \in IdsOf(C) => ssn = x.seq
  BY <1>2, <1>4, <1>5, StartsWithNumbered DEF Sure
<1>7. ssn \in SeqNos
  BY <1>2, <1>5, StartingSequenceOK
<1> HIDE DEF ssn
<1>8. /\ o.state = "PENDING" /\ o.queue = C /\ o.request = Peeked.request
      /\ p.state = "PENDING" /\ p.queue = C /\ p.request = request
  BY <1>2, <1>5 DEF CreateOriginatorAgreement, Originators
<1>9. psdu'.mpdus = {} /\ psdu'.left = {} /\ psdu'.kind \in {"None", "Bar", "Request"}
  <2>1. fits => psdu'.mpdus = {} /\ psdu'.left = {} /\ psdu'.kind = "Request"
    BY <1>1, <1>7, PsduIs
  <2> QED
    BY <1>1, <1>4, <2>1
<1>10. request.ssn = ssn
  OBVIOUS
<1> HIDE DEF o, request, p
<1>11. /\ ~Established(originator') /\ originator'.queue = C
       /\ originator'.request.queued => originator'.request.ssn = ssn
  BY <1>1, <1>8, <1>10 DEF Established
<1>12. originator'.request.queued =>
        \A e \in originator'.queue, x \in sent :
           x.id = e.id => Position(originator'.request.ssn, base) <= Position(x.seq, base)
  <2>1. \A x \in sent : Position(x.seq, base) <= Position(x.seq, base)
    BY PositionsAre
  <2> QED
    BY <1>6, <1>11, <2>1 DEF IdsOf
<1>13. nRequests <= nRequests' /\ nRequests' \in Nat
  BY <1>1, <1>3
<1> QED
  BY <1>1, <1>2, <1>4, <1>5, <1>9, <1>11, <1>12, <1>13, ExchangeStartsSure

\* Data are sent: no new number is one the recipient has passed.
LEMMA SendDataSure ==
  ASSUME NEW base, NEW sent, Safe(base, sent), Sure(base, sent),
         NEW more, Safe(base, more)', DataLeave(base, sent, more)
  PROVE  Sure(base, more)'
<1> DEFINE next == Position(m_nextSeq, base)
           later == Position(m_nextSeq', base)
           winStart == Position(originator.window.m_winStart, base)
           start == Position(recipient.scoreboard.m_winStart, base)
<1>1. /\ more = sent \cup psdu'.mpdus
      /\ \A x \in psdu'.mpdus :
            /\ x.id \in IdsOf(originator.queue)
            /\ x \in sent \/ next <= Position(x.seq, base)
            /\ Established(originator) =>
                  winStart <= Position(x.seq, base) /\ Position(x.seq, base) < winStart + BufferSize
      /\ psdu'.kind = "Single" => \A x, y \in psdu'.mpdus : x = y
      /\ ~Established(originator) => psdu'.mpdus # {}
      /\ ~psdu'.arrived /\ psdu'.kind # "Bar"
      /\ originator'.state = originator.state /\ originator'.window = originator.window
      /\ IdsOf(originator'.queue) \subseteq IdsOf(originator.queue) /\ ~originator'.request.queued
  BY DEF DataLeave
<1>2. UNCHANGED <<nRequests, recipient, response, acked>> /\ (SetUpOnce' <=> SetUpOnce)
  BY DEF DataLeave, SetUpOnce
<1>3. Numbering(base, more, later, nMpdus') /\ OneByOne' /\ PsduOK(base, more, next)'
  BY DEF Safe, PsduOK
<1>4. psdu'.left \subseteq psdu'.mpdus
  BY <1>3 DEF PsduOK
<1>5. Established(originator') <=> Established(originator)
  BY <1>1 DEF Established
<1>6. \A x \in more : x.id \in Nat /\ Position(x.seq, base) \in Nat
  BY <1>3, SentIs
<1> HIDE DEF later
<1>7. FirstNumbered(base, more)'
  <2> SUFFICES ASSUME ~Established(originator), NEW e \in originator'.queue, NEW x \in more
               PROVE  x.id <= e.id /\ (x.id = e.id => x \in psdu'.mpdus)
    BY <1>1, <1>5 DEF FirstNumbered
  <2>1. PICK f \in originator.queue : f.id = e.id
    BY <1>1 DEF IdsOf
  <2>2. \A y \in psdu'.mpdus : y.id <= e.id
    BY <1>3, <1>5 DEF OneByOne
  <2>3. x.id <= e.id
    <3>1. x \in sent => x.id <= f.id
      BY DEF Sure, FirstNumbered
    <3> QED
      BY <1>1, <2>1, <2>2, <3>1
  <2>4. ASSUME x.id = e.id, x \in sent
        PROVE  x \in psdu'.mpdus
    <3>1. PICK m \in psdu'.mpdus : TRUE
      BY <1>1
    <3>2. PICK g \in originator.queue : g.id = m.id
      BY <1>1 DEF IdsOf
    <3>3. x.id <= m.id
      BY <2>4, <3>2 DEF Sure, FirstNumbered
    <3>4. m.id <= x.id /\ m \in more /\ x.id \in Nat /\ m.id \in Nat
      BY <1>1, <1>6, <2>2, <2>4
    <3>5. x.id = m.id
      BY <3>3, <3>4
    <3>6. x = m
      BY <1>3, <3>4, <3>5, SentOnce
    <3> QED
      BY <3>6
  <2> QED
    BY <1>1, <2>3, <2>4
<1>8. Paced(base)'
  BY <1>1, <1>2, <1>5 DEF Paced
<1>9. ASSUME NEW x \in Unsettled(base, more)', x \in sent
      PROVE  x \in Unsettled(base, sent)
  <2>1. \/ Established(originator) /\ winStart <= Position(x.seq, base)
        \/ ~Established(originator) /\ x.id \in IdsOf(originator'.queue)
        \/ x \in psdu'.mpdus
    BY <1>1, <1>4, <1>5, <1>9 DEF Unsettled
  <2>2. \/ Established(originator) /\ winStart <= Position(x.seq, base)
        \/ ~Established(originator) /\ x.id \in IdsOf(originator.queue)
    BY <1>1, <2>1
  <2> QED
    BY <1>9, <2>2 DEF Unsettled
<1>10. ASSUME NEW x \in Unsettled(base, more)', x \notin sent, recipient.agreement,
              recipient.m_winStartB \in SeqNos
       PROVE  ~(Position(x.seq, base) < start)
  <2>1. x \in more
    BY <1>10 DEF Unsettled
  <2>2. next <= Position(x.seq, base) /\ Position(x.seq, base) \in Nat
    BY <1>1, <1>6, <1>10, <2>1
  <2>3. /\ start <= Position(recipient.m_winStartB, base)
        /\ Position(recipient.m_winStartB, base) <= next
    BY <1>10 DEF Safe, RecipientOK
  <2>4. start \in Nat /\ next \in Nat /\ Position(recipient.m_winStartB, base) \in Nat
    BY <1>10, SafeParts, PositionsAre
  <2> HIDE DEF start, next
  <2> QED
    BY <2>2, <2>3, <2>4
<1>11. Delivered(base, more)'
  <2>1. Delivered(base, sent)
    BY DEF Sure
  <2>2. SetUpOnce /\ recipient.m_winStartB \in SeqNos /\ recipient.agreement =>
            \A x \in Unsettled(base, more)' : Position(x.seq, base) < start => x \in Arrivals(recipient)
    BY <1>9, <1>10, <2>1 DEF Delivered
  <2> QED
    BY <1>1, <1>2, <2>1, <2>2 DEF Delivered
<1> QED
  BY <1>2, <1>7, <1>8, <1>11 DEF Sure, Marks, RequestedFirst

\* An MPDU is marked when it arrives, and moves the window only up to itself. One that
\* is not before the window has then arrived.
LEMMA ReceivedMarks ==
  ASSUME FewPackets, NEW base, NEW sent, NEW next, NEW n, Numbering(base, sent, next, n),
         NEW r, RecipientOK(r, base, sent, next), r.agreement, NEW m \in sent, Marks(r, base)
  PROVE  LET p == NotifyReceivedMpdu(r, m)
             start == Position(r.scoreboard.m_winStart, base)
             vstart == Position(p.scoreboard.m_winStart, base)
         IN  /\ Marks(p, base)
             /\ p.m_winStartB \in SeqNos =>
                   /\ r.m_winStartB \in SeqNos
                   /\ vstart = start \/ vstart = Position(m.seq, base) - BufferSize + 1
                   /\ start <= Position(m.seq, base) => m \in Arrivals(p)
<1> DEFINE p == NotifyReceivedMpdu(r, m)
           w == r.scoreboard
           v == p.scoreboard
           start == Position(w.m_winStart, base)
           vstart == Position(v.m_winStart, base)
           startB == Position(r.m_winStartB, base)
           s == Position(m.seq, base)
<1>1. /\ RecipientOK(p, base, sent, next) /\ p.agreement /\ Arrivals(r) \subseteq Arrivals(p)
      /\ v = Scored(w, m.seq)
      /\ p.m_winStartB \in SeqNos => r.m_winStartB \in SeqNos /\ (startB <= s => m \in Arrivals(p))
  BY NotifyReceivedMpduOK
<1> HIDE DEF p, v
<1> SUFFICES ASSUME p.m_winStartB \in SeqNos
             PROVE  /\ Marks(p, base) /\ r.m_winStartB \in SeqNos
                    /\ vstart = start \/ vstart = s - BufferSize + 1
                    /\ start <= s => m \in Arrivals(p)
  BY DEF Marks, p, v
<1>2. r.m_winStartB \in SeqNos /\ (startB <= s => m \in Arrivals(p))
  BY <1>1
<1>3. /\ base \in SeqNos /\ sent \in SUBSET Mpdus /\ next \in Nat /\ next <= MaxMpdus
      /\ MaxMpdus \in Nat
  <2>1. base \in SeqNos /\ sent \in SUBSET Mpdus /\ next \in 0..n /\ n \in 0..MaxMpdus
    BY DEF Numbering
  <2> QED
    BY <2>1, MpdusAssumption
<1>4. m.seq \in SeqNos /\ s \in Nat /\ s <= MaxMpdus
  BY <1>3, SentIs
<1>5. Buffering(r, base, sent, next)
  BY <1>2, <1>3, BufferingIs
<1>6. w \in Windows /\ w.m_winStart \in SeqNos /\ start <= startB /\ startB <= next
  BY <1>5 DEF Buffering, Recipients, Windows
<1>7. start \in Nat /\ startB \in Nat /\ start <= MaxMpdus
  <2>1. start \in Nat /\ startB \in Nat
    BY <1>2, <1>3, <1>6, PositionType
  <2> HIDE DEF start, startB
  <2> QED
    BY <1>3, <1>6, <2>1
<1>8. \A q \in Nat : Has(w, base, q) => \E x \in Arrivals(r) : Position(x.seq, base) = q
  BY <1>2 DEF Marks
<1>9. LET u == Scored(w, m.seq)
      IN  /\ s < start => u = w
          /\ start <= s =>
                /\ Position(u.m_winStart, base) = IF s < start + BufferSize THEN start ELSE s - BufferSize + 1
                /\ \A q \in Nat : Has(u, base, q) => Has(w, base, q) \/ q = s
  BY <1>3, <1>4, <1>6, <1>7, ScoredIs
<1>10. /\ s < start => v = w
       /\ start <= s =>
             /\ vstart = start \/ vstart = s - BufferSize + 1
             /\ \A q \in Nat : Has(v, base, q) => Has(w, base, q) \/ q = s
  BY <1>1, <1>9
<1>11. ASSUME start <= s
       PROVE  m \in Arrivals(p)
  <2>1. CASE startB <= s
    BY <1>2, <2>1
  <2>2. CASE ~(startB <= s)
    <3>1. s < startB
      <4> HIDE DEF s, startB
      <4> QED
        BY <1>4, <1>7, <2>2
    <3>2. Has(w, base, s)
      BY <1>4, <1>5, <1>11, <3>1 DEF Buffering
    <3>3. PICK x \in Arrivals(r) : Position(x.seq, base) = s
      BY <1>4, <1>8, <3>2
    <3>4. x \in sent
      BY DEF RecipientOK
    <3>5. x = m
      BY <3>3, <3>4, SentOnce
    <3> QED
      BY <1>1, <3>3, <3>5
  <2> QED
    BY <2>1, <2>2
<1>12. s < start \/ start <= s
  <2> HIDE DEF s, start
  <2> QED
    BY <1>4, <1>7
<1>13. Marks(p, base)
  <2> SUFFICES ASSUME NEW q \in Nat, Has(v, base, q)
               PROVE  \E x \in Arrivals(p) : Position(x.seq, base) = q
    BY DEF Marks, v
  <2>1. Has(w, base, q) \/ (q = s /\ start <= s)
    BY <1>10, <1>12
  <2> QED
    BY <1>1, <1>8, <1>11, <2>1
<1> QED
  BY <1>2, <1>10, <1>11, <1>12, <1>13

\* A BlockAckReq marks nothing, and moves the window only up to its number.
LEMMA BarMarks ==
  ASSUME FewPackets, NEW base, NEW sent, NEW next, NEW n, Numbering(base, sent, next, n),
         NEW r, RecipientOK(r, base, sent, next), r.agreement,
         NEW seq \in SeqNos, Position(seq, base) <= next, Marks(r, base)
  PROVE  LET p == NotifyReceivedBar(r, seq)
             vstart == Position(p.scoreboard.m_winStart, base)
         IN  /\ Marks(p, base)
             /\ p.m_winStartB \in SeqNos =>
                   /\ r.m_winStartB \in SeqNos
                   /\ vstart = Position(r.scoreboard.m_winStart, base) \/ vstart = Position(seq, base)
<1> DEFINE p == NotifyReceivedBar(r, seq)
           w == r.scoreboard
           v == p.scoreboard
           start == Position(w.m_winStart, base)
           startB == Position(r.m_winStartB, base)
           s == Position(seq, base)
<1>1. /\ Arrivals(p) = Arrivals(r) /\ v = ScoredBar(w, seq)
      /\ p.m_winStartB \in SeqNos => r.m_winStartB \in SeqNos
  BY NotifyReceivedBarOK
<1> HIDE DEF p, v
<1> SUFFICES ASSUME p.m_winStartB \in SeqNos
             PROVE  /\ Marks(p, base) /\ r.m_winStartB \in SeqNos
                    /\ Position(v.m_winStart, base) = start \/ Position(v.m_winStart, base) = s
  BY DEF Marks, p, v
<1>2. /\ base \in SeqNos /\ sent \in SUBSET Mpdus /\ next \in Nat /\ next <= MaxMpdus
      /\ MaxMpdus \in Nat
  <2>1. base \in SeqNos /\ sent \in SUBSET Mpdus /\ next \in 0..n /\ n \in 0..MaxMpdus
    BY DEF Numbering
  <2> QED
    BY <2>1, MpdusAssumption
<1>3. Buffering(r, base, sent, next)
  BY <1>1, <1>2, BufferingIs
<1>4. w \in Windows /\ w.m_winStart \in SeqNos /\ start <= startB /\ startB <= next
  BY <1>3 DEF Buffering, Recipients, Windows
<1>5. start <= MaxMpdus /\ s <= MaxMpdus
  <2>1. start \in Nat /\ startB \in Nat /\ s \in Nat /\ s <= next
    BY <1>1, <1>2, <1>4, PositionType
  <2> HIDE DEF start, startB, s
  <2> QED
    BY <1>2, <1>4, <2>1
<1>6. LET u == ScoredBar(w, seq)
      IN  /\ Position(u.m_winStart, base) = start \/ Position(u.m_winStart, base) = s
          /\ \A q \in Nat : Has(u, base, q) => Has(w, base, q)
  BY <1>2, <1>4, <1>5, ScoredBarIs
<1>7. Marks(p, base)
  BY <1>1, <1>6 DEF Marks, v
<1> QED
  BY <1>1, <1>6, <1>7

\* A BlockAck acknowledges what its scoreboard marks, which has arrived.
LEMMA GotArrived ==
  ASSUME FewPackets, NEW base, NEW sent, Safe(base, sent), NEW r,
         RecipientOK(r, base, sent, Position(m_nextSeq, base)), r.agreement, r.m_winStartB \in SeqNos,
         Marks(r, base), BlockAckArrives(r)
  PROVE  acked' \subseteq acked \cup Arrivals(r)
<1> DEFINE next == Position(m_nextSeq, base)
           received == {m \in Members(originator.outstanding) : IsPacketReceived(r, m.seq)}
           got == Only(originator.outstanding, received)
           w == r.scoreboard
           start == Position(w.m_winStart, base)
           startB == Position(r.m_winStartB, base)
<1>1. acked' = acked \cup Members(got)
  BY DEF BlockAckArrives
<1>2. /\ base \in SeqNos /\ originator \in Originators /\ next \in Nat /\ next <= MaxMpdus
      /\ OriginatorOK(originator, acked, base, sent, next, nMpdus)
      /\ Numbering(base, sent, next, nMpdus)
  BY SafeParts
<1>3. Members(got) = Members(originator.outstanding) \cap received
  <2>1. originator.outstanding \in Seq(Mpdus)
    BY <1>2 DEF Originators
  <2> HIDE DEF received
  <2> QED
    BY <1>2, <2>1, OnlyIs
<1> HIDE DEF got
<1>4. /\ w \in Windows /\ w.m_winStart \in SeqNos /\ start <= startB /\ startB <= next
      /\ Arrivals(r) \subseteq sent
  BY DEF RecipientOK, Recipients, Windows
<1>5. start \in Nat /\ start <= next
  <2>1. start \in Nat /\ startB \in Nat
    BY <1>2, <1>4, PositionType
  <2> HIDE DEF start, startB, next
  <2> QED
    BY <1>2, <1>4, <2>1
<1>6. ASSUME NEW x \in Members(originator.outstanding), x \in received
      PROVE  x \in Arrivals(r)
  <2>1. x \in sent /\ x.seq \in SeqNos /\ Position(x.seq, base) \in Nat
    BY <1>2, SentIs DEF OriginatorOK
  <2>2. x.seq \in Marked(w)
    BY <1>6 DEF IsPacketReceived
  <2> HIDE DEF next
  <2>3. PICK d \in Slots : At(w, d) /\ Position(x.seq, base) = start + d
    BY <1>2, <1>4, <1>5, <2>1, <2>2, MarkedIs
  <2> DEFINE p == Position(x.seq, base)
  <2>4. p \in Nat /\ start <= p /\ p < start + BufferSize /\ p - start = d
    <3> HIDE DEF p, start
    <3>1. p = start + d
      BY <2>3 DEF p, start
    <3> QED
      BY <1>5, <3>1, SlotsIn
  <2>5. Has(w, base, p)
    BY <2>3, <2>4 DEF Has
  <2>6. PICK y \in Arrivals(r) : Position(y.seq, base) = p
    BY <2>4, <2>5 DEF Marks
  <2>7. x = y
    BY <1>2, <1>4, <2>1, <2>6, SentOnce
  <2> QED
    BY <2>6, <2>7
<1> QED
  BY <1>1, <1>3, <1>6

\* What has to be shown of a step that ends an exchange.
LEMMA EndsSure ==
  ASSUME NEW base, NEW sent, Safe(base, sent), Sure(base, sent), psdu' = NoPsdu, nRequests' = nRequests,
         Established(originator') <=> Established(originator),
         IdsOf(originator'.queue) \subseteq IdsOf(originator.queue),
         originator'.request.queued =>
            originator.request.queued /\ originator'.request.ssn = originator.request.ssn,
         ~Established(originator) => \A e \in originator'.queue, x \in sent : x.id = e.id => e.retry,
         Marks(recipient', base), RequestedFirst',
         SetUpOnce /\ recipient'.m_winStartB \in SeqNos =>
            /\ recipient.m_winStartB \in SeqNos
            /\ acked' \subseteq acked \cup Arrivals(recipient)
            /\ Arrivals(recipient) \subseteq Arrivals(recipient')
            /\ recipient'.agreement =>
                  \A x \in Unsettled(base, sent)' :
                     Position(x.seq, base) < Position(recipient'.scoreboard.m_winStart, base) =>
                        x \in Arrivals(recipient')
  PROVE  Sure(base, sent)'
<1>1. SetUpOnce' <=> SetUpOnce
  BY DEF SetUpOnce
<1>2. psdu'.kind = "None" /\ psdu'.mpdus = {}
  BY NoPsduIs
<1>3. FirstNumbered(base, sent)'
  <2> SUFFICES ASSUME ~Established(originator), NEW e \in originator'.queue, NEW x \in sent
               PROVE  /\ x.id <= e.id
                      /\ x.id = e.id =>
                            /\ e.retry
                            /\ originator'.request.queued =>
                                  Position(originator'.request.ssn, base) <= Position(x.seq, base)
    BY <1>2 DEF FirstNumbered
  <2>1. PICK f \in originator.queue : e.id = f.id
    BY DEF IdsOf
  <2> QED
    BY <2>1 DEF Sure, FirstNumbered
<1>4. Paced(base)'
  BY <1>2 DEF Paced
<1>5. Delivered(base, sent)'
  <2>1. Delivered(base, sent)
    BY DEF Sure
  <2> QED
    BY <1>1, <1>2, <2>1 DEF Delivered
<1> QED
  BY <1>3, <1>4, <1>5 DEF Sure

\* The recipient's window does not pass that of the originator.
LEMMA ExchangeEndsSure ==
  ASSUME NEW base, NEW sent, Safe(base, sent), Sure(base, sent), psdu' = NoPsdu, nRequests' = nRequests,
         Established(originator') <=> Established(originator),
         IdsOf(originator'.queue) \subseteq IdsOf(originator.queue),
         originator'.request.queued =>
            originator.request.queued /\ originator'.request.ssn = originator.request.ssn,
         ~Established(originator) => \A e \in originator'.queue, x \in sent : x.id = e.id => e.retry,
         Marks(recipient', base), response'.lastRequest = response.lastRequest,
         recipient' \in Recipients, recipient'.agreement <=> recipient.agreement,
         SetUpOnce => Later(originator, originator', base),
         SetUpOnce /\ recipient'.m_winStartB \in SeqNos =>
            /\ recipient.m_winStartB \in SeqNos
            /\ acked' \subseteq acked \cup Arrivals(recipient)
            /\ Arrivals(recipient) \subseteq Arrivals(recipient')
            /\ recipient'.agreement =>
                  LET start == Position(recipient.scoreboard.m_winStart, base)
                      start2 == Position(recipient'.scoreboard.m_winStart, base)
                  IN  \/ start2 = start
                      \/ /\ Established(originator)
                         /\ start2 <= Position(originator.window.m_winStart, base)
  PROVE  Sure(base, sent)'
<1>1. RequestedFirst'
  BY DEF Sure, RequestedFirst, SetUpOnce
<1>2. base \in SeqNos /\ sent \in SUBSET Mpdus
  BY SafeParts
<1>3. ASSUME SetUpOnce, recipient'.m_winStartB \in SeqNos, recipient'.agreement,
             NEW x \in Unsettled(base, sent)',
             Position(x.seq, base) < Position(recipient'.scoreboard.m_winStart, base)
      PROVE  x \in Arrivals(recipient')
  <2> DEFINE pos == Position(x.seq, base)
             start == Position(recipient.scoreboard.m_winStart, base)
             start2 == Position(recipient'.scoreboard.m_winStart, base)
             winStart == Position(originator.window.m_winStart, base)
             winStart2 == Position(originator'.window.m_winStart, base)
  <2>1. /\ x \in sent
        /\ \/ Established(originator) /\ winStart2 <= pos
           \/ ~Established(originator) /\ x.id \in IdsOf(originator.queue)
    BY <1>3, NoPsduIs DEF Unsettled
  <2>2. Established(originator) => winStart \in Nat /\ winStart2 \in Nat /\ winStart <= winStart2
    BY <1>2, <1>3 DEF Later
  <2>3. start2 \in Nat
    <3>1. recipient'.scoreboard.m_winStart \in SeqNos
      BY DEF Recipients, Windows
    <3> QED
      BY <3>1, PositionsAre
  <2>4. pos \in Nat /\ pos < start2
    BY <1>3, <2>1, PositionsAre
  <2>5. start2 = start \/ (Established(originator) /\ start2 <= winStart)
    BY <1>3
  <2> HIDE DEF pos, start, start2, winStart, winStart2
  <2>6. pos < start
    BY <2>1, <2>2, <2>3, <2>4, <2>5
  <2>7. Established(originator) => winStart <= pos
    BY <2>1, <2>2, <2>4
  <2>8. x \in Unsettled(base, sent)
    BY <2>1, <2>7 DEF Unsettled, pos, winStart
  <2>9. x \in Arrivals(recipient)
    BY <1>3, <2>6, <2>8 DEF Sure, Delivered, pos, start
  <2> QED
    BY <1>3, <2>9
<1> QED
  BY <1>1, <1>3, EndsSure

\* An MPDU with Block Ack policy has been sent.
LEMMA NoResponseEndsSure ==
  ASSUME NEW base, NEW sent, Safe(base, sent), Sure(base, sent), NoResponseEnds
  PROVE  Sure(base, sent)'
<1> DEFINE next == Position(m_nextSeq, base)
<1>1. /\ psdu.kind = "NoResponse" /\ psdu' = NoPsdu /\ originator' = GetBar(originator)
      /\ UNCHANGED <<m_nextSeq, nMpdus, nRequests, recipient, response, acked, apart>>
  BY DEF NoResponseEnds, Ends
<1>2. /\ originator \in Originators /\ base \in SeqNos /\ sent \subseteq Mpdus /\ OneByOne
      /\ OriginatorOK(originator, acked, base, sent, next, nMpdus) /\ recipient \in Recipients
  BY SafeParts
<1>3. Established(originator)
  BY <1>1, <1>2 DEF OneByOne
<1> HIDE DEF next
<1>4. Peek(originator', originator, acked, base, sent, next, nMpdus)
  BY <1>1, <1>2, GetBarOK
<1>5. /\ Follows(originator', originator, acked, base, sent, next, nMpdus)
      /\ originator'.window = originator.window
  BY <1>2, <1>4, PeekFollows DEF Peek
<1>6. Later(originator, originator', base)
  BY <1>2, <1>5, SameWindow
<1>7. Marks(recipient', base)
  BY <1>1 DEF Sure
<1> QED
  BY <1>1, <1>2, <1>3, <1>5, <1>6, <1>7, ExchangeEndsSure DEF Follows

\* An A-MPDU ends with a BlockAck or without one.
LEMMA AmpduEndsSure ==
  ASSUME FewPackets, NEW base, NEW sent, Safe(base, sent), Sure(base, sent), NEW answered,
         AmpduEnds(answered)
  PROVE  Sure(base, sent)'
<1> DEFINE next == Position(m_nextSeq, base)
<1>1. /\ psdu.kind = "Ampdu" /\ psdu' = NoPsdu
      /\ IF answered THEN BlockAckArrives(recipient) ELSE BlockAckTimeout
      /\ UNCHANGED <<m_nextSeq, nMpdus, nRequests, recipient, response, apart>>
  BY DEF AmpduEnds, Ends
<1>2. /\ OneByOne /\ RequestOK(base, next) /\ RecipientOK(recipient, base, sent, next)
      /\ recipient \in Recipients
  BY SafeParts
<1>3. Established(originator)
  BY <1>1, <1>2 DEF OneByOne
<1>4. recipient.agreement /\ Marks(recipient, base)
  BY <1>2, <1>3 DEF RequestOK, Sure
<1>5. recipient.m_winStartB \in SeqNos => acked' \subseteq acked \cup Arrivals(recipient)
  <2>1. CASE answered
    BY <1>1, <1>2, <1>4, <2>1, GotArrived
  <2>2. CASE ~answered
    BY <1>1, <2>2 DEF BlockAckTimeout
  <2> QED
    BY <2>1, <2>2
<1> HIDE DEF next
<1>6. /\ Handled(originator', originator, acked', base, sent, next, nMpdus)
      /\ SetUpOnce => Later(originator, originator', base)
  BY <1>1, <1>3, BlockAckArrivesOK, BlockAckTimeoutOK DEF next
<1>7. /\ Established(originator') /\ IdsOf(originator'.queue) \subseteq IdsOf(originator.queue)
      /\ originator'.request.queued =>
            originator.request.queued /\ originator'.request.ssn = originator.request.ssn
  BY <1>3, <1>6 DEF Handled, Established
<1>8. Marks(recipient', base)
  BY <1>1, <1>4
<1> QED
  BY <1>1, <1>2, <1>3, <1>5, <1>6, <1>7, <1>8, ExchangeEndsSure

\* A BlockAckReq moves the recipient's window no further than the originator's.
LEMMA BarEndsSure ==
  ASSUME FewPackets, NEW base, NEW sent, Safe(base, sent), Sure(base, sent), NEW arrives, NEW answered,
         BarEnds(arrives, answered)
  PROVE  Sure(base, sent)'
<1> DEFINE next == Position(m_nextSeq, base)
           r == IF arrives THEN ReceiveBar(recipient, psdu.ssn) ELSE recipient
<1>1. /\ psdu.kind = "Bar" /\ psdu' = NoPsdu /\ recipient' = r
      /\ IF answered THEN BlockAckArrives(r) ELSE BlockAckTimeout
      /\ UNCHANGED <<m_nextSeq, nMpdus, nRequests, response, apart>>
  BY DEF BarEnds, Ends
<1>2. /\ OneByOne /\ RequestOK(base, next) /\ RecipientOK(recipient, base, sent, next)
      /\ psdu \in Psdus /\ PsduOK(base, sent, next)
      /\ Numbering(base, sent, next, nMpdus)
  BY SafeParts
<1>3. Established(originator)
  BY <1>1, <1>2 DEF OneByOne
<1>4. recipient.agreement /\ Marks(recipient, base)
  BY <1>2, <1>3 DEF RequestOK, Sure
<1>5. /\ psdu.ssn \in SeqNos /\ Position(psdu.ssn, base) <= next
      /\ SetUpOnce => Position(psdu.ssn, base) <= Position(originator.window.m_winStart, base)
  BY <1>1, <1>2, <1>3 DEF PsduOK, Psdus, Sure, Paced
<1> HIDE DEF next
<1>6. /\ RecipientOK(r, base, sent, next) /\ r.agreement /\ Arrivals(r) = Arrivals(recipient)
      /\ Marks(r, base)
      /\ r.m_winStartB \in SeqNos =>
            LET start == Position(recipient.scoreboard.m_winStart, base)
                start2 == Position(r.scoreboard.m_winStart, base)
            IN  /\ recipient.m_winStartB \in SeqNos
                /\ start2 = start \/ start2 = Position(psdu.ssn, base)
  <2>1. CASE r = NotifyReceivedBar(recipient, psdu.ssn)
    <3> HIDE DEF r
    <3> QED
      BY <1>2, <1>4, <1>5, <2>1, NotifyReceivedBarOK, BarMarks
  <2>2. CASE r = recipient
    BY <1>2, <1>4, <2>2
  <2>3. r = NotifyReceivedBar(recipient, psdu.ssn) \/ r = recipient
    BY <1>4 DEF ReceiveBar
  <2> QED
    BY <2>1, <2>2, <2>3
<1> HIDE DEF r
<1>7. r.m_winStartB \in SeqNos => acked' \subseteq acked \cup Arrivals(recipient)
  <2>1. CASE answered
    BY <1>1, <1>6, <2>1, GotArrived DEF next
  <2>2. CASE ~answered
    BY <1>1, <2>2 DEF BlockAckTimeout
  <2> QED
    BY <2>1, <2>2
<1>8. /\ Handled(originator', originator, acked', base, sent, next, nMpdus)
      /\ SetUpOnce => Later(originator, originator', base)
  BY <1>1, <1>3, BlockAckArrivesOK, BlockAckTimeoutOK DEF next
<1>9. /\ Established(originator') /\ IdsOf(originator'.queue) \subseteq IdsOf(originator.queue)
      /\ originator'.request.queued =>
            originator.request.queued /\ originator'.request.ssn = originator.request.ssn
  BY <1>3, <1>8 DEF Handled, Established
<1>10. Marks(recipient', base) /\ recipient' \in Recipients
  BY <1>1, <1>6 DEF RecipientOK
<1>11. SetUpOnce /\ recipient'.m_winStartB \in SeqNos =>
          /\ recipient.m_winStartB \in SeqNos
          /\ acked' \subseteq acked \cup Arrivals(recipient)
          /\ Arrivals(recipient) \subseteq Arrivals(recipient')
          /\ LET start == Position(recipient.scoreboard.m_winStart, base)
                 start2 == Position(recipient'.scoreboard.m_winStart, base)
             IN  start2 = start \/ start2 <= Position(originator.window.m_winStart, base)
  BY <1>1, <1>5, <1>6, <1>7
<1> QED
  BY <1>1, <1>3, <1>4, <1>6, <1>8, <1>9, <1>10, <1>11, ExchangeEndsSure

\* An MPDU that is sent again has its retry bit set.
LEMMA ToRetransmitRetries ==
  ASSUME NEW q \in SUBSET Elements, NEW id, NEW e \in ToRetransmit(q, id), e.id = id
  PROVE  e.retry
<1>1. PICK f \in q : e = IF f.id = id THEN [f EXCEPT !.retry = TRUE, !.inFlight = FALSE] ELSE f
  BY DEF ToRetransmit
<1>2. f \in Elements
  OBVIOUS
<1> QED
  BY <1>1, <1>2 DEF Elements

\* An MPDU sent alone is acknowledged only if it has arrived.
LEMMA SingleEndsSure ==
  ASSUME FewPackets, NEW base, NEW sent, Safe(base, sent), Sure(base, sent), NEW answered,
         NEW retry \in BOOLEAN, SingleEnds(answered, retry)
  PROVE  Sure(base, sent)'
<1> DEFINE next == Position(m_nextSeq, base)
<1>1. /\ psdu.kind = "Single" /\ psdu' = NoPsdu /\ (answered => psdu.arrived)
      /\ UNCHANGED <<m_nextSeq, nMpdus, nRequests, recipient, response, apart>>
  BY DEF SingleEnds, Ends
<1>2. PICK m \in psdu.mpdus :
        IF answered
        THEN originator' = GetBar(GotAck(originator, m)) /\ acked' = acked \cup {m}
        ELSE originator' = MissedAck(originator, m, retry) /\ UNCHANGED acked
  BY DEF SingleEnds
<1>3. /\ base \in SeqNos /\ sent \in SUBSET Mpdus /\ originator \in Originators
      /\ recipient \in Recipients /\ OneByOne
  BY SafeParts
<1> HIDE DEF next
<1>4. ASSUME ~Established(originator), NEW e \in originator.queue, NEW x \in sent, x.id = e.id
      PROVE  e.id = m.id
  <2>1. x \in psdu.mpdus
    BY <1>2, <1>4 DEF Sure, FirstNumbered
  <2> QED
    BY <1>3, <1>4, <2>1 DEF OneByOne
<1>5. /\ Handled(originator', originator, acked', base, sent, next, nMpdus)
      /\ SetUpOnce => Later(originator, originator', base)
      /\ ~Established(originator) => \A e \in originator'.queue : e.id = m.id => e.retry
  <2>1. CASE answered
    <3> DEFINE p == GotAck(originator, m)
               B == acked \cup {m}
    <3>1. /\ Handled(p, originator, B, base, sent, next, nMpdus)
          /\ SetUpOnce => Later(originator, p, base)
      BY <1>1, GotAckOK DEF next
    <3>2. originator' = GetBar(p) /\ acked' = B
      BY <1>2, <2>1
    <3>3. ~Established(originator) => \A e \in p.queue : e.id # m.id
      BY <1>3 DEF GotAck, Without, Originators
    <3> HIDE DEF p, B
    <3>4. /\ Handled(GetBar(p), originator, B, base, sent, next, nMpdus)
          /\ Later(originator, p, base) => Later(originator, GetBar(p), base)
      BY <1>3, <3>1, HandledGetBar
    <3>5. GetBar(p).queue \subseteq p.queue
      <4>1. Peek(GetBar(p), p, B, base, sent, next, nMpdus)
        BY <1>3, <3>1, GetBarOK DEF Handled
      <4> QED
        BY <4>1 DEF Peek
    <3> QED
      BY <3>1, <3>2, <3>3, <3>4, <3>5 DEF B
  <2>2. CASE ~answered
    <3> DEFINE p == MissedAck(originator, m, retry)
    <3>1. originator' = p /\ acked' = acked
      BY <1>2, <2>2
    <3>2. /\ Handled(p, originator, acked, base, sent, next, nMpdus)
          /\ SetUpOnce => Later(originator, p, base)
      BY MissedAckOK DEF next
    <3>3. ~Established(originator) =>
             \/ p.queue = ToRetransmit(originator.queue, m.id)
             \/ p.queue = Without(originator.queue, {m.id})
      BY <1>3 DEF MissedAck, NotifyDiscardedMpdu, Originators
    <3> HIDE DEF p
    <3>4. ASSUME ~Established(originator), NEW e \in p.queue, e.id = m.id
          PROVE  e.retry
      <4>1. e \in ToRetransmit(originator.queue, m.id)
        BY <3>3, <3>4 DEF Without
      <4>2. originator.queue \in SUBSET Elements
        BY <1>3 DEF Originators
      <4> QED
        BY <3>4, <4>1, <4>2, ToRetransmitRetries
    <3> QED
      BY <3>1, <3>2, <3>4
  <2> QED
    BY <2>1, <2>2
<1>6. /\ Established(originator') <=> Established(originator)
      /\ IdsOf(originator'.queue) \subseteq IdsOf(originator.queue)
      /\ originator'.request.queued =>
            originator.request.queued /\ originator'.request.ssn = originator.request.ssn
  BY <1>5 DEF Handled, Established
<1>7. ASSUME ~Established(originator), NEW e \in originator'.queue, NEW x \in sent, x.id = e.id
      PROVE  e.retry
  <2>1. PICK f \in originator.queue : f.id = e.id
    BY <1>6 DEF IdsOf
  <2> QED
    BY <1>4, <1>5, <1>7, <2>1
<1>8. SetUpOnce /\ recipient.m_winStartB \in SeqNos => acked' \subseteq acked \cup Arrivals(recipient)
  BY <1>1, <1>2 DEF Sure, Delivered
<1>9. Marks(recipient', base)
  BY <1>1 DEF Sure
<1> QED
  BY <1>1, <1>3, <1>5, <1>6, <1>7, <1>8, <1>9, ExchangeEndsSure

\* GetBar changes neither the agreement nor, but for what is wiped, the queue.
LEMMA GetBarIs ==
  ASSUME NEW o \in Originators
  PROVE  LET p == GetBar(o)
         IN  /\ p.state = o.state /\ p.window = o.window /\ p.queue \subseteq o.queue
             /\ p.request = o.request \/ p.request = NoRequest
             /\ Announces(p, o)
<1> DEFINE w == WipeAllExpiredMpdus(o)
<1>1. w.state = o.state /\ w.window = o.window /\ w.queue \subseteq o.queue
      /\ w.bar = o.bar /\ w.barIfData = o.barIfData
      /\ (w.request = o.request \/ w.request = NoRequest)
  BY DEF WipeAllExpiredMpdus, Originators, Without
<1>2. \E f : w = [o EXCEPT !.queue = f.queue, !.request = f.request, !.notices = f.notices]
  <2> DEFINE f == [queue |-> w.queue, request |-> w.request, notices |-> w.notices]
  <2>1. w = [o EXCEPT !.queue = f.queue, !.request = f.request, !.notices = f.notices]
    BY DEF WipeAllExpiredMpdus, Originators
  <2> QED
    BY <2>1
<1>3. w.state = [ScheduleBar(w) EXCEPT !.barIfData = FALSE].state
      /\ w.window = [ScheduleBar(w) EXCEPT !.barIfData = FALSE].window
      /\ w.queue = [ScheduleBar(w) EXCEPT !.barIfData = FALSE].queue
      /\ w.request = [ScheduleBar(w) EXCEPT !.barIfData = FALSE].request
      /\ NewBar = [ScheduleBar(w) EXCEPT !.barIfData = FALSE].bar
  <2> HIDE DEF w
  <2> QED
    BY <1>2 DEF ScheduleBar, Originators
<1>4. GetBar(o) = w \/ GetBar(o) = [ScheduleBar(w) EXCEPT !.barIfData = FALSE]
  BY DEF GetBar
<1> QED
  BY <1>1, <1>3, <1>4 DEF Announces

\* An agreement of the recipient starts with what the originator has not settled.
LEMMA RequestEndsSure ==
  ASSUME NEW base, NEW sent, Safe(base, sent), Sure(base, sent),
         NEW arrives \in BOOLEAN, NEW answered \in BOOLEAN, NEW retry \in BOOLEAN,
         RequestEnds(arrives, answered, retry)
  PROVE  Sure(base, sent)'
<1> DEFINE next == Position(m_nextSeq, base)
           new == arrives /\ response.lastRequest # nRequests
           o == [originator EXCEPT !.request = NoRequest]
           timed == [o EXCEPT !.respTimer = TRUE]
           again == [originator EXCEPT !.request.inFlight = FALSE]
<1>1. /\ psdu.kind = "Request" /\ psdu' = NoPsdu
      /\ recipient' = IF new THEN CreateRecipientAgreement(recipient, psdu.ssn) ELSE recipient
      /\ response' = IF new THEN [queued |-> TRUE, lastRequest |-> nRequests] ELSE response
      /\ UNCHANGED <<m_nextSeq, nMpdus, nRequests, acked, apart>>
  BY DEF RequestEnds, Ends
<1>2. \/ originator' = GetBar(timed) \/ originator' = again \/ originator' = o
      \/ o.state = "PENDING" /\ originator' = NoReply(o)
  BY DEF RequestEnds
<1>3. /\ base \in SeqNos /\ sent \in SUBSET Mpdus /\ RequestOK(base, next) /\ PsduOK(base, sent, next)
      /\ RecipientOK(recipient, base, sent, next) /\ response \in Responses /\ psdu \in Psdus
      /\ recipient \in Recipients /\ originator \in Originators /\ nRequests \in 0..MaxRequests
  BY SafeParts
<1>4. /\ originator.request.queued /\ psdu.ssn = originator.request.ssn /\ psdu.mpdus = {}
      /\ psdu.ssn \in SeqNos
  BY <1>1, <1>3 DEF PsduOK, Psdus
<1>5. nRequests > 0 /\ nRequests \in Nat
  <2>1. nRequests > 0
    BY <1>3, <1>4 DEF RequestOK
  <2> QED
    BY <1>3, <2>1
<1> HIDE DEF next
<1>6. NoRequest \in Requests /\ ~NoRequest.queued
  BY SpaceIs, MpdusAssumption DEF NoRequest, Requests, SeqNos
<1>7. /\ o \in Originators /\ o.window = originator.window /\ o.queue = originator.queue
      /\ o.state = originator.state /\ o.request = NoRequest
  BY <1>3, <1>6 DEF Originators
<1>8. /\ timed \in Originators /\ timed.window = o.window /\ timed.queue = o.queue
      /\ timed.state = o.state /\ timed.request = NoRequest
  <2> HIDE DEF o
  <2> QED
    BY <1>7 DEF Originators
<1>9. /\ again.window = originator.window /\ again.queue = originator.queue
      /\ again.state = originator.state /\ again.request.queued = originator.request.queued
      /\ again.request.ssn = originator.request.ssn
  BY <1>3 DEF Originators, Requests
<1> HIDE DEF o, timed, again
<1>10. /\ Established(originator') <=> Established(originator)
       /\ originator'.window = originator.window /\ originator'.queue \subseteq originator.queue
       /\ originator'.request.queued => originator'.request.ssn = originator.request.ssn
  <2>1. CASE originator' = GetBar(timed)
    <3>1. LET p == GetBar(timed)
          IN  /\ p.state = timed.state /\ p.window = timed.window /\ p.queue \subseteq timed.queue
              /\ p.request = timed.request \/ p.request = NoRequest
      BY <1>8, GetBarIs
    <3> QED
      BY <1>6, <1>7, <1>8, <2>1, <3>1 DEF Established
  <2>2. CASE originator' = again
    BY <1>9, <2>2 DEF Established
  <2>3. CASE originator' = o
    BY <1>6, <1>7, <2>3 DEF Established
  <2>4. CASE o.state = "PENDING" /\ originator' = NoReply(o)
    <3>1. /\ NoReply(o).queue = o.queue /\ NoReply(o).request = o.request
          /\ NoReply(o).window = o.window /\ NoReply(o).state = "NO_REPLY"
      BY <1>7 DEF NoReply, Originators
    <3> QED
      BY <1>6, <1>7, <2>4, <3>1 DEF Established
  <2> QED
    BY <1>2, <2>1, <2>2, <2>3, <2>4
<1>11. /\ IdsOf(originator'.queue) \subseteq IdsOf(originator.queue)
       /\ ~Established(originator) => \A e \in originator'.queue, x \in sent : x.id = e.id => e.retry
  BY <1>4, <1>10 DEF IdsOf, Sure, FirstNumbered
<1>12. CASE ~new
  <2>1. recipient' = recipient /\ response' = response
    BY <1>1, <1>12
  <2> HIDE DEF new
  <2>2. Later(originator, originator', base) /\ Marks(recipient', base)
    BY <1>3, <1>10, <2>1, SameWindow DEF Sure
  <2> QED
    BY <1>1, <1>3, <1>4, <1>10, <1>11, <2>1, <2>2, ExchangeEndsSure
<1>13. CASE new
  <2> DEFINE w == NewWindow(psdu.ssn)
  <2>1. /\ recipient' = CreateRecipientAgreement(recipient, psdu.ssn)
        /\ response' = [queued |-> TRUE, lastRequest |-> nRequests]
    BY <1>1, <1>13
  <2>2. w \in Windows /\ w.m_winStart = psdu.ssn /\ \A d \in Slots : ~At(w, d)
    BY <1>4, NewWindowType DEF NewWindow
  <2> HIDE DEF w
  <2>3. /\ recipient'.agreement /\ recipient'.scoreboard = w /\ recipient'.m_bufferedMpdus = {}
        /\ recipient'.passed = recipient.passed
    <3>1. recipient' = [recipient EXCEPT !.agreement = TRUE, !.scoreboard = w,
                                         !.m_winStartB = psdu.ssn, !.m_bufferedMpdus = {}]
      BY <2>1 DEF CreateRecipientAgreement, w
    <3> QED
      BY <1>3, <3>1 DEF Recipients
  <2>4. Position(psdu.ssn, base) \in Nat
    BY <1>4, PositionsAre
  <2>5. ASSUME NEW p \in Nat, Has(w, base, p)
        PROVE  FALSE
    <3> DEFINE start == Position(w.m_winStart, base)
    <3>1. start \in Nat /\ start <= p /\ p < start + BufferSize /\ At(w, p - start)
      BY <2>2, <2>4, <2>5 DEF Has
    <3>2. p - start \in Slots
      <4> HIDE DEF start
      <4> QED
        BY <3>1, SlotsIn DEF Slots
    <3> QED
      BY <2>2, <3>1, <3>2
  <2>6. Marks(recipient', base)
    BY <2>3, <2>5 DEF Marks
  <2>7. RequestedFirst'
    BY <1>5, <2>1 DEF RequestedFirst
  <2>8. ASSUME SetUpOnce
        PROVE  /\ ~recipient.agreement /\ ~Established(originator)
               /\ recipient.m_winStartB \in SeqNos /\ recipient.m_bufferedMpdus = {}
    <3>1. response.lastRequest = 0
      <4>1. response.lastRequest <= nRequests /\ response.lastRequest \in Nat
        BY <1>3 DEF RequestOK, Responses
      <4> QED
        BY <1>5, <1>13, <2>8, <4>1 DEF SetUpOnce
    <3>2. ~recipient.agreement /\ ~Established(originator)
      BY <1>3, <2>8, <3>1 DEF RequestOK, Sure, RequestedFirst
    <3>3. 0 \in SeqNos
      BY SpaceIs DEF SeqNos
    <3> QED
      BY <1>3, <3>2, <3>3 DEF RecipientOK
  <2>9. ASSUME SetUpOnce, NEW x \in Unsettled(base, sent)',
               Position(x.seq, base) < Position(recipient'.scoreboard.m_winStart, base)
        PROVE  FALSE
    <3>1. ~Established(originator) /\ x \in sent /\ x.id \in IdsOf(originator'.queue)
      BY <1>1, <1>10, <2>8, <2>9, NoPsduIs DEF Unsettled
    <3>2. PICK e \in originator.queue : x.id = e.id
      BY <1>11, <3>1 DEF IdsOf
    <3>3. Position(psdu.ssn, base) <= Position(x.seq, base)
      BY <1>4, <3>1, <3>2 DEF Sure, FirstNumbered
    <3>4. Position(x.seq, base) < Position(psdu.ssn, base) /\ Position(x.seq, base) \in Nat
      BY <2>2, <2>3, <2>9, <3>1, PositionsAre
    <3> DEFINE a == Position(psdu.ssn, base)
               b == Position(x.seq, base)
    <3>5. a \in Nat /\ b \in Nat /\ a <= b /\ b < a
      BY <2>4, <3>3, <3>4
    <3> HIDE DEF a, b
    <3> QED
      BY <3>5
  <2>10. SetUpOnce => Arrivals(recipient) \subseteq Arrivals(recipient')
    BY <2>3, <2>8 DEF Arrivals
  <2> HIDE DEF new
  <2> QED
    BY <1>1, <1>4, <1>10, <1>11, <2>6, <2>7, <2>8, <2>9, <2>10, EndsSure
<1> QED
  BY <1>12, <1>13

\* The originator starts with the packet that was numbered, or with the next number.
LEMMA ResponseEndsSure ==
  ASSUME NEW base, NEW sent, Safe(base, sent), Sure(base, sent), NEW arrives \in BOOLEAN,
         ResponseEnds(arrives)
  PROVE  Sure(base, sent)'
<1> DEFINE next == Position(m_nextSeq, base)
           o == WipeAllExpiredMpdus(originator)
           ssn == StartingSequence(o.queue, m_nextSeq)
           p == GotAddBaResponse(originator, m_nextSeq)
<1>1. /\ psdu.kind = "None" /\ response.queued /\ response' = [response EXCEPT !.queued = FALSE]
      /\ originator' = IF arrives THEN p ELSE originator
      /\ UNCHANGED <<psdu, m_nextSeq, nMpdus, nRequests, recipient, acked>>
  BY DEF ResponseEnds, MayStart
<1>2. /\ base \in SeqNos /\ sent \in SUBSET Mpdus /\ originator \in Originators
      /\ response \in Responses
      /\ OriginatorOK(originator, acked, base, sent, next, nMpdus)
      /\ PsduOK(base, sent, next) /\ RequestOK(base, next)
  BY SafeParts
<1>3. /\ response'.lastRequest = response.lastRequest /\ (SetUpOnce' <=> SetUpOnce)
      /\ psdu.mpdus = {} /\ (SetUpOnce => ~Established(originator))
  BY <1>1, <1>2 DEF Responses, SetUpOnce, PsduOK, RequestOK
<1> HIDE DEF next
<1>4. Marks(recipient, base)' /\ RequestedFirst'
  BY <1>1, <1>3 DEF Sure, Marks, RequestedFirst
<1>5. Delivered(base, sent)
  BY DEF Sure
<1>6. CASE ~arrives
  <2>1. originator' = originator
    BY <1>1, <1>6
  <2>2. FirstNumbered(base, sent)'
    BY <1>1, <2>1 DEF Sure, FirstNumbered
  <2>3. Paced(base)'
    BY <1>1, <1>3, <2>1 DEF Sure, Paced
  <2>4. Unsettled(base, sent)' = Unsettled(base, sent)
    BY <1>1, <2>1 DEF Unsettled
  <2>5. Delivered(base, sent)'
    BY <1>1, <1>3, <1>5, <2>4 DEF Delivered
  <2> QED
    BY <1>4, <2>2, <2>3, <2>5 DEF Sure
<1>7. CASE arrives
  <2> DEFINE w == NewWindow(ssn)
  <2>2. Peek(o, originator, acked, base, sent, next, nMpdus)
    BY <1>2, WipeOK
  <2>3. o.queue \in SUBSET originator.queue /\ o \in Originators
    BY <2>2 DEF Peek, OriginatorOK
  <2>1. originator' = [o EXCEPT !.request = originator.request, !.state = "ESTABLISHED", !.window = w]
    BY <1>1, <1>7, <2>3 DEF GotAddBaResponse, Originators
  <2>4. w.m_winStart = ssn
    BY DEF NewWindow
  <2> HIDE DEF o, w
  <2>5. Established(originator') /\ originator'.window = w
    BY <2>1, <2>3 DEF Originators, Established
  <2>6. FirstNumbered(base, sent)'
    BY <2>5 DEF FirstNumbered
  <2>7. Paced(base)'
    BY <1>1, <1>3 DEF Paced
  <2>8. ASSUME SetUpOnce, NEW x \in Unsettled(base, sent)'
        PROVE  x \in Unsettled(base, sent)
    <3>1. x \in sent /\ Position(ssn, base) <= Position(x.seq, base)
      BY <1>1, <2>4, <2>5, <2>8 DEF Unsettled
    <3>2. x.id \in IdsOf(originator.queue)
      BY <1>3, <2>3, <2>8, <3>1, StartsWithNumbered DEF Sure
    <3> QED
      BY <1>3, <2>8, <3>1, <3>2 DEF Unsettled
  <2>9. Delivered(base, sent)'
    BY <1>1, <1>3, <1>5, <2>8 DEF Delivered
  <2> QED
    BY <1>4, <2>6, <2>7, <2>9 DEF Sure
<1> QED
  BY <1>6, <1>7

\* What arrives moves the recipient's window past nothing that is not settled.
LEMMA MpduEndsSure ==
  ASSUME FewPackets, NEW base, NEW sent, Safe(base, sent), Sure(base, sent),
         NEW arrives \in BOOLEAN, MpduEnds(arrives)
  PROVE  Sure(base, sent)'
<1> DEFINE next == Position(m_nextSeq, base)
           m == First(psdu.left)
           q == [psdu EXCEPT !.left = @ \ {m}, !.arrived = @ \/ arrives]
<1>1. /\ psdu.left # {} /\ psdu' = q
      /\ recipient' = IF arrives THEN ReceiveMpdu(recipient, m) ELSE recipient
      /\ UNCHANGED <<originator, m_nextSeq, nMpdus, nRequests, response, acked, apart>>
  BY DEF MpduEnds
<1>2. /\ base \in SeqNos /\ sent \in SUBSET Mpdus /\ psdu \in Psdus /\ recipient \in Recipients
      /\ Numbering(base, sent, next, nMpdus) /\ RecipientOK(recipient, base, sent, next)
      /\ PsduOK(base, sent, next) /\ OneByOne /\ RequestOK(base, next)
  BY SafeParts
<1>3. SetUpOnce' <=> SetUpOnce
  BY <1>1 DEF SetUpOnce
<1>4. m \in psdu.left
  <2>1. \A x \in psdu.left : x.id \in Nat
    BY <1>2, MpdusAssumption DEF Psdus, Mpdus, Ids
  <2>2. PICK x : x \in psdu.left
    BY <1>1
  <2> QED
    BY <2>1, <2>2, FirstIs
<1> HIDE DEF m
<1>5. m \in psdu.mpdus /\ m \in sent
  BY <1>2, <1>4 DEF PsduOK
<1>6. /\ q.kind = psdu.kind /\ q.mpdus = psdu.mpdus /\ q.ssn = psdu.ssn
      /\ q.left = psdu.left \ {m} /\ (q.arrived <=> psdu.arrived \/ arrives)
  BY <1>2 DEF Psdus
<1> HIDE DEF q
<1>7. /\ psdu.kind = "Single" => psdu.mpdus = {m} /\ q.left = {}
      /\ FirstNumbered(base, sent) /\ Paced(base) /\ Delivered(base, sent) /\ RequestedFirst
      /\ Marks(recipient, base)
  BY <1>2, <1>5, <1>6 DEF Sure, Paced, PsduOK
<1>8. FirstNumbered(base, sent)' /\ Paced(base)'
  BY <1>1, <1>3, <1>6, <1>7 DEF FirstNumbered, Paced
<1>9. ASSUME NEW x \in Unsettled(base, sent)'
      PROVE  /\ x \in sent /\ x \in Unsettled(base, sent)
             /\ \/ /\ Established(originator)
                   /\ Position(originator.window.m_winStart, base) <= Position(x.seq, base)
                \/ ~Established(originator) /\ x.id \in IdsOf(originator.queue)
  BY <1>1, <1>6, <1>7, <1>9 DEF Unsettled
<1>10. CASE ~arrives
  <2>1. recipient' = recipient
    BY <1>1, <1>10
  <2>2. Delivered(base, sent)'
    BY <1>1, <1>3, <1>6, <1>7, <1>9, <1>10, <2>1 DEF Delivered
  <2> QED
    BY <1>1, <1>3, <1>7, <1>8, <2>1, <2>2 DEF Sure, Marks, RequestedFirst
<1>11. CASE arrives /\ ~recipient.agreement
  <2>1. \A x \in Arrivals(recipient) : x.id <= m.id
    BY <1>2, <1>4, <1>11 DEF RequestOK, OneByOne
  <2> HIDE DEF next
  <2>2. ~recipient'.agreement /\ Arrivals(recipient') = Arrivals(recipient) \cup {m}
    BY <1>1, <1>2, <1>5, <1>11, <2>1, ReceiveAloneOK
  <2>3. recipient.m_winStartB \in SeqNos
    <3>1. 0 \in SeqNos
      BY SpaceIs DEF SeqNos
    <3> QED
      BY <1>2, <1>11, <3>1 DEF RecipientOK
  <2>4. Delivered(base, sent)'
    BY <1>1, <1>3, <1>6, <1>7, <2>2, <2>3 DEF Delivered
  <2> QED
    BY <1>1, <1>3, <1>7, <1>8, <2>2, <2>4 DEF Sure, Marks, RequestedFirst
<1>12. CASE arrives /\ recipient.agreement
  <2> DEFINE p == NotifyReceivedMpdu(recipient, m)
             start == Position(recipient.scoreboard.m_winStart, base)
             vstart == Position(p.scoreboard.m_winStart, base)
             winStart == Position(originator.window.m_winStart, base)
             s == Position(m.seq, base)
  <2>1. recipient' = p
    BY <1>1, <1>12 DEF ReceiveMpdu
  <2> HIDE DEF next
  <2>2. /\ p.agreement /\ Arrivals(recipient) \subseteq Arrivals(p) /\ Marks(p, base)
        /\ p.m_winStartB \in SeqNos =>
              /\ recipient.m_winStartB \in SeqNos
              /\ vstart = start \/ vstart = s - BufferSize + 1
              /\ start <= s => m \in Arrivals(p)
    BY <1>2, <1>5, <1>7, <1>12, ReceivedMarks, NotifyReceivedMpduOK
  <2> HIDE DEF p
  <2>3. /\ s \in Nat /\ start \in Nat /\ winStart \in Nat /\ BufferSize \in Nat \ {0}
        /\ \A x \in sent : Position(x.seq, base) \in Nat
    BY <1>5, PositionsAre
  <2>4. ASSUME SetUpOnce, p.m_winStartB \in SeqNos, psdu.kind = "Single"
        PROVE  m \in Arrivals(p)
    <3>1. m \in Unsettled(base, sent)
      BY <1>4, <1>5, <2>4 DEF Unsettled
    <3>2. s < start => m \in Arrivals(recipient)
      BY <1>7, <1>12, <2>2, <2>4, <3>1 DEF Delivered
    <3>3. s < start \/ start <= s
      <4> HIDE DEF s, start
      <4> QED
        BY <2>3
    <3> QED
      BY <2>2, <2>4, <3>2, <3>3
  <2>5. ASSUME SetUpOnce, p.m_winStartB \in SeqNos, NEW x \in Unsettled(base, sent)',
               Position(x.seq, base) < vstart
        PROVE  x \in Arrivals(p)
    <3> DEFINE pos == Position(x.seq, base)
    <3>1. pos \in Nat
      BY <1>9, <2>3, <2>5
    <3>2. CASE vstart = start
      <4>1. x \in Arrivals(recipient)
        BY <1>7, <1>9, <1>12, <2>2, <2>5, <3>2 DEF Delivered
      <4> QED
        BY <2>2, <4>1
    <3>3. CASE vstart = s - BufferSize + 1 /\ Established(originator)
      <4>1. winStart <= pos /\ s < winStart + BufferSize /\ pos < vstart
        BY <1>5, <1>7, <1>9, <2>5, <3>3 DEF Paced
      <4> HIDE DEF winStart, pos, s, vstart
      <4> QED
        BY <2>3, <3>1, <3>3, <4>1
    <3>4. CASE vstart = s - BufferSize + 1 /\ ~Established(originator)
      <4>1. PICK e \in originator.queue : x.id = e.id
        BY <1>9, <3>4 DEF IdsOf
      <4>2. x \in psdu.mpdus
        BY <1>5, <1>7, <1>9, <3>4, <4>1 DEF FirstNumbered
      <4>3. x = m
        BY <1>2, <1>5, <3>4, <4>2 DEF OneByOne
      <4>4. pos = s /\ pos < vstart
        BY <2>5, <4>3
      <4> HIDE DEF pos, s, vstart
      <4> QED
        BY <2>3, <3>1, <3>4, <4>4
    <3> QED
      BY <2>2, <2>5, <3>2, <3>3, <3>4
  <2>6. Delivered(base, sent)'
    BY <1>1, <1>3, <1>6, <1>7, <2>1, <2>2, <2>4, <2>5 DEF Delivered
  <2> QED
    BY <1>1, <1>3, <1>7, <1>8, <1>12, <2>1, <2>2, <2>6 DEF Sure, RequestedFirst
<1> QED
  BY <1>10, <1>11, <1>12

\* Nothing has been numbered, nothing has arrived.
LEMMA InitSure ==
  ASSUME Init
  PROVE  Sure(m_nextSeq, {})
<1>1. /\ recipient = NoAgreement /\ psdu = NoPsdu /\ acked = {} /\ originator = NewOriginator
  BY DEF Init
<1>2. /\ ~recipient.agreement /\ psdu.kind = "None" /\ psdu.mpdus = {} /\ originator.queue = {}
  BY <1>1, NoPsduIs DEF NoAgreement, NewOriginator
<1> QED
  BY <1>1, <1>2 DEF Sure, Marks, FirstNumbered, Paced, RequestedFirst, Delivered

\* Every step keeps both invariants.
LEMMA NextSure ==
  ASSUME FewPackets, NEW base \in SeqNos, NEW sent \in SUBSET Mpdus,
         Safe(base, sent), Sure(base, sent), [Next]_vars
  PROVE  \E more \in SUBSET Mpdus : Safe(base, more)' /\ Sure(base, more)'
<1>1. Safe(base, sent) /\ Sure(base, sent)
  OBVIOUS
<1>3. CASE UNCHANGED vars
  <2>1. Safe(base, sent)'
    BY <1>1, <1>3 DEF vars, Safe, TypeOK, PsduOK, OneByOne, RequestOK, SetUpOnce
  <2>2. Unsettled(base, sent)' = Unsettled(base, sent)
    BY <1>3 DEF vars, Unsettled
  <2>3. Sure(base, sent)'
    BY <1>1, <1>3, <2>2
       DEF vars, Sure, Marks, FirstNumbered, Paced, RequestedFirst, Delivered, SetUpOnce
  <2> QED
    BY <2>1, <2>3
<1>4. CASE Enqueue
  BY <1>1, <1>4, EnqueueSafe, EnqueueSure
<1>5. ASSUME OriginatorMoves(base, sent)
      PROVE  Safe(base, sent)' /\ Sure(base, sent)'
  BY <1>1, <1>5, OriginatorStep, OriginatorMovesSure
<1>6. CASE Lifetime
  BY <1>1, <1>5, <1>6, LifetimeEndsMoves, RequestLifetimeEndsMoves DEF Lifetime
<1>7. CASE HasFramesToTransmit
  BY <1>1, <1>5, <1>7, HasFramesToTransmitMoves
<1>8. CASE ExpiredTrace
  BY <1>1, <1>5, <1>8, ExpiredTraceMoves
<1>9. CASE Timeout
  BY <1>1, <1>5, <1>9, AddBaResponseTimeoutMoves, ResetBaMoves DEF Timeout
<1>10. CASE SendBar
  BY <1>1, <1>10, SendBarSafe, SendBarSure
<1>11. CASE SendRequest
  BY <1>1, <1>11, SendRequestSafe, SendRequestSure
<1>12. ASSUME NEW fits \in Fits, SendAddBaRequest(fits)
       PROVE  Safe(base, sent)' /\ Sure(base, sent)'
  <2>1. fits \in BOOLEAN
    BY BlockAckAssumption
  <2> QED
    BY <1>1, <1>12, <2>1, SendAddBaRequestSafe, SendAddBaRequestSure
<1>13. CASE SendData
  BY <1>1, <1>13, SendDataSafe, SendDataSure
<1>14. CASE Send
  BY <1>10, <1>11, <1>12, <1>13, <1>14 DEF Send
<1>15. CASE Resolve
  <2>1. ASSUME NEW arrives \in BOOLEAN, MpduEnds(arrives)
        PROVE  Safe(base, sent)' /\ Sure(base, sent)'
    BY <1>1, <2>1, MpduEndsSafe, MpduEndsSure
  <2>2. ASSUME NEW answered \in BOOLEAN, AmpduEnds(answered)
        PROVE  Safe(base, sent)' /\ Sure(base, sent)'
    BY <1>1, <2>2, AmpduEndsSafe, AmpduEndsSure
  <2>3. ASSUME NEW arrives \in BOOLEAN, NEW answered \in BOOLEAN, BarEnds(arrives, answered)
        PROVE  Safe(base, sent)' /\ Sure(base, sent)'
    BY <1>1, <2>3, BarEndsSafe, BarEndsSure
  <2>4. ASSUME NEW answered \in BOOLEAN, NEW retry \in BOOLEAN, SingleEnds(answered, retry)
        PROVE  Safe(base, sent)' /\ Sure(base, sent)'
    BY <1>1, <2>4, SingleEndsSafe, SingleEndsSure
  <2>5. CASE NoResponseEnds
    BY <1>1, <2>5, NoResponseEndsSafe, NoResponseEndsSure
  <2>6. ASSUME NEW arrives \in BOOLEAN, NEW answered \in BOOLEAN, NEW retry \in BOOLEAN,
               RequestEnds(arrives, answered, retry)
        PROVE  Safe(base, sent)' /\ Sure(base, sent)'
    BY <1>1, <2>6, RequestEndsSafe, RequestEndsSure
  <2> QED
    BY <1>15, <2>1, <2>2, <2>3, <2>4, <2>5, <2>6 DEF Resolve
<1>16. CASE Respond
  BY <1>1, <1>16, ResponseEndsSafe, ResponseEndsSure DEF Respond
<1> QED
  BY <1>3, <1>4, <1>6, <1>7, <1>8, <1>9, <1>14, <1>15, <1>16 DEF Next

\* Both invariants hold in every state: the scoreboard of the recipient marks only
\* MPDUs that arrived, and RecipientBlockAckAgreement passes over no MPDU that the
\* originator may still take for acknowledged.
THEOREM ArrivalInvariant == ASSUME FewPackets PROVE Spec => []ArrivalInv
<1>1. Init => ArrivalInv
  <2>1. {} \in SUBSET Mpdus
    OBVIOUS
  <2> QED
    BY <2>1, InitSafe, InitSure DEF ArrivalInv
<1>2. ArrivalInv /\ [Next]_vars => ArrivalInv'
  BY NextSure DEF ArrivalInv
<1> QED
  BY <1>1, <1>2, PTL DEF Spec

\* An MPDU that BlockAckManager takes for acknowledged, from an ack or from a
\* BlockAck, is in the recipient's buffer or was handed up, as long as the agreement
\* was set up once and the start of the buffer is a sequence number.
THEOREM AcknowledgedArrives == ASSUME FewPackets PROVE Spec => []AckedArrives
<1>1. ArrivalInv => AckedArrives
  <2> SUFFICES ASSUME ArrivalInv, SetUpOnce, recipient.m_winStartB \in SeqNos
               PROVE  \A m \in acked : Arrived(m)
    BY DEF AckedArrives, WinStartBInSpace, WinStartB
  <2>1. acked \subseteq Arrivals(recipient)
    BY DEF ArrivalInv, Sure, Delivered
  <2> QED
    BY <2>1 DEF Arrived, Arrivals, Members
<1> QED
  BY <1>1, ArrivalInvariant, PTL

-----------------------------------------------------------------------------
(* Gaps are announced: an invariant that rests on the first two.            *)

\* The scoreboard marks only buffered MPDUs from the start of the buffer on.
MarksBuffered(r, base) ==
    r.agreement /\ r.m_winStartB \in SeqNos =>
        \A p \in Nat : Has(r.scoreboard, base, p) /\ Position(r.m_winStartB, base) <= p =>
            \E x \in r.m_bufferedMpdus : Position(x.seq, base) = p

\* The recipient does not wait for an MPDU that is, or may yet be, acknowledged.
AckedReached(base) ==
    SetUpOnce /\ recipient.agreement /\ recipient.m_winStartB \in SeqNos =>
        /\ \A x \in acked : Reached(recipient, x, base)
        /\ psdu.kind = "Single" /\ psdu.arrived =>
              \A x \in psdu.mpdus : Reached(recipient, x, base)

\* A request the recipient has not seen starts beyond all that is acknowledged.
RequestBeyond(base) ==
    SetUpOnce /\ originator.request.queued /\ response.lastRequest # nRequests =>
        /\ psdu.kind \in {"None", "Request"}
        /\ \A x \in acked : Position(x.seq, base) < Position(originator.request.ssn, base)

\* A BlockAckReq that is to be dequeued names the start of the transmit window.
BarCurrent ==
    psdu.kind = "Bar" /\ originator.bar.sent => psdu.ssn = originator.window.m_winStart

\* GapAnnounced, with positions.
Announced(base) ==
    SetUpOnce /\ ~apart /\ Established(originator) /\ recipient.m_winStartB \in SeqNos =>
        \/ Position(originator.window.m_winStart, base) <= Position(recipient.m_winStartB, base)
        \/ originator.bar.queued \/ originator.barIfData

Told(base) ==
    /\ MarksBuffered(recipient, base) /\ AckedReached(base) /\ RequestBeyond(base)
    /\ BarCurrent /\ Announced(base)

GapInv ==
    \E base \in SeqNos, sent \in SUBSET Mpdus : Safe(base, sent) /\ Sure(base, sent) /\ Told(base)

\* A gap that opens is announced, and an announcement that ends has closed it.
LEMMA StaysAnnounced ==
  ASSUME NEW base, NEW sent, Safe(base, sent), Announced(base), NEW more, Safe(base, more)',
         nRequests' = nRequests, apart' = apart,
         Established(originator') <=> Established(originator),
         NEW answered,
         SetUpOnce /\ Established(originator) =>
            StillAnnounces(originator', originator, acked', base, answered),
         recipient'.m_winStartB \in SeqNos =>
            /\ recipient.m_winStartB \in SeqNos
            /\ Position(recipient.m_winStartB, base) <= Position(recipient'.m_winStartB, base)
            /\ answered => Position(originator.window.m_winStart, base)
                           <= Position(recipient'.m_winStartB, base),
         SetUpOnce /\ recipient'.agreement /\ recipient'.m_winStartB \in SeqNos =>
            \A x \in acked' : Reached(recipient', x, base)
  PROVE  Announced(base)'
<1> SUFFICES ASSUME SetUpOnce, ~apart, Established(originator), recipient'.m_winStartB \in SeqNos,
                    ~originator'.bar.queued, ~originator'.barIfData
             PROVE  Position(originator'.window.m_winStart, base) <= Position(recipient'.m_winStartB, base)
  BY DEF Announced, SetUpOnce
<1> DEFINE S == Position(originator.window.m_winStart, base)
           S2 == Position(originator'.window.m_winStart, base)
           B == Position(recipient.m_winStartB, base)
           B2 == Position(recipient'.m_winStartB, base)
<1>1. /\ base \in SeqNos /\ originator \in Originators /\ originator' \in Originators
      /\ RecipientOK(recipient', base, more, Position(m_nextSeq', base))
      /\ RequestOK(base, Position(m_nextSeq, base))'
  BY SafeParts DEF Safe, TypeOK
<1>2. recipient'.agreement
  BY <1>1 DEF RequestOK
<1>3. recipient.m_winStartB \in SeqNos /\ B <= B2 /\ (answered => S <= B2)
  OBVIOUS
<1>4. S \in Nat /\ S2 \in Nat /\ B \in Nat /\ B2 \in Nat
  BY <1>1, <1>3, PositionType DEF Originators, Windows
<1>5. ~originator.barIfData /\ (originator.bar.queued => answered) /\ PassedAcked(S, S2, acked', base)
  BY DEF StillAnnounces
<1>6. S <= B \/ originator.bar.queued
  BY <1>3, <1>5 DEF Announced
<1>7. S <= B2
  <2> HIDE DEF S, B, B2
  <2> QED
    BY <1>3, <1>4, <1>5, <1>6
<1>8. ASSUME B2 < S2
      PROVE  FALSE
  <2>1. PICK m \in acked' : Position(m.seq, base) = B2
    BY <1>4, <1>5, <1>7, <1>8 DEF PassedAcked
  <2>2. Reached(recipient', m, base)
    BY <1>2
  <2>3. m \in recipient'.m_bufferedMpdus
    <3>1. ~(Position(m.seq, base) < B2)
      <4> HIDE DEF B2
      <4> QED
        BY <1>4, <2>1
    <3> QED
      BY <2>2, <3>1 DEF Reached
  <2>4. B2 < Position(m.seq, base)
    BY <1>1, <1>2, <2>3 DEF RecipientOK
  <2> HIDE DEF B2
  <2> QED
    BY <1>4, <2>1, <2>4
<1> HIDE DEF S2, B2
<1>9. S2 <= B2
  BY <1>4, <1>8
<1> QED
  BY <1>9 DEF S2, B2

\* With an agreement of the originator, the request has been seen.
LEMMA UnseenIs ==
  ASSUME NEW base, NEW sent, Safe(base, sent), SetUpOnce, originator.request.queued,
         response.lastRequest # nRequests
  PROVE  ~Established(originator)
<1>1. /\ nRequests > 0 /\ response.lastRequest <= nRequests
      /\ response.lastRequest = 0 => ~Established(originator)
  BY SafeParts DEF RequestOK
<1>2. nRequests \in Nat /\ response.lastRequest \in Nat
  BY SafeParts DEF Responses
<1> QED
  BY <1>1, <1>2 DEF SetUpOnce

\* The recipient does nothing, and nothing is acknowledged.
LEMMA RecipientWaits ==
  ASSUME NEW base, NEW sent, Safe(base, sent), Told(base), NEW more, Safe(base, more)',
         UNCHANGED <<nRequests, recipient, response, acked, apart>>,
         Established(originator') <=> Established(originator),
         Announces(originator', originator),
         originator'.request.queued =>
            /\ originator.request.queued /\ originator'.request.ssn = originator.request.ssn
            /\ Established(originator) \/ psdu'.kind \in {"None", "Request", psdu.kind},
         psdu'.kind = "Single" /\ psdu'.arrived =>
            psdu.kind = "Single" /\ psdu.arrived /\ psdu'.mpdus = psdu.mpdus,
         psdu'.kind = "Bar" /\ originator'.bar.sent => psdu'.ssn = originator'.window.m_winStart
  PROVE  Told(base)'
<1>1. base \in SeqNos /\ originator \in Originators /\ (SetUpOnce' <=> SetUpOnce)
  BY SafeParts DEF SetUpOnce
<1>2. MarksBuffered(recipient', base)
  BY DEF Told
<1>3. AckedReached(base)'
  BY <1>1 DEF Told, AckedReached
<1>4. RequestBeyond(base)'
  BY <1>1, UnseenIs DEF Told, RequestBeyond
<1>5. BarCurrent'
  BY DEF BarCurrent
<1>6. Announced(base)'
  <2>1. StillAnnounces(originator', originator, acked', base, FALSE)
    BY <1>1, AnnouncesStill
  <2>2. recipient.m_winStartB \in SeqNos =>
           Position(recipient.m_winStartB, base) <= Position(recipient.m_winStartB, base)
    BY <1>1, PositionType
  <2>3. SetUpOnce /\ recipient'.agreement /\ recipient'.m_winStartB \in SeqNos =>
           \A x \in acked' : Reached(recipient', x, base)
    BY DEF Told, AckedReached
  <2> QED
    BY <2>1, <2>2, <2>3, StaysAnnounced DEF Told
<1> QED
  BY <1>2, <1>3, <1>4, <1>5, <1>6 DEF Told

\* The originator alone does something.
LEMMA OriginatorMovesTold ==
  ASSUME NEW base, NEW sent, Safe(base, sent), Told(base), OriginatorMoves(base, sent)
  PROVE  Told(base)'
<1>1. UNCHANGED <<psdu, nRequests, recipient, response, acked, apart>>
  BY DEF OriginatorMoves
<1>2. /\ Established(originator') <=> Established(originator)
      /\ Announces(originator', originator)
      /\ originator'.request.queued =>
            originator.request.queued /\ originator'.request.ssn = originator.request.ssn
  BY DEF OriginatorMoves, Follows
<1>3. psdu'.kind = "Bar" /\ originator'.bar.sent => psdu'.ssn = originator'.window.m_winStart
  BY <1>1, <1>2 DEF Told, BarCurrent, Announces, NewBar
<1>4. Safe(base, sent)'
  BY OriginatorStep
<1> QED
  BY <1>1, <1>2, <1>3, <1>4, RecipientWaits

\* A packet is enqueued.
LEMMA EnqueueTold ==
  ASSUME NEW base, NEW sent, Safe(base, sent), Told(base), Enqueue
  PROVE  Told(base)'
<1> DEFINE o == WipeAllExpiredMpdus(originator)
           e == [id |-> nMpdus, seq |-> NoSeq, retry |-> FALSE, inFlight |-> FALSE]
           next == Position(m_nextSeq, base)
<1>1. /\ originator' = [o EXCEPT !.queue = @ \cup {e}]
      /\ UNCHANGED <<psdu, nRequests, recipient, response, acked, apart>>
  BY DEF Enqueue
<1>2. /\ originator \in Originators /\ base \in SeqNos /\ sent \in SUBSET Mpdus
      /\ OriginatorOK(originator, acked, base, sent, next, nMpdus)
  BY SafeParts
<1> HIDE DEF next, e
<1>3. Peek(o, originator, acked, base, sent, next, nMpdus)
  BY <1>2, WipeOK
<1> HIDE DEF o
<1>4. o \in Originators /\ o.state = originator.state /\ Announces(o, originator)
      /\ (o.request = originator.request \/ o.request = NoRequest)
  BY <1>3 DEF Peek, OriginatorOK
<1>5. /\ originator'.state = o.state /\ originator'.window = o.window /\ originator'.bar = o.bar
      /\ originator'.barIfData = o.barIfData /\ originator'.request = o.request
  BY <1>1, <1>4 DEF Originators
<1>6. ~NoRequest.queued
  BY DEF NoRequest
<1>7. /\ Established(originator') <=> Established(originator)
      /\ Announces(originator', originator)
      /\ originator'.request.queued =>
            originator.request.queued /\ originator'.request.ssn = originator.request.ssn
  BY <1>4, <1>5, <1>6 DEF Announces, Established
<1>8. psdu'.kind = "Bar" /\ originator'.bar.sent => psdu'.ssn = originator'.window.m_winStart
  BY <1>1, <1>7 DEF Told, BarCurrent, Announces, NewBar
<1>9. Safe(base, sent)'
  BY EnqueueSafe
<1> QED
  BY <1>1, <1>7, <1>8, <1>9, RecipientWaits

\* A BlockAckReq is sent with the start of the transmit window.
LEMMA SendBarTold ==
  ASSUME NEW base, NEW sent, Safe(base, sent), Told(base), SendBar
  PROVE  Told(base)'
<1> DEFINE o == GetBar(originator)
           p == [o EXCEPT !.bar.sent = TRUE]
           next == Position(m_nextSeq, base)
<1>1. /\ psdu' = Psdu("Bar", {}, o.window.m_winStart) /\ originator' = p /\ o.bar.queued
      /\ UNCHANGED <<m_nextSeq, nMpdus, nRequests, recipient, response, acked, apart>>
  BY DEF SendBar
<1>2. /\ originator \in Originators /\ base \in SeqNos /\ sent \in SUBSET Mpdus
      /\ OriginatorOK(originator, acked, base, sent, next, nMpdus)
  BY SafeParts
<1> HIDE DEF next
<1>3. Peek(o, originator, acked, base, sent, next, nMpdus)
  BY <1>2, GetBarOK
<1> HIDE DEF o
<1>4. o \in Originators /\ o.state = originator.state
      /\ OriginatorOK(o, acked, base, sent, next, nMpdus)
  BY <1>3 DEF Peek, OriginatorOK
<1>5. Established(originator)
  <2>1. ~NoBar.queued
    BY DEF NoBar
  <2> QED
    BY <1>1, <1>4, <2>1 DEF OriginatorOK, Established
<1>6. /\ p.state = o.state /\ p.window = o.window /\ p.bar.queued /\ p.request = o.request
  BY <1>1, <1>4 DEF Originators, Bars
<1>7. o.window.m_winStart \in SeqNos
  BY <1>4 DEF Originators, Windows
<1>8. psdu'.kind = "Bar" /\ psdu'.ssn = o.window.m_winStart
  BY <1>1, <1>7, PsduIs
<1> HIDE DEF p
<1>9. SetUpOnce' <=> SetUpOnce
  BY <1>1 DEF SetUpOnce
<1>10. MarksBuffered(recipient', base) /\ AckedReached(base)'
  BY <1>1, <1>8, <1>9 DEF Told, AckedReached
<1>11. RequestBeyond(base)'
  <2>1. originator'.request.queued => originator.request.queued
    <3>1. ~NoRequest.queued
      BY DEF NoRequest
    <3> QED
      BY <1>1, <1>3, <1>6, <3>1 DEF Peek
  <2> QED
    BY <1>1, <1>5, <1>9, <2>1, UnseenIs DEF RequestBeyond
<1>12. BarCurrent' /\ Announced(base)'
  BY <1>1, <1>6, <1>8 DEF BarCurrent, Announced
<1> QED
  BY <1>10, <1>11, <1>12 DEF Told

\* The request is sent again.
LEMMA SendRequestTold ==
  ASSUME NEW base, NEW sent, Safe(base, sent), Told(base), SendRequest
  PROVE  Told(base)'
<1> DEFINE o == Peeked
           p == [o EXCEPT !.request.inFlight = TRUE]
<1>1. /\ originator' = p /\ psdu' = Psdu("Request", {}, o.request.ssn)
      /\ UNCHANGED <<nRequests, recipient, response, acked, apart>>
  BY DEF SendRequest
<1>2. /\ o \in Originators /\ o.state = originator.state /\ Announces(o, originator)
      /\ o.request.queued => o.request = originator.request
  BY PeekedOK
<1> HIDE DEF o
<1>3. /\ p.state = o.state /\ p.window = o.window /\ p.bar = o.bar /\ p.barIfData = o.barIfData
      /\ p.request.queued = o.request.queued /\ p.request.ssn = o.request.ssn
      /\ o.request.ssn \in SeqNos
  BY <1>2 DEF Originators, Requests
<1>4. psdu'.kind = "Request"
  BY <1>1, <1>3, PsduIs
<1> HIDE DEF p
<1>5. /\ Established(originator') <=> Established(originator)
      /\ Announces(originator', originator)
      /\ originator'.request.queued =>
            originator.request.queued /\ originator'.request.ssn = originator.request.ssn
  BY <1>1, <1>2, <1>3 DEF Announces, Established
<1>6. Safe(base, sent)'
  BY SendRequestSafe
<1> QED
  BY <1>1, <1>4, <1>5, <1>6, RecipientWaits

\* Data are sent.
LEMMA SendDataTold ==
  ASSUME NEW base, NEW sent, Safe(base, sent), Told(base),
         NEW more, Safe(base, more)', DataLeave(base, sent, more)
  PROVE  Told(base)'
<1>1. /\ UNCHANGED <<nRequests, recipient, response, acked, apart>>
      /\ Established(originator') <=> Established(originator)
      /\ Announces(originator', originator)
      /\ ~originator'.request.queued /\ ~psdu'.arrived /\ psdu'.kind # "Bar"
  BY DEF DataLeave, Established
<1> QED
  BY <1>1, RecipientWaits

\* The request starts beyond what is acknowledged.
LEMMA SendAddBaRequestTold ==
  ASSUME NEW base, NEW sent, Safe(base, sent), Told(base), NEW fits \in BOOLEAN,
         SendAddBaRequest(fits)
  PROVE  Told(base)'
<1> DEFINE C == Candidates(Peeked)
           ssn == StartingSequence(C, m_nextSeq)
           o == CreateOriginatorAgreement(Peeked, ssn)
           request == [queued |-> TRUE, inFlight |-> TRUE, ssn |-> ssn, before |-> nMpdus,
                       expired |-> FALSE]
           p == [o EXCEPT !.request = request]
<1>1. /\ psdu.kind = "None" /\ ~Peeked.request.queued /\ Peeked.state \in {"NONE", "RESET"}
      /\ nRequests' = nRequests + 1
      /\ originator' = IF fits THEN p ELSE o
      /\ psdu' = IF fits THEN Psdu("Request", {}, ssn) ELSE psdu
      /\ UNCHANGED <<m_nextSeq, nMpdus, recipient, response, acked, apart>>
  BY DEF SendAddBaRequest, MayStart, NeedSetupBlockAck
<1>2. /\ Peeked \in Originators /\ Peeked.state = originator.state
      /\ Peeked.queue \subseteq originator.queue
  BY PeekedOK
<1>3. nRequests \in Nat
  BY SafeParts
<1>4. ~Established(originator)
  BY <1>1, <1>2 DEF Established
<1>5. ssn \in SeqNos /\ \A x \in acked : Position(x.seq, base) < Position(ssn, base)
  <2>1. C \in SUBSET originator.queue
    BY <1>2 DEF Candidates
  <2> QED
    BY <1>4, <2>1, StartingSequenceOK
<1> HIDE DEF C, ssn
<1>6. /\ o.state = "PENDING" /\ o.request = Peeked.request
      /\ p.state = "PENDING" /\ p.request = request
  BY <1>2 DEF CreateOriginatorAgreement, Originators
<1>7. psdu'.kind \in {"None", "Request"}
  <2>1. fits => psdu'.kind = "Request"
    BY <1>1, <1>5, PsduIs
  <2> QED
    BY <1>1, <2>1
<1>8. request.ssn = ssn
  OBVIOUS
<1> HIDE DEF o, p, request
<1>9. ~Established(originator') /\ (originator'.request.queued => originator'.request.ssn = ssn)
  BY <1>1, <1>6, <1>8 DEF Established
<1>10. SetUpOnce' => SetUpOnce
  BY <1>1, <1>3 DEF SetUpOnce
<1>11. MarksBuffered(recipient', base) /\ AckedReached(base)'
  BY <1>1, <1>7, <1>10 DEF Told, AckedReached
<1>12. RequestBeyond(base)'
  BY <1>1, <1>5, <1>7, <1>9 DEF RequestBeyond
<1>13. BarCurrent' /\ Announced(base)'
  BY <1>7, <1>9 DEF BarCurrent, Announced
<1> QED
  BY <1>11, <1>12, <1>13 DEF Told

\* What is marked when an MPDU arrives is buffered, or before the start of the buffer.
LEMMA ReceivedBuffered ==
  ASSUME FewPackets, NEW base, NEW sent, NEW next, NEW n, Numbering(base, sent, next, n),
         NEW r, RecipientOK(r, base, sent, next), r.agreement, NEW m \in sent, MarksBuffered(r, base)
  PROVE  MarksBuffered(NotifyReceivedMpdu(r, m), base)
<1> DEFINE p == NotifyReceivedMpdu(r, m)
           w == r.scoreboard
           v == p.scoreboard
           start == Position(w.m_winStart, base)
           startB == Position(r.m_winStartB, base)
           startB2 == Position(p.m_winStartB, base)
           s == Position(m.seq, base)
<1>1. /\ p.agreement /\ v = Scored(w, m.seq)
      /\ p.m_winStartB \in SeqNos =>
            r.m_winStartB \in SeqNos /\ MovesUp(p, r, base) /\ Reached(p, m, base)
  BY NotifyReceivedMpduOK
<1> HIDE DEF p, v
<1> SUFFICES ASSUME p.m_winStartB \in SeqNos, NEW q \in Nat, Has(v, base, q), startB2 <= q
             PROVE  \E x \in p.m_bufferedMpdus : Position(x.seq, base) = q
  BY DEF MarksBuffered, p, v
<1>2. r.m_winStartB \in SeqNos /\ MovesUp(p, r, base) /\ Reached(p, m, base)
  BY <1>1
<1>3. /\ base \in SeqNos /\ sent \in SUBSET Mpdus /\ next \in Nat /\ next <= MaxMpdus
      /\ MaxMpdus \in Nat
  <2>1. base \in SeqNos /\ sent \in SUBSET Mpdus /\ next \in 0..n /\ n \in 0..MaxMpdus
    BY DEF Numbering
  <2> QED
    BY <2>1, MpdusAssumption
<1>4. m.seq \in SeqNos /\ s \in Nat /\ s <= MaxMpdus
  BY <1>3, SentIs
<1>5. Buffering(r, base, sent, next)
  BY <1>2, <1>3, BufferingIs
<1>6. w \in Windows /\ w.m_winStart \in SeqNos /\ start <= startB /\ startB <= next
  BY <1>5 DEF Buffering, Recipients, Windows
<1>7. start \in Nat /\ startB \in Nat /\ startB2 \in Nat /\ start <= MaxMpdus
  <2>1. start \in Nat /\ startB \in Nat /\ startB2 \in Nat
    BY <1>2, <1>3, <1>6, PositionType
  <2> HIDE DEF start, startB, startB2
  <2> QED
    BY <1>3, <1>6, <2>1
<1>8. Has(w, base, q) \/ q = s
  <2>1. LET u == Scored(w, m.seq)
        IN  /\ s < start => u = w
            /\ start <= s => \A k \in Nat : Has(u, base, k) => Has(w, base, k) \/ k = s
    BY <1>3, <1>4, <1>6, <1>7, ScoredIs
  <2>2. s < start \/ start <= s
    <3> HIDE DEF s, start
    <3> QED
      BY <1>4, <1>7
  <2> QED
    BY <1>1, <2>1, <2>2
<1>9. startB <= q
  <2>1. startB <= startB2
    BY <1>2 DEF MovesUp
  <2> HIDE DEF startB, startB2
  <2> QED
    BY <1>7, <2>1
<1>10. \E x : Reached(p, x, base) /\ Position(x.seq, base) = q
  <2>1. Has(w, base, q) => \E x \in r.m_bufferedMpdus : Position(x.seq, base) = q
    BY <1>2, <1>9 DEF MarksBuffered
  <2> QED
    BY <1>2, <1>8, <2>1 DEF MovesUp
<1>11. PICK x : Reached(p, x, base) /\ Position(x.seq, base) = q
  BY <1>10
<1>12. ~(Position(x.seq, base) < startB2)
  <2> HIDE DEF startB2
  <2> QED
    BY <1>7, <1>11
<1> QED
  BY <1>11, <1>12 DEF Reached

\* A BlockAckReq marks nothing.
LEMMA BarBuffered ==
  ASSUME FewPackets, NEW base, NEW sent, NEW next, NEW n, Numbering(base, sent, next, n),
         NEW r, RecipientOK(r, base, sent, next), r.agreement,
         NEW seq \in SeqNos, Position(seq, base) <= next, MarksBuffered(r, base)
  PROVE  MarksBuffered(NotifyReceivedBar(r, seq), base)
<1> DEFINE p == NotifyReceivedBar(r, seq)
           w == r.scoreboard
           v == p.scoreboard
           start == Position(w.m_winStart, base)
           startB == Position(r.m_winStartB, base)
           startB2 == Position(p.m_winStartB, base)
           s == Position(seq, base)
<1>1. /\ v = ScoredBar(w, seq)
      /\ p.m_winStartB \in SeqNos => r.m_winStartB \in SeqNos /\ MovesUp(p, r, base)
  BY NotifyReceivedBarOK
<1> HIDE DEF p, v
<1> SUFFICES ASSUME p.m_winStartB \in SeqNos, NEW q \in Nat, Has(v, base, q), startB2 <= q
             PROVE  \E x \in p.m_bufferedMpdus : Position(x.seq, base) = q
  BY DEF MarksBuffered, p, v
<1>2. r.m_winStartB \in SeqNos /\ MovesUp(p, r, base)
  BY <1>1
<1>3. /\ base \in SeqNos /\ sent \in SUBSET Mpdus /\ next \in Nat /\ next <= MaxMpdus
      /\ MaxMpdus \in Nat
  <2>1. base \in SeqNos /\ sent \in SUBSET Mpdus /\ next \in 0..n /\ n \in 0..MaxMpdus
    BY DEF Numbering
  <2> QED
    BY <2>1, MpdusAssumption
<1>4. Buffering(r, base, sent, next)
  BY <1>2, <1>3, BufferingIs
<1>5. w \in Windows /\ w.m_winStart \in SeqNos /\ start <= startB /\ startB <= next
  BY <1>4 DEF Buffering, Recipients, Windows
<1>6. startB \in Nat /\ startB2 \in Nat /\ start <= MaxMpdus /\ s <= MaxMpdus
  <2>1. start \in Nat /\ startB \in Nat /\ startB2 \in Nat /\ s \in Nat /\ s <= next
    BY <1>2, <1>3, <1>5, PositionType
  <2> HIDE DEF start, startB, startB2, s
  <2> QED
    BY <1>3, <1>5, <2>1
<1>7. Has(w, base, q)
  <2>1. LET u == ScoredBar(w, seq)
        IN  \A k \in Nat : Has(u, base, k) => Has(w, base, k)
    BY <1>3, <1>5, <1>6, ScoredBarIs
  <2> QED
    BY <1>1, <2>1
<1>8. startB <= q
  <2>1. startB <= startB2
    BY <1>2 DEF MovesUp
  <2> HIDE DEF startB, startB2
  <2> QED
    BY <1>6, <2>1
<1>9. PICK x \in r.m_bufferedMpdus : Position(x.seq, base) = q
  BY <1>2, <1>7, <1>8 DEF MarksBuffered
<1>10. ~(Position(x.seq, base) < startB2)
  <2> HIDE DEF startB2
  <2> QED
    BY <1>6, <1>9
<1> QED
  BY <1>2, <1>9, <1>10 DEF MovesUp, Reached

\* A BlockAck acknowledges what is buffered or before the start of the buffer.
LEMMA GotReached ==
  ASSUME FewPackets, NEW base, NEW sent, Safe(base, sent), NEW r,
         RecipientOK(r, base, sent, Position(m_nextSeq, base)), r.agreement, r.m_winStartB \in SeqNos,
         MarksBuffered(r, base), BlockAckArrives(r)
  PROVE  \A x \in acked' : x \in acked \/ Reached(r, x, base)
<1> DEFINE next == Position(m_nextSeq, base)
           received == {m \in Members(originator.outstanding) : IsPacketReceived(r, m.seq)}
           got == Only(originator.outstanding, received)
           w == r.scoreboard
           start == Position(w.m_winStart, base)
           startB == Position(r.m_winStartB, base)
<1>1. acked' = acked \cup Members(got)
  BY DEF BlockAckArrives
<1>2. /\ base \in SeqNos /\ originator \in Originators /\ next \in Nat /\ next <= MaxMpdus
      /\ OriginatorOK(originator, acked, base, sent, next, nMpdus)
      /\ Numbering(base, sent, next, nMpdus)
  BY SafeParts
<1>3. Members(got) = Members(originator.outstanding) \cap received
  <2>1. originator.outstanding \in Seq(Mpdus)
    BY <1>2 DEF Originators
  <2> HIDE DEF received
  <2> QED
    BY <1>2, <2>1, OnlyIs
<1> HIDE DEF got
<1>4. /\ w \in Windows /\ w.m_winStart \in SeqNos /\ start <= startB /\ startB <= next
      /\ r.m_bufferedMpdus \subseteq sent
  BY DEF RecipientOK, Recipients, Windows, Arrivals
<1>5. start \in Nat /\ start <= next /\ startB \in Nat
  <2>1. start \in Nat /\ startB \in Nat
    BY <1>2, <1>4, PositionType
  <2> HIDE DEF start, startB, next
  <2> QED
    BY <1>2, <1>4, <2>1
<1>6. ASSUME NEW x \in Members(originator.outstanding), x \in received
      PROVE  Reached(r, x, base)
  <2> DEFINE p == Position(x.seq, base)
  <2>1. x \in sent /\ x.seq \in SeqNos /\ p \in Nat
    BY <1>2, SentIs DEF OriginatorOK
  <2>2. x.seq \in Marked(w)
    BY <1>6 DEF IsPacketReceived
  <2>3. Has(w, base, p)
    <3> HIDE DEF next
    <3>1. PICK d \in Slots : At(w, d) /\ p = start + d
      BY <1>2, <1>4, <1>5, <2>1, <2>2, MarkedIs
    <3>2. start <= p /\ p < start + BufferSize /\ p - start = d
      <4> HIDE DEF p, start
      <4> QED
        BY <1>5, <3>1, SlotsIn
    <3> QED
      BY <3>1, <3>2 DEF Has
  <2>4. p < startB \/ startB <= p
    <3> HIDE DEF p, startB
    <3> QED
      BY <1>5, <2>1
  <2>5. ASSUME startB <= p
        PROVE  x \in r.m_bufferedMpdus
    <3>1. PICK y \in r.m_bufferedMpdus : Position(y.seq, base) = p
      BY <2>1, <2>3, <2>5 DEF MarksBuffered
    <3>2. x = y
      BY <1>2, <1>4, <2>1, <3>1, SentOnce
    <3> QED
      BY <3>1, <3>2
  <2> QED
    BY <2>4, <2>5 DEF Reached
<1> QED
  BY <1>1, <1>3, <1>6

\* What has to be shown of a step that ends an exchange.
LEMMA EndsTold ==
  ASSUME NEW base, NEW sent, Safe(base, sent), Told(base), Safe(base, sent)', psdu' = NoPsdu,
         UNCHANGED <<nRequests, response, apart>>,
         Established(originator') <=> Established(originator),
         originator'.request.queued =>
            originator.request.queued /\ originator'.request.ssn = originator.request.ssn,
         NEW answered,
         SetUpOnce /\ Established(originator) =>
            StillAnnounces(originator', originator, acked', base, answered),
         recipient'.agreement <=> recipient.agreement,
         recipient'.agreement /\ recipient'.m_winStartB \in SeqNos =>
            /\ recipient.m_winStartB \in SeqNos /\ MovesUp(recipient', recipient, base)
            /\ answered => Position(originator.window.m_winStart, base)
                           <= Position(recipient'.m_winStartB, base)
            /\ SetUpOnce => \A x \in acked' : x \in acked \/ Reached(recipient', x, base),
         MarksBuffered(recipient', base),
         psdu.kind \in {"None", "Request"} => acked' = acked
  PROVE  Told(base)'
<1>1. /\ base \in SeqNos /\ (SetUpOnce' <=> SetUpOnce) /\ psdu'.kind = "None"
      /\ sent \subseteq Mpdus /\ acked \subseteq sent
      /\ RequestOK(base, Position(m_nextSeq, base))'
  BY SafeParts, NoPsduIs DEF SetUpOnce, Safe
<1>2. \A x \in acked : x.seq \in SeqNos
  BY <1>1 DEF Mpdus
<1>3. SetUpOnce /\ recipient'.agreement /\ recipient'.m_winStartB \in SeqNos =>
         \A x \in acked' : Reached(recipient', x, base)
  BY <1>1, <1>2, ReachedStays DEF Told, AckedReached
<1>4. AckedReached(base)'
  BY <1>1, <1>3 DEF AckedReached
<1>5. RequestBeyond(base)'
  BY <1>1 DEF Told, RequestBeyond
<1>6. BarCurrent'
  BY <1>1 DEF BarCurrent
<1>7. Announced(base)'
  <2>1. CASE Established(originator)
    <3>1. recipient'.agreement
      BY <1>1, <2>1 DEF RequestOK
    <3>2. recipient'.m_winStartB \in SeqNos =>
            /\ recipient.m_winStartB \in SeqNos
            /\ Position(recipient.m_winStartB, base) <= Position(recipient'.m_winStartB, base)
            /\ answered => Position(originator.window.m_winStart, base)
                           <= Position(recipient'.m_winStartB, base)
      BY <3>1 DEF MovesUp
    <3> QED
      BY <1>3, <3>2, StaysAnnounced DEF Told
  <2>2. CASE ~Established(originator)
    BY <2>2 DEF Announced
  <2> QED
    BY <2>1, <2>2
<1> QED
  BY <1>4, <1>5, <1>6, <1>7 DEF Told

\* A recipient that does nothing.
LEMMA MovesItself ==
  ASSUME NEW base \in SeqNos, NEW r, r.m_winStartB \in SeqNos
  PROVE  MovesUp(r, r, base)
<1>1. Position(r.m_winStartB, base) \in Nat
  BY PositionType
<1> QED
  BY <1>1 DEF MovesUp, Reached

\* An MPDU with Block Ack policy has been sent.
LEMMA NoResponseEndsTold ==
  ASSUME NEW base, NEW sent, Safe(base, sent), Told(base), NoResponseEnds
  PROVE  Told(base)'
<1> DEFINE next == Position(m_nextSeq, base)
<1>1. /\ psdu' = NoPsdu /\ originator' = GetBar(originator)
      /\ UNCHANGED <<m_nextSeq, nMpdus, nRequests, recipient, response, acked, apart>>
  BY DEF NoResponseEnds, Ends
<1>2. /\ originator \in Originators /\ base \in SeqNos /\ sent \in SUBSET Mpdus
      /\ OriginatorOK(originator, acked, base, sent, next, nMpdus)
  BY SafeParts
<1> HIDE DEF next
<1>3. Follows(originator', originator, acked, base, sent, next, nMpdus)
  BY <1>1, <1>2, GetBarOK, PeekFollows
<1>4. /\ Established(originator') <=> Established(originator)
      /\ Announces(originator', originator)
      /\ originator'.request.queued =>
            originator.request.queued /\ originator'.request.ssn = originator.request.ssn
  BY <1>3 DEF Follows
<1>5. psdu'.kind = "None"
  BY <1>1, NoPsduIs
<1>6. Safe(base, sent)'
  BY NoResponseEndsSafe
<1> QED
  BY <1>1, <1>4, <1>5, <1>6, RecipientWaits

\* An A-MPDU ends with a BlockAck or without one.
LEMMA AmpduEndsTold ==
  ASSUME FewPackets, NEW base, NEW sent, Safe(base, sent), Told(base), NEW answered,
         AmpduEnds(answered)
  PROVE  Told(base)'
<1> DEFINE next == Position(m_nextSeq, base)
<1>1. /\ psdu.kind = "Ampdu" /\ psdu' = NoPsdu
      /\ IF answered THEN BlockAckArrives(recipient) ELSE BlockAckTimeout
      /\ UNCHANGED <<m_nextSeq, nMpdus, nRequests, recipient, response, apart>>
  BY DEF AmpduEnds, Ends
<1>2. /\ OneByOne /\ RequestOK(base, next) /\ RecipientOK(recipient, base, sent, next)
      /\ base \in SeqNos
  BY SafeParts
<1>3. Established(originator)
  BY <1>1, <1>2 DEF OneByOne
<1>4. recipient.agreement /\ MarksBuffered(recipient, base)
  BY <1>2, <1>3 DEF RequestOK, Told
<1>5. recipient.m_winStartB \in SeqNos =>
         \A x \in acked' : x \in acked \/ Reached(recipient, x, base)
  <2>1. CASE answered
    BY <1>1, <1>2, <1>4, <2>1, GotReached
  <2>2. CASE ~answered
    BY <1>1, <2>2 DEF BlockAckTimeout
  <2> QED
    BY <2>1, <2>2
<1>6. /\ Handled(originator', originator, acked', base, sent, next, nMpdus)
      /\ SetUpOnce => StillAnnounces(originator', originator, acked', base, FALSE)
  <2>1. ~(psdu.kind = "Bar" /\ originator.bar.sent)
    BY <1>1
  <2>2. CASE answered
    BY <1>1, <1>3, <2>1, <2>2, BlockAckArrivesOK DEF StillAnnounces
  <2>3. CASE ~answered
    BY <1>1, <1>3, <2>3, BlockAckTimeoutOK
  <2> QED
    BY <2>2, <2>3
<1>7. /\ Established(originator')
      /\ originator'.request.queued =>
            originator.request.queued /\ originator'.request.ssn = originator.request.ssn
  BY <1>3, <1>6 DEF Handled, Established
<1>8. recipient.m_winStartB \in SeqNos => MovesUp(recipient, recipient, base)
  BY <1>2, MovesItself
<1>9. Safe(base, sent)'
  BY AmpduEndsSafe
<1> HIDE DEF next
<1> QED
  BY <1>1, <1>3, <1>4, <1>5, <1>6, <1>7, <1>8, <1>9, EndsTold

\* A BlockAckReq that is answered has moved the recipient up to the transmit window.
LEMMA BarEndsTold ==
  ASSUME FewPackets, NEW base, NEW sent, Safe(base, sent), Told(base),
         NEW arrives \in BOOLEAN, NEW answered \in BOOLEAN, BarEnds(arrives, answered)
  PROVE  Told(base)'
<1> DEFINE next == Position(m_nextSeq, base)
           r == IF arrives THEN ReceiveBar(recipient, psdu.ssn) ELSE recipient
           dequeued == answered /\ psdu.kind = "Bar" /\ originator.bar.sent
<1>1. /\ psdu.kind = "Bar" /\ psdu' = NoPsdu /\ recipient' = r /\ (answered => arrives)
      /\ IF answered THEN BlockAckArrives(r) ELSE BlockAckTimeout
      /\ UNCHANGED <<m_nextSeq, nMpdus, nRequests, response, apart>>
  BY DEF BarEnds, Ends
<1>2. /\ OneByOne /\ RequestOK(base, next) /\ RecipientOK(recipient, base, sent, next)
      /\ psdu \in Psdus /\ PsduOK(base, sent, next) /\ base \in SeqNos
      /\ Numbering(base, sent, next, nMpdus)
  BY SafeParts
<1>3. Established(originator)
  BY <1>1, <1>2 DEF OneByOne
<1>4. recipient.agreement /\ MarksBuffered(recipient, base)
  BY <1>2, <1>3 DEF RequestOK, Told
<1>5. psdu.ssn \in SeqNos /\ Position(psdu.ssn, base) <= next
  BY <1>1, <1>2 DEF PsduOK, Psdus
<1>6. originator.bar.sent => psdu.ssn = originator.window.m_winStart
  BY <1>1 DEF Told, BarCurrent
<1> HIDE DEF next
<1>7. /\ RecipientOK(r, base, sent, next) /\ r.agreement /\ MarksBuffered(r, base)
      /\ r.m_winStartB \in SeqNos =>
            /\ recipient.m_winStartB \in SeqNos /\ MovesUp(r, recipient, base)
            /\ arrives => Position(psdu.ssn, base) <= Position(r.m_winStartB, base)
  <2>1. CASE arrives
    <3>1. r = NotifyReceivedBar(recipient, psdu.ssn)
      BY <1>4, <2>1 DEF ReceiveBar
    <3> HIDE DEF r
    <3> QED
      BY <1>2, <1>4, <1>5, <3>1, NotifyReceivedBarOK, BarBuffered
  <2>2. CASE ~arrives
    <3>1. r = recipient
      BY <2>2
    <3> HIDE DEF r
    <3> QED
      BY <1>2, <1>4, <2>2, <3>1, MovesItself
  <2> QED
    BY <2>1, <2>2
<1> HIDE DEF r
<1>8. r.m_winStartB \in SeqNos => \A x \in acked' : x \in acked \/ Reached(r, x, base)
  <2>1. CASE answered
    BY <1>1, <1>7, <2>1, GotReached DEF next
  <2>2. CASE ~answered
    BY <1>1, <2>2 DEF BlockAckTimeout
  <2> QED
    BY <2>1, <2>2
<1>9. /\ Handled(originator', originator, acked', base, sent, next, nMpdus)
      /\ SetUpOnce => StillAnnounces(originator', originator, acked', base, dequeued)
  <2>1. CASE answered
    BY <1>1, <1>3, <2>1, BlockAckArrivesOK DEF next, StillAnnounces
  <2>2. CASE ~answered
    BY <1>1, <1>3, <2>2, BlockAckTimeoutOK DEF next, StillAnnounces
  <2> QED
    BY <2>1, <2>2
<1>10. /\ Established(originator')
       /\ originator'.request.queued =>
            originator.request.queued /\ originator'.request.ssn = originator.request.ssn
  BY <1>3, <1>9 DEF Handled, Established
<1>11. /\ recipient'.agreement <=> recipient.agreement
       /\ recipient'.agreement /\ recipient'.m_winStartB \in SeqNos =>
            /\ recipient.m_winStartB \in SeqNos /\ MovesUp(recipient', recipient, base)
            /\ dequeued => Position(originator.window.m_winStart, base)
                           <= Position(recipient'.m_winStartB, base)
            /\ SetUpOnce => \A x \in acked' : x \in acked \/ Reached(recipient', x, base)
       /\ MarksBuffered(recipient', base)
  BY <1>1, <1>4, <1>6, <1>7, <1>8
<1>12. Safe(base, sent)'
  BY BarEndsSafe
<1> HIDE DEF dequeued
<1> QED
  BY <1>1, <1>3, <1>9, <1>10, <1>11, <1>12, EndsTold

\* An MPDU sent alone ends with an ack or without one.
LEMMA SingleEndsTold ==
  ASSUME FewPackets, NEW base, NEW sent, Safe(base, sent), Told(base),
         NEW answered, NEW retry \in BOOLEAN, SingleEnds(answered, retry)
  PROVE  Told(base)'
<1> DEFINE next == Position(m_nextSeq, base)
<1>1. /\ psdu.kind = "Single" /\ psdu' = NoPsdu /\ (answered => psdu.arrived)
      /\ UNCHANGED <<m_nextSeq, nMpdus, nRequests, recipient, response, apart>>
  BY DEF SingleEnds, Ends
<1>2. PICK m \in psdu.mpdus :
        IF answered
        THEN originator' = GetBar(GotAck(originator, m)) /\ acked' = acked \cup {m}
        ELSE originator' = MissedAck(originator, m, retry) /\ UNCHANGED acked
  BY DEF SingleEnds
<1>3. base \in SeqNos /\ originator \in Originators
  BY SafeParts
<1> HIDE DEF next
<1>4. /\ Established(originator') <=> Established(originator)
      /\ originator'.request.queued =>
            originator.request.queued /\ originator'.request.ssn = originator.request.ssn
      /\ SetUpOnce /\ Established(originator) =>
            StillAnnounces(originator', originator, acked', base, FALSE)
  <2>1. CASE answered
    <3> DEFINE p == GotAck(originator, m)
               B == acked \cup {m}
    <3>1. /\ Handled(p, originator, B, base, sent, next, nMpdus)
          /\ SetUpOnce /\ Established(originator) => AnnouncesLost(p, originator, B, base)
      BY <1>1, GotAckOK DEF next
    <3>2. originator' = GetBar(p) /\ acked' = B
      BY <1>2, <2>1
    <3> HIDE DEF p, B
    <3>3. p \in Originators /\ ~NoRequest.queued
      BY <3>1 DEF Handled, OriginatorOK, NoRequest
    <3>4. LET q == GetBar(p)
          IN  /\ q.state = p.state /\ Announces(q, p)
              /\ q.request = p.request \/ q.request = NoRequest
      BY <3>3, GetBarIs
    <3>5. SetUpOnce /\ Established(originator) => StillAnnounces(GetBar(p), originator, B, base, FALSE)
      BY <3>1, <3>4, LostStill, StillAnnouncesMore
    <3> QED
      BY <3>1, <3>2, <3>3, <3>4, <3>5 DEF Handled, Established
  <2>2. CASE ~answered
    <3> DEFINE p == MissedAck(originator, m, retry)
    <3>1. originator' = p /\ acked' = acked
      BY <1>2, <2>2
    <3>2. /\ Handled(p, originator, acked, base, sent, next, nMpdus)
          /\ Established(originator) => Announces(p, originator)
      BY MissedAckOK DEF next
    <3> HIDE DEF p
    <3>3. Established(originator) => StillAnnounces(p, originator, acked, base, FALSE)
      BY <1>3, <3>2, AnnouncesStill
    <3> QED
      BY <3>1, <3>2, <3>3 DEF Handled, Established
  <2> QED
    BY <2>1, <2>2
<1>5. recipient.agreement /\ recipient.m_winStartB \in SeqNos =>
         /\ MovesUp(recipient, recipient, base)
         /\ SetUpOnce => \A x \in acked' : x \in acked \/ Reached(recipient, x, base)
  BY <1>1, <1>2, <1>3, MovesItself DEF Told, AckedReached
<1>6. MarksBuffered(recipient, base)
  BY DEF Told
<1>7. Safe(base, sent)'
  BY SingleEndsSafe
<1> QED
  BY <1>1, <1>4, <1>5, <1>6, <1>7, EndsTold

\* A new agreement of the recipient starts beyond what is acknowledged.
LEMMA RequestEndsTold ==
  ASSUME FewPackets, NEW base, NEW sent, Safe(base, sent), Told(base),
         NEW arrives \in BOOLEAN, NEW answered \in BOOLEAN, NEW retry \in BOOLEAN,
         RequestEnds(arrives, answered, retry)
  PROVE  Told(base)'
<1> DEFINE next == Position(m_nextSeq, base)
           new == arrives /\ response.lastRequest # nRequests
           o == [originator EXCEPT !.request = NoRequest]
           timed == [o EXCEPT !.respTimer = TRUE]
           again == [originator EXCEPT !.request.inFlight = FALSE]
<1>1. /\ psdu.kind = "Request" /\ psdu' = NoPsdu
      /\ recipient' = IF new THEN CreateRecipientAgreement(recipient, psdu.ssn) ELSE recipient
      /\ response' = IF new THEN [queued |-> TRUE, lastRequest |-> nRequests] ELSE response
      /\ UNCHANGED <<m_nextSeq, nMpdus, nRequests, acked, apart>>
  BY DEF RequestEnds, Ends
<1>2. \/ originator' = GetBar(timed) \/ originator' = again \/ originator' = o
      \/ o.state = "PENDING" /\ originator' = NoReply(o)
  BY DEF RequestEnds
<1>3. /\ base \in SeqNos /\ PsduOK(base, sent, next) /\ psdu \in Psdus
      /\ recipient \in Recipients /\ originator \in Originators
  BY SafeParts
<1>4. originator.request.queued /\ psdu.ssn = originator.request.ssn /\ psdu.ssn \in SeqNos
  BY <1>1, <1>3 DEF PsduOK, Psdus
<1> HIDE DEF next
<1>5. NoRequest \in Requests /\ ~NoRequest.queued
  BY SpaceIs, MpdusAssumption DEF NoRequest, Requests, SeqNos
<1>6. /\ o \in Originators /\ o.window = originator.window /\ o.bar = originator.bar
      /\ o.barIfData = originator.barIfData /\ o.state = originator.state /\ o.request = NoRequest
  BY <1>3, <1>5 DEF Originators
<1>7. /\ timed \in Originators /\ timed.window = o.window /\ timed.bar = o.bar
      /\ timed.barIfData = o.barIfData /\ timed.state = o.state /\ timed.request = NoRequest
  <2> HIDE DEF o
  <2> QED
    BY <1>6 DEF Originators
<1>8. /\ again.window = originator.window /\ again.bar = originator.bar
      /\ again.barIfData = originator.barIfData /\ again.state = originator.state
      /\ again.request.ssn = originator.request.ssn
  BY <1>3 DEF Originators, Requests
<1> HIDE DEF o, timed, again
<1>9. /\ Established(originator') <=> Established(originator)
      /\ Announces(originator', originator)
      /\ originator'.request.queued => originator'.request.ssn = originator.request.ssn
  <2>1. CASE originator' = GetBar(timed)
    <3>1. LET p == GetBar(timed)
          IN  /\ p.state = timed.state /\ Announces(p, timed)
              /\ p.request = timed.request \/ p.request = NoRequest
      BY <1>7, GetBarIs
    <3> QED
      BY <1>5, <1>6, <1>7, <2>1, <3>1 DEF Established, Announces
  <2>2. CASE originator' = again
    BY <1>8, <2>2 DEF Established, Announces
  <2>3. CASE originator' = o
    BY <1>5, <1>6, <2>3 DEF Established, Announces
  <2>4. CASE o.state = "PENDING" /\ originator' = NoReply(o)
    <3>1. /\ NoReply(o).window = o.window /\ NoReply(o).bar = o.bar
          /\ NoReply(o).barIfData = o.barIfData
          /\ NoReply(o).request = o.request /\ NoReply(o).state = "NO_REPLY"
      BY <1>6 DEF NoReply, Originators
    <3> QED
      BY <1>5, <1>6, <2>4, <3>1 DEF Established, Announces
  <2> QED
    BY <1>2, <2>1, <2>2, <2>3, <2>4
<1>10. Safe(base, sent)'
  BY RequestEndsSafe
<1>11. CASE ~new
  <2>1. recipient' = recipient /\ response' = response
    BY <1>1, <1>11
  <2>2. psdu'.kind = "None"
    BY <1>1, NoPsduIs
  <2> HIDE DEF new
  <2> QED
    BY <1>1, <1>4, <1>9, <1>10, <2>1, <2>2, RecipientWaits
<1>12. CASE new
  <2> DEFINE w == NewWindow(psdu.ssn)
  <2>1. /\ recipient' = CreateRecipientAgreement(recipient, psdu.ssn)
        /\ response'.lastRequest = nRequests /\ response.lastRequest # nRequests
    BY <1>1, <1>12
  <2>2. w \in Windows /\ w.m_winStart = psdu.ssn /\ \A d \in Slots : ~At(w, d)
    BY <1>4, NewWindowType DEF NewWindow
  <2> HIDE DEF w, new
  <2>3. recipient'.scoreboard = w /\ recipient'.m_winStartB = psdu.ssn
    <3>1. recipient' = [recipient EXCEPT !.agreement = TRUE, !.scoreboard = w,
                                         !.m_winStartB = psdu.ssn, !.m_bufferedMpdus = {}]
      BY <2>1 DEF CreateRecipientAgreement, w
    <3> QED
      BY <1>3, <3>1 DEF Recipients
  <2>4. ASSUME NEW p \in Nat, Has(w, base, p)
        PROVE  FALSE
    <3> DEFINE start == Position(w.m_winStart, base)
    <3>1. start <= p /\ p < start + BufferSize /\ At(w, p - start)
      BY <2>4 DEF Has
    <3>2. start \in Nat
      BY <1>3, <1>4, <2>2, PositionType
    <3>3. p - start \in Slots
      <4> HIDE DEF start
      <4> QED
        BY <3>1, <3>2, SlotsIn DEF Slots
    <3> QED
      BY <2>2, <3>1, <3>3
  <2>5. MarksBuffered(recipient', base)
    BY <2>3, <2>4 DEF MarksBuffered
  <2>6. (SetUpOnce' <=> SetUpOnce) /\ psdu'.kind = "None" /\ acked' = acked
    BY <1>1, NoPsduIs DEF SetUpOnce
  <2>7. SetUpOnce => \A x \in acked : Position(x.seq, base) < Position(psdu.ssn, base)
    BY <1>4, <2>1 DEF Told, RequestBeyond
  <2>8. AckedReached(base)'
    BY <2>3, <2>6, <2>7 DEF AckedReached, Reached
  <2>9. RequestBeyond(base)'
    BY <1>1, <2>1 DEF RequestBeyond
  <2>10. BarCurrent'
    BY <2>6 DEF BarCurrent
  <2>11. Announced(base)'
    <3>1. SetUpOnce => ~Established(originator)
      BY <1>4, <2>1, UnseenIs
    <3> QED
      BY <1>9, <2>6, <3>1 DEF Announced
  <2> QED
    BY <2>5, <2>8, <2>9, <2>10, <2>11 DEF Told
<1> QED
  BY <1>11, <1>12

\* Both ends begin with the same number, or are apart.
LEMMA ResponseEndsTold ==
  ASSUME FewPackets, NEW base, NEW sent, Safe(base, sent), Told(base), NEW arrives \in BOOLEAN,
         ResponseEnds(arrives)
  PROVE  Told(base)'
<1> DEFINE p == GotAddBaResponse(originator, m_nextSeq)
<1>1. /\ psdu.kind = "None" /\ response' = [response EXCEPT !.queued = FALSE]
      /\ originator' = IF arrives THEN p ELSE originator
      /\ apart' = (apart \/ (arrives /\ originator'.window.m_winStart # recipient.m_winStartB))
      /\ UNCHANGED <<psdu, m_nextSeq, nMpdus, nRequests, recipient, acked>>
  BY DEF ResponseEnds, MayStart
<1>2. p.request.queued => originator.request.queued /\ p.request.ssn = originator.request.ssn
  BY GotAddBaResponseOK
<1> HIDE DEF p
<1>3. base \in SeqNos /\ response'.lastRequest = response.lastRequest /\ (SetUpOnce' <=> SetUpOnce)
  BY <1>1, SafeParts DEF Responses, SetUpOnce
<1>4. MarksBuffered(recipient', base) /\ AckedReached(base)'
  BY <1>1, <1>3 DEF Told, AckedReached
<1>5. RequestBeyond(base)'
  BY <1>1, <1>2, <1>3 DEF Told, RequestBeyond
<1>6. BarCurrent'
  BY <1>1 DEF BarCurrent
<1>7. Announced(base)'
  <2>1. CASE ~arrives
    BY <1>1, <1>3, <2>1 DEF Told, Announced
  <2>2. CASE arrives
    <3>1. ~apart' => originator'.window.m_winStart = recipient'.m_winStartB
      BY <1>1, <2>2
    <3>2. \A s \in SeqNos : Position(s, base) <= Position(s, base)
      BY <1>3, PositionType
    <3> QED
      BY <3>1, <3>2 DEF Announced
  <2> QED
    BY <2>1, <2>2
<1> QED
  BY <1>4, <1>5, <1>6, <1>7 DEF Told

\* An MPDU that is lost leaves the recipient as it is, and one that arrives moves the
\* start of its buffer up past what it holds.
LEMMA MpduEndsTold ==
  ASSUME FewPackets, NEW base, NEW sent, Safe(base, sent), Sure(base, sent), Told(base),
         NEW arrives \in BOOLEAN, MpduEnds(arrives)
  PROVE  Told(base)'
<1> DEFINE next == Position(m_nextSeq, base)
           m == First(psdu.left)
           q == [psdu EXCEPT !.left = @ \ {m}, !.arrived = @ \/ arrives]
<1>1. /\ psdu.left # {} /\ psdu' = q
      /\ recipient' = IF arrives THEN ReceiveMpdu(recipient, m) ELSE recipient
      /\ UNCHANGED <<originator, m_nextSeq, nMpdus, nRequests, response, acked, apart>>
  BY DEF MpduEnds
<1>2. /\ base \in SeqNos /\ sent \in SUBSET Mpdus /\ psdu \in Psdus /\ originator \in Originators
      /\ Numbering(base, sent, next, nMpdus) /\ RecipientOK(recipient, base, sent, next)
      /\ PsduOK(base, sent, next) /\ OneByOne /\ RequestOK(base, next) /\ acked \subseteq sent
  BY SafeParts DEF Safe
<1>3. m \in psdu.left
  <2>1. \A x \in psdu.left : x.id \in Nat
    BY <1>2, MpdusAssumption DEF Psdus, Mpdus, Ids
  <2>2. PICK x : x \in psdu.left
    BY <1>1
  <2> QED
    BY <2>1, <2>2, FirstIs
<1> HIDE DEF m, next
<1>4. m \in psdu.mpdus /\ m \in sent /\ (psdu.kind = "Single" => psdu.mpdus = {m})
  BY <1>2, <1>3 DEF PsduOK, Sure, Paced
<1>5. /\ q.kind = psdu.kind /\ q.mpdus = psdu.mpdus /\ q.ssn = psdu.ssn
      /\ q.left = psdu.left \ {m} /\ (q.arrived <=> psdu.arrived \/ arrives)
  BY <1>2 DEF Psdus
<1> HIDE DEF q
<1>6. /\ SetUpOnce' <=> SetUpOnce
      /\ Announces(originator', originator)
      /\ Safe(base, sent)'
  BY <1>1, MpduEndsSafe DEF SetUpOnce, Announces
<1>7. psdu'.kind = "Bar" /\ originator'.bar.sent => psdu'.ssn = originator'.window.m_winStart
  BY <1>1, <1>5 DEF Told, BarCurrent
<1>8. CASE ~arrives
  <2>1. recipient' = recipient
    BY <1>1, <1>8
  <2> QED
    BY <1>1, <1>5, <1>6, <1>7, <1>8, <2>1, RecipientWaits
<1>9. RequestBeyond(base)' /\ BarCurrent'
  BY <1>1, <1>5, <1>6, <1>7 DEF Told, RequestBeyond, BarCurrent
<1>10. CASE arrives /\ ~recipient.agreement
  <2>1. \A x \in Arrivals(recipient) : x.id <= m.id
    BY <1>2, <1>3, <1>10 DEF RequestOK, OneByOne
  <2>2. ~recipient'.agreement
    BY <1>1, <1>2, <1>4, <1>10, <2>1, ReceiveAloneOK
  <2>3. MarksBuffered(recipient', base) /\ AckedReached(base)'
    BY <2>2 DEF MarksBuffered, AckedReached
  <2>4. ~Established(originator')
    BY <1>1, <1>2, <1>10 DEF RequestOK
  <2> QED
    BY <1>9, <2>3, <2>4 DEF Told, Announced
<1>11. CASE arrives /\ recipient.agreement
  <2> DEFINE p == NotifyReceivedMpdu(recipient, m)
  <2>1. recipient' = p
    BY <1>1, <1>11 DEF ReceiveMpdu
  <2>2. /\ p.agreement
        /\ p.m_winStartB \in SeqNos =>
              /\ recipient.m_winStartB \in SeqNos
              /\ MovesUp(p, recipient, base) /\ Reached(p, m, base)
    BY <1>2, <1>4, <1>11, NotifyReceivedMpduOK
  <2>3. MarksBuffered(p, base)
    BY <1>2, <1>4, <1>11, ReceivedBuffered DEF Told
  <2> HIDE DEF p
  <2>4. \A x \in acked : x.seq \in SeqNos
    BY <1>2 DEF Mpdus
  <2>5. SetUpOnce /\ p.m_winStartB \in SeqNos => \A x \in acked : Reached(p, x, base)
    BY <1>2, <1>11, <2>2, <2>4, ReachedStays DEF Told, AckedReached
  <2>6. AckedReached(base)'
    BY <1>1, <1>4, <1>5, <1>6, <2>1, <2>2, <2>5 DEF AckedReached
  <2>7. Announced(base)'
    <3>1. StillAnnounces(originator', originator, acked', base, FALSE)
      BY <1>2, <1>6, AnnouncesStill
    <3> QED
      BY <1>1, <1>6, <2>1, <2>2, <2>5, <3>1, StaysAnnounced DEF Told, MovesUp
  <2> QED
    BY <1>9, <2>1, <2>3, <2>6, <2>7 DEF Told
<1> QED
  BY <1>8, <1>10, <1>11

\* Nothing is acknowledged and there is no agreement.
LEMMA InitTold ==
  ASSUME Init
  PROVE  Told(m_nextSeq)
<1>1. /\ recipient = NoAgreement /\ psdu = NoPsdu /\ acked = {} /\ originator = NewOriginator
  BY DEF Init
<1>2. /\ ~recipient.agreement /\ psdu.kind = "None" /\ ~originator.request.queued
      /\ ~Established(originator)
  BY <1>1, NoPsduIs DEF NoAgreement, NewOriginator, NoRequest, Established
<1> QED
  BY <1>1, <1>2 DEF Told, MarksBuffered, AckedReached, RequestBeyond, BarCurrent, Announced

\* Every step keeps the three invariants.
LEMMA NextTold ==
  ASSUME FewPackets, NEW base \in SeqNos, NEW sent \in SUBSET Mpdus,
         Safe(base, sent), Sure(base, sent), Told(base), [Next]_vars
  PROVE  \E more \in SUBSET Mpdus : Safe(base, more)' /\ Sure(base, more)' /\ Told(base)'
<1>1. Safe(base, sent) /\ Sure(base, sent) /\ Told(base)
  OBVIOUS
<1>2. ASSUME NEW more \in SUBSET Mpdus, Safe(base, more)', Sure(base, more)', Told(base)'
      PROVE  \E y \in SUBSET Mpdus : Safe(base, y)' /\ Sure(base, y)' /\ Told(base)'
  BY <1>2
<1>3. CASE UNCHANGED vars
  <2>1. \E more \in SUBSET Mpdus : Safe(base, more)' /\ Sure(base, more)'
    BY <1>1, NextSure
  <2>2. Told(base)'
    BY <1>1, <1>3
       DEF vars, Told, MarksBuffered, AckedReached, RequestBeyond, BarCurrent, Announced, SetUpOnce
  <2> QED
    BY <1>2, <2>1, <2>2
<1>4. ASSUME Told(base)'
      PROVE  \E more \in SUBSET Mpdus : Safe(base, more)' /\ Sure(base, more)' /\ Told(base)'
  BY <1>1, <1>4, NextSure
<1>5. CASE Enqueue
  BY <1>1, <1>4, <1>5, EnqueueTold
<1>6. ASSUME OriginatorMoves(base, sent)
      PROVE  Told(base)'
  BY <1>1, <1>6, OriginatorMovesTold
<1>7. CASE Lifetime
  BY <1>1, <1>4, <1>6, <1>7, LifetimeEndsMoves, RequestLifetimeEndsMoves DEF Lifetime
<1>8. CASE HasFramesToTransmit
  BY <1>1, <1>4, <1>6, <1>8, HasFramesToTransmitMoves
<1>9. CASE ExpiredTrace
  BY <1>1, <1>4, <1>6, <1>9, ExpiredTraceMoves
<1>10. CASE Timeout
  BY <1>1, <1>4, <1>6, <1>10, AddBaResponseTimeoutMoves, ResetBaMoves DEF Timeout
<1>11. CASE Send
  <2>1. ASSUME SendBar PROVE Told(base)'
    BY <1>1, <2>1, SendBarTold
  <2>2. ASSUME SendRequest PROVE Told(base)'
    BY <1>1, <2>2, SendRequestTold
  <2>3. ASSUME NEW fits \in Fits, SendAddBaRequest(fits)
        PROVE  Told(base)'
    <3>1. fits \in BOOLEAN
      BY BlockAckAssumption
    <3> QED
      BY <1>1, <2>3, <3>1, SendAddBaRequestTold
  <2>4. ASSUME SendData PROVE Told(base)'
    <3>1. PICK more \in SUBSET Mpdus : Safe(base, more)' /\ DataLeave(base, sent, more)
      BY <1>1, <2>4, SendDataSafe
    <3> QED
      BY <1>1, <3>1, SendDataTold
  <2> QED
    BY <1>4, <1>11, <2>1, <2>2, <2>3, <2>4 DEF Send
<1>12. CASE Resolve
  <2>1. ASSUME NEW arrives \in BOOLEAN, MpduEnds(arrives)
        PROVE  Told(base)'
    BY <1>1, <2>1, MpduEndsTold
  <2>2. ASSUME NEW answered \in BOOLEAN, AmpduEnds(answered)
        PROVE  Told(base)'
    BY <1>1, <2>2, AmpduEndsTold
  <2>3. ASSUME NEW arrives \in BOOLEAN, NEW answered \in BOOLEAN, BarEnds(arrives, answered)
        PROVE  Told(base)'
    BY <1>1, <2>3, BarEndsTold
  <2>4. ASSUME NEW answered \in BOOLEAN, NEW retry \in BOOLEAN, SingleEnds(answered, retry)
        PROVE  Told(base)'
    BY <1>1, <2>4, SingleEndsTold
  <2>5. ASSUME NoResponseEnds PROVE Told(base)'
    BY <1>1, <2>5, NoResponseEndsTold
  <2>6. ASSUME NEW arrives \in BOOLEAN, NEW answered \in BOOLEAN, NEW retry \in BOOLEAN,
               RequestEnds(arrives, answered, retry)
        PROVE  Told(base)'
    BY <1>1, <2>6, RequestEndsTold
  <2> QED
    BY <1>4, <1>12, <2>1, <2>2, <2>3, <2>4, <2>5, <2>6 DEF Resolve
<1>13. CASE Respond
  BY <1>1, <1>4, <1>13, ResponseEndsTold DEF Respond
<1> QED
  BY <1>3, <1>5, <1>7, <1>8, <1>9, <1>10, <1>11, <1>12, <1>13 DEF Next

\* The three invariants hold in every state: BlockAckManager keeps a BlockAckReq
\* scheduled, or to be sent with the next data, from when it gives up an MPDU the
\* recipient waits for until RecipientBlockAckAgreement has moved past it.
THEOREM GapInvariant == ASSUME FewPackets PROVE Spec => []GapInv
<1>1. Init => GapInv
  <2>1. {} \in SUBSET Mpdus
    OBVIOUS
  <2>2. ASSUME Init PROVE m_nextSeq \in SeqNos
    BY <2>2, <2>1, InitSafe, SafeParts
  <2> QED
    BY <2>1, <2>2, InitSafe, InitSure, InitTold DEF GapInv
<1>2. GapInv /\ [Next]_vars => GapInv'
  BY NextTold DEF GapInv
<1> QED
  BY <1>1, <1>2, PTL DEF Spec

\* When the recipient waits for an MPDU that BlockAckManager has given up, a
\* BlockAckReq is going to tell it, as long as the agreement was set up once and both
\* ends began it with the same number.
THEOREM GapsAnnounced == ASSUME FewPackets PROVE Spec => []GapAnnounced
<1>1. GapInv => GapAnnounced
  <2> DEFINE W == originator.window.m_winStart
             B == recipient.m_winStartB
             behind == Distance(W, B)
  <2> SUFFICES ASSUME GapInv, SetUpOnce, ~apart, Established(originator), B \in SeqNos,
                      behind > 0, 2 * behind < SeqSpace
               PROVE  originator.bar.queued \/ originator.barIfData
    BY DEF GapAnnounced, WinStartBInSpace, WinStartB
  <2>1. PICK base \in SeqNos, sent \in SUBSET Mpdus : Safe(base, sent) /\ Told(base)
    BY DEF GapInv
  <2> DEFINE next == Position(m_nextSeq, base)
  <2>2. /\ next \in Nat /\ next <= MaxMpdus /\ originator \in Originators
        /\ OriginatorOK(originator, acked, base, sent, next, nMpdus)
        /\ RecipientOK(recipient, base, sent, next) /\ RequestOK(base, next)
    BY <2>1, SafeParts
  <2>3. W \in SeqNos /\ Position(W, base) <= next /\ Position(B, base) <= next
    BY <2>2 DEF OriginatorOK, WindowBounded, RecipientOK, RequestOK, Originators, Windows
  <2>4. Position(W, base) \in Nat /\ Position(B, base) \in Nat /\ MaxMpdus \in Nat /\ SeqSpace \in Nat
    BY <2>1, <2>3, PositionType, MpdusAssumption, SpaceIs
  <2>5. Position(W, base) <= MaxMpdus /\ Position(B, base) <= MaxMpdus
    <3> HIDE DEF W, B, next
    <3> QED
      BY <2>2, <2>3, <2>4
  <2>6. /\ behind = IF Position(W, base) >= Position(B, base)
                    THEN Position(W, base) - Position(B, base)
                    ELSE Position(W, base) - Position(B, base) + SeqSpace
        /\ IsOld(W, B) <=> Position(W, base) < Position(B, base)
    BY <2>1, <2>3, <2>5, DistancePosition
  <2>7. ~(Position(W, base) <= Position(B, base))
    <3>1. ~IsOld(W, B)
      <4>1. behind \in Int
        <5> HIDE DEF W, B, behind
        <5> QED
          BY <2>4, <2>6
      <4> QED
        BY <2>4, <4>1 DEF IsOld
    <3> HIDE DEF W, B, behind
    <3> QED
      BY <2>4, <2>6, <3>1
  <2> QED
    BY <2>1, <2>7 DEF Told, Announced
<1> QED
  BY <1>1, GapInvariant, PTL
=============================================================================
