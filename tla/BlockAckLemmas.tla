---------------------------- MODULE BlockAckLemmas ----------------------------
(***************************************************************************)
(* What the operators of BlockAck keep, stated of an originator, a         *)
(* recipient and a window as values: the lemmas its theorems rest on.      *)
(* Numbers are compared by their position after base, the first one.       *)
(***************************************************************************)
EXTENDS BlockAck, SequenceLemmas

-----------------------------------------------------------------------------
(* What an originator and a recipient keep; sent are the MPDUs that have   *)
(* been numbered.                                                          *)

\* Fewer packets than half the space: no number stands for two of them at a time.
FewPackets == 2 * (MaxMpdus + BufferSize) <= SeqSpace

Position(seq, base) == Distance(seq, base)

\* The MPDUs are numbered in the order of their identities, from base to next.
Numbering(base, sent, next, n) ==
    /\ base \in SeqNos /\ sent \subseteq Mpdus
    /\ n \in 0..MaxMpdus /\ next \in 0..n
    /\ \A x \in sent : x.id < n /\ Position(x.seq, base) < next
    /\ \A x, y \in sent : x.id < y.id <=> Position(x.seq, base) < Position(y.seq, base)

QueueOK(queue, sent, next, n) ==
    /\ \A e \in queue : e.id < n /\ (e.seq # NoSeq => Mpdu(e.id, e.seq) \in sent)
    /\ \A e \in queue : e.seq = NoSeq =>
          ~e.retry /\ ~e.inFlight /\ next <= e.id /\ \A x \in sent : x.id < e.id
    /\ \A e, f \in queue : e.id = f.id => e = f

\* Every bit of the transmit window is that of a number that was used.
WindowBounded(w, base, next) ==
    /\ Position(w.m_winStart, base) <= next
    /\ \A d \in Slots : At(w, d) => Position(w.m_winStart, base) + d < next

\* The bits are those of the acknowledged MPDUs A.
WindowExact(w, A, base) ==
    /\ ~At(w, 0)
    /\ \A d \in Slots :
          At(w, d) <=> \E m \in A : Position(m.seq, base) = Position(w.m_winStart, base) + d
    /\ \A m \in A : Position(m.seq, base) < Position(w.m_winStart, base) + BufferSize

Ascending(list, base) ==
    \A i, j \in DOMAIN list : i < j => Position(list[i].seq, base) < Position(list[j].seq, base)

Within(list, w, base) ==
    \A i \in DOMAIN list :
        /\ Position(w.m_winStart, base) <= Position(list[i].seq, base)
        /\ Position(list[i].seq, base) < Position(w.m_winStart, base) + BufferSize

OriginatorOK(o, A, base, sent, next, n) ==
    /\ o \in Originators /\ QueueOK(o.queue, sent, next, n)
    /\ Members(o.outstanding) \subseteq sent /\ o.notices \subseteq sent /\ A \subseteq sent
    /\ A \cap Members(o.outstanding) = {} /\ IdsOf(A) \cap IdsOf(o.queue) = {}
    /\ ~Established(o) => o.outstanding = <<>> /\ o.bar = NoBar /\ ~o.barIfData
    /\ Established(o) => WindowBounded(o.window, base, next)

\* The transmit window as long as the agreement was set up once.
TransmitOK(o, A, base) ==
    Established(o) =>
        /\ WindowExact(o.window, A, base)
        /\ Ascending(o.outstanding, base) /\ Within(o.outstanding, o.window, base)

Arrivals(r) == r.m_bufferedMpdus \cup Members(r.passed)

RecipientOK(r, base, sent, next) ==
    /\ r \in Recipients /\ Arrivals(r) \subseteq sent /\ Ascending(r.passed, base)
    /\ ~r.agreement => r.m_bufferedMpdus = {} /\ r.scoreboard = NewWindow(0) /\ r.m_winStartB = 0
    /\ r.m_winStartB \in SeqNos \cup (Uint16 - BufferSize..Uint16 - 1)
    /\ r.agreement /\ r.m_winStartB \in SeqNos =>
          LET start == Position(r.scoreboard.m_winStart, base)
              startB == Position(r.m_winStartB, base)
          IN  /\ start <= startB /\ startB <= start + BufferSize /\ startB <= next
              /\ \A d \in 0..startB - start - 1 : At(r.scoreboard, d)
              /\ \A m \in r.m_bufferedMpdus :
                    /\ startB < Position(m.seq, base)
                    /\ Position(m.seq, base) < startB + BufferSize
                    /\ Position(m.seq, base) < start + BufferSize
                    /\ At(r.scoreboard, Position(m.seq, base) - start)
              /\ \A m \in Members(r.passed) : Position(m.seq, base) <= startB

-----------------------------------------------------------------------------
(* Sequence numbers and windows.                                            *)

\* The sum of a sequence number and a small number.
LEMMA SeqPlusIs ==
  ASSUME NEW s \in SeqNos, NEW n \in 0..SeqSpace
  PROVE  SeqPlus(s, n) = IF s + n < SeqSpace THEN s + n ELSE s + n - SeqSpace
  BY WindowAssumption DEF SeqPlus, SeqNos

\* A sum reduced to the space is a sequence number.
LEMMA SeqPlusType ==
  ASSUME NEW s \in SeqNos, NEW n \in Nat
  PROVE  SeqPlus(s, n) \in SeqNos
  BY WindowAssumption DEF SeqPlus, SeqNos

\* GetDistance, of numbers within the space.
LEMMA DistanceIs ==
  ASSUME NEW s \in SeqNos, NEW t \in SeqNos
  PROVE  Distance(s, t) = IF s >= t THEN s - t ELSE s - t + SeqSpace
  BY WindowAssumption DEF Distance, SeqNos

\* The space is within what a uint16_t holds.
LEMMA SpaceIs ==
  /\ SeqSpace \in Nat \ {0} /\ SeqNos \subseteq 0..Uint16 - 1
  /\ 4 * SeqSpace <= Uint16 /\ Uint16 \in Nat
<1>1. SeqSpace \in Nat \ {0} /\ 4 * SeqSpace <= Uint16 /\ Uint16 \in Nat
  BY WindowAssumption DEF Uint16
<1> QED
  BY <1>1 DEF SeqNos

\* The slots of a window are the numbers below its size.
LEMMA SlotsIn ==
  /\ BufferSize \in Nat \ {0} /\ 0 \in Slots
  /\ \A d \in Slots : d \in Nat /\ d \in 0..BufferSize /\ d < BufferSize
  BY WindowAssumption DEF Slots

\* The slot at a distance: a circular vector.
LEMMA SlotIs ==
  ASSUME NEW w \in Windows, NEW d \in 0..BufferSize
  PROVE  /\ Slot(w, d) = IF w.m_head + d < BufferSize THEN w.m_head + d ELSE w.m_head + d - BufferSize
         /\ Slot(w, d) \in Slots
<1>1. w.m_head \in 0..BufferSize - 1 /\ BufferSize \in Nat \ {0}
  BY WindowAssumption DEF Windows, Slots
<1>2. w.m_head + d \in 0..2 * BufferSize - 1
  BY <1>1
<1>3. Slot(w, d) = IF w.m_head + d < BufferSize THEN w.m_head + d ELSE w.m_head + d - BufferSize
  <2>1. (w.m_head + d) % BufferSize = IF w.m_head + d < BufferSize THEN w.m_head + d ELSE w.m_head + d - BufferSize
    BY <1>1, ModSum, Zenon
  <2> QED
    BY <2>1 DEF Slot
<1> QED
  BY <1>1, <1>2, <1>3 DEF Slots

\* A window that was reset has no bit set.
LEMMA NewWindowType ==
  ASSUME NEW s \in SeqNos
  PROVE  NewWindow(s) \in Windows /\ \A d \in Slots : ~At(NewWindow(s), d)
<1> DEFINE w == NewWindow(s)
<1>1. w \in Windows /\ w.m_window = [i \in Slots |-> FALSE]
  BY WindowAssumption DEF NewWindow, Windows, Slots
<1> HIDE DEF w
<1>2. \A d \in Slots : Slot(w, d) \in Slots
  BY <1>1, SlotIs, SlotsIn
<1> QED
  BY <1>1, <1>2 DEF w, At

\* Setting a bit changes no other one.
LEMMA SetAtIs ==
  ASSUME NEW w \in Windows, NEW d \in Slots
  PROVE  /\ SetAt(w, d) \in Windows /\ SetAt(w, d).m_winStart = w.m_winStart
         /\ \A e \in Slots : At(SetAt(w, d), e) <=> (e = d \/ At(w, e))
<1> DEFINE v == SetAt(w, d)
<1>1. ASSUME NEW e \in Slots
      PROVE  Slot(w, e) \in Slots /\ (Slot(w, e) = Slot(w, d) <=> e = d)
  <2>1. e \in 0..BufferSize /\ d \in 0..BufferSize /\ w.m_head \in 0..BufferSize
    BY SlotsIn DEF Windows
  <2>2. /\ Slot(w, e) = IF w.m_head + e < BufferSize THEN w.m_head + e ELSE w.m_head + e - BufferSize
        /\ Slot(w, d) = IF w.m_head + d < BufferSize THEN w.m_head + d ELSE w.m_head + d - BufferSize
        /\ Slot(w, e) \in Slots
    BY <2>1, SlotIs
  <2> QED
    BY <2>1, <2>2, SlotsIn DEF Slots
<1>2. v = [w EXCEPT !.m_window = [w.m_window EXCEPT ![Slot(w, d)] = TRUE]]
  BY DEF SetAt
<1>3. w.m_window \in [Slots -> BOOLEAN]
  BY DEF Windows
<1>4. v \in Windows /\ v.m_winStart = w.m_winStart /\ v.m_head = w.m_head
      /\ v.m_window = [w.m_window EXCEPT ![Slot(w, d)] = TRUE]
  BY <1>1, <1>2, <1>3 DEF Windows
<1> HIDE DEF v
<1>5. \A e \in Slots : Slot(v, e) = Slot(w, e)
  BY <1>4 DEF Slot
<1> QED
  BY <1>1, <1>3, <1>4, <1>5 DEF At, v

\* After the loop of Advance, the bits are those further on.
LEMMA ShiftIs ==
  ASSUME NEW w \in Windows, NEW n \in 0..BufferSize
  PROVE  /\ Shift(w, n) \in Windows /\ Shift(w, n).m_winStart = SeqPlus(w.m_winStart, n)
         /\ \A d \in Slots : At(Shift(w, n), d) <=> (d + n < BufferSize /\ At(w, d + n))
<1> DEFINE v == Shift(w, n)
           kept(i) == w.m_window[i] /\ (i - w.m_head + BufferSize) % BufferSize >= n
<1>1. w.m_winStart \in SeqNos /\ w.m_head \in Slots /\ w.m_window \in [Slots -> BOOLEAN]
  BY DEF Windows
<1>2. v = [m_winStart |-> SeqPlus(w.m_winStart, n), m_window |-> [i \in Slots |-> kept(i)],
           m_head |-> (w.m_head + n) % BufferSize]
  BY DEF Shift
<1>3. n \in Nat /\ SeqPlus(w.m_winStart, n) \in SeqNos
  BY <1>1, WindowAssumption, SeqPlusType
<1>4. /\ (w.m_head + n) % BufferSize
         = IF w.m_head + n < BufferSize THEN w.m_head + n ELSE w.m_head + n - BufferSize
      /\ (w.m_head + n) % BufferSize \in Slots
  <2>1. w.m_head + n \in 0..2 * BufferSize - 1
    BY <1>1, SlotsIn
  <2>2. (w.m_head + n) % BufferSize
         = IF w.m_head + n < BufferSize THEN w.m_head + n ELSE w.m_head + n - BufferSize
    BY <1>1, SlotsIn, ModSum, Zenon DEF Slots
  <2>3. /\ w.m_head \in Nat /\ w.m_head < BufferSize /\ n <= BufferSize /\ BufferSize \in Nat \ {0}
        /\ Slots = 0..BufferSize - 1
    BY <1>1, SlotsIn DEF Slots
  <2> DEFINE r == (w.m_head + n) % BufferSize
  <2>4. r = IF w.m_head + n < BufferSize THEN w.m_head + n ELSE w.m_head + n - BufferSize
    BY <2>2
  <2> HIDE DEF r
  <2>5. r \in Slots
    BY <1>3, <2>3, <2>4
  <2> QED
    BY <2>4, <2>5 DEF r
<1>5. \A i \in Slots : kept(i) \in BOOLEAN
  BY <1>1
<1>6. /\ v \in Windows /\ v.m_winStart = SeqPlus(w.m_winStart, n)
      /\ v.m_head = (w.m_head + n) % BufferSize /\ v.m_window = [i \in Slots |-> kept(i)]
  BY <1>2, <1>3, <1>4, <1>5 DEF Windows
<1> HIDE DEF v
<1>7. ASSUME NEW d \in Slots
      PROVE  At(v, d) <=> (d + n < BufferSize /\ At(w, d + n))
  <2> DEFINE i == Slot(v, d)
  <2>1. i \in Slots /\ i = IF v.m_head + d < BufferSize THEN v.m_head + d ELSE v.m_head + d - BufferSize
    BY <1>6, SlotIs, SlotsIn
  <2> HIDE DEF i
  <2>2. (i - w.m_head + BufferSize) % BufferSize
        = IF i >= w.m_head THEN i - w.m_head ELSE i - w.m_head + BufferSize
    <3>1. i \in Nat /\ i < BufferSize /\ w.m_head \in Nat /\ w.m_head < BufferSize
      BY <1>1, <2>1, SlotsIn
    <3>2. i - w.m_head + BufferSize \in 0..2 * BufferSize - 1
      BY <3>1, SlotsIn
    <3> QED
      BY <3>1, <3>2, SlotsIn, ModIs
  <2>3. (i - w.m_head + BufferSize) % BufferSize >= n <=> d + n < BufferSize
    <3>1. i \in Nat /\ i < BufferSize /\ w.m_head \in Nat /\ w.m_head < BufferSize /\ d \in Nat /\ d < BufferSize
      BY <1>1, <2>1, SlotsIn
    <3> QED
      BY <1>4, <1>6, <2>1, <2>2, <3>1, SlotsIn
  <2>4. d + n < BufferSize => i = Slot(w, d + n)
    <3> SUFFICES ASSUME d + n < BufferSize
                 PROVE  i = Slot(w, d + n)
      OBVIOUS
    <3>1. d + n \in 0..BufferSize
      BY SlotsIn
    <3>2. Slot(w, d + n) = IF w.m_head + (d + n) < BufferSize THEN w.m_head + (d + n)
                           ELSE w.m_head + (d + n) - BufferSize
      BY <3>1, SlotIs
    <3> QED
      <4>1. w.m_head \in Nat /\ w.m_head < BufferSize /\ d \in Nat /\ d < BufferSize
        BY <1>1, SlotsIn
      <4> QED
        BY <1>4, <1>6, <2>1, <3>2, <4>1, SlotsIn
  <2>5. At(v, d) = kept(i)
    BY <1>6, <2>1 DEF At, i
  <2> QED
    BY <1>1, <2>1, <2>3, <2>4, <2>5 DEF At
<1> QED
  BY <1>6, <1>7 DEF v

\* Advance, whether it resets the window or not.
LEMMA AdvanceIs ==
  ASSUME NEW w \in Windows, NEW n \in Nat
  PROVE  /\ Advance(w, n) \in Windows /\ Advance(w, n).m_winStart = SeqPlus(w.m_winStart, n)
         /\ \A d \in Slots : At(Advance(w, n), d) <=> (d + n < BufferSize /\ At(w, d + n))
<1>1. SeqPlus(w.m_winStart, n) \in SeqNos
  BY SeqPlusType DEF Windows
<1>2. CASE n >= BufferSize
  <2> DEFINE v == NewWindow(SeqPlus(w.m_winStart, n))
  <2>1. v \in Windows /\ \A d \in Slots : ~At(v, d)
    BY <1>1, NewWindowType
  <2>2. v.m_winStart = SeqPlus(w.m_winStart, n)
    BY DEF NewWindow
  <2>3. Advance(w, n) = v /\ \A d \in Slots : ~(d + n < BufferSize)
    BY <1>2, SlotsIn DEF Advance
  <2> HIDE DEF v
  <2> QED
    BY <2>1, <2>2, <2>3
<1>3. CASE ~(n >= BufferSize)
  <2>1. Advance(w, n) = Shift(w, n) /\ n \in 0..BufferSize
    BY <1>3, WindowAssumption DEF Advance
  <2> QED
    BY <2>1, ShiftIs
<1> QED
  BY <1>2, <1>3

\* The count of AdvanceTxWindow: the bits before it are set, the next one is not.
LEMMA LeadingIs ==
  ASSUME NEW w \in Windows
  PROVE  /\ Leading(w) \in 0..BufferSize
         /\ \A d \in 0..Leading(w) - 1 : At(w, d)
         /\ Leading(w) < BufferSize => ~At(w, Leading(w))
<1> DEFINE T == {n \in 0..BufferSize : n < BufferSize => ~At(w, n)}
<1>1. BufferSize \in T
  BY WindowAssumption
<1>2. T \in SUBSET Nat
  BY WindowAssumption
<1> HIDE DEF T
<1>3. PICK n \in T : \A m \in T : n <= m
  BY <1>1, <1>2, Least
<1>4. \A d \in 0..n - 1 : At(w, d)
  BY <1>2, <1>3, WindowAssumption DEF T
<1>5. \E k \in 0..BufferSize : (\A d \in 0..k - 1 : At(w, d)) /\ (k < BufferSize => ~At(w, k))
  BY <1>3, <1>4 DEF T
<1> QED
  BY <1>5 DEF Leading

\* The window past the acknowledged numbers at its start.
LEMMA AdvanceTxWindowIs ==
  ASSUME NEW w \in Windows
  PROVE  \E n \in 0..BufferSize :
            /\ \A d \in 0..n - 1 : At(w, d)
            /\ AdvanceTxWindow(w) \in Windows
            /\ AdvanceTxWindow(w).m_winStart = SeqPlus(w.m_winStart, n)
            /\ \A d \in Slots : At(AdvanceTxWindow(w), d) <=> (d + n < BufferSize /\ At(w, d + n))
            /\ ~At(AdvanceTxWindow(w), 0)
<1> DEFINE n == Leading(w)
<1>1. n \in 0..BufferSize /\ (\A d \in 0..n - 1 : At(w, d)) /\ (n < BufferSize => ~At(w, n))
  BY LeadingIs
<1>2. AdvanceTxWindow(w) = Shift(w, n) /\ 0 \in Slots
  BY WindowAssumption DEF AdvanceTxWindow, Slots
<1> HIDE DEF n
<1>3. /\ Shift(w, n) \in Windows /\ Shift(w, n).m_winStart = SeqPlus(w.m_winStart, n)
      /\ \A d \in Slots : At(Shift(w, n), d) <=> (d + n < BufferSize /\ At(w, d + n))
  BY <1>1, ShiftIs
<1>4. ~At(Shift(w, n), 0)
  <2>1. At(Shift(w, n), 0) => n < BufferSize /\ At(w, n)
    BY <1>1, <1>2, <1>3, SlotsIn
  <2> QED
    BY <1>1, <2>1
<1> QED
  BY <1>1, <1>2, <1>3, <1>4

-----------------------------------------------------------------------------
(* Positions.                                                               *)

\* The hypothesis, in linear form.
LEMMA FewPacketsIs ==
  ASSUME FewPackets
  PROVE  /\ MaxMpdus \in Nat /\ BufferSize \in Nat \ {0} /\ SeqSpace \in Nat \ {0}
         /\ 2 * MaxMpdus + 2 * BufferSize <= SeqSpace
  BY MpdusAssumption, WindowAssumption DEF FewPackets

\* Positions are natural numbers within the space.
LEMMA PositionType ==
  ASSUME NEW base \in SeqNos, NEW s \in SeqNos
  PROVE  Position(s, base) \in SeqNos /\ Position(s, base) \in Nat
  BY DistanceIs, WindowAssumption DEF Position, SeqNos

\* Numbers at the same position are equal.
LEMMA PositionInjective ==
  ASSUME NEW base \in SeqNos, NEW s \in SeqNos, NEW t \in SeqNos,
         Position(s, base) = Position(t, base)
  PROVE  s = t
  BY DistanceIs, WindowAssumption DEF Position, SeqNos

\* The position of a sum, before the end of the space.
LEMMA PositionPlus ==
  ASSUME NEW base \in SeqNos, NEW s \in SeqNos, NEW n \in Nat, Position(s, base) + n < SeqSpace
  PROVE  Position(SeqPlus(s, n), base) = Position(s, base) + n
<1>1. n \in 0..SeqSpace
  BY PositionType, WindowAssumption
<1>2. SeqPlus(s, n) = IF s + n < SeqSpace THEN s + n ELSE s + n - SeqSpace
  BY <1>1, SeqPlusIs
<1>3. SeqPlus(s, n) \in SeqNos
  BY SeqPlusType
<1>4. Position(s, base) = IF s >= base THEN s - base ELSE s - base + SeqSpace
  BY DistanceIs DEF Position
<1>5. Position(SeqPlus(s, n), base)
      = IF SeqPlus(s, n) >= base THEN SeqPlus(s, n) - base ELSE SeqPlus(s, n) - base + SeqSpace
  BY <1>3, DistanceIs DEF Position
<1> QED
  BY <1>1, <1>2, <1>4, <1>5, WindowAssumption DEF SeqNos

\* Distances between numbers that are used together.
LEMMA DistancePosition ==
  ASSUME FewPackets, NEW base \in SeqNos, NEW s \in SeqNos, NEW t \in SeqNos
  PROVE  /\ Distance(s, t) = IF Position(s, base) >= Position(t, base)
                             THEN Position(s, base) - Position(t, base)
                             ELSE Position(s, base) - Position(t, base) + SeqSpace
         /\ Position(s, base) <= MaxMpdus /\ Position(t, base) <= MaxMpdus =>
               (IsOld(s, t) <=> Position(s, base) < Position(t, base))
<1>1. /\ Distance(s, t) = IF s >= t THEN s - t ELSE s - t + SeqSpace
      /\ Position(s, base) = IF s >= base THEN s - base ELSE s - base + SeqSpace
      /\ Position(t, base) = IF t >= base THEN t - base ELSE t - base + SeqSpace
  BY DistanceIs DEF Position
<1>2. Distance(s, t) = IF Position(s, base) >= Position(t, base)
                             THEN Position(s, base) - Position(t, base)
                             ELSE Position(s, base) - Position(t, base) + SeqSpace
  BY <1>1, WindowAssumption DEF SeqNos
<1>3. Position(s, base) \in Nat /\ Position(t, base) \in Nat
  BY PositionType
<1> HIDE DEF FewPackets
<1> QED
  BY <1>2, <1>3, FewPacketsIs DEF IsOld

-----------------------------------------------------------------------------
(* The transmit window.                                                     *)

\* Only the remainder of the distance counts.
LEMMA SetAtRemainder ==
  ASSUME NEW w \in Windows, NEW d \in Nat
  PROVE  \E e \in Slots : e <= d /\ (d < BufferSize => e = d) /\ SetAt(w, d) = SetAt(w, e)
<1> DEFINE e == d % BufferSize
<1>1. w.m_head \in 0..BufferSize - 1 /\ BufferSize \in Nat \ {0}
  BY SlotsIn DEF Windows, Slots
<1>2. e \in Slots /\ e <= d /\ (d < BufferSize => e = d)
  BY <1>1 DEF Slots
<1>3. Slot(w, d) = Slot(w, e)
  <2>1. PICK h \in 0..BufferSize - 1 : h = w.m_head
    BY <1>1
  <2>2. h \in 0..BufferSize - 1
    OBVIOUS
  <2>3. (h + d) % BufferSize = (h + (d % BufferSize)) % BufferSize
    BY <1>1, <2>2, ModTwice
  <2>4. Slot(w, d) = (h + d) % BufferSize /\ Slot(w, e) = (h + e) % BufferSize
    BY <2>1, Zenon DEF Slot
  <2> QED
    BY <2>3, <2>4 DEF e
<1> QED
  BY <1>2, <1>3 DEF SetAt

\* AdvanceTxWindow does not pass the next sequence number.
LEMMA AdvanceTxWindowBounded ==
  ASSUME FewPackets, NEW base \in SeqNos, NEW next \in 0..MaxMpdus,
         NEW w \in Windows, WindowBounded(w, base, next)
  PROVE  AdvanceTxWindow(w) \in Windows /\ WindowBounded(AdvanceTxWindow(w), base, next)
<1> DEFINE v == AdvanceTxWindow(w)
<1>1. PICK n \in 0..BufferSize :
            /\ \A d \in 0..n - 1 : At(w, d)
            /\ v \in Windows
            /\ v.m_winStart = SeqPlus(w.m_winStart, n)
            /\ \A d \in Slots : At(v, d) <=> (d + n < BufferSize /\ At(w, d + n))
  BY AdvanceTxWindowIs
<1> HIDE DEF v
<1>2. w.m_winStart \in SeqNos /\ Position(w.m_winStart, base) \in Nat
  BY PositionType DEF Windows
<1>3. Position(w.m_winStart, base) + n <= next
  <2>1. CASE n = 0
    BY <1>2, <2>1 DEF WindowBounded
  <2>2. CASE n # 0
    <3>1. n - 1 \in Slots /\ At(w, n - 1)
      BY <1>1, <2>2, SlotsIn DEF Slots
    <3>2. Position(w.m_winStart, base) + (n - 1) < next
      BY <3>1 DEF WindowBounded
    <3> QED
      BY <1>2, <3>2, SlotsIn
  <2> QED
    BY <2>1, <2>2
<1>4. Position(v.m_winStart, base) = Position(w.m_winStart, base) + n
  BY <1>1, <1>2, <1>3, FewPacketsIs, PositionPlus
<1>5. ASSUME NEW d \in Slots, At(v, d)
      PROVE  Position(v.m_winStart, base) + d < next
  <2>1. d + n \in Slots /\ At(w, d + n)
    BY <1>1, <1>5, SlotsIn DEF Slots
  <2> QED
    BY <1>2, <1>4, <2>1, SlotsIn DEF WindowBounded
<1> QED
  BY <1>1, <1>3, <1>4, <1>5 DEF WindowBounded, v

\* Nor does the acknowledgment of an MPDU that was sent.
LEMMA NotifyAckedBounded ==
  ASSUME FewPackets, NEW base \in SeqNos, NEW next \in 0..MaxMpdus,
         NEW w \in Windows, WindowBounded(w, base, next),
         NEW m \in Mpdus, Position(m.seq, base) < next
  PROVE  NotifyAckedMpdu(w, m) \in Windows /\ WindowBounded(NotifyAckedMpdu(w, m), base, next)
<1>1. w.m_winStart \in SeqNos /\ m.seq \in SeqNos
  BY DEF Windows, Mpdus
<1>2. Position(w.m_winStart, base) \in Nat /\ Position(m.seq, base) \in Nat
  BY <1>1, PositionType
<1>3. Position(w.m_winStart, base) <= MaxMpdus /\ Position(m.seq, base) <= MaxMpdus
  BY <1>2, FewPacketsIs DEF WindowBounded
<1>4. CASE ~IsOld(m.seq, w.m_winStart)
  <2> DEFINE d == Distance(m.seq, w.m_winStart)
  <2>1. d = Position(m.seq, base) - Position(w.m_winStart, base) /\ d \in Nat
    BY <1>1, <1>2, <1>3, <1>4, DistancePosition
  <2> HIDE DEF d
  <2>2. PICK e \in Slots : e <= d /\ SetAt(w, d) = SetAt(w, e)
    BY <2>1, SetAtRemainder
  <2> DEFINE v == SetAt(w, e)
  <2>3. /\ v \in Windows /\ v.m_winStart = w.m_winStart
        /\ \A f \in Slots : At(v, f) <=> (f = e \/ At(w, f))
    BY SetAtIs
  <2> HIDE DEF v
  <2>4. WindowBounded(v, base, next)
    BY <1>2, <2>1, <2>2, <2>3, SlotsIn DEF WindowBounded
  <2>5. NotifyAckedMpdu(w, m) = AdvanceTxWindow(v)
    BY <1>4, <2>2 DEF NotifyAckedMpdu, v, d
  <2> QED
    BY <2>3, <2>4, <2>5, AdvanceTxWindowBounded
<1> QED
  BY <1>4 DEF NotifyAckedMpdu

\* The window passes acknowledged MPDUs only.
PassedAcked(from, to, A, base) ==
    \A p \in Nat : from <= p /\ p < to => \E m \in A : Position(m.seq, base) = p

\* The same for a window whose bits are those of A before it is advanced.
LEMMA AdvanceTxWindowExact ==
  ASSUME FewPackets, NEW base \in SeqNos, NEW A \in SUBSET Mpdus,
         NEW w \in Windows, Position(w.m_winStart, base) <= MaxMpdus,
         \A d \in Slots :
             At(w, d) <=> \E m \in A : Position(m.seq, base) = Position(w.m_winStart, base) + d,
         \A m \in A : Position(m.seq, base) < Position(w.m_winStart, base) + BufferSize
  PROVE  LET v == AdvanceTxWindow(w)
         IN  /\ WindowExact(v, A, base)
             /\ Position(w.m_winStart, base) <= Position(v.m_winStart, base)
             /\ PassedAcked(Position(w.m_winStart, base), Position(v.m_winStart, base), A, base)
<1> DEFINE v == AdvanceTxWindow(w)
           wp == Position(w.m_winStart, base)
           vp == Position(v.m_winStart, base)
<1>1. PICK n \in 0..BufferSize :
            /\ \A d \in 0..n - 1 : At(w, d)
            /\ v \in Windows
            /\ v.m_winStart = SeqPlus(w.m_winStart, n)
            /\ \A d \in Slots : At(v, d) <=> (d + n < BufferSize /\ At(w, d + n))
            /\ ~At(v, 0)
  BY AdvanceTxWindowIs
<1>2. w.m_winStart \in SeqNos /\ wp \in Nat /\ n \in Nat
  BY PositionType, SlotsIn DEF Windows
<1>3. vp = wp + n
  BY <1>1, <1>2, FewPacketsIs, PositionPlus
<1> HIDE DEF v, wp, vp
<1> USE DEF wp, vp
<1>4. ASSUME NEW d \in Slots
      PROVE  At(v, d) <=> \E m \in A : Position(m.seq, base) = vp + d
  <2>1. CASE d + n < BufferSize
    <3>1. d + n \in Slots
      BY <1>2, <2>1, SlotsIn DEF Slots
    <3>2. At(w, d + n) <=> \E m \in A : Position(m.seq, base) = wp + (d + n)
      BY <3>1
    <3>3. wp + (d + n) = vp + d
      BY <1>2, <1>3, SlotsIn
    <3> QED
      BY <1>1, <2>1, <3>2, <3>3
  <2>2. CASE ~(d + n < BufferSize)
    <3>1. ASSUME NEW m \in A
          PROVE  Position(m.seq, base) # vp + d
      <4>1. Position(m.seq, base) \in Nat
        BY PositionType DEF Mpdus
      <4> QED
        BY <1>2, <1>3, <2>2, <4>1, SlotsIn
    <3> QED
      BY <1>1, <2>2, <3>1
  <2> QED
    BY <2>1, <2>2
<1>5. ASSUME NEW m \in A
      PROVE  Position(m.seq, base) < vp + BufferSize
  <2>1. Position(m.seq, base) \in Nat
    BY PositionType DEF Mpdus
  <2> QED
    BY <1>2, <1>3, <2>1, SlotsIn
<1>6. ASSUME NEW p \in Nat, wp <= p, p < vp
      PROVE  \E m \in A : Position(m.seq, base) = p
  <2>1. p - wp \in 0..n - 1 /\ p - wp \in Slots /\ wp + (p - wp) = p
    BY <1>2, <1>3, <1>6, SlotsIn DEF Slots
  <2>2. At(w, p - wp)
    BY <1>1, <2>1
  <2> QED
    BY <2>1, <2>2
<1>7. wp <= vp
  BY <1>2, <1>3
<1> QED
  BY <1>1, <1>4, <1>5, <1>6, <1>7 DEF WindowExact, PassedAcked, v

\* The bits of the window after NotifyAckedMpdu are those of the acknowledged MPDUs.
LEMMA NotifyAckedExact ==
  ASSUME FewPackets, NEW base \in SeqNos, NEW A \in SUBSET Mpdus,
         NEW w \in Windows, Position(w.m_winStart, base) <= MaxMpdus, WindowExact(w, A, base),
         NEW m \in Mpdus, Position(m.seq, base) <= MaxMpdus,
         Position(m.seq, base) < Position(w.m_winStart, base) + BufferSize
  PROVE  LET v == NotifyAckedMpdu(w, m)
             start == Position(w.m_winStart, base)
         IN  /\ WindowExact(v, A \cup {m}, base) /\ start <= Position(v.m_winStart, base)
             /\ PassedAcked(start, Position(v.m_winStart, base), A \cup {m}, base)
<1> DEFINE wp == Position(w.m_winStart, base)
           mp == Position(m.seq, base)
           B == A \cup {m}
<1>1. w.m_winStart \in SeqNos /\ m.seq \in SeqNos /\ wp \in Nat /\ mp \in Nat
  BY PositionType DEF Windows, Mpdus
<1>2. IsOld(m.seq, w.m_winStart) <=> mp < wp
  BY <1>1, DistancePosition
<1>3. CASE mp < wp
  <2>1. NotifyAckedMpdu(w, m) = w
    BY <1>2, <1>3 DEF NotifyAckedMpdu
  <2>2. ASSUME NEW d \in Slots
        PROVE  At(w, d) <=> \E k \in B : Position(k.seq, base) = wp + d
    <3>1. mp # wp + d
      BY <1>1, <1>3, SlotsIn
    <3> QED
      BY <3>1 DEF WindowExact
  <2>3. WindowExact(w, B, base)
    BY <2>2 DEF WindowExact
  <2>4. PassedAcked(wp, wp, B, base) /\ wp <= wp
    BY <1>1 DEF PassedAcked
  <2> QED
    BY <2>1, <2>3, <2>4
<1>4. CASE mp >= wp
  <2> DEFINE d == Distance(m.seq, w.m_winStart)
             u == SetAt(w, d)
  <2>1. d = mp - wp
    BY <1>1, <1>4, DistancePosition
  <2>2. d \in Slots
    BY <1>1, <1>4, <2>1, SlotsIn DEF Slots
  <2> HIDE DEF d
  <2>3. /\ u \in Windows /\ u.m_winStart = w.m_winStart
        /\ \A f \in Slots : At(u, f) <=> (f = d \/ At(w, f))
    BY <2>2, SetAtIs
  <2>4. NotifyAckedMpdu(w, m) = AdvanceTxWindow(u)
    BY <1>1, <1>2, <1>4 DEF NotifyAckedMpdu, d
  <2> HIDE DEF u
  <2>5. ASSUME NEW f \in Slots
        PROVE  At(u, f) <=> \E k \in B : Position(k.seq, base) = wp + f
    <3>1. f = d <=> mp = wp + f
      BY <1>1, <2>1, SlotsIn
    <3> QED
      BY <2>3, <3>1 DEF WindowExact
  <2>6. B \in SUBSET Mpdus /\ \A k \in B : Position(k.seq, base) < wp + BufferSize
    BY DEF WindowExact
  <2> HIDE DEF B
  <2> QED
    BY <2>3, <2>4, <2>5, <2>6, AdvanceTxWindowExact DEF B
<1> QED
  BY <1>1, <1>3, <1>4

-----------------------------------------------------------------------------
(* Acknowledged MPDUs.                                                      *)

\* Distances are below the size of the space.
LEMMA DistanceType ==
  ASSUME NEW s \in SeqNos, NEW t \in SeqNos
  PROVE  Distance(s, t) \in Nat /\ Distance(s, t) < SeqSpace
  BY DistanceIs, WindowAssumption DEF SeqNos

\* NotifyAckedMpdu yields a window.
LEMMA NotifyAckedType ==
  ASSUME NEW w \in Windows, NEW m \in Mpdus
  PROVE  NotifyAckedMpdu(w, m) \in Windows
<1> DEFINE d == Distance(m.seq, w.m_winStart)
<1>1. d \in Nat
  BY DistanceType DEF Windows, Mpdus
<1> HIDE DEF d
<1>2. PICK e \in Slots : SetAt(w, d) = SetAt(w, e)
  BY <1>1, SetAtRemainder
<1>3. SetAt(w, d) \in Windows
  BY <1>2, SetAtIs
<1>4. AdvanceTxWindow(SetAt(w, d)) \in Windows
  BY <1>3, AdvanceTxWindowIs
<1> QED
  BY <1>4 DEF NotifyAckedMpdu, d

\* AllAcked, step by step.
LEMMA AllAckedUnfolds ==
  ASSUME NEW w \in Windows, NEW got \in Seq(Mpdus)
  PROVE  \E f : /\ f[0] = w /\ AllAcked(w, got) = f[Len(got)]
                /\ \A k \in 1..Len(got) : f[k] = NotifyAckedMpdu(f[k - 1], got[k])
<1> DEFINE n == Len(got)
           values(f) == [k \in 0..n |-> IF k = 0 THEN w ELSE NotifyAckedMpdu(f[k - 1], got[k])]
           after == CHOOSE f : f = values(f)
           g == [k \in 1..n |-> [v \in Windows |-> NotifyAckedMpdu(v, got[k])]]
<1>1. n \in Nat
  BY LenProperties
<1>2. StaysIn(g, n, Windows)
  BY NotifyAckedType DEF StaysIn
<1>3. PICK f : IsFold(f, g, n, Windows, w)
  <2> HIDE DEF g, n, after
  <2> QED
    BY <1>1, <1>2, Folding, Zenon
<1>4. \A k \in 1..n : f[k - 1] \in Windows /\ f[k] = NotifyAckedMpdu(f[k - 1], got[k])
  <2>1. \A k \in 1..n : f[k - 1] \in Windows
    BY <1>1, <1>3 DEF IsFold
  <2> QED
    BY <1>3, <2>1 DEF IsFold
<1>5. f = values(f)
  BY <1>1, <1>3, <1>4 DEF IsFold
<1>6. after = values(after)
  BY <1>5
<1>7. AllAcked(w, got) = after[n]
  BY DEF AllAcked
<1> HIDE DEF after
<1> DEFINE h == values(after)
<1>8. after = h /\ h[0] = w /\ \A k \in 1..n : h[k] = NotifyAckedMpdu(after[k - 1], got[k])
  BY <1>1, <1>6
<1> HIDE DEF h
<1> QED
  BY <1>7, <1>8

\* No acknowledgment moves the window past the next sequence number.
LEMMA AllAckedBounded ==
  ASSUME FewPackets, NEW base \in SeqNos, NEW next \in 0..MaxMpdus,
         NEW w \in Windows, WindowBounded(w, base, next),
         NEW got \in Seq(Mpdus), \A m \in Members(got) : Position(m.seq, base) < next
  PROVE  AllAcked(w, got) \in Windows /\ WindowBounded(AllAcked(w, got), base, next)
<1>1. PICK f : /\ f[0] = w /\ AllAcked(w, got) = f[Len(got)]
               /\ \A k \in 1..Len(got) : f[k] = NotifyAckedMpdu(f[k - 1], got[k])
  BY AllAckedUnfolds
<1> DEFINE T == {k \in Nat : f[k] \in Windows /\ WindowBounded(f[k], base, next)}
<1>2. 0 \in T
  BY <1>1
<1>3. ASSUME NEW k \in 1..Len(got), k - 1 \in T
      PROVE  k \in T
  <2>1. got[k] \in Mpdus /\ Position(got[k].seq, base) < next
    BY DEF Members
  <2>2. NotifyAckedMpdu(f[k - 1], got[k]) \in Windows
        /\ WindowBounded(NotifyAckedMpdu(f[k - 1], got[k]), base, next)
    BY <1>3, <2>1, NotifyAckedBounded
  <2> QED
    BY <1>1, <2>2
<1>4. Len(got) \in Nat /\ Len(got) \in 0..Len(got)
  BY LenProperties
<1> HIDE DEF T
<1>5. Len(got) \in T
  BY <1>2, <1>3, <1>4, UpTo
<1> QED
  BY <1>1, <1>5 DEF T

\* After all acknowledgments the bits are still those of the acknowledged MPDUs.
LEMMA AllAckedExact ==
  ASSUME FewPackets, NEW base \in SeqNos, NEW next \in 0..MaxMpdus, NEW A \in SUBSET Mpdus,
         NEW w \in Windows, WindowBounded(w, base, next), WindowExact(w, A, base),
         NEW got \in Seq(Mpdus),
         \A m \in Members(got) : /\ Position(m.seq, base) < next
                                 /\ Position(m.seq, base) < Position(w.m_winStart, base) + BufferSize
  PROVE  LET v == AllAcked(w, got)
             start == Position(w.m_winStart, base)
         IN  /\ WindowExact(v, A \cup Members(got), base) /\ start <= Position(v.m_winStart, base)
             /\ PassedAcked(start, Position(v.m_winStart, base), A \cup Members(got), base)
<1>1. PICK f : /\ f[0] = w /\ AllAcked(w, got) = f[Len(got)]
               /\ \A k \in 1..Len(got) : f[k] = NotifyAckedMpdu(f[k - 1], got[k])
  BY AllAckedUnfolds
<1> DEFINE start == Position(w.m_winStart, base)
           B(k) == A \cup {got[i] : i \in 1..k}
           T == {k \in Nat : /\ f[k] \in Windows /\ WindowBounded(f[k], base, next)
                             /\ WindowExact(f[k], B(k), base)
                             /\ start <= Position(f[k].m_winStart, base)
                             /\ PassedAcked(start, Position(f[k].m_winStart, base), B(k), base)}
<1>0. w.m_winStart \in SeqNos /\ start \in Nat /\ Len(got) \in Nat /\ DOMAIN got = 1..Len(got)
  BY PositionType, LenProperties DEF Windows
<1>2. 0 \in T
  <2>1. B(0) = A
    OBVIOUS
  <2>2. PassedAcked(start, start, A, base)
    BY <1>0 DEF PassedAcked
  <2>3. 0 \in Nat /\ start <= start
    BY <1>0
  <2> HIDE DEF B
  <2> QED
    BY <1>1, <2>1, <2>2, <2>3, Zenon
<1>3. ASSUME NEW k \in 1..Len(got), k - 1 \in T
      PROVE  k \in T
  <2> DEFINE u == f[k - 1]
             m == got[k]
             v == NotifyAckedMpdu(u, m)
  <2>1. m \in Mpdus /\ m \in Members(got)
    BY <1>0 DEF Members
  <2>2. /\ u \in Windows /\ WindowBounded(u, base, next) /\ WindowExact(u, B(k - 1), base)
        /\ start <= Position(u.m_winStart, base)
        /\ PassedAcked(start, Position(u.m_winStart, base), B(k - 1), base)
    BY <1>3
  <2>3. B(k - 1) \in SUBSET Mpdus /\ B(k) = B(k - 1) \cup {m}
    <3>1. {got[i] : i \in 1..k} = {got[i] : i \in 1..k - 1} \cup {m}
      BY <1>0
    <3>2. \A i \in 1..k - 1 : got[i] \in Mpdus
      BY <1>0
    <3> QED
      BY <3>1, <3>2
  <2>4. /\ Position(u.m_winStart, base) \in Nat /\ Position(m.seq, base) \in Nat
        /\ Position(u.m_winStart, base) <= MaxMpdus /\ Position(m.seq, base) <= MaxMpdus
        /\ Position(m.seq, base) < Position(u.m_winStart, base) + BufferSize
        /\ Position(m.seq, base) < next
    <3>1. Position(u.m_winStart, base) \in Nat /\ Position(m.seq, base) \in Nat
      BY <2>1, <2>2, PositionType DEF Windows, Mpdus
    <3> QED
      BY <1>0, <2>1, <2>2, <3>1, FewPacketsIs DEF WindowBounded
  <2> HIDE DEF u, m, B
  <2>5. v \in Windows /\ WindowBounded(v, base, next)
    BY <2>1, <2>2, <2>4, NotifyAckedBounded
  <2>6. /\ WindowExact(v, B(k - 1) \cup {m}, base)
        /\ Position(u.m_winStart, base) <= Position(v.m_winStart, base)
        /\ PassedAcked(Position(u.m_winStart, base), Position(v.m_winStart, base), B(k - 1) \cup {m}, base)
    BY <2>1, <2>2, <2>3, <2>4, NotifyAckedExact
  <2>7. f[k] = v
    BY <1>1 DEF u, m
  <2> HIDE DEF v
  <2>8. Position(v.m_winStart, base) \in Nat
    BY <2>5, PositionType DEF Windows
  <2>9. PassedAcked(start, Position(v.m_winStart, base), B(k), base)
    BY <1>0, <2>2, <2>3, <2>4, <2>6, <2>8 DEF PassedAcked
  <2>10. start <= Position(v.m_winStart, base)
    BY <1>0, <2>2, <2>4, <2>6, <2>8
  <2>11. k \in Nat
    OBVIOUS
  <2> QED
    BY <2>3, <2>5, <2>6, <2>7, <2>9, <2>10, <2>11, Zenon
<1> HIDE DEF T
<1>4. Len(got) \in T
  <2>1. Len(got) \in 0..Len(got)
    BY <1>0
  <2> QED
    BY <1>0, <1>2, <1>3, <2>1, UpTo, Zenon
<1>5. B(Len(got)) = A \cup Members(got)
  BY <1>0 DEF Members
<1> QED
  BY <1>1, <1>4, <1>5 DEF T

-----------------------------------------------------------------------------
(* Lists of MPDUs.                                                          *)

\* What a list of MPDUs holds.
LEMMA MembersIn ==
  ASSUME NEW list \in Seq(Mpdus)
  PROVE  /\ Len(list) \in Nat /\ DOMAIN list = 1..Len(list)
         /\ Members(list) = {list[i] : i \in 1..Len(list)} /\ Members(list) \in SUBSET Mpdus
  BY LenProperties DEF Members

\* One ascending list after the other.
LEMMA JoinedAscending ==
  ASSUME NEW base \in SeqNos, NEW a \in Seq(Mpdus), NEW b \in Seq(Mpdus), NEW r, r = a \o b
  PROVE  /\ r \in Seq(Mpdus) /\ Members(r) = Members(a) \cup Members(b)
         /\ Ascending(a, base) /\ Ascending(b, base)
            /\ (\A x \in Members(a), y \in Members(b) : Position(x.seq, base) < Position(y.seq, base))
            => Ascending(r, base)
<1>1. /\ Len(a) \in Nat /\ DOMAIN a = 1..Len(a) /\ Len(b) \in Nat /\ DOMAIN b = 1..Len(b)
      /\ Members(a) = {a[i] : i \in 1..Len(a)} /\ Members(b) = {b[i] : i \in 1..Len(b)}
  BY MembersIn
<1>2. /\ r \in Seq(Mpdus) /\ Len(r) = Len(a) + Len(b)
      /\ \A i \in 1..Len(a) + Len(b) : r[i] = IF i <= Len(a) THEN a[i] ELSE b[i - Len(a)]
  BY Joined
<1>3. DOMAIN r = 1..Len(r) /\ Members(r) = {r[i] : i \in 1..Len(r)}
  BY <1>2, MembersIn
<1>4. ASSUME NEW i \in 1..Len(r)
      PROVE  \/ i <= Len(a) /\ i \in 1..Len(a) /\ r[i] = a[i] /\ r[i] \in Members(a)
             \/ i > Len(a) /\ i - Len(a) \in 1..Len(b) /\ r[i] = b[i - Len(a)] /\ r[i] \in Members(b)
  BY <1>1, <1>2
<1>5. Members(r) = Members(a) \cup Members(b)
  <2>1. ASSUME NEW i \in 1..Len(a)
        PROVE  a[i] \in Members(r)
    <3>1. i \in 1..Len(r) /\ r[i] = a[i]
      BY <1>1, <1>2
    <3> QED
      BY <1>3, <3>1
  <2>2. ASSUME NEW i \in 1..Len(b)
        PROVE  b[i] \in Members(r)
    <3>1. i + Len(a) \in 1..Len(r) /\ r[i + Len(a)] = b[i]
      BY <1>1, <1>2
    <3> QED
      BY <1>3, <3>1
  <2>3. Members(r) \subseteq Members(a) \cup Members(b)
    BY <1>3, <1>4
  <2> QED
    BY <1>1, <2>1, <2>2, <2>3
<1>6. ASSUME Ascending(a, base), Ascending(b, base),
             \A x \in Members(a), y \in Members(b) : Position(x.seq, base) < Position(y.seq, base),
             NEW i \in 1..Len(r), NEW j \in 1..Len(r), i < j
      PROVE  Position(r[i].seq, base) < Position(r[j].seq, base)
  <2>1. CASE j <= Len(a)
    <3>1. i \in 1..Len(a) /\ j \in 1..Len(a) /\ r[i] = a[i] /\ r[j] = a[j]
      BY <1>1, <1>4, <1>6, <2>1
    <3> QED
      BY <1>1, <1>6, <3>1 DEF Ascending
  <2>2. CASE i <= Len(a) /\ j > Len(a)
    <3>1. r[i] \in Members(a) /\ r[j] \in Members(b)
      BY <1>1, <1>4, <2>2
    <3> QED
      BY <1>6, <3>1
  <2>3. CASE i > Len(a)
    <3>1. /\ i - Len(a) \in 1..Len(b) /\ j - Len(a) \in 1..Len(b) /\ i - Len(a) < j - Len(a)
          /\ r[i] = b[i - Len(a)] /\ r[j] = b[j - Len(a)]
      BY <1>1, <1>4, <1>6, <2>3
    <3> QED
      BY <1>1, <1>6, <3>1 DEF Ascending
  <2> QED
    BY <1>1, <2>1, <2>2, <2>3
<1> QED
  BY <1>2, <1>3, <1>5, <1>6 DEF Ascending

\* An MPDU behind those before it.
LEMMA AppendAscending ==
  ASSUME NEW base \in SeqNos, NEW a \in Seq(Mpdus), NEW m \in Mpdus, NEW r, r = Append(a, m)
  PROVE  /\ r \in Seq(Mpdus) /\ Members(r) = Members(a) \cup {m}
         /\ Ascending(a, base) /\ (\A x \in Members(a) : Position(x.seq, base) < Position(m.seq, base))
            => Ascending(r, base)
<1> DEFINE b == <<m>>
<1>1. b \in Seq(Mpdus) /\ Len(b) = 1 /\ b[1] = m /\ DOMAIN b = 1..1
  OBVIOUS
<1>2. Members(b) = {m} /\ Ascending(b, base)
  BY <1>1 DEF Members, Ascending
<1>3. r = a \o b
  OBVIOUS
<1> HIDE DEF b
<1> QED
  <2>1. /\ r \in Seq(Mpdus) /\ Members(r) = Members(a) \cup Members(b)
        /\ Ascending(a, base) /\ Ascending(b, base)
           /\ (\A x \in Members(a), y \in Members(b) : Position(x.seq, base) < Position(y.seq, base))
           => Ascending(r, base)
    BY <1>1, <1>3, JoinedAscending
  <2> QED
    BY <1>2, <2>1

\* Only, step by step.
LEMMA OnlyUnfolds ==
  ASSUME NEW list \in Seq(Mpdus), NEW mpdus
  PROVE  \E f : /\ f[0] = <<>> /\ Only(list, mpdus) = f[Len(list)]
                /\ \A k \in 1..Len(list) :
                      f[k] = IF list[k] \in mpdus THEN Append(f[k - 1], list[k]) ELSE f[k - 1]
<1> DEFINE n == Len(list)
           values(f) == [k \in 0..n |-> IF k = 0 THEN <<>>
                           ELSE IF list[k] \in mpdus THEN Append(f[k - 1], list[k]) ELSE f[k - 1]]
           upTo == CHOOSE f : f = values(f)
           S == Seq(Mpdus)
           g == [k \in 1..n |-> [v \in S |-> IF list[k] \in mpdus THEN Append(v, list[k]) ELSE v]]
<1>1. n \in Nat /\ <<>> \in S
  BY LenProperties
<1>2. StaysIn(g, n, S)
  BY DEF StaysIn
<1>3. PICK f : IsFold(f, g, n, S, <<>>)
  <2> HIDE DEF g, n, S, upTo
  <2> QED
    BY <1>1, <1>2, Folding, Zenon
<1>4. \A k \in 1..n : f[k] = IF list[k] \in mpdus THEN Append(f[k - 1], list[k]) ELSE f[k - 1]
  <2>1. \A k \in 1..n : f[k - 1] \in S
    BY <1>1, <1>3 DEF IsFold
  <2> HIDE DEF S
  <2> QED
    BY <1>3, <2>1 DEF IsFold
<1>5. f = values(f)
  <2>1. f \in [0..n -> S] /\ f[0] = <<>>
    BY <1>3 DEF IsFold
  <2> HIDE DEF S
  <2>2. \A k \in 0..n : k # 0 => k \in 1..n
    BY <1>1
  <2> QED
    BY <1>4, <2>1, <2>2
<1>6. upTo = values(upTo)
  BY <1>5
<1>7. Only(list, mpdus) = upTo[n]
  BY DEF Only
<1> HIDE DEF upTo
<1> DEFINE h == values(upTo)
<1>8. upTo = h /\ h[0] = <<>>
      /\ \A k \in 1..n : h[k] = IF list[k] \in mpdus THEN Append(upTo[k - 1], list[k]) ELSE upTo[k - 1]
  <2>1. \A k \in 1..n : k \in 0..n /\ k # 0
    BY <1>1
  <2>2. 0 \in 0..n
    BY <1>1
  <2> QED
    BY <1>6, <2>1, <2>2
<1> HIDE DEF h
<1> QED
  BY <1>7, <1>8

\* The members of a part of a list, in their order.
LEMMA OnlyIs ==
  ASSUME NEW base \in SeqNos, NEW list \in Seq(Mpdus), NEW mpdus
  PROVE  LET r == Only(list, mpdus)
         IN  /\ r \in Seq(Mpdus) /\ Members(r) = Members(list) \cap mpdus
             /\ Ascending(list, base) => Ascending(r, base)
<1>1. PICK f : /\ f[0] = <<>> /\ Only(list, mpdus) = f[Len(list)]
               /\ \A k \in 1..Len(list) :
                     f[k] = IF list[k] \in mpdus THEN Append(f[k - 1], list[k]) ELSE f[k - 1]
  BY OnlyUnfolds
<1> DEFINE upTo(k) == {list[i] : i \in 1..k}
           T == {k \in Nat : /\ f[k] \in Seq(Mpdus) /\ Members(f[k]) = upTo(k) \cap mpdus
                             /\ Ascending(list, base) => Ascending(f[k], base)}
<1>2. Len(list) \in Nat /\ DOMAIN list = 1..Len(list) /\ Members(list) = upTo(Len(list))
  BY MembersIn
<1>3. 0 \in T
  <2>1. <<>> \in Seq(Mpdus) /\ Members(<<>>) = {} /\ Ascending(<<>>, base) /\ upTo(0) = {}
    BY DEF Members, Ascending
  <2> QED
    BY <1>1, <2>1
<1>4. ASSUME NEW k \in 1..Len(list), k - 1 \in T
      PROVE  k \in T
  <2> DEFINE before == f[k - 1]
             m == list[k]
  <2>1. /\ before \in Seq(Mpdus) /\ Members(before) = upTo(k - 1) \cap mpdus
        /\ Ascending(list, base) => Ascending(before, base)
    BY <1>4
  <2>2. m \in Mpdus /\ k \in Nat
    BY <1>2
  <2>3. upTo(k) = upTo(k - 1) \cup {m}
    BY <1>2
  <2>4. Ascending(list, base) =>
           \A x \in upTo(k - 1) : Position(x.seq, base) < Position(m.seq, base)
    BY <1>2 DEF Ascending
  <2>5. f[k] = IF m \in mpdus THEN Append(before, m) ELSE before
    BY <1>1
  <2> HIDE DEF before, m, upTo
  <2>6. CASE m \in mpdus
    <3>1. f[k] = Append(before, m)
      BY <2>5, <2>6
    <3>2. /\ f[k] \in Seq(Mpdus) /\ Members(f[k]) = Members(before) \cup {m}
          /\ Ascending(before, base)
             /\ (\A x \in Members(before) : Position(x.seq, base) < Position(m.seq, base))
             => Ascending(f[k], base)
      BY <2>1, <2>2, <3>1, AppendAscending
    <3> QED
      BY <2>1, <2>2, <2>3, <2>4, <2>6, <3>2
  <2>7. CASE m \notin mpdus
    BY <2>1, <2>2, <2>3, <2>5, <2>7
  <2> QED
    BY <2>6, <2>7
<1> HIDE DEF T
<1>5. Len(list) \in T
  <2>1. Len(list) \in 0..Len(list)
    BY <1>2
  <2> QED
    BY <1>2, <1>3, <1>4, <2>1, UpTo, Zenon
<1> QED
  BY <1>1, <1>2, <1>5 DEF T

\* What Erase leaves: the MPDUs without these identities.
LEMMA EraseIs ==
  ASSUME NEW base \in SeqNos, NEW list \in Seq(Mpdus), NEW ids
  PROVE  LET r == Erase(list, ids)
         IN  /\ r \in Seq(Mpdus) /\ Members(r) = {m \in Members(list) : m.id \notin ids}
             /\ Ascending(list, base) => Ascending(r, base)
<1> DEFINE left == Without(Members(list), ids)
<1>1. left = {m \in Members(list) : m.id \notin ids}
  BY DEF Without
<1>2. Erase(list, ids) = Only(list, left)
  BY DEF Erase
<1>3. Members(list) \cap left = left
  BY <1>1
<1> HIDE DEF left
<1> QED
  BY <1>1, <1>2, <1>3, OnlyIs

-----------------------------------------------------------------------------
(* What the originator's operations keep.                                   *)

\* The transmit window of p does not start before that of o.
Later(o, p, base) ==
    base \in SeqNos /\ Established(o) =>
        /\ Position(o.window.m_winStart, base) \in Nat /\ Position(p.window.m_winStart, base) \in Nat
        /\ Position(o.window.m_winStart, base) <= Position(p.window.m_winStart, base)

\* After an operation: p, in the same state as o, with no more in the queue.
After(p, o, A, base, sent, next, n) ==
    /\ OriginatorOK(p, A, base, sent, next, n)
    /\ TransmitOK(o, A, base) => TransmitOK(p, A, base)
    /\ Later(o, p, base)
    /\ p.state = o.state /\ p.request = o.request /\ IdsOf(p.queue) \subseteq IdsOf(o.queue)

\* p announces what it gives up: a new BlockAckReq is queued, or the window and
\* what was to be announced before are the same.
Announces(p, o) ==
    p.bar = NewBar \/ (p.window = o.window /\ p.bar = o.bar /\ p.barIfData = o.barIfData)

\* The same when MPDUs have been acknowledged: the window passes only these.
AnnouncesLost(p, o, A, base) ==
    \/ p.bar = NewBar
    \/ /\ p.bar = o.bar /\ p.barIfData = o.barIfData
       /\ PassedAcked(Position(o.window.m_winStart, base), Position(p.window.m_winStart, base), A, base)

\* p announces what o did not, and still what o did, unless that was answered.
StillAnnounces(p, o, A, base, answered) ==
    \/ p.bar.queued \/ p.barIfData
    \/ /\ ~o.barIfData /\ (o.bar.queued => answered)
       /\ PassedAcked(Position(o.window.m_winStart, base), Position(p.window.m_winStart, base), A, base)

\* What is announced is still announced.
LEMMA AnnouncesStill ==
  ASSUME NEW base \in SeqNos, NEW p, NEW o \in Originators, NEW A, Announces(p, o)
  PROVE  StillAnnounces(p, o, A, base, FALSE)
<1>1. Position(o.window.m_winStart, base) \in Nat
  BY PositionType DEF Originators, Windows
<1>2. PassedAcked(Position(o.window.m_winStart, base), Position(o.window.m_winStart, base), A, base)
  BY <1>1 DEF PassedAcked
<1> QED
  BY <1>2 DEF Announces, StillAnnounces, NewBar

\* The same when the window passes acknowledged MPDUs.
LEMMA LostStill ==
  ASSUME NEW p, NEW o, NEW A, NEW base, AnnouncesLost(p, o, A, base)
  PROVE  StillAnnounces(p, o, A, base, FALSE)
  BY DEF AnnouncesLost, StillAnnounces, NewBar

\* One step after the other.
LEMMA StillAnnouncesMore ==
  ASSUME NEW p, NEW q, NEW o, NEW A, NEW base, NEW answered,
         StillAnnounces(p, o, A, base, answered), Announces(q, p)
  PROVE  StillAnnounces(q, o, A, base, answered)
  BY DEF Announces, StillAnnounces, NewBar

\* The same window.
LEMMA SameWindow ==
  ASSUME NEW base, NEW o \in Originators, NEW p, p.window = o.window
  PROVE  Later(o, p, base)
<1>1. o.window.m_winStart \in SeqNos
  BY DEF Originators, Windows
<1> QED
  BY <1>1, PositionType DEF Later

\* One window after the other.
LEMMA LaterLater ==
  ASSUME NEW base, NEW o, NEW p, NEW q, Later(o, p, base), Later(p, q, base), p.state = o.state
  PROVE  Later(o, q, base)
  BY DEF Later, Established

\* Nothing was done.
LEMMA AfterItself ==
  ASSUME NEW o, NEW A, NEW base, NEW sent, NEW next, NEW n, OriginatorOK(o, A, base, sent, next, n)
  PROVE  After(o, o, A, base, sent, next, n)
<1>1. Later(o, o, base)
  BY SameWindow DEF OriginatorOK
<1> QED
  BY <1>1 DEF After

\* One operation after the other.
LEMMA AfterAfter ==
  ASSUME NEW o, NEW p, NEW q, NEW A, NEW base, NEW sent, NEW next, NEW n,
         After(p, o, A, base, sent, next, n), After(q, p, A, base, sent, next, n)
  PROVE  After(q, o, A, base, sent, next, n)
<1>1. Later(o, q, base)
  BY LaterLater DEF After
<1> QED
  BY <1>1 DEF After

\* What is said of the queue holds of a part of it.
LEMMA QueueSubset ==
  ASSUME NEW r, NEW q \in SUBSET r, NEW sent, NEW next, NEW n, QueueOK(r, sent, next, n)
  PROVE  QueueOK(q, sent, next, n) /\ IdsOf(q) \subseteq IdsOf(r)
  BY DEF QueueOK, IdsOf

\* MPDUs that were sent are numbered in the queue.
LEMMA ToRetransmitIs ==
  ASSUME NEW q \in SUBSET Elements, NEW sent, NEW next, NEW n, QueueOK(q, sent, next, n),
         NEW m \in sent
  PROVE  /\ ToRetransmit(q, m.id) \in SUBSET Elements /\ QueueOK(ToRetransmit(q, m.id), sent, next, n)
         /\ IdsOf(ToRetransmit(q, m.id)) = IdsOf(q)
         /\ \A e \in ToRetransmit(q, m.id) : e.inFlight => e.id # m.id /\ e \in q
<1> DEFINE r == ToRetransmit(q, m.id)
           changed(e) == [e EXCEPT !.retry = TRUE, !.inFlight = FALSE]
<1>1. r = {IF e.id = m.id THEN changed(e) ELSE e : e \in q}
  BY DEF ToRetransmit
<1>2. \A e \in q : /\ changed(e) \in Elements /\ changed(e).id = e.id /\ changed(e).seq = e.seq
                   /\ changed(e).retry = TRUE /\ changed(e).inFlight = FALSE /\ e \in Elements
  BY DEF Elements
<1>3. \A e \in q : e.id = m.id => e.seq # NoSeq
  <2>1. \A e \in q : e.id \in Int
    BY DEF Elements, Ids
  <2> QED
    BY <2>1 DEF QueueOK
<1> HIDE DEF changed
<1>4. \A f \in r : \E e \in q :
         /\ f.id = e.id /\ f.seq = e.seq /\ f \in Elements
         /\ e.id = m.id => f = changed(e)
         /\ e.id # m.id => f = e
  <2>1. ASSUME NEW f \in r
        PROVE  \E e \in q : f = IF e.id = m.id THEN changed(e) ELSE e
    BY <1>1, Zenon
  <2> HIDE DEF r
  <2> SUFFICES ASSUME NEW f \in r
               PROVE  \E e \in q : /\ f.id = e.id /\ f.seq = e.seq /\ f \in Elements
                                   /\ e.id = m.id => f = changed(e)
                                   /\ e.id # m.id => f = e
    OBVIOUS
  <2>2. PICK e \in q : f = IF e.id = m.id THEN changed(e) ELSE e
    BY <2>1
  <2>3. CASE e.id = m.id
    <3>1. f = changed(e)
      BY <2>2, <2>3
    <3> QED
      BY <1>2, <2>2, <2>3, <3>1
  <2>4. CASE e.id # m.id
    <3>1. f = e
      BY <2>2, <2>4
    <3>2. f.id = e.id /\ f.seq = e.seq /\ f \in Elements
      BY <1>2, <3>1
    <3> QED
      BY <2>4, <3>1, <3>2
  <2> QED
    BY <2>3, <2>4
<1>5. \A e \in q : \E f \in r : f.id = e.id
  BY <1>1, <1>2
<1> HIDE DEF r
<1>6. r \in SUBSET Elements
  BY <1>4
<1>7. IdsOf(r) = IdsOf(q)
  BY <1>4, <1>5 DEF IdsOf
<1>8. QueueOK(r, sent, next, n)
  <2>1. \A f \in r : f.id < n /\ (f.seq # NoSeq => Mpdu(f.id, f.seq) \in sent)
    BY <1>4 DEF QueueOK
  <2>2. \A f \in r : f.seq = NoSeq =>
          ~f.retry /\ ~f.inFlight /\ next <= f.id /\ \A x \in sent : x.id < f.id
    BY <1>3, <1>4 DEF QueueOK
  <2>3. \A f, g \in r : f.id = g.id => f = g
    BY <1>4 DEF QueueOK
  <2> QED
    BY <2>1, <2>2, <2>3 DEF QueueOK
<1>9. \A e \in r : e.inFlight => e.id # m.id /\ e \in q
  BY <1>2, <1>4
<1> QED
  BY <1>6, <1>7, <1>8, <1>9 DEF r

\* An operation that leaves the window alone.
LEMMA LessOK ==
  ASSUME NEW o, NEW A, NEW base, NEW sent, NEW next, NEW n, OriginatorOK(o, A, base, sent, next, n),
         NEW p \in Originators, p.state = o.state, p.window = o.window, p.request = o.request,
         QueueOK(p.queue, sent, next, n), IdsOf(p.queue) \subseteq IdsOf(o.queue),
         Members(p.outstanding) \subseteq Members(o.outstanding),
         Ascending(o.outstanding, base) => Ascending(p.outstanding, base),
         p.notices \subseteq sent, ~Established(o) => p.bar = NoBar /\ ~p.barIfData
  PROVE  After(p, o, A, base, sent, next, n)
<1>1. Established(p) <=> Established(o)
  BY DEF Established
<1>2. o.outstanding \in Seq(Mpdus) /\ p.outstanding \in Seq(Mpdus)
  BY DEF OriginatorOK, Originators
<1>3. ~Established(p) => p.outstanding = <<>>
  <2> SUFFICES ASSUME ~Established(p)
               PROVE  p.outstanding = <<>>
    OBVIOUS
  <2>1. o.outstanding = <<>>
    BY <1>1 DEF OriginatorOK
  <2>2. Members(p.outstanding) = {}
    <3>1. Members(<<>>) = {}
      BY DEF Members
    <3> QED
      BY <2>1, <3>1
  <2>3. Len(p.outstanding) = 0
    <3>1. Len(p.outstanding) > 0 => p.outstanding[1] \in Members(p.outstanding)
      BY <1>2, MembersIn
    <3> QED
      BY <1>2, <2>2, <3>1, LenProperties
  <2> QED
    BY <1>2, <2>3, EmptySeq
<1>4. OriginatorOK(p, A, base, sent, next, n)
  BY <1>1, <1>3 DEF OriginatorOK
<1>5. TransmitOK(o, A, base) => TransmitOK(p, A, base)
  <2> SUFFICES ASSUME TransmitOK(o, A, base), Established(p)
               PROVE  Within(p.outstanding, p.window, base)
    BY <1>1 DEF TransmitOK
  <2>1. \A x \in Members(o.outstanding) :
           /\ Position(o.window.m_winStart, base) <= Position(x.seq, base)
           /\ Position(x.seq, base) < Position(o.window.m_winStart, base) + BufferSize
    BY <1>1 DEF TransmitOK, Within, Members
  <2>2. \A i \in DOMAIN p.outstanding : p.outstanding[i] \in Members(o.outstanding)
    BY DEF Members
  <2> QED
    BY <2>1, <2>2 DEF Within
<1>6. Later(o, p, base)
  BY SameWindow DEF OriginatorOK
<1> QED
  BY <1>4, <1>5, <1>6 DEF After

\* MPDUs leave the in flight queue, and the EDCA queue loses elements.
LEMMA EraseOK ==
  ASSUME NEW base \in SeqNos, NEW o, NEW A, NEW sent, NEW next, NEW n,
         OriginatorOK(o, A, base, sent, next, n), NEW ids, NEW queue \in SUBSET Elements,
         QueueOK(queue, sent, next, n), IdsOf(queue) \subseteq IdsOf(o.queue)
  PROVE  After([o EXCEPT !.outstanding = Erase(@, ids), !.queue = queue],
               o, A, base, sent, next, n)
<1> DEFINE list == Erase(o.outstanding, ids)
           p == [o EXCEPT !.outstanding = list, !.queue = queue]
<1>1. o \in Originators /\ o.outstanding \in Seq(Mpdus) /\ o.notices \subseteq sent
  BY DEF OriginatorOK, Originators
<1>2. /\ list \in Seq(Mpdus) /\ Members(list) \subseteq Members(o.outstanding)
      /\ Ascending(o.outstanding, base) => Ascending(list, base)
  BY <1>1, EraseIs
<1> HIDE DEF list
<1>3. /\ p \in Originators /\ p.state = o.state /\ p.window = o.window /\ p.request = o.request
      /\ p.queue = queue /\ p.outstanding = list /\ p.notices = o.notices
      /\ p.bar = o.bar /\ p.barIfData = o.barIfData
  BY <1>1, <1>2 DEF Originators
<1> HIDE DEF p
<1>4. ~Established(o) => p.bar = NoBar /\ ~p.barIfData
  BY <1>3 DEF OriginatorOK
<1>5. After(p, o, A, base, sent, next, n)
  BY <1>1, <1>2, <1>3, <1>4, LessOK
<1> QED
  BY <1>5 DEF p, list

\* The EDCA queue loses elements.
LEMMA QueueLessOK ==
  ASSUME NEW base \in SeqNos, NEW o, NEW A, NEW sent, NEW next, NEW n,
         OriginatorOK(o, A, base, sent, next, n), NEW queue \in SUBSET Elements,
         QueueOK(queue, sent, next, n), IdsOf(queue) \subseteq IdsOf(o.queue)
  PROVE  After([o EXCEPT !.queue = queue], o, A, base, sent, next, n)
<1> DEFINE p == [o EXCEPT !.queue = queue]
<1>1. o \in Originators
  BY DEF OriginatorOK
<1>3. /\ p \in Originators /\ p.state = o.state /\ p.window = o.window /\ p.request = o.request
      /\ p.queue = queue /\ p.outstanding = o.outstanding /\ p.notices = o.notices
      /\ p.bar = o.bar /\ p.barIfData = o.barIfData
  BY <1>1 DEF Originators
<1> HIDE DEF p
<1>4. (~Established(o) => p.bar = NoBar /\ ~p.barIfData) /\ o.notices \subseteq sent
  BY <1>3 DEF OriginatorOK
<1>5. After(p, o, A, base, sent, next, n)
  BY <1>3, <1>4, LessOK
<1> QED
  BY <1>5 DEF p

\* A BlockAckReq is queued or leaves the queue; one is to be queued with data or not.
LEMMA BarOK ==
  ASSUME NEW base \in SeqNos, NEW o, NEW A, NEW sent, NEW next, NEW n,
         OriginatorOK(o, A, base, sent, next, n), Established(o),
         NEW bar \in Bars, NEW ifData \in BOOLEAN
  PROVE  After([o EXCEPT !.bar = bar, !.barIfData = ifData], o, A, base, sent, next, n)
<1> DEFINE p == [o EXCEPT !.bar = bar, !.barIfData = ifData]
<1>1. o \in Originators
  BY DEF OriginatorOK
<1>3. /\ p \in Originators /\ p.state = o.state /\ p.window = o.window /\ p.request = o.request
      /\ p.queue = o.queue /\ p.outstanding = o.outstanding /\ p.notices = o.notices
  BY <1>1 DEF Originators
<1> HIDE DEF p
<1>4. o.notices \subseteq sent /\ QueueOK(o.queue, sent, next, n)
  BY DEF OriginatorOK
<1>5. After(p, o, A, base, sent, next, n)
  BY <1>3, <1>4, LessOK
<1> QED
  BY <1>5 DEF p

\* A BlockAckReq is queued.
LEMMA ScheduleBarOK ==
  ASSUME NEW base \in SeqNos, NEW o, NEW A, NEW sent, NEW next, NEW n,
         OriginatorOK(o, A, base, sent, next, n), Established(o)
  PROVE  After(ScheduleBar(o), o, A, base, sent, next, n)
<1>1. o \in Originators /\ NewBar \in Bars /\ o.barIfData \in BOOLEAN
  BY DEF OriginatorOK, Originators, NewBar, Bars
<1>2. ScheduleBar(o) = [o EXCEPT !.bar = NewBar, !.barIfData = o.barIfData]
  BY <1>1 DEF ScheduleBar, Originators
<1>3. After([o EXCEPT !.bar = NewBar, !.barIfData = o.barIfData], o, A, base, sent, next, n)
  BY <1>1, BarOK
<1> QED
  BY <1>2, <1>3

-----------------------------------------------------------------------------
(* Discarded MPDUs.                                                         *)

\* The window past a discarded MPDU has the bits from there on.
LEMMA DiscardedBounded ==
  ASSUME FewPackets, NEW base \in SeqNos, NEW next \in 0..MaxMpdus,
         NEW w \in Windows, WindowBounded(w, base, next),
         NEW m \in Mpdus, Position(m.seq, base) < next, ~IsOld(m.seq, w.m_winStart)
  PROVE  LET v == Advance(w, Distance(m.seq, w.m_winStart) + 1)
         IN  /\ v \in Windows /\ WindowBounded(v, base, next)
             /\ Position(v.m_winStart, base) = Position(m.seq, base) + 1
             /\ Position(w.m_winStart, base) <= Position(m.seq, base)
             /\ \A d \in Slots :
                   LET e == d + (Position(v.m_winStart, base) - Position(w.m_winStart, base))
                   IN  At(v, d) <=> e < BufferSize /\ At(w, e)
<1> DEFINE wp == Position(w.m_winStart, base)
           mp == Position(m.seq, base)
           count == Distance(m.seq, w.m_winStart) + 1
           v == Advance(w, count)
<1>1. w.m_winStart \in SeqNos /\ m.seq \in SeqNos /\ wp \in Nat /\ mp \in Nat
  BY PositionType DEF Windows, Mpdus
<1>2. wp <= next /\ wp <= MaxMpdus /\ mp <= MaxMpdus
  BY <1>1, FewPacketsIs DEF WindowBounded
<1>3. mp >= wp /\ count = mp - wp + 1
  BY <1>1, <1>2, DistancePosition
<1> HIDE DEF count
<1>4. /\ v \in Windows /\ v.m_winStart = SeqPlus(w.m_winStart, count)
      /\ \A d \in Slots : At(v, d) <=> (d + count < BufferSize /\ At(w, d + count))
  <2>1. count \in Nat
    BY <1>1, <1>3
  <2> QED
    BY <2>1, AdvanceIs
<1>5. Position(v.m_winStart, base) = mp + 1
  BY <1>1, <1>2, <1>3, <1>4, FewPacketsIs, PositionPlus
<1> HIDE DEF v
<1>6. ASSUME NEW d \in Slots
      PROVE  d + (Position(v.m_winStart, base) - wp) = d + count /\ d + count \in Nat
  BY <1>1, <1>3, <1>5, SlotsIn
<1>7. ASSUME NEW d \in Slots, At(v, d)
      PROVE  Position(v.m_winStart, base) + d < next
  <2>1. d + count \in Slots /\ At(w, d + count)
    BY <1>1, <1>3, <1>4, <1>7, SlotsIn DEF Slots
  <2> QED
    BY <1>1, <1>3, <1>5, <2>1, SlotsIn DEF WindowBounded
<1>8. WindowBounded(v, base, next)
  BY <1>1, <1>5, <1>7 DEF WindowBounded
<1> QED
  BY <1>1, <1>3, <1>4, <1>5, <1>6, <1>8 DEF v, count

\* The facts about an MPDU that was sent.
LEMMA SentIs ==
  ASSUME NEW base, NEW sent, NEW next, NEW n, Numbering(base, sent, next, n), NEW m \in sent
  PROVE  /\ base \in SeqNos /\ next \in 0..MaxMpdus /\ m \in Mpdus /\ m.seq \in SeqNos /\ m.id \in Nat
         /\ Position(m.seq, base) \in Nat /\ Position(m.seq, base) < next
<1>1. base \in SeqNos /\ m \in Mpdus /\ Position(m.seq, base) < next
  BY DEF Numbering
<1>2. m.seq \in SeqNos /\ m.id \in Nat
  BY <1>1, MpdusAssumption DEF Mpdus, Ids
<1>3. next \in 0..MaxMpdus
  BY MpdusAssumption DEF Numbering
<1> QED
  BY <1>1, <1>2, <1>3, PositionType

\* NotifyDiscardedMpdu of the agreement: the window moves, what is old is dropped.
LEMMA DiscardOK ==
  ASSUME FewPackets, NEW base, NEW sent, NEW next, NEW n, Numbering(base, sent, next, n),
         NEW o, NEW A, OriginatorOK(o, A, base, sent, next, n), Established(o),
         NEW m \in sent, ~IsOld(m.seq, o.window.m_winStart)
  PROVE  LET p == Discard(o, m)
         IN  /\ After(p, o, A, base, sent, next, n)
             /\ Position(o.window.m_winStart, base) <= Position(p.window.m_winStart, base)
<1> DEFINE w == o.window
           v == Advance(w, Distance(m.seq, w.m_winStart) + 1)
           u == AdvanceTxWindow(v)
           advanced == [o EXCEPT !.window = u]
           old == OldOutstanding(advanced)
           list == Erase(o.outstanding, old)
           queue == Without(o.queue, old)
           p == [advanced EXCEPT !.queue = queue, !.outstanding = list]
           wp == Position(w.m_winStart, base)
           vp == Position(v.m_winStart, base)
           up == Position(u.m_winStart, base)
<1>1. Discard(o, m) = p
  <2>1. advanced.queue = o.queue /\ advanced.outstanding = o.outstanding
    BY DEF OriginatorOK, Originators
  <2>2. advanced = [o EXCEPT !.window = WindowPastDiscarded(@, m.seq)]
    BY DEF WindowPastDiscarded
  <2> QED
    BY <2>1, <2>2 DEF Discard
<1>2. /\ o \in Originators /\ w \in Windows /\ WindowBounded(w, base, next)
      /\ o.outstanding \in Seq(Mpdus) /\ A \in SUBSET Mpdus
  BY DEF OriginatorOK, Originators, Numbering
<1>3. base \in SeqNos /\ next \in 0..MaxMpdus /\ m \in Mpdus /\ Position(m.seq, base) < next
  BY SentIs
<1>4. /\ v \in Windows /\ WindowBounded(v, base, next) /\ vp = Position(m.seq, base) + 1
      /\ wp <= Position(m.seq, base)
      /\ \A d \in Slots : At(v, d) <=> d + (vp - wp) < BufferSize /\ At(w, d + (vp - wp))
  BY <1>2, <1>3, DiscardedBounded
<1>5. u \in Windows /\ WindowBounded(u, base, next)
  BY <1>3, <1>4, AdvanceTxWindowBounded
<1>6. /\ w.m_winStart \in SeqNos /\ v.m_winStart \in SeqNos /\ u.m_winStart \in SeqNos
      /\ wp \in Nat /\ vp \in Nat /\ up \in Nat /\ Position(m.seq, base) \in Nat
  BY <1>2, <1>3, <1>4, <1>5, PositionType DEF Windows, Mpdus
<1>7. vp <= MaxMpdus /\ up <= next /\ up <= MaxMpdus /\ wp < vp
  <2>1. vp <= next /\ up <= next
    BY <1>4, <1>5 DEF WindowBounded
  <2> HIDE DEF wp, vp, up
  <2>2. next \in Nat /\ next <= MaxMpdus /\ MaxMpdus \in Nat
    BY <1>3, MpdusAssumption
  <2> QED
    BY <1>3, <1>4, <1>6, <2>1, <2>2
<1>8. vp <= up
  <2>1. PICK k \in 0..BufferSize : u.m_winStart = SeqPlus(v.m_winStart, k)
    BY <1>4, AdvanceTxWindowIs
  <2>2. vp + k < SeqSpace
    BY <1>6, <1>7, FewPacketsIs
  <2> QED
    BY <1>3, <1>6, <2>1, <2>2, PositionPlus, SlotsIn
<1> HIDE DEF u, v, w, old, list, wp, vp, up, queue
<1>9. /\ list \in Seq(Mpdus) /\ Members(list) = {x \in Members(o.outstanding) : x.id \notin old}
      /\ Ascending(o.outstanding, base) => Ascending(list, base)
  BY <1>2, <1>3, EraseIs DEF list
<1>10. queue \in SUBSET o.queue
  BY DEF queue, Without
<1>11. /\ p \in Originators /\ p.state = o.state /\ p.window = u /\ p.queue = queue
       /\ p.outstanding = list /\ p.notices = o.notices /\ p.request = o.request
  BY <1>2, <1>5, <1>9, <1>10 DEF Originators
<1>12. advanced.outstanding = o.outstanding /\ advanced.window = u
  BY <1>2 DEF Originators
<1> HIDE DEF p, advanced
<1>13. QueueOK(queue, sent, next, n) /\ IdsOf(queue) \subseteq IdsOf(o.queue)
  BY <1>10, QueueSubset DEF OriginatorOK
<1>14. OriginatorOK(p, A, base, sent, next, n)
  BY <1>5, <1>9, <1>11, <1>13 DEF OriginatorOK, Established
<1>15. ASSUME TransmitOK(o, A, base)
       PROVE  TransmitOK(p, A, base)
  <2>1. WindowExact(w, A, base) /\ Ascending(o.outstanding, base) /\ Within(o.outstanding, w, base)
    BY <1>15 DEF TransmitOK, w
  <2>2. \A a \in A : Position(a.seq, base) \in Nat /\ Position(a.seq, base) < wp + BufferSize
    BY <1>2, <1>3, <2>1, PositionType DEF WindowExact, Mpdus, wp
  <2>3. ASSUME NEW d \in Slots
        PROVE  At(v, d) <=> \E a \in A : Position(a.seq, base) = vp + d
    <3> DEFINE e == d + (vp - wp)
    <3>1. e \in Nat /\ wp + e = vp + d
      BY <1>6, <1>7, SlotsIn
    <3>2. CASE e < BufferSize
      <4>1. e \in Slots
        BY <3>1, <3>2, SlotsIn DEF Slots
      <4>2. At(w, e) <=> \E a \in A : Position(a.seq, base) = wp + e
        BY <2>1, <4>1 DEF WindowExact, wp
      <4> QED
        BY <1>4, <3>1, <3>2, <4>2
    <3>3. CASE ~(e < BufferSize)
      BY <1>4, <1>6, <2>2, <3>1, <3>3, SlotsIn
    <3> QED
      BY <3>2, <3>3
  <2>4. \A a \in A : Position(a.seq, base) < vp + BufferSize
    BY <1>6, <1>7, <2>2, SlotsIn
  <2>5. WindowExact(u, A, base)
    <3>1. Position(v.m_winStart, base) <= MaxMpdus
      BY <1>7 DEF vp
    <3>2. \A d \in Slots : At(v, d) <=> \E a \in A : Position(a.seq, base) = Position(v.m_winStart, base) + d
      BY <2>3 DEF vp
    <3>3. \A a \in A : Position(a.seq, base) < Position(v.m_winStart, base) + BufferSize
      BY <2>4 DEF vp
    <3> QED
      BY <1>2, <1>3, <1>4, <3>1, <3>2, <3>3, AdvanceTxWindowExact DEF u
  <2>6. ASSUME NEW i \in DOMAIN o.outstanding, o.outstanding[i].id \notin old
        PROVE  up <= Position(o.outstanding[i].seq, base)
    <3> SUFFICES ASSUME Position(o.outstanding[i].seq, base) < up
                 PROVE  FALSE
      <4>1. Position(o.outstanding[i].seq, base) \in Nat
        BY SentIs DEF OriginatorOK, Members
      <4> QED
        BY <1>6, <4>1
    <3>1. DOMAIN o.outstanding = 1..Len(o.outstanding) /\ Len(o.outstanding) \in Nat
      BY <1>2, MembersIn
    <3>2. ASSUME NEW k \in 1..i
          PROVE  IsOld(o.outstanding[k].seq, u.m_winStart)
      <4>1. k \in DOMAIN o.outstanding /\ k <= i
        BY <3>1
      <4>2. o.outstanding[k] \in sent
        BY <4>1 DEF OriginatorOK, Members
      <4>3. /\ o.outstanding[k].seq \in SeqNos /\ Position(o.outstanding[k].seq, base) \in Nat
            /\ Position(o.outstanding[k].seq, base) < next
        BY <4>2, SentIs
      <4>4. Position(o.outstanding[k].seq, base) <= Position(o.outstanding[i].seq, base)
        <5>1. CASE k = i
          BY <4>3, <5>1
        <5>2. CASE k # i
          <6>1. k < i
            BY <3>1, <5>2
          <6>2. Position(o.outstanding[k].seq, base) < Position(o.outstanding[i].seq, base)
            BY <2>1, <4>1, <6>1 DEF Ascending
          <6>3. Position(o.outstanding[i].seq, base) \in Nat
            BY SentIs DEF OriginatorOK, Members
          <6> QED
            BY <4>3, <6>2, <6>3
        <5> QED
          BY <5>1, <5>2
      <4>5. Position(o.outstanding[i].seq, base) \in Nat
        BY SentIs DEF OriginatorOK, Members
      <4>6. Position(o.outstanding[k].seq, base) < up
        BY <1>6, <4>3, <4>4, <4>5
      <4>7. Position(o.outstanding[k].seq, base) <= MaxMpdus
        BY <1>6, <1>7, <4>3, <4>6, MpdusAssumption
      <4> QED
        BY <1>3, <1>6, <1>7, <4>3, <4>6, <4>7, DistancePosition DEF up
    <3>3. o.outstanding[i].id \in old
      BY <1>12, <3>2 DEF old, OldOutstanding
    <3> QED
      BY <2>6, <3>3
  <2>7. ASSUME NEW j \in DOMAIN list
        PROVE  /\ up <= Position(list[j].seq, base)
               /\ Position(list[j].seq, base) < up + BufferSize
    <3>1. list[j] \in Members(o.outstanding) /\ list[j].id \notin old
      BY <1>9 DEF Members
    <3>2. PICK i \in DOMAIN o.outstanding : list[j] = o.outstanding[i]
      BY <3>1 DEF Members
    <3>3. up <= Position(list[j].seq, base)
      BY <2>6, <3>1, <3>2
    <3>4. Position(list[j].seq, base) < wp + BufferSize
      BY <2>1, <3>2 DEF Within, wp
    <3>5. Position(list[j].seq, base) \in Nat
      BY <3>1, SentIs DEF OriginatorOK
    <3> QED
      BY <1>6, <1>7, <1>8, <3>3, <3>4, <3>5, SlotsIn
  <2> QED
    BY <1>9, <1>11, <2>1, <2>5, <2>7 DEF TransmitOK, Within, up
<1>16. wp <= up
  BY <1>6, <1>7, <1>8
<1>17. Later(o, p, base)
  BY <1>6, <1>11, <1>16 DEF Later, wp, up, w
<1> QED
  BY <1>1, <1>11, <1>13, <1>14, <1>15, <1>16, <1>17 DEF After, wp, up, w

\* NotifyDiscardedMpdu of the manager, whatever it finds.
LEMMA NotifyDiscardedOK ==
  ASSUME FewPackets, NEW base, NEW sent, NEW next, NEW n, Numbering(base, sent, next, n),
         NEW o, NEW A, OriginatorOK(o, A, base, sent, next, n), NEW m \in sent
  PROVE  LET p == NotifyDiscardedMpdu(o, m)
         IN  /\ After(p, o, A, base, sent, next, n) /\ Announces(p, o)
             /\ Position(o.window.m_winStart, base) <= Position(p.window.m_winStart, base)
<1>1. base \in SeqNos
  BY SentIs
<1>2. CASE ~Established(o) \/ IsOld(m.seq, o.window.m_winStart)
  <2>1. Position(o.window.m_winStart, base) \in Nat
    BY <1>1, PositionType DEF OriginatorOK, Originators, Windows
  <2>2. Announces(o, o)
    BY DEF Announces
  <2> QED
    BY <1>2, <2>1, <2>2, AfterItself DEF NotifyDiscardedMpdu
<1>3. CASE ~(~Established(o) \/ IsOld(m.seq, o.window.m_winStart))
  <2> DEFINE p == Discard(o, m)
  <2>1. /\ After(p, o, A, base, sent, next, n)
        /\ Position(o.window.m_winStart, base) <= Position(p.window.m_winStart, base)
    BY <1>3, DiscardOK
  <2> HIDE DEF p
  <2>2. OriginatorOK(p, A, base, sent, next, n) /\ Established(p)
    BY <1>3, <2>1 DEF After, Established
  <2>3. After(ScheduleBar(p), p, A, base, sent, next, n)
    BY <1>1, <2>2, ScheduleBarOK
  <2>4. After(ScheduleBar(p), o, A, base, sent, next, n)
    BY <2>1, <2>3, AfterAfter
  <2>5. ScheduleBar(p).window = p.window /\ Announces(ScheduleBar(p), o)
    BY <2>2 DEF ScheduleBar, OriginatorOK, Originators, Announces
  <2>6. NotifyDiscardedMpdu(o, m) = ScheduleBar(p)
    BY <1>3 DEF NotifyDiscardedMpdu, p
  <2> QED
    BY <2>1, <2>4, <2>5, <2>6
<1> QED
  BY <1>2, <1>3

\* HandleInFlightMpdu, for each outcome.
LEMMA HandleInFlightOK ==
  ASSUME FewPackets, NEW base, NEW sent, NEW next, NEW n, Numbering(base, sent, next, n),
         NEW o, NEW A, OriginatorOK(o, A, base, sent, next, n), NEW m \in sent,
         NEW toRetransmit \in BOOLEAN
  PROVE  LET p == HandleInFlightMpdu(o, m, toRetransmit)
         IN  After(p, o, A, base, sent, next, n) /\ Announces(p, o)
<1> DEFINE left(queue) == [o EXCEPT !.outstanding = Erase(@, {m.id}), !.queue = queue]
           forgotten == [o EXCEPT !.outstanding = Erase(@, {m.id})]
<1>1. base \in SeqNos /\ o \in Originators /\ QueueOK(o.queue, sent, next, n)
      /\ o.queue \in SUBSET Elements
  BY SentIs DEF OriginatorOK, Originators
<1>2. Without(o.queue, {m.id}) \in SUBSET o.queue
  BY DEF Without
<1>3. After(left(o.queue), o, A, base, sent, next, n)
  BY <1>1, EraseOK
<1>4. After(left(Without(o.queue, {m.id})), o, A, base, sent, next, n)
  <2>1. /\ QueueOK(Without(o.queue, {m.id}), sent, next, n)
        /\ IdsOf(Without(o.queue, {m.id})) \subseteq IdsOf(o.queue)
    BY <1>1, <1>2, QueueSubset
  <2> QED
    BY <1>1, <1>2, <2>1, EraseOK
<1>5. After(left(ToRetransmit(o.queue, m.id)), o, A, base, sent, next, n)
  <2>1. /\ ToRetransmit(o.queue, m.id) \in SUBSET Elements
        /\ QueueOK(ToRetransmit(o.queue, m.id), sent, next, n)
        /\ IdsOf(ToRetransmit(o.queue, m.id)) = IdsOf(o.queue)
    BY <1>1, ToRetransmitIs
  <2> QED
    BY <1>1, <2>1, EraseOK
<1>6. /\ forgotten = left(o.queue)
      /\ [forgotten EXCEPT !.queue = Without(@, {m.id})] = left(Without(o.queue, {m.id}))
      /\ [forgotten EXCEPT !.queue = ToRetransmit(@, m.id)] = left(ToRetransmit(o.queue, m.id))
  BY <1>1 DEF Originators
<1>10. ASSUME NEW queue
       PROVE  Announces(left(queue), o)
  BY <1>1 DEF Announces, Originators
<1> DEFINE d == NotifyDiscardedMpdu(o, m)
<1>7. /\ After([d EXCEPT !.queue = Without(@, {m.id})], o, A, base, sent, next, n)
      /\ Announces([d EXCEPT !.queue = Without(@, {m.id})], o)
  <2>1. After(d, o, A, base, sent, next, n) /\ Announces(d, o)
    BY NotifyDiscardedOK
  <2> HIDE DEF d
  <2>2. OriginatorOK(d, A, base, sent, next, n) /\ QueueOK(d.queue, sent, next, n)
        /\ d.queue \in SUBSET Elements /\ d \in Originators
    BY <2>1 DEF After, OriginatorOK, Originators
  <2>3. Without(d.queue, {m.id}) \in SUBSET d.queue
    BY DEF Without
  <2>4. /\ QueueOK(Without(d.queue, {m.id}), sent, next, n)
        /\ IdsOf(Without(d.queue, {m.id})) \subseteq IdsOf(d.queue)
    BY <2>2, <2>3, QueueSubset
  <2>5. After([d EXCEPT !.queue = Without(d.queue, {m.id})], d, A, base, sent, next, n)
    BY <1>1, <2>2, <2>3, <2>4, QueueLessOK
  <2>6. Announces([d EXCEPT !.queue = Without(@, {m.id})], o)
    BY <2>1, <2>2 DEF Announces, Originators
  <2> QED
    BY <2>1, <2>5, <2>6, AfterAfter
<1>8. After(o, o, A, base, sent, next, n) /\ Announces(o, o)
  BY AfterItself DEF Announces
<1> DEFINE h == HandleInFlightMpdu(o, m, toRetransmit)
<1>9. \/ h = forgotten \/ h = [forgotten EXCEPT !.queue = Without(@, {m.id})]
      \/ h = [d EXCEPT !.queue = Without(@, {m.id})]
      \/ h = [forgotten EXCEPT !.queue = ToRetransmit(@, m.id)] \/ h = o
  BY DEF HandleInFlightMpdu
<1> HIDE DEF h, forgotten, left, d
<1> QED
  BY <1>3, <1>4, <1>5, <1>6, <1>7, <1>8, <1>9, <1>10 DEF h

\* HandleInFlightMpdu for every outstanding MPDU, one after the other.
LEMMA AllUnackedOK ==
  ASSUME FewPackets, NEW base, NEW sent, NEW next, NEW n, Numbering(base, sent, next, n),
         NEW o, NEW A, OriginatorOK(o, A, base, sent, next, n)
  PROVE  After(AllUnacked(o), o, A, base, sent, next, n) /\ Announces(AllUnacked(o), o)
<1> DEFINE list == o.outstanding
           len == Len(list)
           values(f) == [k \in 0..len |-> IF k = 0 THEN o ELSE HandleUnacked(f[k - 1], list[k])]
           after == CHOOSE f : f = values(f)
           S == {p \in Originators : After(p, o, A, base, sent, next, n) /\ Announces(p, o)}
           g == [k \in 1..len |-> [v \in S |-> HandleUnacked(v, list[k])]]
<1>1. /\ len \in Nat /\ \A k \in 1..len : list[k] \in sent
      /\ \A k \in 1..len : k \in 0..len /\ k - 1 \in 0..len /\ k # 0
  <2>1. list \in Seq(Mpdus) /\ Members(list) \subseteq sent
    BY DEF OriginatorOK, Originators
  <2>2. len \in Nat /\ \A k \in 1..len : list[k] \in Members(list)
    BY <2>1, MembersIn
  <2> QED
    BY <2>1, <2>2
<1>2. o \in S
  BY AfterItself DEF OriginatorOK, Announces
<1>3. ASSUME NEW k \in 1..len, NEW v \in S
      PROVE  HandleUnacked(v, list[k]) \in S
  <2> DEFINE m == list[k]
  <2>1. m \in sent /\ OriginatorOK(v, A, base, sent, next, n)
        /\ After(v, o, A, base, sent, next, n) /\ Announces(v, o)
    BY <1>1 DEF After
  <2> HIDE DEF m
  <2>2. InFlight(v, m) \in BOOLEAN
    BY DEF InFlight
  <2>3. After(HandleUnacked(v, m), v, A, base, sent, next, n) /\ Announces(HandleUnacked(v, m), v)
    BY <2>1, <2>2, HandleInFlightOK DEF HandleUnacked
  <2>4. HandleUnacked(v, m) \in Originators
    BY <2>3 DEF After, OriginatorOK
  <2>5. Announces(HandleUnacked(v, m), o)
    BY <2>1, <2>3 DEF Announces
  <2> QED
    BY <2>1, <2>3, <2>4, <2>5, AfterAfter DEF m
<1>4. StaysIn(g, len, S)
  <2> HIDE DEF S
  <2> QED
    BY <1>3 DEF StaysIn
<1>5. PICK f : IsFold(f, g, len, S, o)
  <2> HIDE DEF g, len, S, after
  <2> QED
    BY <1>1, <1>2, <1>4, Folding, Zenon
<1>6. f = values(f)
  <2> HIDE DEF S
  <2>1. \A k \in 1..len : f[k - 1] \in S
    BY <1>1, <1>5 DEF IsFold
  <2>2. \A k \in 1..len : f[k] = HandleUnacked(f[k - 1], list[k])
    BY <1>5, <2>1 DEF IsFold
  <2>3. f \in [0..len -> S] /\ f[0] = o
    BY <1>5 DEF IsFold
  <2>4. \A k \in 0..len : k # 0 => k \in 1..len
    BY <1>1
  <2> QED
    BY <2>2, <2>3, <2>4
<1>7. after = values(after)
  BY <1>6
<1> HIDE DEF after
<1>8. after[0] = o /\ \A k \in 1..len : after[k] = HandleUnacked(after[k - 1], list[k])
  <2> DEFINE h == values(after)
  <2>1. h[0] = o /\ \A k \in 1..len : h[k] = HandleUnacked(after[k - 1], list[k])
    BY <1>1
  <2> HIDE DEF h
  <2>2. after = h
    BY <1>7 DEF h
  <2> QED
    BY <2>1, <2>2
<1> DEFINE T == {k \in Nat : after[k] \in S}
<1>9. len \in T
  <2>1. 0 \in T
    BY <1>2, <1>8
  <2>2. ASSUME NEW k \in 1..len, k - 1 \in T
        PROVE  k \in T
    <3> HIDE DEF S
    <3>1. after[k] \in S
      BY <1>3, <1>8, <2>2
    <3> QED
      BY <3>1
  <2> HIDE DEF T
  <2>3. \A k \in 0..len : k \in T
    BY <1>1, <2>1, <2>2, UpTo
  <2> QED
    BY <1>1, <2>3
<1>10. After(after[len], o, A, base, sent, next, n) /\ Announces(after[len], o)
  BY <1>9
<1> QED
  BY <1>10 DEF AllUnacked, after

\* The loop of NeedBarRetransmission.
LEMMA AfterNeedBarOK ==
  ASSUME FewPackets, NEW base, NEW sent, NEW next, NEW n, Numbering(base, sent, next, n),
         NEW o, NEW A, OriginatorOK(o, A, base, sent, next, n)
  PROVE  After(AfterNeedBar(o), o, A, base, sent, next, n) /\ Announces(AfterNeedBar(o), o)
<1> DEFINE list == o.outstanding
           len == Len(list)
           values(f) == [k \in 0..len |-> IF k = 0 THEN o ELSE HandleIfFirst(f[k - 1], list[k])]
           after == CHOOSE f : f = values(f)
           S == {p \in Originators : After(p, o, A, base, sent, next, n) /\ Announces(p, o)}
           g == [k \in 1..len |-> [v \in S |-> HandleIfFirst(v, list[k])]]
<1>1. /\ len \in Nat /\ \A k \in 1..len : list[k] \in sent
      /\ \A k \in 1..len : k \in 0..len /\ k - 1 \in 0..len /\ k # 0
  <2>1. list \in Seq(Mpdus) /\ Members(list) \subseteq sent
    BY DEF OriginatorOK, Originators
  <2>2. len \in Nat /\ \A k \in 1..len : list[k] \in Members(list)
    BY <2>1, MembersIn
  <2> QED
    BY <2>1, <2>2
<1>2. o \in S
  BY AfterItself DEF OriginatorOK, Announces
<1>3. ASSUME NEW k \in 1..len, NEW v \in S
      PROVE  HandleIfFirst(v, list[k]) \in S
  <2> DEFINE m == list[k]
  <2>1. m \in sent /\ OriginatorOK(v, A, base, sent, next, n)
        /\ After(v, o, A, base, sent, next, n) /\ Announces(v, o)
    BY <1>1 DEF After
  <2> HIDE DEF m
  <2>2. /\ After(HandleInFlightMpdu(v, m, FALSE), v, A, base, sent, next, n)
        /\ Announces(HandleInFlightMpdu(v, m, FALSE), v)
    BY <2>1, HandleInFlightOK
  <2>6. After(v, v, A, base, sent, next, n) /\ Announces(v, v)
    BY <2>1, AfterItself DEF Announces
  <2>3. After(HandleIfFirst(v, m), v, A, base, sent, next, n) /\ Announces(HandleIfFirst(v, m), v)
    BY <2>2, <2>6 DEF HandleIfFirst
  <2>4. HandleIfFirst(v, m) \in Originators
    BY <2>3 DEF After, OriginatorOK
  <2>5. Announces(HandleIfFirst(v, m), o)
    BY <2>1, <2>3 DEF Announces
  <2> QED
    BY <2>1, <2>3, <2>4, <2>5, AfterAfter DEF m
<1>4. StaysIn(g, len, S)
  <2> HIDE DEF S
  <2> QED
    BY <1>3 DEF StaysIn
<1>5. PICK f : IsFold(f, g, len, S, o)
  <2> HIDE DEF g, len, S, after
  <2> QED
    BY <1>1, <1>2, <1>4, Folding, Zenon
<1>6. f = values(f)
  <2> HIDE DEF S
  <2>1. \A k \in 1..len : f[k - 1] \in S
    BY <1>1, <1>5 DEF IsFold
  <2>2. \A k \in 1..len : f[k] = HandleIfFirst(f[k - 1], list[k])
    BY <1>5, <2>1 DEF IsFold
  <2>3. f \in [0..len -> S] /\ f[0] = o
    BY <1>5 DEF IsFold
  <2>4. \A k \in 0..len : k # 0 => k \in 1..len
    BY <1>1
  <2> QED
    BY <2>2, <2>3, <2>4
<1>7. after = values(after)
  BY <1>6
<1> HIDE DEF after
<1>8. after[0] = o /\ \A k \in 1..len : after[k] = HandleIfFirst(after[k - 1], list[k])
  <2> DEFINE h == values(after)
  <2>1. h[0] = o /\ \A k \in 1..len : h[k] = HandleIfFirst(after[k - 1], list[k])
    BY <1>1
  <2> HIDE DEF h
  <2>2. after = h
    BY <1>7 DEF h
  <2> QED
    BY <2>1, <2>2
<1> DEFINE T == {k \in Nat : after[k] \in S}
<1>9. len \in T
  <2>1. 0 \in T
    BY <1>2, <1>8
  <2>2. ASSUME NEW k \in 1..len, k - 1 \in T
        PROVE  k \in T
    <3> HIDE DEF S
    <3>1. after[k] \in S
      BY <1>3, <1>8, <2>2
    <3> QED
      BY <3>1
  <2> HIDE DEF T
  <2>3. \A k \in 0..len : k \in T
    BY <1>1, <2>1, <2>2, UpTo
  <2> QED
    BY <1>1, <2>3
<1>10. After(after[len], o, A, base, sent, next, n) /\ Announces(after[len], o)
  BY <1>9
<1>11. After(o, o, A, base, sent, next, n) /\ Announces(o, o)
  BY AfterItself DEF Announces
<1> QED
  BY <1>10, <1>11 DEF AfterNeedBar, after

-----------------------------------------------------------------------------
(* Acknowledged MPDUs leave.                                                *)

\* No two MPDUs that were sent have the same number, or the same identity.
LEMMA SentOnce ==
  ASSUME NEW base, NEW sent, NEW next, NEW n, Numbering(base, sent, next, n),
         NEW x \in sent, NEW y \in sent,
         x.id = y.id \/ x.seq = y.seq \/ Position(x.seq, base) = Position(y.seq, base)
  PROVE  x = y
<1>1. /\ base \in SeqNos /\ x.seq \in SeqNos /\ y.seq \in SeqNos /\ x.id \in Nat /\ y.id \in Nat
      /\ Position(x.seq, base) \in Nat /\ Position(y.seq, base) \in Nat
      /\ x \in Mpdus /\ y \in Mpdus
  BY SentIs
<1>2. (x.id < y.id <=> Position(x.seq, base) < Position(y.seq, base))
      /\ (y.id < x.id <=> Position(y.seq, base) < Position(x.seq, base))
  BY DEF Numbering
<1>3. x.id = y.id /\ Position(x.seq, base) = Position(y.seq, base)
  BY <1>1, <1>2
<1>4. x.seq = y.seq
  BY <1>1, <1>3, PositionInjective
<1> QED
  BY <1>1, <1>3, <1>4 DEF Mpdus

\* The acknowledged MPDUs leave both queues and mark the window.
LEMMA AckedLeaveOK ==
  ASSUME FewPackets, NEW base, NEW sent, NEW next, NEW n, Numbering(base, sent, next, n),
         NEW o, NEW A, OriginatorOK(o, A, base, sent, next, n), Established(o),
         NEW got \in Seq(Mpdus), Members(got) \subseteq sent
  PROVE  LET p == AckedLeave(o, got)
             B == A \cup Members(got)
         IN  /\ OriginatorOK(p, B, base, sent, next, n) /\ Established(p)
             /\ p.state = o.state /\ p.request = o.request /\ IdsOf(p.queue) \subseteq IdsOf(o.queue)
             /\ /\ TransmitOK(o, A, base)
                /\ \A m \in Members(got) :
                      Position(m.seq, base) < Position(o.window.m_winStart, base) + BufferSize
                => TransmitOK(p, B, base) /\ Later(o, p, base) /\ AnnouncesLost(p, o, B, base)
<1> DEFINE w == o.window
           v == AllAcked(w, got)
           ids == IdsOf(Members(got))
           list == Erase(o.outstanding, ids)
           queue == Without(o.queue, ids)
           p == [o EXCEPT !.window = v, !.outstanding = list, !.queue = queue]
           B == A \cup Members(got)
           wp == Position(w.m_winStart, base)
           vp == Position(v.m_winStart, base)
<1>1. AckedLeave(o, got) = p
  BY DEF AckedLeave
<1>2. /\ o \in Originators /\ w \in Windows /\ WindowBounded(w, base, next)
      /\ o.outstanding \in Seq(Mpdus) /\ A \subseteq sent /\ Members(o.outstanding) \subseteq sent
      /\ QueueOK(o.queue, sent, next, n) /\ o.queue \subseteq Elements
      /\ A \cap Members(o.outstanding) = {} /\ IdsOf(A) \cap IdsOf(o.queue) = {}
      /\ o.notices \subseteq sent
  BY DEF OriginatorOK, Originators
<1>3. base \in SeqNos /\ next \in 0..MaxMpdus /\ sent \subseteq Mpdus
  <2>1. base \in SeqNos /\ next \in 0..n /\ n \in 0..MaxMpdus /\ sent \subseteq Mpdus
    BY DEF Numbering
  <2> QED
    BY <2>1, MpdusAssumption
<1>4. \A m \in Members(got) : Position(m.seq, base) < next
  BY DEF Numbering
<1>5. v \in Windows /\ WindowBounded(v, base, next)
  BY <1>2, <1>3, <1>4, AllAckedBounded
<1>6. /\ list \in Seq(Mpdus) /\ Members(list) = {x \in Members(o.outstanding) : x.id \notin ids}
      /\ Ascending(o.outstanding, base) => Ascending(list, base)
  BY <1>2, <1>3, EraseIs
<1>7. queue \in SUBSET o.queue /\ IdsOf(queue) \cap ids = {}
  BY DEF Without, IdsOf
<1>8. QueueOK(queue, sent, next, n) /\ IdsOf(queue) \subseteq IdsOf(o.queue)
  BY <1>2, <1>7, QueueSubset
<1>9. /\ p \in Originators /\ p.state = o.state /\ p.window = v /\ p.queue = queue
      /\ p.outstanding = list /\ p.notices = o.notices /\ p.request = o.request
      /\ p.bar = o.bar /\ p.barIfData = o.barIfData
  BY <1>2, <1>5, <1>6, <1>7 DEF Originators
<1> HIDE DEF p, list, queue, v
<1>10. B \cap Members(list) = {} /\ IdsOf(B) \cap IdsOf(queue) = {}
  <2>1. IdsOf(B) = IdsOf(A) \cup ids
    BY DEF IdsOf
  <2>2. \A x \in Members(got) : x.id \in ids
    BY DEF IdsOf
  <2> HIDE DEF ids
  <2> QED
    BY <1>2, <1>6, <1>7, <1>8, <2>1, <2>2
<1>11. Members(list) \subseteq sent /\ B \subseteq sent
  BY <1>2, <1>6
<1> HIDE DEF B, ids
<1>12. OriginatorOK(p, B, base, sent, next, n) /\ Established(p)
  BY <1>2, <1>5, <1>8, <1>9, <1>10, <1>11 DEF OriginatorOK, Established
<1>13. ASSUME TransmitOK(o, A, base),
              \A m \in Members(got) : Position(m.seq, base) < wp + BufferSize
       PROVE  TransmitOK(p, B, base) /\ Later(o, p, base) /\ AnnouncesLost(p, o, B, base)
  <2>1. WindowExact(w, A, base) /\ Ascending(o.outstanding, base) /\ Within(o.outstanding, w, base)
    BY <1>13 DEF TransmitOK
  <2>2. WindowExact(v, B, base) /\ wp <= vp /\ PassedAcked(wp, vp, B, base)
    <3>1. A \in SUBSET Mpdus
      BY <1>2, <1>3
    <3> QED
      BY <1>2, <1>3, <1>4, <1>13, <2>1, <3>1, AllAckedExact DEF B, v
  <2>3. wp \in Nat /\ vp \in Nat
    BY <1>2, <1>3, <1>5, PositionType DEF Windows
  <2>4. ASSUME NEW j \in DOMAIN list
        PROVE  vp <= Position(list[j].seq, base) /\ Position(list[j].seq, base) < vp + BufferSize
    <3> DEFINE x == list[j]
               xp == Position(x.seq, base)
    <3>1. x \in Members(list) /\ x \in Members(o.outstanding) /\ x \in sent
      BY <1>6, <1>11 DEF Members
    <3>2. wp <= xp /\ xp < wp + BufferSize
      BY <2>1, <3>1 DEF Within, Members
    <3>3. xp \in Nat
      BY <3>1, SentIs
    <3>4. ~(xp < vp)
      <4> SUFFICES ASSUME xp < vp
                   PROVE  FALSE
        OBVIOUS
      <4>1. PICK m \in B : Position(m.seq, base) = xp
        BY <2>2, <3>2, <3>3 DEF PassedAcked
      <4>2. m \in sent
        BY <1>11
      <4>3. m = x
        BY <3>1, <4>1, <4>2, SentOnce
      <4> QED
        BY <1>10, <3>1, <4>3
    <3> QED
      BY <2>2, <2>3, <3>2, <3>3, <3>4, SlotsIn
  <2>5. Later(o, p, base)
    BY <1>9, <2>2, <2>3 DEF Later
  <2>6. AnnouncesLost(p, o, B, base)
    BY <1>9, <2>2 DEF AnnouncesLost
  <2> QED
    BY <1>6, <1>9, <2>1, <2>2, <2>4, <2>5, <2>6 DEF TransmitOK, Within
<1> QED
  BY <1>1, <1>8, <1>9, <1>12, <1>13 DEF B

\* NotifyGotBlockAck: some MPDUs are acknowledged, the others handled.
LEMMA NotifyGotBlockAckOK ==
  ASSUME FewPackets, NEW base, NEW sent, NEW next, NEW n, Numbering(base, sent, next, n),
         NEW o, NEW A, OriginatorOK(o, A, base, sent, next, n), Established(o),
         NEW got \in Seq(Mpdus), Members(got) \subseteq Members(o.outstanding)
  PROVE  LET p == NotifyGotBlockAck(o, got)
             B == A \cup Members(got)
         IN  /\ OriginatorOK(p, B, base, sent, next, n)
             /\ TransmitOK(o, A, base) =>
                   TransmitOK(p, B, base) /\ Later(o, p, base) /\ AnnouncesLost(p, o, B, base)
             /\ p.state = o.state /\ p.request = o.request /\ IdsOf(p.queue) \subseteq IdsOf(o.queue)
<1> DEFINE q == AckedLeave(o, got)
           B == A \cup Members(got)
           p == AllUnacked(q)
<1>1. Members(got) \subseteq sent
  BY DEF OriginatorOK
<1>2. /\ OriginatorOK(q, B, base, sent, next, n) /\ Established(q)
      /\ q.state = o.state /\ q.request = o.request /\ IdsOf(q.queue) \subseteq IdsOf(o.queue)
      /\ /\ TransmitOK(o, A, base)
         /\ \A m \in Members(got) :
               Position(m.seq, base) < Position(o.window.m_winStart, base) + BufferSize
         => TransmitOK(q, B, base) /\ Later(o, q, base) /\ AnnouncesLost(q, o, B, base)
  BY <1>1, AckedLeaveOK
<1>3. TransmitOK(o, A, base) => \A m \in Members(got) :
               Position(m.seq, base) < Position(o.window.m_winStart, base) + BufferSize
  BY DEF TransmitOK, Within, Members
<1> HIDE DEF q, B
<1>4. After(p, q, B, base, sent, next, n) /\ Announces(p, q)
  BY <1>2, AllUnackedOK
<1>5. NotifyGotBlockAck(o, got) = p
  BY DEF NotifyGotBlockAck, q
<1> HIDE DEF p
<1>6. TransmitOK(o, A, base) => Later(o, p, base)
  BY <1>2, <1>3, <1>4, LaterLater DEF After
<1>7. TransmitOK(o, A, base) => AnnouncesLost(p, o, B, base)
  BY <1>2, <1>3, <1>4 DEF Announces, AnnouncesLost
<1> QED
  BY <1>2, <1>3, <1>4, <1>5, <1>6, <1>7 DEF After, B

-----------------------------------------------------------------------------
(* What is peeked at before a frame is sent.                                *)

\* p is o with no more in the queue, the same agreement, and perhaps no request.
Peek(p, o, A, base, sent, next, n) ==
    /\ OriginatorOK(p, A, base, sent, next, n)
    /\ TransmitOK(o, A, base) => TransmitOK(p, A, base)
    /\ p.state = o.state /\ p.window = o.window /\ p.outstanding = o.outstanding
    /\ p.queue \subseteq o.queue /\ Announces(p, o)
    /\ p.request = o.request \/ (p.request = NoRequest /\ ~o.request.inFlight)

\* One look after the other.
LEMMA PeekPeek ==
  ASSUME NEW o, NEW p, NEW q, NEW A, NEW base, NEW sent, NEW next, NEW n,
         Peek(p, o, A, base, sent, next, n), Peek(q, p, A, base, sent, next, n)
  PROVE  Peek(q, o, A, base, sent, next, n)
<1>1. q.request = o.request \/ (q.request = NoRequest /\ ~o.request.inFlight)
  BY DEF Peek
<1>2. q.queue \subseteq o.queue /\ (TransmitOK(o, A, base) => TransmitOK(q, A, base))
  BY DEF Peek
<1>3. Announces(q, o)
  BY DEF Peek, Announces
<1> QED
  BY <1>1, <1>2, <1>3 DEF Peek

\* A look that changes nothing.
LEMMA PeekItself ==
  ASSUME NEW o, NEW A, NEW base, NEW sent, NEW next, NEW n, OriginatorOK(o, A, base, sent, next, n)
  PROVE  Peek(o, o, A, base, sent, next, n)
  BY DEF Peek, Announces

\* The agreement is the same, the queue has no more elements.
LEMMA PeekOK ==
  ASSUME NEW o, NEW A, NEW base, NEW sent, NEW next, NEW n, OriginatorOK(o, A, base, sent, next, n),
         NEW p \in Originators, p.state = o.state, p.window = o.window,
         p.outstanding = o.outstanding, p.queue \subseteq o.queue,
         p.request = o.request \/ (p.request = NoRequest /\ ~o.request.inFlight),
         p.notices \subseteq sent, ~Established(o) => p.bar = NoBar /\ ~p.barIfData,
         Announces(p, o)
  PROVE  Peek(p, o, A, base, sent, next, n)
<1>1. QueueOK(p.queue, sent, next, n) /\ IdsOf(p.queue) \subseteq IdsOf(o.queue)
  <2>1. p.queue \in SUBSET o.queue /\ QueueOK(o.queue, sent, next, n)
    BY DEF OriginatorOK
  <2> QED
    BY <2>1, QueueSubset
<1>2. OriginatorOK(p, A, base, sent, next, n)
  BY <1>1 DEF OriginatorOK, Established
<1>3. TransmitOK(o, A, base) => TransmitOK(p, A, base)
  BY DEF TransmitOK, Established
<1> QED
  BY <1>2, <1>3 DEF Peek

\* WipeAllExpiredMpdus removes what is expired and not in flight.
LEMMA WipeOK ==
  ASSUME NEW o, NEW A, NEW base, NEW sent, NEW next, NEW n, OriginatorOK(o, A, base, sent, next, n),
         sent \subseteq Mpdus
  PROVE  Peek(WipeAllExpiredMpdus(o), o, A, base, sent, next, n)
<1> DEFINE wiped == {e \in o.queue : e.id < o.expired /\ ~e.inFlight}
           queue == Without(o.queue, IdsOf(wiped))
           request == IF o.request.expired /\ ~o.request.inFlight THEN NoRequest ELSE o.request
           notices == o.notices \cup {Mpdu(e.id, e.seq) : e \in {f \in wiped : f.retry}}
           p == [o EXCEPT !.queue = queue, !.request = request, !.notices = notices]
<1>1. WipeAllExpiredMpdus(o) = p
  BY DEF WipeAllExpiredMpdus
<1>2. o \in Originators /\ QueueOK(o.queue, sent, next, n) /\ o.notices \subseteq sent
      /\ (~Established(o) => o.bar = NoBar /\ ~o.barIfData)
  BY DEF OriginatorOK
<1>3. queue \subseteq o.queue
  BY DEF Without
<1>4. request \in Requests /\ (request = o.request \/ (request = NoRequest /\ ~o.request.inFlight))
  <2>1. o.request \in Requests
    BY <1>2 DEF Originators
  <2>2. NoRequest \in Requests
    BY MpdusAssumption, WindowAssumption DEF NoRequest, Requests, SeqNos
  <2> QED
    BY <2>1, <2>2
<1>5. notices \subseteq sent
  BY <1>2 DEF QueueOK
<1> HIDE DEF queue, request, notices
<1>6. /\ p \in Originators /\ p.state = o.state /\ p.window = o.window
      /\ p.outstanding = o.outstanding /\ p.queue = queue /\ p.request = request
      /\ p.notices = notices /\ p.bar = o.bar /\ p.barIfData = o.barIfData
  BY <1>2, <1>3, <1>4, <1>5 DEF Originators
<1> HIDE DEF p
<1>7. Announces(p, o)
  BY <1>6 DEF Announces
<1>8. Peek(p, o, A, base, sent, next, n)
  BY <1>2, <1>3, <1>4, <1>5, <1>6, <1>7, PeekOK
<1> QED
  BY <1>1, <1>8

\* GetBar wipes and may queue a BlockAckReq.
LEMMA GetBarOK ==
  ASSUME NEW o, NEW A, NEW base, NEW sent, NEW next, NEW n, OriginatorOK(o, A, base, sent, next, n),
         sent \subseteq Mpdus
  PROVE  Peek(GetBar(o), o, A, base, sent, next, n)
<1> DEFINE w == WipeAllExpiredMpdus(o)
           p == [ScheduleBar(w) EXCEPT !.barIfData = FALSE]
<1>1. Peek(w, o, A, base, sent, next, n)
  BY WipeOK
<1> HIDE DEF w
<1>2. OriginatorOK(w, A, base, sent, next, n) /\ w \in Originators /\ w.notices \subseteq sent
  BY <1>1 DEF Peek, OriginatorOK
<1>3. ASSUME w.barIfData
      PROVE  Peek(p, o, A, base, sent, next, n)
  <2>1. Established(w)
    BY <1>2, <1>3 DEF OriginatorOK
  <2>2. /\ p \in Originators /\ p.state = w.state /\ p.window = w.window
        /\ p.outstanding = w.outstanding /\ p.queue = w.queue /\ p.request = w.request
        /\ p.notices = w.notices /\ Announces(p, w)
    BY <1>2 DEF Originators, ScheduleBar, NewBar, Bars, Announces
  <2> HIDE DEF p
  <2>3. Peek(p, w, A, base, sent, next, n)
    BY <1>2, <2>1, <2>2, PeekOK
  <2> QED
    BY <1>1, <2>3, PeekPeek
<1>4. GetBar(o) = IF ~w.bar.queued /\ w.barIfData /\ w.queue # {} THEN p ELSE w
  BY DEF GetBar, w
<1> QED
  BY <1>1, <1>3, <1>4

\* PeekNextMpdu removes old MPDUs.
LEMMA WithoutOldOK ==
  ASSUME NEW o, NEW A, NEW base, NEW sent, NEW next, NEW n, OriginatorOK(o, A, base, sent, next, n)
  PROVE  Peek(WithoutOld(o), o, A, base, sent, next, n)
<1> DEFINE queue == {e \in o.queue : e.seq = NoSeq \/ ~IsOld(e.seq, o.window.m_winStart)}
           p == [o EXCEPT !.queue = queue]
<1>1. WithoutOld(o) = IF ~Established(o) THEN o ELSE p
  BY DEF WithoutOld
<1>2. o \in Originators /\ o.notices \subseteq sent /\ (~Established(o) => o.bar = NoBar /\ ~o.barIfData)
  BY DEF OriginatorOK
<1>3. queue \subseteq o.queue
  OBVIOUS
<1> HIDE DEF queue
<1>4. /\ p \in Originators /\ p.state = o.state /\ p.window = o.window
      /\ p.outstanding = o.outstanding /\ p.queue = queue /\ p.request = o.request
      /\ p.notices = o.notices /\ p.bar = o.bar /\ p.barIfData = o.barIfData
  BY <1>2, <1>3 DEF Originators
<1> HIDE DEF p
<1>5. Peek(p, o, A, base, sent, next, n)
  BY <1>2, <1>3, <1>4, PeekOK DEF Announces
<1> QED
  BY <1>1, <1>5, PeekItself

-----------------------------------------------------------------------------
(* Numbering.                                                               *)

\* A part without one of the elements is smaller.
LEMMA FewerElements ==
  ASSUME NEW S, IsFiniteSet(S), NEW T \in SUBSET S, NEW x \in S, x \notin T
  PROVE  Cardinality(T) \in Nat /\ Cardinality(S) \in Nat /\ Cardinality(T) < Cardinality(S)
<1>1. /\ IsFiniteSet(T) /\ Cardinality(T) <= Cardinality(S)
      /\ Cardinality(S) = Cardinality(T) => S = T
  BY FS_Subset
<1>2. Cardinality(T) \in Nat /\ Cardinality(S) \in Nat
  BY <1>1, FS_CardinalityType
<1>3. Cardinality(S) # Cardinality(T)
  BY <1>1
<1> QED
  BY <1>1, <1>2, <1>3

\* Elements with different identities from a to b - 1 are b - a at most.
LEMMA IdsBetween ==
  ASSUME NEW a \in Nat, NEW b \in Nat, a <= b, NEW E, \A e \in E : e.id \in a..b - 1,
         \A e, f \in E : e.id = f.id => e = f
  PROVE  IsFiniteSet(E) /\ Cardinality(E) \in Nat /\ Cardinality(E) <= b - a
<1> DEFINE f == [e \in E |-> e.id]
<1>1. f \in [E -> a..b - 1] /\ \A d, e \in E : f[d] = f[e] => d = e
  OBVIOUS
<1>2. f \in Injection(E, a..b - 1)
  BY <1>1 DEF Injection, IsInjective
<1>3. IsFiniteSet(a..b - 1) /\ Cardinality(a..b - 1) = IF a > b - 1 THEN 0 ELSE (b - 1) - a + 1
  <2>1. a \in Int /\ b - 1 \in Int
    OBVIOUS
  <2> QED
    BY <2>1, FS_Interval
<1> HIDE DEF f
<1>4. IsFiniteSet(E) /\ Cardinality(E) <= Cardinality(a..b - 1)
  BY <1>2, <1>3, FS_Injection
<1>5. Cardinality(E) \in Nat
  BY <1>4, FS_CardinalityType
<1> QED
  BY <1>3, <1>4, <1>5

\* How many elements without a number precede e.
Rank(elements, e) == Cardinality({f \in elements : f.seq = NoSeq /\ f.id < e.id})

\* The rank of a candidate among those without a number grows with its identity.
LEMMA RankIs ==
  ASSUME NEW C \in SUBSET Elements, NEW n \in 0..MaxMpdus, \A e \in C : e.id < n,
         \A e, f \in C : e.id = f.id => e = f
  PROVE  /\ \A e \in C : Rank(C, e) \in Nat
         /\ \A e, f \in C : e.seq = NoSeq /\ e.id < f.id => Rank(C, e) < Rank(C, f)
<1> DEFINE before(e) == {f \in C : f.seq = NoSeq /\ f.id < e.id}
<1>1. \A e \in C : e.id \in Nat /\ e.id \in 0..n - 1 /\ n \in Nat
  BY MpdusAssumption DEF Elements, Ids
<1>2. ASSUME NEW e \in C
      PROVE  IsFiniteSet(before(e)) /\ Cardinality(before(e)) \in Nat
  <2> DEFINE S == before(e)
  <2>1. (\A f \in S : f.id \in 0..n - 1) /\ (\A f, g \in S : f.id = g.id => f = g)
    BY <1>1
  <2>2. n \in Nat /\ 0 \in Nat /\ 0 <= n
    BY MpdusAssumption
  <2> HIDE DEF S
  <2>3. IsFiniteSet(S) /\ Cardinality(S) \in Nat
    BY <2>1, <2>2, IdsBetween
  <2> QED
    BY <2>3 DEF S
<1>3. ASSUME NEW e \in C, NEW f \in C, e.seq = NoSeq, e.id < f.id
      PROVE  Cardinality(before(e)) < Cardinality(before(f))
  <2>1. before(e) \in SUBSET before(f) /\ e \in before(f) /\ e \notin before(e)
    BY <1>1, <1>3
  <2>2. IsFiniteSet(before(f))
    BY <1>2
  <2> HIDE DEF before
  <2> QED
    BY <2>1, <2>2, FewerElements
<1> QED
  BY <1>2, <1>3 DEF Rank

\* The candidates that get a number when mpdus are sent.
Fresh(C, mpdus) == {e \in C : e.seq = NoSeq /\ e.id \in IdsOf(mpdus)}

\* m is the candidate e with the number it has, or with one after the others.
OldNumber(m, e, sent) == e.seq # NoSeq /\ m = Mpdu(e.id, e.seq) /\ m \in sent
NewNumber(m, e, C, mpdus, base, sent, next) ==
    /\ e \in Fresh(C, mpdus) /\ m = Mpdu(e.id, m.seq)
    /\ Position(m.seq, base) = next + Rank(C, e) /\ Rank(C, e) < Cardinality(Fresh(C, mpdus))
    /\ \A x \in sent : x.id < m.id

\* An MPDU to be sent has its old number or the one after the fresh candidates before it.
LEMMA NumberedIs ==
  ASSUME FewPackets, NEW base, NEW sent, NEW next, NEW n, Numbering(base, sent, next, n),
         NEW nextSeq \in SeqNos, next = Position(nextSeq, base),
         NEW C \in SUBSET Elements, QueueOK(C, sent, next, n),
         NEW mpdus \in Prefixes(Numbered(C, nextSeq))
  PROVE  /\ Cardinality(Fresh(C, mpdus)) \in Nat /\ next + Cardinality(Fresh(C, mpdus)) <= n
         /\ \A m \in mpdus : m \in Mpdus /\ \E e \in C : e.id = m.id /\
               (OldNumber(m, e, sent) \/ NewNumber(m, e, C, mpdus, base, sent, next))
         /\ \A e \in C, m \in mpdus : e.id < m.id => e.id \in IdsOf(mpdus)
         /\ \A e \in C : e.seq = NoSeq /\ e.id \notin IdsOf(mpdus) =>
               /\ next + Cardinality(Fresh(C, mpdus)) <= e.id
               /\ \A m \in mpdus : m.id < e.id
<1> DEFINE N == Numbered(C, nextSeq)
           E == Fresh(C, mpdus)
           k == Cardinality(E)
           number(e) == Mpdu(e.id, IF e.seq # NoSeq THEN e.seq ELSE SeqPlus(nextSeq, Rank(C, e)))
<1>1. N = {number(e) : e \in C}
  BY DEF Numbered, Rank
<1>2. PICK last \in N : mpdus = {m \in N : m.id <= last.id}
  BY DEF Prefixes
<1>3. /\ base \in SeqNos /\ next \in Nat /\ n \in Nat /\ next <= n /\ n \in 0..MaxMpdus
      /\ MaxMpdus \in Nat /\ sent \subseteq Mpdus
  BY MpdusAssumption DEF Numbering
<1>4. \A e \in C : e.id \in Ids /\ e.id \in Nat /\ e.id < n
  BY DEF QueueOK, Elements, Ids
<1>5. \A e, f \in C : e.id = f.id => e = f
  BY DEF QueueOK
<1>6. /\ \A e \in C : Rank(C, e) \in Nat
      /\ \A e, f \in C : e.seq = NoSeq /\ e.id < f.id => Rank(C, e) < Rank(C, f)
  BY <1>3, <1>4, <1>5, RankIs
<1>7. \A e \in C : number(e).id = e.id
  BY DEF Mpdu
<1>8. PICK z \in C : last.id = z.id
  BY <1>1, <1>2, <1>7
<1>9. \A e \in C : e.id \in IdsOf(mpdus) <=> e.id <= z.id
  <2>1. ASSUME NEW e \in C, e.id <= z.id
        PROVE  e.id \in IdsOf(mpdus)
    <3>1. number(e) \in mpdus
      BY <1>1, <1>2, <1>7, <1>8, <2>1
    <3> QED
      BY <1>7, <3>1 DEF IdsOf
  <2>2. ASSUME NEW e \in C, e.id \in IdsOf(mpdus)
        PROVE  e.id <= z.id
    BY <1>2, <1>8, <2>2 DEF IdsOf
  <2> QED
    BY <2>1, <2>2
<1>10. \A e \in C : e.seq = NoSeq => next <= e.id /\ \A x \in sent : x.id < e.id
  BY DEF QueueOK
<1>11. ASSUME NEW b \in Nat, next <= b, \A e \in E : e.id < b
       PROVE  IsFiniteSet(E) /\ k \in Nat /\ next + k <= b
  <2>1. \A e \in E : e.id \in next..b - 1
    BY <1>3, <1>4, <1>10, <1>11 DEF Fresh
  <2>2. \A e, f \in E : e.id = f.id => e = f
    BY <1>5 DEF Fresh
  <2> HIDE DEF E
  <2>3. IsFiniteSet(E) /\ k \in Nat /\ k <= b - next
    BY <1>3, <1>11, <2>1, <2>2, IdsBetween
  <2> QED
    BY <1>3, <2>3
<1>12. IsFiniteSet(E) /\ k \in Nat /\ next + k <= n
  BY <1>3, <1>4, <1>11 DEF Fresh
<1> HIDE DEF k
<1>13. ASSUME NEW e \in E
       PROVE  Rank(C, e) < k /\ Rank(C, e) \in Nat
  <2> DEFINE T == {f \in C : f.seq = NoSeq /\ f.id < e.id}
  <2>1. e \in C /\ e.id <= z.id
    BY <1>9 DEF Fresh
  <2>2. T \in SUBSET E /\ e \in E /\ e \notin T
    BY <1>4, <1>9, <2>1 DEF Fresh
  <2> HIDE DEF T, E
  <2>3. Cardinality(T) \in Nat /\ Cardinality(T) < Cardinality(E)
    BY <1>12, <2>2, FewerElements
  <2> QED
    BY <2>3 DEF Rank, T, k
<1>14. ASSUME NEW m \in mpdus
       PROVE  m \in Mpdus /\ \E e \in C : e.id = m.id /\
               (OldNumber(m, e, sent) \/ NewNumber(m, e, C, mpdus, base, sent, next))
  <2>1. PICK e \in C : m = number(e)
    BY <1>1, <1>2
  <2>2. e.id = m.id /\ e.id \in IdsOf(mpdus)
    BY <1>7, <2>1 DEF IdsOf
  <2>3. CASE e.seq # NoSeq
    <3>1. m = Mpdu(e.id, e.seq) /\ m \in sent
      BY <2>1, <2>3 DEF QueueOK
    <3> QED
      BY <1>3, <2>2, <2>3, <3>1 DEF OldNumber
  <2>4. CASE e.seq = NoSeq
    <3>1. e \in E
      BY <2>2, <2>4 DEF Fresh
    <3>2. Rank(C, e) < k /\ Rank(C, e) \in Nat
      BY <1>13, <3>1
    <3>3. m = Mpdu(e.id, SeqPlus(nextSeq, Rank(C, e))) /\ m.seq = SeqPlus(nextSeq, Rank(C, e))
      BY <2>1, <2>4 DEF Mpdu
    <3>4. m.seq \in SeqNos
      BY <3>2, <3>3, SeqPlusType
    <3>5. m \in Mpdus
      BY <1>4, <3>3, <3>4 DEF Mpdus, Mpdu
    <3>6. Position(m.seq, base) = next + Rank(C, e)
      <4>1. next + Rank(C, e) < SeqSpace
        BY <1>3, <1>12, <3>2, FewPacketsIs
      <4> QED
        BY <1>3, <3>2, <3>3, <4>1, PositionPlus
    <3>7. \A x \in sent : x.id < m.id
      BY <1>10, <2>2, <2>4
    <3>8. NewNumber(m, e, C, mpdus, base, sent, next)
      BY <3>1, <3>2, <3>3, <3>6, <3>7 DEF NewNumber, k
    <3> QED
      BY <2>2, <3>5, <3>8
  <2> QED
    BY <2>3, <2>4
<1>15. \A m \in mpdus : m.id \in Nat /\ m.id <= z.id
  BY <1>2, <1>4, <1>8, <1>14
<1>16. ASSUME NEW e \in C, NEW m \in mpdus, e.id < m.id
       PROVE  e.id \in IdsOf(mpdus)
  BY <1>4, <1>8, <1>9, <1>15, <1>16
<1>17. ASSUME NEW e \in C, e.seq = NoSeq, e.id \notin IdsOf(mpdus)
       PROVE  next + k <= e.id /\ \A m \in mpdus : m.id < e.id
  <2>1. z.id < e.id /\ e.id \in Nat /\ z.id \in Nat
    BY <1>4, <1>9, <1>17
  <2>2. \A f \in E : f.id < e.id
    BY <1>4, <1>9, <2>1 DEF Fresh
  <2>3. next + k <= e.id
    BY <1>10, <1>11, <1>17, <2>1, <2>2 DEF k
  <2> QED
    BY <1>15, <2>1, <2>3
<1> QED
  BY <1>12, <1>14, <1>16, <1>17 DEF k

\* The numbers stay in order when these are sent, and next moves past them.
LEMMA NumberingOK ==
  ASSUME FewPackets, NEW base, NEW sent, NEW next, NEW n, Numbering(base, sent, next, n),
         NEW nextSeq \in SeqNos, next = Position(nextSeq, base),
         NEW C \in SUBSET Elements, QueueOK(C, sent, next, n),
         NEW mpdus \in Prefixes(Numbered(C, nextSeq))
  PROVE  LET k == Cardinality(Fresh(C, mpdus))
         IN  /\ Numbering(base, sent \cup mpdus, next + k, n)
             /\ Position(SeqPlus(nextSeq, k), base) = next + k
<1> DEFINE k == Cardinality(Fresh(C, mpdus))
           new(m, e) == NewNumber(m, e, C, mpdus, base, sent, next)
           pos(m) == Position(m.seq, base)
<1>1. /\ k \in Nat /\ next + k <= n
      /\ \A m \in mpdus : m \in Mpdus /\ \E e \in C : e.id = m.id /\
            (OldNumber(m, e, sent) \/ new(m, e))
  BY NumberedIs
<1> HIDE DEF k
<1>2. /\ base \in SeqNos /\ next \in Nat /\ n \in Nat /\ n <= MaxMpdus /\ n \in 0..MaxMpdus
      /\ MaxMpdus \in Nat /\ sent \subseteq Mpdus
  BY MpdusAssumption DEF Numbering
<1>3. Position(SeqPlus(nextSeq, k), base) = next + k
  <2>1. next + k < SeqSpace
    BY <1>1, <1>2, FewPacketsIs
  <2> QED
    BY <1>1, <1>2, <2>1, PositionPlus
<1>4. /\ \A e \in C : Rank(C, e) \in Nat /\ e.id < n
      /\ \A e, f \in C : e.seq = NoSeq /\ e.id < f.id => Rank(C, e) < Rank(C, f)
  <2>1. (\A e \in C : e.id < n) /\ \A e, f \in C : e.id = f.id => e = f
    BY DEF QueueOK
  <2> QED
    BY <1>2, <2>1, RankIs
<1>5. \A x \in sent : /\ x.id < n /\ x.id \in Nat /\ pos(x) < next /\ pos(x) \in Nat
                      /\ \A y \in sent : x.id < y.id <=> pos(x) < pos(y)
  BY SentIs DEF Numbering
<1>6. ASSUME NEW m \in mpdus
      PROVE  m \in sent \/ \E e \in C : new(m, e) /\ e.id = m.id
  BY <1>1 DEF OldNumber
<1>7. ASSUME NEW m, NEW e \in C, new(m, e), e.id = m.id
      PROVE  /\ e.seq = NoSeq /\ pos(m) = next + Rank(C, e) /\ Rank(C, e) < k
             /\ \A x \in sent : x.id < m.id
  BY <1>7 DEF NewNumber, Fresh, k
<1>8. \A m \in mpdus : m.id \in Nat /\ m.id < n
  <2>1. \A m \in mpdus : m.id \in Nat
    BY <1>1, MpdusAssumption DEF Mpdus, Ids
  <2> QED
    BY <1>1, <1>4, <2>1
<1>9. ASSUME NEW x \in sent \cup mpdus
      PROVE  x.id < n /\ pos(x) < next + k
  <2>1. CASE x \in sent
    BY <1>1, <1>2, <1>5, <2>1
  <2>2. CASE x \notin sent
    <3>1. PICK e \in C : new(x, e) /\ e.id = x.id
      BY <1>6, <2>2
    <3>2. pos(x) = next + Rank(C, e) /\ Rank(C, e) < k /\ Rank(C, e) \in Nat
      BY <1>4, <1>7, <3>1
    <3> QED
      BY <1>1, <1>2, <1>8, <2>2, <3>2
  <2> QED
    BY <2>1, <2>2
<1>10. ASSUME NEW x \in sent \cup mpdus, NEW y \in sent \cup mpdus
       PROVE  x.id < y.id <=> pos(x) < pos(y)
  <2>1. CASE x \in sent /\ y \in sent
    BY <1>5, <2>1
  <2>2. CASE x \in sent /\ y \notin sent
    <3>1. PICK f \in C : new(y, f) /\ f.id = y.id
      BY <1>6, <2>2
    <3>2. pos(y) = next + Rank(C, f) /\ Rank(C, f) \in Nat /\ x.id < y.id
      BY <1>4, <1>7, <2>2, <3>1
    <3> QED
      BY <1>2, <1>5, <2>2, <3>2
  <2>3. CASE x \notin sent /\ y \in sent
    <3>1. PICK e \in C : new(x, e) /\ e.id = x.id
      BY <1>6, <2>3
    <3>2. pos(x) = next + Rank(C, e) /\ Rank(C, e) \in Nat /\ y.id < x.id
      BY <1>4, <1>7, <2>3, <3>1
    <3>3. x.id \in Nat
      BY <1>8, <2>3
    <3> QED
      BY <1>2, <1>5, <2>3, <3>2, <3>3
  <2>4. CASE x \notin sent /\ y \notin sent
    <3>1. PICK e \in C : new(x, e) /\ e.id = x.id
      BY <1>6, <2>4
    <3>2. PICK f \in C : new(y, f) /\ f.id = y.id
      BY <1>6, <2>4
    <3>3. /\ pos(x) = next + Rank(C, e) /\ Rank(C, e) \in Nat /\ e.seq = NoSeq
          /\ pos(y) = next + Rank(C, f) /\ Rank(C, f) \in Nat /\ f.seq = NoSeq
      BY <1>4, <1>7, <3>1, <3>2
    <3>4. x.id \in Nat /\ y.id \in Nat
      BY <1>8, <2>4
    <3>5. x.id < y.id => Rank(C, e) < Rank(C, f)
      BY <1>4, <3>1, <3>2, <3>3
    <3>6. y.id < x.id => Rank(C, f) < Rank(C, e)
      BY <1>4, <3>1, <3>2, <3>3
    <3>7. x.id = y.id => Rank(C, e) = Rank(C, f)
      <4> SUFFICES ASSUME x.id = y.id
                   PROVE  e = f
        OBVIOUS
      <4> QED
        BY <3>1, <3>2 DEF QueueOK
    <3> QED
      BY <1>2, <3>3, <3>4, <3>5, <3>6, <3>7
  <2> QED
    BY <2>1, <2>2, <2>3, <2>4
<1>11. next + k \in 0..n /\ sent \cup mpdus \subseteq Mpdus
  BY <1>1, <1>2
<1> QED
  BY <1>2, <1>3, <1>9, <1>10, <1>11 DEF Numbering, k

-----------------------------------------------------------------------------
(* Sending.                                                                 *)

\* The queue once the MPDUs are in flight.
LEMMA FlyingOK ==
  ASSUME FewPackets, NEW base, NEW sent, NEW next, NEW n, Numbering(base, sent, next, n),
         NEW nextSeq \in SeqNos, next = Position(nextSeq, base),
         NEW q \in SUBSET Elements, QueueOK(q, sent, next, n),
         NEW C \in SUBSET q, \A e \in q : e.seq = NoSeq => e \in C,
         NEW mpdus \in Prefixes(Numbered(C, nextSeq))
  PROVE  LET r == Flying(q, mpdus)
         IN  /\ r \in SUBSET Elements /\ IdsOf(r) = IdsOf(q)
             /\ QueueOK(r, sent \cup mpdus, next + Cardinality(Fresh(C, mpdus)), n)
             /\ \A f \in r : f.inFlight => f.id \in IdsOf(mpdus) \/ f \in q
<1> DEFINE k == Cardinality(Fresh(C, mpdus))
           r == Flying(q, mpdus)
           sentAs(e) == CHOOSE m \in mpdus : m.id = e.id
           flown(e) == [e EXCEPT !.inFlight = TRUE, !.seq = sentAs(e).seq]
<1>1. r = {IF e.id \in IdsOf(mpdus) THEN flown(e) ELSE e : e \in q}
  BY DEF Flying
<1>2. C \in SUBSET Elements /\ QueueOK(C, sent, next, n)
  BY QueueSubset
<1>3. /\ \A m \in mpdus : m \in Mpdus
      /\ \A e \in C : e.seq = NoSeq /\ e.id \notin IdsOf(mpdus) =>
            next + k <= e.id /\ \A m \in mpdus : m.id < e.id
  BY <1>2, NumberedIs
<1> HIDE DEF k
<1>4. \A e \in q : e.id \in IdsOf(mpdus) => sentAs(e) \in mpdus /\ sentAs(e).id = e.id
  BY DEF IdsOf
<1> HIDE DEF sentAs
<1>5. ASSUME NEW e \in q, e.id \in IdsOf(mpdus)
      PROVE  /\ flown(e) \in Elements /\ flown(e).id = e.id /\ flown(e).seq # NoSeq
             /\ Mpdu(flown(e).id, flown(e).seq) \in mpdus
  <2>1. sentAs(e) \in mpdus /\ sentAs(e) \in Mpdus /\ sentAs(e).id = e.id
    BY <1>3, <1>4, <1>5
  <2>2. sentAs(e).seq \in SeqNos /\ sentAs(e) = Mpdu(e.id, sentAs(e).seq)
    BY <2>1 DEF Mpdus, Mpdu
  <2>3. e \in Elements
    OBVIOUS
  <2>4. flown(e) \in Elements /\ flown(e).id = e.id /\ flown(e).seq = sentAs(e).seq
    BY <2>2, <2>3 DEF Elements
  <2>5. NoSeq \notin SeqNos
    BY WindowAssumption DEF NoSeq, SeqNos
  <2> QED
    BY <2>1, <2>2, <2>4, <2>5
<1> HIDE DEF flown
<1>6. ASSUME NEW f \in r
      PROVE  \E e \in q : /\ f.id = e.id /\ f \in Elements
                          /\ \/ e.id \in IdsOf(mpdus) /\ f = flown(e)
                             \/ e.id \notin IdsOf(mpdus) /\ f = e
  <2>1. PICK e \in q : f = IF e.id \in IdsOf(mpdus) THEN flown(e) ELSE e
    BY <1>1
  <2>2. CASE e.id \in IdsOf(mpdus)
    <3>1. f = flown(e)
      BY <2>1, <2>2
    <3> QED
      BY <1>5, <2>2, <3>1
  <2>3. CASE e.id \notin IdsOf(mpdus)
    <3>1. f = e
      BY <2>1, <2>3
    <3> QED
      BY <2>3, <3>1
  <2> QED
    BY <2>2, <2>3
<1>7. \A e \in q : \E f \in r : f.id = e.id
  BY <1>1, <1>5
<1> HIDE DEF r
<1>8. r \in SUBSET Elements /\ IdsOf(r) = IdsOf(q)
  BY <1>6, <1>7 DEF IdsOf
<1>9. ASSUME NEW f \in r
      PROVE  f.id < n /\ (f.seq # NoSeq => Mpdu(f.id, f.seq) \in sent \cup mpdus)
  <2>1. PICK e \in q : /\ f.id = e.id
                       /\ \/ e.id \in IdsOf(mpdus) /\ f = flown(e)
                          \/ e.id \notin IdsOf(mpdus) /\ f = e
    BY <1>6
  <2> QED
    BY <1>5, <2>1 DEF QueueOK
<1>10. ASSUME NEW f \in r, f.seq = NoSeq
       PROVE  ~f.retry /\ ~f.inFlight /\ next + k <= f.id /\ \A x \in sent \cup mpdus : x.id < f.id
  <2>1. PICK e \in q : /\ f.id = e.id
                       /\ \/ e.id \in IdsOf(mpdus) /\ f = flown(e)
                          \/ e.id \notin IdsOf(mpdus) /\ f = e
    BY <1>6
  <2>2. f = e /\ e.id \notin IdsOf(mpdus) /\ e \in C
    BY <1>5, <1>10, <2>1
  <2>3. next + k <= e.id /\ \A m \in mpdus : m.id < e.id
    BY <1>3, <1>10, <2>2
  <2> QED
    BY <1>10, <2>2, <2>3 DEF QueueOK
<1>11. ASSUME NEW f \in r, NEW g \in r, f.id = g.id
       PROVE  f = g
  <2>1. PICK e \in q : /\ f.id = e.id
                       /\ \/ e.id \in IdsOf(mpdus) /\ f = flown(e)
                          \/ e.id \notin IdsOf(mpdus) /\ f = e
    BY <1>6
  <2>2. PICK d \in q : /\ g.id = d.id
                       /\ \/ d.id \in IdsOf(mpdus) /\ g = flown(d)
                          \/ d.id \notin IdsOf(mpdus) /\ g = d
    BY <1>6
  <2>3. d = e
    BY <1>11, <2>1, <2>2 DEF QueueOK
  <2> QED
    BY <2>1, <2>2, <2>3
<1>12. \A f \in r : f.inFlight => f.id \in IdsOf(mpdus) \/ f \in q
  BY <1>6
<1>13. QueueOK(r, sent \cup mpdus, next + k, n)
  BY <1>9, <1>10, <1>11 DEF QueueOK
<1> QED
  BY <1>8, <1>12, <1>13 DEF r, k

\* More is sent, and the queue has the new numbers.
LEMMA MoreSentOK ==
  ASSUME NEW base \in SeqNos, NEW sent, NEW next \in Nat, NEW n, NEW more, NEW later \in Nat,
         sent \subseteq more, next <= later,
         NEW o, NEW A, OriginatorOK(o, A, base, sent, next, n),
         NEW queue \in SUBSET Elements, QueueOK(queue, more, later, n), IdsOf(queue) = IdsOf(o.queue),
         NEW p, p = [o EXCEPT !.queue = queue]
  PROVE  /\ OriginatorOK(p, A, base, more, later, n)
         /\ TransmitOK(o, A, base) => TransmitOK(p, A, base)
         /\ p.state = o.state /\ p.window = o.window /\ p.outstanding = o.outstanding
         /\ p.request = o.request /\ p.queue = queue
<1>1. o \in Originators
  BY DEF OriginatorOK
<1>2. /\ p \in Originators /\ p.state = o.state /\ p.window = o.window
      /\ p.outstanding = o.outstanding /\ p.queue = queue /\ p.request = o.request
      /\ p.notices = o.notices /\ p.bar = o.bar /\ p.barIfData = o.barIfData
  BY <1>1 DEF Originators
<1>3. o.window \in Windows /\ o.window.m_winStart \in SeqNos
      /\ Position(o.window.m_winStart, base) \in Nat
  BY <1>1, PositionType DEF Originators, Windows
<1>4. WindowBounded(o.window, base, next) => WindowBounded(o.window, base, later)
  <2> SUFFICES ASSUME WindowBounded(o.window, base, next)
               PROVE  WindowBounded(o.window, base, later)
    OBVIOUS
  <2>1. Position(o.window.m_winStart, base) <= next
        /\ \A d \in Slots : d \in Nat /\ (At(o.window, d) => Position(o.window.m_winStart, base) + d < next)
    BY SlotsIn DEF WindowBounded
  <2> QED
    BY <1>3, <2>1 DEF WindowBounded
<1>5. OriginatorOK(p, A, base, more, later, n)
  BY <1>2, <1>4 DEF OriginatorOK, Established
<1>6. TransmitOK(o, A, base) => TransmitOK(p, A, base)
  BY <1>2 DEF TransmitOK, Established
<1> QED
  BY <1>2, <1>5, <1>6

\* Distances from the start of the transmit window.
LEMMA DistanceFromStart ==
  ASSUME FewPackets, NEW base \in SeqNos, NEW start \in SeqNos, Position(start, base) <= MaxMpdus,
         NEW s \in SeqNos, Position(s, base) <= MaxMpdus
  PROVE  /\ Position(start, base) <= Position(s, base) =>
               Distance(s, start) = Position(s, base) - Position(start, base)
         /\ IsInWindow(s, start) <=> /\ Position(start, base) <= Position(s, base)
                                     /\ Position(s, base) < Position(start, base) + BufferSize
<1>1. /\ Distance(s, start) = IF Position(s, base) >= Position(start, base)
                              THEN Position(s, base) - Position(start, base)
                              ELSE Position(s, base) - Position(start, base) + SeqSpace
  BY DistancePosition
<1>2. Position(s, base) \in Nat /\ Position(start, base) \in Nat
  BY PositionType
<1> HIDE DEF FewPackets
<1> QED
  BY <1>1, <1>2, FewPacketsIs DEF IsInWindow

\* StorePacket keeps the in flight queue in the order of numbers.
LEMMA StorePacketOK ==
  ASSUME FewPackets, NEW base, NEW sent, NEW next, NEW n, Numbering(base, sent, next, n),
         NEW o, NEW A, OriginatorOK(o, A, base, sent, next, n),
         NEW m \in sent, m \notin A, Established(o) => IsInWindow(m.seq, o.window.m_winStart)
  PROVE  LET p == StorePacket(o, m)
         IN  /\ After(p, o, A, base, sent, next, n) /\ p.window = o.window /\ p.queue = o.queue
             /\ p.bar = o.bar /\ p.barIfData = o.barIfData
<1> DEFINE start == o.window.m_winStart
           list == o.outstanding
           earlier == {e \in Members(list) : Distance(e.seq, start) < Distance(m.seq, start)}
           a == Only(list, earlier)
           b == Append(a, m)
           c == Only(list, Members(list) \ earlier)
           stored == b \o c
           p == [o EXCEPT !.outstanding = stored]
           pos(x) == Position(x.seq, base)
           wp == Position(start, base)
<1>1. StorePacket(o, m) = IF ~Established(o) \/ IsOld(m.seq, start) \/ m \in Members(list)
                          THEN o ELSE p
  BY DEF StorePacket
<1>2. base \in SeqNos /\ m \in Mpdus /\ m.seq \in SeqNos /\ next \in 0..MaxMpdus /\ MaxMpdus \in Nat
  BY SentIs, MpdusAssumption
<1>3. /\ o \in Originators /\ list \in Seq(Mpdus) /\ Members(list) \subseteq sent
      /\ start \in SeqNos /\ wp \in Nat
  BY <1>2, PositionType DEF OriginatorOK, Originators, Windows
<1> HIDE DEF earlier
<1>4. earlier \subseteq Members(list)
  BY DEF earlier
<1>5. /\ a \in Seq(Mpdus) /\ Members(a) = earlier /\ (Ascending(list, base) => Ascending(a, base))
      /\ c \in Seq(Mpdus) /\ Members(c) = Members(list) \ earlier
      /\ Ascending(list, base) => Ascending(c, base)
  <2>1. Members(list) \cap earlier = earlier
        /\ Members(list) \cap (Members(list) \ earlier) = Members(list) \ earlier
    BY <1>4
  <2> QED
    BY <1>2, <1>3, <2>1, OnlyIs
<1> HIDE DEF a, c
<1>6. /\ b \in Seq(Mpdus) /\ Members(b) = earlier \cup {m}
      /\ Ascending(a, base) /\ (\A x \in earlier : pos(x) < pos(m)) => Ascending(b, base)
  BY <1>2, <1>5, AppendAscending
<1> HIDE DEF b
<1>7. /\ stored \in Seq(Mpdus) /\ Members(stored) = Members(list) \cup {m}
      /\ /\ Ascending(b, base) /\ Ascending(c, base)
         /\ \A x \in Members(b), y \in Members(c) : pos(x) < pos(y)
         => Ascending(stored, base)
  <2>1. /\ stored \in Seq(Mpdus) /\ Members(stored) = Members(b) \cup Members(c)
        /\ /\ Ascending(b, base) /\ Ascending(c, base)
           /\ \A x \in Members(b), y \in Members(c) : pos(x) < pos(y)
           => Ascending(stored, base)
    BY <1>2, <1>5, <1>6, JoinedAscending
  <2> QED
    BY <1>4, <1>5, <1>6, <2>1
<1> HIDE DEF stored
<1>8. /\ p \in Originators /\ p.state = o.state /\ p.window = o.window /\ p.queue = o.queue
      /\ p.outstanding = stored /\ p.notices = o.notices /\ p.request = o.request
      /\ p.bar = o.bar /\ p.barIfData = o.barIfData
  BY <1>3, <1>7 DEF Originators
<1> HIDE DEF p
<1>9. ASSUME Established(o)
      PROVE  OriginatorOK(p, A, base, sent, next, n)
  <2>1. Members(p.outstanding) \subseteq sent /\ A \cap Members(p.outstanding) = {}
    BY <1>3, <1>7, <1>8 DEF OriginatorOK
  <2> QED
    BY <1>8, <1>9, <2>1 DEF OriginatorOK, Established
<1>10. ASSUME Established(o), m \notin Members(list), TransmitOK(o, A, base)
       PROVE  TransmitOK(p, A, base)
  <2>1. WindowExact(o.window, A, base) /\ Ascending(list, base) /\ Within(list, o.window, base)
    BY <1>10 DEF TransmitOK
  <2>2. wp <= MaxMpdus
    <3>1. wp <= next
      BY <1>10 DEF OriginatorOK, WindowBounded
    <3> QED
      BY <1>2, <1>3, <3>1
  <2>3. \A x \in sent : x.seq \in SeqNos /\ pos(x) \in Nat /\ pos(x) <= MaxMpdus
    BY <1>2, SentIs
  <2>4. wp <= pos(m) /\ pos(m) < wp + BufferSize
    BY <1>2, <1>3, <1>10, <2>2, <2>3, DistanceFromStart
  <2>5. ASSUME NEW x \in Members(list)
        PROVE  wp <= pos(x) /\ pos(x) < wp + BufferSize
    BY <2>1 DEF Within, Members
  <2>6. ASSUME NEW x \in Members(list)
        PROVE  x \in earlier <=> pos(x) < pos(m)
    <3>1. Distance(x.seq, start) = pos(x) - wp /\ Distance(m.seq, start) = pos(m) - wp
      BY <1>2, <1>3, <2>2, <2>3, <2>4, <2>5, DistanceFromStart
    <3>2. pos(x) \in Nat /\ pos(m) \in Nat
      BY <1>3, <2>3
    <3> QED
      BY <1>3, <3>1, <3>2 DEF earlier
  <2>7. ASSUME NEW x \in Members(list) \ earlier
        PROVE  pos(m) < pos(x)
    <3>1. pos(x) # pos(m)
      BY <1>3, <1>10, SentOnce
    <3>2. pos(x) \in Nat /\ pos(m) \in Nat
      BY <1>3, <2>3
    <3> QED
      BY <2>6, <3>1, <3>2
  <2>8. Ascending(b, base)
    BY <1>4, <1>5, <1>6, <2>1, <2>6
  <2>9. \A x \in Members(b), y \in Members(c) : pos(x) < pos(y)
    <3> SUFFICES ASSUME NEW x \in Members(b), NEW y \in Members(c)
                 PROVE  pos(x) < pos(y)
      OBVIOUS
    <3>1. pos(m) < pos(y) /\ pos(y) \in Nat
      BY <1>3, <1>5, <2>3, <2>7
    <3>2. x = m \/ pos(x) < pos(m)
      BY <1>4, <1>6, <2>6
    <3>3. pos(x) \in Nat /\ pos(m) \in Nat
      BY <1>3, <1>4, <1>6, <2>3
    <3> QED
      BY <3>1, <3>2, <3>3
  <2>10. Ascending(stored, base)
    BY <1>5, <1>7, <2>1, <2>8, <2>9
  <2>11. Within(stored, o.window, base)
    <3>1. \A i \in DOMAIN stored : stored[i] \in Members(list) \cup {m}
      BY <1>7 DEF Members
    <3> QED
      BY <2>4, <2>5, <3>1 DEF Within
  <2> QED
    BY <1>8, <2>1, <2>10, <2>11 DEF TransmitOK
<1>11. CASE ~Established(o) \/ IsOld(m.seq, start) \/ m \in Members(list)
  <2>1. StorePacket(o, m) = o
    BY <1>1, <1>11
  <2> QED
    BY <2>1, AfterItself
<1>12. CASE ~(~Established(o) \/ IsOld(m.seq, start) \/ m \in Members(list))
  <2>1. StorePacket(o, m) = p
    BY <1>1, <1>12
  <2> QED
    <3>1. Later(o, p, base)
      BY <1>8, SameWindow DEF OriginatorOK
    <3> QED
      BY <1>8, <1>9, <1>10, <1>12, <2>1, <3>1 DEF After
<1> QED
  BY <1>11, <1>12

\* The originator when the MPDUs are in flight and not stored.
TakenOff(o, mpdus) == [o EXCEPT !.queue = Flying(@, mpdus)]

\* The MPDUs of a psdu are stored one after the other.
LEMMA StoredOK ==
  ASSUME FewPackets, NEW base, NEW sent, NEW next, NEW n, Numbering(base, sent, next, n),
         NEW o, NEW A, NEW q, OriginatorOK(q, A, base, sent, next, n), NEW mpdus \in SUBSET sent,
         q = TakenOff(o, mpdus), mpdus \cap A = {},
         Established(q) => \A m \in mpdus : IsInWindow(m.seq, q.window.m_winStart)
  PROVE  /\ After(Sent(o, mpdus), q, A, base, sent, next, n)
         /\ Sent(o, mpdus).window = q.window /\ Sent(o, mpdus).queue = q.queue
         /\ Sent(o, mpdus).bar = q.bar /\ Sent(o, mpdus).barIfData = q.barIfData
<1> DEFINE len == MaxMpdus
           values(f) == [k \in 0..len |-> IF k = 0 THEN TakenOff(o, mpdus)
                                          ELSE StoreIfSent(f[k - 1], mpdus, k - 1)]
           after == CHOOSE f : f = values(f)
           S == {p \in Originators : /\ After(p, q, A, base, sent, next, n)
                                     /\ p.window = q.window /\ p.queue = q.queue
                                     /\ p.bar = q.bar /\ p.barIfData = q.barIfData}
           g == [k \in 1..len |-> [v \in S |-> StoreIfSent(v, mpdus, k - 1)]]
<1>1. len \in Nat /\ \A k \in 1..len : k \in 0..len /\ k - 1 \in 0..len /\ k # 0
  BY MpdusAssumption
<1>2. q \in S
  BY AfterItself DEF OriginatorOK
<1>3. ASSUME NEW k \in 1..len, NEW v \in S
      PROVE  StoreIfSent(v, mpdus, k - 1) \in S
  <2> DEFINE id == k - 1
             m == CHOOSE x \in mpdus : x.id = id
  <2>1. /\ OriginatorOK(v, A, base, sent, next, n) /\ After(v, q, A, base, sent, next, n)
        /\ v.window = q.window /\ v.queue = q.queue /\ v.bar = q.bar /\ v.barIfData = q.barIfData
    BY DEF After
  <2> HIDE DEF id
  <2>2. id \in IdsOf(mpdus) => m \in mpdus
    BY DEF IdsOf
  <2>3. StoreIfSent(v, mpdus, id) = IF id \in IdsOf(mpdus) THEN StorePacket(v, m) ELSE v
    BY DEF StoreIfSent
  <2> HIDE DEF m
  <2>4. CASE id \in IdsOf(mpdus)
    <3>1. m \in sent /\ m \notin A /\ m \in mpdus
      BY <2>2, <2>4
    <3>2. Established(v) => IsInWindow(m.seq, v.window.m_winStart)
      BY <2>1, <3>1 DEF After, Established
    <3> DEFINE p == StorePacket(v, m)
    <3>3. /\ After(p, v, A, base, sent, next, n) /\ p.window = v.window /\ p.queue = v.queue
          /\ p.bar = v.bar /\ p.barIfData = v.barIfData
      BY <2>1, <3>1, <3>2, StorePacketOK
    <3> HIDE DEF p
    <3>4. After(p, q, A, base, sent, next, n) /\ p \in Originators
      <4>1. After(p, q, A, base, sent, next, n)
        BY <2>1, <3>3, AfterAfter
      <4> QED
        BY <4>1 DEF After, OriginatorOK
    <3>5. StoreIfSent(v, mpdus, id) = p
      BY <2>3, <2>4 DEF p
    <3> QED
      BY <2>1, <3>3, <3>4, <3>5 DEF id
  <2>5. CASE id \notin IdsOf(mpdus)
    <3>1. StoreIfSent(v, mpdus, id) = v
      BY <2>3, <2>5
    <3> QED
      BY <3>1 DEF id
  <2> QED
    BY <2>4, <2>5
<1>4. StaysIn(g, len, S)
  <2> HIDE DEF S
  <2> QED
    BY <1>3 DEF StaysIn
<1>5. PICK f : IsFold(f, g, len, S, q)
  <2> HIDE DEF g, len, S, after
  <2> QED
    BY <1>1, <1>2, <1>4, Folding, Zenon
<1>6. f = values(f)
  <2> HIDE DEF S
  <2>1. \A k \in 1..len : f[k - 1] \in S
    BY <1>1, <1>5 DEF IsFold
  <2>2. \A k \in 1..len : f[k] = StoreIfSent(f[k - 1], mpdus, k - 1)
    BY <1>5, <2>1 DEF IsFold
  <2>3. f \in [0..len -> S] /\ f[0] = q
    BY <1>5 DEF IsFold
  <2>4. \A k \in 0..len : k # 0 => k \in 1..len
    BY <1>1
  <2> HIDE DEF len
  <2> QED
    BY <2>2, <2>3, <2>4
<1>7. after = values(after)
  BY <1>6
<1> HIDE DEF after
<1>8. after[0] = q /\ \A k \in 1..len : after[k] = StoreIfSent(after[k - 1], mpdus, k - 1)
  <2> DEFINE h == values(after)
  <2>1. h[0] = q /\ \A k \in 1..len : h[k] = StoreIfSent(after[k - 1], mpdus, k - 1)
    BY <1>1
  <2> HIDE DEF h
  <2>2. after = h
    BY <1>7 DEF h
  <2> QED
    BY <2>1, <2>2
<1> DEFINE T == {k \in Nat : after[k] \in S}
<1>9. len \in T
  <2>1. 0 \in T
    BY <1>2, <1>8
  <2>2. ASSUME NEW k \in 1..len, k - 1 \in T
        PROVE  k \in T
    <3> HIDE DEF S
    <3>1. after[k] \in S
      BY <1>3, <1>8, <2>2
    <3> QED
      BY <3>1
  <2> HIDE DEF T, len
  <2>3. \A k \in 0..len : k \in T
    BY <1>1, <2>1, <2>2, UpTo
  <2> QED
    BY <1>1, <2>3
<1>10. Sent(o, mpdus) = after[len]
  BY DEF Sent, after, TakenOff
<1>11. after[len] \in S
  BY <1>9
<1> QED
  BY <1>10, <1>11

\* SendPsdu: the queue, the in flight queue and the numbers.
LEMMA SentOK ==
  ASSUME FewPackets, NEW base, NEW sent, NEW next, NEW n, Numbering(base, sent, next, n),
         NEW nextSeq \in SeqNos, next = Position(nextSeq, base),
         NEW o, NEW A, OriginatorOK(o, A, base, sent, next, n),
         NEW C \in SUBSET o.queue, \A e \in o.queue : e.seq = NoSeq => e \in C,
         NEW mpdus \in Prefixes(Numbered(C, nextSeq)),
         Established(o) => \A m \in mpdus : IsInWindow(m.seq, o.window.m_winStart)
  PROVE  LET p == Sent(o, mpdus)
             more == sent \cup mpdus
             later == next + Cardinality(Fresh(C, mpdus))
         IN  /\ OriginatorOK(p, A, base, more, later, n)
             /\ TransmitOK(o, A, base) => TransmitOK(p, A, base)
             /\ p.state = o.state /\ p.request = o.request /\ p.window = o.window
             /\ p.queue = Flying(o.queue, mpdus) /\ p.bar = o.bar /\ p.barIfData = o.barIfData
<1> DEFINE more == sent \cup mpdus
           k == Cardinality(Fresh(C, mpdus))
           later == next + k
           queue == Flying(o.queue, mpdus)
           q == [o EXCEPT !.queue = queue]
           p == Sent(o, mpdus)
<1>1. o.queue \in SUBSET Elements /\ QueueOK(o.queue, sent, next, n) /\ IdsOf(A) \cap IdsOf(o.queue) = {}
  BY DEF OriginatorOK, Originators
<1>2. C \in SUBSET Elements /\ QueueOK(C, sent, next, n)
  BY <1>1, QueueSubset
<1>3. k \in Nat /\ \A m \in mpdus : m.id \in IdsOf(o.queue)
  <2>1. k \in Nat /\ \A m \in mpdus : \E e \in C : e.id = m.id
    BY <1>2, NumberedIs
  <2> QED
    BY <2>1 DEF IdsOf
<1>4. Numbering(base, more, later, n)
  BY <1>2, NumberingOK
<1>5. queue \in SUBSET Elements /\ IdsOf(queue) = IdsOf(o.queue) /\ QueueOK(queue, more, later, n)
  BY <1>1, FlyingOK
<1>6. base \in SeqNos /\ next \in Nat /\ later \in Nat /\ next <= later /\ sent \subseteq more
      /\ q = [o EXCEPT !.queue = queue]
  <2>1. base \in SeqNos /\ next \in 0..n /\ n \in 0..MaxMpdus
    BY DEF Numbering
  <2> HIDE DEF k
  <2> QED
    BY <1>3, <2>1, MpdusAssumption
<1> HIDE DEF later, more, queue, k, q
<1>7. /\ OriginatorOK(q, A, base, more, later, n)
      /\ TransmitOK(o, A, base) => TransmitOK(q, A, base)
      /\ q.state = o.state /\ q.window = o.window /\ q.request = o.request /\ q.queue = queue
  BY <1>5, <1>6, MoreSentOK
<1>8. mpdus \cap A = {} /\ mpdus \in SUBSET more
  BY <1>1, <1>3 DEF IdsOf, more
<1>9. Established(q) => \A m \in mpdus : IsInWindow(m.seq, q.window.m_winStart)
  BY <1>7 DEF Established
<1>10. q = TakenOff(o, mpdus)
  BY DEF queue, q, TakenOff
<1>12. q.bar = o.bar /\ q.barIfData = o.barIfData
  BY DEF q, OriginatorOK, Originators
<1>11. /\ After(p, q, A, base, more, later, n) /\ p.window = q.window /\ p.queue = q.queue
       /\ p.bar = q.bar /\ p.barIfData = q.barIfData
  <2>1. /\ FewPackets /\ Numbering(base, more, later, n) /\ OriginatorOK(q, A, base, more, later, n)
        /\ mpdus \in SUBSET more /\ q = TakenOff(o, mpdus) /\ mpdus \cap A = {}
        /\ Established(q) => \A m \in mpdus : IsInWindow(m.seq, q.window.m_winStart)
    BY <1>4, <1>7, <1>8, <1>9, <1>10
  <2> QED
    BY <2>1, StoredOK
<1> HIDE DEF p
<1> QED
  BY <1>7, <1>11, <1>12 DEF After, later, more, queue, k, p

-----------------------------------------------------------------------------
(* The scoreboard of the recipient.                                         *)

\* The window has a number at this position, and its bit is set.
Has(w, base, p) ==
    LET start == Position(w.m_winStart, base)
    IN  start <= p /\ p < start + BufferSize /\ At(w, p - start)

\* Advance clears what leaves the window and keeps the rest.
LEMMA AdvancedHas ==
  ASSUME NEW base \in SeqNos, NEW w \in Windows, NEW n \in Nat,
         Position(w.m_winStart, base) + n < SeqSpace
  PROVE  LET v == Advance(w, n)
             start == Position(w.m_winStart, base)
         IN  /\ v \in Windows /\ Position(v.m_winStart, base) = start + n
             /\ \A p \in Nat : Has(v, base, p) <=> start + n <= p /\ Has(w, base, p)
<1> DEFINE v == Advance(w, n)
           start == Position(w.m_winStart, base)
<1>1. start \in Nat /\ w.m_winStart \in SeqNos
  BY PositionType DEF Windows
<1>2. /\ v \in Windows /\ v.m_winStart = SeqPlus(w.m_winStart, n)
      /\ \A d \in Slots : At(v, d) <=> (d + n < BufferSize /\ At(w, d + n))
  BY AdvanceIs
<1> HIDE DEF v
<1>3. Position(v.m_winStart, base) = start + n
  BY <1>1, <1>2, PositionPlus
<1>4. ASSUME NEW p \in Nat
      PROVE  Has(v, base, p) <=> start + n <= p /\ Has(w, base, p)
  <2>1. CASE start + n <= p /\ p < start + n + BufferSize
    <3> DEFINE d == p - (start + n)
    <3>1. d \in Slots /\ d + n = p - start
      BY <1>1, <2>1, SlotsIn DEF Slots
    <3>2. Has(v, base, p) <=> At(v, d)
      BY <1>3, <2>1 DEF Has
    <3>3. At(v, d) <=> p - start < BufferSize /\ At(w, p - start)
      BY <1>2, <3>1
    <3> HIDE DEF d
    <3>4. p - start < BufferSize <=> p < start + BufferSize
      BY <1>1, SlotsIn
    <3>5. start <= p
      BY <1>1, <2>1
    <3> QED
      BY <2>1, <3>2, <3>3, <3>4, <3>5 DEF Has
  <2>2. CASE ~(start + n <= p)
    BY <1>3, <2>2 DEF Has
  <2>3. CASE start + n <= p /\ ~(p < start + n + BufferSize)
    <3>1. ~(p < start + BufferSize)
      BY <1>1, <2>3, SlotsIn
    <3> QED
      BY <1>3, <2>3, <3>1 DEF Has
  <2> QED
    BY <2>1, <2>2, <2>3
<1> QED
  BY <1>2, <1>3, <1>4 DEF v

\* A bit that is set is that of one number.
LEMMA SetHas ==
  ASSUME NEW base \in SeqNos, NEW w \in Windows, NEW d \in Slots
  PROVE  LET v == SetAt(w, d)
             start == Position(w.m_winStart, base)
         IN  /\ v \in Windows /\ v.m_winStart = w.m_winStart
             /\ \A p \in Nat : Has(v, base, p) <=> Has(w, base, p) \/ p = start + d
<1> DEFINE v == SetAt(w, d)
           start == Position(w.m_winStart, base)
<1>1. start \in Nat /\ d \in Nat /\ d < BufferSize
  BY PositionType, SlotsIn DEF Windows
<1>2. /\ v \in Windows /\ v.m_winStart = w.m_winStart
      /\ \A e \in Slots : At(v, e) <=> (e = d \/ At(w, e))
  BY SetAtIs
<1> HIDE DEF v
<1>3. ASSUME NEW p \in Nat
      PROVE  Has(v, base, p) <=> Has(w, base, p) \/ p = start + d
  <2>1. CASE start <= p /\ p < start + BufferSize
    <3>1. p - start \in Slots /\ (p - start = d <=> p = start + d)
      BY <1>1, <2>1, SlotsIn DEF Slots
    <3> QED
      BY <1>2, <2>1, <3>1 DEF Has
  <2>2. CASE ~(start <= p /\ p < start + BufferSize)
    <3>1. p # start + d
      BY <1>1, <2>2, SlotsIn
    <3> QED
      BY <1>2, <2>2, <3>1 DEF Has
  <2> QED
    BY <2>1, <2>2
<1> QED
  BY <1>2, <1>3 DEF v

\* An MPDU at this position is marked, and the window ends with it if it was beyond.
LEMMA ScoredIs ==
  ASSUME FewPackets, NEW base \in SeqNos, NEW w \in Windows, NEW seq \in SeqNos,
         Position(w.m_winStart, base) <= MaxMpdus, Position(seq, base) <= MaxMpdus
  PROVE  LET v == Scored(w, seq)
             start == Position(w.m_winStart, base)
             vstart == Position(v.m_winStart, base)
             s == Position(seq, base)
         IN  /\ v \in Windows
             /\ s < start => v = w
             /\ start <= s =>
                   /\ vstart = IF s < start + BufferSize THEN start ELSE s - BufferSize + 1
                   /\ \A p \in Nat : Has(v, base, p) <=> vstart <= p /\ (Has(w, base, p) \/ p = s)
<1> DEFINE v == Scored(w, seq)
           start == Position(w.m_winStart, base)
           vstart == Position(v.m_winStart, base)
           s == Position(seq, base)
           distance == Distance(seq, w.m_winStart)
<1>1. start \in Nat /\ w.m_winStart \in SeqNos /\ s \in Nat
  BY PositionType DEF Windows
<1>2. /\ distance = IF s >= start THEN s - start ELSE s - start + SeqSpace
      /\ IsOld(seq, w.m_winStart) <=> s < start
  BY <1>1, DistancePosition
<1>3. v = IF distance < BufferSize THEN SetAt(w, distance)
          ELSE IF ~IsOld(seq, w.m_winStart)
               THEN SetAt(Advance(w, distance - BufferSize + 1), BufferSize - 1)
               ELSE w
  BY DEF Scored
<1> HIDE DEF v, distance, s, start
<1>4. start <= MaxMpdus /\ s <= MaxMpdus
  BY DEF start, s
<1>5. CASE s < start
  <2>1. ~(distance < BufferSize)
    BY <1>1, <1>2, <1>4, <1>5, FewPacketsIs
  <2>2. v = w
    BY <1>2, <1>3, <1>5, <2>1
  <2> QED
    BY <1>1, <1>5, <2>2 DEF v, s, start
<1>6. CASE start <= s /\ s < start + BufferSize
  <2>1. distance = s - start /\ distance \in Slots /\ distance < BufferSize
    BY <1>1, <1>2, <1>6, SlotsIn DEF Slots
  <2>2. v = SetAt(w, distance) /\ start + distance = s
    BY <1>1, <1>3, <2>1
  <2>3. /\ v \in Windows /\ v.m_winStart = w.m_winStart
        /\ \A p \in Nat : Has(v, base, p) <=> Has(w, base, p) \/ p = s
    BY <2>1, <2>2, SetHas DEF start
  <2>4. vstart = start
    BY <2>3 DEF start
  <2>5. \A p \in Nat : (Has(w, base, p) => start <= p) /\ (p = s => start <= p)
    BY <1>6 DEF Has, start
  <2>6. ~(s < start)
    BY <1>1, <1>6
  <2> QED
    BY <1>6, <2>3, <2>4, <2>5, <2>6 DEF v, s, start
<1>7. CASE start <= s /\ ~(s < start + BufferSize)
  <2> DEFINE n == distance - BufferSize + 1
             u == Advance(w, n)
             last == BufferSize - 1
  <2>1. n \in Nat /\ last \in Slots /\ start + n = s - BufferSize + 1 /\ start + n < SeqSpace
        /\ (start + n) + last = s /\ ~(distance < BufferSize)
    <3>1. distance = s - start
      BY <1>1, <1>2, <1>7
    <3> QED
      BY <1>1, <1>4, <1>7, <3>1, SlotsIn, FewPacketsIs DEF Slots
  <2>2. v = SetAt(u, last)
    BY <1>1, <1>2, <1>3, <1>7, <2>1
  <2> HIDE DEF n, last
  <2>3. /\ u \in Windows /\ Position(u.m_winStart, base) = start + n
        /\ \A p \in Nat : Has(u, base, p) <=> start + n <= p /\ Has(w, base, p)
    BY <2>1, AdvancedHas DEF start
  <2> HIDE DEF u
  <2>4. /\ v \in Windows /\ v.m_winStart = u.m_winStart
        /\ \A p \in Nat : Has(v, base, p) <=> Has(u, base, p) \/ p = s
    BY <2>1, <2>2, <2>3, SetHas
  <2>5. vstart = s - BufferSize + 1 /\ vstart = start + n
    BY <2>1, <2>3, <2>4
  <2>6. vstart <= s /\ ~(s < start)
    BY <1>1, <1>7, <2>5, SlotsIn
  <2>7. \A p \in Nat : Has(v, base, p) <=> vstart <= p /\ (Has(w, base, p) \/ p = s)
    <3> HIDE DEF vstart
    <3> QED
      BY <2>3, <2>4, <2>5, <2>6
  <2> QED
    BY <1>7, <2>4, <2>5, <2>6, <2>7 DEF v, s, start
<1> QED
  BY <1>1, <1>5, <1>6, <1>7

\* After a BlockAckReq the window starts with its number, if that is later.
LEMMA ScoredBarIs ==
  ASSUME FewPackets, NEW base \in SeqNos, NEW w \in Windows, NEW seq \in SeqNos,
         Position(w.m_winStart, base) <= MaxMpdus, Position(seq, base) <= MaxMpdus
  PROVE  LET v == ScoredBar(w, seq)
             start == Position(w.m_winStart, base)
             vstart == Position(v.m_winStart, base)
             s == Position(seq, base)
         IN  /\ v \in Windows /\ vstart = IF s < start THEN start ELSE s
             /\ \A p \in Nat : Has(v, base, p) <=> vstart <= p /\ Has(w, base, p)
<1> DEFINE v == ScoredBar(w, seq)
           start == Position(w.m_winStart, base)
           vstart == Position(v.m_winStart, base)
           s == Position(seq, base)
           distance == Distance(seq, w.m_winStart)
<1>1. start \in Nat /\ w.m_winStart \in SeqNos /\ s \in Nat
  BY PositionType DEF Windows
<1>2. /\ distance = IF s >= start THEN s - start ELSE s - start + SeqSpace
      /\ IsOld(seq, w.m_winStart) <=> s < start
  BY <1>1, DistancePosition
<1>3. v = IF distance > 0 /\ distance < BufferSize THEN Advance(w, distance)
          ELSE IF distance > 0 /\ ~IsOld(seq, w.m_winStart) THEN NewWindow(seq) ELSE w
  BY DEF ScoredBar
<1> HIDE DEF v, distance, s, start
<1>4. start <= MaxMpdus /\ s <= MaxMpdus
  BY DEF start, s
<1>5. CASE s <= start
  <2>1. ~(distance > 0 /\ distance < BufferSize) /\ ~(distance > 0 /\ ~IsOld(seq, w.m_winStart))
    BY <1>1, <1>2, <1>4, <1>5, FewPacketsIs
  <2>2. v = w
    BY <1>3, <2>1
  <2>3. \A p \in Nat : Has(w, base, p) => start <= p
    BY DEF Has, start
  <2>4. start = IF s < start THEN start ELSE s
    BY <1>1, <1>5
  <2> QED
    BY <2>2, <2>3, <2>4 DEF v, s, start
<1>6. CASE start < s /\ s < start + BufferSize
  <2>1. distance = s - start /\ distance > 0 /\ distance < BufferSize /\ distance \in Nat
    BY <1>1, <1>2, <1>6, SlotsIn
  <2>2. v = Advance(w, distance) /\ start + distance = s /\ start + distance < SeqSpace
    BY <1>1, <1>3, <1>4, <2>1, FewPacketsIs
  <2>3. /\ v \in Windows /\ vstart = start + distance
        /\ \A p \in Nat : Has(v, base, p) <=> start + distance <= p /\ Has(w, base, p)
    BY <2>1, <2>2, AdvancedHas DEF start
  <2>4. ~(s < start) /\ vstart = s
    BY <1>1, <1>6, <2>2, <2>3
  <2> QED
    BY <2>2, <2>3, <2>4 DEF v, s, start
<1>7. CASE start < s /\ ~(s < start + BufferSize)
  <2>1. distance = s - start /\ distance > 0 /\ ~(distance < BufferSize)
    BY <1>1, <1>2, <1>7, SlotsIn
  <2>2. ~IsOld(seq, w.m_winStart)
    BY <1>1, <1>2, <1>7
  <2>3. v = NewWindow(seq)
    BY <1>3, <2>1, <2>2
  <2>4. v \in Windows /\ v.m_winStart = seq /\ \A d \in Slots : ~At(v, d)
    BY <2>3, NewWindowType DEF NewWindow
  <2>5. vstart = s
    BY <2>4 DEF s
  <2>6. ASSUME NEW p \in Nat
        PROVE  ~Has(v, base, p) /\ ~(s <= p /\ Has(w, base, p))
    <3>1. ~(s <= p /\ p < start + BufferSize)
      BY <1>1, <1>7, SlotsIn
    <3>2. s <= p /\ p < s + BufferSize => p - s \in Slots
      BY <1>1, SlotsIn DEF Slots
    <3> QED
      BY <2>4, <2>5, <3>1, <3>2 DEF Has, start
  <2>7. ~(s < start)
    BY <1>1, <1>7
  <2> QED
    BY <2>4, <2>5, <2>6, <2>7 DEF v, s, start
<1> QED
  BY <1>1, <1>5, <1>6, <1>7

-----------------------------------------------------------------------------
(* What is passed up.                                                       *)

\* A list of these MPDUs in the order of their positions: f is one.
Ordered(f, mpdus, base) ==
    /\ f \in [1..Cardinality(mpdus) -> mpdus]
    /\ \A i, j \in 1..Cardinality(mpdus) : i < j => Position(f[i].seq, base) < Position(f[j].seq, base)

\* Finitely many MPDUs can be put in the order of their numbers.
LEMMA OrderedExists ==
  ASSUME NEW base, NEW sent, NEW next, NEW n, Numbering(base, sent, next, n),
         NEW mpdus \in SUBSET sent
  PROVE  IsFiniteSet(mpdus) /\ \E f : Ordered(f, mpdus, base)
<1> DEFINE pos(m) == Position(m.seq, base)
           T == {k \in Nat : \A M \in SUBSET sent :
                    IsFiniteSet(M) /\ Cardinality(M) = k => \E f : Ordered(f, M, base)}
<1>0. n \in Nat /\ next \in Nat
  BY MpdusAssumption DEF Numbering
<1>1. ASSUME NEW M \in SUBSET sent
      PROVE  IsFiniteSet(M) /\ Cardinality(M) \in Nat
  <2>1. \A x \in M : x.id \in 0..n - 1
    BY <1>0, SentIs DEF Numbering
  <2>2. \A x, y \in M : x.id = y.id => x = y
    BY SentOnce
  <2> QED
    BY <1>0, <2>1, <2>2, IdsBetween
<1>2. \A x \in sent : pos(x) \in Nat /\ pos(x) < next
  BY SentIs
<1>3. ASSUME NEW k \in Nat, \A j \in Nat : j < k => j \in T
      PROVE  k \in T
  <2> SUFFICES ASSUME NEW M \in SUBSET sent, Cardinality(M) = k
               PROVE  \E f : Ordered(f, M, base)
    OBVIOUS
  <2>1. CASE M = {}
    <3> DEFINE f == [i \in 1..0 |-> i]
    <3>1. Cardinality(M) = 0
      BY <2>1, FS_EmptySet
    <3>2. f \in [1..Cardinality(M) -> M] /\ 1..Cardinality(M) = {}
      BY <2>1, <3>1
    <3> HIDE DEF f
    <3>3. Ordered(f, M, base)
      BY <3>2 DEF Ordered
    <3> QED
      BY <3>3
  <2>2. CASE M # {}
    <3> DEFINE P == {next - pos(x) : x \in M}
    <3>1. P \in SUBSET Nat /\ P # {}
      <4>1. \A x \in M : next - pos(x) \in Nat
        BY <1>0, <1>2
      <4> QED
        BY <2>2, <4>1
    <3> HIDE DEF P
    <3>2. PICK least \in P : \A p \in P : least <= p
      BY <3>1, Least
    <3>3. PICK x \in M : least = next - pos(x)
      BY DEF P
    <3>4. \A y \in M : pos(y) <= pos(x)
      <4> SUFFICES ASSUME NEW y \in M
                   PROVE  pos(y) <= pos(x)
        OBVIOUS
      <4>1. next - pos(x) <= next - pos(y)
        BY <3>2, <3>3 DEF P
      <4>2. pos(x) \in Nat /\ pos(y) \in Nat
        BY <1>2
      <4> QED
        BY <1>0, <4>1, <4>2
    <3> DEFINE L == M \ {x}
    <3>5. IsFiniteSet(M) /\ Cardinality(L) = k - 1 /\ k >= 1 /\ IsFiniteSet(L) /\ L \in SUBSET sent
      <4>1. IsFiniteSet(M) /\ IsFiniteSet(L) /\ Cardinality(L) \in Nat
        BY <1>1
      <4>2. Cardinality(M) = Cardinality(L) + 1
        <5>1. L \cup {x} = M /\ x \notin L
          OBVIOUS
        <5> HIDE DEF L
        <5>2. Cardinality(L \cup {x}) = Cardinality(L) + 1
          BY <4>1, <5>1, FS_AddElement
        <5> QED
          BY <5>1, <5>2
      <4> HIDE DEF L
      <4>3. Cardinality(L) = k - 1 /\ k >= 1
        BY <4>1, <4>2
      <4>4. L \in SUBSET sent
        BY DEF L
      <4> QED
        BY <4>1, <4>3, <4>4
    <3>6. \A y \in L : pos(y) < pos(x)
      <4> SUFFICES ASSUME NEW y \in L
                   PROVE  pos(y) < pos(x)
        OBVIOUS
      <4>1. pos(y) # pos(x)
        BY SentOnce
      <4>2. pos(y) <= pos(x) /\ pos(x) \in Nat /\ pos(y) \in Nat
        BY <1>2, <3>4
      <4> QED
        BY <4>1, <4>2
    <3>7. L \subseteq M /\ x \in M
      OBVIOUS
    <3> HIDE DEF L
    <3>8. PICK g : Ordered(g, L, base)
      <4>1. k - 1 \in Nat /\ k - 1 < k
        BY <3>5
      <4>2. k - 1 \in T
        BY <1>3, <4>1
      <4> QED
        BY <3>5, <4>2
    <3>9. /\ g \in [1..k - 1 -> L]
          /\ \A i, j \in 1..k - 1 : i < j => pos(g[i]) < pos(g[j])
      BY <3>5, <3>8 DEF Ordered
    <3> DEFINE f == [i \in 1..k |-> IF i = k THEN x ELSE g[i]]
    <3>10. \A i \in 1..k : i # k => i \in 1..k - 1
      OBVIOUS
    <3>11. f \in [1..k -> M]
      BY <3>7, <3>9, <3>10
    <3>12. \A i, j \in 1..k : i < j => pos(f[i]) < pos(f[j])
      <4> SUFFICES ASSUME NEW i \in 1..k, NEW j \in 1..k, i < j
                   PROVE  pos(f[i]) < pos(f[j])
        OBVIOUS
      <4>1. i \in 1..k - 1 /\ f[i] = g[i] /\ g[i] \in L
        BY <3>9
      <4>2. CASE j = k
        <5>1. f[j] = x
          BY <4>2
        <5> HIDE DEF f
        <5> QED
          BY <3>6, <4>1, <5>1
      <4>3. CASE j # k
        <5>1. j \in 1..k - 1 /\ f[j] = g[j]
          BY <4>3
        <5> HIDE DEF f
        <5> QED
          BY <3>9, <4>1, <5>1
      <4> QED
        BY <4>2, <4>3
    <3> HIDE DEF f
    <3>13. Ordered(f, M, base)
      BY <3>11, <3>12 DEF Ordered
    <3> QED
      BY <3>13
  <2> QED
    BY <2>1, <2>2
<1> HIDE DEF T
<1>4. Nat \subseteq T
  BY <1>3, Induction
<1>5. IsFiniteSet(mpdus) /\ Cardinality(mpdus) \in T
  BY <1>1, <1>4
<1> QED
  BY <1>5 DEF T

\* The list that m_bufferedMpdus is traversed as.
LEMMA SortedIs ==
  ASSUME FewPackets, NEW base, NEW sent, NEW next, NEW n, Numbering(base, sent, next, n),
         NEW r, r.m_winStartB \in SeqNos, Position(r.m_winStartB, base) <= MaxMpdus,
         NEW mpdus \in SUBSET sent,
         \A m \in mpdus : Position(r.m_winStartB, base) <= Position(m.seq, base)
  PROVE  LET list == Sorted(r, mpdus)
         IN  list \in Seq(Mpdus) /\ Members(list) = mpdus /\ Ascending(list, base)
<1> DEFINE k == Cardinality(mpdus)
           startB == r.m_winStartB
           pos(m) == Position(m.seq, base)
           dist(m) == Distance(m.seq, r.m_winStartB)
           list == Sorted(r, mpdus)
<1>1. base \in SeqNos /\ sent \subseteq Mpdus /\ next \in 0..MaxMpdus /\ MaxMpdus \in Nat
  <2>1. base \in SeqNos /\ sent \subseteq Mpdus /\ next \in 0..n /\ n \in 0..MaxMpdus
    BY DEF Numbering
  <2> QED
    BY <2>1, MpdusAssumption
<1>2. \A m \in mpdus : pos(m) \in Nat /\ dist(m) = pos(m) - Position(startB, base)
  <2> SUFFICES ASSUME NEW m \in mpdus
               PROVE  pos(m) \in Nat /\ dist(m) = pos(m) - Position(startB, base)
    OBVIOUS
  <2>1. m \in sent /\ m.seq \in SeqNos /\ pos(m) \in Nat /\ pos(m) < next
    BY SentIs
  <2>2. Position(m.seq, base) <= MaxMpdus
    BY <1>1, <2>1
  <2>3. Distance(m.seq, startB) = Position(m.seq, base) - Position(startB, base)
    BY <1>1, <2>1, <2>2, DistanceFromStart
  <2> QED
    BY <2>1, <2>3
<1>3. Position(startB, base) \in Nat
  BY <1>1, PositionType
<1>4. IsFiniteSet(mpdus) /\ k \in Nat /\ \E f : Ordered(f, mpdus, base)
  <2>1. IsFiniteSet(mpdus) /\ \E f : Ordered(f, mpdus, base)
    BY OrderedExists
  <2> QED
    BY <2>1, FS_CardinalityType
<1> HIDE DEF k
<1>5. \E f \in [1..k -> mpdus] : \A i, j \in DOMAIN f : i < j => dist(f[i]) < dist(f[j])
  <2>1. PICK f : Ordered(f, mpdus, base)
    BY <1>4
  <2>2. f \in [1..k -> mpdus] /\ DOMAIN f = 1..k
        /\ \A i, j \in 1..k : i < j => pos(f[i]) < pos(f[j])
    BY <2>1 DEF Ordered, k
  <2> HIDE DEF pos, dist
  <2>3. \A i, j \in 1..k : i < j => dist(f[i]) < dist(f[j])
    BY <1>2, <1>3, <2>2
  <2> QED
    BY <2>2, <2>3
<1>6. list \in [1..k -> mpdus] /\ \A i, j \in DOMAIN list : i < j => dist(list[i]) < dist(list[j])
  BY <1>5 DEF Sorted, k
<1> HIDE DEF list
<1>7. list \in [1..k -> mpdus] /\ DOMAIN list = 1..k
      /\ \A i, j \in 1..k : i < j => pos(list[i]) < pos(list[j])
  <2> HIDE DEF pos, dist
  <2> QED
    BY <1>2, <1>3, <1>6
<1>8. list \in Seq(Mpdus)
  <2>1. list \in [1..k -> Mpdus]
    BY <1>1, <1>7
  <2> QED
    BY <1>4, <2>1, SeqDef
<1>9. Ascending(list, base)
  BY <1>7 DEF Ascending
<1>10. Members(list) = mpdus
  <2>1. \A i, j \in 1..k : list[i] = list[j] => i = j
    <3> SUFFICES ASSUME NEW i \in 1..k, NEW j \in 1..k, list[i] = list[j], i # j
                 PROVE  FALSE
      OBVIOUS
    <3>1. pos(list[i]) \in Nat
      BY <1>2, <1>7
    <3>2. i < j \/ j < i
      BY <1>4
    <3> HIDE DEF pos
    <3> QED
      BY <1>7, <3>1, <3>2
  <2>2. list \in Injection(1..k, mpdus)
    BY <1>7, <2>1 DEF Injection, IsInjective
  <2>3. Cardinality(1..k) = k
    <3>1. Cardinality(1..k) = IF 1 > k THEN 0 ELSE k - 1 + 1
      BY <1>4, FS_Interval
    <3> QED
      BY <1>4, <3>1
  <2>4. list \in Surjection(1..k, mpdus)
    BY <1>4, <2>2, <2>3, FS_Injection DEF k
  <2>5. \A m \in mpdus : \E i \in 1..k : list[i] = m
    BY <2>4 DEF Surjection
  <2> QED
    BY <1>7, <2>5 DEF Members
<1> QED
  BY <1>8, <1>9, <1>10 DEF list

\* MacRxMiddle::Receive drops a duplicate of the last MPDU, and only that.
LEMMA ReceiveOK ==
  ASSUME NEW base, NEW sent, NEW next, NEW n, Numbering(base, sent, next, n),
         NEW passed \in Seq(Mpdus), NEW list \in Seq(Mpdus),
         Members(passed) \subseteq sent, Members(list) \subseteq sent,
         Ascending(passed, base), Ascending(list, base),
         \A x \in Members(passed), y \in Members(list) :
            Position(x.seq, base) <= Position(y.seq, base)
  PROVE  LET r == Receive(passed, list)
         IN  /\ r \in Seq(Mpdus) /\ Members(r) = Members(passed) \cup Members(list)
             /\ Ascending(r, base)
<1> DEFINE pos(m) == Position(m.seq, base)
           p == Len(passed)
           duplicate == passed # <<>> /\ list # <<>> /\ passed[p].seq = Head(list).seq
           r == Receive(passed, list)
<1>1. r = IF duplicate THEN passed \o Tail(list) ELSE passed \o list
  BY DEF Receive
<1>2. base \in SeqNos
  BY DEF Numbering
<1>3. /\ p \in Nat /\ DOMAIN passed = 1..p /\ \A i \in 1..p : passed[i] \in Members(passed)
      /\ Len(list) \in Nat /\ DOMAIN list = 1..Len(list)
      /\ \A j \in 1..Len(list) : list[j] \in Members(list)
  BY MembersIn
<1>4. \A x \in sent : pos(x) \in Nat
  BY SentIs
<1>5. CASE duplicate
  <2> DEFINE tail == Tail(list)
             a == passed
  <2>1. Head(list) = list[1] /\ Len(list) >= 1 /\ p >= 1
    BY <1>3, <1>5, EmptySeq
  <2>2. /\ tail \in Seq(Mpdus) /\ Len(tail) = Len(list) - 1
        /\ \A i \in 1..Len(list) - 1 : tail[i] = list[i + 1]
    BY <1>5
  <2> HIDE DEF tail
  <2>3. DOMAIN tail = 1..Len(list) - 1 /\ \A i \in 1..Len(list) - 1 : i + 1 \in 1..Len(list)
    BY <1>3, <2>2, LenProperties
  <2>4. passed[p] = list[1]
    <3>1. passed[p] \in sent /\ list[1] \in sent /\ passed[p].seq = list[1].seq
      BY <1>3, <1>5, <2>1
    <3> QED
      BY <3>1, SentOnce
  <2>5. Members(tail) \subseteq Members(list) /\ Ascending(tail, base)
    <3>1. Members(tail) \subseteq Members(list)
      BY <1>3, <2>2, <2>3 DEF Members
    <3>2. \A i, j \in DOMAIN tail : i < j => pos(tail[i]) < pos(tail[j])
      <4> SUFFICES ASSUME NEW i \in 1..Len(list) - 1, NEW j \in 1..Len(list) - 1, i < j
                   PROVE  pos(tail[i]) < pos(tail[j])
        BY <2>3
      <4>1. i + 1 \in DOMAIN list /\ j + 1 \in DOMAIN list /\ i + 1 < j + 1
        BY <1>3
      <4>2. pos(list[i + 1]) < pos(list[j + 1])
        BY <4>1 DEF Ascending
      <4> QED
        BY <2>2, <4>2
    <3> QED
      BY <3>1, <3>2 DEF Ascending
  <2>6. Members(list) = Members(tail) \cup {list[1]}
    <3>1. \A j \in 1..Len(list) : j = 1 \/ (j - 1 \in DOMAIN tail /\ list[j] = tail[j - 1])
      BY <1>3, <2>2, <2>3
    <3>2. Members(list) \subseteq Members(tail) \cup {list[1]}
      BY <1>3, <3>1 DEF Members
    <3> QED
      BY <1>3, <2>1, <2>5, <3>2
  <2>7. ASSUME NEW x \in Members(passed), NEW y \in Members(tail)
        PROVE  pos(x) < pos(y)
    <3>1. PICK j \in 1..Len(list) - 1 : y = tail[j]
      BY <2>3 DEF Members
    <3>2. 1 \in DOMAIN list /\ j + 1 \in DOMAIN list /\ 1 < j + 1
      BY <1>3, <2>1
    <3>3. pos(list[1]) < pos(y)
      BY <2>2, <3>1, <3>2 DEF Ascending
    <3>4. pos(x) <= pos(list[1]) /\ pos(x) \in Nat /\ pos(list[1]) \in Nat /\ pos(y) \in Nat
      BY <1>3, <1>4, <2>1, <2>5
    <3> QED
      BY <3>3, <3>4
  <2>8. /\ r \in Seq(Mpdus) /\ Members(r) = Members(passed) \cup Members(tail)
        /\ Ascending(r, base)
    <3>1. r = passed \o tail
      BY <1>1, <1>5 DEF tail
    <3> HIDE DEF r
    <3> QED
      BY <1>2, <2>2, <2>5, <2>7, <3>1, JoinedAscending
  <2> QED
    BY <1>3, <2>1, <2>4, <2>6, <2>8
<1>6. CASE ~duplicate
  <2>1. ASSUME NEW x \in Members(passed), NEW y \in Members(list)
        PROVE  pos(x) < pos(y)
    <3> SUFFICES ASSUME ~(pos(x) < pos(y))
                 PROVE  FALSE
      OBVIOUS
    <3>1. PICK i \in 1..p : x = passed[i]
      BY <1>3 DEF Members
    <3>2. PICK j \in 1..Len(list) : y = list[j]
      BY <1>3 DEF Members
    <3>3. pos(x) \in Nat /\ pos(y) \in Nat /\ pos(x) = pos(y)
      <4>1. pos(x) \in Nat /\ pos(y) \in Nat /\ pos(x) <= pos(y)
        BY <1>4
      <4> QED
        BY <4>1
    <3>4. x = y
      BY <3>3, SentOnce
    <3>5. i = p
      <4> SUFFICES ASSUME i < p
                   PROVE  FALSE
        <5>1. i \in 1..p /\ p \in Nat
          BY <1>3
        <5> HIDE DEF p
        <5> QED
          BY <5>1
      <4>1. p \in 1..p /\ pos(passed[i]) < pos(passed[p])
        BY <1>3 DEF Ascending
      <4>2. passed[p] \in Members(passed) /\ pos(passed[p]) <= pos(y) /\ pos(passed[p]) \in Nat
        BY <1>3, <1>4, <4>1
      <4> QED
        BY <3>1, <3>3, <4>1, <4>2
    <3>6. j = 1
      <4> SUFFICES ASSUME 1 < j
                   PROVE  FALSE
        BY <1>3
      <4>1. 1 \in 1..Len(list) /\ pos(list[1]) < pos(list[j])
        BY <1>3 DEF Ascending
      <4>2. list[1] \in Members(list) /\ pos(x) <= pos(list[1]) /\ pos(list[1]) \in Nat
        BY <1>3, <1>4, <4>1
      <4> QED
        BY <3>2, <3>3, <4>1, <4>2
    <3>7. passed # <<>> /\ list # <<>> /\ Head(list) = list[1]
      BY <1>3, <3>1, <3>2
    <3> QED
      BY <1>6, <3>1, <3>2, <3>4, <3>5, <3>6, <3>7
  <2>2. r = passed \o list
    BY <1>1, <1>6
  <2> HIDE DEF r, duplicate
  <2>3. /\ r \in Seq(Mpdus) /\ Members(r) = Members(passed) \cup Members(list)
        /\ (\A x \in Members(passed), y \in Members(list) : pos(x) < pos(y)) => Ascending(r, base)
    BY <1>2, <2>2, JoinedAscending
  <2> QED
    BY <2>1, <2>3 DEF r
<1> QED
  BY <1>5, <1>6

\* These MPDUs have left the buffer of r for MacRxMiddle, in order.
PassedUp(p, r, mpdus, winStartB, base) ==
    /\ p \in Recipients /\ p.agreement = r.agreement /\ p.scoreboard = r.scoreboard
    /\ p.m_winStartB = winStartB /\ p.m_bufferedMpdus = r.m_bufferedMpdus \ mpdus
    /\ Members(p.passed) = Members(r.passed) \cup mpdus /\ Ascending(p.passed, base)
    /\ Arrivals(p) = Arrivals(r)

\* PassUp hands them up after those that were handed up before.
LEMMA PassUpOK ==
  ASSUME FewPackets, NEW base, NEW sent, NEW next, NEW n, Numbering(base, sent, next, n),
         NEW r \in Recipients, r.m_winStartB \in SeqNos, Position(r.m_winStartB, base) <= MaxMpdus,
         Arrivals(r) \subseteq sent, Ascending(r.passed, base),
         \A m \in Members(r.passed) : Position(m.seq, base) <= Position(r.m_winStartB, base),
         NEW mpdus \in SUBSET r.m_bufferedMpdus,
         \A m \in mpdus : Position(r.m_winStartB, base) <= Position(m.seq, base),
         NEW winStartB \in 0..Uint16 - 1
  PROVE  PassedUp(PassUp(r, mpdus, winStartB), r, mpdus, winStartB, base)
<1> DEFINE list == Sorted(r, mpdus)
           passed == Receive(r.passed, list)
           p == [r EXCEPT !.m_bufferedMpdus = @ \ mpdus, !.passed = passed,
                          !.m_winStartB = winStartB]
           startB == Position(r.m_winStartB, base)
<1>1. PassUp(r, mpdus, winStartB) = p
  BY DEF PassUp
<1>2. mpdus \subseteq sent /\ Members(r.passed) \subseteq sent /\ r.passed \in Seq(Mpdus)
  BY DEF Arrivals, Recipients
<1>3. list \in Seq(Mpdus) /\ Members(list) = mpdus /\ Ascending(list, base)
  <2>1. mpdus \in SUBSET sent
    BY <1>2
  <2> QED
    BY <2>1, SortedIs
<1> HIDE DEF list
<1>4. passed \in Seq(Mpdus) /\ Members(passed) = Members(r.passed) \cup mpdus
      /\ Ascending(passed, base)
  <2>1. \A x \in Members(r.passed), y \in Members(list) :
            Position(x.seq, base) <= Position(y.seq, base)
    <3> SUFFICES ASSUME NEW x \in Members(r.passed), NEW y \in mpdus
                 PROVE  Position(x.seq, base) <= Position(y.seq, base)
      BY <1>3
    <3>1. Position(x.seq, base) <= startB /\ startB <= Position(y.seq, base)
      OBVIOUS
    <3>2. Position(x.seq, base) \in Nat /\ Position(y.seq, base) \in Nat
      BY <1>2, SentIs
    <3>3. startB \in Nat
      <4>1. base \in SeqNos
        BY DEF Numbering
      <4> QED
        BY <4>1, PositionType
    <3> QED
      BY <3>1, <3>2, <3>3
  <2>2. Members(list) \subseteq sent
    BY <1>2, <1>3
  <2> QED
    BY <1>2, <1>3, <2>1, <2>2, ReceiveOK
<1> HIDE DEF passed
<1>5. /\ p \in Recipients /\ p.agreement = r.agreement /\ p.scoreboard = r.scoreboard
      /\ p.m_winStartB = winStartB /\ p.m_bufferedMpdus = r.m_bufferedMpdus \ mpdus
      /\ p.passed = passed
  BY <1>4 DEF Recipients
<1> HIDE DEF p
<1>6. Arrivals(p) = Arrivals(r)
  BY <1>4, <1>5 DEF Arrivals
<1> QED
  BY <1>1, <1>4, <1>5, <1>6 DEF PassedUp

\* The MPDUs before the first that is lost are buffered.
LEMMA FirstLostIs ==
  ASSUME FewPackets, NEW base, NEW sent, NEW next, NEW n, Numbering(base, sent, next, n),
         NEW r \in Recipients, r.m_winStartB \in SeqNos, Position(r.m_winStartB, base) <= next,
         r.m_bufferedMpdus \subseteq sent
  PROVE  LET first == FirstLost(r)
             startB == Position(r.m_winStartB, base)
         IN  /\ first \in Nat /\ startB + first <= next
             /\ \A d \in 0..first - 1 : \E b \in r.m_bufferedMpdus : Position(b.seq, base) = startB + d
             /\ \A b \in r.m_bufferedMpdus : Position(b.seq, base) # startB + first
<1> DEFINE startB == Position(r.m_winStartB, base)
           buffered(d) == \E b \in r.m_bufferedMpdus : r.m_winStartB + d \in {b.seq, b.seq + SeqSpace}
           there(d) == \E b \in r.m_bufferedMpdus : Position(b.seq, base) = startB + d
           first == FirstLost(r)
<1>1. base \in SeqNos /\ next \in Nat /\ next <= MaxMpdus /\ MaxMpdus \in Nat /\ startB \in Nat
  <2>1. base \in SeqNos /\ next \in 0..n /\ n \in 0..MaxMpdus
    BY DEF Numbering
  <2> QED
    BY <2>1, MpdusAssumption, PositionType
<1>2. \A b \in r.m_bufferedMpdus : b.seq \in SeqNos /\ Position(b.seq, base) \in Nat
                                   /\ Position(b.seq, base) < next
  BY SentIs
<1>3. ASSUME NEW d \in 0..next - startB
      PROVE  buffered(d) <=> there(d)
  <2>1. d \in Nat /\ startB + d < SeqSpace /\ d \in 0..SeqSpace
    BY <1>1, FewPacketsIs
  <2> DEFINE s == SeqPlus(r.m_winStartB, d)
  <2>2. s \in SeqNos /\ s = IF r.m_winStartB + d < SeqSpace THEN r.m_winStartB + d
                            ELSE r.m_winStartB + d - SeqSpace
    BY <2>1, SeqPlusIs, SeqPlusType
  <2>3. Position(s, base) = startB + d
    BY <1>1, <2>1, PositionPlus
  <2> HIDE DEF s
  <2>4. ASSUME NEW b \in r.m_bufferedMpdus
        PROVE  r.m_winStartB + d \in {b.seq, b.seq + SeqSpace} <=> Position(b.seq, base) = startB + d
    <3>1. r.m_winStartB + d \in {b.seq, b.seq + SeqSpace} <=> b.seq = s
      BY <1>2, <2>1, <2>2, WindowAssumption DEF SeqNos
    <3>2. Position(b.seq, base) = startB + d <=> b.seq = s
      BY <1>1, <1>2, <2>2, <2>3, PositionInjective
    <3> QED
      BY <3>1, <3>2
  <2> QED
    BY <2>4
<1> HIDE DEF startB
<1>4. \E k \in 0..next - startB : ~there(k) /\ \A d \in 0..k - 1 : there(d)
  <2> DEFINE T == {k \in Nat : ~there(k)}
  <2>1. next - startB \in T
    <3>1. next - startB \in Nat /\ startB + (next - startB) = next
      BY <1>1 DEF startB
    <3>2. ~there(next - startB)
      BY <1>2, <3>1
    <3> QED
      BY <3>1, <3>2
  <2> HIDE DEF T
  <2>2. PICK k \in T : \A d \in T : k <= d
    <3>1. T \in SUBSET Nat
      BY DEF T
    <3> QED
      BY <2>1, <3>1, Least
  <2>3. k \in Nat /\ ~there(k) /\ k <= next - startB
    BY <2>1, <2>2 DEF T
  <2>4. \A d \in 0..k - 1 : there(d)
    <3> SUFFICES ASSUME NEW d \in 0..k - 1, ~there(d)
                 PROVE  FALSE
      OBVIOUS
    <3>1. d \in Nat /\ d < k
      BY <2>3
    <3>2. d \in T
      BY <3>1 DEF T
    <3> QED
      BY <2>2, <2>3, <3>1, <3>2
  <2> QED
    BY <1>1, <2>3, <2>4
<1> HIDE DEF buffered, there
<1>5. \E k \in 0..SeqSpace : ~buffered(k) /\ \A d \in 0..k - 1 : buffered(d)
  <2>1. PICK k \in 0..next - startB : ~there(k) /\ \A d \in 0..k - 1 : there(d)
    BY <1>4
  <2>2. k \in 0..SeqSpace /\ \A d \in 0..k - 1 : d \in 0..next - startB
    BY <1>1, FewPacketsIs
  <2> QED
    BY <1>3, <2>1, <2>2
<1>6. first \in 0..SeqSpace /\ ~buffered(first) /\ \A d \in 0..first - 1 : buffered(d)
  BY <1>5 DEF FirstLost, buffered
<1> HIDE DEF first
<1>7. first \in Nat /\ first <= next - startB
  <2>1. PICK k \in 0..next - startB : ~there(k) /\ \A d \in 0..k - 1 : there(d)
    BY <1>4
  <2>2. ~buffered(k)
    BY <1>3, <2>1
  <2>3. ~(k \in 0..first - 1)
    BY <1>6, <2>2
  <2> QED
    BY <1>1, <1>6, <2>3, FewPacketsIs
<1>8. startB + first <= next /\ ~there(first) /\ \A d \in 0..first - 1 : there(d)
  <2>1. first \in 0..next - startB /\ \A d \in 0..first - 1 : d \in 0..next - startB
    BY <1>1, <1>7
  <2> QED
    BY <1>1, <1>3, <1>6, <1>7, <2>1
<1> QED
  BY <1>7, <1>8 DEF there, startB, first

-----------------------------------------------------------------------------
(* The agreement of the recipient, with the start of its buffer in the space. *)

Buffering(r, base, sent, next) ==
    LET start == Position(r.scoreboard.m_winStart, base)
        startB == Position(r.m_winStartB, base)
    IN  /\ r \in Recipients /\ r.agreement /\ r.m_winStartB \in SeqNos
        /\ Arrivals(r) \subseteq sent /\ Ascending(r.passed, base)
        /\ start <= startB /\ startB <= start + BufferSize /\ startB <= next
        /\ \A p \in Nat : start <= p /\ p < startB => Has(r.scoreboard, base, p)
        /\ \A m \in r.m_bufferedMpdus :
              /\ startB <= Position(m.seq, base) /\ Position(m.seq, base) < startB + BufferSize
              /\ Has(r.scoreboard, base, Position(m.seq, base))
        /\ \A m \in Members(r.passed) : Position(m.seq, base) <= startB

\* This MPDU is before the start of the buffer, or in it.
Reached(r, x, base) ==
    Position(x.seq, base) < Position(r.m_winStartB, base) \/ x \in r.m_bufferedMpdus

\* The start of the buffer of p is that of r or a later one, and what left the
\* buffer is before it.
MovesUp(p, r, base) ==
    /\ Position(r.m_winStartB, base) <= Position(p.m_winStartB, base)
    /\ \A x \in r.m_bufferedMpdus : Reached(p, x, base)

\* The MPDU at the start of the buffer has not arrived.
Waiting(r, base) ==
    \A m \in r.m_bufferedMpdus : Position(m.seq, base) # Position(r.m_winStartB, base)

\* What is said of a recipient with an agreement, in two parts.
LEMMA BufferingIs ==
  ASSUME NEW base \in SeqNos, NEW sent \in SUBSET Mpdus, NEW next \in Nat, NEW r,
         r.agreement, r.m_winStartB \in SeqNos
  PROVE  RecipientOK(r, base, sent, next) <=> Buffering(r, base, sent, next) /\ Waiting(r, base)
<1> DEFINE start == Position(r.scoreboard.m_winStart, base)
           startB == Position(r.m_winStartB, base)
           pos(m) == Position(m.seq, base)
           filled == \A d \in 0..startB - start - 1 : At(r.scoreboard, d)
           filledTo == \A p \in Nat : start <= p /\ p < startB => Has(r.scoreboard, base, p)
           reach == \A m \in r.m_bufferedMpdus :
                       /\ startB < pos(m) /\ pos(m) < startB + BufferSize
                       /\ pos(m) < start + BufferSize /\ At(r.scoreboard, pos(m) - start)
           reachTo == \A m \in r.m_bufferedMpdus :
                       /\ startB <= pos(m) /\ pos(m) < startB + BufferSize
                       /\ Has(r.scoreboard, base, pos(m))
<1>1. r \in Recipients => start \in Nat /\ startB \in Nat
  BY PositionType DEF Recipients, Windows
<1>2. ASSUME r \in Recipients, start <= startB, startB <= start + BufferSize
      PROVE  filled <=> filledTo
  <2>1. start \in Nat /\ startB \in Nat
    BY <1>1, <1>2
  <2>2. ASSUME filled, NEW p \in Nat, start <= p, p < startB
        PROVE  Has(r.scoreboard, base, p)
    <3>1. p - start \in 0..startB - start - 1 /\ p < start + BufferSize
      BY <1>2, <2>1, <2>2, SlotsIn
    <3> QED
      BY <2>2, <3>1 DEF Has
  <2>3. ASSUME filledTo, NEW d \in 0..startB - start - 1
        PROVE  At(r.scoreboard, d)
    <3>1. start + d \in Nat /\ start <= start + d /\ start + d < startB /\ (start + d) - start = d
      BY <2>1
    <3>2. Has(r.scoreboard, base, start + d)
      BY <2>3, <3>1
    <3>3. At(r.scoreboard, (start + d) - start)
      BY <3>2 DEF Has
    <3> QED
      BY <3>1, <3>3
  <2> QED
    BY <2>2, <2>3
<1>3. ASSUME r \in Recipients, Arrivals(r) \subseteq sent, start <= startB
      PROVE  reach <=> reachTo /\ Waiting(r, base)
  <2>1. \A m \in r.m_bufferedMpdus : pos(m) \in Nat
    BY <1>3, PositionType DEF Arrivals, Mpdus
  <2>2. start \in Nat /\ startB \in Nat
    BY <1>1, <1>3
  <2>3. ASSUME reach
        PROVE  reachTo /\ Waiting(r, base)
    <3> SUFFICES ASSUME NEW m \in r.m_bufferedMpdus
                 PROVE  /\ startB <= pos(m) /\ pos(m) < startB + BufferSize
                        /\ Has(r.scoreboard, base, pos(m)) /\ pos(m) # startB
      BY DEF Waiting
    <3>1. start <= pos(m) /\ startB < pos(m) /\ pos(m) \in Nat
      BY <1>3, <2>1, <2>2, <2>3
    <3> QED
      BY <2>2, <2>3, <3>1 DEF Has
  <2>4. ASSUME reachTo, Waiting(r, base)
        PROVE  reach
    <3> SUFFICES ASSUME NEW m \in r.m_bufferedMpdus
                 PROVE  /\ startB < pos(m) /\ pos(m) < startB + BufferSize
                        /\ pos(m) < start + BufferSize /\ At(r.scoreboard, pos(m) - start)
      OBVIOUS
    <3>1. startB <= pos(m) /\ pos(m) # startB /\ pos(m) \in Nat
      BY <2>1, <2>4 DEF Waiting
    <3>2. startB < pos(m)
      BY <2>2, <3>1
    <3> QED
      BY <2>4, <3>2 DEF Has
  <2> QED
    BY <2>3, <2>4
<1>4. RecipientOK(r, base, sent, next) <=>
        /\ r \in Recipients /\ Arrivals(r) \subseteq sent /\ Ascending(r.passed, base)
        /\ start <= startB /\ startB <= start + BufferSize /\ startB <= next
        /\ filled /\ reach /\ \A m \in Members(r.passed) : pos(m) <= startB
  BY DEF RecipientOK
<1>5. Buffering(r, base, sent, next) <=>
        /\ r \in Recipients /\ Arrivals(r) \subseteq sent /\ Ascending(r.passed, base)
        /\ start <= startB /\ startB <= start + BufferSize /\ startB <= next
        /\ filledTo /\ reachTo /\ \A m \in Members(r.passed) : pos(m) <= startB
  BY DEF Buffering
<1> HIDE DEF filled, filledTo, reach, reachTo, start, startB, pos
<1> QED
  BY <1>2, <1>3, <1>4, <1>5

\* What was reached stays reached.
LEMMA ReachedStays ==
  ASSUME NEW base \in SeqNos, NEW p, NEW r, p.m_winStartB \in SeqNos, r.m_winStartB \in SeqNos,
         MovesUp(p, r, base), NEW x, x.seq \in SeqNos, Reached(r, x, base)
  PROVE  Reached(p, x, base)
<1>1. /\ Position(p.m_winStartB, base) \in Nat /\ Position(r.m_winStartB, base) \in Nat
      /\ Position(x.seq, base) \in Nat
  BY PositionType
<1> QED
  BY <1>1 DEF MovesUp, Reached

\* One such move after the other.
LEMMA MovesUpTwice ==
  ASSUME NEW base \in SeqNos, NEW q, NEW p, NEW r \in Recipients,
         q.m_winStartB \in SeqNos, p.m_winStartB \in SeqNos, r.m_winStartB \in SeqNos,
         MovesUp(q, p, base), MovesUp(p, r, base)
  PROVE  MovesUp(q, r, base)
<1>1. \A x \in r.m_bufferedMpdus : x.seq \in SeqNos
  BY DEF Recipients, Mpdus
<1>2. \A x \in r.m_bufferedMpdus : Reached(q, x, base)
  BY <1>1, ReachedStays DEF MovesUp
<1>3. /\ Position(q.m_winStartB, base) \in Nat /\ Position(p.m_winStartB, base) \in Nat
      /\ Position(r.m_winStartB, base) \in Nat
  BY PositionType
<1> QED
  BY <1>2, <1>3 DEF MovesUp

\* What is buffered without a gap is handed up, and then the buffer waits for a lost one.
LEMMA PassUntilFirstLostOK ==
  ASSUME FewPackets, NEW base, NEW sent, NEW next, NEW n, Numbering(base, sent, next, n),
         NEW r, Buffering(r, base, sent, next)
  PROVE  LET p == PassBufferedMpdusUntilFirstLost(r)
         IN  /\ RecipientOK(p, base, sent, next) /\ p.agreement /\ p.m_winStartB \in SeqNos
             /\ Arrivals(p) = Arrivals(r) /\ MovesUp(p, r, base)
<1> DEFINE first == FirstLost(r)
           startB == Position(r.m_winStartB, base)
           start == Position(r.scoreboard.m_winStart, base)
           pos(m) == Position(m.seq, base)
           up == {m \in r.m_bufferedMpdus : Distance(m.seq, r.m_winStartB) < first}
           s == SeqPlus(r.m_winStartB, first)
           p == PassUp(r, up, s)
<1>1. /\ base \in SeqNos /\ sent \in SUBSET Mpdus /\ next \in Nat /\ next <= MaxMpdus
      /\ MaxMpdus \in Nat
  <2>1. base \in SeqNos /\ sent \in SUBSET Mpdus /\ next \in 0..n /\ n \in 0..MaxMpdus
    BY DEF Numbering
  <2> QED
    BY <2>1, MpdusAssumption
<1>2. /\ r \in Recipients /\ r.agreement /\ r.m_winStartB \in SeqNos
      /\ Arrivals(r) \subseteq sent /\ Ascending(r.passed, base)
      /\ start <= startB /\ startB <= start + BufferSize /\ startB <= next
      /\ \A q \in Nat : start <= q /\ q < startB => Has(r.scoreboard, base, q)
      /\ \A m \in r.m_bufferedMpdus :
            /\ startB <= pos(m) /\ pos(m) < startB + BufferSize
            /\ Has(r.scoreboard, base, pos(m))
      /\ \A m \in Members(r.passed) : pos(m) <= startB
  BY DEF Buffering
<1>3. start \in Nat /\ startB \in Nat
  BY <1>1, <1>2, PositionType DEF Recipients, Windows
<1>4. \A m \in sent : pos(m) \in Nat /\ pos(m) < next /\ m.seq \in SeqNos /\ pos(m) <= MaxMpdus
  BY <1>1, SentIs
<1>5. r.m_bufferedMpdus \subseteq sent /\ Members(r.passed) \subseteq sent
  BY <1>2 DEF Arrivals
<1>6. /\ first \in Nat /\ startB + first <= next
      /\ \A d \in 0..first - 1 : \E b \in r.m_bufferedMpdus : pos(b) = startB + d
      /\ \A b \in r.m_bufferedMpdus : pos(b) # startB + first
  BY <1>2, <1>5, FirstLostIs
<1> HIDE DEF first
<1>7. \A m \in r.m_bufferedMpdus : Distance(m.seq, r.m_winStartB) = pos(m) - startB
  <2> SUFFICES ASSUME NEW m \in r.m_bufferedMpdus
               PROVE  Distance(m.seq, r.m_winStartB) = pos(m) - startB
    OBVIOUS
  <2>1. startB <= pos(m) /\ startB <= MaxMpdus /\ m.seq \in SeqNos /\ pos(m) <= MaxMpdus
    BY <1>1, <1>2, <1>3, <1>4, <1>5
  <2> QED
    BY <1>1, <1>2, <2>1, DistanceFromStart
<1>8. CASE first = 0
  <2>1. PassBufferedMpdusUntilFirstLost(r) = r
    BY <1>8 DEF PassBufferedMpdusUntilFirstLost, first
  <2>2. Waiting(r, base)
    BY <1>3, <1>6, <1>8 DEF Waiting
  <2>3. RecipientOK(r, base, sent, next)
    BY <1>1, <1>2, <2>2, BufferingIs
  <2>4. MovesUp(r, r, base)
    BY <1>3 DEF MovesUp, Reached
  <2> QED
    BY <1>2, <2>1, <2>3, <2>4
<1>9. CASE first # 0
  <2>1. PassBufferedMpdusUntilFirstLost(r) = p
    BY <1>9 DEF PassBufferedMpdusUntilFirstLost, first
  <2>2. s \in SeqNos /\ Position(s, base) = startB + first /\ s \in 0..Uint16 - 1
    <3>1. startB + first < SeqSpace
      <4> HIDE DEF startB, pos
      <4>1. startB + first \in Nat /\ startB + first <= MaxMpdus
        BY <1>1, <1>3, <1>6
      <4> QED
        BY <1>1, <4>1, FewPacketsIs
    <3>2. s \in SeqNos /\ Position(s, base) = startB + first
      BY <1>1, <1>2, <1>6, <3>1, PositionPlus, SeqPlusType
    <3> HIDE DEF s
    <3> QED
      BY <3>2, SpaceIs
  <2>3. up \in SUBSET r.m_bufferedMpdus
    OBVIOUS
  <2>4. \A m \in r.m_bufferedMpdus : m \in up <=> pos(m) < startB + first
    <3> SUFFICES ASSUME NEW m \in r.m_bufferedMpdus
                 PROVE  m \in up <=> pos(m) < startB + first
      OBVIOUS
    <3>1. pos(m) \in Nat /\ Distance(m.seq, r.m_winStartB) = pos(m) - startB
      BY <1>4, <1>5, <1>7
    <3> HIDE DEF pos, startB
    <3> QED
      BY <1>3, <1>6, <3>1
  <2> HIDE DEF up, s
  <2>5. /\ p \in Recipients /\ p.agreement = r.agreement /\ p.scoreboard = r.scoreboard
        /\ p.m_winStartB = s /\ p.m_bufferedMpdus = r.m_bufferedMpdus \ up
        /\ Members(p.passed) = Members(r.passed) \cup up /\ Ascending(p.passed, base)
        /\ Arrivals(p) = Arrivals(r)
    <3>1. startB <= MaxMpdus
      BY <1>1, <1>2, <1>3
    <3>2. \A m \in up : Position(r.m_winStartB, base) <= Position(m.seq, base)
      BY <1>2, <2>3
    <3>3. \A m \in Members(r.passed) : Position(m.seq, base) <= Position(r.m_winStartB, base)
      BY <1>2
    <3>4. s \in 0..Uint16 - 1 /\ Position(r.m_winStartB, base) <= MaxMpdus
      BY <2>2, <3>1
    <3> HIDE DEF startB, pos
    <3>5. PassedUp(PassUp(r, up, s), r, up, s, base)
      BY <1>2, <2>3, <3>2, <3>3, <3>4, PassUpOK
    <3> QED
      BY <3>5 DEF PassedUp
  <2> HIDE DEF p
  <2>6. startB + first <= start + BufferSize
    <3>1. first - 1 \in 0..first - 1
      BY <1>6, <1>9
    <3>2. PICK b \in r.m_bufferedMpdus : pos(b) = startB + (first - 1)
      BY <1>6, <3>1
    <3>3. pos(b) < start + BufferSize
      BY <1>2 DEF Has
    <3> QED
      BY <1>3, <1>6, <3>2, <3>3, SlotsIn
  <2>7. ASSUME NEW q \in Nat, start <= q, q < startB + first
        PROVE  Has(r.scoreboard, base, q)
    <3>1. CASE q < startB
      BY <1>2, <2>7, <3>1
    <3>2. CASE ~(q < startB)
      <4>1. q - startB \in 0..first - 1 /\ startB + (q - startB) = q
        BY <1>3, <1>6, <2>7, <3>2
      <4>2. PICK b \in r.m_bufferedMpdus : pos(b) = q
        BY <1>6, <4>1
      <4> QED
        BY <1>2, <4>2
    <3> QED
      BY <3>1, <3>2
  <2>8. ASSUME NEW m \in r.m_bufferedMpdus \ up
        PROVE  /\ startB + first <= pos(m) /\ pos(m) < startB + first + BufferSize
               /\ Has(r.scoreboard, base, pos(m)) /\ pos(m) # startB + first
    <3>1. ~(pos(m) < startB + first) /\ pos(m) \in Nat /\ pos(m) < startB + BufferSize
      BY <1>2, <1>4, <1>5, <2>4
    <3>2. Has(r.scoreboard, base, pos(m)) /\ pos(m) # startB + first
      BY <1>2, <1>6
    <3> HIDE DEF pos, startB
    <3> QED
      BY <1>3, <1>6, <3>1, <3>2, SlotsIn
  <2>9. ASSUME NEW m \in Members(r.passed) \cup up
        PROVE  pos(m) <= startB + first
    <3>1. pos(m) \in Nat
      BY <1>4, <1>5, <2>3
    <3>2. pos(m) <= startB \/ pos(m) < startB + first
      BY <1>2, <2>3, <2>4
    <3> HIDE DEF pos, startB
    <3> QED
      BY <1>3, <1>6, <3>1, <3>2
  <2>10. start <= startB + first
    BY <1>2, <1>3, <1>6
  <2>11. Buffering(p, base, sent, next)
    BY <1>2, <1>6, <2>2, <2>5, <2>6, <2>7, <2>8, <2>9, <2>10 DEF Buffering
  <2>12. Waiting(p, base)
    BY <2>2, <2>5, <2>8 DEF Waiting
  <2>13. RecipientOK(p, base, sent, next)
    BY <1>1, <1>2, <2>2, <2>5, <2>11, <2>12, BufferingIs
  <2>14. MovesUp(p, r, base)
    <3>1. \A m \in r.m_bufferedMpdus : m \in p.m_bufferedMpdus \/ pos(m) < startB + first
      BY <2>4, <2>5
    <3>2. startB <= startB + first /\ Position(p.m_winStartB, base) = startB + first
      BY <1>3, <1>6, <2>2, <2>5
    <3> QED
      BY <3>1, <3>2 DEF MovesUp, Reached
  <2> QED
    BY <1>2, <2>1, <2>2, <2>5, <2>13, <2>14
<1> QED
  BY <1>8, <1>9

\* The start of the buffer moves up to that of the scoreboard, and what is
\* buffered before it is handed up.
LEMMA JumpOK ==
  ASSUME FewPackets, NEW base, NEW sent, NEW next, NEW n, Numbering(base, sent, next, n),
         NEW r \in Recipients, r.agreement, r.m_winStartB \in SeqNos,
         Arrivals(r) \subseteq sent, Ascending(r.passed, base),
         \A m \in Members(r.passed) : Position(m.seq, base) <= Position(r.m_winStartB, base),
         NEW winStartB \in SeqNos,
         Position(winStartB, base) = Position(r.scoreboard.m_winStart, base),
         Position(r.m_winStartB, base) <= Position(winStartB, base), Position(winStartB, base) <= next,
         \A m \in r.m_bufferedMpdus :
            /\ Position(r.m_winStartB, base) <= Position(m.seq, base)
            /\ Position(m.seq, base) < Position(winStartB, base) + BufferSize
            /\ Position(winStartB, base) <= Position(m.seq, base) =>
                  Has(r.scoreboard, base, Position(m.seq, base))
  PROVE  LET p == PassBufferedMpdusWithSeqNumberLessThan(r, winStartB)
         IN  /\ Buffering(p, base, sent, next) /\ Arrivals(p) = Arrivals(r)
             /\ p.m_winStartB = winStartB /\ MovesUp(p, r, base)
<1> DEFINE startB == Position(r.m_winStartB, base)
           nb == Position(winStartB, base)
           pos(m) == Position(m.seq, base)
           up == {m \in r.m_bufferedMpdus :
                     Distance(m.seq, r.m_winStartB) < Distance(winStartB, r.m_winStartB)}
           p == PassUp(r, up, winStartB)
<1>1. /\ base \in SeqNos /\ sent \in SUBSET Mpdus /\ next \in Nat /\ next <= MaxMpdus
      /\ MaxMpdus \in Nat
  <2>1. base \in SeqNos /\ sent \in SUBSET Mpdus /\ next \in 0..n /\ n \in 0..MaxMpdus
    BY DEF Numbering
  <2> QED
    BY <2>1, MpdusAssumption
<1>2. startB \in Nat /\ nb \in Nat
  BY <1>1, PositionType
<1>3. \A m \in sent : pos(m) \in Nat /\ pos(m) < next /\ m.seq \in SeqNos /\ pos(m) <= MaxMpdus
  BY <1>1, SentIs
<1>4. r.m_bufferedMpdus \subseteq sent /\ Members(r.passed) \subseteq sent
  BY DEF Arrivals
<1>5. startB <= MaxMpdus /\ nb <= MaxMpdus /\ startB <= nb
  BY <1>1, <1>2
<1>6. up \in SUBSET r.m_bufferedMpdus /\ \A m \in r.m_bufferedMpdus : m \in up <=> pos(m) < nb
  <2> SUFFICES ASSUME NEW m \in r.m_bufferedMpdus
               PROVE  m \in up <=> pos(m) < nb
    OBVIOUS
  <2>1. startB <= pos(m) /\ pos(m) \in Nat /\ pos(m) <= MaxMpdus /\ m.seq \in SeqNos
    BY <1>3, <1>4
  <2>2. Distance(m.seq, r.m_winStartB) = pos(m) - startB
    BY <1>1, <1>5, <2>1, DistanceFromStart
  <2>3. Distance(winStartB, r.m_winStartB) = nb - startB
    BY <1>1, <1>5, DistanceFromStart
  <2> HIDE DEF pos, startB, nb
  <2> QED
    BY <1>2, <2>1, <2>2, <2>3
<1> HIDE DEF up
<1>7. PassedUp(p, r, up, winStartB, base)
  <2>1. winStartB \in 0..Uint16 - 1 /\ Position(r.m_winStartB, base) <= MaxMpdus
    BY <1>5, SpaceIs
  <2>2. \A m \in up : Position(r.m_winStartB, base) <= Position(m.seq, base)
    BY <1>6
  <2> HIDE DEF startB, nb, pos
  <2> QED
    BY <1>6, <2>1, <2>2, PassUpOK
<1> HIDE DEF p
<1>8. /\ p \in Recipients /\ p.agreement /\ p.scoreboard = r.scoreboard
      /\ p.m_winStartB = winStartB /\ p.m_bufferedMpdus = r.m_bufferedMpdus \ up
      /\ Members(p.passed) = Members(r.passed) \cup up /\ Ascending(p.passed, base)
      /\ Arrivals(p) = Arrivals(r)
  BY <1>7 DEF PassedUp
<1>9. \A m \in p.m_bufferedMpdus :
          nb <= pos(m) /\ pos(m) < nb + BufferSize /\ Has(p.scoreboard, base, pos(m))
  <2> SUFFICES ASSUME NEW m \in r.m_bufferedMpdus, m \notin up
               PROVE  nb <= pos(m) /\ pos(m) < nb + BufferSize /\ Has(r.scoreboard, base, pos(m))
    BY <1>8
  <2>1. pos(m) \in Nat /\ ~(pos(m) < nb)
    BY <1>3, <1>4, <1>6
  <2>2. nb <= pos(m)
    <3> HIDE DEF pos, nb
    <3> QED
      BY <1>2, <2>1
  <2> QED
    BY <2>2
<1>10. \A m \in Members(p.passed) : pos(m) <= nb
  <2> SUFFICES ASSUME NEW m \in Members(r.passed) \cup up
               PROVE  pos(m) <= nb
    BY <1>8
  <2>1. pos(m) <= startB \/ pos(m) < nb
    BY <1>6
  <2>2. pos(m) \in Nat
    BY <1>3, <1>4, <1>6
  <2> HIDE DEF pos, nb, startB
  <2> QED
    BY <1>2, <1>5, <2>1, <2>2
<1>11. Position(p.scoreboard.m_winStart, base) = nb /\ nb <= nb + BufferSize
  BY <1>2, <1>8, SlotsIn
<1>12. \A q \in Nat : nb <= q /\ q < nb => Has(p.scoreboard, base, q)
  BY <1>2
<1>13. PassBufferedMpdusWithSeqNumberLessThan(r, winStartB) = p
  BY DEF PassBufferedMpdusWithSeqNumberLessThan, p, up
<1>14. Buffering(p, base, sent, next)
  BY <1>2, <1>8, <1>9, <1>10, <1>11, <1>12 DEF Buffering
<1>15. MovesUp(p, r, base)
  BY <1>6, <1>8 DEF MovesUp, Reached
<1> QED
  BY <1>8, <1>13, <1>14, <1>15

\* Once an MPDU within reach of the buffer is marked and stored, what is buffered
\* is marked.
LEMMA StoreOK ==
  ASSUME FewPackets, NEW base, NEW sent, NEW next, NEW n, Numbering(base, sent, next, n),
         NEW r, Buffering(r, base, sent, next), NEW m \in sent,
         Position(r.m_winStartB, base) <= Position(m.seq, base),
         Position(m.seq, base) < Position(r.m_winStartB, base) + BufferSize,
         NEW p \in Recipients, p.agreement, p.m_winStartB = r.m_winStartB, p.passed = r.passed,
         p.scoreboard = Scored(r.scoreboard, m.seq), p.m_bufferedMpdus = r.m_bufferedMpdus \cup {m}
  PROVE  Buffering(p, base, sent, next)
<1> DEFINE startB == Position(r.m_winStartB, base)
           start == Position(r.scoreboard.m_winStart, base)
           vstart == Position(p.scoreboard.m_winStart, base)
           pos(x) == Position(x.seq, base)
           s == Position(m.seq, base)
<1>1. /\ base \in SeqNos /\ sent \in SUBSET Mpdus /\ next \in Nat /\ next <= MaxMpdus
      /\ MaxMpdus \in Nat
  <2>1. base \in SeqNos /\ sent \in SUBSET Mpdus /\ next \in 0..n /\ n \in 0..MaxMpdus
    BY DEF Numbering
  <2> QED
    BY <2>1, MpdusAssumption
<1>2. /\ r \in Recipients /\ r.agreement /\ r.m_winStartB \in SeqNos
      /\ Arrivals(r) \subseteq sent /\ Ascending(r.passed, base)
      /\ start <= startB /\ startB <= start + BufferSize /\ startB <= next
      /\ \A q \in Nat : start <= q /\ q < startB => Has(r.scoreboard, base, q)
      /\ \A x \in r.m_bufferedMpdus :
            /\ startB <= pos(x) /\ pos(x) < startB + BufferSize
            /\ Has(r.scoreboard, base, pos(x))
      /\ \A x \in Members(r.passed) : pos(x) <= startB
  BY DEF Buffering
<1>3. start \in Nat /\ startB \in Nat /\ vstart \in Nat
  BY <1>1, <1>2, PositionType DEF Recipients, Windows
<1>4. /\ r.scoreboard \in Windows /\ m.seq \in SeqNos /\ s \in Nat /\ s < next
      /\ start <= MaxMpdus /\ s <= MaxMpdus /\ start <= s /\ s < startB + BufferSize
  <2>1. r.scoreboard \in Windows /\ m.seq \in SeqNos /\ s \in Nat /\ s < next
    BY <1>1, <1>2, SentIs DEF Recipients
  <2> QED
    BY <1>1, <1>2, <1>3, <2>1
<1>5. /\ vstart = IF s < start + BufferSize THEN start ELSE s - BufferSize + 1
      /\ \A q \in Nat : Has(p.scoreboard, base, q) <=> vstart <= q /\ (Has(r.scoreboard, base, q) \/ q = s)
  BY <1>1, <1>4, ScoredIs
<1>6. vstart <= startB /\ startB <= vstart + BufferSize /\ vstart <= s
  <2> HIDE DEF vstart, start, startB, s, pos
  <2> QED
    BY <1>2, <1>3, <1>4, <1>5, SlotsIn
<1>7. \A q \in Nat : vstart <= q /\ q < startB => Has(p.scoreboard, base, q)
  <2> SUFFICES ASSUME NEW q \in Nat, vstart <= q, q < startB
               PROVE  Has(p.scoreboard, base, q)
    OBVIOUS
  <2>1. start <= q
    <3> HIDE DEF vstart, start, startB, s, pos
    <3> QED
      BY <1>3, <1>4, <1>5, SlotsIn
  <2> QED
    BY <1>2, <1>5, <2>1
<1>8. ASSUME NEW x \in p.m_bufferedMpdus
      PROVE  /\ startB <= pos(x) /\ pos(x) < startB + BufferSize
             /\ Has(p.scoreboard, base, pos(x))
  <2>1. CASE x = m
    BY <1>4, <1>5, <1>6, <2>1
  <2>2. CASE x \in r.m_bufferedMpdus
    <3>1. startB <= pos(x) /\ pos(x) < startB + BufferSize /\ Has(r.scoreboard, base, pos(x))
      BY <1>2, <2>2
    <3>2. pos(x) \in Nat
      BY <1>2, <2>2, SentIs DEF Arrivals
    <3>3. vstart <= pos(x)
      <4> HIDE DEF vstart, start, startB, s, pos
      <4> QED
        BY <1>3, <1>6, <3>1, <3>2
    <3> QED
      BY <1>5, <3>1, <3>2, <3>3
  <2> QED
    BY <2>1, <2>2
<1>9. Arrivals(p) \subseteq sent
  BY <1>2 DEF Arrivals
<1> QED
  BY <1>2, <1>6, <1>7, <1>8, <1>9 DEF Buffering

\* An MPDU before the start of the buffer is marked, and nothing else changes.
LEMMA OldOK ==
  ASSUME FewPackets, NEW base, NEW sent, NEW next, NEW n, Numbering(base, sent, next, n),
         NEW r, Buffering(r, base, sent, next), Waiting(r, base), NEW m \in sent,
         Position(m.seq, base) < Position(r.m_winStartB, base),
         NEW p \in Recipients, p.agreement, p.m_winStartB = r.m_winStartB, p.passed = r.passed,
         p.scoreboard = Scored(r.scoreboard, m.seq), p.m_bufferedMpdus = r.m_bufferedMpdus
  PROVE  Buffering(p, base, sent, next) /\ Waiting(p, base)
<1> DEFINE startB == Position(r.m_winStartB, base)
           start == Position(r.scoreboard.m_winStart, base)
           vstart == Position(p.scoreboard.m_winStart, base)
           pos(x) == Position(x.seq, base)
           s == Position(m.seq, base)
<1>1. /\ base \in SeqNos /\ sent \in SUBSET Mpdus /\ next \in Nat /\ next <= MaxMpdus
      /\ MaxMpdus \in Nat
  <2>1. base \in SeqNos /\ sent \in SUBSET Mpdus /\ next \in 0..n /\ n \in 0..MaxMpdus
    BY DEF Numbering
  <2> QED
    BY <2>1, MpdusAssumption
<1>2. /\ r \in Recipients /\ r.agreement /\ r.m_winStartB \in SeqNos
      /\ Arrivals(r) \subseteq sent /\ Ascending(r.passed, base)
      /\ start <= startB /\ startB <= start + BufferSize /\ startB <= next
      /\ \A q \in Nat : start <= q /\ q < startB => Has(r.scoreboard, base, q)
      /\ \A x \in r.m_bufferedMpdus :
            /\ startB <= pos(x) /\ pos(x) < startB + BufferSize
            /\ Has(r.scoreboard, base, pos(x))
      /\ \A x \in Members(r.passed) : pos(x) <= startB
  BY DEF Buffering
<1>3. start \in Nat /\ startB \in Nat
  BY <1>1, <1>2, PositionType DEF Recipients, Windows
<1>4. /\ r.scoreboard \in Windows /\ m.seq \in SeqNos /\ s \in Nat /\ s < next
      /\ start <= MaxMpdus /\ s <= MaxMpdus
  <2>1. r.scoreboard \in Windows /\ m.seq \in SeqNos /\ s \in Nat /\ s < next
    BY <1>1, <1>2, SentIs DEF Recipients
  <2> QED
    BY <1>1, <1>2, <1>3, <2>1
<1>5. /\ s < start => p.scoreboard = r.scoreboard
      /\ start <= s =>
            /\ vstart = IF s < start + BufferSize THEN start ELSE s - BufferSize + 1
            /\ \A q \in Nat : Has(p.scoreboard, base, q) <=> vstart <= q /\ (Has(r.scoreboard, base, q) \/ q = s)
  BY <1>1, <1>4, ScoredIs
<1>6. vstart = start /\ \A q \in Nat : start <= q /\ Has(r.scoreboard, base, q) => Has(p.scoreboard, base, q)
  <2>1. CASE s < start
    BY <1>5, <2>1
  <2>2. CASE start <= s
    <3>1. s < start + BufferSize
      <4>1. s < startB
        OBVIOUS
      <4> HIDE DEF start, startB, s
      <4> QED
        BY <1>2, <1>3, <1>4, <4>1, SlotsIn
    <3> QED
      BY <1>5, <2>2, <3>1
  <2> QED
    BY <1>3, <1>4, <2>1, <2>2
<1>7. \A x \in r.m_bufferedMpdus : pos(x) \in Nat /\ start <= pos(x)
  <2> SUFFICES ASSUME NEW x \in r.m_bufferedMpdus
               PROVE  pos(x) \in Nat /\ start <= pos(x)
    OBVIOUS
  <2>1. pos(x) \in Nat /\ startB <= pos(x)
    BY <1>2, SentIs DEF Arrivals
  <2> HIDE DEF pos, start, startB
  <2> QED
    BY <1>2, <1>3, <2>1
<1>8. Arrivals(p) \subseteq sent /\ Waiting(p, base)
  BY <1>2 DEF Arrivals, Waiting
<1> QED
  BY <1>2, <1>6, <1>7, <1>8 DEF Buffering

-----------------------------------------------------------------------------
(* The start of the buffer outside the space: nothing is handed up any more. *)

Outside == Uint16 - BufferSize..Uint16 - 1

\* The values a uint16_t has beyond the space of numbers.
LEMMA OutsideIs ==
  ASSUME NEW t \in Outside
  PROVE  /\ t \in 0..Uint16 - 1 /\ t \notin SeqNos /\ t \in Nat /\ 2 * SeqSpace < t
         /\ t < Uint16
<1>1. /\ SeqSpace \in Nat \ {0} /\ BufferSize \in Nat \ {0} /\ 2 * BufferSize <= SeqSpace
      /\ 4 * SeqSpace <= Uint16 /\ Uint16 \in Nat
  BY WindowAssumption DEF Uint16
<1>2. t \in Uint16 - BufferSize..Uint16 - 1
  BY DEF Outside
<1> QED
  BY <1>1, <1>2 DEF SeqNos

\* Every number is old or, one of them, at distance zero.
LEMMA DistanceOutside ==
  ASSUME NEW s \in SeqNos, NEW t \in Outside
  PROVE  /\ Distance(s, t) = 0 \/ (BufferSize <= Distance(s, t) /\ IsOld(s, t))
         /\ Distance(s, t) \in Nat
<1> DEFINE k == (t - s - SeqSpace) % SeqSpace
<1>1. /\ SeqSpace \in Nat \ {0} /\ BufferSize \in Nat \ {0} /\ 2 * BufferSize <= SeqSpace
      /\ 4 * SeqSpace <= Uint16 /\ Uint16 \in Nat \ {0}
  BY WindowAssumption DEF Uint16
<1>2. t \in Nat /\ 2 * SeqSpace < t /\ s \in 0..SeqSpace - 1
  BY OutsideIs DEF SeqNos
<1>3. -(s - t + SeqSpace) = t - s - SeqSpace /\ ~(s - t + SeqSpace >= 0) /\ t - s - SeqSpace \in Nat
  BY <1>1, <1>2
<1>4. k \in 0..SeqSpace - 1
  BY <1>1, <1>3
<1>5. Distance(s, t) = (Uint16 - k) % Uint16
  BY <1>3 DEF Distance
<1> HIDE DEF k
<1>6. CASE k = 0
  <2>1. (Uint16 - k) % Uint16 = 0
    BY <1>6 DEF Uint16
  <2> QED
    BY <1>5, <2>1
<1>7. CASE k # 0
  <2>1. Uint16 - k \in 0..Uint16 - 1 /\ k < SeqSpace /\ k \in Nat
    BY <1>1, <1>4, <1>7
  <2>2. (Uint16 - k) % Uint16 = Uint16 - k
    BY <1>1, <2>1
  <2>3. Distance(s, t) = Uint16 - k
    BY <1>5, <2>2
  <2>4. BufferSize <= Uint16 - k /\ 2 * (Uint16 - k) >= SeqSpace
    BY <1>1, <2>1
  <2> QED
    BY <1>1, <2>1, <2>3, <2>4 DEF IsOld
<1> QED
  BY <1>6, <1>7

\* A start of the buffer beyond the space leaves little to say.
LEMMA OutsideOK ==
  ASSUME NEW base, NEW sent, NEW next, NEW r \in Recipients, r.agreement,
         r.m_winStartB \in Outside, Arrivals(r) \subseteq sent, Ascending(r.passed, base)
  PROVE  RecipientOK(r, base, sent, next)
  BY OutsideIs DEF RecipientOK, Outside

\* No number is that of the start, so nothing is handed up.
LEMMA NothingPasses ==
  ASSUME NEW r \in Recipients, r.m_winStartB \in Outside,
         \A b \in r.m_bufferedMpdus : b.seq \in SeqNos
  PROVE  PassBufferedMpdusUntilFirstLost(r) = r
<1> DEFINE buffered(d) ==
             \E b \in r.m_bufferedMpdus : r.m_winStartB + d \in {b.seq, b.seq + SeqSpace}
<1>1. ~buffered(0)
  <2> SUFFICES ASSUME NEW b \in r.m_bufferedMpdus
               PROVE  r.m_winStartB + 0 \notin {b.seq, b.seq + SeqSpace}
    OBVIOUS
  <2>1. 2 * SeqSpace < r.m_winStartB /\ r.m_winStartB \in Nat /\ b.seq \in 0..SeqSpace - 1
    BY OutsideIs DEF SeqNos
  <2> QED
    BY <2>1, SpaceIs
<1> HIDE DEF buffered
<1>2. FirstLost(r) = CHOOSE n \in 0..SeqSpace : ~buffered(n) /\ \A d \in 0..n - 1 : buffered(d)
  BY DEF FirstLost, buffered
<1>3. \E n \in 0..SeqSpace : ~buffered(n) /\ \A d \in 0..n - 1 : buffered(d)
  <2>1. 0 \in 0..SeqSpace /\ \A d \in 0..0 - 1 : buffered(d)
    BY SpaceIs
  <2> QED
    BY <1>1, <2>1
<1>4. FirstLost(r) \in 0..SeqSpace /\ \A d \in 0..FirstLost(r) - 1 : buffered(d)
  BY <1>2, <1>3
<1>5. FirstLost(r) = 0
  <2> SUFFICES ASSUME FirstLost(r) # 0
               PROVE  FALSE
    OBVIOUS
  <2>1. 0 \in 0..FirstLost(r) - 1
    BY <1>4, SpaceIs
  <2> QED
    BY <1>1, <1>4, <2>1
<1> QED
  BY <1>5 DEF PassBufferedMpdusUntilFirstLost

\* Where the buffer has to end with a number near zero, its start leaves the space.
LEMMA WinStartForEndIs ==
  ASSUME NEW base \in SeqNos, NEW seq \in SeqNos
  PROVE  IF BufferSize - 1 <= seq
         THEN /\ WinStartForEnd(seq) \in SeqNos
              /\ BufferSize - 1 <= Position(seq, base) =>
                    Position(WinStartForEnd(seq), base) = Position(seq, base) - BufferSize + 1
         ELSE WinStartForEnd(seq) \in Outside
<1>1. /\ SeqSpace \in Nat \ {0} /\ BufferSize \in Nat \ {0} /\ 2 * BufferSize <= SeqSpace
      /\ 4 * SeqSpace <= Uint16 /\ Uint16 \in Nat \ {0} /\ seq \in 0..SeqSpace - 1
  BY WindowAssumption DEF Uint16, SeqNos
<1>2. CASE BufferSize - 1 <= seq
  <2> DEFINE start == seq - BufferSize + 1
  <2>1. start \in 0..SeqSpace - 1 /\ start + Uint16 \in 0..2 * Uint16 - 1 /\ ~(start + Uint16 < Uint16)
    BY <1>1, <1>2
  <2>2. (start + Uint16) % Uint16 = start
    <3>1. (start + Uint16) % Uint16
          = IF start + Uint16 < Uint16 THEN start + Uint16 ELSE start + Uint16 - Uint16
      <4>1. \A a \in 0..2 * Uint16 - 1 : a % Uint16 = IF a < Uint16 THEN a ELSE a - Uint16
        <5>1. Uint16 \in Nat \ {0}
          BY <1>1
        <5> QED
          BY <5>1, ModIs
      <4> HIDE DEF start
      <4> QED
        BY <1>1, <2>1, <4>1
    <3> HIDE DEF start
    <3> QED
      BY <1>1, <2>1, <3>1
  <2>3. WinStartForEnd(seq) = start
    BY <2>2 DEF WinStartForEnd
  <2>4. start \in SeqNos
    BY <2>1 DEF SeqNos
  <2>5. /\ Position(start, base) = IF start >= base THEN start - base ELSE start - base + SeqSpace
        /\ Position(seq, base) = IF seq >= base THEN seq - base ELSE seq - base + SeqSpace
    BY <2>4, DistanceIs DEF Position
  <2>6. BufferSize - 1 <= Position(seq, base) =>
            Position(start, base) = Position(seq, base) - BufferSize + 1
    BY <1>1, <1>2, <2>5 DEF SeqNos
  <2> QED
    BY <1>2, <2>3, <2>4, <2>6
<1>3. CASE ~(BufferSize - 1 <= seq)
  <2>1. seq - BufferSize + 1 + Uint16 \in 0..Uint16 - 1
    BY <1>1, <1>3
  <2>2. (seq - BufferSize + 1 + Uint16) % Uint16 = seq - BufferSize + 1 + Uint16
    BY <1>1, <2>1
  <2>3. WinStartForEnd(seq) = seq - BufferSize + 1 + Uint16
    BY <2>2 DEF WinStartForEnd
  <2>4. seq - BufferSize + 1 + Uint16 \in Uint16 - BufferSize..Uint16 - 1
    BY <1>1, <1>3
  <2> QED
    BY <1>3, <2>3, <2>4 DEF Outside
<1> QED
  BY <1>2, <1>3

\* The scoreboard stays a window.
LEMMA ScoredType ==
  ASSUME NEW w \in Windows, NEW seq \in SeqNos
  PROVE  Scored(w, seq) \in Windows
<1> DEFINE d == Distance(seq, w.m_winStart)
           v == Advance(w, d - BufferSize + 1)
<1>1. d \in Nat /\ BufferSize \in Nat \ {0} /\ BufferSize - 1 \in Slots
  BY DistanceType, SlotsIn DEF Windows, Slots
<1>2. CASE d < BufferSize
  <2>1. d \in Slots
    BY <1>1, <1>2 DEF Slots
  <2> HIDE DEF d
  <2> QED
    BY <1>2, <2>1, SetAtIs DEF Scored, d
<1>3. CASE ~(d < BufferSize)
  <2>1. d - BufferSize + 1 \in Nat
    BY <1>1, <1>3
  <2> HIDE DEF d
  <2>2. v \in Windows
    BY <2>1, AdvanceIs
  <2> HIDE DEF v
  <2>3. SetAt(v, BufferSize - 1) \in Windows
    BY <1>1, <2>2, SetAtIs
  <2>4. Scored(w, seq) = IF ~IsOld(seq, w.m_winStart) THEN SetAt(v, BufferSize - 1) ELSE w
    BY <1>3 DEF Scored, d, v
  <2> QED
    BY <2>3, <2>4
<1> QED
  BY <1>2, <1>3

\* The scoreboard stays a window after a BlockAckReq.
LEMMA ScoredBarType ==
  ASSUME NEW w \in Windows, NEW seq \in SeqNos
  PROVE  ScoredBar(w, seq) \in Windows
<1> DEFINE d == Distance(seq, w.m_winStart)
<1>1. d \in Nat
  BY DistanceType DEF Windows
<1> HIDE DEF d
<1>2. Advance(w, d) \in Windows /\ NewWindow(seq) \in Windows
  BY <1>1, AdvanceIs, NewWindowType
<1> QED
  BY <1>2 DEF ScoredBar, d

\* An MPDU beyond the reach of the buffer is the last one it then can hold.
LEMMA JumpedOK ==
  ASSUME FewPackets, NEW base, NEW sent, NEW next, NEW n, Numbering(base, sent, next, n),
         NEW r, Buffering(r, base, sent, next), NEW m \in sent,
         Position(r.m_winStartB, base) + BufferSize <= Position(m.seq, base),
         NEW p \in Recipients, p.agreement, p.m_winStartB = r.m_winStartB, p.passed = r.passed,
         p.scoreboard = Scored(r.scoreboard, m.seq), p.m_bufferedMpdus = r.m_bufferedMpdus \cup {m}
  PROVE  LET jumped == PassBufferedMpdusWithSeqNumberLessThan(p, WinStartForEnd(m.seq))
             q == PassBufferedMpdusUntilFirstLost(jumped)
         IN  /\ RecipientOK(q, base, sent, next) /\ q.agreement /\ Arrivals(q) = Arrivals(p)
             /\ q.m_winStartB \in SeqNos => MovesUp(q, p, base)
<1> DEFINE startB == Position(r.m_winStartB, base)
           start == Position(r.scoreboard.m_winStart, base)
           vstart == Position(p.scoreboard.m_winStart, base)
           pos(x) == Position(x.seq, base)
           s == Position(m.seq, base)
           end == WinStartForEnd(m.seq)
           jumped == PassBufferedMpdusWithSeqNumberLessThan(p, end)
           q == PassBufferedMpdusUntilFirstLost(jumped)
<1>1. /\ base \in SeqNos /\ sent \in SUBSET Mpdus /\ next \in Nat /\ next <= MaxMpdus
      /\ MaxMpdus \in Nat
  <2>1. base \in SeqNos /\ sent \in SUBSET Mpdus /\ next \in 0..n /\ n \in 0..MaxMpdus
    BY DEF Numbering
  <2> QED
    BY <2>1, MpdusAssumption
<1>2. /\ r \in Recipients /\ r.agreement /\ r.m_winStartB \in SeqNos
      /\ Arrivals(r) \subseteq sent /\ Ascending(r.passed, base)
      /\ start <= startB /\ startB <= start + BufferSize /\ startB <= next
      /\ \A x \in r.m_bufferedMpdus :
            /\ startB <= pos(x) /\ pos(x) < startB + BufferSize
            /\ Has(r.scoreboard, base, pos(x))
      /\ \A x \in Members(r.passed) : pos(x) <= startB
  BY DEF Buffering
<1>3. start \in Nat /\ startB \in Nat
  BY <1>1, <1>2, PositionType DEF Recipients, Windows
<1>4. /\ r.scoreboard \in Windows /\ m.seq \in SeqNos /\ s \in Nat /\ s < next
      /\ start <= MaxMpdus /\ s <= MaxMpdus /\ startB <= MaxMpdus
  <2>1. r.scoreboard \in Windows /\ m.seq \in SeqNos /\ s \in Nat /\ s < next
    BY <1>1, <1>2, SentIs DEF Recipients
  <2> QED
    BY <1>1, <1>2, <1>3, <2>1
<1>5. start <= s /\ ~(s < start + BufferSize) /\ s - BufferSize + 1 \in Nat
      /\ startB <= s - BufferSize + 1 /\ s - BufferSize + 1 <= next /\ BufferSize - 1 <= s
  <2>1. startB + BufferSize <= s
    OBVIOUS
  <2> HIDE DEF start, startB, s, pos
  <2> QED
    BY <1>1, <1>2, <1>3, <1>4, <2>1, SlotsIn
<1>6. /\ vstart = s - BufferSize + 1
      /\ \A k \in Nat : Has(p.scoreboard, base, k) <=> vstart <= k /\ (Has(r.scoreboard, base, k) \/ k = s)
  BY <1>1, <1>4, <1>5, ScoredIs
<1>7. Arrivals(p) \subseteq sent /\ Arrivals(p) = Arrivals(r) \cup {m}
  BY <1>2 DEF Arrivals
<1>8. \A x \in p.m_bufferedMpdus : pos(x) \in Nat /\ startB <= pos(x) /\ pos(x) < vstart + BufferSize
  <2> SUFFICES ASSUME NEW x \in r.m_bufferedMpdus \cup {m}
               PROVE  pos(x) \in Nat /\ startB <= pos(x) /\ pos(x) < vstart + BufferSize
    OBVIOUS
  <2>1. x = m \/ (startB <= pos(x) /\ pos(x) < startB + BufferSize)
    BY <1>2
  <2>2. pos(x) \in Nat
    BY <1>2, SentIs DEF Arrivals
  <2>3. x = m => pos(x) = s
    OBVIOUS
  <2> HIDE DEF start, startB, s, pos, vstart
  <2> QED
    BY <1>3, <1>4, <1>5, <1>6, <2>1, <2>2, <2>3, SlotsIn
<1>9. CASE BufferSize - 1 <= m.seq
  <2>1. end \in SeqNos /\ Position(end, base) = vstart
    BY <1>1, <1>4, <1>5, <1>6, <1>9, WinStartForEndIs
  <2> HIDE DEF end
  <2>2. /\ Position(end, base) = Position(p.scoreboard.m_winStart, base)
        /\ Position(p.m_winStartB, base) <= Position(end, base) /\ Position(end, base) <= next
    BY <1>5, <1>6, <2>1
  <2>3. \A x \in p.m_bufferedMpdus :
            /\ Position(p.m_winStartB, base) <= Position(x.seq, base)
            /\ Position(x.seq, base) < Position(end, base) + BufferSize
            /\ Position(end, base) <= Position(x.seq, base) =>
                  Has(p.scoreboard, base, Position(x.seq, base))
    <3> SUFFICES ASSUME NEW x \in r.m_bufferedMpdus \cup {m}, vstart <= pos(x)
                 PROVE  Has(p.scoreboard, base, pos(x))
      BY <1>8, <2>1
    <3>1. x = m \/ Has(r.scoreboard, base, pos(x))
      BY <1>2
    <3>2. pos(x) \in Nat /\ (x = m => pos(x) = s)
      BY <1>8
    <3> HIDE DEF pos, vstart, s
    <3> QED
      BY <1>6, <3>1, <3>2
  <2>4. \A x \in Members(p.passed) : Position(x.seq, base) <= Position(p.m_winStartB, base)
    BY <1>2
  <2> HIDE DEF start, startB, s, pos, vstart, jumped, q
  <2>5. /\ Buffering(jumped, base, sent, next) /\ Arrivals(jumped) = Arrivals(p)
        /\ jumped.m_winStartB = end /\ MovesUp(jumped, p, base)
    BY <1>2, <1>7, <2>1, <2>2, <2>3, <2>4, JumpOK DEF jumped
  <2>6. /\ RecipientOK(q, base, sent, next) /\ q.agreement /\ Arrivals(q) = Arrivals(jumped)
        /\ q.m_winStartB \in SeqNos /\ MovesUp(q, jumped, base)
    BY <2>5, PassUntilFirstLostOK DEF q
  <2>7. MovesUp(q, p, base)
    BY <1>1, <1>2, <2>1, <2>5, <2>6, MovesUpTwice
  <2> QED
    BY <2>5, <2>6, <2>7 DEF q, jumped, end
<1>10. CASE ~(BufferSize - 1 <= m.seq)
  <2>1. end \in Outside
    BY <1>1, <1>4, <1>10, WinStartForEndIs
  <2> DEFINE up == {x \in p.m_bufferedMpdus :
                       Distance(x.seq, p.m_winStartB) < Distance(end, p.m_winStartB)}
  <2> HIDE DEF end
  <2>2. up \in SUBSET p.m_bufferedMpdus
    OBVIOUS
  <2>3. jumped = PassUp(p, up, end)
    BY DEF PassBufferedMpdusWithSeqNumberLessThan
  <2> HIDE DEF up
  <2>4. PassedUp(PassUp(p, up, end), p, up, end, base)
    <3>1. \A x \in up : Position(p.m_winStartB, base) <= Position(x.seq, base)
      BY <1>8, <2>2
    <3>2. \A x \in Members(p.passed) : Position(x.seq, base) <= Position(p.m_winStartB, base)
      BY <1>2
    <3>3. end \in 0..Uint16 - 1 /\ Position(p.m_winStartB, base) <= MaxMpdus
      BY <1>4, <2>1, OutsideIs
    <3> HIDE DEF start, startB, s, pos, vstart, jumped, q
    <3> QED
      BY <1>2, <1>7, <2>2, <3>1, <3>2, <3>3, PassUpOK
  <2> HIDE DEF jumped, q
  <2>5. /\ jumped \in Recipients /\ jumped.agreement /\ jumped.m_winStartB = end
        /\ Ascending(jumped.passed, base) /\ Arrivals(jumped) = Arrivals(p)
    BY <2>3, <2>4 DEF PassedUp
  <2>6. RecipientOK(jumped, base, sent, next)
    BY <1>7, <2>1, <2>5, OutsideOK
  <2>7. q = jumped
    <3>1. \A b \in jumped.m_bufferedMpdus : b.seq \in SeqNos
      BY <2>5 DEF Recipients, Mpdus
    <3> QED
      BY <2>1, <2>5, <3>1, NothingPasses DEF q
  <2>8. end \notin SeqNos
    BY <2>1, OutsideIs
  <2> QED
    BY <2>5, <2>6, <2>7, <2>8 DEF q, jumped, end
<1> QED
  BY <1>9, <1>10

-----------------------------------------------------------------------------
(* What the recipient receives.                                             *)

\* Handing up leaves the scoreboard alone.
LEMMA PassUpScoreboard ==
  ASSUME NEW r, "scoreboard" \in DOMAIN r, NEW mpdus, NEW winStartB
  PROVE  LET p == PassUp(r, mpdus, winStartB)
         IN  "scoreboard" \in DOMAIN p /\ p.scoreboard = r.scoreboard
  BY DEF PassUp

\* So do the two ways of doing it.
LEMMA PassScoreboard ==
  ASSUME NEW r, "scoreboard" \in DOMAIN r, NEW winStartB
  PROVE  /\ PassBufferedMpdusUntilFirstLost(r).scoreboard = r.scoreboard
         /\ PassBufferedMpdusUntilFirstLost(PassBufferedMpdusWithSeqNumberLessThan(r, winStartB)).scoreboard
               = r.scoreboard
<1> DEFINE jumped == PassBufferedMpdusWithSeqNumberLessThan(r, winStartB)
<1>1. "scoreboard" \in DOMAIN jumped /\ jumped.scoreboard = r.scoreboard
  BY PassUpScoreboard DEF PassBufferedMpdusWithSeqNumberLessThan
<1>2. ASSUME NEW q, "scoreboard" \in DOMAIN q
      PROVE  PassBufferedMpdusUntilFirstLost(q).scoreboard = q.scoreboard
  BY <1>2, PassUpScoreboard DEF PassBufferedMpdusUntilFirstLost
<1> HIDE DEF jumped
<1> QED
  BY <1>1, <1>2 DEF jumped

\* An MPDU is marked and, unless it is old, handed up or stored, and the window moved.
LEMMA NotifyReceivedMpduOK ==
  ASSUME FewPackets, NEW base, NEW sent, NEW next, NEW n, Numbering(base, sent, next, n),
         NEW r, RecipientOK(r, base, sent, next), r.agreement, NEW m \in sent
  PROVE  LET p == NotifyReceivedMpdu(r, m)
         IN  /\ RecipientOK(p, base, sent, next) /\ p.agreement
             /\ Arrivals(p) \subseteq Arrivals(r) \cup {m} /\ Arrivals(r) \subseteq Arrivals(p)
             /\ p.scoreboard = Scored(r.scoreboard, m.seq)
             /\ p.m_winStartB \in SeqNos =>
                   /\ r.m_winStartB \in SeqNos
                   /\ Position(r.m_winStartB, base) <= Position(m.seq, base) => m \in Arrivals(p)
                   /\ MovesUp(p, r, base) /\ Reached(p, m, base)
<1> DEFINE scored == [r EXCEPT !.scoreboard = Scored(@, m.seq)]
           stored == [scored EXCEPT !.m_bufferedMpdus = Buffered(r, m)]
           jumped == PassBufferedMpdusWithSeqNumberLessThan(stored, WinStartForEnd(m.seq))
           p == NotifyReceivedMpdu(r, m)
           d == Distance(m.seq, r.m_winStartB)
           s == Position(m.seq, base)
           startB == Position(r.m_winStartB, base)
           w == Scored(r.scoreboard, m.seq)
<1>1. p = IF d < BufferSize THEN PassBufferedMpdusUntilFirstLost(stored)
          ELSE IF ~IsOld(m.seq, r.m_winStartB)
               THEN PassBufferedMpdusUntilFirstLost(jumped) ELSE scored
  BY DEF NotifyReceivedMpdu
<1>2. /\ base \in SeqNos /\ sent \in SUBSET Mpdus /\ next \in Nat /\ next <= MaxMpdus
      /\ MaxMpdus \in Nat
  <2>1. base \in SeqNos /\ sent \in SUBSET Mpdus /\ next \in 0..n /\ n \in 0..MaxMpdus
    BY DEF Numbering
  <2> QED
    BY <2>1, MpdusAssumption
<1>3. /\ r \in Recipients /\ r.scoreboard \in Windows /\ Arrivals(r) \subseteq sent
      /\ Ascending(r.passed, base) /\ r.m_winStartB \in SeqNos \cup Outside
  BY DEF RecipientOK, Recipients, Outside
<1>4. m \in Mpdus /\ m.seq \in SeqNos /\ s \in Nat /\ s < next
  BY <1>2, SentIs
<1>5. w \in Windows
  BY <1>3, <1>4, ScoredType
<1>6. Buffered(r, m) = r.m_bufferedMpdus \cup {m}
  <2>1. ASSUME NEW b \in r.m_bufferedMpdus, b.seq = m.seq
        PROVE  b = m
    <3>1. b \in sent
      BY <1>3 DEF Arrivals
    <3> QED
      BY <2>1, <3>1, SentOnce
  <2> QED
    BY <2>1 DEF Buffered
<1>7. r.m_bufferedMpdus \cup {m} \in SUBSET Mpdus
  BY <1>3, <1>4 DEF Recipients
<1>8. /\ scored \in Recipients /\ scored.agreement /\ scored.scoreboard = w
      /\ scored.m_winStartB = r.m_winStartB /\ scored.m_bufferedMpdus = r.m_bufferedMpdus
      /\ scored.passed = r.passed
  BY <1>3, <1>5 DEF Recipients
<1>9. /\ stored \in Recipients /\ stored.agreement /\ stored.scoreboard = w
      /\ stored.m_winStartB = r.m_winStartB /\ stored.m_bufferedMpdus = r.m_bufferedMpdus \cup {m}
      /\ stored.passed = r.passed
  <2> HIDE DEF scored
  <2> QED
    BY <1>6, <1>7, <1>8 DEF Recipients
<1> HIDE DEF scored, stored, w, p, d
<1>10. /\ Arrivals(scored) = Arrivals(r) /\ Arrivals(stored) = Arrivals(r) \cup {m}
       /\ Arrivals(stored) \subseteq sent
  BY <1>3, <1>8, <1>9 DEF Arrivals
<1>13. p.scoreboard = w
  <2>1. "scoreboard" \in DOMAIN stored
    BY <1>9 DEF Recipients
  <2> QED
    BY <1>1, <1>8, <1>9, <2>1, PassScoreboard
<1>14. ASSUME MovesUp(p, stored, base)
       PROVE  MovesUp(p, r, base) /\ Reached(p, m, base)
  BY <1>9, <1>14 DEF MovesUp
<1>11. CASE r.m_winStartB \in Outside
  <2>0. \A t \in Outside : t \notin SeqNos
    BY OutsideIs
  <2>1. d = 0 \/ (BufferSize <= d /\ IsOld(m.seq, r.m_winStartB))
    BY <1>4, <1>11, DistanceOutside DEF d
  <2>2. CASE d = 0
    <3>1. \A b \in stored.m_bufferedMpdus : b.seq \in SeqNos
      BY <1>9 DEF Recipients, Mpdus
    <3>2. PassBufferedMpdusUntilFirstLost(stored) = stored
      BY <1>9, <1>11, <3>1, NothingPasses
    <3>3. p = stored
      BY <1>1, <2>2, <3>2, SlotsIn
    <3>4. RecipientOK(stored, base, sent, next)
      BY <1>3, <1>9, <1>10, <1>11, OutsideOK
    <3> QED
      BY <1>9, <1>10, <1>11, <1>13, <2>0, <3>3, <3>4 DEF p, w
  <2>3. CASE BufferSize <= d /\ IsOld(m.seq, r.m_winStartB)
    <3>1. ~(d < BufferSize)
      <4>1. d \in Nat
        BY <1>4, <1>11, DistanceOutside DEF d
      <4> QED
        BY <2>3, <4>1, SlotsIn
    <3>2. p = scored
      BY <1>1, <2>3, <3>1
    <3>3. RecipientOK(scored, base, sent, next)
      BY <1>3, <1>8, <1>10, <1>11, OutsideOK
    <3> QED
      BY <1>8, <1>10, <1>11, <1>13, <2>0, <3>2, <3>3 DEF p, w
  <2> QED
    BY <2>1, <2>2, <2>3
<1>12. CASE r.m_winStartB \in SeqNos
  <2>1. Buffering(r, base, sent, next) /\ Waiting(r, base)
    BY <1>2, <1>12, BufferingIs
  <2>2. startB \in Nat /\ startB <= next
    BY <1>2, <1>12, <2>1, PositionType DEF Buffering
  <2>3. s <= MaxMpdus /\ startB <= MaxMpdus
    BY <1>2, <1>4, <2>2
  <2>4. /\ d = IF s >= startB THEN s - startB ELSE s - startB + SeqSpace
        /\ IsOld(m.seq, r.m_winStartB) <=> s < startB
    BY <1>2, <1>4, <1>12, <2>3, DistancePosition DEF d
  <2> HIDE DEF s, startB
  <2>5. CASE startB <= s /\ s < startB + BufferSize
    <3>1. d < BufferSize
      BY <1>4, <2>2, <2>4, <2>5, SlotsIn
    <3>2. Buffering(stored, base, sent, next)
      BY <1>9, <2>1, <2>5, StoreOK DEF s, startB, w
    <3>3. /\ RecipientOK(PassBufferedMpdusUntilFirstLost(stored), base, sent, next)
          /\ PassBufferedMpdusUntilFirstLost(stored).agreement
          /\ Arrivals(PassBufferedMpdusUntilFirstLost(stored)) = Arrivals(stored)
          /\ MovesUp(PassBufferedMpdusUntilFirstLost(stored), stored, base)
      BY <3>2, PassUntilFirstLostOK
    <3>4. p = PassBufferedMpdusUntilFirstLost(stored)
      BY <1>1, <3>1
    <3> QED
      BY <1>10, <1>12, <1>13, <1>14, <3>3, <3>4 DEF p, w
  <2>6. CASE startB + BufferSize <= s
    <3>1. ~(d < BufferSize) /\ ~IsOld(m.seq, r.m_winStartB)
      BY <1>4, <2>2, <2>4, <2>6, SlotsIn
    <3>2. p = PassBufferedMpdusUntilFirstLost(jumped)
      BY <1>1, <3>1
    <3>3. /\ RecipientOK(PassBufferedMpdusUntilFirstLost(jumped), base, sent, next)
          /\ PassBufferedMpdusUntilFirstLost(jumped).agreement
          /\ Arrivals(PassBufferedMpdusUntilFirstLost(jumped)) = Arrivals(stored)
          /\ PassBufferedMpdusUntilFirstLost(jumped).m_winStartB \in SeqNos =>
                MovesUp(PassBufferedMpdusUntilFirstLost(jumped), stored, base)
      BY <1>2, <1>3, <1>4, <1>9, <1>10, <1>12, <2>1, <2>6, JumpedOK DEF s, startB, w
    <3> QED
      BY <1>10, <1>12, <1>13, <1>14, <3>2, <3>3 DEF p, w
  <2>7. CASE s < startB
    <3>1. ~(d < BufferSize) /\ IsOld(m.seq, r.m_winStartB)
      BY <1>4, <2>2, <2>3, <2>4, <2>7, FewPacketsIs
    <3>2. p = scored
      BY <1>1, <3>1
    <3>3. Buffering(scored, base, sent, next) /\ Waiting(scored, base)
      BY <1>8, <2>1, <2>7, OldOK DEF s, startB, w
    <3>4. RecipientOK(scored, base, sent, next)
      BY <1>2, <1>8, <1>12, <3>3, BufferingIs
    <3>5. ~(startB <= s)
      BY <1>4, <2>2, <2>7
    <3>6. MovesUp(scored, r, base) /\ Reached(scored, m, base)
      BY <1>8, <2>2, <2>7 DEF MovesUp, Reached, s, startB
    <3> QED
      BY <1>8, <1>10, <1>12, <1>13, <3>2, <3>4, <3>5, <3>6 DEF p, w, s, startB
  <2> QED
    BY <1>4, <2>2, <2>5, <2>6, <2>7, SlotsIn
<1> QED
  BY <1>3, <1>11, <1>12

\* A BlockAckReq moves both windows up to its starting sequence number.
LEMMA NotifyReceivedBarOK ==
  ASSUME FewPackets, NEW base, NEW sent, NEW next, NEW n, Numbering(base, sent, next, n),
         NEW r, RecipientOK(r, base, sent, next), r.agreement,
         NEW seq \in SeqNos, Position(seq, base) <= next
  PROVE  LET p == NotifyReceivedBar(r, seq)
         IN  /\ RecipientOK(p, base, sent, next) /\ p.agreement
             /\ Arrivals(p) = Arrivals(r) /\ p.scoreboard = ScoredBar(r.scoreboard, seq)
             /\ p.m_winStartB \in SeqNos =>
                   /\ r.m_winStartB \in SeqNos /\ MovesUp(p, r, base)
                   /\ Position(seq, base) <= Position(p.m_winStartB, base)
<1> DEFINE scored == [r EXCEPT !.scoreboard = ScoredBar(@, seq)]
           jumped == PassBufferedMpdusWithSeqNumberLessThan(scored, seq)
           p == NotifyReceivedBar(r, seq)
           d == Distance(seq, r.m_winStartB)
           s == Position(seq, base)
           startB == Position(r.m_winStartB, base)
           start == Position(r.scoreboard.m_winStart, base)
           pos(x) == Position(x.seq, base)
           w == ScoredBar(r.scoreboard, seq)
           vstart == Position(w.m_winStart, base)
<1>1. p = IF d > 0 /\ ~IsOld(seq, r.m_winStartB)
          THEN PassBufferedMpdusUntilFirstLost(jumped) ELSE scored
  BY DEF NotifyReceivedBar
<1>2. /\ base \in SeqNos /\ sent \in SUBSET Mpdus /\ next \in Nat /\ next <= MaxMpdus
      /\ MaxMpdus \in Nat
  <2>1. base \in SeqNos /\ sent \in SUBSET Mpdus /\ next \in 0..n /\ n \in 0..MaxMpdus
    BY DEF Numbering
  <2> QED
    BY <2>1, MpdusAssumption
<1>3. /\ r \in Recipients /\ r.scoreboard \in Windows /\ Arrivals(r) \subseteq sent
      /\ Ascending(r.passed, base) /\ r.m_winStartB \in SeqNos \cup Outside
  BY DEF RecipientOK, Recipients, Outside
<1>4. w \in Windows /\ s \in Nat
  BY <1>2, <1>3, ScoredBarType, PositionType
<1>5. /\ scored \in Recipients /\ scored.agreement /\ scored.scoreboard = w
      /\ scored.m_winStartB = r.m_winStartB /\ scored.m_bufferedMpdus = r.m_bufferedMpdus
      /\ scored.passed = r.passed
  BY <1>3, <1>4 DEF Recipients
<1> HIDE DEF scored, w, p, d
<1>6. Arrivals(scored) = Arrivals(r) /\ Arrivals(scored) \subseteq sent
  BY <1>3, <1>5 DEF Arrivals
<1>9. p.scoreboard = w
  <2>1. "scoreboard" \in DOMAIN scored
    BY <1>5 DEF Recipients
  <2> QED
    BY <1>1, <1>5, <2>1, PassScoreboard
<1>7. CASE r.m_winStartB \in Outside
  <2>0. r.m_winStartB \notin SeqNos
    BY <1>7, OutsideIs
  <2>1. ~(d > 0 /\ ~IsOld(seq, r.m_winStartB))
    BY <1>7, DistanceOutside DEF d
  <2>2. p = scored
    BY <1>1, <2>1
  <2>3. RecipientOK(scored, base, sent, next)
    BY <1>3, <1>5, <1>6, <1>7, OutsideOK
  <2> QED
    BY <1>5, <1>6, <1>9, <2>0, <2>2, <2>3 DEF p, w
<1>8. CASE r.m_winStartB \in SeqNos
  <2>1. Buffering(r, base, sent, next) /\ Waiting(r, base)
    BY <1>2, <1>8, BufferingIs
  <2>2. /\ start <= startB /\ startB <= start + BufferSize /\ startB <= next
        /\ \A q \in Nat : start <= q /\ q < startB => Has(r.scoreboard, base, q)
        /\ \A x \in r.m_bufferedMpdus :
              /\ startB <= pos(x) /\ pos(x) < startB + BufferSize
              /\ Has(r.scoreboard, base, pos(x))
        /\ \A x \in Members(r.passed) : pos(x) <= startB
    BY <2>1 DEF Buffering
  <2>3. /\ start \in Nat /\ startB \in Nat /\ start <= MaxMpdus /\ startB <= MaxMpdus
        /\ s <= MaxMpdus
    <3>1. start \in Nat /\ startB \in Nat
      BY <1>2, <1>3, <1>8, PositionType DEF Windows
    <3> QED
      BY <1>2, <1>4, <2>2, <3>1
  <2>4. /\ d = IF s >= startB THEN s - startB ELSE s - startB + SeqSpace
        /\ IsOld(seq, r.m_winStartB) <=> s < startB
    BY <1>2, <1>8, <2>3, DistancePosition DEF d
  <2>5. /\ vstart = IF s < start THEN start ELSE s
        /\ \A q \in Nat : Has(w, base, q) <=> vstart <= q /\ Has(r.scoreboard, base, q)
    BY <1>2, <1>3, <2>3, ScoredBarIs DEF w
  <2>6. \A x \in r.m_bufferedMpdus : pos(x) \in Nat
    BY <1>3, SentIs DEF Arrivals
  <2>7. CASE startB < s
    <3>1. d > 0 /\ ~IsOld(seq, r.m_winStartB) /\ vstart = s
      <4> HIDE DEF s, startB, start, vstart
      <4> QED
        BY <1>4, <2>2, <2>3, <2>4, <2>5, <2>7
    <3>2. p = PassBufferedMpdusUntilFirstLost(jumped)
      BY <1>1, <3>1
    <3>3. \A x \in scored.m_bufferedMpdus :
              /\ Position(scored.m_winStartB, base) <= Position(x.seq, base)
              /\ Position(x.seq, base) < Position(seq, base) + BufferSize
              /\ Position(seq, base) <= Position(x.seq, base) =>
                    Has(scored.scoreboard, base, Position(x.seq, base))
      <4> SUFFICES ASSUME NEW x \in r.m_bufferedMpdus
                   PROVE  /\ startB <= pos(x) /\ pos(x) < s + BufferSize
                          /\ s <= pos(x) => Has(w, base, pos(x))
        BY <1>5
      <4>1. startB <= pos(x) /\ pos(x) < startB + BufferSize /\ Has(r.scoreboard, base, pos(x))
            /\ pos(x) \in Nat
        BY <2>2, <2>6
      <4> HIDE DEF s, startB, start, vstart, pos
      <4> QED
        BY <1>4, <2>3, <2>5, <2>7, <3>1, <4>1, SlotsIn
    <3>4. /\ Position(seq, base) = Position(scored.scoreboard.m_winStart, base)
          /\ Position(scored.m_winStartB, base) <= Position(seq, base)
      <4>1. Position(scored.m_winStartB, base) <= Position(seq, base)
        <5>1. startB <= s
          <6> HIDE DEF s, startB
          <6> QED
            BY <1>4, <2>3, <2>7
        <5> QED
          BY <1>5, <5>1
      <4> QED
        BY <1>5, <3>1, <4>1
    <3>5. \A x \in Members(scored.passed) :
              Position(x.seq, base) <= Position(scored.m_winStartB, base)
      BY <1>5, <2>2
    <3> HIDE DEF s, startB, start, vstart, pos, jumped
    <3>6. /\ Buffering(jumped, base, sent, next) /\ Arrivals(jumped) = Arrivals(scored)
          /\ jumped.m_winStartB = seq /\ MovesUp(jumped, scored, base)
      BY <1>3, <1>5, <1>6, <1>8, <3>3, <3>4, <3>5, JumpOK DEF jumped
    <3>7. /\ RecipientOK(p, base, sent, next) /\ p.agreement /\ Arrivals(p) = Arrivals(jumped)
          /\ p.m_winStartB \in SeqNos /\ MovesUp(p, jumped, base)
      BY <3>2, <3>6, PassUntilFirstLostOK
    <3>8. MovesUp(p, r, base)
      <4>1. MovesUp(p, scored, base)
        BY <1>2, <1>5, <1>8, <3>6, <3>7, MovesUpTwice
      <4> QED
        BY <1>5, <4>1 DEF MovesUp
    <3>9. Position(seq, base) <= Position(p.m_winStartB, base)
      BY <3>6, <3>7 DEF MovesUp
    <3> QED
      BY <1>6, <1>8, <1>9, <3>6, <3>7, <3>8, <3>9 DEF p, w
  <2>8. CASE s <= startB
    <3>1. ~(d > 0 /\ ~IsOld(seq, r.m_winStartB))
      <4> HIDE DEF s, startB, start, vstart
      <4> QED
        BY <1>4, <2>3, <2>4, <2>8
    <3>2. p = scored
      BY <1>1, <3>1
    <3>3. vstart <= startB /\ startB <= vstart + BufferSize /\ vstart \in Nat /\ start <= vstart
      <4> HIDE DEF s, startB, start, vstart
      <4> QED
        BY <1>4, <2>2, <2>3, <2>5, <2>8, SlotsIn
    <3>4. \A q \in Nat : vstart <= q /\ q < startB => Has(w, base, q)
      <4> SUFFICES ASSUME NEW q \in Nat, vstart <= q, q < startB
                   PROVE  Has(w, base, q)
        OBVIOUS
      <4>1. start <= q
        <5> HIDE DEF s, startB, start, vstart
        <5> QED
          BY <2>3, <3>3
      <4> QED
        BY <2>2, <2>5, <4>1
    <3>5. ASSUME NEW x \in r.m_bufferedMpdus
          PROVE  Has(w, base, pos(x))
      <4>1. startB <= pos(x) /\ Has(r.scoreboard, base, pos(x)) /\ pos(x) \in Nat
        BY <2>2, <2>6
      <4>2. vstart <= pos(x)
        <5> HIDE DEF s, startB, start, vstart, pos
        <5> QED
          BY <2>3, <3>3, <4>1
      <4> QED
        BY <2>5, <4>1, <4>2
    <3>6. Buffering(scored, base, sent, next)
      BY <1>3, <1>5, <1>6, <1>8, <2>2, <3>3, <3>4, <3>5 DEF Buffering
    <3>7. Waiting(scored, base)
      BY <1>5, <2>1 DEF Waiting
    <3>8. RecipientOK(scored, base, sent, next)
      BY <1>2, <1>5, <1>8, <3>6, <3>7, BufferingIs
    <3>9. MovesUp(scored, r, base)
      BY <1>5, <2>3 DEF MovesUp, Reached
    <3> QED
      BY <1>5, <1>6, <1>8, <1>9, <2>8, <3>2, <3>8, <3>9 DEF p, w
  <2> QED
    <3> HIDE DEF s, startB
    <3> QED
      BY <1>4, <2>3, <2>7, <2>8
<1> QED
  BY <1>3, <1>7, <1>8

\* An agreement starts beyond everything that was handed up.
LEMMA CreateRecipientAgreementOK ==
  ASSUME FewPackets, NEW base, NEW sent, NEW next, NEW n, Numbering(base, sent, next, n),
         NEW r, RecipientOK(r, base, sent, next), NEW ssn \in SeqNos, Position(ssn, base) <= next,
         \A x \in Arrivals(r) : Position(x.seq, base) <= Position(ssn, base)
  PROVE  LET p == CreateRecipientAgreement(r, ssn)
         IN  /\ RecipientOK(p, base, sent, next) /\ p.agreement
             /\ Arrivals(p) \subseteq Arrivals(r)
<1> DEFINE p == CreateRecipientAgreement(r, ssn)
           s == Position(ssn, base)
<1>1. base \in SeqNos /\ s \in Nat /\ ssn \in 0..Uint16 - 1
  <2>1. base \in SeqNos
    BY DEF Numbering
  <2> QED
    BY <2>1, PositionType, SpaceIs
<1>2. NewWindow(ssn) \in Windows /\ NewWindow(ssn).m_winStart = ssn
  BY NewWindowType DEF NewWindow
<1>3. r \in Recipients /\ Arrivals(r) \subseteq sent /\ Ascending(r.passed, base)
  BY DEF RecipientOK
<1>4. /\ p \in Recipients /\ p.agreement /\ p.scoreboard = NewWindow(ssn) /\ p.m_winStartB = ssn
      /\ p.m_bufferedMpdus = {} /\ p.passed = r.passed
  <2> DEFINE w == NewWindow(ssn)
  <2>1. p = [r EXCEPT !.agreement = TRUE, !.scoreboard = w, !.m_winStartB = ssn, !.m_bufferedMpdus = {}]
    BY DEF CreateRecipientAgreement
  <2> HIDE DEF w
  <2>2. w \in Windows
    BY <1>2 DEF w
  <2> QED
    BY <1>1, <1>3, <2>1, <2>2 DEF Recipients, w
<1> HIDE DEF p
<1>5. Arrivals(p) \subseteq Arrivals(r) /\ \A x \in Members(p.passed) : Position(x.seq, base) <= s
  BY <1>4 DEF Arrivals
<1>6. s <= s + BufferSize /\ \A d \in 0..s - s - 1 : FALSE
  BY <1>1, SlotsIn
<1>7. RecipientOK(p, base, sent, next)
  <2> HIDE DEF s
  <2>1. Position(p.scoreboard.m_winStart, base) = s /\ Position(p.m_winStartB, base) = s
    BY <1>2, <1>4 DEF s
  <2>2. s <= next
    BY DEF s
  <2>3. Arrivals(p) \subseteq sent /\ Ascending(p.passed, base) /\ s <= s
    BY <1>1, <1>3, <1>4, <1>5
  <2>4. p \in Recipients /\ p.agreement /\ p.m_winStartB \in SeqNos /\ p.m_bufferedMpdus = {}
    BY <1>4
  <2> QED
    BY <1>5, <1>6, <2>1, <2>2, <2>3, <2>4 DEF RecipientOK
<1> QED
  BY <1>4, <1>5, <1>7 DEF p

\* Without an agreement an MPDU is handed up at once, after those sent before it.
LEMMA ReceiveAloneOK ==
  ASSUME NEW base, NEW sent, NEW next, NEW n, Numbering(base, sent, next, n),
         NEW r, RecipientOK(r, base, sent, next), ~r.agreement, NEW m \in sent,
         \A x \in Arrivals(r) : x.id <= m.id
  PROVE  LET p == ReceiveMpdu(r, m)
         IN  /\ RecipientOK(p, base, sent, next) /\ ~p.agreement
             /\ Arrivals(p) = Arrivals(r) \cup {m}
<1> DEFINE passed == Receive(r.passed, <<m>>)
           p == [r EXCEPT !.passed = passed]
<1>1. ReceiveMpdu(r, m) = p
  BY DEF ReceiveMpdu
<1>2. /\ r \in Recipients /\ r.passed \in Seq(Mpdus) /\ Arrivals(r) \subseteq sent
      /\ Ascending(r.passed, base) /\ r.m_bufferedMpdus = {} /\ r.scoreboard = NewWindow(0)
      /\ r.m_winStartB = 0
  BY DEF RecipientOK, Recipients
<1>3. m \in Mpdus
  BY SentIs
<1>4. passed \in Seq(Mpdus) /\ Members(passed) = Members(r.passed) \cup {m} /\ Ascending(passed, base)
  <2> DEFINE list == <<m>>
  <2>1. list \in Seq(Mpdus) /\ Len(list) = 1 /\ list[1] = m /\ DOMAIN list = {1}
    BY <1>3
  <2>2. Members(list) = {m} /\ Ascending(list, base)
    BY <2>1 DEF Members, Ascending
  <2> HIDE DEF list
  <2>3. Members(r.passed) \subseteq sent
    BY <1>2 DEF Arrivals
  <2>4. \A x \in Members(r.passed), y \in Members(list) :
            Position(x.seq, base) <= Position(y.seq, base)
    <3> SUFFICES ASSUME NEW x \in Members(r.passed)
                 PROVE  Position(x.seq, base) <= Position(m.seq, base)
      BY <2>2
    <3>1. x \in sent /\ x.id <= m.id
      BY <2>3 DEF Arrivals
    <3>2. Position(m.seq, base) < Position(x.seq, base) <=> m.id < x.id
      BY <3>1 DEF Numbering
    <3>3. /\ Position(x.seq, base) \in Nat /\ Position(m.seq, base) \in Nat
          /\ x.id \in Nat /\ m.id \in Nat
      BY <3>1, SentIs
    <3> QED
      BY <3>1, <3>2, <3>3
  <2>5. LET q == Receive(r.passed, list)
        IN  q \in Seq(Mpdus) /\ Members(q) = Members(r.passed) \cup Members(list) /\ Ascending(q, base)
    BY <1>2, <2>1, <2>2, <2>3, <2>4, ReceiveOK
  <2> QED
    BY <2>2, <2>5 DEF list
<1> HIDE DEF passed
<1>5. /\ p \in Recipients /\ p.agreement = r.agreement /\ p.scoreboard = r.scoreboard
      /\ p.m_winStartB = r.m_winStartB /\ p.m_bufferedMpdus = {} /\ p.passed = passed
  BY <1>2, <1>4 DEF Recipients
<1> HIDE DEF p
<1>6. Arrivals(p) = Arrivals(r) \cup {m}
  BY <1>2, <1>4, <1>5 DEF Arrivals
<1>7. RecipientOK(p, base, sent, next)
  <2>1. p.m_winStartB \in SeqNos \cup (Uint16 - BufferSize..Uint16 - 1)
    BY <1>5 DEF RecipientOK
  <2> QED
    BY <1>2, <1>4, <1>5, <1>6, <2>1 DEF RecipientOK
<1> QED
  BY <1>1, <1>5, <1>6, <1>7 DEF p

\* RecipientOK holds of more MPDUs, too.
LEMMA RecipientMore ==
  ASSUME NEW base \in SeqNos, NEW sent, NEW next \in Nat, NEW r, RecipientOK(r, base, sent, next),
         NEW more, sent \subseteq more, NEW after \in Nat, next <= after
  PROVE  RecipientOK(r, base, more, after)
<1>1. r.m_winStartB \in SeqNos => Position(r.m_winStartB, base) \in Nat
  BY PositionType
<1>2. \A q \in Nat : q <= next => q <= after
  OBVIOUS
<1>3. Arrivals(r) \subseteq more
  BY DEF RecipientOK
<1> QED
  BY <1>1, <1>2, <1>3 DEF RecipientOK
=============================================================================
