---------------------------- MODULE BlockAckWindow ----------------------------
(***************************************************************************)
(* Sequence numbers and windows over them, as block-ack-agreement.cc and   *)
(* block-ack-window.cc compute them: numbers are counted modulo SeqSpace,  *)
(* a number is old when it is half the space or more ahead, and a window   *)
(* is a circular vector of bits whose head stands for its first number.    *)
(***************************************************************************)
EXTENDS Integers, Sequences, FiniteSets

CONSTANTS
    SeqSpace,    \* SEQNO_SPACE_SIZE, 4096 in the code; here a smaller power of 2
    BufferSize   \* the agreed buffer size: both windows have it

Uint16 == 65536

ASSUME WindowAssumption ==
    /\ SeqSpace \in Nat \ {0} /\ BufferSize \in Nat \ {0}
    /\ 2 * BufferSize <= SeqSpace /\ 4 * SeqSpace <= Uint16
SeqNos == 0..SeqSpace - 1
Slots == 0..BufferSize - 1

Windows == [m_winStart : SeqNos, m_window : [Slots -> BOOLEAN], m_head : Slots]

\* BlockAckAgreement::GetDistance as a caller reads it in a uint16_t. In C++
\* the remainder of a negative number is negative, which its assertion rules
\* out by asking for numbers within the space.
Distance(seqNumber, startingSeq) ==
    LET d == seqNumber - startingSeq + SeqSpace
    IN  IF d >= 0 THEN d % SeqSpace ELSE (Uint16 - ((-d) % SeqSpace)) % Uint16

IsOld(seqNumber, startingSeq) == 2 * Distance(seqNumber, startingSeq) >= SeqSpace

\* Mutant: the sum is not reduced to the space.
SeqPlusUnreduced(seqNumber, n) == seqNumber + n

SeqPlus(seqNumber, n) == (seqNumber + n) % SeqSpace

-----------------------------------------------------------------------------
NewWindow(winStart) ==
    [m_winStart |-> winStart, m_window |-> [i \in Slots |-> FALSE], m_head |-> 0]

\* The slot of the number at this distance from the start of the window.
Slot(w, distance) == (w.m_head + distance) % BufferSize

At(w, distance) == w.m_window[Slot(w, distance)]

SetAt(w, distance) == [w EXCEPT !.m_window[Slot(w, distance)] = TRUE]

\* Mutant: the bits that leave the window are not cleared.
ShiftUncleared(w, count) ==
    [w EXCEPT !.m_winStart = SeqPlus(@, count), !.m_head = (@ + count) % BufferSize]

\* The loop of Advance: the first count slots are cleared and become the last.
Shift(w, count) ==
    [m_winStart |-> SeqPlus(w.m_winStart, count),
     m_window |-> [i \in Slots |->
                      w.m_window[i] /\ (i - w.m_head + BufferSize) % BufferSize >= count],
     m_head |-> (w.m_head + count) % BufferSize]

\* BlockAckWindow::Advance
Advance(w, count) ==
    IF count >= BufferSize THEN NewWindow(SeqPlus(w.m_winStart, count)) ELSE Shift(w, count)

\* How many numbers at the start of the window are acknowledged.
Leading(w) ==
    CHOOSE n \in 0..BufferSize :
        /\ \A d \in 0..n - 1 : At(w, d)
        /\ n < BufferSize => ~At(w, n)

\* OriginatorBlockAckAgreement::AdvanceTxWindow
AdvanceTxWindow(w) == Shift(w, Leading(w))

\* The numbers a window holds as set, whatever its head.
Marked(w) == {SeqPlus(w.m_winStart, d) : d \in {e \in Slots : At(w, e)}}
=============================================================================
