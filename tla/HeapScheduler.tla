---------------------------- MODULE HeapScheduler ----------------------------
(***************************************************************************)
(* src/src/core/model/heap-scheduler.cc: a binary heap in a vector. The    *)
(* code wastes element 0 of the vector so that indexes start at one, as    *)
(* they do in a TLA+ sequence.                                             *)
(***************************************************************************)
EXTENDS Integers, Sequences

CONSTANTS Delays, MaxEvents  \* as in Scheduler

VARIABLES
    m_heap, m_uid, now, returned,
    misfilled   \* history: Remove has filled a hole with an event that is
                \* earlier than the parent of the hole

vars == <<m_heap, m_uid, now, returned, misfilled>>

Contents == {m_heap[i] : i \in 1..Len(m_heap)}

Sched == INSTANCE Scheduler WITH events <- Contents

-----------------------------------------------------------------------------
Root == 1
Parent(id) == id \div 2
LeftChild(id) == id * 2
RightChild(id) == id * 2 + 1
Last(heap) == Len(heap)
IsBottom(heap, id) == id > Len(heap)
IsLessStrictly(heap, a, b) == Sched!Before(heap[a], heap[b])

\* Mutant: takes the left child whichever is smaller.
LeftOfTwo(heap, a, b) == a

Smallest(heap, a, b) == IF IsLessStrictly(heap, a, b) THEN a ELSE b

\* Mutant: the second half of the exchange is missing.
CopyOver(heap, a, b) == [heap EXCEPT ![a] = heap[b]]

Exch(heap, a, b) == [heap EXCEPT ![a] = heap[b], ![b] = heap[a]]

PopBack(heap) == SubSeq(heap, 1, Len(heap) - 1)

\* One turn of the loop of BottomUp: s.index is the element that rises in s.heap.
Rise(s) ==
    LET parent == Parent(s.index)
    IN  IF s.index # Root /\ IsLessStrictly(s.heap, s.index, parent)
        THEN [heap |-> Exch(s.heap, s.index, parent), index |-> parent]
        ELSE s

\* BottomUp. No loop takes more turns than there are elements; when it ends, Rise
\* and Sink change nothing.
BottomUp(heap) ==
    LET turns[n \in 0..Len(heap)] ==
            IF n = 0 THEN [heap |-> heap, index |-> Last(heap)] ELSE Rise(turns[n - 1])
    IN  turns[Len(heap)].heap

\* One turn of the loop of TopDown, or its last step for an element with one child.
Sink(s) ==
    LET left == LeftChild(s.index)
        right == RightChild(s.index)
        tmp == IF IsBottom(s.heap, right) THEN left ELSE Smallest(s.heap, left, right)
    IN  IF IsBottom(s.heap, left) \/ IsLessStrictly(s.heap, s.index, tmp)
        THEN s
        ELSE [heap |-> Exch(s.heap, s.index, tmp), index |-> tmp]

TopDown(heap, start) ==
    LET turns[n \in 0..Len(heap)] ==
            IF n = 0 THEN [heap |-> heap, index |-> start] ELSE Sink(turns[n - 1])
    IN  turns[Len(heap)].heap

-----------------------------------------------------------------------------
Init ==
    /\ m_heap = <<>> /\ m_uid = 1 /\ now = 0 /\ returned = Sched!NoEvent
    /\ misfilled = FALSE

Insert ==
    /\ m_uid \in Sched!Uids /\ m_uid' = m_uid + 1
    /\ \E delay \in Delays :
          m_heap' = BottomUp(Append(m_heap, Sched!NewEvent(delay)))
    /\ returned' = Sched!NoEvent
    /\ UNCHANGED <<now, misfilled>>

IsEmpty == m_heap = <<>>

PeekNext == m_heap[Root]

RemoveNext ==
    /\ ~IsEmpty
    /\ m_heap' = TopDown(PopBack(Exch(m_heap, Root, Last(m_heap))), Root)
    /\ returned' = m_heap[Root] /\ now' = m_heap[Root].ts
    /\ UNCHANGED <<m_uid, misfilled>>

Misfills(heap, i) == i # Root /\ IsLessStrictly(heap, Last(heap), Parent(i))

\* The hole is filled with the last element, which is then moved down only.
Remove ==
    /\ \E i \in 1..Len(m_heap) :
          /\ m_heap' = TopDown(PopBack(Exch(m_heap, i, Last(m_heap))), i)
          /\ misfilled' = (misfilled \/ Misfills(m_heap, i))
    /\ returned' = Sched!NoEvent
    /\ UNCHANGED <<m_uid, now>>

Next == Insert \/ RemoveNext \/ Remove

Spec == Init /\ [][Next]_vars

-----------------------------------------------------------------------------
\* Type invariant: each event inserted is in the vector at most once.
TypeOK ==
    /\ \A i \in 1..Len(m_heap) : m_heap[i].ts \in Nat /\ m_heap[i].uid \in 1..m_uid - 1
    /\ \A i, j \in 1..Len(m_heap) : m_heap[i].uid = m_heap[j].uid => i = j
    /\ now \in Nat /\ m_uid \in 1..MaxEvents + 1

\* A call changes the contents by the one event it inserts or removes.
OneEventPerCall ==
    \/ \E e \in Contents : Contents' = Contents \ {e} /\ m_uid' = m_uid
    \/ /\ m_uid' = m_uid + 1
       /\ \E e \in Contents' : e.uid = m_uid /\ Contents' = Contents \cup {e}

\* Until Remove fills a hole with an event earlier than the parent of the hole,
\* the heap is an event list: RemoveNext hands out the earliest event, Remove
\* takes out the one asked for, and nothing else appears or disappears.
\* (scheduler.h, RemoveNext: "Remove the earliest event from the event list".)
\* After that, sifting still neither loses nor duplicates events.
ImplementsScheduler ==
    /\ Sched!Init
    /\ [][OneEventPerCall /\ (~misfilled' => Sched!Next)]_<<m_heap, m_uid, now, returned>>

\* scheduler.h, PeekNext: "A pointer to the next earliest event". Time never
\* goes back when the earliest event is the one executed.
PeekEarliest == IsEmpty \/ \A e \in Contents \ {PeekNext} : Sched!Before(PeekNext, e)
=============================================================================
