------------------------- MODULE HeapSchedulerProofs -------------------------
(***************************************************************************)
(* Proof that the heap is an event list, for any number of events and any  *)
(* delays, until Remove fills a hole with an event earlier than the parent *)
(* of the hole, and that even then no event is lost or duplicated: what an *)
(* exchange does, what a turn of each loop keeps and how far it gets, and  *)
(* that the root of an ordered heap is the earliest event.                 *)
(***************************************************************************)
EXTENDS HeapScheduler, SequenceLemmas

\* The simulator's delays are not negative, and it inserts some number of events.
DelaysAreTimes == Delays \subseteq Nat /\ MaxEvents \in Nat

Events == [ts : Nat, uid : Nat]

\* A vector of events no two of which have one uid.
Vector(h) ==
    /\ h \in Seq(Events)
    /\ \A i, j \in 1..Len(h) : h[i].uid = h[j].uid => i = j

Among(h) == {h[i] : i \in 1..Len(h)}

\* g is h in some order.
Rearranged(g, h) == Vector(g) /\ Len(g) = Len(h) /\ Among(g) = Among(h)

\* No event is earlier than its parent.
InOrder(h, k) == Sched!Before(h[Parent(k)], h[k])
Ordered(h) == \A k \in 2..Len(h) : InOrder(h, k)

\* The inductive invariant.
HInv ==
    /\ m_uid \in 1..MaxEvents + 1 /\ now \in Nat
    /\ Vector(m_heap) /\ \A i \in 1..Len(m_heap) : m_heap[i].uid \in 1..m_uid - 1
    /\ ~misfilled => Ordered(m_heap)

-----------------------------------------------------------------------------
(* Keys, parents and exchanges.                                             *)

\* The order of keys is total and strict.
LEMMA KeyOrder ==
  ASSUME NEW a \in Events, NEW b \in Events, NEW c \in Events
  PROVE  /\ ~(Sched!Before(a, b) /\ Sched!Before(b, a))
         /\ Sched!Before(a, b) /\ Sched!Before(b, c) => Sched!Before(a, c)
         /\ a.uid # b.uid => Sched!Before(a, b) \/ Sched!Before(b, a)
  BY DEF Sched!Before, Events

\* A parent comes before its children, of which there are two.
LEMMA ParentIs ==
  ASSUME NEW k \in Nat, k >= 2
  PROVE  /\ Parent(k) \in Nat /\ 1 <= Parent(k) /\ Parent(k) < k
         /\ k = LeftChild(Parent(k)) \/ k = RightChild(Parent(k))
  BY DEF Parent, LeftChild, RightChild

LEMMA ChildIs ==
  ASSUME NEW i \in Nat \ {0}
  PROVE  /\ LeftChild(i) \in Nat /\ LeftChild(i) >= 2 /\ Parent(LeftChild(i)) = i
         /\ RightChild(i) = LeftChild(i) + 1 /\ Parent(RightChild(i)) = i /\ i < LeftChild(i)
  BY DEF Parent, LeftChild, RightChild

\* HeapScheduler::Exch.
LEMMA Exchanging ==
  ASSUME NEW h, Vector(h), NEW a \in 1..Len(h), NEW b \in 1..Len(h), NEW g, g = Exch(h, a, b)
  PROVE  /\ Rearranged(g, h) /\ g[a] = h[b] /\ g[b] = h[a]
         /\ \A k \in 1..Len(h) : k # a /\ k # b => g[k] = h[k]
<1>1. /\ h \in Seq(Events) /\ Len(h) \in Nat /\ DOMAIN h = 1..Len(h)
      /\ \A i \in 1..Len(h) : h[i] \in Events
  BY DEF Vector
<1>2. g \in Seq(Events) /\ Len(g) = Len(h)
  BY <1>1 DEF Exch
<1>3. /\ g[a] = h[b] /\ g[b] = h[a]
      /\ \A k \in 1..Len(h) : k # a /\ k # b => g[k] = h[k]
  BY <1>1 DEF Exch
<1> DEFINE old(k) == IF k = a THEN b ELSE IF k = b THEN a ELSE k
<1>4. \A k \in 1..Len(h) : old(k) \in 1..Len(h) /\ g[k] = h[old(k)] /\ old(old(k)) = k
  BY <1>3
<1> HIDE DEF old
<1>5. Vector(g)
  <2> SUFFICES ASSUME NEW i \in 1..Len(h), NEW j \in 1..Len(h), g[i].uid = g[j].uid
               PROVE  i = j
    BY <1>2 DEF Vector
  <2>1. old(i) = old(j)
    BY <1>4, SMTT(30) DEF Vector
  <2> QED
    BY <1>4, <2>1
<1>6. Among(g) = Among(h)
  <2>1. \A k \in 1..Len(h) : h[k] = g[old(k)]
    BY <1>4
  <2>2. Among(g) = {g[k] : k \in 1..Len(h)} /\ Among(h) = {h[k] : k \in 1..Len(h)}
    BY <1>2 DEF Among
  <2>3. ASSUME NEW e \in Among(g)
        PROVE  e \in Among(h)
    <3>1. PICK k \in 1..Len(h) : e = g[k]
      BY <2>2
    <3>2. e = h[old(k)] /\ old(k) \in 1..Len(h)
      BY <1>4, <3>1
    <3> QED
      BY <2>2, <3>2
  <2>4. ASSUME NEW e \in Among(h)
        PROVE  e \in Among(g)
    <3>1. PICK k \in 1..Len(h) : e = h[k]
      BY <2>2
    <3>2. e = g[old(k)] /\ old(k) \in 1..Len(h)
      BY <1>4, <2>1, <3>1
    <3> QED
      BY <2>2, <3>2
  <2> QED
    BY <2>3, <2>4
<1> QED
  BY <1>2, <1>3, <1>5, <1>6 DEF Rearranged

LEMMA RearrangedAgain ==
  ASSUME NEW f, NEW g, NEW h, Rearranged(f, g), Rearranged(g, h)
  PROVE  Rearranged(f, h)
  BY DEF Rearranged

\* Of two places of a vector one has the earlier event.
LEMMA Compared ==
  ASSUME NEW h, Vector(h), NEW i \in 1..Len(h), NEW j \in 1..Len(h), i # j
  PROVE  Sched!Before(h[i], h[j]) <=> ~Sched!Before(h[j], h[i])
<1>1. h[i] \in Events /\ h[j] \in Events /\ h[i].uid # h[j].uid
  BY DEF Vector
<1> QED
  BY <1>1, KeyOrder

LEMMA Transitive ==
  ASSUME NEW h, Vector(h), NEW i \in 1..Len(h), NEW j \in 1..Len(h), NEW k \in 1..Len(h),
         Sched!Before(h[i], h[j]), Sched!Before(h[j], h[k])
  PROVE  Sched!Before(h[i], h[k])
<1>1. h[i] \in Events /\ h[j] \in Events /\ h[k] \in Events
  BY DEF Vector
<1> QED
  BY <1>1, KeyOrder

\* The root of an ordered heap is the earliest event: by induction along ancestors.
LEMMA RootEarliest ==
  ASSUME NEW h, Vector(h), Ordered(h)
  PROVE  \A k \in 2..Len(h) : Sched!Before(h[Root], h[k])
<1> DEFINE T == {k \in Nat : k \in 2..Len(h) => Sched!Before(h[Root], h[k])}
<1>1. Len(h) \in Nat
  BY DEF Vector
<1>2. ASSUME NEW k \in Nat, \A j \in Nat : j < k => j \in T
      PROVE  k \in T
  <2> SUFFICES ASSUME k \in 2..Len(h)
               PROVE  Sched!Before(h[Root], h[k])
    OBVIOUS
  <2>1. Parent(k) \in Nat /\ 1 <= Parent(k) /\ Parent(k) < k /\ Sched!Before(h[Parent(k)], h[k])
    BY ParentIs DEF Ordered, InOrder
  <2>2. CASE Parent(k) = 1
    BY <2>1, <2>2 DEF Root
  <2>3. CASE Parent(k) # 1
    <3>1. Parent(k) \in 2..Len(h) /\ Parent(k) \in T
      BY <1>1, <1>2, <2>1, <2>3
    <3>2. Sched!Before(h[1], h[Parent(k)]) /\ 1 \in 1..Len(h)
      BY <1>1, <3>1 DEF Root
    <3> QED
      BY <1>1, <2>1, <3>1, <3>2, Transitive DEF Root
  <2> QED
    BY <2>2, <2>3
<1> HIDE DEF T
<1>3. Nat \subseteq T
  BY <1>2, Induction
<1> QED
  BY <1>3 DEF T

-----------------------------------------------------------------------------
(* BottomUp.                                                                *)

\* What a loop works on: the vector h rearranged, and an element of it.
States(h) == [heap : {g \in Seq(Events) : Rearranged(g, h)}, index : Nat \ {0}]

\* The heap is in order but for the element that rises, and its children stay in
\* order when it leaves its place to its parent.
Rising(s) ==
    /\ s.index \in 1..Len(s.heap)
    /\ \A k \in 2..Len(s.heap) : k # s.index => InOrder(s.heap, k)
    /\ \A k \in 2..Len(s.heap) :
          Parent(k) = s.index /\ s.index # Root => Sched!Before(s.heap[Parent(s.index)], s.heap[k])

\* A turn of BottomUp rearranges the vector.
LEMMA RiseIs ==
  ASSUME NEW h, Vector(h), NEW s \in States(h), s.index \in 1..Len(h)
  PROVE  /\ Rise(s) \in States(h) /\ Rise(s).index \in 1..Len(h)
         /\ \/ /\ Rise(s) = s
               /\ s.index # Root => Sched!Before(s.heap[Parent(s.index)], s.heap[s.index])
            \/ /\ s.index # Root /\ Sched!Before(s.heap[s.index], s.heap[Parent(s.index)])
               /\ Rise(s).index = Parent(s.index)
               /\ Rise(s).heap = Exch(s.heap, s.index, Parent(s.index))
<1> DEFINE i == s.index
           g == s.heap
           p == Parent(i)
<1>1. /\ i \in 1..Len(h) /\ Vector(g) /\ Rearranged(g, h) /\ Len(g) = Len(h) /\ Len(h) \in Nat
  BY DEF States, Rearranged, Vector
<1>2. i # Root => p \in 1..Len(h) /\ p < i
  BY <1>1, ParentIs DEF Root
<1>3. CASE i = Root \/ ~Sched!Before(g[i], g[p])
  <2>1. Rise(s) = s
    BY <1>3 DEF Rise, IsLessStrictly
  <2>2. i # Root => Sched!Before(g[p], g[i])
    <3> SUFFICES ASSUME i # Root
                 PROVE  Sched!Before(g[p], g[i])
      OBVIOUS
    <3>1. p \in 1..Len(g) /\ i \in 1..Len(g) /\ p # i
      BY <1>1, <1>2
    <3> HIDE DEF i, g, p
    <3> QED
      BY <1>1, <1>3, <3>1, Compared
  <2> QED
    BY <2>1, <2>2
<1>4. CASE i # Root /\ Sched!Before(g[i], g[p])
  <2> DEFINE e == Exch(g, i, p)
  <2>1. Rise(s) = [heap |-> e, index |-> p]
    BY <1>4 DEF Rise, IsLessStrictly
  <2>2. Rearranged(e, g)
    BY <1>1, <1>2, <1>4, Exchanging
  <2> HIDE DEF e
  <2>3. Rearranged(e, h) /\ e \in Seq(Events)
    BY <1>1, <2>2, RearrangedAgain DEF Rearranged, Vector
  <2>4. [heap |-> e, index |-> p] \in States(h)
    BY <1>1, <1>2, <1>4, <2>3 DEF States
  <2> QED
    BY <1>2, <1>4, <2>1, <2>4 DEF e
<1> QED
  BY <1>3, <1>4

\* It brings the event that rises to its place, or further up.
LEMMA RiseOrders ==
  ASSUME NEW h, Vector(h), NEW s \in States(h), s.index \in 1..Len(h), Rising(s)
  PROVE  /\ Ordered(Rise(s).heap) \/ Rise(s).index < s.index
         /\ Rising(Rise(s))
         /\ Ordered(s.heap) => Ordered(Rise(s).heap)
<1> DEFINE i == s.index
           g == s.heap
           p == Parent(i)
           t == Rise(s)
<1>1. /\ i \in 1..Len(h) /\ Vector(g) /\ Len(g) = Len(h) /\ Len(h) \in Nat
      /\ Rearranged(t.heap, h) /\ t.index \in 1..Len(h)
  BY RiseIs, SMTT(30) DEF States, Rearranged, Vector
<1>2. CASE t = s /\ (i # Root => Sched!Before(g[p], g[i]))
  <2>1. Ordered(g)
    BY <1>1, <1>2 DEF Ordered, InOrder, Rising, Root
  <2> QED
    BY <1>2, <2>1
<1>3. CASE i # Root /\ Sched!Before(g[i], g[p]) /\ t.index = p /\ t.heap = Exch(g, i, p)
  <2>1. i \in 2..Len(h) /\ p \in 1..Len(h) /\ p < i /\ p \in Nat
    BY <1>1, <1>3, ParentIs DEF Root
  <2> DEFINE e == t.heap
  <2>2. /\ e[i] = g[p] /\ e[p] = g[i] /\ Len(e) = Len(h)
        /\ \A k \in 1..Len(h) : k # i /\ k # p => e[k] = g[k]
    <3> DEFINE x == Exch(g, i, p)
    <3>1. x = t.heap /\ i \in 1..Len(g) /\ p \in 1..Len(g)
      BY <1>1, <1>3, <2>1
    <3> HIDE DEF g, i, p, t
    <3>2. Vector(g) /\ x = Exch(g, i, p)
      BY <1>1
    <3> HIDE DEF x
    <3>3. /\ Rearranged(x, g) /\ x[i] = g[p] /\ x[p] = g[i]
          /\ \A k \in 1..Len(g) : k # i /\ k # p => x[k] = g[k]
      BY <3>1, <3>2, Exchanging
    <3>4. Len(x) = Len(g)
      BY <3>3 DEF Rearranged
    <3> QED
      BY <1>1, <3>1, <3>3, <3>4
  <2>3. /\ \A k \in 2..Len(h) : k # i => Sched!Before(g[Parent(k)], g[k])
        /\ \A k \in 2..Len(h) : Parent(k) = i => Sched!Before(g[p], g[k])
    BY <1>1, <1>3 DEF Rising, InOrder
  <2>4. ~Ordered(g)
    <3>1. ~Sched!Before(g[p], g[i])
      BY <1>1, <1>3, <2>1, Compared
    <3> QED
      BY <1>1, <2>1, <3>1 DEF Ordered, InOrder
  <2> HIDE DEF e, g, p, i
  <2>5. ASSUME NEW k \in 2..Len(h), k # p
        PROVE  Sched!Before(e[Parent(k)], e[k])
    <3>1. Parent(k) \in 1..Len(h) /\ Parent(k) < k /\ k \in 1..Len(h)
      BY <1>1, ParentIs
    <3>2. CASE k = i
      BY <1>3, <2>2, <3>2 DEF p
    <3>3. CASE k # i /\ Parent(k) = i
      BY <2>2, <2>3, <2>5, <3>1, <3>3
    <3>4. CASE k # i /\ Parent(k) = p
      <4>1. Sched!Before(g[i], g[p]) /\ Sched!Before(g[p], g[k])
        BY <1>3, <2>3, <3>4
      <4>2. Sched!Before(g[i], g[k])
        BY <1>1, <2>1, <3>1, <4>1, Transitive
      <4> QED
        BY <2>2, <2>5, <3>1, <3>4, <4>2
    <3>5. CASE k # i /\ Parent(k) # i /\ Parent(k) # p
      BY <2>2, <2>3, <2>5, <3>1, <3>5
    <3> QED
      BY <3>2, <3>3, <3>4, <3>5
  <2>6. ASSUME NEW k \in 2..Len(h), Parent(k) = p, p # Root
        PROVE  Sched!Before(e[Parent(p)], e[k])
    <3>1. /\ p \in 2..Len(h) /\ p # i /\ Parent(p) \in 1..Len(h) /\ Parent(p) < p
          /\ k \in 1..Len(h) /\ k # p
      BY <1>1, <2>1, <2>6, ParentIs DEF Root
    <3>2. e[Parent(p)] = g[Parent(p)] /\ Sched!Before(g[Parent(p)], g[p])
      BY <1>1, <2>1, <2>2, <2>3, <3>1
    <3>3. CASE k = i
      BY <2>2, <3>2, <3>3
    <3>4. CASE k # i
      <4>1. Sched!Before(g[p], g[k])
        BY <2>3, <2>6, <3>4
      <4> QED
        BY <1>1, <2>2, <3>1, <3>2, <3>4, <4>1, Transitive
    <3> QED
      BY <3>3, <3>4
  <2>7. t.index = p /\ t.heap = e /\ p < i
    BY <1>3, <2>1 DEF e
  <2>8. Rising(t)
    BY <1>1, <2>1, <2>2, <2>5, <2>6, <2>7 DEF Rising, InOrder
  <2> QED
    BY <2>4, <2>7, <2>8 DEF i, g
<1> QED
  BY <1>2, <1>3, RiseIs

-----------------------------------------------------------------------------
(* TopDown.                                                                 *)

\* The heap is in order but for the children of the element that sinks, which are in
\* order with the parent of its place.
Sinking(s) ==
    /\ \A k \in 2..Len(s.heap) : Parent(k) # s.index => InOrder(s.heap, k)
    /\ \A k \in 2..Len(s.heap) :
          Parent(k) = s.index /\ s.index # Root => Sched!Before(s.heap[Parent(s.index)], s.heap[k])

\* A turn of TopDown leaves an element that is in order with its children, or
\* exchanges it with its earliest child.
LEMMA SinkIs ==
  ASSUME NEW h, Vector(h), NEW s \in States(h)
  PROVE  /\ Sink(s) \in States(h)
         /\ \/ /\ Sink(s) = s
               /\ \A k \in 2..Len(h) : Parent(k) = s.index => InOrder(s.heap, k)
            \/ \E c \in 2..Len(h) :
                  /\ Parent(c) = s.index /\ Sched!Before(s.heap[c], s.heap[s.index])
                  /\ \A k \in 2..Len(h) : Parent(k) = s.index /\ k # c =>
                        Sched!Before(s.heap[c], s.heap[k])
                  /\ Sink(s) = [heap |-> Exch(s.heap, s.index, c), index |-> c]
<1> DEFINE i == s.index
           g == s.heap
           left == LeftChild(i)
           right == RightChild(i)
           tmp == IF IsBottom(g, right) THEN left ELSE Smallest(g, left, right)
<1>1. i \in Nat \ {0} /\ Vector(g) /\ Rearranged(g, h) /\ Len(g) = Len(h) /\ Len(h) \in Nat
  BY DEF States, Rearranged, Vector
<1>2. /\ left \in Nat /\ left >= 2 /\ Parent(left) = i /\ right = left + 1 /\ Parent(right) = i
      /\ i < left
  BY <1>1, ChildIs
<1>3. \A k \in 2..Len(h) : Parent(k) = i => k = left \/ k = right
  BY <1>1, ParentIs
<1>4. IsBottom(g, left) <=> left > Len(h)
  BY <1>1 DEF IsBottom
<1>5. IsBottom(g, right) <=> right > Len(h)
  BY <1>1 DEF IsBottom
<1>6. Sink(s) = IF IsBottom(g, left) \/ Sched!Before(g[i], g[tmp])
                THEN s ELSE [heap |-> Exch(g, i, tmp), index |-> tmp]
  BY DEF Sink, IsLessStrictly
<1>7. CASE left > Len(h)
  <2>1. Sink(s) = s
    BY <1>4, <1>6, <1>7
  <2>2. \A k \in 2..Len(h) : Parent(k) # i
    <3> HIDE DEF left, right, i
    <3> QED
      BY <1>1, <1>2, <1>3, <1>7
  <2> QED
    BY <2>1, <2>2
<1>8. CASE left <= Len(h)
  <2> HIDE DEF i, g, left, right
  <2>1. /\ tmp \in {left, right} /\ tmp \in 2..Len(h) /\ Parent(tmp) = i
        /\ \A k \in 2..Len(h) : Parent(k) = i /\ k # tmp => Sched!Before(g[tmp], g[k])
    <3>1. CASE right > Len(h)
      <4>1. tmp = left
        BY <1>5, <3>1
      <4> HIDE DEF tmp
      <4> QED
        BY <1>1, <1>2, <1>3, <1>8, <3>1, <4>1
    <3>2. CASE right <= Len(h)
      <4>1. left \in 1..Len(g) /\ right \in 1..Len(g) /\ left # right /\ ~IsBottom(g, right)
        BY <1>1, <1>2, <1>5, <1>8, <3>2
      <4>2. Sched!Before(g[left], g[right]) <=> ~Sched!Before(g[right], g[left])
        BY <1>1, <4>1, Compared
      <4>3. tmp = IF Sched!Before(g[left], g[right]) THEN left ELSE right
        BY <4>1 DEF Smallest, IsLessStrictly
      <4> HIDE DEF tmp
      <4> QED
        BY <1>1, <1>2, <1>3, <1>8, <3>2, <4>2, <4>3
    <3> QED
      BY <1>1, <1>2, <3>1, <3>2
  <2> HIDE DEF tmp
  <2>2. tmp \in 1..Len(h) /\ i \in 1..Len(h) /\ i # tmp
    BY <1>1, <1>2, <1>8, <2>1
  <2>3. CASE Sched!Before(g[i], g[tmp])
    <3>1. Sink(s) = s
      BY <1>6, <2>3
    <3>2. ASSUME NEW k \in 2..Len(h), Parent(k) = i
          PROVE  Sched!Before(g[i], g[k])
      <4>1. CASE k = tmp
        BY <2>3, <4>1
      <4>2. CASE k # tmp
        <5>1. Sched!Before(g[tmp], g[k]) /\ k \in 1..Len(h)
          BY <2>1, <3>2, <4>2
        <5> QED
          BY <1>1, <2>2, <2>3, <5>1, Transitive
      <4> QED
        BY <4>1, <4>2
    <3>3. \A k \in 2..Len(h) : Parent(k) = s.index => InOrder(s.heap, k)
      BY <3>2 DEF InOrder, i, g
    <3> QED
      BY <3>1, <3>3
  <2>4. CASE ~Sched!Before(g[i], g[tmp])
    <3> DEFINE e == Exch(g, i, tmp)
    <3>1. Sink(s) = [heap |-> e, index |-> tmp]
      <4>1. ~IsBottom(g, left)
        BY <1>1, <1>2, <1>4, <1>8
      <4> QED
        BY <1>6, <2>4, <4>1
    <3>2. Sched!Before(g[tmp], g[i])
      BY <1>1, <2>2, <2>4, Compared
    <3>3. Rearranged(e, g)
      BY <1>1, <2>2, Exchanging
    <3> HIDE DEF e
    <3>4. Rearranged(e, h) /\ e \in Seq(Events)
      BY <1>1, <3>3, RearrangedAgain DEF Rearranged, Vector
    <3>5. Sink(s) \in States(h)
      BY <2>2, <3>1, <3>4 DEF States
    <3> QED
      BY <2>1, <3>1, <3>2, <3>5 DEF e, i, g
  <2> QED
    BY <2>3, <2>4
<1>9. Len(h) < left \/ left <= Len(h)
  <2> HIDE DEF left
  <2> QED
    BY <1>1, <1>2
<1> QED
  BY <1>7, <1>8, <1>9

\* It brings the event that sinks to its place, or further down.
LEMMA SinkOrders ==
  ASSUME NEW h, Vector(h), NEW s \in States(h), Sinking(s)
  PROVE  /\ Ordered(Sink(s).heap) \/ Sink(s).index > s.index
         /\ Sinking(Sink(s))
         /\ Ordered(s.heap) => Ordered(Sink(s).heap)
<1> DEFINE i == s.index
           g == s.heap
           t == Sink(s)
<1>1. /\ i \in Nat \ {0} /\ Vector(g) /\ Len(g) = Len(h) /\ Len(h) \in Nat
  BY DEF States, Rearranged, Vector
<1>2. CASE t = s /\ \A k \in 2..Len(h) : Parent(k) = i => InOrder(g, k)
  <2>1. Ordered(g)
    BY <1>1, <1>2 DEF Ordered, Sinking
  <2> QED
    BY <1>2, <2>1
<1>3. ASSUME NEW c \in 2..Len(h),
             Parent(c) = i, Sched!Before(g[c], g[i]), t = [heap |-> Exch(g, i, c), index |-> c],
             \A k \in 2..Len(h) : Parent(k) = i /\ k # c => Sched!Before(g[c], g[k])
      PROVE  ~Ordered(g) /\ t.index > i /\ Sinking(t)
  <2> DEFINE e == Exch(g, i, c)
  <2>1. c \in Nat /\ c \in 1..Len(h) /\ i \in 1..Len(h) /\ i < c
    BY <1>1, <1>3, ParentIs
  <2>2. /\ \A k \in 2..Len(h) : Parent(k) # i => Sched!Before(g[Parent(k)], g[k])
        /\ \A k \in 2..Len(h) : Parent(k) = i /\ i # Root => Sched!Before(g[Parent(i)], g[k])
    BY <1>1 DEF Sinking, InOrder
  <2>3. t.index = c /\ t.heap = e
    BY <1>3
  <2> HIDE DEF e, g, i, t
  <2>4. Vector(g) /\ e = Exch(g, i, c) /\ i \in 1..Len(g) /\ c \in 1..Len(g)
    BY <1>1, <2>1 DEF e
  <2>5. /\ Rearranged(e, g) /\ e[i] = g[c] /\ e[c] = g[i]
        /\ \A k \in 1..Len(g) : k # i /\ k # c => e[k] = g[k]
    BY <2>4, Exchanging
  <2>6. Len(e) = Len(h)
    BY <1>1, <2>5 DEF Rearranged
  <2>7. ~Ordered(g)
    <3>1. ~Sched!Before(g[i], g[c])
      BY <1>3, <2>1, <2>4, Compared
    <3> QED
      BY <1>1, <1>3, <3>1 DEF Ordered, InOrder
  <2>8. ASSUME NEW k \in 2..Len(h), Parent(k) # c
        PROVE  Sched!Before(e[Parent(k)], e[k])
    <3>1. Parent(k) \in 1..Len(h) /\ Parent(k) < k /\ k \in 1..Len(h)
      BY <1>1, ParentIs
    <3>2. CASE k = i
      <4>1. Parent(k) # i /\ k # c /\ i # Root
        BY <2>1, <3>1, <3>2 DEF Root
      <4>2. e[k] = g[c] /\ e[Parent(k)] = g[Parent(i)]
        BY <1>1, <2>5, <2>8, <3>1, <3>2, <4>1
      <4> QED
        BY <1>3, <2>2, <4>1, <4>2
    <3>3. CASE k = c
      BY <1>3, <2>5, <3>3
    <3>4. CASE k # i /\ k # c /\ Parent(k) = i
      BY <1>1, <1>3, <2>5, <3>1, <3>4
    <3>5. CASE k # i /\ k # c /\ Parent(k) # i
      BY <1>1, <2>2, <2>5, <2>8, <3>1, <3>5
    <3> QED
      BY <3>2, <3>3, <3>4, <3>5
  <2>9. ASSUME NEW k \in 2..Len(h), Parent(k) = c
        PROVE  Sched!Before(e[Parent(c)], e[k])
    <3>1. Parent(k) < k /\ k \in 1..Len(h) /\ k # c /\ k # i /\ Parent(k) # i
      BY <1>1, <2>1, <2>9, ParentIs
    <3>2. Sched!Before(g[c], g[k]) /\ e[k] = g[k]
      BY <1>1, <2>2, <2>5, <2>9, <3>1
    <3> QED
      BY <1>3, <2>5, <3>2
  <2>10. Sinking(t)
    BY <2>3, <2>6, <2>8, <2>9 DEF Sinking, InOrder
  <2> QED
    BY <2>1, <2>3, <2>7, <2>10
<1> QED
  BY <1>2, <1>3, SinkIs

-----------------------------------------------------------------------------
(* The loops.                                                               *)

\* BottomUp, turn by turn.
LEMMA BottomUpUnfolds ==
  ASSUME NEW h, Vector(h), Len(h) > 0
  PROVE  \E f : /\ f[0] = [heap |-> h, index |-> Len(h)] /\ BottomUp(h) = f[Len(h)].heap
                /\ \A n \in 1..Len(h) : f[n] = Rise(f[n - 1])
                /\ \A n \in 0..Len(h) : f[n] \in States(h) /\ f[n].index \in 1..Len(h)
<1> DEFINE len == Len(h)
           a == [heap |-> h, index |-> len]
           S == {s \in States(h) : s.index \in 1..len}
           values(f) == [n \in 0..len |-> IF n = 0 THEN a ELSE Rise(f[n - 1])]
           turns == CHOOSE f : f = values(f)
           g == [n \in 1..len |-> [s \in S |-> Rise(s)]]
<1>1. len \in Nat \ {0} /\ h \in Seq(Events)
  BY DEF Vector
<1>2. a \in S
  BY <1>1 DEF States, Rearranged
<1>3. StaysIn(g, len, S)
  BY RiseIs DEF StaysIn
<1>4. PICK f : IsFold(f, g, len, S, a)
  <2> HIDE DEF g, len, S, a, turns
  <2> QED
    BY <1>1, <1>2, <1>3, Folding, Zenon
<1> HIDE DEF a, S
<1>5. \A n \in 1..len : f[n - 1] \in S /\ f[n] = Rise(f[n - 1])
  <2>1. \A n \in 1..len : f[n - 1] \in S
    BY <1>1, <1>4 DEF IsFold
  <2> QED
    BY <1>4, <2>1 DEF IsFold
<1>6. f = values(f)
  BY <1>1, <1>4, <1>5 DEF IsFold
<1>7. turns = values(turns)
  BY <1>6
<1>8. BottomUp(h) = turns[len].heap
  BY DEF BottomUp, Last, a
<1> HIDE DEF turns, g
<1>9. turns[0] = a /\ \A n \in 1..len : turns[n] = Rise(turns[n - 1])
  <2> DEFINE v == values(turns)
  <2>1. turns = v /\ v[0] = a /\ \A n \in 1..len : v[n] = Rise(turns[n - 1])
    BY <1>1, <1>7
  <2> HIDE DEF v
  <2> QED
    BY <2>1
<1>10. \A n \in 0..len : turns[n] \in S
  <2> DEFINE T == {n \in 0..len : turns[n] \in S}
  <2>1. 0 \in T
    BY <1>1, <1>2, <1>9
  <2>2. \A n \in 1..len : n - 1 \in T => n \in T
    BY <1>9, RiseIs DEF S
  <2> HIDE DEF T
  <2>3. \A n \in 0..len : n \in T
    BY <1>1, <2>1, <2>2, UpTo
  <2> QED
    BY <2>3 DEF T
<1> QED
  BY <1>8, <1>9, <1>10 DEF a, S

\* TopDown, turn by turn.
LEMMA TopDownUnfolds ==
  ASSUME NEW h, Vector(h), NEW start \in Nat \ {0}
  PROVE  \E f : /\ f[0] = [heap |-> h, index |-> start] /\ TopDown(h, start) = f[Len(h)].heap
                /\ \A n \in 1..Len(h) : f[n] = Sink(f[n - 1])
                /\ \A n \in 0..Len(h) : f[n] \in States(h)
<1> DEFINE len == Len(h)
           a == [heap |-> h, index |-> start]
           S == States(h)
           values(f) == [n \in 0..len |-> IF n = 0 THEN a ELSE Sink(f[n - 1])]
           turns == CHOOSE f : f = values(f)
           g == [n \in 1..len |-> [s \in S |-> Sink(s)]]
<1>1. len \in Nat /\ h \in Seq(Events)
  BY DEF Vector
<1>2. a \in S
  BY <1>1 DEF States, Rearranged
<1>3. StaysIn(g, len, S)
  BY SinkIs DEF StaysIn
<1>4. PICK f : IsFold(f, g, len, S, a)
  <2> HIDE DEF g, len, S, a, turns
  <2> QED
    BY <1>1, <1>2, <1>3, Folding, Zenon
<1> HIDE DEF a, S
<1>5. \A n \in 1..len : f[n - 1] \in S /\ f[n] = Sink(f[n - 1])
  <2>1. \A n \in 1..len : f[n - 1] \in S
    BY <1>1, <1>4 DEF IsFold
  <2> QED
    BY <1>4, <2>1 DEF IsFold
<1>6. f = values(f)
  BY <1>1, <1>4, <1>5 DEF IsFold
<1>7. turns = values(turns)
  BY <1>6
<1>8. TopDown(h, start) = turns[len].heap
  BY DEF TopDown, a
<1> HIDE DEF turns, g
<1>9. turns[0] = a /\ \A n \in 1..len : turns[n] = Sink(turns[n - 1])
  <2> DEFINE v == values(turns)
  <2>1. turns = v /\ v[0] = a /\ \A n \in 1..len : v[n] = Sink(turns[n - 1])
    BY <1>1, <1>7
  <2> HIDE DEF v
  <2> QED
    BY <2>1
<1>10. \A n \in 0..len : turns[n] \in S
  <2> DEFINE T == {n \in 0..len : turns[n] \in S}
  <2>1. 0 \in T
    BY <1>1, <1>2, <1>9
  <2>2. \A n \in 1..len : n - 1 \in T => n \in T
    BY <1>9, SinkIs DEF S
  <2> HIDE DEF T
  <2>3. \A n \in 0..len : n \in T
    BY <1>1, <2>1, <2>2, UpTo
  <2> QED
    BY <2>3 DEF T
<1> QED
  BY <1>8, <1>9, <1>10 DEF a, S

\* BottomUp rearranges the vector, and leaves it in order if only the last element
\* was not: every turn takes the index up or ends in order.
LEMMA BottomUpOK ==
  ASSUME NEW h, Vector(h), Len(h) > 0
  PROVE  /\ Rearranged(BottomUp(h), h)
         /\ Rising([heap |-> h, index |-> Len(h)]) => Ordered(BottomUp(h))
<1> DEFINE len == Len(h)
<1>1. len \in Nat
  BY DEF Vector
<1>2. PICK f : /\ f[0] = [heap |-> h, index |-> len] /\ BottomUp(h) = f[len].heap
               /\ \A n \in 1..len : f[n] = Rise(f[n - 1])
               /\ \A n \in 0..len : f[n] \in States(h) /\ f[n].index \in 1..len
  BY BottomUpUnfolds
<1>3. Rearranged(f[len].heap, h)
  BY <1>1, <1>2 DEF States
<1>4. ASSUME Rising(f[0])
      PROVE  Ordered(f[len].heap)
  <2> DEFINE T == {n \in 0..len : Rising(f[n]) /\ (Ordered(f[n].heap) \/ f[n].index <= len - n)}
  <2>1. 0 \in T
    BY <1>1, <1>2, <1>4
  <2>2. ASSUME NEW n \in 1..len, n - 1 \in T
        PROVE  n \in T
    <3>1. /\ f[n - 1] \in States(h) /\ f[n - 1].index \in 1..len /\ f[n].index \in 1..len
          /\ f[n] = Rise(f[n - 1]) /\ Rising(f[n - 1])
          /\ Ordered(f[n - 1].heap) \/ f[n - 1].index <= len - (n - 1)
      BY <1>1, <1>2, <2>2
    <3>2. /\ Ordered(f[n].heap) \/ f[n].index < f[n - 1].index
          /\ Rising(f[n]) /\ (Ordered(f[n - 1].heap) => Ordered(f[n].heap))
      BY <3>1, RiseOrders
    <3>3. Ordered(f[n].heap) \/ f[n].index <= len - n
      BY <1>1, <3>1, <3>2
    <3> QED
      BY <3>2, <3>3
  <2>3. len \in T
    <3> HIDE DEF T, len
    <3>1. \A n \in 1..len : n - 1 \in T => n \in T
      BY <2>2
    <3>2. \A n \in 0..len : n \in T
      BY <1>1, <2>1, <3>1, UpTo
    <3> QED
      BY <1>1, <3>2
  <2> HIDE DEF T
  <2> QED
    BY <1>1, <1>2, <2>3 DEF T
<1> QED
  BY <1>2, <1>3, <1>4

\* TopDown rearranges the vector, and leaves it in order if only the children of the
\* place it begins with were not: every turn takes the index down or ends in order.
LEMMA TopDownOK ==
  ASSUME NEW h, Vector(h), NEW start \in Nat \ {0}
  PROVE  /\ Rearranged(TopDown(h, start), h)
         /\ Sinking([heap |-> h, index |-> start]) => Ordered(TopDown(h, start))
<1> DEFINE len == Len(h)
<1>1. len \in Nat
  BY DEF Vector
<1>2. PICK f : /\ f[0] = [heap |-> h, index |-> start] /\ TopDown(h, start) = f[len].heap
               /\ \A n \in 1..len : f[n] = Sink(f[n - 1])
               /\ \A n \in 0..len : f[n] \in States(h)
  BY TopDownUnfolds
<1>3. Rearranged(f[len].heap, h)
  BY <1>1, <1>2 DEF States
<1>4. ASSUME Sinking(f[0])
      PROVE  Ordered(f[len].heap)
  <2> DEFINE T == {n \in 0..len : Sinking(f[n]) /\ (Ordered(f[n].heap) \/ f[n].index > n)}
  <2>1. 0 \in T
    BY <1>1, <1>2, <1>4
  <2>2. ASSUME NEW n \in 1..len, n - 1 \in T
        PROVE  n \in T
    <3>1. /\ f[n - 1] \in States(h) /\ f[n] \in States(h)
          /\ f[n] = Sink(f[n - 1]) /\ Sinking(f[n - 1])
          /\ Ordered(f[n - 1].heap) \/ f[n - 1].index > n - 1
      BY <1>1, <1>2, <2>2
    <3>2. /\ Ordered(f[n].heap) \/ f[n].index > f[n - 1].index
          /\ Sinking(f[n]) /\ (Ordered(f[n - 1].heap) => Ordered(f[n].heap))
      BY <3>1, SinkOrders
    <3>3. f[n].index \in Nat /\ f[n - 1].index \in Nat
      BY <3>1 DEF States
    <3>4. Ordered(f[n].heap) \/ f[n].index > n
      BY <3>1, <3>2, <3>3
    <3> QED
      BY <3>2, <3>4
  <2>3. len \in T
    <3> HIDE DEF T, len
    <3>1. \A n \in 1..len : n - 1 \in T => n \in T
      BY <2>2
    <3>2. \A n \in 0..len : n \in T
      BY <1>1, <2>1, <3>1, UpTo
    <3> QED
      BY <1>1, <3>2
  <2> HIDE DEF T
  <2>4. Sinking(f[len]) /\ (Ordered(f[len].heap) \/ f[len].index > len)
    BY <2>3 DEF T
  <2>5. Len(f[len].heap) = len
    BY <1>3 DEF Rearranged
  <2>6. CASE f[len].index > len
    <3>1. \A k \in 2..len : Parent(k) \in Nat /\ Parent(k) < k
      BY ParentIs
    <3>2. f[len].index \in Nat
      BY <1>1, <1>2 DEF States
    <3>3. \A k \in 2..len : Parent(k) # f[len].index
      BY <1>1, <2>6, <3>1, <3>2
    <3> HIDE DEF len
    <3> QED
      BY <2>4, <2>5, <3>3 DEF Sinking, Ordered
  <2> QED
    BY <2>4, <2>6
<1> QED
  BY <1>2, <1>3, <1>4

-----------------------------------------------------------------------------
(* The operations.                                                          *)

\* The event list of the abstract specification.
LEMMA ContentsAre == Contents = Among(m_heap)
  BY DEF Contents, Among

\* push_back of a new event.
LEMMA Appending ==
  ASSUME NEW h, Vector(h), NEW ev \in Events, \A i \in 1..Len(h) : h[i].uid # ev.uid,
         NEW g, g = Append(h, ev)
  PROVE  /\ Vector(g) /\ Len(g) = Len(h) + 1 /\ Among(g) = Among(h) \cup {ev}
         /\ Ordered(h) => Rising([heap |-> g, index |-> Len(g)])
<1> DEFINE len == Len(h)
<1>1. h \in Seq(Events) /\ len \in Nat /\ g \in Seq(Events) /\ Len(g) = len + 1
  BY DEF Vector
<1>2. g[len + 1] = ev /\ \A i \in 1..len : g[i] = h[i]
  BY <1>1
<1> HIDE DEF len
<1>3. Vector(g)
  <2> SUFFICES ASSUME NEW i \in 1..len + 1, NEW j \in 1..len + 1, g[i].uid = g[j].uid
               PROVE  i = j
    BY <1>1 DEF Vector
  <2>1. CASE i \in 1..len /\ j \in 1..len
    BY <1>2, <2>1 DEF Vector, len
  <2>2. CASE i = len + 1 \/ j = len + 1
    BY <1>1, <1>2, <2>2 DEF len
  <2> QED
    BY <1>1, <2>1, <2>2
<1>4. Among(g) = Among(h) \cup {ev}
  <2>1. 1..Len(g) = 1..len \cup {len + 1}
    BY <1>1
  <2> QED
    BY <1>2, <2>1 DEF Among, len
<1>5. ASSUME Ordered(h)
      PROVE  Rising([heap |-> g, index |-> Len(g)])
  <2>1. \A k \in 2..len + 1 : Parent(k) \in 1..len /\ Parent(k) # len + 1
    BY <1>1, ParentIs
  <2>2. ASSUME NEW k \in 2..len + 1, k # len + 1
        PROVE  InOrder(g, k)
    <3>1. k \in 2..len /\ InOrder(h, k)
      BY <1>1, <1>5, <2>2 DEF Ordered, len
    <3>2. g[k] = h[k] /\ g[Parent(k)] = h[Parent(k)]
      BY <1>1, <1>2, <2>1, <2>2, <3>1
    <3> QED
      BY <3>1, <3>2 DEF InOrder
  <2>3. len + 1 \in 1..Len(g)
    BY <1>1
  <2> QED
    BY <1>1, <2>1, <2>2, <2>3 DEF Rising
<1> QED
  BY <1>1, <1>3, <1>4, <1>5 DEF len

\* Filling a hole with the last event.
LEMMA Filling ==
  ASSUME NEW h, Vector(h), NEW i \in 1..Len(h), NEW g, g = PopBack(Exch(h, i, Last(h)))
  PROVE  /\ Vector(g) /\ Among(g) = Among(h) \ {h[i]}
         /\ Ordered(h) /\ ~Misfills(h, i) => Sinking([heap |-> g, index |-> i])
<1> DEFINE len == Len(h)
           e == Exch(h, i, len)
<1>1. /\ h \in Seq(Events) /\ len \in Nat /\ len \in 1..Len(h) /\ i \in 1..len
      /\ \A k \in 1..len : h[k] \in Events
  BY DEF Vector
<1>2. /\ Rearranged(e, h) /\ e[i] = h[len] /\ e[len] = h[i]
      /\ \A k \in 1..len : k # i /\ k # len => e[k] = h[k]
  BY <1>1, Exchanging
<1>3. g = SubSeq(e, 1, Len(e) - 1)
  BY DEF PopBack, Last
<1> HIDE DEF e
<1>4. e \in Seq(Events) /\ Len(e) = len /\ Vector(e) /\ Among(e) = Among(h)
  BY <1>2 DEF Rearranged, Vector
<1>5. g \in Seq(Events) /\ Len(g) = len - 1 /\ \A k \in 1..len - 1 : g[k] = e[k]
  <2> HIDE DEF len
  <2> QED
    BY <1>1, <1>3, <1>4
<1> HIDE DEF len
<1>6. Vector(g)
  <2> SUFFICES ASSUME NEW j \in 1..len - 1, NEW k \in 1..len - 1, g[j].uid = g[k].uid
               PROVE  j = k
    BY <1>5 DEF Vector
  <2>1. j \in 1..Len(e) /\ k \in 1..Len(e) /\ e[j].uid = e[k].uid
    BY <1>1, <1>4, <1>5
  <2> QED
    BY <1>4, <2>1 DEF Vector
<1>7. Among(g) = Among(h) \ {h[i]}
  <2>1. ASSUME NEW k \in 1..len - 1
        PROVE  e[k] # e[len]
    <3>1. k \in 1..Len(e) /\ len \in 1..Len(e) /\ k # len
      BY <1>1, <1>4
    <3> QED
      BY <1>4, <3>1 DEF Vector
  <2>2. 1..len = 1..len - 1 \cup {len}
    BY <1>1
  <2>3. Among(e) = Among(g) \cup {e[len]} /\ e[len] \notin Among(g)
    BY <1>4, <1>5, <2>1, <2>2 DEF Among
  <2> QED
    BY <1>2, <1>4, <2>3
<1>8. ASSUME Ordered(h), ~Misfills(h, i)
      PROVE  Sinking([heap |-> g, index |-> i])
  <2>1. /\ \A k \in 1..len - 1 : k # i => g[k] = h[k]
        /\ i \in 1..len - 1 => g[i] = h[len]
    BY <1>1, <1>2, <1>5
  <2>2. \A k \in 2..len : Parent(k) \in Nat /\ 1 <= Parent(k) /\ Parent(k) < k
    BY ParentIs
  <2>3. ASSUME NEW k \in 2..len - 1, Parent(k) # i
        PROVE  Sched!Before(g[Parent(k)], g[k])
    <3>1. /\ k \in 2..len /\ Parent(k) \in 1..len - 1 /\ k \in 1..len - 1
          /\ Sched!Before(h[Parent(k)], h[k]) /\ g[Parent(k)] = h[Parent(k)]
      BY <1>1, <1>8, <2>1, <2>2, <2>3 DEF Ordered, InOrder, len
    <3>2. CASE k # i
      BY <2>1, <3>1, <3>2
    <3>3. CASE k = i
      <4>1. i # Root /\ ~Sched!Before(h[len], h[Parent(i)])
        BY <1>8, <2>3, <3>3 DEF Misfills, IsLessStrictly, Last, Root, len
      <4>2. Parent(i) \in 1..Len(h) /\ len \in 1..Len(h) /\ Parent(i) # len
        BY <1>1, <3>1, <3>3 DEF len
      <4>3. Sched!Before(h[Parent(i)], h[len])
        BY <4>1, <4>2, Compared
      <4> QED
        BY <2>1, <3>1, <3>3, <4>3
    <3> QED
      BY <3>2, <3>3
  <2>4. ASSUME NEW k \in 2..len - 1, Parent(k) = i, i # Root
        PROVE  Sched!Before(g[Parent(i)], g[k])
    <3>1. /\ k \in 2..len /\ i \in 2..len /\ k # i /\ k \in 1..len /\ Parent(i) \in 1..len
          /\ k \in 1..len - 1 /\ Parent(i) \in 1..len - 1 /\ Parent(i) # i
      BY <1>1, <2>2, <2>4 DEF Root
    <3>2. Sched!Before(h[Parent(i)], h[i]) /\ Sched!Before(h[i], h[k])
      BY <1>8, <2>4, <3>1 DEF Ordered, InOrder, len
    <3>3. Sched!Before(h[Parent(i)], h[k])
      BY <1>1, <3>1, <3>2, Transitive DEF len
    <3> QED
      BY <2>1, <3>1, <3>3
  <2> QED
    BY <1>5, <2>3, <2>4 DEF Sinking, InOrder
<1> QED
  BY <1>6, <1>7, <1>8

\* The uids of what is left are those of what was there.
LEMMA UidsStay ==
  ASSUME NEW g, NEW h, NEW U, Among(g) \subseteq Among(h), \A i \in 1..Len(h) : h[i].uid \in U
  PROVE  \A i \in 1..Len(g) : g[i].uid \in U
<1>1. \A i \in 1..Len(g) : \E j \in 1..Len(h) : g[i] = h[j]
  BY DEF Among
<1> QED
  BY <1>1

\* HeapScheduler::Insert.
LEMMA InsertStep ==
  ASSUME DelaysAreTimes, HInv, Insert
  PROVE  HInv' /\ Sched!Insert /\ OneEventPerCall
<1>1. PICK delay \in Delays : m_heap' = BottomUp(Append(m_heap, Sched!NewEvent(delay)))
  BY DEF Insert
<1> DEFINE ev == Sched!NewEvent(delay)
           h == Append(m_heap, ev)
<1>2. /\ m_uid \in 1..MaxEvents /\ m_uid' = m_uid + 1 /\ returned' = Sched!NoEvent
      /\ now' = now /\ misfilled' = misfilled
  BY DEF Insert, Sched!Uids
<1>3. ev \in Events /\ ev.uid = m_uid
  BY <1>2 DEF DelaysAreTimes, HInv, Sched!NewEvent, Events
<1> HIDE DEF ev
<1>4. Vector(m_heap) /\ \A i \in 1..Len(m_heap) : m_heap[i].uid \in 1..m_uid - 1
  BY DEF HInv
<1>5. /\ Vector(h) /\ Len(h) = Len(m_heap) + 1 /\ Among(h) = Among(m_heap) \cup {ev}
      /\ Ordered(m_heap) => Rising([heap |-> h, index |-> Len(h)])
  <2>1. \A i \in 1..Len(m_heap) : m_heap[i].uid # ev.uid
    BY <1>2, <1>3, <1>4
  <2> QED
    BY <1>3, <1>4, <2>1, Appending
<1> HIDE DEF h
<1>6. Len(h) > 0
  BY <1>4, <1>5 DEF Vector
<1>7. /\ Rearranged(m_heap', h)
      /\ Rising([heap |-> h, index |-> Len(h)]) => Ordered(m_heap')
  BY <1>1, <1>5, <1>6, BottomUpOK DEF h, ev
<1>8. Contents' = Contents \cup {ev}
  BY <1>5, <1>7 DEF Contents, Among, Rearranged
<1>9. \A i \in 1..Len(m_heap') : m_heap'[i].uid \in 1..m_uid'- 1
  <2>1. \A i \in 1..Len(m_heap') : m_heap'[i] = ev \/ \E j \in 1..Len(m_heap) : m_heap'[i] = m_heap[j]
    BY <1>5, <1>7 DEF Rearranged, Among
  <2> QED
    BY <1>2, <1>3, <1>4, <2>1
<1>10. HInv'
  <2>1. m_uid' \in 1..MaxEvents + 1 /\ now' \in Nat
    BY <1>2 DEF HInv, DelaysAreTimes
  <2> QED
    BY <1>2, <1>5, <1>7, <1>9, <2>1 DEF HInv, Rearranged
<1>11. Sched!Insert
  BY <1>2, <1>8 DEF Sched!Insert, Sched!InsertOf, Sched!Uids, ev
<1>12. OneEventPerCall
  BY <1>2, <1>3, <1>8 DEF OneEventPerCall
<1> QED
  BY <1>10, <1>11, <1>12

\* A hole is filled, wherever it is.
LEMMA HoleFilled ==
  ASSUME HInv, NEW i \in 1..Len(m_heap),
         m_heap' = TopDown(PopBack(Exch(m_heap, i, Last(m_heap))), i),
         m_uid' = m_uid, now' \in Nat, ~misfilled' => ~misfilled /\ ~Misfills(m_heap, i)
  PROVE  HInv' /\ Contents' = Contents \ {m_heap[i]} /\ m_heap[i] \in Contents
<1> DEFINE h == PopBack(Exch(m_heap, i, Last(m_heap)))
<1>1. Vector(m_heap) /\ \A k \in 1..Len(m_heap) : m_heap[k].uid \in 1..m_uid - 1
  BY DEF HInv
<1>2. /\ Vector(h) /\ Among(h) = Among(m_heap) \ {m_heap[i]}
      /\ Ordered(m_heap) /\ ~Misfills(m_heap, i) => Sinking([heap |-> h, index |-> i])
  BY <1>1, Filling
<1> HIDE DEF h
<1>3. i \in Nat \ {0}
  BY <1>1 DEF Vector
<1>4. /\ Rearranged(m_heap', h)
      /\ Sinking([heap |-> h, index |-> i]) => Ordered(m_heap')
  BY <1>2, <1>3, TopDownOK DEF h
<1>5. Contents' = Contents \ {m_heap[i]} /\ m_heap[i] \in Contents
  BY <1>2, <1>4 DEF Contents, Among, Rearranged
<1>6. \A k \in 1..Len(m_heap') : m_heap'[k].uid \in 1..m_uid - 1
  <2>1. Among(m_heap') \subseteq Among(m_heap)
    BY <1>2, <1>4 DEF Rearranged
  <2> QED
    BY <1>1, <2>1, UidsStay
<1> QED
  BY <1>2, <1>4, <1>5, <1>6 DEF HInv, Rearranged

\* HeapScheduler::RemoveNext.
LEMMA RemoveNextStep ==
  ASSUME HInv, RemoveNext
  PROVE  HInv' /\ (~misfilled' => Sched!RemoveNext) /\ OneEventPerCall
<1>1. /\ m_heap # <<>> /\ m_heap' = TopDown(PopBack(Exch(m_heap, Root, Last(m_heap))), Root)
      /\ returned' = m_heap[Root] /\ now' = m_heap[Root].ts /\ UNCHANGED <<m_uid, misfilled>>
  BY DEF RemoveNext, IsEmpty
<1>2. Vector(m_heap) /\ Root \in 1..Len(m_heap) /\ m_heap[Root] \in Events
  BY <1>1 DEF HInv, Vector, Root
<1>3. now' \in Nat /\ ~Misfills(m_heap, Root)
  BY <1>1, <1>2 DEF Events, Misfills
<1>4. HInv' /\ Contents' = Contents \ {m_heap[Root]} /\ m_heap[Root] \in Contents
  BY <1>1, <1>2, <1>3, HoleFilled
<1>5. OneEventPerCall
  BY <1>1, <1>4 DEF OneEventPerCall
<1>6. ASSUME ~misfilled'
      PROVE  Sched!RemoveNext
  <2>1. Ordered(m_heap)
    BY <1>1, <1>6 DEF HInv
  <2>2. \A k \in 2..Len(m_heap) : Sched!Before(m_heap[Root], m_heap[k])
    BY <1>2, <2>1, RootEarliest
  <2>3. \A k \in 1..Len(m_heap) : k = Root \/ k \in 2..Len(m_heap)
    BY <1>2 DEF Vector, Root
  <2>4. \A e \in Contents \ {m_heap[Root]} : Sched!Before(m_heap[Root], e)
    BY <2>2, <2>3 DEF Contents
  <2> QED
    BY <1>1, <1>4, <2>4 DEF Sched!RemoveNext
<1> QED
  BY <1>4, <1>5, <1>6

\* HeapScheduler::Remove.
LEMMA RemoveStep ==
  ASSUME HInv, Remove
  PROVE  HInv' /\ Sched!Remove /\ OneEventPerCall
<1>1. PICK i \in 1..Len(m_heap) :
         /\ m_heap' = TopDown(PopBack(Exch(m_heap, i, Last(m_heap))), i)
         /\ misfilled' = (misfilled \/ Misfills(m_heap, i))
  BY DEF Remove
<1>2. returned' = Sched!NoEvent /\ UNCHANGED <<m_uid, now>> /\ now' \in Nat
  BY DEF Remove, HInv
<1>3. HInv' /\ Contents' = Contents \ {m_heap[i]} /\ m_heap[i] \in Contents
  BY <1>1, <1>2, HoleFilled
<1> QED
  BY <1>2, <1>3 DEF Sched!Remove, OneEventPerCall

-----------------------------------------------------------------------------
\* The heap holds each event once, and every event comes after its parent until
\* HeapScheduler::Remove fills a hole with an event earlier than the parent of the hole.
THEOREM HeapInvariant == ASSUME DelaysAreTimes PROVE Spec => []HInv
<1>1. Init => HInv
  BY DEF Init, HInv, DelaysAreTimes, Vector, Ordered
<1>2. HInv /\ [Next]_vars => HInv'
  <2> SUFFICES ASSUME HInv, [Next]_vars
               PROVE  HInv'
    OBVIOUS
  <2>1. CASE UNCHANGED vars
    BY <2>1 DEF vars, HInv
  <2> QED
    BY <2>1, InsertStep, RemoveNextStep, RemoveStep DEF Next
<1> QED
  BY <1>1, <1>2, PTL DEF Spec

\* No event is in the vector of HeapScheduler twice, and its uid was given out.
THEOREM HeapTypes == ASSUME DelaysAreTimes PROVE Spec => []TypeOK
<1>1. HInv => TypeOK
  <2> SUFFICES ASSUME HInv
               PROVE  TypeOK
    OBVIOUS
  <2>1. \A i \in 1..Len(m_heap) : m_heap[i] \in Events
    BY DEF HInv, Vector
  <2>2. \A i \in 1..Len(m_heap) : m_heap[i].ts \in Nat
    BY <2>1 DEF Events
  <2> QED
    BY <2>2 DEF HInv, TypeOK, Vector
<1> QED
  BY <1>1, HeapInvariant, PTL

\* PeekNext gives the earliest event until Remove has filled a hole with an event
\* earlier than the parent of the hole.
THEOREM PeekIsEarliest == ASSUME DelaysAreTimes PROVE Spec => [](~misfilled => PeekEarliest)
<1>1. HInv => (~misfilled => PeekEarliest)
  <2> SUFFICES ASSUME HInv, ~misfilled, ~IsEmpty
               PROVE  \A e \in Contents \ {PeekNext} : Sched!Before(PeekNext, e)
    BY DEF PeekEarliest
  <2>1. Vector(m_heap) /\ \A k \in 2..Len(m_heap) : Sched!Before(m_heap[Root], m_heap[k])
    BY RootEarliest DEF HInv
  <2>2. \A k \in 1..Len(m_heap) : k = Root \/ k \in 2..Len(m_heap)
    BY <2>1 DEF Vector, Root
  <2> QED
    BY <2>1, <2>2 DEF Contents, PeekNext
<1> QED
  BY <1>1, HeapInvariant, PTL

\* HeapScheduler is the event list the simulator takes it for until Remove fills a hole
\* with an event earlier than the parent of the hole, and never loses an event or
\* holds one twice.
THEOREM HeapIsScheduler == ASSUME DelaysAreTimes PROVE Spec => ImplementsScheduler
<1>1. Init => Sched!Init
  BY DEF Init, Sched!Init, Contents
<1>2. HInv /\ [Next]_vars =>
         [OneEventPerCall /\ (~misfilled' => Sched!Next)]_<<m_heap, m_uid, now, returned>>
  <2> SUFFICES ASSUME HInv, [Next]_vars
               PROVE  \/ OneEventPerCall /\ (~misfilled' => Sched!Next)
                      \/ UNCHANGED <<m_heap, m_uid, now, returned>>
    OBVIOUS
  <2>1. CASE UNCHANGED vars
    BY <2>1 DEF vars
  <2> QED
    BY <2>1, InsertStep, RemoveNextStep, RemoveStep DEF Next, Sched!Next
<1> QED
  BY <1>1, <1>2, HeapInvariant, PTL DEF Spec, ImplementsScheduler
=============================================================================
