----------------------------- MODULE StationProofs -----------------------------
(***************************************************************************)
(* Theorems about the two parts of a station that the run Station puts     *)
(* side by side.                                                           *)
(* TwtStation, for any flows, schedules, delays and frame durations: every *)
(* agreement keeps one chain of service periods, the peer's queues are     *)
(* open and blocked when they should be, and the PHY of a STA follows the  *)
(* last sleep request that was made in quiet.                              *)
(* Bss, for any access points, however they answer, any calls of the user  *)
(* and any losses: the station never gets stuck in a state, no timer asks  *)
(* an access point that is not there, ends of scans find the station in    *)
(* the state they are meant for, and the station and the access points     *)
(* agree on association and power management mode.                         *)
(***************************************************************************)
EXTENDS MCStation, SequenceLemmas

-----------------------------------------------------------------------------
(* Target wake time. *)

Events ==
    [call : Calls, flow : Flows \cup {NoFlow}, schedule : Schedules \cup {NoSchedule},
     left : Nat, held : BOOLEAN]

Members(q) == {q[i] : i \in 1..Len(q)}

IsBegin(e) == e.call = "BeginTwtSpNow"
IsEnd(e) == e.call = "EndTwtSpNow"
IsRequest(e) == e.call \in {"Sleep", "Wake", "SetSleepMode"}

\* Two pending events of one agreement, e before f. There is one Begin. An End comes
\* after it only if they are for the same time, and then the period that is about to
\* begin is as long as the interval. Only one of two Ends is still held, and it is
\* not that of a spaced schedule.
FitTwt(e, f) ==
    /\ ~(IsBegin(e) /\ IsBegin(f))
    /\ IsBegin(e) /\ IsEnd(f) => f.left <= e.left /\ ~Spaced(e.schedule)
    /\ IsEnd(e) /\ IsEnd(f) => /\ ~(e.held /\ f.held)
                               /\ e.held => ~Spaced(e.schedule)
                               /\ f.held => ~Spaced(f.schedule)

\* Two pending events of the PHY and the frame exchanges: one sleep request if they
\* were made in quiet, one owed response, and no SetSleepMode beside a running timer.
FitPhy(e, f, c) ==
    /\ ~c => ~(IsRequest(e) /\ IsRequest(f))
    /\ ~(e.call = "SendResponse" /\ f.call = "SendResponse")
    /\ {e.call, f.call} # {"SetSleepMode", "TxTimeout"}

Fit(e, f, c) == e.left <= f.left /\ (e.flow = f.flow => FitTwt(e, f)) /\ FitPhy(e, f, c)

\* The pending events: in order of time, any two of them fit; c is `crowded'.
WellFormed(q, c) ==
    /\ q \in Seq(Events)
    /\ \A i, j \in 1..Len(q) : i < j => Fit(q[i], q[j], c)

\* An event of an agreement, a held one unless it is an End that is due.
OfAgreement(e) ==
    /\ e.flow \in Flows /\ e.schedule \in Schedules /\ Agreed(e.flow)
    /\ ~e.held => IsEnd(e) /\ e.left = 0

\* An event of the PHY or a frame exchange: only a STA has them. SetSleepMode is for
\* the end of the frame on the air, and that is before an owed response.
OfPhy(e) ==
    /\ IsSta /\ e.flow = NoFlow /\ ~e.held
    /\ e.call = "SetSleepMode" => e.left <= phyBusy
    /\ e.call = "SendResponse" => phyBusy < e.left \/ phyBusy = 0

EventOK(e) == IF IsBegin(e) \/ IsEnd(e) THEN OfAgreement(e) ELSE OfPhy(e)

\* The parts of the inductive invariant.
Typed ==
    /\ node \in Nodes
    /\ m_twtAgreementMap \in [Flows -> {NoAgreement, Agreement(TRUE), Agreement(FALSE)}]
    /\ m_twtAgreementCount = Cardinality({flow \in Flows : Agreed(flow)})
    /\ blocked \in BOOLEAN /\ m_sleeping \in BOOLEAN /\ sleepAsked \in BOOLEAN /\ crowded \in BOOLEAN
    /\ phyBusy \in Nat /\ nav \in Nat
    /\ served \subseteq {flow \in Flows : Agreed(flow)}

Queue == WellFormed(m_events, crowded) /\ \A e \in Members(m_events) : EventOK(e)

\* Every agreement has a next period.
Chained ==
    \A flow \in Flows : Agreed(flow) =>
        \E e \in Members(m_events) : IsBegin(e) /\ e.flow = flow

\* A held End of a spaced schedule finds the queues open, if it is the only agreement's.
Open ==
    m_twtAgreementCount <= 1 =>
        \A e \in Members(m_events) : IsEnd(e) /\ e.held /\ Spaced(e.schedule) => ~blocked

\* No timer runs while the PHY sleeps.
Covered == \A e \in Members(m_events) : e.call = "TxTimeout" => ~m_sleeping

\* The request still pending is the last one, and when none is the PHY has followed it.
Quiet ==
    IsSta /\ ~crowded =>
        /\ \A e \in Members(m_events) : IsRequest(e) => sleepAsked = (e.call # "Wake")
        /\ (\A e \in Members(m_events) : ~IsRequest(e)) => m_sleeping = sleepAsked

TInv == Typed /\ Queue /\ Chained /\ Open /\ BlockedBetweenPeriods /\ Covered /\ Quiet

-----------------------------------------------------------------------------
(* The operations on the pending events.                                     *)

\* Whatever is due is first.
LEMMA HeadFirst ==
  ASSUME NEW q, NEW c, WellFormed(q, c), NEW e \in Members(q)
  PROVE  q # <<>> /\ q[1] \in Members(q) /\ q[1] \in Events /\ e \in Events /\ q[1].left <= e.left
<1>1. PICK i \in 1..Len(q) : e = q[i]
  BY DEF Members
<1>2. q \in Seq(Events) /\ Len(q) \in Nat /\ 1 \in 1..Len(q)
  BY DEF WellFormed
<1>3. q[1] \in Events /\ e \in Events
  BY <1>1, <1>2
<1>4. i # 1 => q[1].left <= q[i].left
  BY <1>2 DEF WellFormed, Fit
<1>5. q[1].left \in Nat
  BY <1>3 DEF Events
<1>6. q # <<>>
  BY <1>2
<1> QED
  BY <1>1, <1>2, <1>3, <1>4, <1>5, <1>6 DEF Members

\* An event put where its time says stays in order with the others.
LEMMA InsertFits ==
  ASSUME NEW q, NEW c, WellFormed(q, c), NEW ev \in Events, NEW r, r = Insert(q, ev),
         \A x \in Members(q) : IF x.left <= ev.left THEN Fit(x, ev, c) ELSE Fit(ev, x, c)
  PROVE  WellFormed(r, c) /\ Members(r) = Members(q) \cup {ev}
<1> DEFINE T == {i \in DOMAIN q : q[i].left <= ev.left}
           n == Before(q, ev.left) + 1
<1>1. q \in Seq(Events) /\ Len(q) \in Nat /\ DOMAIN q = 1..Len(q)
  BY DEF WellFormed
<1>2. \A i \in 1..Len(q) : q[i] \in Events /\ q[i].left \in Nat /\ q[i] \in Members(q)
  <2> SUFFICES ASSUME NEW i \in 1..Len(q)
               PROVE  q[i] \in Events /\ q[i].left \in Nat /\ q[i] \in Members(q)
    OBVIOUS
  <2>1. q[i] \in Events
    BY <1>1
  <2>2. q[i].left \in Nat
    BY <2>1 DEF Events
  <2> QED
    BY <2>1, <2>2 DEF Members
<1>3. ev.left \in Nat
  BY DEF Events
<1>4. Cardinality(T) \in 0..Len(q) /\ T = 1..Cardinality(T)
  <2>1. T \in SUBSET (1..Len(q))
    BY <1>1
  <2>2. \A i \in T : \A j \in 1..Len(q) : j < i => j \in T
    <3> SUFFICES ASSUME NEW i \in T, NEW j \in 1..Len(q), j < i
                 PROVE  j \in T
      OBVIOUS
    <3>1. q[j].left <= q[i].left
      BY <1>1 DEF WellFormed, Fit
    <3> QED
      BY <1>1, <1>2, <1>3, <3>1
  <2> HIDE DEF T
  <2> QED
    BY <1>1, <2>1, <2>2, Prefix
<1>5. n \in 1..Len(q) + 1 /\ n = Cardinality(T) + 1
  BY <1>4 DEF Before
<1>6. \A i \in 1..Len(q) : (i < n <=> q[i].left <= ev.left)
  <2>1. \A i \in 1..Len(q) : i \in T <=> q[i].left <= ev.left
    BY <1>1
  <2> HIDE DEF T, n
  <2> QED
    BY <1>4, <1>5, <2>1
<1>7. r = Inserted(q, n, ev)
  BY DEF Insert, Seqs!InsertAt, Inserted
<1> HIDE DEF T, n
<1>8. /\ r \in Seq(Events) /\ Len(r) = Len(q) + 1 /\ r[n] = ev
      /\ \A i \in 1..n - 1 : r[i] = q[i]
      /\ \A i \in n..Len(q) : r[i + 1] = q[i]
  <2>1. q \in Seq(Events) /\ ev \in Events /\ n \in 1..Len(q) + 1 /\ r = Inserted(q, n, ev)
    BY <1>1, <1>5, <1>7
  <2> QED
    BY <2>1, Inserting, SMT
<1>9. /\ n \in Int
      /\ \A i \in 1..Len(r) : \/ i < n /\ i \in 1..Len(q) /\ r[i] = q[i]
                              \/ i = n /\ r[i] = ev
                              \/ i > n /\ i - 1 \in n..Len(q) /\ r[i] = q[i - 1]
  <2>1. n \in Int
    BY <1>1, <1>5
  <2>2. ASSUME NEW i \in 1..Len(r), i < n
        PROVE  i \in 1..Len(q) /\ r[i] = q[i]
    <3>1. i \in 1..Len(q) /\ i \in 1..n - 1
      BY <1>1, <1>5, <2>2
    <3> QED
      BY <1>8, <3>1
  <2>3. ASSUME NEW i \in 1..Len(r), i > n
        PROVE  i - 1 \in n..Len(q) /\ r[i] = q[i - 1]
    <3>1. i - 1 \in n..Len(q) /\ (i - 1) + 1 = i
      BY <1>1, <1>5, <1>8, <2>3
    <3> QED
      BY <1>8, <3>1
  <2>4. \A i \in 1..Len(r) : i < n \/ i = n \/ i > n
    BY <2>1
  <2>5. r[n] = ev
    BY <1>8
  <2> QED
    BY <2>1, <2>2, <2>3, <2>4, <2>5
<1>10. ASSUME NEW i \in 1..Len(r), NEW j \in 1..Len(r), i < j
       PROVE  Fit(r[i], r[j], c)
  <2>1. CASE i < n /\ j < n
    BY <1>9, <2>1, <1>10 DEF WellFormed
  <2>2. CASE i < n /\ j = n
    BY <1>2, <1>6, <1>9, <2>2
  <2>3. CASE i < n /\ j > n
    <3>1. i \in 1..Len(q) /\ j - 1 \in 1..Len(q) /\ i < j - 1
      BY <1>1, <1>5, <1>9, <2>3
    <3> QED
      BY <1>9, <2>3, <3>1 DEF WellFormed
  <2>4. CASE i = n /\ j > n
    <3>1. j - 1 \in 1..Len(q) /\ ~(j - 1 < n)
      BY <1>1, <1>5, <1>9, <2>4
    <3> QED
      BY <1>2, <1>6, <1>9, <2>4, <3>1
  <2>5. CASE i > n /\ j > n
    <3>1. i - 1 \in 1..Len(q) /\ j - 1 \in 1..Len(q) /\ i - 1 < j - 1
      BY <1>1, <1>5, <1>9, <1>10, <2>5
    <3>2. r[i] = q[i - 1] /\ r[j] = q[j - 1]
      BY <1>9, <2>5
    <3>3. Fit(q[i - 1], q[j - 1], c)
      BY <3>1 DEF WellFormed
    <3> QED
      BY <3>2, <3>3
  <2> QED
    BY <1>9, <1>10, <2>1, <2>2, <2>3, <2>4, <2>5
<1>11. Members(r) = Members(q) \cup {ev}
  <2>1. ASSUME NEW i \in 1..Len(r)
        PROVE  r[i] \in Members(q) \cup {ev}
    <3>1. CASE i > n
      <4>1. i - 1 \in 1..Len(q)
        BY <1>1, <1>5, <1>9, <3>1
      <4> QED
        BY <1>2, <1>9, <3>1, <4>1
    <3> QED
      BY <1>2, <1>9, <3>1
  <2>2. ASSUME NEW i \in 1..Len(q)
        PROVE  q[i] \in Members(r)
    <3>1. CASE i < n
      <4>1. i \in 1..n - 1 /\ i \in 1..Len(r)
        BY <1>1, <1>5, <1>8, <3>1
      <4> QED
        BY <1>8, <4>1 DEF Members
    <3>2. CASE ~(i < n)
      <4>1. i \in n..Len(q) /\ i + 1 \in 1..Len(r)
        BY <1>1, <1>5, <1>8, <3>2
      <4> QED
        BY <1>8, <4>1 DEF Members
    <3> QED
      BY <3>1, <3>2
  <2>3. ev \in Members(r)
    BY <1>1, <1>5, <1>8 DEF Members
  <2> QED
    BY <2>1, <2>2, <2>3 DEF Members
<1>12. WellFormed(r, c)
  BY <1>8, <1>10 DEF WellFormed
<1> QED
  BY <1>11, <1>12

\* Events taken out leave the others in order, and fit what was taken out.
LEMMA RemoveFits ==
  ASSUME NEW q, NEW c, WellFormed(q, c), NEW n \in 1..Len(q), NEW r, r = Seqs!RemoveAt(q, n)
  PROVE  /\ WellFormed(r, c) /\ Members(q) = Members(r) \cup {q[n]}
         /\ \A x \in Members(r) : Fit(x, q[n], c) \/ Fit(q[n], x, c)
<1>1. q \in Seq(Events) /\ Len(q) \in Nat /\ n \in Int
  BY DEF WellFormed
<1>2. r = Removed(q, n)
  BY DEF Seqs!RemoveAt, Removed
<1>3. /\ r \in Seq(Events) /\ Len(r) = Len(q) - 1
      /\ \A i \in 1..n - 1 : r[i] = q[i]
      /\ \A i \in n..Len(r) : r[i] = q[i + 1]
  BY <1>1, <1>2, Removing
<1> DEFINE at(i) == IF i < n THEN i ELSE i + 1
<1>4. \A i \in 1..Len(r) : at(i) \in 1..Len(q) /\ at(i) # n /\ r[i] = q[at(i)]
  BY <1>1, <1>3
<1>5. \A i, j \in 1..Len(r) : i < j => at(i) < at(j)
  BY <1>1, <1>3
<1>6. \A i \in 1..Len(q) : i # n => \E j \in 1..Len(r) : i = at(j)
  <2> SUFFICES ASSUME NEW i \in 1..Len(q), i # n
               PROVE  \E j \in 1..Len(r) : i = at(j)
    OBVIOUS
  <2>1. CASE i < n
    <3>1. i \in 1..Len(r) /\ at(i) = i
      BY <1>1, <1>3, <2>1
    <3> QED
      BY <3>1
  <2>2. CASE i > n
    <3>1. i - 1 \in 1..Len(r) /\ at(i - 1) = i
      BY <1>1, <1>3, <2>2
    <3> QED
      BY <3>1
  <2> QED
    BY <1>1, <2>1, <2>2
<1> HIDE DEF at
<1>7. WellFormed(r, c)
  BY <1>3, <1>4, <1>5 DEF WellFormed
<1>8. Members(q) = Members(r) \cup {q[n]}
  <2>1. \A i \in 1..Len(r) : r[i] \in Members(q)
    BY <1>4 DEF Members
  <2>2. \A i \in 1..Len(q) : i # n => q[i] \in Members(r)
    BY <1>4, <1>6 DEF Members
  <2>3. q[n] \in Members(q)
    BY DEF Members
  <2> QED
    BY <2>1, <2>2, <2>3, ZenonT(60) DEF Members
<1>9. ASSUME NEW x \in Members(r)
      PROVE  Fit(x, q[n], c) \/ Fit(q[n], x, c)
  <2>1. PICK i \in 1..Len(r) : x = r[i]
    BY DEF Members
  <2>2. at(i) \in Int /\ at(i) # n
    BY <1>4
  <2>3. at(i) < n \/ n < at(i)
    BY <1>1, <2>2
  <2> QED
    BY <1>4, <2>1, <2>3 DEF WellFormed
<1> QED
  BY <1>7, <1>8, <1>9

\* The first event is taken out to be run.
LEMMA TailFits ==
  ASSUME NEW q, NEW c, WellFormed(q, c), q # <<>>
  PROVE  /\ WellFormed(Tail(q), c) /\ Members(q) = Members(Tail(q)) \cup {q[1]}
         /\ \A x \in Members(Tail(q)) : Fit(q[1], x, c)
<1>1. q \in Seq(Events) /\ Len(q) \in Nat /\ Len(q) > 0
  BY DEF WellFormed
<1>2. /\ Tail(q) \in Seq(Events) /\ Len(Tail(q)) = Len(q) - 1
      /\ \A i \in 1..Len(q) - 1 : Tail(q)[i] = q[i + 1]
  BY <1>1
<1>3. ASSUME NEW i \in 1..Len(q), i # 1
      PROVE  i - 1 \in 1..Len(Tail(q)) /\ q[i] = Tail(q)[i - 1]
  <2>1. i - 1 \in 1..Len(q) - 1 /\ (i - 1) + 1 = i
    BY <1>1, <1>3
  <2> QED
    BY <1>2, <2>1
<1>4. \A i \in 1..Len(Tail(q)) : i + 1 \in 1..Len(q) /\ 1 < i + 1 /\ Tail(q)[i] = q[i + 1]
  BY <1>1, <1>2
<1>5. 1 \in 1..Len(q)
  BY <1>1
<1>6. WellFormed(Tail(q), c)
  <2> SUFFICES ASSUME NEW i \in 1..Len(Tail(q)), NEW j \in 1..Len(Tail(q)), i < j
               PROVE  Fit(Tail(q)[i], Tail(q)[j], c)
    BY <1>2 DEF WellFormed
  <2>1. i + 1 < j + 1
    OBVIOUS
  <2> QED
    BY <1>4, <2>1 DEF WellFormed
<1>7. Members(q) = Members(Tail(q)) \cup {q[1]}
  BY <1>3, <1>4, <1>5 DEF Members
<1>8. \A x \in Members(Tail(q)) : Fit(q[1], x, c)
  BY <1>4, <1>5 DEF Members, WellFormed
<1> QED
  BY <1>6, <1>7, <1>8

\* EventId::Cancel takes out the held event of a call, the only one.
LEMMA CancelFits ==
  ASSUME NEW q, NEW c, WellFormed(q, c), NEW call \in {"BeginTwtSpNow", "EndTwtSpNow"}, NEW flow,
         NEW r, r = Cancel(q, call, flow)
  PROVE  /\ WellFormed(r, c) /\ Members(r) \subseteq Members(q)
         /\ \A e \in Members(q) : e \in Members(r) \/ (IsOf(e, call, flow) /\ e.held)
         /\ \A e \in Members(r) : ~(IsOf(e, call, flow) /\ e.held)
<1> DEFINE H == HeldAt(q, call, flow)
           n == CHOOSE i \in H : TRUE
<1>1. q \in Seq(Events) /\ DOMAIN q = 1..Len(q)
  BY DEF WellFormed
<1>2. H = {i \in 1..Len(q) : IsOf(q[i], call, flow) /\ q[i].held}
  BY <1>1 DEF HeldAt
<1>3. CASE H = {}
  <2>1. r = q
    BY <1>3 DEF Cancel
  <2>2. \A e \in Members(q) : ~(IsOf(e, call, flow) /\ e.held)
    BY <1>2, <1>3 DEF Members
  <2> QED
    BY <2>1, <2>2
<1>4. CASE H # {}
  <2>1. n \in H
    BY <1>4
  <2>2. r = Seqs!RemoveAt(q, n)
    BY <1>4 DEF Cancel
  <2> HIDE DEF H, n
  <2>3. n \in 1..Len(q) /\ IsOf(q[n], call, flow) /\ q[n].held
    BY <1>2, <2>1
  <2>4. /\ WellFormed(r, c) /\ Members(q) = Members(r) \cup {q[n]}
        /\ \A x \in Members(r) : Fit(x, q[n], c) \/ Fit(q[n], x, c)
    BY <2>2, <2>3, RemoveFits
  <2>5. ASSUME NEW e \in Members(r), IsOf(e, call, flow), e.held
        PROVE  FALSE
    <3>1. FitTwt(e, q[n]) \/ FitTwt(q[n], e)
      BY <2>3, <2>4, <2>5 DEF Fit, IsOf
    <3> QED
      BY <2>3, <2>5, <3>1 DEF FitTwt, IsOf, IsBegin, IsEnd
  <2> QED
    BY <2>3, <2>4, <2>5
<1> QED
  BY <1>3, <1>4

\* Events that all come a little sooner, or are held by fewer, fit as before.
LEMMA MapFits ==
  ASSUME NEW q, NEW c, WellFormed(q, c), NEW d \in Nat, NEW r \in Seq(Events), Len(r) = Len(q),
         \A i \in 1..Len(q) : /\ r[i].call = q[i].call /\ r[i].flow = q[i].flow
                              /\ r[i].schedule = q[i].schedule /\ r[i].left = q[i].left - d
                              /\ r[i].held => q[i].held
  PROVE  WellFormed(r, c)
<1> SUFFICES ASSUME NEW i \in 1..Len(q), NEW j \in 1..Len(q), i < j
             PROVE  Fit(r[i], r[j], c)
  BY DEF WellFormed
<1>1. q[i].left \in Nat /\ q[j].left \in Nat
  <2>1. q[i] \in Events /\ q[j] \in Events
    BY DEF WellFormed
  <2> QED
    BY <2>1 DEF Events
<1>2. Fit(q[i], q[j], c)
  BY DEF WellFormed
<1>3. r[i].left <= r[j].left /\ (q[j].left <= q[i].left => r[j].left <= r[i].left)
  BY <1>1, <1>2 DEF Fit
<1>4. FitPhy(r[i], r[j], c)
  BY <1>2 DEF Fit, FitPhy, IsRequest
<1>5. r[i].flow = r[j].flow => FitTwt(r[i], r[j])
  BY <1>2, <1>3 DEF Fit, FitTwt, IsBegin, IsEnd
<1> QED
  BY <1>3, <1>4, <1>5 DEF Fit

\* The same event, held only if it is not one of this flow.
Forgotten(e, x, flow) ==
    /\ x.call = e.call /\ x.flow = e.flow /\ x.schedule = e.schedule /\ x.left = e.left
    /\ x.held <=> e.held /\ e.flow # flow

LEMMA ForgetFits ==
  ASSUME NEW q, NEW c, WellFormed(q, c), NEW flow, NEW r, r = Forget(q, flow)
  PROVE  /\ WellFormed(r, c)
         /\ \A x \in Members(r) : \E e \in Members(q) : Forgotten(e, x, flow)
         /\ \A e \in Members(q) : \E x \in Members(r) : Forgotten(e, x, flow)
<1>1. q \in Seq(Events) /\ DOMAIN q = 1..Len(q) /\ Len(q) \in Nat
  BY DEF WellFormed
<1>2. r = [i \in 1..Len(q) |-> IF q[i].flow = flow THEN [q[i] EXCEPT !.held = FALSE] ELSE q[i]]
  BY <1>1 DEF Forget
<1>3. ASSUME NEW i \in 1..Len(q)
      PROVE  r[i] \in Events /\ Forgotten(q[i], r[i], flow)
  <2>1. q[i] \in Events
    BY <1>1
  <2>2. r[i] = IF q[i].flow = flow THEN [q[i] EXCEPT !.held = FALSE] ELSE q[i]
    BY <1>2
  <2> QED
    BY <2>1, <2>2 DEF Events, Forgotten
<1>4. r \in Seq(Events) /\ Len(r) = Len(q)
  <2>1. DOMAIN r = 1..Len(q) /\ \A i \in 1..Len(q) : r[i] \in Events
    BY <1>2, <1>3
  <2>2. r \in [1..Len(q) -> Events]
    BY <1>2, <2>1
  <2> QED
    BY <1>1, <2>2
<1>5. WellFormed(r, c)
  <2>1. \A i \in 1..Len(q) : q[i].left \in Nat
    <3>1. \A i \in 1..Len(q) : q[i] \in Events
      BY <1>1
    <3> QED
      BY <3>1 DEF Events
  <2>2. \A i \in 1..Len(q) : /\ r[i].call = q[i].call /\ r[i].flow = q[i].flow
                             /\ r[i].schedule = q[i].schedule /\ r[i].left = q[i].left - 0
                             /\ r[i].held => q[i].held
    BY <1>3, <2>1 DEF Forgotten
  <2> QED
    BY <1>4, <2>2, MapFits
<1> QED
  BY <1>3, <1>4, <1>5 DEF Members

\* A tick: every event comes a tick sooner, and none of them was due.
Sooner(e, x) ==
    /\ x.call = e.call /\ x.flow = e.flow /\ x.schedule = e.schedule /\ x.held = e.held
    /\ x.left = e.left - 1 /\ x.left \in Nat

LEMMA TickFits ==
  ASSUME NEW q, NEW c, WellFormed(q, c), q # <<>>, q[1].left # 0,
         NEW r, r = [i \in DOMAIN q |-> [q[i] EXCEPT !.left = @ - 1]]
  PROVE  /\ WellFormed(r, c)
         /\ \A x \in Members(r) : \E e \in Members(q) : Sooner(e, x)
         /\ \A e \in Members(q) : \E x \in Members(r) : Sooner(e, x)
<1>1. q \in Seq(Events) /\ DOMAIN q = 1..Len(q) /\ Len(q) \in Nat
  BY DEF WellFormed
<1>2. r = [i \in 1..Len(q) |-> [q[i] EXCEPT !.left = @ - 1]]
  BY <1>1
<1>3. ASSUME NEW i \in 1..Len(q)
      PROVE  r[i] \in Events /\ Sooner(q[i], r[i])
  <2>1. q[i] \in Events /\ q[i] \in Members(q)
    BY <1>1 DEF Members
  <2>2. q[1].left <= q[i].left /\ q[1] \in Events
    BY <2>1, HeadFirst
  <2>3. q[i].left \in Nat /\ q[i].left - 1 \in Nat
    BY <2>1, <2>2 DEF Events
  <2>4. r[i] = [q[i] EXCEPT !.left = q[i].left - 1]
    BY <1>2
  <2> QED
    BY <2>1, <2>3, <2>4, ZenonT(60) DEF Events, Sooner
<1>4. r \in Seq(Events) /\ Len(r) = Len(q)
  <2>1. DOMAIN r = 1..Len(q) /\ \A i \in 1..Len(q) : r[i] \in Events
    BY <1>2, <1>3
  <2>2. r \in [1..Len(q) -> Events]
    BY <1>2, <2>1
  <2> QED
    BY <1>1, <2>2
<1>5. WellFormed(r, c)
  <2>1. \A i \in 1..Len(q) : /\ r[i].call = q[i].call /\ r[i].flow = q[i].flow
                             /\ r[i].schedule = q[i].schedule /\ r[i].left = q[i].left - 1
                             /\ r[i].held => q[i].held
    BY <1>3 DEF Sooner
  <2> QED
    BY <1>4, <2>1, MapFits, ZenonT(60)
<1>6. ASSUME NEW x \in Members(r)
      PROVE  \E e \in Members(q) : Sooner(e, x)
  <2>1. PICK i \in 1..Len(q) : x = r[i]
    BY <1>4 DEF Members
  <2>2. q[i] \in Members(q) /\ Sooner(q[i], x)
    BY <1>3, <2>1 DEF Members
  <2> QED
    BY <2>2
<1>7. ASSUME NEW e \in Members(q)
      PROVE  \E x \in Members(r) : Sooner(e, x)
  <2>1. PICK i \in 1..Len(q) : e = q[i]
    BY DEF Members
  <2>2. r[i] \in Members(r) /\ Sooner(e, r[i])
    BY <1>3, <1>4, <2>1 DEF Members
  <2> QED
    BY <2>2
<1> QED
  BY <1>5, <1>6, <1>7

-----------------------------------------------------------------------------
(* What the invariant says of a state.                                       *)

LEMMA PendingMembers ==
  ASSUME NEW c, WellFormed(m_events, c), NEW call, NEW flow
  PROVE  Pending(call, flow) = {e \in Members(m_events) : IsOf(e, call, flow)}
<1>1. DOMAIN m_events = 1..Len(m_events)
  BY DEF WellFormed
<1> QED
  BY <1>1 DEF Pending, Members

\* A timer is running when there is an event for it, and requests are pending when
\* there are events for them.
LEMMA PhyMembers ==
  ASSUME Queue
  PROVE  /\ TxTimerIsRunning <=> \E e \in Members(m_events) : e.call = "TxTimeout"
         /\ TxTimerIsRunning => (CHOOSE e \in TxTimeouts : TRUE).left \in Nat
         /\ SleepRequests # {} <=> \E e \in Members(m_events) : IsRequest(e)
         /\ Pending("SendResponse", NoFlow) = {} => \A e \in Members(m_events) : e.call # "SendResponse"
<1>1. \A call, flow : Pending(call, flow) = {e \in Members(m_events) : IsOf(e, call, flow)}
  BY PendingMembers DEF Queue
<1>2. \A e \in Members(m_events) : ~IsBegin(e) /\ ~IsEnd(e) => e.flow = NoFlow
  BY DEF Queue, EventOK, OfPhy
<1>3. \A e \in Members(m_events) : e.call \in {"TxTimeout", "SendResponse"} \/ IsRequest(e) => e.flow = NoFlow
  BY <1>2 DEF IsBegin, IsEnd, IsRequest
<1>4. TxTimeouts = {e \in Members(m_events) : e.call = "TxTimeout" /\ e.flow = NoFlow}
  BY <1>1 DEF TxTimeouts, IsOf
<1>5. TxTimerIsRunning <=> \E e \in Members(m_events) : e.call = "TxTimeout"
  BY <1>3, <1>4 DEF TxTimerIsRunning
<1>6. ASSUME TxTimerIsRunning
      PROVE  (CHOOSE e \in TxTimeouts : TRUE).left \in Nat
  <2> DEFINE e == CHOOSE e \in TxTimeouts : TRUE
  <2>1. e \in TxTimeouts
    BY <1>6 DEF TxTimerIsRunning
  <2> HIDE DEF e
  <2>2. e \in Members(m_events)
    BY <1>4, <2>1
  <2>3. e \in Events
    BY <2>2, HeadFirst DEF Queue
  <2>4. e.left \in Nat
    BY <2>3 DEF Events
  <2> QED
    BY <2>4 DEF e
<1>7. SleepRequests = {e \in Members(m_events) : IsRequest(e) /\ e.flow = NoFlow}
  BY <1>1 DEF SleepRequests, IsRequest, IsOf
<1>8. SleepRequests # {} <=> \E e \in Members(m_events) : IsRequest(e)
  BY <1>3, <1>7
<1>9. Pending("SendResponse", NoFlow) = {} => \A e \in Members(m_events) : e.call # "SendResponse"
  BY <1>1, <1>3 DEF IsOf
<1> QED
  BY <1>5, <1>6, <1>8, <1>9

\* A pending request for what was asked.
Asked(x, enable) == IsRequest(x) /\ EventOK(x) /\ enable = (x.call # "Wake")

\* SetPhySleepState leaves one request for what it was asked, or the PHY does it.
LEMMA SleepStateFits ==
  ASSUME Typed, Queue, NEW q, NEW d \in BOOLEAN, WellFormed(q, d), Members(q) \subseteq Members(m_events),
         NEW enable \in BOOLEAN, ~d => \A x \in Members(q) : ~IsRequest(x),
         NEW r, r = EventsAfterSleepState(q, enable)
  PROVE  /\ WellFormed(r, d) /\ Members(q) \subseteq Members(r)
         /\ \A x \in Members(r) : x \in Members(q) \/ Asked(x, enable)
         /\ IsSta /\ (\A x \in Members(r) : ~IsRequest(x)) => SleepingAfterSleepState(enable) = enable
         /\ SleepingAfterSleepState(enable) \in BOOLEAN
         /\ SleepingAfterSleepState(enable) => \/ m_sleeping
                                               \/ \A e \in Members(m_events) : e.call # "TxTimeout"
<1>1. TxTimerIsRunning <=> \E e \in Members(m_events) : e.call = "TxTimeout"
  BY PhyMembers
<1>2. SleepPostponed => PostponedBy \in Nat
  BY PhyMembers DEF PostponedBy, SleepPostponed, Typed
<1>3. IsSta \in BOOLEAN
  BY TwtAssumption DEF IsSta, Typed
<1>4. /\ SleepingAfterSleepState(enable) \in BOOLEAN
      /\ SleepingAfterSleepState(enable) => \/ m_sleeping
                                            \/ \A e \in Members(m_events) : e.call # "TxTimeout"
  BY <1>1 DEF SleepingAfterSleepState, SleepPostponed, Typed
<1>5. ASSUME NEW call \in {"Sleep", "Wake", "SetSleepMode"}, NEW left \in Nat, IsSta,
             enable = (call # "Wake"), r = Insert(q, PhyEvent(call, left)),
             call = "SetSleepMode" => ~SleepPostponed /\ left = phyBusy
      PROVE  /\ WellFormed(r, d) /\ Members(q) \subseteq Members(r)
             /\ \A x \in Members(r) : x \in Members(q) \/ Asked(x, enable)
             /\ \E x \in Members(r) : IsRequest(x)
  <2> DEFINE ev == PhyEvent(call, left)
  <2>1. /\ ev \in Events /\ ev.call = call /\ ev.left = left /\ ev.flow = NoFlow /\ ~ev.held
    BY DEF PhyEvent, Events, Calls
  <2> HIDE DEF ev
  <2>2. IsRequest(ev) /\ ~IsBegin(ev) /\ ~IsEnd(ev) /\ ev.call # "SendResponse" /\ ev.call # "TxTimeout"
    BY <2>1 DEF IsRequest, IsBegin, IsEnd
  <2>3. EventOK(ev)
    BY <1>5, <2>1, <2>2 DEF EventOK, OfPhy, Typed
  <2>4. ASSUME NEW x \in Members(q)
        PROVE  FitTwt(x, ev) /\ FitTwt(ev, x) /\ FitPhy(x, ev, d) /\ FitPhy(ev, x, d)
    <3>1. ev.call = "SetSleepMode" => x.call # "TxTimeout"
      BY <1>1, <1>5, <2>1 DEF SleepPostponed
    <3>2. ~d => ~IsRequest(x)
      OBVIOUS
    <3> QED
      BY <2>2, <3>1, <3>2 DEF FitTwt, FitPhy
  <2>5. \A x \in Members(q) : x.left \in Nat
    BY HeadFirst DEF Events
  <2>6. \A x \in Members(q) : IF x.left <= ev.left THEN Fit(x, ev, d) ELSE Fit(ev, x, d)
    BY <2>1, <2>4, <2>5 DEF Fit
  <2>7. WellFormed(r, d) /\ Members(r) = Members(q) \cup {ev}
    BY <1>5, <2>1, <2>6, InsertFits DEF ev
  <2> QED
    BY <1>5, <2>1, <2>2, <2>3, <2>7 DEF Asked
<1>6. CASE ~IsSta
  BY <1>4, <1>6 DEF EventsAfterSleepState
<1>7. CASE IsSta /\ SleepPostponed
  <2> DEFINE call == IF enable THEN "Sleep" ELSE "Wake"
  <2>1. r = Insert(q, PhyEvent(call, PostponedBy))
    BY <1>7 DEF EventsAfterSleepState
  <2>2. call \in {"Sleep", "Wake", "SetSleepMode"} /\ enable = (call # "Wake") /\ call # "SetSleepMode"
    OBVIOUS
  <2> HIDE DEF call
  <2> QED
    BY <1>2, <1>4, <1>5, <1>7, <2>1, <2>2
<1>8. CASE IsSta /\ ~SleepPostponed /\ enable /\ ~m_sleeping /\ phyBusy > 0
  <2>1. r = Insert(q, PhyEvent("SetSleepMode", phyBusy)) /\ phyBusy \in Nat
    BY <1>8 DEF EventsAfterSleepState, Typed
  <2> QED
    BY <1>4, <1>5, <1>8, <2>1
<1>9. CASE IsSta /\ ~SleepPostponed /\ ~(enable /\ ~m_sleeping /\ phyBusy > 0)
  <2>1. r = q
    BY <1>9 DEF EventsAfterSleepState
  <2>2. SleepingAfterSleepState(enable) = enable
    BY <1>9 DEF SleepingAfterSleepState, Typed
  <2> QED
    BY <1>4, <2>1, <2>2
<1> QED
  BY <1>6, <1>7, <1>8, <1>9

\* Without requests it does not matter whether they were made in quiet.
LEMMA NoRequests ==
  ASSUME NEW q, NEW c, WellFormed(q, c), NEW d \in BOOLEAN, ~d => \A x \in Members(q) : ~IsRequest(x)
  PROVE  WellFormed(q, d)
<1> SUFFICES ASSUME NEW i \in 1..Len(q), NEW j \in 1..Len(q), i < j
             PROVE  Fit(q[i], q[j], d)
  BY DEF WellFormed
<1>1. Fit(q[i], q[j], c)
  BY DEF WellFormed
<1>2. ~d => ~IsRequest(q[i])
  BY DEF Members
<1> QED
  BY <1>1, <1>2 DEF Fit, FitPhy

\* The next period and the end of this one, beside the events of other agreements and
\* an End that is due because its period was as long as the interval.
LEMMA ChainFits ==
  ASSUME NEW q, NEW c, WellFormed(q, c), NEW ev \in Events, IsBegin(ev),
         ev.flow \in Flows, ev.schedule \in Schedules,
         \A x \in Members(q) : x.flow = ev.flow =>
            ~IsBegin(x) /\ (IsEnd(x) => x.left = 0 /\ ~Spaced(ev.schedule)),
         NEW r, r = Chain(q, ev)
  PROVE  /\ WellFormed(r, c) /\ BeginOf(ev) \in Members(r) /\ EndOf(ev) \in Members(r)
         /\ \A e \in Members(q) : \E x \in Members(r) : Forgotten(e, x, ev.flow)
         /\ \A x \in Members(r) : \/ x = BeginOf(ev) \/ x = EndOf(ev)
                                  \/ \E e \in Members(q) : Forgotten(e, x, ev.flow)
<1> DEFINE f == Forget(q, ev.flow)
           b == BeginOf(ev)
           n == EndOf(ev)
           g == Insert(f, b)
<1>1. /\ WellFormed(f, c)
      /\ \A x \in Members(f) : \E e \in Members(q) : Forgotten(e, x, ev.flow)
      /\ \A e \in Members(q) : \E x \in Members(f) : Forgotten(e, x, ev.flow)
  BY ForgetFits
<1>2. /\ ev.schedule.wakeInterval \in Nat /\ ev.schedule.nominalWakeDuration \in Nat
      /\ ev.schedule.wakeInterval >= ev.schedule.nominalWakeDuration
  BY TwtAssumption
<1>3. /\ b \in Events /\ IsBegin(b) /\ ~IsEnd(b) /\ b.flow = ev.flow /\ b.held /\ b.schedule = ev.schedule
      /\ b.left = ev.schedule.wakeInterval /\ ~IsRequest(b) /\ b.call # "SendResponse"
      /\ b.call # "SetSleepMode" /\ b.call # "TxTimeout"
  BY <1>2 DEF BeginOf, TwtEvent, Events, Calls, IsBegin, IsEnd, IsRequest
<1>4. /\ n \in Events /\ IsEnd(n) /\ ~IsBegin(n) /\ n.flow = ev.flow /\ n.held /\ n.schedule = ev.schedule
      /\ n.left = ev.schedule.nominalWakeDuration /\ ~IsRequest(n) /\ n.call # "SendResponse"
      /\ n.call # "SetSleepMode" /\ n.call # "TxTimeout"
  BY <1>2 DEF EndOf, TwtEvent, Events, Calls, IsBegin, IsEnd, IsRequest
<1>5. r = Insert(g, n)
  BY DEF Chain
<1> HIDE DEF f, b, n, g
<1>6. ASSUME NEW x \in Members(f)
      PROVE  x.left \in Nat /\ (x.flow = ev.flow =>
                ~IsBegin(x) /\ ~x.held /\ (IsEnd(x) => x.left = 0 /\ ~Spaced(ev.schedule)))
  <2>1. PICK e \in Members(q) : Forgotten(e, x, ev.flow)
    BY <1>1
  <2>2. x.left \in Nat
    <3>1. x \in Events
      BY <1>1, HeadFirst
    <3> QED
      BY <3>1 DEF Events
  <2> QED
    BY <2>1, <2>2 DEF Forgotten, IsBegin, IsEnd
<1>7. \A x \in Members(f) : IF x.left <= b.left THEN Fit(x, b, c) ELSE Fit(b, x, c)
  <2> SUFFICES ASSUME NEW x \in Members(f)
               PROVE  IF x.left <= b.left THEN Fit(x, b, c) ELSE Fit(b, x, c)
    OBVIOUS
  <2>1. FitPhy(x, b, c) /\ FitPhy(b, x, c)
    BY <1>3 DEF FitPhy
  <2>2. x.flow = ev.flow => FitTwt(x, b) /\ (IsEnd(x) => x.left <= b.left)
    BY <1>2, <1>3, <1>6 DEF FitTwt
  <2>3. x.flow = ev.flow /\ ~(x.left <= b.left) => FitTwt(b, x)
    BY <1>2, <1>3, <1>6, <2>2 DEF FitTwt
  <2>4. ~(x.left <= b.left) => b.left <= x.left
    BY <1>2, <1>3, <1>6
  <2> QED
    BY <1>3, <2>1, <2>2, <2>3, <2>4 DEF Fit
<1>8. WellFormed(g, c) /\ Members(g) = Members(f) \cup {b}
  BY <1>1, <1>3, <1>7, InsertFits DEF g
<1>9. \A x \in Members(g) : IF x.left <= n.left THEN Fit(x, n, c) ELSE Fit(n, x, c)
  <2> SUFFICES ASSUME NEW x \in Members(g)
               PROVE  IF x.left <= n.left THEN Fit(x, n, c) ELSE Fit(n, x, c)
    OBVIOUS
  <2>1. FitPhy(x, n, c) /\ FitPhy(n, x, c)
    BY <1>4 DEF FitPhy
  <2>2. CASE x = b
    <3>1. FitTwt(n, x)
      BY <1>3, <1>4, <2>2 DEF FitTwt
    <3>2. x.left <= n.left => n.left <= x.left /\ ~Spaced(x.schedule)
      BY <1>2, <1>3, <1>4, <2>2 DEF Spaced
    <3>3. x.left <= n.left => FitTwt(x, n)
      BY <1>3, <1>4, <2>2, <3>2 DEF FitTwt
    <3>4. ~(x.left <= n.left) => n.left <= x.left
      BY <1>2, <1>3, <1>4, <2>2
    <3> QED
      BY <2>1, <3>1, <3>3, <3>4 DEF Fit
  <2>3. CASE x \in Members(f)
    <3>1. x.flow = ev.flow => FitTwt(x, n) /\ FitTwt(n, x)
      BY <1>4, <1>6, <2>3 DEF FitTwt
    <3>2. ~(x.left <= n.left) => n.left <= x.left
      BY <1>2, <1>4, <1>6, <2>3
    <3> QED
      BY <1>4, <2>1, <3>1, <3>2 DEF Fit
  <2> QED
    BY <1>8, <2>2, <2>3
<1>10. WellFormed(r, c) /\ Members(r) = Members(g) \cup {n}
  BY <1>4, <1>5, <1>8, <1>9, InsertFits
<1> QED
  BY <1>1, <1>8, <1>10 DEF b, n

-----------------------------------------------------------------------------
(* The steps.                                                                *)

LEMMA EventStays ==
  ASSUME NEW e, EventOK(e), node' = node,
         (IsBegin(e) \/ IsEnd(e)) => (Agreed(e.flow) => Agreed(e.flow)'),
         e.call = "SetSleepMode" => e.left <= phyBusy',
         e.call = "SendResponse" => phyBusy' < e.left \/ phyBusy' = 0
  PROVE  EventOK(e)'
  BY DEF EventOK, OfAgreement, OfPhy, IsSta, Agreed

\* The next period is chained to the one that begins, which finds the queues open.
LEMMA BeginTwtSpNowSteps ==
  ASSUME TInv, BeginTwtSpNow
  PROVE  TInv'
<1> DEFINE h == m_events[1]
           t == Tail(m_events)
           d == SleepRequests # {}
           r == m_events'
<1>1. PICK q \in {EventsAfterSleepState(t, FALSE)} : r = Chain(q, h)
  BY DEF BeginTwtSpNow, BeginPeriod
<1>2. /\ Typed /\ Queue /\ Chained /\ WellFormed(m_events, crowded) /\ m_events # <<>>
      /\ h.left = 0 /\ h.call = "BeginTwtSpNow"
  BY DEF TInv, Queue, BeginTwtSpNow, BeginPeriod, NextIs
<1>0. /\ crowded' = d /\ sleepAsked' = FALSE /\ blocked' = FALSE /\ node' = node /\ phyBusy' = phyBusy
      /\ m_sleeping' = SleepingAfterSleepState(FALSE) /\ nav' = nav /\ served' = served
      /\ m_twtAgreementCount' = m_twtAgreementCount /\ Agreed(h.flow)
      /\ m_twtAgreementMap' = [m_twtAgreementMap EXCEPT ![h.flow] = Agreement(TRUE)]
  BY DEF BeginTwtSpNow, BeginPeriod, UnblockPeer
<1>3. /\ WellFormed(t, crowded) /\ Members(m_events) = Members(t) \cup {h}
      /\ \A x \in Members(t) : Fit(h, x, crowded)
  BY <1>2, TailFits
<1>4. h \in Events /\ h \in Members(m_events) /\ h.left = 0
  BY <1>2, <1>3, HeadFirst
<1>5. IsBegin(h) /\ ~IsRequest(h) /\ h.flow \in Flows /\ h.schedule \in Schedules
  BY <1>2, <1>3 DEF Queue, EventOK, OfAgreement, IsBegin, IsRequest
<1>6. d <=> \E e \in Members(m_events) : IsRequest(e)
  BY <1>2, PhyMembers
<1>7. WellFormed(t, d)
  BY <1>3, <1>6, NoRequests
<1>8. /\ WellFormed(q, d) /\ Members(t) \subseteq Members(q)
      /\ \A x \in Members(q) : x \in Members(t) \/ Asked(x, FALSE)
      /\ IsSta /\ (\A x \in Members(q) : ~IsRequest(x)) => SleepingAfterSleepState(FALSE) = FALSE
      /\ SleepingAfterSleepState(FALSE) \in BOOLEAN
      /\ SleepingAfterSleepState(FALSE) => \/ m_sleeping
                                           \/ \A e \in Members(m_events) : e.call # "TxTimeout"
  BY <1>2, <1>3, <1>6, <1>7, SleepStateFits
<1>9. ASSUME NEW x \in Members(q), x.flow = h.flow
      PROVE  ~IsBegin(x) /\ (IsEnd(x) => x.left = 0 /\ ~Spaced(h.schedule))
  <2>1. CASE x \in Members(t)
    <3>1. FitTwt(h, x) /\ x \in Events
      BY <1>3, <1>9, <2>1, HeadFirst DEF Fit
    <3>2. x.left \in Nat
      BY <3>1 DEF Events
    <3> QED
      BY <1>4, <1>5, <3>1, <3>2 DEF FitTwt
  <2>2. CASE Asked(x, FALSE)
    BY <2>2 DEF Asked, IsRequest, IsBegin, IsEnd
  <2> QED
    BY <1>8, <2>1, <2>2
<1> HIDE DEF h, t, d, r
<1>10. /\ WellFormed(r, d) /\ BeginOf(h) \in Members(r) /\ EndOf(h) \in Members(r)
       /\ \A e \in Members(q) : \E x \in Members(r) : Forgotten(e, x, h.flow)
       /\ \A x \in Members(r) : \/ x = BeginOf(h) \/ x = EndOf(h)
                                \/ \E e \in Members(q) : Forgotten(e, x, h.flow)
  BY <1>1, <1>4, <1>5, <1>8, <1>9, ChainFits
<1>11. \A x \in Members(r) :
          IsRequest(x) \/ x.call = "TxTimeout" => \E e \in Members(q) : Forgotten(e, x, h.flow)
  <2>1. /\ ~IsRequest(BeginOf(h)) /\ BeginOf(h).call # "TxTimeout"
        /\ ~IsRequest(EndOf(h)) /\ EndOf(h).call # "TxTimeout"
    BY DEF BeginOf, EndOf, TwtEvent, IsRequest
  <2> QED
    BY <1>10, <2>1
<1>12. PICK active \in Flows : /\ active = h.flow /\ Active(active)'
                               /\ \A flow \in Flows : Agreed(flow)' <=> Agreed(flow)
  <2>1. PICK active \in Flows : active = h.flow
    BY <1>5
  <2>2. /\ m_twtAgreementMap'[active] = Agreement(TRUE)
        /\ \A flow \in Flows : flow # active => m_twtAgreementMap'[flow] = m_twtAgreementMap[flow]
    BY <1>0, <1>2, <2>1 DEF Typed
  <2>3. Active(active)' /\ Agreed(active)'
    BY <2>2 DEF Active, Agreed, Agreement
  <2>4. \A flow \in Flows : flow # active => (Agreed(flow)' <=> Agreed(flow))
    BY <2>2 DEF Agreed
  <2> QED
    BY <1>0, <2>1, <2>3, <2>4
<1>13. Typed'
  <2>1. m_twtAgreementMap' \in [Flows -> {NoAgreement, Agreement(TRUE), Agreement(FALSE)}]
    BY <1>0, <1>2 DEF Typed
  <2>2. {flow \in Flows : Agreed(flow)}' = {flow \in Flows : Agreed(flow)}
    BY <1>12
  <2>3. crowded' \in BOOLEAN
    BY <1>0 DEF d
  <2> QED
    BY <1>0, <1>2, <1>8, <2>1, <2>2, <2>3 DEF Typed
<1>14. ASSUME NEW e \in Members(q)
       PROVE  EventOK(e)
  BY <1>2, <1>3, <1>8 DEF Queue, Asked
<1>15. ASSUME NEW x \in Members(r)
       PROVE  EventOK(x)'
  <2>1. CASE x = BeginOf(h) \/ x = EndOf(h)
    <3>1. x.flow = h.flow /\ x.schedule = h.schedule /\ x.held /\ (IsBegin(x) \/ IsEnd(x))
      BY <2>1 DEF BeginOf, EndOf, TwtEvent, IsBegin, IsEnd
    <3>2. Agreed(x.flow)'
      BY <1>5, <1>0, <1>12, <3>1
    <3> QED
      BY <1>5, <3>1, <3>2 DEF EventOK, OfAgreement
  <2>2. CASE \E e \in Members(q) : Forgotten(e, x, h.flow)
    <3>1. PICK e \in Members(q) : Forgotten(e, x, h.flow)
      BY <2>2
    <3>2. EventOK(e) /\ (e.flow = h.flow => ~IsBegin(e) /\ (IsEnd(e) => e.left = 0))
      BY <1>9, <1>14
    <3>3. EventOK(x)
      BY <3>1, <3>2 DEF EventOK, OfAgreement, OfPhy, Forgotten, IsBegin, IsEnd
    <3>4. (IsBegin(x) \/ IsEnd(x)) => (Agreed(x.flow) => Agreed(x.flow)')
      BY <1>12, <3>3 DEF EventOK, OfAgreement
    <3> QED
      BY <1>0, <3>3, <3>4, EventStays DEF EventOK, OfPhy, IsBegin, IsEnd
  <2> QED
    BY <1>10, <2>1, <2>2
<1>16. Queue'
  BY <1>0, <1>10, <1>15 DEF Queue, r
<1>17. Chained'
  <2> SUFFICES ASSUME NEW flow \in Flows, Agreed(flow)'
               PROVE  \E e \in Members(r) : IsBegin(e) /\ e.flow = flow
    BY DEF Chained, r
  <2>1. CASE flow = h.flow
    BY <1>10, <2>1 DEF BeginOf, TwtEvent, IsBegin
  <2>2. CASE flow # h.flow
    <3>1. PICK e \in Members(m_events) : IsBegin(e) /\ e.flow = flow
      BY <1>2, <1>12 DEF Chained
    <3>2. e \in Members(q)
      BY <1>3, <1>8, <2>2, <3>1
    <3>3. PICK x \in Members(r) : Forgotten(e, x, h.flow)
      BY <1>10, <3>2
    <3> QED
      BY <3>1, <3>3 DEF Forgotten, IsBegin
  <2> QED
    BY <2>1, <2>2
<1>18. Open'
  BY <1>0 DEF Open
<1>19. BlockedBetweenPeriods'
  BY <1>12 DEF BlockedBetweenPeriods
<1>20. Covered'
  <2> SUFFICES ASSUME NEW x \in Members(r), x.call = "TxTimeout"
               PROVE  ~m_sleeping'
    BY DEF Covered, r
  <2>1. PICK e \in Members(q) : Forgotten(e, x, h.flow)
    BY <1>11
  <2>2. e \in Members(m_events) /\ e.call = "TxTimeout"
    BY <1>3, <1>8, <2>1 DEF Forgotten, Asked, IsRequest
  <2> QED
    BY <1>0, <1>8, <2>2 DEF TInv, Covered
<1>21. Quiet'
  <2> SUFFICES ASSUME IsSta, ~d
               PROVE  /\ \A x \in Members(r) : IsRequest(x) => sleepAsked' = (x.call # "Wake")
                      /\ (\A x \in Members(r) : ~IsRequest(x)) => m_sleeping' = sleepAsked'
    BY <1>0 DEF Quiet, IsSta, r
  <2>1. ASSUME NEW x \in Members(r), IsRequest(x)
        PROVE  sleepAsked' = (x.call # "Wake")
    <3>1. PICK e \in Members(q) : Forgotten(e, x, h.flow)
      BY <1>11, <2>1
    <3>2. IsRequest(e) /\ e.call = x.call
      BY <2>1, <3>1 DEF Forgotten, IsRequest
    <3>3. Asked(e, FALSE)
      BY <1>3, <1>6, <1>8, <3>2
    <3> QED
      BY <1>0, <3>2, <3>3 DEF Asked
  <2>2. (\A x \in Members(r) : ~IsRequest(x)) => \A e \in Members(q) : ~IsRequest(e)
    <3> SUFFICES ASSUME NEW e \in Members(q), IsRequest(e)
                 PROVE  \E x \in Members(r) : IsRequest(x)
      OBVIOUS
    <3>1. PICK x \in Members(r) : Forgotten(e, x, h.flow)
      BY <1>10
    <3> QED
      BY <3>1 DEF Forgotten, IsRequest
  <2> QED
    BY <1>0, <1>8, <2>1, <2>2
<1> QED
  BY <1>13, <1>16, <1>17, <1>18, <1>19, <1>20, <1>21 DEF TInv

LEMMA AgreementEnds ==
  ASSUME NEW a \in {NoAgreement, Agreement(TRUE), Agreement(FALSE)}
  PROVE  [a EXCEPT !.isSpActiveNow = FALSE] \in {NoAgreement, Agreement(FALSE)}
<1> DEFINE R == [isSpActiveNow : BOOLEAN, exists : BOOLEAN]
           b == [a EXCEPT !.isSpActiveNow = FALSE]
<1>1. \A r, s \in R : r.isSpActiveNow = s.isSpActiveNow /\ r.exists = s.exists => r = s
  OBVIOUS
<1>2. NoAgreement \in R /\ NoAgreement.isSpActiveNow = FALSE /\ NoAgreement.exists = FALSE
  BY DEF NoAgreement
<1>3. \A x \in BOOLEAN : Agreement(x) \in R /\ Agreement(x).isSpActiveNow = x /\ Agreement(x).exists = TRUE
  BY DEF Agreement
<1>4. a \in R
  BY <1>2, <1>3
<1>5. b \in R /\ b.isSpActiveNow = FALSE /\ b.exists = a.exists
  BY <1>4
<1>6. b.exists \in BOOLEAN
  BY <1>5
<1> HIDE DEF R, b
<1>7. b = NoAgreement \/ b = Agreement(FALSE)
  BY <1>1, <1>2, <1>3, <1>5, <1>6
<1> QED
  BY <1>7 DEF b

\* The end of a period: any other pending End is of another agreement, or not held.
LEMMA EndTwtSpNowSteps ==
  ASSUME TInv, EndTwtSpNow
  PROVE  TInv'
<1> DEFINE h == m_events[1]
           t == Tail(m_events)
           d == SleepRequests # {}
           r == m_events'
<1>1. /\ Typed /\ Queue /\ Chained /\ WellFormed(m_events, crowded) /\ m_events # <<>>
      /\ h.left = 0 /\ h.call = "EndTwtSpNow"
  BY DEF TInv, Queue, EndTwtSpNow, EndPeriod, NextIs
<1>2. /\ crowded' = d /\ sleepAsked' = TRUE /\ blocked' = TRUE /\ node' = node /\ phyBusy' = phyBusy
      /\ nav' = nav /\ m_twtAgreementCount' = m_twtAgreementCount /\ served' = served \cup {h.flow}
      /\ m_twtAgreementMap' = [m_twtAgreementMap EXCEPT ![h.flow].isSpActiveNow = FALSE]
      /\ r = EventsAfterSleepState(t, TRUE) /\ m_sleeping' = SleepingAfterSleepState(TRUE)
  BY DEF EndTwtSpNow, EndPeriod, BlockPeer, SetPhySleepState
<1>3. /\ WellFormed(t, crowded) /\ Members(m_events) = Members(t) \cup {h}
      /\ \A x \in Members(t) : Fit(h, x, crowded)
  BY <1>1, TailFits
<1>4. IsEnd(h) /\ ~IsBegin(h) /\ ~IsRequest(h) /\ h.flow \in Flows /\ Agreed(h.flow)
  BY <1>1, <1>3 DEF Queue, EventOK, OfAgreement, IsBegin, IsEnd, IsRequest
<1>5. d <=> \E e \in Members(m_events) : IsRequest(e)
  BY <1>1, PhyMembers
<1>6. WellFormed(t, d)
  BY <1>3, <1>5, NoRequests
<1>7. /\ WellFormed(r, d) /\ Members(t) \subseteq Members(r)
      /\ \A x \in Members(r) : x \in Members(t) \/ Asked(x, TRUE)
      /\ IsSta /\ (\A x \in Members(r) : ~IsRequest(x)) => SleepingAfterSleepState(TRUE) = TRUE
      /\ SleepingAfterSleepState(TRUE) \in BOOLEAN
      /\ SleepingAfterSleepState(TRUE) => \/ m_sleeping
                                          \/ \A e \in Members(m_events) : e.call # "TxTimeout"
  BY <1>1, <1>2, <1>3, <1>5, <1>6, SleepStateFits
<1> HIDE DEF h, t, d, r
<1>8. PICK ended \in Flows : ended = h.flow
  BY <1>4
<1>9. \A flow \in Flows : Agreed(flow)' <=> Agreed(flow)
  <2>1. \A flow \in Flows : m_twtAgreementMap'[flow].exists <=> m_twtAgreementMap[flow].exists
    BY <1>1, <1>2 DEF Typed, NoAgreement, Agreement
  <2> QED
    BY <2>1 DEF Agreed
<1>10. Typed'
  <2>1. m_twtAgreementMap' \in [Flows -> {NoAgreement, Agreement(TRUE), Agreement(FALSE)}]
    <3>1. \A a \in {NoAgreement, Agreement(TRUE), Agreement(FALSE)} :
             [a EXCEPT !.isSpActiveNow = FALSE] \in {NoAgreement, Agreement(FALSE)}
      BY AgreementEnds
    <3>2. m_twtAgreementMap \in [Flows -> {NoAgreement, Agreement(TRUE), Agreement(FALSE)}]
      BY <1>1 DEF Typed
    <3>3. m_twtAgreementMap' = [m_twtAgreementMap EXCEPT
             ![h.flow] = [m_twtAgreementMap[h.flow] EXCEPT !.isSpActiveNow = FALSE]]
      BY <1>2
    <3>4. [m_twtAgreementMap[h.flow] EXCEPT !.isSpActiveNow = FALSE] \in {NoAgreement, Agreement(FALSE)}
      BY <1>4, <3>1, <3>2
    <3> HIDE DEF NoAgreement, Agreement
    <3> QED
      BY <3>2, <3>3, <3>4
  <2>2. {flow \in Flows : Agreed(flow)}' = {flow \in Flows : Agreed(flow)}
    BY <1>9
  <2>3. crowded' \in BOOLEAN
    BY <1>2 DEF d
  <2> QED
    BY <1>1, <1>2, <1>4, <1>7, <2>1, <2>2, <2>3 DEF Typed
<1>11. ASSUME NEW x \in Members(r)
       PROVE  EventOK(x)'
  <2>1. EventOK(x)
    BY <1>1, <1>3, <1>7 DEF Queue, Asked
  <2>2. (IsBegin(x) \/ IsEnd(x)) => (Agreed(x.flow) => Agreed(x.flow)')
    BY <1>9, <2>1 DEF EventOK, OfAgreement
  <2> QED
    BY <1>2, <2>1, <2>2, EventStays DEF EventOK, OfPhy, IsBegin, IsEnd
<1>12. Queue'
  BY <1>2, <1>7, <1>11 DEF Queue, r
<1>13. Chained'
  <2> SUFFICES ASSUME NEW flow \in Flows, Agreed(flow)'
               PROVE  \E e \in Members(r) : IsBegin(e) /\ e.flow = flow
    BY DEF Chained, r
  <2>1. PICK e \in Members(m_events) : IsBegin(e) /\ e.flow = flow
    BY <1>1, <1>9 DEF Chained
  <2> QED
    BY <1>3, <1>4, <1>7, <2>1
<1>14. Open'
  <2> SUFFICES ASSUME m_twtAgreementCount <= 1, NEW x \in Members(r), IsEnd(x), x.held, Spaced(x.schedule)
               PROVE  FALSE
    BY <1>2 DEF Open, r
  <2>1. x \in Members(t) /\ x \in Members(m_events)
    BY <1>3, <1>7 DEF Asked, IsRequest, IsEnd
  <2>2. x.flow \in Flows /\ Agreed(x.flow)
    BY <1>1, <2>1 DEF Queue, EventOK, OfAgreement, IsBegin, IsEnd
  <2>3. x.flow = h.flow
    <3> DEFINE A == {flow \in Flows : Agreed(flow)}
    <3>1. IsFiniteSet(A) /\ Cardinality(A) <= 1
      BY <1>1, TwtAssumption, FS_Subset DEF Typed
    <3>2. x.flow \in A /\ h.flow \in A
      BY <1>4, <2>2
    <3> HIDE DEF A
    <3>3. ASSUME x.flow # h.flow
          PROVE  FALSE
      <4>1. {x.flow, h.flow} \subseteq A /\ Cardinality({x.flow, h.flow}) = 2
        <5>1. IsFiniteSet({x.flow}) /\ Cardinality({x.flow}) = 1
          BY FS_Singleton
        <5>2. {x.flow, h.flow} = {x.flow} \cup {h.flow} /\ h.flow \notin {x.flow}
          BY <3>3
        <5>3. Cardinality({x.flow} \cup {h.flow}) = Cardinality({x.flow}) + 1
          BY <5>1, <5>2, FS_AddElement
        <5> QED
          BY <3>2, <5>1, <5>2, <5>3
      <4>2. Cardinality({x.flow, h.flow}) <= Cardinality(A)
        BY <3>1, <4>1, FS_Subset
      <4> QED
        BY <3>1, <4>1, <4>2, FS_CardinalityType
    <3> QED
      BY <3>3
  <2>4. FitTwt(h, x)
    BY <1>3, <2>1, <2>3 DEF Fit
  <2> QED
    BY <1>4, <2>4 DEF FitTwt
<1>15. BlockedBetweenPeriods'
  BY <1>2 DEF BlockedBetweenPeriods
<1>16. Covered'
  <2> SUFFICES ASSUME NEW x \in Members(r), x.call = "TxTimeout"
               PROVE  ~m_sleeping'
    BY DEF Covered, r
  <2>1. x \in Members(m_events)
    BY <1>3, <1>7 DEF Asked, IsRequest
  <2> QED
    BY <1>2, <1>7, <2>1 DEF TInv, Covered
<1>17. Quiet'
  <2> SUFFICES ASSUME IsSta, ~d
               PROVE  /\ \A x \in Members(r) : IsRequest(x) => sleepAsked' = (x.call # "Wake")
                      /\ (\A x \in Members(r) : ~IsRequest(x)) => m_sleeping' = sleepAsked'
    BY <1>2 DEF Quiet, IsSta, r
  <2>1. \A x \in Members(r) : IsRequest(x) => Asked(x, TRUE)
    BY <1>3, <1>5, <1>7
  <2> QED
    BY <1>2, <1>7, <2>1 DEF Asked
<1> QED
  BY <1>10, <1>12, <1>13, <1>14, <1>15, <1>16, <1>17 DEF TInv

\* A step that leaves the agreements and their events alone.
LEMMA AgreementsStay ==
  ASSUME TInv, agreements' = agreements, served' = served, blocked' = blocked,
         \A x \in Members(m_events') : IsBegin(x) \/ IsEnd(x) => x \in Members(m_events),
         \A e \in Members(m_events) : IsBegin(e) => e \in Members(m_events')
  PROVE  /\ Chained' /\ Open' /\ BlockedBetweenPeriods'
         /\ \A flow : Agreed(flow)' <=> Agreed(flow)
<1>1. m_twtAgreementMap' = m_twtAgreementMap /\ m_twtAgreementCount' = m_twtAgreementCount
  BY DEF agreements
<1>2. \A flow : (Agreed(flow)' <=> Agreed(flow)) /\ (Active(flow)' <=> Active(flow))
  BY <1>1 DEF Agreed, Active
<1>3. Chained'
  BY <1>2 DEF TInv, Chained
<1>4. Open'
  BY <1>1 DEF TInv, Open
<1>5. BlockedBetweenPeriods'
  BY <1>2 DEF TInv, BlockedBetweenPeriods
<1> QED
  BY <1>2, <1>3, <1>4, <1>5

\* A step of the PHY or of a frame exchange.
LEMMA PhyStep ==
  ASSUME TInv, agreements' = agreements, served' = served, blocked' = blocked,
         sleepAsked' = sleepAsked, crowded' = crowded,
         m_sleeping' \in BOOLEAN, phyBusy' \in Nat, nav' \in Nat, WellFormed(m_events', crowded),
         \A x \in Members(m_events') : IF IsBegin(x) \/ IsEnd(x) THEN x \in Members(m_events) ELSE OfPhy(x)',
         \A e \in Members(m_events) : IsBegin(e) => e \in Members(m_events'),
         Covered', Quiet'
  PROVE  TInv'
<1>1. /\ Chained' /\ Open' /\ BlockedBetweenPeriods'
      /\ \A flow : Agreed(flow)' <=> Agreed(flow)
  BY AgreementsStay
<1>2. m_twtAgreementMap' = m_twtAgreementMap /\ m_twtAgreementCount' = m_twtAgreementCount /\ node' = node
  BY DEF agreements
<1>3. Typed'
  <2>1. {flow \in Flows : Agreed(flow)}' = {flow \in Flows : Agreed(flow)}
    BY <1>1
  <2>2. Typed
    BY DEF TInv
  <2> QED
    BY <1>2, <2>1, <2>2 DEF Typed
<1>4. ASSUME NEW x \in Members(m_events')
      PROVE  EventOK(x)'
  <2>1. CASE IsBegin(x) \/ IsEnd(x)
    <3>1. EventOK(x)
      BY <2>1 DEF TInv, Queue
    <3> QED
      BY <1>1, <2>1, <3>1 DEF EventOK, OfAgreement
  <2>2. CASE ~(IsBegin(x) \/ IsEnd(x))
    BY <2>2 DEF EventOK
  <2> QED
    BY <2>1, <2>2
<1>5. Queue'
  BY <1>4 DEF Queue
<1> QED
  BY <1>1, <1>3, <1>5 DEF TInv

\* A postponed request is made again.
LEMMA PostponedSleepStateSteps ==
  ASSUME TInv, PostponedSleepState
  PROVE  TInv'
<1> DEFINE h == m_events[1]
           t == Tail(m_events)
           r == m_events'
<1>1. /\ Typed /\ Queue /\ Covered /\ Quiet /\ WellFormed(m_events, crowded) /\ crowded \in BOOLEAN
      /\ agreements' = agreements /\ blocked' = blocked /\ phyBusy' = phyBusy /\ nav' = nav
      /\ sleepAsked' = sleepAsked /\ crowded' = crowded /\ served' = served /\ node' = node
  BY DEF TInv, Queue, Typed, PostponedSleepState, agreements, twtHistory
<1>2. PICK enable \in BOOLEAN :
        /\ m_events # <<>> /\ h.call = IF enable THEN "Sleep" ELSE "Wake"
        /\ r = EventsAfterSleepState(t, enable) /\ m_sleeping' = SleepingAfterSleepState(enable)
  BY DEF PostponedSleepState, NextIs, SetPhySleepState
<1>3. /\ WellFormed(t, crowded) /\ Members(m_events) = Members(t) \cup {h}
      /\ \A x \in Members(t) : Fit(h, x, crowded)
  BY <1>1, <1>2, TailFits
<1>4. IsRequest(h) /\ ~IsBegin(h) /\ ~IsEnd(h) /\ enable = (h.call # "Wake")
  BY <1>2 DEF IsRequest, IsBegin, IsEnd
<1>5. ~crowded => \A x \in Members(t) : ~IsRequest(x)
  BY <1>3, <1>4 DEF Fit, FitPhy
<1>6. /\ WellFormed(r, crowded) /\ Members(t) \subseteq Members(r)
      /\ \A x \in Members(r) : x \in Members(t) \/ Asked(x, enable)
      /\ IsSta /\ (\A x \in Members(r) : ~IsRequest(x)) => SleepingAfterSleepState(enable) = enable
      /\ SleepingAfterSleepState(enable) \in BOOLEAN
      /\ SleepingAfterSleepState(enable) => \/ m_sleeping
                                            \/ \A e \in Members(m_events) : e.call # "TxTimeout"
  BY <1>1, <1>2, <1>3, <1>5, SleepStateFits
<1> HIDE DEF h, t, r
<1>7. \A x \in Members(r) : IF IsBegin(x) \/ IsEnd(x) THEN x \in Members(m_events) ELSE OfPhy(x)'
  <2> SUFFICES ASSUME NEW x \in Members(r)
               PROVE  IF IsBegin(x) \/ IsEnd(x) THEN x \in Members(m_events) ELSE OfPhy(x)'
    OBVIOUS
  <2>1. EventOK(x)
    BY <1>1, <1>3, <1>6 DEF Queue, Asked
  <2>2. ~IsBegin(x) /\ ~IsEnd(x) => OfPhy(x)'
    BY <1>1, <2>1 DEF EventOK, OfPhy, IsSta
  <2>3. IsBegin(x) \/ IsEnd(x) => x \in Members(m_events)
    BY <1>3, <1>6 DEF Asked, IsRequest, IsBegin, IsEnd
  <2> QED
    BY <2>2, <2>3
<1>8. \A e \in Members(m_events) : IsBegin(e) => e \in Members(r)
  BY <1>3, <1>4, <1>6
<1>9. Covered'
  <2> SUFFICES ASSUME NEW x \in Members(r), x.call = "TxTimeout"
               PROVE  ~m_sleeping'
    BY DEF Covered, r
  <2>1. x \in Members(m_events)
    BY <1>3, <1>6 DEF Asked, IsRequest
  <2> QED
    BY <1>1, <1>2, <1>6, <2>1 DEF Covered
<1>10. Quiet'
  <2> SUFFICES ASSUME IsSta, ~crowded
               PROVE  /\ \A x \in Members(r) : IsRequest(x) => sleepAsked = (x.call # "Wake")
                      /\ (\A x \in Members(r) : ~IsRequest(x)) => m_sleeping' = sleepAsked
    BY <1>1 DEF Quiet, IsSta, r
  <2>1. sleepAsked = enable
    BY <1>1, <1>3, <1>4 DEF Quiet
  <2>2. \A x \in Members(r) : IsRequest(x) => Asked(x, enable)
    BY <1>5, <1>6
  <2> QED
    BY <1>2, <1>6, <2>1, <2>2 DEF Asked
<1>11. m_sleeping' \in BOOLEAN /\ phyBusy' \in Nat /\ nav' \in Nat
  BY <1>1, <1>2, <1>6 DEF Typed
<1> QED
  BY <1>1, <1>6, <1>7, <1>8, <1>9, <1>10, <1>11, PhyStep DEF r

\* The event that runs or is cancelled is one of the frame exchange, and nothing is
\* added.
LEMMA EventGone ==
  ASSUME TInv, agreements' = agreements, served' = served, blocked' = blocked,
         sleepAsked' = sleepAsked, crowded' = crowded, m_sleeping' = m_sleeping,
         phyBusy' \in Nat, nav' \in Nat, WellFormed(m_events', crowded),
         NEW h, h.call \in {"TxTimeout", "SendResponse"}, Members(m_events) = Members(m_events') \cup {h},
         \A x \in Members(m_events') : /\ x.call = "SetSleepMode" => x.left <= phyBusy'
                                       /\ x.call = "SendResponse" => phyBusy' < x.left \/ phyBusy' = 0
  PROVE  TInv'
<1>1. Typed /\ Queue /\ Covered /\ Quiet /\ node' = node
  BY DEF TInv, agreements
<1>2. ~IsRequest(h) /\ ~IsBegin(h) /\ ~IsEnd(h)
  BY DEF IsRequest, IsBegin, IsEnd
<1>3. \A x \in Members(m_events') : IF IsBegin(x) \/ IsEnd(x) THEN x \in Members(m_events) ELSE OfPhy(x)'
  BY <1>1 DEF Queue, EventOK, OfPhy, IsSta
<1>4. Covered'
  BY <1>1 DEF Covered
<1>5. Quiet'
  BY <1>1, <1>2 DEF Quiet, IsSta
<1>6. m_sleeping' \in BOOLEAN
  BY <1>1 DEF Typed
<1> QED
  BY <1>1, <1>2, <1>3, <1>4, <1>5, <1>6, PhyStep

LEMMA TxTimeoutSteps ==
  ASSUME TInv, TxTimeout
  PROVE  TInv'
<1>1. Typed /\ Queue /\ WellFormed(m_events, crowded) /\ m_events # <<>>
  BY DEF TInv, Queue, TxTimeout, NextIs
<1>2. /\ agreements' = agreements /\ served' = served /\ blocked' = blocked /\ sleepAsked' = sleepAsked
      /\ crowded' = crowded /\ m_sleeping' = m_sleeping /\ phyBusy' = phyBusy /\ nav' = nav
      /\ m_events' = Tail(m_events) /\ m_events[1].call = "TxTimeout"
  BY DEF TxTimeout, NextIs, phy, twtHistory
<1>3. WellFormed(m_events', crowded) /\ Members(m_events) = Members(m_events') \cup {m_events[1]}
  BY <1>1, <1>2, TailFits
<1>4. \A x \in Members(m_events') : /\ x.call = "SetSleepMode" => x.left <= phyBusy'
                                    /\ x.call = "SendResponse" => phyBusy' < x.left \/ phyBusy' = 0
  BY <1>1, <1>2, <1>3 DEF Queue, EventOK, OfPhy, IsBegin, IsEnd
<1> QED
  BY <1>1, <1>2, <1>3, <1>4, EventGone DEF Typed

\* The PHY is free when a response is due, and there is only one.
LEMMA SendResponseSteps ==
  ASSUME TInv, SendResponse
  PROVE  TInv'
<1>1. Typed /\ Queue /\ WellFormed(m_events, crowded) /\ m_events # <<>>
  BY DEF TInv, Queue, SendResponse, NextIs
<1>2. /\ agreements' = agreements /\ served' = served /\ blocked' = blocked /\ sleepAsked' = sleepAsked
      /\ crowded' = crowded /\ m_sleeping' = m_sleeping /\ nav' = nav
      /\ phyBusy' = (IF m_sleeping THEN phyBusy ELSE 1)
      /\ m_events' = Tail(m_events) /\ m_events[1].call = "SendResponse" /\ m_events[1].left = 0
  BY DEF SendResponse, NextIs, agreements, twtHistory
<1>3. /\ WellFormed(m_events', crowded) /\ Members(m_events) = Members(m_events') \cup {m_events[1]}
      /\ \A x \in Members(m_events') : Fit(m_events[1], x, crowded)
  BY <1>1, <1>2, TailFits
<1>4. phyBusy = 0
  <2>1. m_events[1] \in Members(m_events)
    BY <1>3
  <2> QED
    BY <1>1, <1>2, <2>1 DEF Queue, EventOK, OfPhy, IsBegin, IsEnd, Typed
<1>5. ASSUME NEW x \in Members(m_events')
      PROVE  /\ x.call = "SetSleepMode" => x.left <= phyBusy'
             /\ x.call = "SendResponse" => phyBusy' < x.left \/ phyBusy' = 0
  <2>1. x.call # "SendResponse"
    BY <1>2, <1>3 DEF Fit, FitPhy
  <2>2. x \in Events
    BY <1>3, HeadFirst
  <2>3. x.left \in Nat
    BY <2>2 DEF Events
  <2>4. x.call = "SetSleepMode" => x.left <= phyBusy
    BY <1>1, <1>3 DEF Queue, EventOK, OfPhy, IsBegin, IsEnd
  <2> QED
    BY <1>2, <1>4, <2>1, <2>3, <2>4
<1>6. phyBusy' \in Nat /\ nav' \in Nat
  BY <1>1, <1>2 DEF Typed
<1> QED
  BY <1>2, <1>3, <1>5, <1>6, EventGone

LEMMA ReceivedNormalAckSteps ==
  ASSUME TInv, ReceivedNormalAck
  PROVE  TInv'
<1>1. Typed /\ Queue /\ WellFormed(m_events, crowded) /\ DOMAIN m_events = 1..Len(m_events)
  BY DEF TInv, Queue, WellFormed
<1>2. PICK i \in 1..Len(m_events) :
        m_events[i].call = "TxTimeout" /\ m_events' = Seqs!RemoveAt(m_events, i)
  BY <1>1 DEF ReceivedNormalAck
<1>3. /\ agreements' = agreements /\ served' = served /\ blocked' = blocked /\ sleepAsked' = sleepAsked
      /\ crowded' = crowded /\ m_sleeping' = m_sleeping /\ phyBusy' = phyBusy /\ nav' = nav
  BY DEF ReceivedNormalAck, phy, twtHistory
<1>4. WellFormed(m_events', crowded) /\ Members(m_events) = Members(m_events') \cup {m_events[i]}
  BY <1>1, <1>2, RemoveFits
<1>5. \A x \in Members(m_events') : /\ x.call = "SetSleepMode" => x.left <= phyBusy'
                                    /\ x.call = "SendResponse" => phyBusy' < x.left \/ phyBusy' = 0
  BY <1>1, <1>3, <1>4 DEF Queue, EventOK, OfPhy, IsBegin, IsEnd
<1> QED
  BY <1>1, <1>2, <1>3, <1>4, <1>5, EventGone DEF Typed

\* A frame starts when nothing is due, so no SetSleepMode waits for another.
LEMMA FrameStarts ==
  ASSUME TInv, Awake, NEW e \in Members(m_events)
  PROVE  e.left \in Nat /\ e.left > 0 /\ e.call # "SetSleepMode"
<1>1. Typed /\ Queue /\ WellFormed(m_events, crowded)
  BY DEF TInv, Queue
<1>2. m_events # <<>> /\ m_events[1] \in Events /\ e \in Events /\ m_events[1].left <= e.left
  BY <1>1, HeadFirst
<1>3. m_events[1].left \in Nat /\ e.left \in Nat
  BY <1>2 DEF Events
<1>4. m_events[1].left # 0
  BY <1>2 DEF Awake, Due
<1>5. e.call = "SetSleepMode" => e.left <= phyBusy
  BY <1>1 DEF Queue, EventOK, OfPhy, IsBegin, IsEnd
<1> QED
  BY <1>2, <1>3, <1>4, <1>5 DEF Awake

\* An exchange: its timer, or the response it is owed, is for after the frame.
LEMMA ExchangeSteps ==
  ASSUME TInv, Awake, ~TxTimerIsRunning, Pending("SendResponse", NoFlow) = {},
         agreements' = agreements, served' = served, blocked' = blocked, sleepAsked' = sleepAsked,
         crowded' = crowded, m_sleeping' = m_sleeping, nav' = nav,
         NEW d \in Nat \ {0}, phyBusy' = d, NEW call \in {"TxTimeout", "SendResponse"},
         m_events' = Insert(m_events, PhyEvent(call, d + Sifs))
  PROVE  TInv'
<1> DEFINE ev == PhyEvent(call, d + Sifs)
<1>1. /\ Typed /\ Queue /\ Covered /\ Quiet /\ WellFormed(m_events, crowded) /\ node' = node
      /\ IsSta /\ ~m_sleeping
  BY DEF TInv, Queue, agreements, Awake
<1>2. /\ ev \in Events /\ ev.call = call /\ ev.flow = NoFlow /\ ev.left = d + 1 /\ ~ev.held
  BY DEF PhyEvent, Events, Calls, Sifs
<1> HIDE DEF ev
<1>3. ~IsBegin(ev) /\ ~IsEnd(ev) /\ ~IsRequest(ev) /\ ev.call # "SetSleepMode"
  BY <1>2 DEF IsBegin, IsEnd, IsRequest
<1>4. \A x \in Members(m_events) : x.call # "TxTimeout" /\ x.call # "SendResponse" /\ x.call # "SetSleepMode"
  BY <1>1, PhyMembers, FrameStarts
<1>5. \A x \in Members(m_events) : IF x.left <= ev.left THEN Fit(x, ev, crowded) ELSE Fit(ev, x, crowded)
  <2> SUFFICES ASSUME NEW x \in Members(m_events)
               PROVE  IF x.left <= ev.left THEN Fit(x, ev, crowded) ELSE Fit(ev, x, crowded)
    OBVIOUS
  <2>1. FitTwt(x, ev) /\ FitTwt(ev, x)
    BY <1>3 DEF FitTwt
  <2>2. FitPhy(x, ev, crowded) /\ FitPhy(ev, x, crowded)
    BY <1>3, <1>4 DEF FitPhy
  <2>3. x.left \in Nat
    BY FrameStarts
  <2> QED
    BY <1>2, <2>1, <2>2, <2>3 DEF Fit
<1>6. WellFormed(m_events', crowded) /\ Members(m_events') = Members(m_events) \cup {ev}
  BY <1>1, <1>2, <1>5, InsertFits DEF ev
<1>7. ASSUME NEW x \in Members(m_events')
      PROVE  IF IsBegin(x) \/ IsEnd(x) THEN x \in Members(m_events) ELSE OfPhy(x)'
  <2>1. CASE x = ev
    BY <1>1, <1>2, <1>3, <2>1 DEF OfPhy, IsSta
  <2>2. CASE x \in Members(m_events)
    BY <1>1, <1>4, <2>2 DEF Queue, EventOK, OfPhy, IsSta
  <2> QED
    BY <1>6, <2>1, <2>2
<1>8. Covered'
  BY <1>1 DEF Covered
<1>9. Quiet'
  <2>1. /\ \A e \in Members(m_events') : IsRequest(e) => e \in Members(m_events)
        /\ \A e \in Members(m_events) : e \in Members(m_events')
    BY <1>3, <1>6
  <2> QED
    BY <1>1, <2>1 DEF Quiet, IsSta
<1>10. m_sleeping' \in BOOLEAN /\ phyBusy' \in Nat /\ nav' \in Nat
  BY <1>1 DEF Typed
<1> QED
  BY <1>1, <1>6, <1>7, <1>8, <1>9, <1>10, PhyStep

LEMMA FrameSteps ==
  ASSUME TInv, NEW d \in Nat \ {0}, SendMpdu(d) \/ Receive(d)
  PROVE  TInv'
<1>1. /\ Awake /\ ~TxTimerIsRunning /\ Pending("SendResponse", NoFlow) = {} /\ phyBusy' = d
      /\ agreements' = agreements /\ served' = served /\ blocked' = blocked /\ sleepAsked' = sleepAsked
      /\ crowded' = crowded /\ m_sleeping' = m_sleeping /\ nav' = nav
  BY DEF SendMpdu, Receive, MayStart, twtHistory
<1>2. PICK call \in {"TxTimeout", "SendResponse"} : m_events' = Insert(m_events, PhyEvent(call, d + Sifs))
  BY DEF SendMpdu, Receive
<1> QED
  BY <1>1, <1>2, ExchangeSteps

LEMMA UpdateNavSteps ==
  ASSUME TInv, NEW d \in Nat \ {0}, UpdateNav(d)
  PROVE  TInv'
<1>1. /\ agreements' = agreements /\ served' = served /\ blocked' = blocked /\ sleepAsked' = sleepAsked
      /\ crowded' = crowded /\ m_sleeping' = m_sleeping /\ phyBusy' = phyBusy /\ m_events' = m_events
      /\ nav' \in Nat
  BY DEF UpdateNav, twtHistory
<1>2. /\ Typed /\ Queue /\ Covered /\ Quiet /\ node' = node /\ m_sleeping' \in BOOLEAN /\ phyBusy' \in Nat
      /\ WellFormed(m_events', crowded)
  BY <1>1 DEF TInv, agreements, Typed, Queue
<1>3. \A x \in Members(m_events') : IF IsBegin(x) \/ IsEnd(x) THEN x \in Members(m_events) ELSE OfPhy(x)'
  BY <1>1, <1>2 DEF Queue, EventOK, OfPhy, IsSta
<1>4. Covered' /\ Quiet'
  BY <1>1, <1>2 DEF Covered, Quiet, IsSta
<1> QED
  BY <1>1, <1>2, <1>3, <1>4, PhyStep

\* WifiPhy::SetSleepMode finds no timer running, and waits again for a frame.
LEMMA PostponedSetSleepModeSteps ==
  ASSUME TInv, PostponedSetSleepMode
  PROVE  TInv'
<1> DEFINE h == m_events[1]
           t == Tail(m_events)
           r == m_events'
           ev == PhyEvent("SetSleepMode", phyBusy)
           again == phyBusy > 0 /\ ~m_sleeping
<1>1. /\ Typed /\ Queue /\ Covered /\ Quiet /\ WellFormed(m_events, crowded) /\ m_events # <<>>
      /\ agreements' = agreements /\ blocked' = blocked /\ phyBusy' = phyBusy /\ nav' = nav
      /\ sleepAsked' = sleepAsked /\ crowded' = crowded /\ served' = served /\ node' = node
      /\ h.call = "SetSleepMode" /\ m_sleeping' = (m_sleeping \/ phyBusy = 0)
      /\ r = IF again THEN Insert(t, ev) ELSE t
  BY DEF TInv, Queue, PostponedSetSleepMode, NextIs, agreements, twtHistory
<1>2. /\ WellFormed(t, crowded) /\ Members(m_events) = Members(t) \cup {h}
      /\ \A x \in Members(t) : Fit(h, x, crowded)
  BY <1>1, TailFits
<1>3. IsRequest(h) /\ ~IsBegin(h) /\ ~IsEnd(h) /\ h \in Members(m_events)
  BY <1>1, <1>2 DEF IsRequest, IsBegin, IsEnd
<1>4. /\ ~crowded => \A x \in Members(t) : ~IsRequest(x)
      /\ \A x \in Members(t) : x.call # "TxTimeout"
  BY <1>1, <1>2, <1>3 DEF Fit, FitPhy
<1>5. /\ ev \in Events /\ ev.call = "SetSleepMode" /\ ev.flow = NoFlow /\ ~ev.held /\ ev.left = phyBusy
  BY <1>1 DEF PhyEvent, Events, Calls, Typed
<1>6. IsRequest(ev) /\ ~IsBegin(ev) /\ ~IsEnd(ev)
  BY <1>5 DEF IsRequest, IsBegin, IsEnd
<1>7. IsSta
  BY <1>1, <1>3 DEF Queue, EventOK, OfPhy
<1> HIDE DEF h, t, r, ev, again
<1>8. WellFormed(r, crowded) /\ Members(r) = IF again THEN Members(t) \cup {ev} ELSE Members(t)
  <2>1. ASSUME NEW x \in Members(t)
        PROVE  IF x.left <= ev.left THEN Fit(x, ev, crowded) ELSE Fit(ev, x, crowded)
    <3>1. FitTwt(x, ev) /\ FitTwt(ev, x)
      BY <1>6 DEF FitTwt
    <3>2. FitPhy(x, ev, crowded) /\ FitPhy(ev, x, crowded)
      BY <1>4, <1>5 DEF FitPhy
    <3>3. x \in Events
      BY <1>2, HeadFirst
    <3>4. x.left \in Nat /\ ev.left \in Nat
      BY <1>5, <3>3 DEF Events
    <3> QED
      BY <3>1, <3>2, <3>4 DEF Fit
  <2>2. CASE again
    <3>1. r = Insert(t, ev)
      BY <1>1, <2>2
    <3> QED
      BY <1>2, <1>5, <2>1, <2>2, <3>1, InsertFits
  <2>3. CASE ~again
    BY <1>1, <1>2, <2>3
  <2> QED
    BY <2>2, <2>3
<1>9. \A x \in Members(r) : IF IsBegin(x) \/ IsEnd(x) THEN x \in Members(m_events) ELSE OfPhy(x)'
  <2> SUFFICES ASSUME NEW x \in Members(r)
               PROVE  IF IsBegin(x) \/ IsEnd(x) THEN x \in Members(m_events) ELSE OfPhy(x)'
    OBVIOUS
  <2>1. CASE x = ev
    BY <1>1, <1>5, <1>6, <1>7, <2>1 DEF OfPhy, IsSta, Typed
  <2>2. CASE x \in Members(t)
    BY <1>1, <1>2, <2>2 DEF Queue, EventOK, OfPhy, IsSta
  <2> QED
    BY <1>8, <2>1, <2>2
<1>10. \A e \in Members(m_events) : IsBegin(e) => e \in Members(r)
  BY <1>2, <1>3, <1>8
<1>11. Covered'
  BY <1>4, <1>5, <1>8 DEF Covered, r
<1>12. Quiet'
  <2> SUFFICES ASSUME ~crowded
               PROVE  /\ \A x \in Members(r) : IsRequest(x) => sleepAsked = (x.call # "Wake")
                      /\ (\A x \in Members(r) : ~IsRequest(x)) => m_sleeping' = sleepAsked
    BY <1>1 DEF Quiet, IsSta, r
  <2>1. sleepAsked = TRUE
    BY <1>1, <1>3, <1>7 DEF Quiet
  <2>2. \A x \in Members(r) : IsRequest(x) => x = ev
    BY <1>4, <1>8
  <2>3. (\A x \in Members(r) : ~IsRequest(x)) => m_sleeping' = TRUE
    <3>1. (\A x \in Members(r) : ~IsRequest(x)) => ~again
      BY <1>6, <1>8
    <3>2. ~again => m_sleeping \/ phyBusy = 0
      BY <1>1 DEF again, Typed
    <3> QED
      BY <1>1, <3>1, <3>2
  <2> QED
    BY <1>5, <2>1, <2>2, <2>3
<1>13. m_sleeping' \in BOOLEAN /\ phyBusy' \in Nat /\ nav' \in Nat
  BY <1>1 DEF Typed
<1> QED
  BY <1>1, <1>8, <1>9, <1>10, <1>11, <1>12, <1>13, PhyStep DEF r

\* A replaced agreement leaves at most an End that is due, and no member refers to it.
LEMMA SetTwtScheduleSteps ==
  ASSUME TInv, NEW flow \in Flows, NEW schedule \in Schedules, NEW first \in Nat,
         SetTwtSchedule(flow, schedule, first)
  PROVE  TInv'
<1> DEFINE r == m_events'
           ev == TwtEvent("BeginTwtSpNow", flow, schedule, first)
           b == Cancel(m_events, "BeginTwtSpNow", flow)
           q == Cancel(b, "EndTwtSpNow", flow)
<1>1. /\ Typed /\ Queue /\ Chained /\ Open /\ Covered /\ Quiet /\ WellFormed(m_events, crowded)
      /\ m_twtAgreementMap' = [m_twtAgreementMap EXCEPT ![flow] = Agreement(FALSE)]
      /\ m_twtAgreementCount' = m_twtAgreementCount + (IF Agreed(flow) THEN 0 ELSE 1)
      /\ served' = served \ {flow} /\ node' = node /\ blocked' = blocked /\ m_sleeping' = m_sleeping
      /\ phyBusy' = phyBusy /\ nav' = nav /\ sleepAsked' = sleepAsked /\ crowded' = crowded
      /\ r = Insert(q, ev)
  BY DEF TInv, Queue, SetTwtSchedule, CancelBoth, phy
<1>2. /\ ev \in Events /\ IsBegin(ev) /\ ~IsEnd(ev) /\ ~IsRequest(ev) /\ ev.call = "BeginTwtSpNow"
      /\ ev.flow = flow /\ ev.schedule = schedule /\ ev.left = first /\ ev.held
  BY DEF TwtEvent, Events, Calls, IsBegin, IsEnd, IsRequest
<1> HIDE DEF ev
<1>3. /\ WellFormed(b, crowded) /\ Members(b) \subseteq Members(m_events)
      /\ \A e \in Members(m_events) : e \in Members(b) \/ (IsOf(e, "BeginTwtSpNow", flow) /\ e.held)
      /\ \A e \in Members(b) : ~(IsOf(e, "BeginTwtSpNow", flow) /\ e.held)
  BY <1>1, CancelFits
<1>4. /\ WellFormed(q, crowded) /\ Members(q) \subseteq Members(b)
      /\ \A e \in Members(b) : e \in Members(q) \/ (IsOf(e, "EndTwtSpNow", flow) /\ e.held)
      /\ \A e \in Members(q) : ~(IsOf(e, "EndTwtSpNow", flow) /\ e.held)
  BY <1>3, CancelFits
<1> HIDE DEF b, q, r
<1>5. \A e \in Members(m_events) : \/ e \in Members(q)
                                   \/ (IsBegin(e) \/ IsEnd(e)) /\ e.flow = flow
  BY <1>3, <1>4 DEF IsOf, IsBegin, IsEnd
<1>6. Members(q) \subseteq Members(m_events)
  BY <1>3, <1>4
<1>7. ASSUME NEW x \in Members(q), x.flow = flow
      PROVE  ~IsBegin(x) /\ (IsEnd(x) => x.left = 0)
  <2>1. EventOK(x)
    BY <1>1, <1>6 DEF Queue
  <2>2. ~IsBegin(x)
    BY <1>3, <1>4, <1>7, <2>1 DEF IsOf, IsBegin, IsEnd, EventOK, OfAgreement
  <2>3. IsEnd(x) => ~x.held
    BY <1>4, <1>7 DEF IsOf, IsEnd
  <2> QED
    BY <2>1, <2>2, <2>3 DEF EventOK, OfAgreement
<1>8. \A x \in Members(q) : IF x.left <= ev.left THEN Fit(x, ev, crowded) ELSE Fit(ev, x, crowded)
  <2> SUFFICES ASSUME NEW x \in Members(q)
               PROVE  IF x.left <= ev.left THEN Fit(x, ev, crowded) ELSE Fit(ev, x, crowded)
    OBVIOUS
  <2>1. FitPhy(x, ev, crowded) /\ FitPhy(ev, x, crowded)
    BY <1>2 DEF FitPhy
  <2>2. x \in Events
    BY <1>4, HeadFirst
  <2>3. x.left \in Nat
    BY <2>2 DEF Events
  <2>4. x.flow = flow => FitTwt(x, ev)
    BY <1>2, <1>7 DEF FitTwt
  <2>5. x.flow = flow /\ ~(x.left <= ev.left) => FitTwt(ev, x)
    BY <1>2, <1>7, <2>3 DEF FitTwt
  <2> QED
    BY <1>2, <2>1, <2>3, <2>4, <2>5 DEF Fit
<1>9. WellFormed(r, crowded) /\ Members(r) = Members(q) \cup {ev}
  BY <1>1, <1>2, <1>4, <1>8, InsertFits
<1>10. Agreed(flow)' /\ \A f \in Flows : f # flow => (Agreed(f)' <=> Agreed(f))
  <2>1. /\ m_twtAgreementMap'[flow] = Agreement(FALSE)
        /\ \A f \in Flows : f # flow => m_twtAgreementMap'[f] = m_twtAgreementMap[f]
    BY <1>1 DEF Typed
  <2> QED
    BY <2>1 DEF Agreed, Agreement
<1>11. IsFiniteSet({f \in Flows : Agreed(f)})
  BY TwtAssumption, FS_Subset
<1>12. m_twtAgreementCount \in Nat
  BY <1>1, <1>11, FS_CardinalityType DEF Typed
<1>13. Typed'
  <2>1. m_twtAgreementMap' \in [Flows -> {NoAgreement, Agreement(TRUE), Agreement(FALSE)}]
    BY <1>1 DEF Typed
  <2>2. {f \in Flows : Agreed(f)}' = {f \in Flows : Agreed(f)} \cup {flow}
    BY <1>10
  <2>3. m_twtAgreementCount' = Cardinality({f \in Flows : Agreed(f)} \cup {flow})
    <3> DEFINE A == {f \in Flows : Agreed(f)}
    <3>1. m_twtAgreementCount = Cardinality(A) /\ IsFiniteSet(A) /\ (flow \in A <=> Agreed(flow))
      BY <1>1, <1>11 DEF Typed
    <3> HIDE DEF A
    <3>2. CASE Agreed(flow)
      <4>1. A \cup {flow} = A
        BY <3>1, <3>2
      <4> QED
        BY <1>1, <1>12, <3>1, <3>2, <4>1 DEF A
    <3>3. CASE ~Agreed(flow)
      <4>1. Cardinality(A \cup {flow}) = Cardinality(A) + 1
        BY <3>1, <3>3, FS_AddElement
      <4> QED
        BY <1>1, <3>1, <3>3, <4>1 DEF A
    <3> QED
      BY <3>2, <3>3
  <2>4. served' \subseteq {f \in Flows : Agreed(f)}'
    BY <1>1, <2>2 DEF Typed
  <2> QED
    BY <1>1, <2>1, <2>2, <2>3, <2>4 DEF Typed
<1>14. ASSUME NEW x \in Members(r)
       PROVE  EventOK(x)'
  <2>1. CASE x = ev
    <3>1. Agreed(x.flow)'
      BY <1>2, <1>10, <2>1
    <3> QED
      BY <1>2, <2>1, <3>1 DEF EventOK, OfAgreement
  <2>2. CASE x \in Members(q)
    <3>1. EventOK(x)
      BY <1>1, <1>6, <2>2 DEF Queue
    <3>2. (IsBegin(x) \/ IsEnd(x)) => (Agreed(x.flow) => Agreed(x.flow)')
      BY <1>10, <3>1 DEF EventOK, OfAgreement
    <3> QED
      BY <1>1, <3>1, <3>2, EventStays DEF EventOK, OfPhy, IsBegin, IsEnd
  <2> QED
    BY <1>9, <2>1, <2>2
<1>15. Queue'
  BY <1>1, <1>9, <1>14 DEF Queue, r
<1>16. Chained'
  <2> SUFFICES ASSUME NEW f \in Flows, Agreed(f)'
               PROVE  \E e \in Members(r) : IsBegin(e) /\ e.flow = f
    BY DEF Chained, r
  <2>1. CASE f = flow
    BY <1>2, <1>9, <2>1
  <2>2. CASE f # flow
    <3>1. PICK e \in Members(m_events) : IsBegin(e) /\ e.flow = f
      BY <1>1, <1>10, <2>2 DEF Chained
    <3> QED
      BY <1>5, <1>9, <2>2, <3>1
  <2> QED
    BY <2>1, <2>2
<1>17. Open'
  <2>1. m_twtAgreementCount' <= 1 => m_twtAgreementCount <= 1
    BY <1>1, <1>12
  <2>2. \A x \in Members(r) : IsEnd(x) => x \in Members(m_events)
    BY <1>2, <1>6, <1>9
  <2> QED
    BY <1>1, <2>1, <2>2 DEF Open, r
<1>18. BlockedBetweenPeriods'
  <2>1. flow \notin served' /\ flow \in {f \in Flows : Agreed(f)}'
    BY <1>1, <1>10
  <2> QED
    BY <2>1 DEF BlockedBetweenPeriods
<1>19. Covered'
  BY <1>1, <1>2, <1>6, <1>9 DEF Covered, r
<1>20. Quiet'
  <2>1. \A e \in Members(r) : IsRequest(e) => e \in Members(m_events)
    BY <1>2, <1>6, <1>9
  <2>2. \A e \in Members(m_events) : IsRequest(e) => e \in Members(r)
    BY <1>5, <1>9 DEF IsRequest, IsBegin, IsEnd
  <2> QED
    BY <1>1, <2>1, <2>2 DEF Quiet, IsSta, r
<1> QED
  BY <1>13, <1>15, <1>16, <1>17, <1>18, <1>19, <1>20 DEF TInv

\* Time passes for the events, the PHY and the NAV alike.
LEMMA TickSteps ==
  ASSUME TInv, Tick
  PROVE  TInv'
<1> DEFINE r == m_events'
<1>1. /\ Typed /\ Queue /\ Chained /\ Open /\ Covered /\ Quiet /\ WellFormed(m_events, crowded)
      /\ m_events # <<>> /\ m_events[1].left # 0
      /\ r = [i \in DOMAIN m_events |-> [m_events[i] EXCEPT !.left = @ - 1]]
      /\ phyBusy' = Less(phyBusy) /\ nav' = Less(nav)
      /\ node' = node /\ m_twtAgreementMap' = m_twtAgreementMap
      /\ m_twtAgreementCount' = m_twtAgreementCount /\ blocked' = blocked /\ m_sleeping' = m_sleeping
      /\ sleepAsked' = sleepAsked /\ crowded' = crowded /\ served' = served
  BY DEF TInv, Queue, Tick, Due, agreements, twtHistory
<1>2. /\ WellFormed(r, crowded)
      /\ \A x \in Members(r) : \E e \in Members(m_events) : Sooner(e, x)
      /\ \A e \in Members(m_events) : \E x \in Members(r) : Sooner(e, x)
  BY <1>1, TickFits
<1> HIDE DEF r
<1>3. phyBusy' \in Nat /\ nav' \in Nat /\ (phyBusy = 0 => phyBusy' = 0) /\ (phyBusy > 0 => phyBusy' = phyBusy - 1)
  BY <1>1 DEF Less, Typed
<1>4. \A flow : (Agreed(flow)' <=> Agreed(flow)) /\ (Active(flow)' <=> Active(flow))
  BY <1>1 DEF Agreed, Active
<1>5. Typed'
  <2>1. {f \in Flows : Agreed(f)}' = {f \in Flows : Agreed(f)}
    BY <1>4
  <2> QED
    BY <1>1, <1>3, <2>1 DEF Typed
<1>6. ASSUME NEW x \in Members(r)
      PROVE  EventOK(x)'
  <2>1. PICK e \in Members(m_events) : Sooner(e, x)
    BY <1>2
  <2>2. EventOK(e) /\ e \in Events
    BY <1>1, HeadFirst DEF Queue
  <2>3. e.left \in Nat /\ e.left > 0 /\ x.left = e.left - 1
    BY <2>1, <2>2 DEF Sooner, Events
  <2>4. CASE IsBegin(x) \/ IsEnd(x)
    <3>1. OfAgreement(e)
      BY <2>1, <2>2, <2>4 DEF Sooner, EventOK, IsBegin, IsEnd
    <3>2. e.held /\ x.held
      BY <2>1, <2>3, <3>1 DEF Sooner, OfAgreement
    <3>3. x.flow \in Flows /\ x.schedule \in Schedules /\ Agreed(x.flow)
      BY <2>1, <3>1 DEF Sooner, OfAgreement
    <3>4. Agreed(x.flow)'
      BY <1>4, <3>3
    <3> QED
      BY <2>4, <3>2, <3>3, <3>4 DEF EventOK, OfAgreement
  <2>5. CASE ~(IsBegin(x) \/ IsEnd(x))
    <3>1. OfPhy(e)
      BY <2>1, <2>2, <2>5 DEF Sooner, EventOK, IsBegin, IsEnd
    <3>2. phyBusy \in Nat
      BY <1>1 DEF Typed
    <3>3. e.call = "SetSleepMode" => x.left <= phyBusy'
      BY <1>3, <2>3, <3>1, <3>2 DEF OfPhy
    <3>4. e.call = "SendResponse" => phyBusy' < x.left \/ phyBusy' = 0
      BY <1>3, <2>3, <3>1, <3>2 DEF OfPhy
    <3>5. IsSta' /\ x.flow = NoFlow /\ ~x.held
      BY <1>1, <2>1, <3>1 DEF Sooner, OfPhy, IsSta
    <3> QED
      BY <2>1, <2>5, <3>3, <3>4, <3>5 DEF EventOK, OfPhy, Sooner
  <2> QED
    BY <2>4, <2>5
<1>7. Queue'
  BY <1>1, <1>2, <1>6 DEF Queue, r
<1>8. Chained'
  <2> SUFFICES ASSUME NEW f \in Flows, Agreed(f)'
               PROVE  \E x \in Members(r) : IsBegin(x) /\ x.flow = f
    BY DEF Chained, r
  <2>1. PICK e \in Members(m_events) : IsBegin(e) /\ e.flow = f
    BY <1>1, <1>4 DEF Chained
  <2>2. PICK x \in Members(r) : Sooner(e, x)
    BY <1>2
  <2> QED
    BY <2>1, <2>2 DEF Sooner, IsBegin
<1>9. Open'
  <2> SUFFICES ASSUME m_twtAgreementCount <= 1, NEW x \in Members(r), IsEnd(x), x.held, Spaced(x.schedule)
               PROVE  ~blocked
    BY <1>1 DEF Open, r
  <2>1. PICK e \in Members(m_events) : Sooner(e, x)
    BY <1>2
  <2>2. IsEnd(e) /\ e.held /\ Spaced(e.schedule)
    BY <2>1 DEF Sooner, IsEnd
  <2> QED
    BY <1>1, <2>2 DEF Open
<1>10. BlockedBetweenPeriods'
  BY <1>1, <1>4 DEF TInv, BlockedBetweenPeriods
<1>11. Covered'
  <2> SUFFICES ASSUME NEW x \in Members(r), x.call = "TxTimeout"
               PROVE  ~m_sleeping
    BY <1>1 DEF Covered, r
  <2>1. PICK e \in Members(m_events) : Sooner(e, x)
    BY <1>2
  <2> QED
    BY <1>1, <2>1 DEF Covered, Sooner
<1>12. Quiet'
  <2> SUFFICES ASSUME IsSta, ~crowded
               PROVE  /\ \A x \in Members(r) : IsRequest(x) => sleepAsked = (x.call # "Wake")
                      /\ (\A x \in Members(r) : ~IsRequest(x)) => m_sleeping = sleepAsked
    BY <1>1 DEF Quiet, IsSta, r
  <2>1. ASSUME NEW x \in Members(r), IsRequest(x)
        PROVE  sleepAsked = (x.call # "Wake")
    <3>1. PICK e \in Members(m_events) : Sooner(e, x)
      BY <1>2
    <3>2. IsRequest(e) /\ e.call = x.call
      BY <2>1, <3>1 DEF Sooner, IsRequest
    <3>3. sleepAsked = (e.call # "Wake")
      BY <1>1, <3>2 DEF Quiet
    <3> QED
      BY <3>2, <3>3
  <2>2. ASSUME NEW e \in Members(m_events), IsRequest(e)
        PROVE  \E x \in Members(r) : IsRequest(x)
    <3>1. PICK x \in Members(r) : Sooner(e, x)
      BY <1>2
    <3> QED
      BY <2>2, <3>1 DEF Sooner, IsRequest
  <2> QED
    BY <1>1, <2>1, <2>2 DEF Quiet
<1> QED
  BY <1>5, <1>7, <1>8, <1>9, <1>10, <1>11, <1>12 DEF TInv

LEMMA TwtInitHolds ==
  ASSUME TwtInit
  PROVE  TInv
<1>1. Members(m_events) = {} /\ WellFormed(m_events, crowded)
  <2>1. <<>> \in Seq(Events) /\ Len(<<>>) = 0
    BY EmptySeq
  <2> QED
    BY <2>1 DEF TwtInit, Members, WellFormed
<1>2. \A flow \in Flows : ~Agreed(flow)
  BY DEF TwtInit, Agreed, NoAgreement
<1>3. Typed
  <2>1. {flow \in Flows : Agreed(flow)} = {}
    BY <1>2
  <2>2. m_twtAgreementCount = Cardinality({flow \in Flows : Agreed(flow)})
    BY <2>1, FS_EmptySet DEF TwtInit
  <2> QED
    BY <2>2 DEF TwtInit, Typed
<1>4. BlockedBetweenPeriods
  BY DEF TwtInit, BlockedBetweenPeriods
<1>5. Quiet
  BY <1>1 DEF TwtInit, Quiet
<1> QED
  BY <1>1, <1>2, <1>3, <1>4, <1>5 DEF TInv, Queue, Chained, Open, Covered

LEMMA TwtStutters ==
  ASSUME TInv, UNCHANGED twtVars
  PROVE  TInv'
<1>1. \A flow : (Agreed(flow)' <=> Agreed(flow)) /\ (Active(flow)' <=> Active(flow))
  BY DEF twtVars, agreements, Agreed, Active
<1>2. {f \in Flows : Agreed(f)}' = {f \in Flows : Agreed(f)}
  BY <1>1
<1>3. \A e \in Members(m_events) : EventOK(e)'
  BY <1>1 DEF twtVars, agreements, phy, TInv, Queue, EventOK, OfAgreement, OfPhy, IsSta
<1> QED
  BY <1>1, <1>2, <1>3 DEF twtVars, agreements, phy, twtHistory, TInv, Typed, Queue, Chained, Open,
     BlockedBetweenPeriods, Covered, Quiet, IsSta

\* The inductive invariant of TwtStation: the events of every agreement are one chain
\* of held events, and those of the PHY fit its state and the exchanges.
THEOREM TwtInvariant == TwtSpec => []TInv
<1>1. TwtInit => TInv
  BY TwtInitHolds
<1>2. TInv /\ [TwtNext]_twtVars => TInv'
  <2> SUFFICES ASSUME TInv, [TwtNext]_twtVars
               PROVE  TInv'
    OBVIOUS
  <2>1. CASE Create
    <3>1. PICK flow \in node.flows, schedule \in Schedules, first \in node.firstDelays :
             SetTwtSchedule(flow, schedule, first)
      BY <2>1 DEF Create
    <3>2. flow \in Flows /\ first \in Nat
      BY TwtAssumption DEF TInv, Typed
    <3> QED
      BY <3>1, <3>2, SetTwtScheduleSteps
  <2>2. CASE RunNext
    BY <2>2, BeginTwtSpNowSteps, EndTwtSpNowSteps, PostponedSleepStateSteps,
       PostponedSetSleepModeSteps, TxTimeoutSteps, SendResponseSteps DEF RunNext
  <2>3. CASE Exchange
    <3>1. UNION {TxDurations, RxDurations, NavDurations} \subseteq Nat \ {0}
      BY TwtAssumption
    <3> QED
      BY <2>3, <3>1, ReceivedNormalAckSteps, FrameSteps, UpdateNavSteps DEF Exchange
  <2>4. CASE Tick
    BY <2>4, TickSteps
  <2>5. CASE UNCHANGED twtVars
    BY <2>5, TwtStutters
  <2> QED
    BY <2>1, <2>2, <2>3, <2>4, <2>5 DEF TwtNext
<1> QED
  BY <1>1, <1>2, PTL DEF TwtSpec

-----------------------------------------------------------------------------
(* What it means for the properties.                                         *)

\* Types, the count of agreements, and pending events in order of time.
THEOREM TwtTypes == TwtSpec => []TwtTypeOK
<1>1. TInv => TwtTypeOK
  <2> SUFFICES ASSUME TInv
               PROVE  TwtTypeOK
    OBVIOUS
  <2>1. Typed /\ WellFormed(m_events, crowded)
    BY DEF TInv, Queue
  <2>2. DOMAIN m_events = 1..Len(m_events)
    BY <2>1 DEF WellFormed
  <2>3. \A i \in DOMAIN m_events : m_events[i].call \in Calls /\ m_events[i].left \in Nat
    <3>1. \A i \in DOMAIN m_events : m_events[i] \in Events
      BY <2>1, <2>2 DEF WellFormed
    <3> QED
      BY <3>1 DEF Events
  <2>4. \A i, j \in DOMAIN m_events : i < j => m_events[i].left <= m_events[j].left
    BY <2>1, <2>2 DEF WellFormed, Fit
  <2> QED
    BY <2>1, <2>3, <2>4 DEF Typed, TwtTypeOK
<1> QED
  BY <1>1, TwtInvariant, PTL

\* An agreement is never left without a next period, nor with two chains of them,
\* however often and whenever BeginTwtSpNow, EndTwtSpNow and SetTwtSchedule run.
THEOREM OneChainPerAgreement == TwtSpec => []OneChain
<1>1. TInv => OneChain
  <2> SUFFICES ASSUME TInv, NEW flow \in Flows
               PROVE  LET begins == {i \in DOMAIN m_events : IsOf(m_events[i], "BeginTwtSpNow", flow)}
                      IN  IF Agreed(flow) THEN \E i \in begins : begins = {i} /\ m_events[i].held
                          ELSE begins = {}
    BY DEF OneChain
  <2> DEFINE begins == {i \in DOMAIN m_events : IsOf(m_events[i], "BeginTwtSpNow", flow)}
  <2>1. WellFormed(m_events, crowded) /\ Queue /\ Chained
    BY DEF TInv, Queue
  <2>2. DOMAIN m_events = 1..Len(m_events)
    BY <2>1 DEF WellFormed
  <2>3. \A i \in begins : /\ i \in 1..Len(m_events) /\ m_events[i] \in Members(m_events)
                          /\ IsBegin(m_events[i]) /\ m_events[i].flow = flow
    BY <2>2 DEF IsOf, IsBegin, Members
  <2>4. \A i \in begins : OfAgreement(m_events[i])
    BY <2>1, <2>3 DEF Queue, EventOK
  <2>5. \A i, j \in begins : i = j
    <3> SUFFICES ASSUME NEW i \in begins, NEW j \in begins, i < j
                 PROVE  FALSE
      BY <2>3
    <3>1. Fit(m_events[i], m_events[j], crowded)
      BY <2>1, <2>3 DEF WellFormed
    <3> QED
      BY <2>3, <3>1 DEF Fit, FitTwt
  <2>6. Agreed(flow) => begins # {}
    <3> SUFFICES ASSUME Agreed(flow)
                 PROVE  begins # {}
      OBVIOUS
    <3>1. PICK e \in Members(m_events) : IsBegin(e) /\ e.flow = flow
      BY <2>1 DEF Chained
    <3>2. PICK i \in 1..Len(m_events) : e = m_events[i]
      BY DEF Members
    <3>3. i \in begins
      BY <2>2, <3>1, <3>2 DEF IsOf, IsBegin
    <3> QED
      BY <3>3
  <2>7. \A i \in begins : Agreed(flow) /\ m_events[i].held
    BY <2>3, <2>4 DEF OfAgreement, IsBegin, IsEnd
  <2> HIDE DEF begins
  <2>8. IF Agreed(flow) THEN \E i \in begins : begins = {i} /\ m_events[i].held ELSE begins = {}
    BY <2>5, <2>6, <2>7
  <2> QED
    BY <2>8 DEF begins
<1> QED
  BY <1>1, TwtInvariant, PTL

\* The peer's queues are open during the period of the only agreement.
THEOREM OpenWithOneAgreement == TwtSpec => []OpenWithOneFlow
<1>1. TInv => OpenWithOneFlow
  <2> SUFFICES ASSUME TInv
               PROVE  OpenWithOneFlow
    OBVIOUS
  <2>1. \A flow : Pending("EndTwtSpNow", flow) = {e \in Members(m_events) : IsOf(e, "EndTwtSpNow", flow)}
    BY PendingMembers DEF TInv, Queue
  <2> QED
    BY <2>1 DEF TInv, Open, OpenWithOneFlow, Held, IsOf, IsEnd
<1> QED
  BY <1>1, TwtInvariant, PTL

\* They are blocked between the periods of all agreements.
THEOREM BlockedOutsidePeriods == TwtSpec => []BlockedBetweenPeriods
<1>1. TInv => BlockedBetweenPeriods
  BY DEF TInv
<1> QED
  BY <1>1, TwtInvariant, PTL

\* The PHY is on for the response a running TxTimer waits for.
THEOREM AwakeWhileWaiting == TwtSpec => []AwakeForResponse
<1>1. TInv => AwakeForResponse
  BY PhyMembers DEF TInv, Queue, Covered, AwakeForResponse
<1> QED
  BY <1>1, TwtInvariant, PTL

\* The PHY follows the last sleep request if it was made when no other was pending.
THEOREM QuietRequestsFollowed == TwtSpec => []QuietRequestFollowed
<1>1. TInv => QuietRequestFollowed
  BY PhyMembers DEF TInv, Queue, Quiet, QuietRequestFollowed, SleepFollowsLast
<1> QED
  BY <1>1, TwtInvariant, PTL

-----------------------------------------------------------------------------
(* Association and power management. *)

\* Addresses of APs differ from "no AP".
ApsNamed == \A w \in Worlds : NoAp \notin w.aps

ApIds == {NoAp} \cup UNION {w.aps : w \in Worlds}

StationType ==
    [m_state : States, bssid : ApIds, femBssid : ApIds, m_aid : ApIds, apList : SUBSET ApIds,
     scanEnd : BOOLEAN, endNow : Nat, probed : BOOLEAN, m_activeProbing : BOOLEAN,
     m_assocRequestEvent : BOOLEAN, m_beaconWatchdog : BOOLEAN,
     leaving : {"no", "receiving", "due"}, pmMode : PmModes, retries : [BOOLEAN -> Int]]

Watched(s) == s.m_beaconWatchdog \/ s.leaving # "no"

\* A station that has asked or is associated has an AP, whose beacons it will miss.
Attached(s) == s.bssid # NoAp /\ Watched(s)

\* The inductive invariant, of a station and whether scans have overlapped: without
\* overlap at most one end of a scan is to come.
Sound(s, o) ==
    /\ s \in StationType /\ NoAp \notin s.apList
    /\ s.m_state = "SCANNING" => s.scanEnd \/ s.endNow > 0
    /\ s.m_state = "WAIT_ASSOC_RESP" => s.m_assocRequestEvent
    /\ s.m_assocRequestEvent \/ s.m_state = "ASSOCIATED" => Attached(s)
    /\ ~o => /\ s.scanEnd \/ s.endNow > 0 => s.m_state = "SCANNING"
             /\ s.m_assocRequestEvent => s.m_state = "WAIT_ASSOC_RESP"
             /\ s.endNow <= 1 /\ ~(s.scanEnd /\ s.endNow > 0)

BInv == world \in Worlds /\ overlapped \in BOOLEAN /\ Sound(sta, overlapped)

\* StartScanning, from any state in which nothing was asked unless scans overlapped.
LEMMA StartScanningSound ==
  ASSUME NEW s \in StationType, NEW o \in BOOLEAN, NoAp \notin s.apList,
         s.m_assocRequestEvent => o /\ Attached(s)
  PROVE  Sound(StartScanning(s), o \/ Overlaps(s))
<1> DEFINE t == StartScanning(s)
<1>1. s.endNow + 1 \in Nat
  BY DEF StationType
<1>2. t \in StationType
  BY <1>1, ZenonT(60) DEF StartScanning, StationType, States
<1>3. /\ t.m_state = "SCANNING" /\ t.endNow = (IF s.apList # {} THEN s.endNow + 1 ELSE s.endNow)
      /\ t.scanEnd = (s.scanEnd \/ s.apList = {})
      /\ t.bssid = s.bssid /\ t.apList = s.apList /\ t.leaving = s.leaving
      /\ t.m_assocRequestEvent = s.m_assocRequestEvent /\ t.m_beaconWatchdog = s.m_beaconWatchdog
  BY DEF StartScanning, StationType
<1>4. ~(o \/ Overlaps(s)) => /\ t.endNow <= 1 /\ ~(t.scanEnd /\ t.endNow > 0)
                            /\ ~t.m_assocRequestEvent
  BY <1>3 DEF Overlaps, StationType
<1>5. t.m_assocRequestEvent => Attached(t)
  BY <1>3 DEF Attached, Watched
<1>6. t.scanEnd \/ t.endNow > 0
  <2>1. s.endNow \in Nat
    BY DEF StationType
  <2>2. CASE s.apList = {}
    BY <1>3, <2>2
  <2>3. CASE s.apList # {}
    <3>1. t.endNow = s.endNow + 1
      BY <1>3, <2>3
    <3> HIDE DEF t
    <3> QED
      BY <2>1, <3>1
  <2> QED
    BY <2>2, <2>3
<1> QED
  BY <1>2, <1>3, <1>4, <1>5, <1>6 DEF Sound

LEMMA LeaveSound ==
  ASSUME NEW s \in StationType, NoAp \notin s.apList, overlapped \in BOOLEAN, Leave(s)
  PROVE  overlapped' \in BOOLEAN /\ Sound(sta', overlapped')
<1> DEFINE t == [s EXCEPT !.bssid = NoAp, !.m_aid = NoAp, !.m_assocRequestEvent = FALSE]
<1>1. t \in StationType /\ t.apList = s.apList /\ t.scanEnd = s.scanEnd /\ ~t.m_assocRequestEvent
      /\ t.endNow = s.endNow
  BY DEF StationType, ApIds
<1>2. Sound(StartScanning(t), overlapped \/ Overlaps(t))
  BY <1>1, StartScanningSound
<1>3. Overlaps(t) <=> Overlaps(s)
  BY <1>1 DEF Overlaps
<1>4. sta' = StartScanning(t) /\ overlapped' = (overlapped \/ Overlaps(s))
  BY DEF Leave, Disassociated
<1>5. (overlapped \/ Overlaps(t)) = (overlapped \/ Overlaps(s))
  BY <1>3 DEF Overlaps
<1> QED
  BY <1>2, <1>4, <1>5 DEF Overlaps

\* The AP that is asked is one of the list: the scan that ends is over.
LEMMA AttemptSound ==
  ASSUME NEW s \in StationType, NEW o \in BOOLEAN, NoAp \notin s.apList, NEW a \in s.apList,
         ~o => ~s.scanEnd /\ s.endNow = 0
  PROVE  Sound(Attempt(s, a), o)
<1> DEFINE t == Attempt(s, a)
<1>1. a \in ApIds /\ a # NoAp /\ s.apList \ {a} \in SUBSET ApIds
  BY DEF StationType
<1>2. t \in StationType
  BY <1>1 DEF Attempt, StationType, States
<1>3. /\ t.m_state = "WAIT_ASSOC_RESP" /\ t.m_assocRequestEvent /\ t.m_beaconWatchdog /\ t.bssid = a
      /\ t.apList = s.apList \ {a} /\ t.scanEnd = s.scanEnd /\ t.endNow = s.endNow
  BY DEF Attempt, StationType
<1> QED
  BY <1>1, <1>2, <1>3 DEF Sound, Attached, Watched

LEMMA EndScanningSound ==
  ASSUME BInv, EndScanning
  PROVE  BInv'
<1> USE DEF BInv
<1>1. world' = world /\ overlapped' = overlapped
  BY DEF EndScanning, history
<1>2. ASSUME NEW s \in StationType, ScanningTimeout(s), NoAp \notin s.apList,
             s.m_assocRequestEvent => overlapped /\ Attached(s),
             ~overlapped => ~s.scanEnd /\ s.endNow = 0
      PROVE  Sound(sta', overlapped)
  <2>1. CASE s.apList = {}
    <3>1. sta' = StartScanning(s)
      BY <1>2, <2>1 DEF ScanningTimeout
    <3>2. (overlapped \/ Overlaps(s)) = overlapped
      BY <1>2, <2>1 DEF Overlaps
    <3> QED
      BY <1>2, <3>1, <3>2, StartScanningSound
  <2>2. CASE s.apList # {}
    <3>1. PICK a \in s.apList : sta' = Attempt(s, a)
      BY <1>2, <2>2 DEF ScanningTimeout
    <3> QED
      BY <1>2, <3>1, AttemptSound
  <2> QED
    BY <2>1, <2>2
<1>3. CASE sta.endNow > 0 /\ ScanningTimeout([sta EXCEPT !.endNow = @ - 1])
  <2> DEFINE s == [sta EXCEPT !.endNow = @ - 1]
  <2>6. sta.endNow - 1 \in Nat
    BY <1>3 DEF Sound, StationType
  <2>1. s \in StationType
    BY <2>6 DEF Sound, StationType
  <2>2. /\ s.apList = sta.apList /\ s.scanEnd = sta.scanEnd /\ s.endNow = sta.endNow - 1 /\ s.bssid = sta.bssid
        /\ s.m_assocRequestEvent = sta.m_assocRequestEvent /\ s.leaving = sta.leaving
        /\ s.m_beaconWatchdog = sta.m_beaconWatchdog
    BY DEF Sound, StationType
  <2>3. s.m_assocRequestEvent => overlapped /\ Attached(s)
    BY <1>3, <2>2 DEF Sound, Attached, Watched
  <2>4. ~overlapped => ~s.scanEnd /\ s.endNow = 0
    BY <1>3, <2>2 DEF Sound, StationType
  <2>5. NoAp \notin s.apList
    BY <2>2 DEF Sound
  <2> QED
    BY <1>1, <1>2, <1>3, <2>1, <2>3, <2>4, <2>5
<1>4. CASE sta.endNow = 0 /\ sta.scanEnd /\ ScanningTimeout([sta EXCEPT !.scanEnd = FALSE])
  <2> DEFINE s == [sta EXCEPT !.scanEnd = FALSE]
  <2>1. s \in StationType
    BY DEF Sound, StationType
  <2>2. /\ s.apList = sta.apList /\ s.endNow = sta.endNow /\ ~s.scanEnd /\ s.bssid = sta.bssid
        /\ s.m_assocRequestEvent = sta.m_assocRequestEvent /\ s.leaving = sta.leaving
        /\ s.m_beaconWatchdog = sta.m_beaconWatchdog
    BY DEF Sound, StationType
  <2>3. s.m_assocRequestEvent => overlapped /\ Attached(s)
    BY <1>4, <2>2 DEF Sound, Attached, Watched
  <2>4. ~overlapped => ~s.scanEnd /\ s.endNow = 0
    BY <1>4, <2>2 DEF Sound
  <2>5. NoAp \notin s.apList
    BY <2>2 DEF Sound
  <2> QED
    BY <1>1, <1>2, <1>4, <2>1, <2>3, <2>4, <2>5
<1> QED
  BY <1>3, <1>4 DEF EndScanning

\* A change of the station that leaves scan, association and watchdog alone, or
\* only lets more of the watchdog run, keeps the invariant.
LEMMA ElsewhereSound ==
  ASSUME NEW s, NEW t \in StationType, NEW o \in BOOLEAN, Sound(s, o),
         t.m_state = s.m_state, t.bssid = s.bssid, t.scanEnd = s.scanEnd, t.endNow = s.endNow,
         t.m_assocRequestEvent = s.m_assocRequestEvent, NoAp \notin t.apList,
         Watched(s) => Watched(t)
  PROVE  Sound(t, o)
  BY DEF Sound, Attached

LEMMA ReceivedSound ==
  ASSUME NEW s, NEW o \in BOOLEAN, Sound(s, o)
  PROVE  Sound(Received(s), o)
<1> DEFINE t == Received(s)
<1>1. s \in StationType
  BY DEF Sound
<1>2. t \in StationType
  BY <1>1 DEF Received, StationType
<1>3. /\ t.m_state = s.m_state /\ t.bssid = s.bssid /\ t.scanEnd = s.scanEnd /\ t.endNow = s.endNow
      /\ t.m_assocRequestEvent = s.m_assocRequestEvent /\ t.apList = s.apList
      /\ t.m_beaconWatchdog = s.m_beaconWatchdog
  BY <1>1 DEF Received, StationType
<1>4. s.leaving # "no" => t.leaving # "no"
  BY <1>1 DEF Received, StationType
<1>5. (Watched(s) => Watched(t)) /\ NoAp \notin t.apList
  BY <1>3, <1>4 DEF Watched, Sound
<1> QED
  BY <1>2, <1>3, <1>5, ElsewhereSound

LEMMA NotifyApInfoSound ==
  ASSUME NEW s, NEW o \in BOOLEAN, NEW a \in ApIds, a # NoAp, Sound(s, o)
  PROVE  Sound(NotifyApInfo(s, a), o)
<1> DEFINE t == NotifyApInfo(s, a)
<1>1. s \in StationType
  BY DEF Sound
<1>2. s.apList \cup {a} \in SUBSET ApIds
  BY <1>1 DEF StationType
<1>3. t \in StationType
  BY <1>1, <1>2 DEF NotifyApInfo, StationType
<1>4. /\ t.m_state = s.m_state /\ t.bssid = s.bssid /\ t.scanEnd = s.scanEnd /\ t.endNow = s.endNow
      /\ t.m_assocRequestEvent = s.m_assocRequestEvent /\ t.leaving = s.leaving
      /\ t.m_beaconWatchdog = s.m_beaconWatchdog /\ t.apList \subseteq s.apList \cup {a}
  BY <1>1 DEF NotifyApInfo, StationType
<1> QED
  BY <1>3, <1>4, ElsewhereSound DEF Watched, Sound

LEMMA RetriesInt ==
  ASSUME NEW f \in [BOOLEAN -> Int], NEW e \in BOOLEAN
  PROVE  f[e] \in Int /\ f[e] + 1 \in Int /\ f[e] - 1 \in Int
<1>1. f[e] \in Int
  BY Zenon
<1> QED
  BY <1>1

LEMMA RetriesSet ==
  ASSUME NEW f \in [BOOLEAN -> Int], NEW e \in BOOLEAN, NEW n \in Int
  PROVE  [f EXCEPT ![e] = n] \in [BOOLEAN -> Int]
  BY Zenon

\* ReceiveAssocResp: a response, of whichever AP, to a station in any state.
LEMMA ResponseSound ==
  ASSUME NEW s, NEW o \in BOOLEAN, NEW a \in ApIds, NEW success, Sound(s, o)
  PROVE  Sound(ReceiveAssocResp(s, a, success),
               o \/ (AwaitsResponse(s) /\ ~success /\ Overlaps(s)))
<1> DEFINE asked == [s EXCEPT !.m_assocRequestEvent = FALSE]
           done == [asked EXCEPT !.m_aid = a, !.femBssid = a, !.m_state = "ASSOCIATED"]
<1>1. s \in StationType
  BY DEF Sound
<1>2. CASE ~AwaitsResponse(s)
  BY <1>2 DEF ReceiveAssocResp
<1>3. CASE AwaitsResponse(s) /\ success
  <2>1. done \in StationType
    BY <1>1 DEF StationType, States
  <2>2. /\ done.m_state = "ASSOCIATED" /\ done.bssid = s.bssid /\ done.scanEnd = s.scanEnd
        /\ done.endNow = s.endNow /\ ~done.m_assocRequestEvent /\ done.apList = s.apList
        /\ done.leaving = s.leaving /\ done.m_beaconWatchdog = s.m_beaconWatchdog
    BY <1>1 DEF StationType
  <2>3. Sound(done, o)
    BY <1>3, <2>1, <2>2 DEF Sound, Attached, Watched, AwaitsResponse
  <2> DEFINE t == SetPmModeAfterAssociation(done)
  <2> DEFINE r == [done.retries EXCEPT ![TRUE] = IF done.pmMode = "POWERSAVE" THEN @ + 1 ELSE @]
  <2>8. done.retries \in [BOOLEAN -> Int]
    BY <2>1 DEF StationType
  <2>9. r \in [BOOLEAN -> Int]
    <3> DEFINE n == IF done.pmMode = "POWERSAVE" THEN done.retries[TRUE] + 1 ELSE done.retries[TRUE]
    <3>1. n \in Int
      BY <2>8, RetriesInt DEF StationType
    <3> HIDE DEF done, n
    <3>2. [done.retries EXCEPT ![TRUE] = n] \in [BOOLEAN -> Int]
      BY <2>8, <3>1, RetriesSet
    <3> QED
      BY <3>2 DEF n
  <2>4. t \in StationType
    <3> HIDE DEF done, r
    <3>1. [done EXCEPT !.pmMode = "ACTIVE", !.retries = r] \in StationType
      BY <2>1, <2>9 DEF StationType, PmModes
    <3>2. t = IF done.bssid = NoAp THEN done ELSE [done EXCEPT !.pmMode = "ACTIVE", !.retries = r]
      BY <2>1, <2>9 DEF SetPmModeAfterAssociation, r, StationType
    <3> QED
      BY <3>1, <3>2, <2>1
  <2>5. /\ t.m_state = done.m_state /\ t.bssid = done.bssid /\ t.scanEnd = done.scanEnd
        /\ t.endNow = done.endNow /\ t.m_assocRequestEvent = done.m_assocRequestEvent
        /\ t.apList = done.apList /\ t.leaving = done.leaving
        /\ t.m_beaconWatchdog = done.m_beaconWatchdog
    BY <2>1 DEF SetPmModeAfterAssociation, StationType
  <2>6. Sound(t, o)
    <3>1. (Watched(done) => Watched(t)) /\ NoAp \notin t.apList
      BY <2>3, <2>5 DEF Watched, Sound
    <3> HIDE DEF done, t
    <3> QED
      BY <2>3, <2>4, <2>5, <3>1, ElsewhereSound
  <2>7. ReceiveAssocResp(s, a, success) = t
    BY <1>3 DEF ReceiveAssocResp
  <2> QED
    BY <1>3, <2>6, <2>7
<1>4. CASE AwaitsResponse(s) /\ ~success
  <2>1. asked \in StationType
    BY <1>1 DEF StationType
  <2>2. /\ asked.apList = s.apList /\ asked.scanEnd = s.scanEnd /\ ~asked.m_assocRequestEvent
        /\ asked.endNow = s.endNow
    BY <1>1 DEF StationType
  <2>3. Sound(StartScanning(asked), o \/ Overlaps(asked))
    BY <2>1, <2>2, StartScanningSound DEF Sound
  <2>4. ReceiveAssocResp(s, a, success) = StartScanning(asked)
    BY <1>4 DEF ReceiveAssocResp
  <2>5. Overlaps(asked) = Overlaps(s)
    BY <2>2 DEF Overlaps
  <2> QED
    BY <1>4, <2>3, <2>4, <2>5
<1> QED
  BY <1>2, <1>3, <1>4

\* SetPowerSaveMode changes nothing but the mode and the calls that are scheduled.
LEMMA PowerSaveSound ==
  ASSUME NEW s, NEW o \in BOOLEAN, NEW enable \in BOOLEAN, Sound(s, o), SetPowerSaveMode(s, enable)
  PROVE  Sound(sta', o)
<1>1. s \in StationType /\ s.retries \in [BOOLEAN -> Int] /\ s.retries[enable] + 1 \in Int
  BY RetriesInt DEF Sound, StationType
<1> DEFINE r == [s.retries EXCEPT ![enable] = s.retries[enable] + 1]
<1>2. r \in [BOOLEAN -> Int]
  BY <1>1, RetriesSet
<1>3. Reached(enable) \in PmModes /\ Switching(enable) \in PmModes
  BY DEF Reached, Switching, PmModes
<1>4. \/ sta' = [s EXCEPT !.pmMode = Reached(enable)]
      \/ sta' = s
      \/ sta' = [s EXCEPT !.pmMode = Switching(enable), !.retries = r]
  BY <1>1, <1>2 DEF SetPowerSaveMode, Retry, StationType
<1> HIDE DEF r
<1>5. sta' \in StationType
  BY <1>1, <1>2, <1>3, <1>4 DEF StationType
<1>6. /\ sta'.m_state = s.m_state /\ sta'.bssid = s.bssid /\ sta'.scanEnd = s.scanEnd
      /\ sta'.endNow = s.endNow /\ sta'.m_assocRequestEvent = s.m_assocRequestEvent
      /\ sta'.apList = s.apList /\ sta'.leaving = s.leaving
      /\ sta'.m_beaconWatchdog = s.m_beaconWatchdog
  BY <1>1, <1>4 DEF StationType
<1>7. (Watched(s) => Watched(sta')) /\ NoAp \notin sta'.apList
  BY <1>6 DEF Watched, Sound
<1> QED
  BY <1>5, <1>6, <1>7, ElsewhereSound

LEMMA UserStepSound ==
  ASSUME BInv, UserStep
  PROVE  BInv'
<1> USE DEF BInv
<1>1. world' = world /\ sta \in StationType
  BY DEF UserStep, Sound
<1>2. ASSUME NEW enable \in BOOLEAN, SetActiveProbing(enable)
      PROVE  BInv'
  <2> DEFINE s == [sta EXCEPT !.m_activeProbing = enable]
  <2>1. s \in StationType
    BY <1>1 DEF StationType
  <2>2. /\ s.m_state = sta.m_state /\ s.bssid = sta.bssid /\ s.scanEnd = sta.scanEnd
        /\ s.endNow = sta.endNow /\ s.m_assocRequestEvent = sta.m_assocRequestEvent
        /\ s.apList = sta.apList /\ s.leaving = sta.leaving
        /\ s.m_beaconWatchdog = sta.m_beaconWatchdog
    BY <1>1 DEF StationType
  <2>3. NoAp \notin s.apList /\ (Watched(sta) => Watched(s))
    BY <2>2 DEF Sound, Watched
  <2>4. /\ sta' = IF s.m_state = "SCANNING" THEN StartScanning(s) ELSE s
        /\ overlapped' = (overlapped \/ (s.m_state = "SCANNING" /\ Overlaps(s)))
    BY <1>2 DEF SetActiveProbing
  <2>5. CASE s.m_state = "SCANNING"
    <3>1. s.m_assocRequestEvent => overlapped /\ Attached(s)
      BY <2>2, <2>5 DEF Sound, Attached, Watched
    <3>2. overlapped' = (overlapped \/ Overlaps(s))
      BY <2>4, <2>5 DEF Overlaps
    <3> HIDE DEF s
    <3> QED
      BY <1>1, <2>1, <2>3, <2>4, <2>5, <3>1, <3>2, StartScanningSound
  <2>6. CASE s.m_state # "SCANNING"
    <3>1. overlapped' = overlapped /\ sta' = s
      BY <2>4, <2>6
    <3> HIDE DEF s
    <3> QED
      BY <1>1, <2>1, <2>2, <2>3, <3>1, ElsewhereSound
  <2> QED
    BY <2>5, <2>6
<1>3. CASE PhyCapabilitiesChanged
  <2>1. /\ sta' = [sta EXCEPT !.m_state = "WAIT_ASSOC_RESP", !.m_assocRequestEvent = TRUE]
        /\ overlapped' = overlapped /\ sta.m_state = "ASSOCIATED"
    BY <1>3 DEF PhyCapabilitiesChanged, history
  <2>2. sta' \in StationType
    BY <1>1, <2>1 DEF StationType, States
  <2>3. /\ sta'.m_state = "WAIT_ASSOC_RESP" /\ sta'.m_assocRequestEvent
        /\ sta'.bssid = sta.bssid /\ sta'.scanEnd = sta.scanEnd /\ sta'.endNow = sta.endNow
        /\ sta'.apList = sta.apList /\ sta'.leaving = sta.leaving
        /\ sta'.m_beaconWatchdog = sta.m_beaconWatchdog
    BY <1>1, <2>1 DEF StationType
  <2> QED
    BY <1>1, <2>1, <2>2, <2>3 DEF Sound, Attached, Watched
<1>4. CASE NotifyChannelSwitching
  <2>1. Leave(sta) /\ NoAp \notin sta.apList
    BY <1>4 DEF NotifyChannelSwitching, Sound
  <2> QED
    BY <1>1, <2>1, LeaveSound
<1>5. ASSUME NEW enable \in BOOLEAN, UserSetsPowerSaveMode(enable)
      PROVE  BInv'
  <2>1. SetPowerSaveMode(sta, enable) /\ overlapped' = overlapped
    BY <1>5 DEF UserSetsPowerSaveMode
  <2> QED
    BY <1>1, <2>1, PowerSaveSound
<1>6. CASE EnqueuePacket
  BY <1>1, <1>6 DEF EnqueuePacket, history
<1> QED
  BY <1>2, <1>3, <1>4, <1>5, <1>6 DEF UserStep

LEMMA MediumStepSound ==
  ASSUME ApsNamed, BInv, MediumStep
  PROVE  BInv'
<1> USE DEF BInv
<1>1. \A a \in Aps : a \in ApIds /\ a # NoAp
  BY DEF Aps, ApIds, ApsNamed
<1>2. ASSUME NEW a \in Aps, ReceiveBeacon(a)
      PROVE  BInv'
  <2>1. world' = world /\ overlapped' = overlapped
    BY <1>2 DEF ReceiveBeacon, history
  <2>2. CASE sta.m_state = "ASSOCIATED"
    <3> DEFINE s == [sta EXCEPT !.m_beaconWatchdog = TRUE]
    <3>1. sta \in StationType /\ s \in StationType
      BY DEF Sound, StationType
    <3>2. /\ s.m_state = sta.m_state /\ s.bssid = sta.bssid /\ s.scanEnd = sta.scanEnd
          /\ s.endNow = sta.endNow /\ s.m_assocRequestEvent = sta.m_assocRequestEvent
          /\ s.apList = sta.apList /\ s.m_beaconWatchdog
      BY <3>1 DEF StationType
    <3>3. Watched(s) /\ NoAp \notin s.apList
      BY <3>2 DEF Watched, Sound
    <3>4. sta' = Received(s)
      BY <1>2, <2>2 DEF ReceiveBeacon
    <3> HIDE DEF s
    <3>5. Sound(s, overlapped)
      BY <3>1, <3>2, <3>3, ElsewhereSound
    <3> QED
      BY <2>1, <3>4, <3>5, ReceivedSound
  <2>3. CASE sta.m_state # "ASSOCIATED"
    <3>1. sta' = Received(NotifyApInfo(sta, a))
      BY <1>2, <2>3 DEF ReceiveBeacon
    <3> QED
      BY <1>1, <2>1, <3>1, NotifyApInfoSound, ReceivedSound
  <2> QED
    BY <2>2, <2>3
<1>3. ASSUME NEW a \in Aps, ReceiveProbeResp(a)
      PROVE  BInv'
  <2>1. /\ world' = world /\ overlapped' = overlapped
        /\ sta' = Received(NotifyApInfo(sta, a))
    BY <1>3 DEF ReceiveProbeResp, history
  <2> QED
    BY <1>1, <2>1, NotifyApInfoSound, ReceivedSound
<1>4. ASSUME NEW a \in Aps, ResponseReceived(a)
      PROVE  BInv'
  <2> DEFINE r == Head(responses[a])
             s == IF r.heard THEN sta ELSE ReceiveAssocResp(sta, a, r.success)
  <2>1. /\ world' = world /\ sta' = Received(s)
        /\ overlapped' = (overlapped \/ (~r.heard /\ AwaitsResponse(sta) /\ ~r.success /\ Overlaps(sta)))
    BY <1>4 DEF ResponseReceived
  <2> HIDE DEF r
  <2>2. Sound(s, overlapped')
    <3>1. CASE r.heard
      BY <2>1, <3>1
    <3>2. CASE ~r.heard
      <4>1. overlapped' = (overlapped \/ (AwaitsResponse(sta) /\ ~r.success /\ Overlaps(sta)))
        BY <2>1, <3>2
      <4>2. a \in ApIds /\ Sound(sta, overlapped) /\ overlapped \in BOOLEAN
        BY <1>1
      <4>3. Sound(ReceiveAssocResp(sta, a, r.success),
                  overlapped \/ (AwaitsResponse(sta) /\ ~r.success /\ Overlaps(sta)))
        BY <4>2, ResponseSound
      <4> QED
        BY <3>2, <4>1, <4>3
    <3> QED
      BY <3>1, <3>2
  <2>3. overlapped' \in BOOLEAN
    BY <2>1
  <2> HIDE DEF s
  <2> QED
    BY <2>1, <2>2, <2>3, ReceivedSound
<1>5. ASSUME NEW a \in Aps, ResponseDropped(a)
      PROVE  BInv'
  BY <1>5 DEF ResponseDropped
<1>6. ASSUME NEW i \in DOMAIN staQueue, Transmit(i) \/ MissedAck(i)
      PROVE  BInv'
  BY <1>6 DEF Transmit, MissedAck, history
<1>7. ASSUME NEW i \in DOMAIN staQueue, GotAck(i)
      PROVE  BInv'
  <2>1. /\ world' = world /\ overlapped' = overlapped /\ sta' = Acked(sta, staQueue[i])
    BY <1>7 DEF GotAck, history
  <2>2. sta \in StationType
    BY DEF Sound
  <2>3. \A pm : Reached(pm) \in PmModes
    BY DEF Reached, PmModes
  <2>4. sta' \in StationType
    BY <2>1, <2>2, <2>3 DEF Acked, StationType
  <2>5. /\ sta'.m_state = sta.m_state /\ sta'.bssid = sta.bssid /\ sta'.scanEnd = sta.scanEnd
        /\ sta'.endNow = sta.endNow /\ sta'.m_assocRequestEvent = sta.m_assocRequestEvent
        /\ sta'.apList = sta.apList /\ sta'.leaving = sta.leaving
        /\ sta'.m_beaconWatchdog = sta.m_beaconWatchdog
    BY <2>1, <2>2 DEF Acked, StationType
  <2>6. (Watched(sta) => Watched(sta')) /\ NoAp \notin sta'.apList
    BY <2>5 DEF Watched, Sound
  <2> QED
    BY <2>1, <2>4, <2>5, <2>6, ElsewhereSound
<1> QED
  BY <1>2, <1>3, <1>4, <1>5, <1>6, <1>7 DEF MediumStep

LEMMA TimerStepSound ==
  ASSUME BInv, TimerStep
  PROVE  BInv'
<1>1. world \in Worlds /\ overlapped \in BOOLEAN /\ Sound(sta, overlapped) /\ sta \in StationType
  BY DEF BInv, Sound
<1>2. CASE EndScanning
  BY <1>2, EndScanningSound
<1>3. CASE AssocRequestTimeout
  <2>1. /\ sta' = [sta EXCEPT !.m_state = "WAIT_ASSOC_RESP"] /\ sta.m_assocRequestEvent
        /\ overlapped' = overlapped /\ world' = world
    BY <1>3 DEF AssocRequestTimeout, history
  <2>2. sta' \in StationType
    BY <1>1, <2>1 DEF StationType, States
  <2>3. /\ sta'.m_state = "WAIT_ASSOC_RESP" /\ sta'.m_assocRequestEvent
        /\ sta'.bssid = sta.bssid /\ sta'.scanEnd = sta.scanEnd /\ sta'.endNow = sta.endNow
        /\ sta'.apList = sta.apList /\ sta'.leaving = sta.leaving
        /\ sta'.m_beaconWatchdog = sta.m_beaconWatchdog
    BY <1>1, <2>1 DEF StationType
  <2> QED
    BY <1>1, <2>1, <2>2, <2>3 DEF BInv, Sound, Attached, Watched
<1>4. CASE MissedBeacons
  <2> DEFINE s == [sta EXCEPT !.m_beaconWatchdog = FALSE]
  <2>1. s \in StationType /\ s.apList = sta.apList
    BY <1>1 DEF StationType
  <2>2. CASE Leave(s) /\ world' = world
    BY <1>1, <2>1, <2>2, LeaveSound DEF BInv, Sound
  <2>3. CASE sta' = [s EXCEPT !.leaving = "receiving"] /\ overlapped' = overlapped /\ world' = world
    <3>1. sta' \in StationType
      BY <2>1, <2>3 DEF StationType
    <3>2. /\ sta'.m_state = sta.m_state /\ sta'.bssid = sta.bssid /\ sta'.scanEnd = sta.scanEnd
          /\ sta'.endNow = sta.endNow /\ sta'.m_assocRequestEvent = sta.m_assocRequestEvent
          /\ sta'.apList = sta.apList /\ sta'.leaving = "receiving"
      BY <1>1, <2>3 DEF StationType
    <3>3. Watched(sta') /\ NoAp \notin sta'.apList
      BY <1>1, <3>2 DEF Watched, Sound
    <3>4. Sound(sta', overlapped)
      BY <1>1, <3>1, <3>2, <3>3, ElsewhereSound
    <3> QED
      BY <1>1, <2>3, <3>4 DEF BInv
  <2> QED
    BY <1>4, <2>2, <2>3 DEF MissedBeacons
<1>5. CASE ReceptionEnds
  <2>1. /\ sta' = Received(sta) /\ overlapped' = overlapped /\ world' = world
    BY <1>5 DEF ReceptionEnds, Received, history
  <2> QED
    BY <1>1, <2>1, ReceivedSound DEF BInv
<1>6. CASE DisassociatedLater
  <2> DEFINE s == [sta EXCEPT !.leaving = "no"]
  <2>1. s \in StationType /\ s.apList = sta.apList
    BY <1>1 DEF StationType
  <2>2. Leave(s) /\ world' = world
    BY <1>6 DEF DisassociatedLater
  <2> QED
    BY <1>1, <2>1, <2>2, LeaveSound DEF BInv, Sound
<1>7. ASSUME NEW enable \in BOOLEAN, PmModeSwitchTimeout(enable)
      PROVE  BInv'
  <2> DEFINE r == [sta.retries EXCEPT ![enable] = sta.retries[enable] - 1]
             s == [sta EXCEPT !.retries = r]
  <2>1. sta.retries \in [BOOLEAN -> Int]
    BY <1>1 DEF StationType
  <2>2. r \in [BOOLEAN -> Int]
    BY <2>1, RetriesInt, RetriesSet
  <2>3. SetPowerSaveMode(s, enable) /\ overlapped' = overlapped /\ world' = world
    BY <1>7 DEF PmModeSwitchTimeout
  <2> HIDE DEF r
  <2>4. s \in StationType
    BY <1>1, <2>2 DEF StationType
  <2>5. /\ s.m_state = sta.m_state /\ s.bssid = sta.bssid /\ s.scanEnd = sta.scanEnd
        /\ s.endNow = sta.endNow /\ s.m_assocRequestEvent = sta.m_assocRequestEvent
        /\ s.apList = sta.apList /\ s.leaving = sta.leaving
        /\ s.m_beaconWatchdog = sta.m_beaconWatchdog
    BY <1>1 DEF StationType
  <2>6. (Watched(sta) => Watched(s)) /\ NoAp \notin s.apList
    BY <1>1, <2>5 DEF Watched, Sound
  <2> HIDE DEF s
  <2>7. Sound(s, overlapped)
    BY <1>1, <2>4, <2>5, <2>6, ElsewhereSound
  <2>8. Sound(sta', overlapped)
    BY <1>1, <2>3, <2>7, PowerSaveSound
  <2> QED
    BY <1>1, <2>3, <2>8 DEF BInv
<1> QED
  BY <1>2, <1>3, <1>4, <1>5, <1>6, <1>7 DEF TimerStep

LEMMA BssInit == ASSUME Init PROVE BInv
<1> DEFINE none == [enable \in BOOLEAN |-> 0]
<1>1. 0 \in Int
  OBVIOUS
<1>2. none \in [BOOLEAN -> Int]
  BY <1>1, Zenon
<1> HIDE DEF none
<1>3. Station \in StationType /\ Station.apList = {} /\ ~Station.m_assocRequestEvent
  <2>1. Station =
          [m_state |-> "UNASSOCIATED", bssid |-> NoAp, femBssid |-> NoAp, m_aid |-> NoAp,
           apList |-> {}, scanEnd |-> FALSE, endNow |-> 0, probed |-> FALSE,
           m_activeProbing |-> FALSE, m_assocRequestEvent |-> FALSE, m_beaconWatchdog |-> FALSE,
           leaving |-> "no", pmMode |-> "ACTIVE", retries |-> none]
    BY Zenon DEF Station, none
  <2> QED
    BY <2>1, <1>2 DEF StationType, States, PmModes, ApIds
<1>4. Station.endNow = 0
  BY DEF Station
<1>5. ~Overlaps(Station)
  BY <1>3, <1>4 DEF Overlaps
<1>6. Sound(StartScanning(Station), FALSE \/ Overlaps(Station))
  BY <1>3, StartScanningSound
<1>7. world \in Worlds /\ overlapped = FALSE /\ sta = StartScanning(Station)
  BY DEF Init
<1> QED
  BY <1>5, <1>6, <1>7 DEF BInv

\* The inductive invariant holds throughout.
THEOREM BssInvariant == ASSUME ApsNamed PROVE Spec => []BInv
<1>1. BInv /\ [Next]_vars => BInv'
  <2> SUFFICES ASSUME BInv, [Next]_vars PROVE BInv'
    OBVIOUS
  <2>1. CASE UNCHANGED vars
    BY <2>1 DEF vars, history, BInv
  <2> QED
    BY <2>1, UserStepSound, MediumStepSound, TimerStepSound DEF Next
<1> QED
  BY <1>1, BssInit, PTL DEF Spec

\* In every state something is pending that takes the station out of it.
THEOREM StationMovesOn == ASSUME ApsNamed PROVE Spec => []MovesOn
<1>1. BInv => MovesOn
  BY DEF BInv, Sound, MovesOn, Attached, Watched
<1> QED
  BY <1>1, BssInvariant, PTL

\* No association request is sent without a BSSID.
THEOREM RequestHasBssid == ASSUME ApsNamed PROVE Spec => []AsksKnownAp
<1>1. BInv => AsksKnownAp
  BY DEF BInv, Sound, AsksKnownAp, Attached
<1> QED
  BY <1>1, BssInvariant, PTL

\* Unless scans overlap, their ends and the request timer meet the state they are for.
THEOREM ScansEndClean == ASSUME ApsNamed PROVE Spec => []CleanScan
<1>1. BInv => CleanScan
  BY DEF BInv, Sound, CleanScan
<1> QED
  BY <1>1, BssInvariant, PTL

-----------------------------------------------------------------------------
(* What the station and the access points hold of each other. *)

Frames == [kind : {"request", "data"}, to : ApIds, qos : BOOLEAN, heard : BOOLEAN,
           air : {"queued", "lost", "received"}, pm : BOOLEAN]

\* The frames of a queue, of which one at a time has been transmitted.
OneInAir(q) == \A i, j \in DOMAIN q : q[i].air # "queued" /\ q[j].air # "queued" => i = j
Orderly(q) == q \in Seq(Frames) /\ OneInAir(q)

\* Those that have arrived and whose acknowledgement is awaited.
Arrived(q) == {f \in Frames : f.air = "received" /\ \E i \in DOMAIN q : f = q[i]}

\* A change of the station that neither associates it nor sets its mode.
Steady(s, t) ==
    /\ t.pmMode = s.pmMode /\ t.femBssid = s.femBssid
    /\ t.m_state = "ASSOCIATED" => s.m_state = "ASSOCIATED"

\* A step that does not concern what they hold of each other.
Aside ==
    /\ UNCHANGED <<world, responses, ap, untold, gaveUp>> /\ Steady(sta, sta')
    /\ Orderly(staQueue') /\ Arrived(staQueue') \subseteq Arrived(staQueue)

LEMMA FrameQueued ==
  ASSUME NEW kind \in {"request", "data"}, NEW a \in ApIds
  PROVE  Frame(kind, a) \in Frames /\ Frame(kind, a).air = "queued"
  BY DEF Frame, Frames

LEMMA QosQueued ==
  ASSUME NEW a \in ApIds
  PROVE  QosData(a) \in Frames /\ QosData(a).air = "queued"
<1>1. Frame("data", a) \in Frames /\ Frame("data", a).air = "queued"
  BY FrameQueued
<1> QED
  BY <1>1 DEF QosData, Frames

LEMMA EnqueueOrderly ==
  ASSUME NEW q, Orderly(q), NEW f \in Frames, f.air = "queued", NEW r, r = Enqueue(q, f)
  PROVE  Orderly(r) /\ Arrived(r) \subseteq Arrived(q)
<1>1. q \in Seq(Frames) /\ OneInAir(q) /\ Len(q) \in Nat /\ DOMAIN q = 1..Len(q)
  BY DEF Orderly
<1>2. CASE r = q
  BY <1>2
<1>3. CASE r = Append(q, f)
  <2>1. r \in Seq(Frames) /\ Len(r) = Len(q) + 1 /\ DOMAIN r = 1..Len(q) + 1
    BY <1>1, <1>3
  <2>2. r[Len(q) + 1] = f /\ \A i \in 1..Len(q) : r[i] = q[i]
    BY <1>1, <1>3
  <2>3. \A i \in DOMAIN r : r[i].air # "queued" => i \in DOMAIN q /\ r[i] = q[i]
    BY <1>1, <2>1, <2>2
  <2>4. OneInAir(r)
    BY <1>1, <2>3 DEF OneInAir
  <2>5. Arrived(r) \subseteq Arrived(q)
    BY <2>3 DEF Arrived
  <2> QED
    BY <2>1, <2>4, <2>5 DEF Orderly
<1> QED
  BY <1>2, <1>3 DEF Enqueue

LEMMA FrameRemoved ==
  ASSUME NEW q \in Seq(Frames), NEW n \in 1..Len(q)
  PROVE  /\ Removed(q, n) \in Seq(Frames) /\ Len(Removed(q, n)) = Len(q) - 1
         /\ \A i \in 1..n - 1 : Removed(q, n)[i] = q[i]
         /\ \A i \in n..Len(Removed(q, n)) : Removed(q, n)[i] = q[i + 1]
<1> DEFINE S == Frames
           r == Removed(q, n)
<1>1. q \in Seq(S)
  OBVIOUS
<1> HIDE DEF S, r
<1>2. /\ r \in Seq(S) /\ Len(r) = Len(q) - 1
      /\ \A i \in 1..n - 1 : r[i] = q[i]
      /\ \A i \in n..Len(r) : r[i] = q[i + 1]
  BY <1>1, Removing DEF r
<1> QED
  BY <1>2 DEF S, r

\* Taking a frame that was transmitted out of the queue leaves none that was.
LEMMA RemoveOrderly ==
  ASSUME NEW q, Orderly(q), NEW n \in 1..Len(q), q[n].air # "queued",
         NEW r, r = SeqExt!RemoveAt(q, n)
  PROVE  Orderly(r) /\ Arrived(r) = {}
<1>1. q \in Seq(Frames) /\ OneInAir(q) /\ Len(q) \in Nat /\ n \in Int
  BY DEF Orderly
<1>2. r = Removed(q, n)
  BY DEF SeqExt!RemoveAt, Removed
<1>3. /\ r \in Seq(Frames) /\ Len(r) = Len(q) - 1
      /\ \A i \in 1..n - 1 : r[i] = q[i]
      /\ \A i \in n..Len(r) : r[i] = q[i + 1]
  BY <1>1, <1>2, FrameRemoved
<1>4. \A i \in 1..Len(q) : i # n => q[i].air = "queued"
  BY <1>1 DEF OneInAir
<1>5. ASSUME NEW i \in DOMAIN r
      PROVE  r[i].air = "queued"
  <2>1. i \in 1..Len(q) - 1
    BY <1>3, <1>5
  <2>2. CASE i < n
    BY <1>1, <1>3, <2>1, <2>2 DEF OneInAir
  <2>3. CASE i >= n
    <3>1. i \in n..Len(r) /\ i + 1 \in 1..Len(q) /\ i + 1 # n
      <4>1. Len(r) = Len(q) - 1 /\ i \in Int
        BY <1>3, <2>1
      <4> QED
        BY <1>1, <2>1, <2>3, <4>1
    <3> QED
      BY <1>1, <1>3, <1>4, <3>1
  <2> QED
    BY <1>1, <2>1, <2>2, <2>3
<1> QED
  BY <1>3, <1>5 DEF Orderly, OneInAir, Arrived

\* Changing the one frame that was transmitted, or the first that is.
LEMMA ChangeOrderly ==
  ASSUME NEW q, Orderly(q), NEW n \in DOMAIN q, NEW f \in Frames,
         \A i \in DOMAIN q : i # n => q[i].air = "queued",
         NEW r, r = [q EXCEPT ![n] = f]
  PROVE  Orderly(r) /\ \A g \in Arrived(r) : g = f /\ f.air = "received"
<1>1. q \in Seq(Frames) /\ Len(q) \in Nat /\ DOMAIN q = 1..Len(q)
  BY DEF Orderly
<1>2. r \in Seq(Frames) /\ DOMAIN r = DOMAIN q
  BY <1>1
<1>3. \A i \in DOMAIN r : r[i] = IF i = n THEN f ELSE q[i]
  BY <1>1
<1>4. OneInAir(r)
  BY <1>2, <1>3 DEF OneInAir
<1>5. \A g \in Arrived(r) : g = f /\ f.air = "received"
  BY <1>2, <1>3 DEF Arrived
<1> QED
  BY <1>2, <1>4, <1>5 DEF Orderly

\* A frame that is received makes the others of its record forgotten.
LEMMA HeardOrderly ==
  ASSUME NEW q, Orderly(q), NEW n \in DOMAIN q, NEW f \in Frames,
         \A i \in DOMAIN q : i # n => q[i].air = "queued",
         NEW r, r = Heard(q, n, f)
  PROVE  Orderly(r) /\ \A g \in Arrived(r) : g = [f EXCEPT !.air = "received", !.heard = TRUE]
<1> DEFINE h == [f EXCEPT !.air = "received", !.heard = TRUE]
           forgotten(i) == [q[i] EXCEPT !.heard = FALSE]
<1>1. q \in Seq(Frames) /\ Len(q) \in Nat /\ DOMAIN q = 1..Len(q)
  BY DEF Orderly
<1>2. h \in Frames
  BY DEF Frames
<1>3. ASSUME NEW i \in DOMAIN q, i # n
      PROVE  forgotten(i) \in Frames /\ forgotten(i).air = "queued"
  <2>1. q[i] \in Frames /\ q[i].air = "queued"
    BY <1>1, <1>3
  <2> QED
    BY <2>1 DEF Frames
<1>4. r = [j \in 1..Len(q) |-> IF j = n THEN h
                               ELSE IF SameRecord(q[j], f) THEN forgotten(j) ELSE q[j]]
  BY <1>1 DEF Heard
<1> HIDE DEF h, forgotten
<1>5. ASSUME NEW i \in 1..Len(q)
      PROVE  r[i] \in Frames /\ (i = n => r[i] = h) /\ (i # n => r[i].air = "queued")
  <2>1. q[i] \in Frames
    BY <1>1
  <2>2. CASE i = n
    BY <1>2, <1>4, <2>2
  <2>3. CASE i # n
    <3>1. r[i] = forgotten(i) \/ r[i] = q[i]
      BY <1>4, <2>3
    <3> QED
      BY <1>1, <1>3, <2>1, <2>3, <3>1
  <2> QED
    BY <2>2, <2>3
<1>6. DOMAIN r = 1..Len(q)
  BY <1>4
<1>7. r \in Seq(Frames)
  <2>1. r = [j \in 1..Len(q) |-> r[j]]
    BY <1>4
  <2> QED
    BY <1>1, <1>5, <2>1
<1>8. OneInAir(r)
  BY <1>5, <1>6 DEF OneInAir
<1>9. \A g \in Arrived(r) : g = h
  <2>1. ASSUME NEW g \in Arrived(r)
        PROVE  g = h
    <3>1. PICK i \in DOMAIN r : g = r[i] /\ g.air = "received"
      BY DEF Arrived
    <3> QED
      BY <1>5, <1>6, <3>1
  <2> QED
    BY <2>1
<1> QED
  BY <1>7, <1>8, <1>9 DEF Orderly, h

LEMMA StartScanningSteady ==
  ASSUME NEW s \in StationType
  PROVE  Steady(s, StartScanning(s))
  BY DEF Steady, StartScanning, StationType

LEMMA LeaveSteady ==
  ASSUME NEW s \in StationType, Leave(s)
  PROVE  Steady(s, sta')
<1> DEFINE t == [s EXCEPT !.bssid = NoAp, !.m_aid = NoAp, !.m_assocRequestEvent = FALSE]
<1>1. t \in StationType /\ Steady(s, t)
  BY DEF StationType, ApIds, Steady
<1>2. sta' = StartScanning(t)
  BY DEF Leave, Disassociated
<1> HIDE DEF t
<1> QED
  BY <1>1, <1>2, StartScanningSteady DEF Steady

LEMMA ReceivedSteady ==
  ASSUME NEW s \in StationType
  PROVE  Steady(s, Received(s))
  BY DEF Steady, Received, StationType

LEMMA NotifyApInfoSteady ==
  ASSUME NEW s \in StationType, NEW a \in ApIds
  PROVE  NotifyApInfo(s, a) \in StationType /\ Steady(s, NotifyApInfo(s, a))
<1>1. s.apList \cup {a} \in SUBSET ApIds
  BY DEF StationType
<1> QED
  BY <1>1 DEF Steady, NotifyApInfo, StationType

LEMMA EndScanningAside ==
  ASSUME BInv, Orderly(staQueue), EndScanning
  PROVE  Aside
<1>1. sta \in StationType /\ UNCHANGED <<world, responses, ap, untold, gaveUp>>
  BY DEF BInv, Sound, EndScanning, history
<1>2. ASSUME NEW s \in StationType, Steady(sta, s), ScanningTimeout(s)
      PROVE  Aside
  <2>1. CASE s.apList = {}
    <3>1. sta' = StartScanning(s) /\ staQueue' = staQueue
      BY <1>2, <2>1 DEF ScanningTimeout
    <3>2. Steady(sta, sta')
      BY <1>2, <3>1, StartScanningSteady DEF Steady
    <3> QED
      BY <1>1, <3>1, <3>2 DEF Aside
  <2>2. CASE s.apList # {}
    <3>1. PICK a \in s.apList :
            sta' = Attempt(s, a) /\ staQueue' = Enqueue(staQueue, Frame("request", a))
      BY <1>2, <2>2 DEF ScanningTimeout
    <3>2. a \in ApIds
      BY <1>2 DEF StationType
    <3>3. Steady(sta, sta')
      BY <1>2, <3>1 DEF Attempt, Steady, StationType
    <3>4. Frame("request", a) \in Frames /\ Frame("request", a).air = "queued"
      BY <3>2, FrameQueued
    <3>5. Orderly(staQueue') /\ Arrived(staQueue') \subseteq Arrived(staQueue)
      BY <3>1, <3>4, EnqueueOrderly
    <3> QED
      BY <1>1, <3>3, <3>5 DEF Aside
  <2> QED
    BY <2>1, <2>2
<1>3. ASSUME sta.endNow > 0
      PROVE  /\ [sta EXCEPT !.endNow = @ - 1] \in StationType
             /\ Steady(sta, [sta EXCEPT !.endNow = @ - 1])
  <2>1. sta.endNow - 1 \in Nat
    BY <1>1, <1>3 DEF StationType
  <2> QED
    BY <1>1, <2>1 DEF StationType, Steady
<1>4. /\ [sta EXCEPT !.scanEnd = FALSE] \in StationType
      /\ Steady(sta, [sta EXCEPT !.scanEnd = FALSE])
  BY <1>1 DEF StationType, Steady
<1> QED
  BY <1>2, <1>4, <1>3 DEF EndScanning

\* The user's calls that do not set the mode.
LEMMA UserAside ==
  ASSUME BInv, Orderly(staQueue), UNCHANGED world,
         \/ \E enable \in BOOLEAN : SetActiveProbing(enable)
         \/ PhyCapabilitiesChanged \/ NotifyChannelSwitching \/ EnqueuePacket
  PROVE  Aside
<1>1. sta \in StationType
  BY DEF BInv, Sound
<1>2. ASSUME NEW a \in ApIds, staQueue' = Enqueue(staQueue, Frame("request", a))
      PROVE  Orderly(staQueue') /\ Arrived(staQueue') \subseteq Arrived(staQueue)
  <2>1. Frame("request", a) \in Frames /\ Frame("request", a).air = "queued"
    BY FrameQueued
  <2> QED
    BY <1>2, <2>1, EnqueueOrderly
<1>3. sta.bssid \in ApIds /\ sta.femBssid \in ApIds
  BY <1>1 DEF StationType
<1>4. ASSUME NEW enable \in BOOLEAN, SetActiveProbing(enable)
      PROVE  Aside
  <2> DEFINE s == [sta EXCEPT !.m_activeProbing = enable]
  <2>1. s \in StationType /\ Steady(sta, s)
    BY <1>1 DEF StationType, Steady
  <2>2. sta' = StartScanning(s) \/ sta' = s
    BY <1>4 DEF SetActiveProbing
  <2> HIDE DEF s
  <2>3. Steady(sta, sta')
    BY <2>1, <2>2, StartScanningSteady DEF Steady
  <2>4. UNCHANGED <<world, queues, ap, untold, gaveUp>>
    BY <1>4 DEF SetActiveProbing
  <2> QED
    BY <2>3, <2>4 DEF Aside, queues
<1>5. CASE PhyCapabilitiesChanged
  <2>1. Steady(sta, sta')
    BY <1>1, <1>5 DEF PhyCapabilitiesChanged, Steady, StationType
  <2>2. UNCHANGED <<world, responses, ap, untold, gaveUp>>
        /\ staQueue' = Enqueue(staQueue, Frame("request", sta.bssid))
    BY <1>5 DEF PhyCapabilitiesChanged, history
  <2> QED
    BY <1>2, <1>3, <2>1, <2>2 DEF Aside
<1>6. CASE NotifyChannelSwitching
  <2>1. Leave(sta) /\ UNCHANGED <<world, queues, ap, untold, gaveUp>>
    BY <1>6 DEF NotifyChannelSwitching
  <2> QED
    BY <1>1, <2>1, LeaveSteady DEF Aside, queues
<1>7. CASE EnqueuePacket
  <2>1. UNCHANGED <<world, sta, responses, ap, untold, gaveUp>>
        /\ staQueue' = Enqueue(staQueue, QosData(sta.femBssid))
    BY <1>7 DEF EnqueuePacket, history
  <2>2. QosData(sta.femBssid) \in Frames /\ QosData(sta.femBssid).air = "queued"
    BY <1>3, QosQueued
  <2>3. Orderly(staQueue') /\ Arrived(staQueue') \subseteq Arrived(staQueue)
    BY <2>1, <2>2, EnqueueOrderly
  <2> QED
    BY <2>1, <2>3 DEF Aside, Steady
<1> QED
  BY <1>4, <1>5, <1>6, <1>7

\* Timers other than that of a mode switch.
LEMMA TimerAside ==
  ASSUME BInv, Orderly(staQueue),
         EndScanning \/ AssocRequestTimeout \/ MissedBeacons \/ ReceptionEnds \/ DisassociatedLater
  PROVE  Aside
<1>1. sta \in StationType
  BY DEF BInv, Sound
<1>2. CASE EndScanning
  BY <1>2, EndScanningAside
<1>3. CASE AssocRequestTimeout
  <2>1. Steady(sta, sta')
    BY <1>1, <1>3 DEF AssocRequestTimeout, Steady, StationType
  <2>2. UNCHANGED <<world, responses, ap, untold, gaveUp>>
        /\ staQueue' = Enqueue(staQueue, Frame("request", sta.bssid))
    BY <1>3 DEF AssocRequestTimeout, history
  <2>3. Frame("request", sta.bssid) \in Frames /\ Frame("request", sta.bssid).air = "queued"
    BY <1>1, FrameQueued DEF StationType
  <2> QED
    BY <2>1, <2>2, <2>3, EnqueueOrderly DEF Aside
<1>4. CASE MissedBeacons
  <2> DEFINE s == [sta EXCEPT !.m_beaconWatchdog = FALSE]
  <2>1. s \in StationType /\ Steady(sta, s) /\ Steady(sta, [s EXCEPT !.leaving = "receiving"])
    BY <1>1 DEF StationType, Steady
  <2>2. Leave(s) \/ sta' = [s EXCEPT !.leaving = "receiving"]
    BY <1>4 DEF MissedBeacons
  <2>3. UNCHANGED <<world, queues, ap, untold, gaveUp>>
    BY <1>4 DEF MissedBeacons
  <2> HIDE DEF s
  <2>4. Steady(sta, sta')
    BY <2>1, <2>2, LeaveSteady DEF Steady
  <2> QED
    BY <2>3, <2>4 DEF Aside, queues
<1>5. CASE ReceptionEnds
  <2>1. Steady(sta, sta')
    BY <1>1, <1>5 DEF ReceptionEnds, Steady, StationType
  <2>2. UNCHANGED <<world, queues, ap, untold, gaveUp>>
    BY <1>5 DEF ReceptionEnds, history
  <2> QED
    BY <2>1, <2>2 DEF Aside, queues
<1>6. CASE DisassociatedLater
  <2> DEFINE s == [sta EXCEPT !.leaving = "no"]
  <2>1. s \in StationType /\ Steady(sta, s)
    BY <1>1 DEF StationType, Steady
  <2>2. Leave(s) /\ UNCHANGED <<world, queues, ap, untold, gaveUp>>
    BY <1>6 DEF DisassociatedLater
  <2> HIDE DEF s
  <2>3. Steady(sta, sta')
    BY <2>1, <2>2, LeaveSteady DEF Steady
  <2> QED
    BY <2>2, <2>3 DEF Aside, queues
<1> QED
  BY <1>2, <1>3, <1>4, <1>5, <1>6

\* Beacons, Probe Responses, and acknowledgements that are missed.
LEMMA MediumAside ==
  ASSUME BInv, Orderly(staQueue),
         \/ \E a \in Aps : ReceiveBeacon(a) \/ ReceiveProbeResp(a)
         \/ \E i \in DOMAIN staQueue : MissedAck(i)
  PROVE  Aside
<1>1. sta \in StationType
  BY DEF BInv, Sound
<1>2. ASSUME NEW a \in Aps, ReceiveBeacon(a) \/ ReceiveProbeResp(a)
      PROVE  Aside
  <2>1. a \in ApIds
    BY DEF Aps, ApIds, BInv
  <2>2. UNCHANGED <<world, queues, ap, untold, gaveUp>>
    BY <1>2 DEF ReceiveBeacon, ReceiveProbeResp, history
  <2>3. \/ sta' = Received([sta EXCEPT !.m_beaconWatchdog = TRUE])
        \/ sta' = Received(NotifyApInfo(sta, a))
    BY <1>2 DEF ReceiveBeacon, ReceiveProbeResp
  <2>4. [sta EXCEPT !.m_beaconWatchdog = TRUE] \in StationType
        /\ Steady(sta, [sta EXCEPT !.m_beaconWatchdog = TRUE])
    BY <1>1 DEF StationType, Steady
  <2>5. NotifyApInfo(sta, a) \in StationType /\ Steady(sta, NotifyApInfo(sta, a))
    BY <1>1, <2>1, NotifyApInfoSteady
  <2>6. Steady(sta, sta')
    BY <2>3, <2>4, <2>5, ReceivedSteady DEF Steady
  <2> QED
    BY <2>2, <2>6 DEF Aside, queues
<1>3. ASSUME NEW i \in DOMAIN staQueue, MissedAck(i)
      PROVE  Aside
  <2>1. UNCHANGED <<world, sta, responses, ap, untold, gaveUp>> /\ staQueue[i].air # "queued"
    BY <1>3 DEF MissedAck, history
  <2>2. CASE staQueue' = SeqExt!RemoveAt(staQueue, i)
    <3>1. Orderly(staQueue') /\ Arrived(staQueue') = {}
      BY <2>1, <2>2, RemoveOrderly
    <3> QED
      BY <2>1, <3>1 DEF Aside, Steady
  <2>3. CASE staQueue' = [staQueue EXCEPT ![i].air = "queued", ![i].pm = FALSE]
    <3> DEFINE f == [staQueue[i] EXCEPT !.air = "queued", !.pm = FALSE]
    <3>1. staQueue \in Seq(Frames) /\ staQueue[i] \in Frames
      BY DEF Orderly
    <3>2. f \in Frames /\ f.air = "queued"
      BY <3>1 DEF Frames
    <3>3. staQueue' = [staQueue EXCEPT ![i] = f]
      BY <2>3, <3>1
    <3>4. \A j \in DOMAIN staQueue : j # i => staQueue[j].air = "queued"
      BY <2>1 DEF Orderly, OneInAir
    <3> HIDE DEF f
    <3>5. Orderly(staQueue') /\ \A g \in Arrived(staQueue') : g = f /\ f.air = "received"
      BY <3>2, <3>3, <3>4, ChangeOrderly
    <3> QED
      BY <2>1, <3>2, <3>5 DEF Aside, Steady
  <2> QED
    BY <1>3, <2>2, <2>3 DEF MissedAck
<1> QED
  BY <1>2, <1>3

-----------------------------------------------------------------------------
(* The power management mode.                                               *)

\* An acknowledgement that completes a switch, now or if the station is asked for it,
\* is of a frame by which the AP was told.
Telling(f) ==
    sta.m_state = "ASSOCIATED" \/ sta.pmMode = Switching(f.pm)
        => f.to \in untold \/ isInPsMode[f.to] = f.pm

\* The inductive invariant.
ModeInv ==
    /\ BInv /\ Orderly(staQueue) /\ isInPsMode \in [Aps -> BOOLEAN]
    /\ \A f \in Arrived(staQueue) : Telling(f)
    /\ PowerModeAgreedIfTold

LEMMA ModesDiffer ==
  ASSUME NEW enable \in BOOLEAN
  PROVE  /\ Reached(enable) \in {"ACTIVE", "POWERSAVE"}
         /\ \A e : Reached(enable) # Switching(e)
         /\ Switching(enable) \notin {"ACTIVE", "POWERSAVE"}
         /\ Announces(Reached(enable)) = enable /\ Announces(Switching(enable)) = enable
         /\ \A e \in BOOLEAN : Switching(e) = Switching(enable) => e = enable
  BY DEF Reached, Switching, Announces

LEMMA AsideModes ==
  ASSUME ModeInv, BInv', Aside
  PROVE  ModeInv'
<1>1. UNCHANGED <<Aps, isInPsMode, untold>> /\ Steady(sta, sta')
  BY DEF Aside, ap, Aps
<1>2. \A f \in Arrived(staQueue)' : Telling(f)'
  BY <1>1 DEF Aside, Steady, Telling, ModeInv
<1>3. PowerModeAgreedIfTold'
  BY <1>1 DEF ModeInv, PowerModeAgreedIfTold, SameMode, Steady
<1> QED
  BY <1>1, <1>2, <1>3 DEF Aside, ModeInv

\* When the mode is set the APs that hold another one are those to be told.
LEMMA MustBeToldRest ==
  ASSUME NEW mode \in {"ACTIVE", "POWERSAVE"}, isInPsMode \in [Aps -> BOOLEAN],
         NEW a \in Aps, a \notin MustBeTold(mode)
  PROVE  /\ mode = "ACTIVE" => ~isInPsMode[a]
         /\ mode = "POWERSAVE" => isInPsMode[a]
  BY DEF MustBeTold, Announces

LEMMA SetPowerSaveModeModes ==
  ASSUME ModeInv, BInv', NEW s \in StationType, NEW enable \in BOOLEAN,
         s.m_state = sta.m_state, s.pmMode = sta.pmMode, SetPowerSaveMode(s, enable),
         UNCHANGED <<world, ap>>
  PROVE  ModeInv'
<1>1. UNCHANGED <<Aps, isInPsMode>> /\ isInPsMode \in [Aps -> BOOLEAN] /\ Orderly(staQueue)
  BY DEF ap, Aps, ModeInv
<1>2. CASE s.m_state # "ASSOCIATED"
  <2>1. /\ sta' = [s EXCEPT !.pmMode = Reached(enable)] /\ staQueue' = staQueue
        /\ untold' = MustBeTold(Reached(enable))
    BY <1>2 DEF SetPowerSaveMode
  <2>2. sta'.pmMode = Reached(enable) /\ sta'.m_state # "ASSOCIATED"
    BY <1>2, <2>1 DEF StationType
  <2>3. \A f \in Arrived(staQueue)' : Telling(f)'
    BY <2>2, ModesDiffer DEF Telling
  <2>4. PowerModeAgreedIfTold'
    <3>1. ASSUME NEW a \in Aps, a \notin untold'
          PROVE  SameMode(a)'
      BY <1>1, <2>1, <2>2, <3>1, ModesDiffer, MustBeToldRest DEF SameMode
    <3> QED
      BY <1>1, <3>1 DEF PowerModeAgreedIfTold
  <2> QED
    BY <1>1, <2>1, <2>3, <2>4 DEF ModeInv
<1>3. CASE s.m_state = "ASSOCIATED" /\ sta' = s /\ staQueue' = staQueue
  <2>1. untold' = untold
    BY <1>3 DEF SetPowerSaveMode
  <2>2. \A f \in Arrived(staQueue)' : Telling(f)'
    BY <1>1, <1>3, <2>1 DEF Telling, ModeInv
  <2>3. PowerModeAgreedIfTold'
    BY <1>1, <1>3, <2>1 DEF ModeInv, PowerModeAgreedIfTold, SameMode
  <2> QED
    BY <1>1, <1>3, <2>2, <2>3 DEF ModeInv
<1>4. CASE /\ s.m_state = "ASSOCIATED"
           /\ sta' = Retry([s EXCEPT !.pmMode = Switching(enable)], enable)
           /\ \/ staQueue' = staQueue
              \/ staQueue' = Enqueue(staQueue, Frame("data", s.femBssid))
  <2>1. untold' = untold
    BY <1>4 DEF SetPowerSaveMode
  <2>2. sta'.pmMode = Switching(enable)
    BY <1>4 DEF Retry, StationType
  <2>3. Frame("data", s.femBssid) \in Frames /\ Frame("data", s.femBssid).air = "queued"
    BY FrameQueued DEF StationType
  <2>4. Orderly(staQueue') /\ Arrived(staQueue') \subseteq Arrived(staQueue)
    BY <1>1, <1>4, <2>3, EnqueueOrderly
  <2>5. \A f \in Arrived(staQueue)' : Telling(f)'
    BY <1>1, <1>4, <2>1, <2>4 DEF Telling, ModeInv
  <2>6. PowerModeAgreedIfTold'
    BY <2>2, ModesDiffer DEF PowerModeAgreedIfTold, SameMode
  <2> QED
    BY <1>1, <2>4, <2>5, <2>6 DEF ModeInv
<1> QED
  BY <1>2, <1>3, <1>4 DEF SetPowerSaveMode

\* No frame is in the air when a response arrives, so that the association cannot
\* turn an acknowledgement of before into one that completes a switch.
LEMMA ResponseModes ==
  ASSUME ModeInv, BInv', NEW a \in Aps, ResponseReceived(a)
  PROVE  ModeInv'
<1> DEFINE r == Head(responses[a])
           s == IF r.heard THEN sta ELSE ReceiveAssocResp(sta, a, r.success)
<1>1. /\ MediumFree /\ sta' = Received(s) /\ UNCHANGED <<world, staQueue, isInPsMode>>
      /\ untold' = IF s.pmMode = sta.pmMode THEN untold ELSE MustBeTold(s.pmMode)
  BY DEF ResponseReceived
<1>2. Arrived(staQueue) = {}
  BY <1>1 DEF MediumFree, Arrived
<1>3. sta \in StationType
  BY DEF ModeInv, BInv, Sound
<1> HIDE DEF r
<1>4. \/ s = sta \/ s = StartScanning([sta EXCEPT !.m_assocRequestEvent = FALSE])
      \/ s = SetPmModeAfterAssociation([[sta EXCEPT !.m_assocRequestEvent = FALSE]
                EXCEPT !.m_aid = a, !.femBssid = a, !.m_state = "ASSOCIATED"])
  BY DEF ReceiveAssocResp
<1> HIDE DEF s
<1>5. s.pmMode = sta.pmMode \/ s.pmMode = "ACTIVE"
  BY <1>3, <1>4 DEF StationType, StartScanning, SetPmModeAfterAssociation
<1>6. sta'.pmMode = s.pmMode
  <2>1. sta'.pmMode = s.pmMode \/ sta' = [s EXCEPT !.leaving = "due"]
    BY <1>1 DEF Received
  <2>2. ASSUME sta' = [s EXCEPT !.leaving = "due"]
        PROVE  sta'.pmMode = s.pmMode
    <3>1. /\ [sta EXCEPT !.m_assocRequestEvent = FALSE] \in StationType
      BY <1>3 DEF StationType
    <3>2. "pmMode" \in DOMAIN s
      BY <1>3, <1>4 DEF StationType, StartScanning, SetPmModeAfterAssociation
    <3> QED
      BY <2>2, <3>2
  <2> QED
    BY <2>1, <2>2
<1>7. PowerModeAgreedIfTold'
  <2>1. CASE s.pmMode = sta.pmMode
    BY <1>1, <1>6, <2>1 DEF ModeInv, PowerModeAgreedIfTold, SameMode, Aps
  <2>2. CASE s.pmMode = "ACTIVE" /\ s.pmMode # sta.pmMode
    <3>1. untold' = MustBeTold("ACTIVE") /\ sta'.pmMode = "ACTIVE"
      BY <1>1, <1>6, <2>2
    <3>2. ASSUME NEW b \in Aps, b \notin untold'
          PROVE  SameMode(b)'
      BY <1>1, <3>1, <3>2, MustBeToldRest DEF ModeInv, SameMode
    <3> QED
      BY <1>1, <3>2 DEF PowerModeAgreedIfTold, Aps
  <2> QED
    BY <1>5, <2>1, <2>2
<1> QED
  BY <1>1, <1>2, <1>7 DEF ModeInv, Aps

LEMMA AckModes ==
  ASSUME ModeInv, BInv', NEW i \in DOMAIN staQueue, GotAck(i)
  PROVE  ModeInv'
<1> DEFINE f == staQueue[i]
<1>1. /\ f.air = "received" /\ sta' = Acked(sta, f) /\ staQueue' = SeqExt!RemoveAt(staQueue, i)
      /\ untold' = IF sta'.pmMode = sta.pmMode THEN untold
                   ELSE untold \cup (MustBeTold(sta'.pmMode) \ {f.to})
      /\ UNCHANGED <<world, ap>>
  BY DEF GotAck
<1>2. sta \in StationType /\ Orderly(staQueue) /\ isInPsMode \in [Aps -> BOOLEAN]
  BY DEF ModeInv, BInv, Sound
<1>3. f \in Frames /\ f.pm \in BOOLEAN /\ f \in Arrived(staQueue)
  <2>1. f \in Frames
    BY <1>2 DEF Orderly
  <2>2. f \in Arrived(staQueue)
    BY <1>1, <2>1 DEF Arrived
  <2> HIDE DEF f
  <2>3. f.pm \in BOOLEAN
    BY <2>1 DEF Frames
  <2> QED
    BY <2>1, <2>2, <2>3
<1>4. Orderly(staQueue') /\ Arrived(staQueue') = {}
  BY <1>1, <1>2, RemoveOrderly
<1> HIDE DEF f
<1>5. sta'.pmMode = IF sta.pmMode = Switching(f.pm) THEN Reached(f.pm) ELSE sta.pmMode
  BY <1>1, <1>2 DEF Acked, StationType
<1>6. UNCHANGED <<Aps, isInPsMode>>
  BY <1>1 DEF ap, Aps
<1>7. PowerModeAgreedIfTold'
  <2>1. CASE sta.pmMode = Switching(f.pm)
    <3>1. sta'.pmMode = Reached(f.pm) /\ sta'.pmMode # sta.pmMode
      BY <1>3, <1>5, <2>1, ModesDiffer
    <3>2. ASSUME NEW a \in Aps, a \notin untold'
          PROVE  SameMode(a)'
      <4>1. a \notin untold /\ (a \notin MustBeTold(sta'.pmMode) \/ a = f.to)
        BY <1>1, <3>1, <3>2
      <4>2. CASE a \notin MustBeTold(sta'.pmMode)
        BY <1>2, <1>3, <1>6, <3>1, <4>2, ModesDiffer, MustBeToldRest DEF SameMode
      <4>3. CASE a = f.to
        <5>1. isInPsMode[a] = f.pm
          BY <1>3, <2>1, <4>1, <4>3 DEF ModeInv, Telling
        <5> QED
          BY <1>3, <1>6, <3>1, <5>1 DEF SameMode, Reached
      <4> QED
        BY <4>1, <4>2, <4>3
    <3> QED
      BY <1>6, <3>2 DEF PowerModeAgreedIfTold
  <2>2. CASE sta.pmMode # Switching(f.pm)
    BY <1>1, <1>5, <1>6, <2>2 DEF ModeInv, PowerModeAgreedIfTold, SameMode
  <2> QED
    BY <2>1, <2>2
<1> QED
  BY <1>2, <1>4, <1>6, <1>7 DEF ModeInv

\* A transmission announces the mode of the moment, whatever the mode will be.
LEMMA TransmitModes ==
  ASSUME ModeInv, BInv', NEW i \in DOMAIN staQueue, Transmit(i)
  PROVE  ModeInv'
<1> DEFINE p == Announces(sta.pmMode)
           f == [staQueue[i] EXCEPT !.pm = p]
<1>1. Orderly(staQueue) /\ isInPsMode \in [Aps -> BOOLEAN] /\ staQueue[i] \in Frames
  BY DEF ModeInv, Orderly
<1>2. \A j \in DOMAIN staQueue : staQueue[j].air = "queued"
  BY DEF Transmit, MediumFree
<1>3. f \in Frames /\ f.pm = Announces(sta.pmMode) /\ f.pm \in BOOLEAN
  <2>1. p \in BOOLEAN
    BY DEF Announces
  <2> HIDE DEF p
  <2>2. f \in Frames /\ f.pm = p
    BY <1>1, <2>1 DEF Frames
  <2> QED
    BY <2>1, <2>2 DEF p
<1>4. UNCHANGED <<world, sta, Aps>>
  BY DEF Transmit, Aps
<1>5. CASE staQueue' = [staQueue EXCEPT ![i] = [f EXCEPT !.air = "lost"]] /\ UNCHANGED <<ap, untold>>
  <2> DEFINE g == [f EXCEPT !.air = "lost"]
  <2> HIDE DEF f
  <2>1. g \in Frames /\ g.air = "lost"
    BY <1>3 DEF Frames
  <2>2. staQueue' = [staQueue EXCEPT ![i] = g]
    BY <1>5
  <2> HIDE DEF g
  <2>3. Orderly(staQueue') /\ \A h \in Arrived(staQueue') : h = g /\ g.air = "received"
    <3>1. \A j \in DOMAIN staQueue : j # i => staQueue[j].air = "queued"
      BY <1>2
    <3> QED
      BY <1>1, <2>1, <2>2, <3>1, ChangeOrderly
  <2>4. Arrived(staQueue') = {}
    BY <2>1, <2>3
  <2>5. PowerModeAgreedIfTold'
    BY <1>4, <1>5 DEF ModeInv, PowerModeAgreedIfTold, SameMode, ap
  <2> QED
    BY <1>1, <1>4, <1>5, <2>3, <2>4, <2>5 DEF ModeInv, ap
<1>6. CASE /\ staQueue' = Heard(staQueue, i, f)
           /\ ApReceive(f)
           /\ untold' = IF isInPsMode'[f.to] = f.pm THEN untold \ {f.to} ELSE untold \cup {f.to}
  <2> DEFINE g == [f EXCEPT !.air = "received", !.heard = TRUE]
  <2> HIDE DEF f
  <2>1. g \in Frames /\ g.air = "received" /\ g.pm = f.pm /\ g.to = f.to
    BY <1>3 DEF Frames
  <2>2. Orderly(staQueue') /\ \A h \in Arrived(staQueue') : h = g
    <3>1. \A j \in DOMAIN staQueue : j # i => staQueue[j].air = "queued"
      BY <1>2
    <3>2. Orderly(staQueue) /\ f \in Frames /\ staQueue' = Heard(staQueue, i, f)
      BY <1>1, <1>3, <1>6
    <3> QED
      BY <3>1, <3>2, HeardOrderly, Zenon
  <2> HIDE DEF g
  <2>3. Orderly(staQueue') /\ \A h \in Arrived(staQueue') : h = g
    BY <2>2
  <2>4. isInPsMode' = IF Looks(f) THEN [isInPsMode EXCEPT ![f.to] = f.pm] ELSE isInPsMode
    BY <1>6 DEF ApReceive, ProcessPowerManagementFlag
  <2>5. isInPsMode' \in [Aps -> BOOLEAN] /\ \A a \in Aps : a # f.to => isInPsMode'[a] = isInPsMode[a]
    BY <1>1, <1>3, <2>4
  <2>6. f.to \in untold' \/ isInPsMode'[f.to] = f.pm
    BY <1>6
  <2>7. \A h \in Arrived(staQueue)' : Telling(h)'
    BY <2>1, <2>3, <2>6 DEF Telling
  <2>8. ASSUME NEW a \in Aps, a \notin untold'
        PROVE  SameMode(a)'
    <3>1. CASE a = f.to
      BY <1>3, <1>4, <2>6, <2>8, <3>1 DEF SameMode, Announces
    <3>2. CASE a # f.to
      <4>1. a \notin untold
        BY <1>6, <2>8, <3>2
      <4> QED
        BY <1>4, <2>5, <3>2, <4>1 DEF ModeInv, PowerModeAgreedIfTold, SameMode
    <3> QED
      BY <3>1, <3>2
  <2> QED
    BY <1>4, <2>3, <2>5, <2>7, <2>8 DEF ModeInv, PowerModeAgreedIfTold
<1> QED
  BY <1>5, <1>6 DEF Transmit

LEMMA ModeStep ==
  ASSUME ModeInv, BInv', Next
  PROVE  ModeInv'
<1>1. BInv /\ Orderly(staQueue) /\ sta \in StationType
  BY DEF ModeInv, BInv, Sound
<1>2. CASE UserStep
  <2>1. UNCHANGED world
    BY <1>2 DEF UserStep
  <2>2. ASSUME NEW enable \in BOOLEAN, UserSetsPowerSaveMode(enable)
        PROVE  ModeInv'
    <3>1. SetPowerSaveMode(sta, enable) /\ UNCHANGED <<world, ap>>
      BY <2>1, <2>2 DEF UserSetsPowerSaveMode
    <3> QED
      BY <1>1, <3>1, SetPowerSaveModeModes
  <2> QED
    BY <1>1, <1>2, <2>1, <2>2, UserAside, AsideModes DEF UserStep
<1>3. CASE TimerStep
  <2>1. ASSUME NEW enable \in BOOLEAN, PmModeSwitchTimeout(enable)
        PROVE  ModeInv'
    <3> DEFINE s == [sta EXCEPT !.retries[enable] = @ - 1]
               r == [sta.retries EXCEPT ![enable] = sta.retries[enable] - 1]
    <3>1. SetPowerSaveMode(s, enable) /\ UNCHANGED <<world, ap>>
      BY <2>1 DEF PmModeSwitchTimeout
    <3>2. r \in [BOOLEAN -> Int]
      BY <1>1, RetriesInt, RetriesSet DEF StationType
    <3> HIDE DEF r
    <3>3. [sta EXCEPT !.retries = r] \in StationType
      BY <1>1, <3>2 DEF StationType
    <3>4. s = [sta EXCEPT !.retries = r] /\ s.m_state = sta.m_state /\ s.pmMode = sta.pmMode
      BY <1>1 DEF r, StationType
    <3> HIDE DEF s
    <3> QED
      BY <3>1, <3>3, <3>4, SetPowerSaveModeModes
  <2> QED
    BY <1>1, <1>3, <2>1, TimerAside, AsideModes DEF TimerStep
<1>4. CASE MediumStep
  <2>1. ASSUME NEW a \in Aps, ResponseDropped(a)
        PROVE  ModeInv'
    BY <2>1 DEF ResponseDropped, ModeInv, Telling, PowerModeAgreedIfTold, SameMode, Aps
  <2> QED
    BY <1>1, <1>4, <2>1, ResponseModes, TransmitModes, AckModes, MediumAside, AsideModes
    DEF MediumStep
<1> QED
  BY <1>2, <1>3, <1>4 DEF Next

\* An acknowledgement awaited is of a frame that told the AP, if it completes a switch.
THEOREM ModeInvariant == ASSUME ApsNamed PROVE Spec => []ModeInv
<1>1. Init => ModeInv
  <2> SUFFICES ASSUME Init PROVE ModeInv
    OBVIOUS
  <2>1. BInv
    BY BssInit
  <2>2. staQueue = <<>> /\ isInPsMode = [a \in Aps |-> FALSE] /\ sta = StartScanning(Station)
    BY DEF Init
  <2>3. Orderly(staQueue) /\ Arrived(staQueue) = {}
    BY <2>2 DEF Orderly, OneInAir, Arrived
  <2>4. sta.pmMode = "ACTIVE"
    BY <2>2 DEF StartScanning, Station
  <2> QED
    BY <2>1, <2>2, <2>3, <2>4 DEF ModeInv, PowerModeAgreedIfTold, SameMode
<1>2. ModeInv /\ BInv' /\ [Next]_vars => ModeInv'
  <2> SUFFICES ASSUME ModeInv, BInv', [Next]_vars PROVE ModeInv'
    OBVIOUS
  <2>1. CASE UNCHANGED vars
    BY <2>1 DEF vars, queues, ap, history, ModeInv, Telling, PowerModeAgreedIfTold, SameMode, Aps
  <2> QED
    BY <2>1, ModeStep
<1> QED
  BY <1>1, <1>2, BssInvariant, PTL DEF Spec

\* When a switch is over the AP holds frames back exactly if the station is in power
\* save mode, of every AP that was told and looked.
THEOREM PowerModesAgree == ASSUME ApsNamed PROVE Spec => []PowerModeAgreedIfTold
<1>1. ModeInv => PowerModeAgreedIfTold
  BY DEF ModeInv
<1> QED
  BY <1>1, ModeInvariant, PTL

-----------------------------------------------------------------------------
(* The association.                                                         *)

\* An access point decides on a station by what the station supports, which does not
\* change: it always accepts it or always refuses it.
ApsDecided ==
    /\ MaxFrames \in Nat \ {0}
    /\ \A w \in Worlds : \A a \in w.aps : w.accepts[a] \in {{TRUE}, {FALSE}}

Responses == [success : BOOLEAN, heard : BOOLEAN]

\* What an AP has of the station, by the responses it still has to deliver: it waits
\* for the acknowledgement of one, and only counts a station that it accepts as gone
\* after it gave up a response.
Consistent(a) ==
    /\ responses[a] \in Seq(Responses)
    /\ \A n \in DOMAIN responses[a] : responses[a][n].success \in world.accepts[a]
    /\ responses[a] # <<>> => apState[a] # "BRAND_NEW"
    /\ apState[a] = "WAIT_ASSOC_TX_OK" => responses[a] # <<>>
    /\ world.accepts[a] = {TRUE} /\ apState[a] = "DISASSOC" => a \in gaveUp

\* The AP of an associated station accepts it and has heard of it.
Accepted ==
    sta.m_state = "ASSOCIATED" =>
        /\ sta.femBssid \in Aps /\ world.accepts[sta.femBssid] = {TRUE}
        /\ apState[sta.femBssid] # "BRAND_NEW"

\* The inductive invariant.
AssocInv ==
    /\ BInv /\ Orderly(staQueue) /\ DOMAIN responses = Aps /\ apState \in [Aps -> ApStates]
    /\ \A a \in Aps : Consistent(a)
    /\ Accepted

LEMMA OneAnswer ==
  ASSUME ApsDecided, world \in Worlds, NEW a \in Aps
  PROVE  world.accepts[a] = {TRUE} \/ world.accepts[a] = {FALSE}
  BY DEF ApsDecided, Aps

LEMMA AsideAssoc ==
  ASSUME AssocInv, BInv', Aside
  PROVE  AssocInv'
<1>1. UNCHANGED <<world, Aps, responses, apState, gaveUp>> /\ Steady(sta, sta')
  BY DEF Aside, ap, Aps
<1>2. Accepted'
  BY <1>1 DEF AssocInv, Accepted, Steady
<1>3. \A a \in Aps' : Consistent(a)'
  BY <1>1 DEF AssocInv, Consistent
<1> QED
  BY <1>1, <1>2, <1>3 DEF Aside, AssocInv

LEMMA QueueAssoc ==
  ASSUME AssocInv, BInv', Orderly(staQueue'), Steady(sta, sta'), UNCHANGED <<world, gaveUp>>,
         DOMAIN responses' = Aps, apState' \in [Aps -> ApStates],
         \A a \in Aps : responses'[a] = responses[a] /\ apState'[a] = apState[a]
  PROVE  AssocInv'
<1>1. Accepted'
  BY DEF AssocInv, Accepted, Steady, Aps
<1>2. \A a \in Aps' : Consistent(a)'
  BY DEF AssocInv, Consistent, Aps
<1> QED
  BY <1>1, <1>2 DEF AssocInv, Aps

\* One AP changes its mind about the station, which stays associated at most with it.
LEMMA ApAssoc ==
  ASSUME AssocInv, BInv', Orderly(staQueue'), NEW a \in Aps, NEW q, NEW state \in ApStates,
         UNCHANGED world, responses' = [responses EXCEPT ![a] = q],
         apState' = [apState EXCEPT ![a] = state], gaveUp \ {a} \subseteq gaveUp',
         Consistent(a)', state # "BRAND_NEW" \/ apState[a] = "BRAND_NEW",
         sta'.m_state = "ASSOCIATED" =>
            \/ sta'.femBssid = sta.femBssid /\ sta.m_state = "ASSOCIATED"
            \/ sta'.femBssid = a /\ world.accepts[a] = {TRUE} /\ state # "BRAND_NEW"
  PROVE  AssocInv'
<1>1. /\ DOMAIN responses = Aps /\ apState \in [Aps -> ApStates] /\ Aps' = Aps
      /\ \A b \in Aps : Consistent(b)
  BY DEF AssocInv, Aps
<1>2. /\ DOMAIN responses' = Aps /\ responses'[a] = q
      /\ \A b \in Aps : b # a => responses'[b] = responses[b]
  BY <1>1
<1>3. /\ apState' \in [Aps -> ApStates] /\ apState'[a] = state
      /\ \A b \in Aps : b # a => apState'[b] = apState[b]
  BY <1>1
<1>4. \A b \in Aps : Consistent(b)'
  BY <1>1, <1>2, <1>3 DEF Consistent
<1>5. Accepted'
  BY <1>1, <1>3 DEF Accepted, AssocInv
<1> QED
  BY <1>1, <1>2, <1>3, <1>4, <1>5 DEF AssocInv

LEMMA DroppedAssoc ==
  ASSUME AssocInv, BInv', NEW a \in Aps, ResponseDropped(a)
  PROVE  AssocInv'
<1> DEFINE q == Tail(responses[a])
           state == IF apState[a] = "WAIT_ASSOC_TX_OK" THEN "DISASSOC" ELSE apState[a]
<1>1. /\ responses[a] # <<>> /\ responses' = [responses EXCEPT ![a] = q] /\ gaveUp' = gaveUp \cup {a}
      /\ apState' = [apState EXCEPT ![a] = state] /\ UNCHANGED <<world, sta, staQueue>>
  BY DEF ResponseDropped
<1>2. Consistent(a) /\ DOMAIN responses = Aps /\ apState \in [Aps -> ApStates] /\ Orderly(staQueue)
  BY DEF AssocInv
<1>3. state \in ApStates /\ state # "WAIT_ASSOC_TX_OK" /\ state # "BRAND_NEW"
  BY <1>1, <1>2 DEF Consistent, ApStates
<1>4. q \in Seq(Responses) /\ \A n \in DOMAIN q : q[n] = responses[a][n + 1] /\ n + 1 \in DOMAIN responses[a]
  BY <1>1, <1>2 DEF Consistent
<1>5. responses'[a] = q /\ apState'[a] = state
  BY <1>1, <1>2
<1> HIDE DEF q, state
<1>6. Consistent(a)'
  BY <1>1, <1>2, <1>3, <1>4, <1>5 DEF Consistent
<1> QED
  BY <1>1, <1>2, <1>3, <1>6, ApAssoc

\* The station after a response was received: associated as before, or with the AP
\* that accepted it.
LEMMA ResponseAssociates ==
  ASSUME NEW s \in StationType, NEW a \in ApIds, NEW success \in BOOLEAN,
         NEW t, t = ReceiveAssocResp(s, a, success), t.m_state = "ASSOCIATED"
  PROVE  \/ t.femBssid = s.femBssid /\ s.m_state = "ASSOCIATED"
         \/ t.femBssid = a /\ success
<1>1. CASE ~AwaitsResponse(s)
  BY <1>1 DEF ReceiveAssocResp
<1>2. CASE AwaitsResponse(s) /\ success
  <2>1. t.femBssid = a
    BY <1>2 DEF ReceiveAssocResp, SetPmModeAfterAssociation, StationType
  <2> QED
    BY <1>2, <2>1
<1>3. CASE AwaitsResponse(s) /\ ~success
  <2>1. t.m_state = "SCANNING"
    BY <1>3 DEF ReceiveAssocResp, StartScanning, StationType
  <2> QED
    BY <2>1
<1> QED
  BY <1>1, <1>2, <1>3

LEMMA ResponseAssoc ==
  ASSUME ApsNamed, ApsDecided, AssocInv, BInv', NEW a \in Aps, ResponseReceived(a)
  PROVE  AssocInv'
<1> DEFINE r == Head(responses[a])
           s == IF r.heard THEN sta ELSE ReceiveAssocResp(sta, a, r.success)
<1>1. /\ responses[a] # <<>> /\ sta' = Received(s) /\ UNCHANGED <<world, staQueue>>
      /\ \/ /\ responses' = [responses EXCEPT ![a] = Tail(@)]
            /\ apState' = [apState EXCEPT ![a] = TxOk(a)]
            /\ gaveUp' = IF TxOk(a) = "GOT_ASSOC_TX_OK" THEN gaveUp \ {a} ELSE gaveUp
         \/ /\ responses' = [responses EXCEPT ![a][1].heard = TRUE]
            /\ UNCHANGED <<apState, gaveUp>>
  BY DEF ResponseReceived
<1>2. /\ Consistent(a) /\ DOMAIN responses = Aps /\ apState \in [Aps -> ApStates]
      /\ Orderly(staQueue) /\ sta \in StationType /\ sta' \in StationType /\ world \in Worlds
  BY DEF AssocInv, BInv, Sound
<1>3. a \in ApIds
  BY <1>2 DEF Aps, ApIds
<1>4. r \in Responses /\ r.success \in world.accepts[a] /\ r = responses[a][1] /\ 1 \in DOMAIN responses[a]
  BY <1>1, <1>2 DEF Consistent
<1>5. r.success \in BOOLEAN
  <2> HIDE DEF r
  <2> QED
    BY <1>4 DEF Responses
<1>6. r.success => world.accepts[a] = {TRUE}
  <2>1. world.accepts[a] = {TRUE} \/ world.accepts[a] = {FALSE}
    BY <1>2, OneAnswer
  <2> HIDE DEF r
  <2> QED
    BY <1>4, <2>1
<1> HIDE DEF r
<1>7. s \in {sta, ReceiveAssocResp(sta, a, r.success)}
  OBVIOUS
<1>8. s \in StationType
  <2>1. Sound(ReceiveAssocResp(sta, a, r.success),
              overlapped \/ (AwaitsResponse(sta) /\ ~r.success /\ Overlaps(sta)))
    BY <1>3, ResponseSound DEF AssocInv, BInv
  <2> QED
    BY <1>2, <2>1 DEF Sound
<1>9. s.m_state = "ASSOCIATED" =>
        \/ s.femBssid = sta.femBssid /\ sta.m_state = "ASSOCIATED"
        \/ s.femBssid = a /\ r.success
  <2>1. CASE r.heard
    BY <2>1
  <2>2. CASE ~r.heard
    <3>1. s = ReceiveAssocResp(sta, a, r.success)
      BY <2>2
    <3> HIDE DEF s
    <3> QED
      BY <1>2, <1>3, <1>5, <3>1, ResponseAssociates
  <2> QED
    BY <2>1, <2>2
<1> HIDE DEF s
<1>10. sta'.m_state = s.m_state /\ sta'.femBssid = s.femBssid
  BY <1>1, <1>8 DEF Received, StationType
<1>11. apState[a] # "BRAND_NEW"
  BY <1>1, <1>2 DEF Consistent
<1>12. sta'.m_state = "ASSOCIATED" =>
         \/ sta'.femBssid = sta.femBssid /\ sta.m_state = "ASSOCIATED"
         \/ sta'.femBssid = a /\ world.accepts[a] = {TRUE}
  BY <1>6, <1>9, <1>10
<1>13. CASE /\ responses' = [responses EXCEPT ![a] = Tail(@)]
            /\ apState' = [apState EXCEPT ![a] = TxOk(a)]
            /\ gaveUp' = IF TxOk(a) = "GOT_ASSOC_TX_OK" THEN gaveUp \ {a} ELSE gaveUp
  <2> DEFINE q == Tail(responses[a])
             state == TxOk(a)
  <2>1. q \in Seq(Responses) /\ \A n \in DOMAIN q : q[n] = responses[a][n + 1] /\ n + 1 \in DOMAIN responses[a]
    BY <1>1, <1>2 DEF Consistent
  <2>2. state \in ApStates /\ state # "WAIT_ASSOC_TX_OK" /\ state # "BRAND_NEW"
        /\ (state = "DISASSOC" => apState[a] = "DISASSOC" /\ gaveUp' = gaveUp)
    BY <1>2, <1>11, <1>13 DEF TxOk, ApStates
  <2>3. responses' = [responses EXCEPT ![a] = q] /\ apState' = [apState EXCEPT ![a] = state]
    BY <1>13
  <2>4. responses'[a] = q /\ apState'[a] = state /\ gaveUp \ {a} \subseteq gaveUp'
    BY <1>2, <1>13, <2>3
  <2> HIDE DEF q, state
  <2>5. Consistent(a)'
    BY <1>1, <1>2, <2>1, <2>2, <2>4 DEF Consistent
  <2> QED
    BY <1>1, <1>2, <1>12, <2>2, <2>3, <2>4, <2>5, ApAssoc
<1>14. CASE responses' = [responses EXCEPT ![a][1].heard = TRUE] /\ UNCHANGED <<apState, gaveUp>>
  <2> DEFINE h == [r EXCEPT !.heard = TRUE]
             q == [responses[a] EXCEPT ![1] = h]
  <2>1. h \in Responses /\ h.success = r.success
    BY <1>4 DEF Responses
  <2>2. responses' = [responses EXCEPT ![a] = q]
    BY <1>4, <1>14
  <2> HIDE DEF h
  <2>3. /\ q \in Seq(Responses) /\ q # <<>> /\ DOMAIN q = DOMAIN responses[a]
        /\ \A n \in DOMAIN q : q[n] = IF n = 1 THEN h ELSE responses[a][n]
    BY <1>1, <1>2, <2>1 DEF Consistent
  <2> HIDE DEF q
  <2>4. responses'[a] = q /\ apState' = [apState EXCEPT ![a] = apState[a]]
    BY <1>2, <1>14, <2>2
  <2>5. \A n \in DOMAIN q : q[n].success \in world.accepts[a]
    BY <1>2, <1>4, <2>1, <2>3 DEF Consistent
  <2>6. Consistent(a)'
    BY <1>1, <1>2, <1>11, <1>14, <2>3, <2>4, <2>5 DEF Consistent
  <2>7. apState[a] \in ApStates
    BY <1>2
  <2> QED
    BY <1>1, <1>2, <1>11, <1>12, <1>14, <2>2, <2>4, <2>6, <2>7, ApAssoc
<1> QED
  BY <1>1, <1>13, <1>14

\* A transmission leaves the queue in order.
LEMMA TransmitOrderly ==
  ASSUME Orderly(staQueue), NEW i \in DOMAIN staQueue, Transmit(i)
  PROVE  Orderly(staQueue')
<1> DEFINE p == Announces(sta.pmMode)
           f == [staQueue[i] EXCEPT !.pm = p]
           lost == [f EXCEPT !.air = "lost"]
<1>1. \A j \in DOMAIN staQueue : j # i => staQueue[j].air = "queued"
  BY DEF Transmit, MediumFree
<1>2. p \in BOOLEAN
  BY DEF Announces
<1>3. staQueue' = [staQueue EXCEPT ![i] = lost] \/ staQueue' = Heard(staQueue, i, f)
  BY DEF Transmit
<1>4. staQueue[i] \in Frames
  BY DEF Orderly
<1> HIDE DEF p
<1>5. f \in Frames /\ lost \in Frames
  BY <1>2, <1>4 DEF Frames
<1> HIDE DEF f, lost
<1>6. CASE staQueue' = [staQueue EXCEPT ![i] = lost]
  BY <1>1, <1>5, <1>6, ChangeOrderly, Zenon
<1>7. CASE staQueue' = Heard(staQueue, i, f)
  BY <1>1, <1>5, <1>7, HeardOrderly, Zenon
<1> QED
  BY <1>3, <1>6, <1>7

LEMMA TransmitAssoc ==
  ASSUME ApsNamed, ApsDecided, AssocInv, BInv', NEW i \in DOMAIN staQueue, Transmit(i)
  PROVE  AssocInv'
<1>1. Orderly(staQueue') /\ UNCHANGED <<world, sta, gaveUp>> /\ world \in Worlds
  BY TransmitOrderly DEF Transmit, AssocInv, BInv
<1>2. /\ DOMAIN responses = Aps /\ apState \in [Aps -> ApStates]
      /\ \A b \in Aps : Consistent(b)
  BY DEF AssocInv
<1>3. CASE UNCHANGED <<apState, responses>>
  BY <1>1, <1>2, <1>3, QueueAssoc DEF Steady
<1>4. ASSUME NEW a, ReceiveAssocRequest(a)
      PROVE  AssocInv'
  <2>1. PICK accepted \in world.accepts[a] :
          /\ apState' = [apState EXCEPT ![a] = IF accepted THEN "WAIT_ASSOC_TX_OK" ELSE "DISASSOC"]
          /\ responses' = [responses EXCEPT ![a] =
                IF Len(@) < MaxFrames THEN Append(@, [success |-> accepted, heard |-> FALSE]) ELSE @]
    BY <1>4 DEF ReceiveAssocRequest
  <2>2. CASE a \notin Aps
    <3>1. /\ DOMAIN responses' = Aps /\ apState' \in [Aps -> ApStates]
          /\ \A b \in Aps : responses'[b] = responses[b] /\ apState'[b] = apState[b]
      BY <1>2, <2>1, <2>2
    <3> QED
      BY <1>1, <3>1, QueueAssoc DEF Steady
  <2>3. CASE a \in Aps
    <3> DEFINE state == IF accepted THEN "WAIT_ASSOC_TX_OK" ELSE "DISASSOC"
               old == responses[a]
               r == [success |-> accepted, heard |-> FALSE]
               q == IF Len(old) < MaxFrames THEN Append(old, r) ELSE old
    <3>1. world.accepts[a] = {TRUE} \/ world.accepts[a] = {FALSE}
      BY <1>1, <2>3, OneAnswer
    <3>2. accepted \in BOOLEAN
      BY <3>1
    <3>3. r \in Responses /\ r.success = accepted
      BY <3>2 DEF Responses
    <3>4. old \in Seq(Responses) /\ \A n \in DOMAIN old : old[n].success \in world.accepts[a]
      BY <1>2, <2>3 DEF Consistent
    <3>5. responses' = [responses EXCEPT ![a] = q] /\ apState' = [apState EXCEPT ![a] = state]
      BY <1>2, <2>1, <2>3
    <3> HIDE DEF r, old
    <3>6. q \in Seq(Responses) /\ q # <<>>
      <4>1. Append(old, r) \in Seq(Responses) /\ Append(old, r) # <<>>
        BY <3>3, <3>4
      <4>2. CASE ~(Len(old) < MaxFrames)
        BY <3>4, <4>2 DEF ApsDecided
      <4> QED
        BY <4>1, <4>2
    <3>7. \A n \in DOMAIN q : q[n].success \in world.accepts[a]
      <4>1. CASE Len(old) < MaxFrames
        <5>1. q = Append(old, r) /\ DOMAIN q = 1..Len(old) + 1 /\ q[Len(old) + 1] = r
              /\ \A n \in 1..Len(old) : q[n] = old[n]
          BY <3>3, <3>4, <4>1
        <5>2. DOMAIN old = 1..Len(old) /\ Len(old) \in Nat
          BY <3>4
        <5>3. r.success \in world.accepts[a]
          BY <3>3
        <5> HIDE DEF q
        <5> QED
          BY <3>4, <5>1, <5>2, <5>3
      <4>2. CASE ~(Len(old) < MaxFrames)
        BY <3>4, <4>2
      <4> QED
        BY <4>1, <4>2
    <3>8. /\ state \in ApStates /\ state # "BRAND_NEW"
          /\ ~(world.accepts[a] = {TRUE} /\ state = "DISASSOC")
      <4>1. world.accepts[a] = {TRUE} => accepted = TRUE
        BY Zenon
      <4> QED
        BY <4>1 DEF ApStates
    <3> HIDE DEF q, state
    <3>9. responses'[a] = q /\ apState'[a] = state
      BY <1>2, <2>3, <3>5
    <3>10. Consistent(a)'
      BY <1>1, <3>6, <3>7, <3>8, <3>9 DEF Consistent
    <3>11. sta'.m_state = "ASSOCIATED" => sta'.femBssid = sta.femBssid /\ sta.m_state = "ASSOCIATED"
      BY <1>1
    <3> QED
      BY <1>1, <2>3, <3>5, <3>8, <3>10, <3>11, ApAssoc
  <2> QED
    BY <2>2, <2>3
<1> QED
  BY <1>3, <1>4, SMTT(30) DEF Transmit, ApReceive, ap

LEMMA PowerSaveSteady ==
  ASSUME NEW s \in StationType, NEW enable \in BOOLEAN, SetPowerSaveMode(s, enable),
         Orderly(staQueue)
  PROVE  /\ sta'.femBssid = s.femBssid /\ sta'.m_state = s.m_state
         /\ Orderly(staQueue')
<1>1. sta'.femBssid = s.femBssid /\ sta'.m_state = s.m_state
  BY DEF SetPowerSaveMode, Retry, StationType
<1>2. Frame("data", s.femBssid) \in Frames /\ Frame("data", s.femBssid).air = "queued"
  BY FrameQueued DEF StationType
<1>3. staQueue' = staQueue \/ staQueue' = Enqueue(staQueue, Frame("data", s.femBssid))
  BY DEF SetPowerSaveMode
<1> QED
  BY <1>1, <1>2, <1>3, EnqueueOrderly

\* Setting the mode has nothing to do with the association.
LEMMA SetPowerSaveModeAssoc ==
  ASSUME AssocInv, BInv', NEW s \in StationType, NEW enable \in BOOLEAN,
         s.m_state = sta.m_state, s.femBssid = sta.femBssid, SetPowerSaveMode(s, enable),
         UNCHANGED <<world, responses, ap, gaveUp>>
  PROVE  AssocInv'
<1>1. sta'.femBssid = sta.femBssid /\ sta'.m_state = sta.m_state /\ Orderly(staQueue')
  BY PowerSaveSteady DEF AssocInv
<1>2. Accepted'
  BY <1>1 DEF AssocInv, Accepted, Aps, ap
<1>3. \A a \in Aps' : Consistent(a)'
  BY DEF AssocInv, Consistent, Aps, ap
<1> QED
  BY <1>1, <1>2, <1>3 DEF AssocInv, Aps, ap

LEMMA AckAssoc ==
  ASSUME AssocInv, BInv', NEW i \in DOMAIN staQueue, GotAck(i)
  PROVE  AssocInv'
<1>1. /\ staQueue[i].air = "received" /\ staQueue' = SeqExt!RemoveAt(staQueue, i)
      /\ sta' = Acked(sta, staQueue[i]) /\ UNCHANGED <<world, responses, ap, gaveUp>>
  BY DEF GotAck
<1>2. Orderly(staQueue) /\ sta \in StationType
  BY DEF AssocInv, BInv, Sound
<1>3. Orderly(staQueue')
  <2>1. i \in 1..Len(staQueue) /\ staQueue[i].air # "queued"
    BY <1>1, <1>2 DEF Orderly
  <2> QED
    BY <1>1, <1>2, <2>1, RemoveOrderly
<1>4. sta'.m_state = sta.m_state /\ sta'.femBssid = sta.femBssid
  BY <1>1, <1>2 DEF Acked, StationType
<1>5. Accepted'
  BY <1>1, <1>4 DEF AssocInv, Accepted, Aps, ap
<1>6. \A a \in Aps' : Consistent(a)'
  BY <1>1 DEF AssocInv, Consistent, Aps, ap
<1> QED
  BY <1>1, <1>3, <1>5, <1>6 DEF AssocInv, Aps, ap

LEMMA AssocStep ==
  ASSUME ApsNamed, ApsDecided, AssocInv, BInv', Next
  PROVE  AssocInv'
<1>1. BInv /\ Orderly(staQueue) /\ sta \in StationType
  BY DEF AssocInv, BInv, Sound
<1>2. CASE UserStep
  <2>1. UNCHANGED world
    BY <1>2 DEF UserStep
  <2>2. ASSUME NEW enable \in BOOLEAN, UserSetsPowerSaveMode(enable)
        PROVE  AssocInv'
    <3>1. SetPowerSaveMode(sta, enable) /\ UNCHANGED <<world, responses, ap, gaveUp>>
      BY <2>1, <2>2 DEF UserSetsPowerSaveMode
    <3> QED
      BY <1>1, <3>1, SetPowerSaveModeAssoc
  <2> QED
    BY <1>1, <1>2, <2>1, <2>2, UserAside, AsideAssoc DEF UserStep
<1>3. CASE TimerStep
  <2>1. ASSUME NEW enable \in BOOLEAN, PmModeSwitchTimeout(enable)
        PROVE  AssocInv'
    <3> DEFINE s == [sta EXCEPT !.retries[enable] = @ - 1]
               r == [sta.retries EXCEPT ![enable] = sta.retries[enable] - 1]
    <3>1. SetPowerSaveMode(s, enable) /\ UNCHANGED <<world, responses, ap, gaveUp>>
      BY <2>1 DEF PmModeSwitchTimeout
    <3>2. r \in [BOOLEAN -> Int]
      BY <1>1, RetriesInt, RetriesSet DEF StationType
    <3> HIDE DEF r
    <3>3. [sta EXCEPT !.retries = r] \in StationType
      BY <1>1, <3>2 DEF StationType
    <3>4. s = [sta EXCEPT !.retries = r] /\ s.m_state = sta.m_state /\ s.femBssid = sta.femBssid
      BY <1>1 DEF r, StationType
    <3> HIDE DEF s
    <3> QED
      BY <3>1, <3>3, <3>4, SetPowerSaveModeAssoc
  <2> QED
    BY <1>1, <1>3, <2>1, TimerAside, AsideAssoc DEF TimerStep
<1>4. CASE MediumStep
  BY <1>1, <1>4, DroppedAssoc, ResponseAssoc, TransmitAssoc, AckAssoc, MediumAside, AsideAssoc
  DEF MediumStep
<1> QED
  BY <1>2, <1>3, <1>4 DEF Next

\* Station and access point agree on the association once responses are delivered,
\* whichever frames and acknowledgements get lost.
THEOREM AssociationsAgree ==
  ASSUME ApsNamed, ApsDecided PROVE Spec => []AssociationAgreed
<1>1. Init => AssocInv
  <2> SUFFICES ASSUME Init PROVE AssocInv
    OBVIOUS
  <2>1. BInv
    BY BssInit
  <2>2. /\ staQueue = <<>> /\ responses = [a \in Aps |-> <<>>] /\ sta = StartScanning(Station)
        /\ apState = [a \in Aps |-> "BRAND_NEW"]
    BY DEF Init
  <2>3. Orderly(staQueue) /\ \A a \in Aps : Consistent(a)
    BY <2>2 DEF Orderly, OneInAir, Consistent
  <2>4. sta.m_state = "SCANNING"
    BY <2>2 DEF StartScanning, Station
  <2>5. apState \in [Aps -> ApStates] /\ DOMAIN responses = Aps
    BY <2>2 DEF ApStates
  <2> QED
    BY <2>1, <2>3, <2>4, <2>5 DEF AssocInv, Accepted
<1>2. AssocInv /\ BInv' /\ [Next]_vars => AssocInv'
  <2> SUFFICES ASSUME AssocInv, BInv', [Next]_vars PROVE AssocInv'
    OBVIOUS
  <2>1. CASE UNCHANGED vars
    BY <2>1 DEF vars, queues, ap, history, AssocInv, Consistent, Accepted, Aps
  <2> QED
    BY <2>1, AssocStep
<1>3. AssocInv => AssociationAgreed
  <2> SUFFICES ASSUME AssocInv, sta.m_state = "ASSOCIATED", responses[sta.femBssid] = <<>>
               PROVE  apState[sta.femBssid] = "GOT_ASSOC_TX_OK" \/ sta.femBssid \in gaveUp
    BY DEF AssociationAgreed
  <2>1. /\ Consistent(sta.femBssid) /\ world.accepts[sta.femBssid] = {TRUE}
        /\ apState[sta.femBssid] \in ApStates /\ apState[sta.femBssid] # "BRAND_NEW"
    BY DEF AssocInv, Accepted
  <2> QED
    BY <2>1 DEF Consistent, ApStates
<1> QED
  BY <1>1, <1>2, <1>3, BssInvariant, PTL DEF Spec

-----------------------------------------------------------------------------
(* The types of the station part, which the run checks of both parts at once. *)

\* A station knows APs of its own world only, and SetPowerSaveMode was scheduled no
\* more often than the bound says.
Known(s) ==
    /\ {s.bssid, s.femBssid, s.m_aid} \subseteq Aps \cup {NoAp} /\ s.apList \subseteq Aps
    /\ s.retries \in [BOOLEAN -> 0..MaxRetries]

\* The inductive invariant.
KnownInv == BInv /\ Known(sta) /\ apState \in [Aps -> ApStates]

LEMMA RetriesKept ==
  ASSUME NEW S, NEW f \in [BOOLEAN -> S], NEW e \in BOOLEAN, NEW n \in S
  PROVE  [f EXCEPT ![e] = n] \in [BOOLEAN -> S] /\ f[e] \in S
  BY Zenon

\* What knows the same is known as well.
LEMMA KnownAlike ==
  ASSUME NEW s, NEW t, Known(s), t.bssid = s.bssid, t.femBssid = s.femBssid, t.m_aid = s.m_aid,
         t.apList \subseteq s.apList, t.retries = s.retries
  PROVE  Known(t)
  BY DEF Known

LEMMA StartScanningKnown ==
  ASSUME NEW s \in StationType, Known(s)
  PROVE  Known(StartScanning(s))
<1> DEFINE t == StartScanning(s)
<1> SUFFICES Known(t)
  OBVIOUS
<1>1. /\ t.bssid = s.bssid /\ t.femBssid = s.femBssid /\ t.m_aid = s.m_aid
      /\ t.apList = s.apList /\ t.retries = s.retries
  BY DEF StartScanning, StationType
<1> HIDE DEF t
<1> QED
  BY <1>1, KnownAlike

LEMMA LeaveKnown ==
  ASSUME NEW s \in StationType, Known(s), Leave(s)
  PROVE  Known(sta')
<1> DEFINE t == [s EXCEPT !.bssid = NoAp, !.m_aid = NoAp, !.m_assocRequestEvent = FALSE]
<1>1. /\ t \in StationType /\ t.bssid = NoAp /\ t.m_aid = NoAp /\ t.femBssid = s.femBssid
      /\ t.apList = s.apList /\ t.retries = s.retries
  BY DEF StationType, ApIds
<1>2. sta' = StartScanning(t)
  BY DEF Leave, Disassociated
<1> HIDE DEF t
<1>3. Known(t)
  BY <1>1 DEF Known
<1> QED
  BY <1>1, <1>2, <1>3, StartScanningKnown

LEMMA ScanningTimeoutKnown ==
  ASSUME NEW s \in StationType, Known(s), ScanningTimeout(s)
  PROVE  Known(sta')
<1>1. CASE s.apList = {}
  BY <1>1, StartScanningKnown DEF ScanningTimeout
<1>2. CASE s.apList # {}
  <2>1. PICK a \in s.apList : sta' = Attempt(s, a)
    BY <1>2 DEF ScanningTimeout
  <2>2. /\ sta'.bssid = a /\ sta'.femBssid = s.femBssid /\ sta'.m_aid = s.m_aid
        /\ sta'.apList = s.apList \ {a} /\ sta'.retries = s.retries
    BY <2>1 DEF Attempt, StationType
  <2> QED
    BY <2>2 DEF Known
<1> QED
  BY <1>1, <1>2

LEMMA ReceivedKnown ==
  ASSUME NEW s \in StationType, Known(s)
  PROVE  Known(Received(s))
<1> DEFINE t == Received(s)
<1> SUFFICES Known(t)
  OBVIOUS
<1>1. /\ t.bssid = s.bssid /\ t.femBssid = s.femBssid /\ t.m_aid = s.m_aid
      /\ t.apList = s.apList /\ t.retries = s.retries
  BY DEF Received, StationType
<1> HIDE DEF t
<1> QED
  BY <1>1, KnownAlike

LEMMA NotifyApInfoKnown ==
  ASSUME NEW s \in StationType, Known(s), NEW a \in Aps
  PROVE  Known(NotifyApInfo(s, a))
<1> DEFINE t == NotifyApInfo(s, a)
<1> SUFFICES Known(t)
  OBVIOUS
<1>1. /\ t.bssid = s.bssid /\ t.femBssid = s.femBssid /\ t.m_aid = s.m_aid
      /\ t.apList \subseteq s.apList \cup {a} /\ t.retries = s.retries
  BY DEF NotifyApInfo, StationType
<1> HIDE DEF t
<1> QED
  BY <1>1 DEF Known

\* Only the response of an AP in the world is taken, and the mode the user chose is
\* entered anew while that may still be scheduled.
LEMMA ResponseKnown ==
  ASSUME MaxRetries \in Nat, NEW s \in StationType, Known(s), NEW a \in Aps, NEW success,
         s.retries[TRUE] < MaxRetries
  PROVE  Known(ReceiveAssocResp(s, a, success))
<1> DEFINE asked == [s EXCEPT !.m_assocRequestEvent = FALSE]
           done == [asked EXCEPT !.m_aid = a, !.femBssid = a, !.m_state = "ASSOCIATED"]
<1>1. CASE ~AwaitsResponse(s)
  BY <1>1 DEF ReceiveAssocResp
<1>2. CASE AwaitsResponse(s) /\ success
  <2> DEFINE n == s.retries[TRUE] + 1
             r == [s.retries EXCEPT ![TRUE] = n]
             t == SetPmModeAfterAssociation(done)
  <2>1. /\ done.bssid = s.bssid /\ done.femBssid = a /\ done.m_aid = a /\ done.apList = s.apList
        /\ done.retries = s.retries /\ done.pmMode = s.pmMode
    BY DEF StationType
  <2>2. s.retries[TRUE] \in 0..MaxRetries
    BY RetriesKept DEF Known
  <2>3. n \in 0..MaxRetries
    <3>1. \A k \in 0..MaxRetries : k < MaxRetries => k + 1 \in 0..MaxRetries
      OBVIOUS
    <3> QED
      BY <2>2, <3>1, Zenon
  <2>4. r \in [BOOLEAN -> 0..MaxRetries]
    BY <2>3, RetriesKept DEF Known
  <2>5. [s.retries EXCEPT ![TRUE] = @] = s.retries
    BY DEF Known
  <2>6. /\ t.bssid = done.bssid /\ t.femBssid = a /\ t.m_aid = a /\ t.apList = s.apList
        /\ t.retries \in {s.retries, r}
    BY <2>1, <2>5 DEF SetPmModeAfterAssociation, StationType
  <2>7. ReceiveAssocResp(s, a, success) = t
    BY <1>2 DEF ReceiveAssocResp
  <2> HIDE DEF r, n, t, done
  <2> QED
    BY <2>1, <2>4, <2>6, <2>7 DEF Known
<1>3. CASE AwaitsResponse(s) /\ ~success
  <2>1. /\ asked \in StationType /\ asked.bssid = s.bssid /\ asked.femBssid = s.femBssid
        /\ asked.m_aid = s.m_aid /\ asked.apList = s.apList /\ asked.retries = s.retries
    BY DEF StationType
  <2>2. ReceiveAssocResp(s, a, success) = StartScanning(asked)
    BY <1>3 DEF ReceiveAssocResp
  <2> HIDE DEF asked
  <2>3. Known(asked)
    BY <2>1, KnownAlike
  <2> QED
    BY <2>1, <2>2, <2>3, StartScanningKnown
<1> QED
  BY <1>1, <1>2, <1>3

LEMMA PowerSaveKnown ==
  ASSUME MaxRetries \in Nat, NEW s \in StationType, Known(s), NEW enable \in BOOLEAN,
         s.retries[enable] < MaxRetries, SetPowerSaveMode(s, enable)
  PROVE  Known(sta')
<1> DEFINE n == s.retries[enable] + 1
           r == [s.retries EXCEPT ![enable] = n]
<1>1. s.retries[enable] \in 0..MaxRetries
  BY RetriesKept DEF Known
<1>2. n \in 0..MaxRetries
  BY <1>1
<1>3. r \in [BOOLEAN -> 0..MaxRetries]
  BY <1>2, RetriesKept DEF Known
<1>4. \/ sta' = [s EXCEPT !.pmMode = Reached(enable)]
      \/ sta' = s
      \/ sta' = [s EXCEPT !.pmMode = Switching(enable), !.retries = r]
  BY DEF SetPowerSaveMode, Retry, StationType
<1> HIDE DEF r, n
<1>5. /\ sta'.bssid = s.bssid /\ sta'.femBssid = s.femBssid /\ sta'.m_aid = s.m_aid
      /\ sta'.apList = s.apList /\ sta'.retries \in {s.retries, r}
  BY <1>4 DEF StationType
<1> QED
  BY <1>3, <1>5 DEF Known

LEMMA UserStepKnown ==
  ASSUME MaxRetries \in Nat, KnownInv, UserStep
  PROVE  Known(sta)' /\ (apState \in [Aps -> ApStates])'
<1>1. sta \in StationType /\ Known(sta) /\ UNCHANGED Aps
  BY DEF KnownInv, BInv, Sound, UserStep, Aps
<1>2. SUFFICES Known(sta')
  <2>1. UNCHANGED apState
    BY DEF UserStep, SetActiveProbing, PhyCapabilitiesChanged, NotifyChannelSwitching,
           UserSetsPowerSaveMode, EnqueuePacket, ap
  <2> QED
    BY <1>1, <2>1 DEF KnownInv, Known
<1>3. ASSUME NEW enable \in BOOLEAN, SetActiveProbing(enable)
      PROVE  Known(sta')
  <2> DEFINE s == [sta EXCEPT !.m_activeProbing = enable]
  <2>1. /\ s \in StationType /\ s.bssid = sta.bssid /\ s.femBssid = sta.femBssid /\ s.m_aid = sta.m_aid
        /\ s.apList = sta.apList /\ s.retries = sta.retries
    BY <1>1 DEF StationType
  <2>2. sta' = StartScanning(s) \/ sta' = s
    BY <1>3 DEF SetActiveProbing
  <2> HIDE DEF s
  <2>3. Known(s)
    BY <1>1, <2>1, KnownAlike
  <2> QED
    BY <2>1, <2>2, <2>3, StartScanningKnown
<1>4. CASE PhyCapabilitiesChanged
  <2>1. /\ sta'.bssid = sta.bssid /\ sta'.femBssid = sta.femBssid /\ sta'.m_aid = sta.m_aid
        /\ sta'.apList = sta.apList /\ sta'.retries = sta.retries
    BY <1>1, <1>4 DEF PhyCapabilitiesChanged, StationType
  <2> QED
    BY <1>1, <2>1, KnownAlike
<1>5. CASE NotifyChannelSwitching
  BY <1>1, <1>5, LeaveKnown DEF NotifyChannelSwitching
<1>6. ASSUME NEW enable \in BOOLEAN, UserSetsPowerSaveMode(enable)
      PROVE  Known(sta')
  BY <1>1, <1>6, PowerSaveKnown DEF UserSetsPowerSaveMode
<1>7. CASE EnqueuePacket
  BY <1>1, <1>7 DEF EnqueuePacket
<1> QED
  BY <1>3, <1>4, <1>5, <1>6, <1>7 DEF UserStep

\* What AP a makes of a station is one of its states.
LEMMA ApSaysKnown ==
  ASSUME KnownInv, NEW a, NEW state \in ApStates, apState' = [apState EXCEPT ![a] = state]
  PROVE  apState' \in [Aps -> ApStates]
  BY DEF KnownInv

LEMMA MediumStepKnown ==
  ASSUME MaxRetries \in Nat, KnownInv, MediumStep
  PROVE  Known(sta)' /\ (apState \in [Aps -> ApStates])'
<1>1. sta \in StationType /\ Known(sta) /\ UNCHANGED Aps /\ apState \in [Aps -> ApStates]
  BY DEF KnownInv, BInv, Sound, MediumStep, ReceiveBeacon, ReceiveProbeResp, ResponseReceived,
         ResponseDropped, Transmit, GotAck, MissedAck, Aps
<1>2. SUFFICES Known(sta') /\ apState' \in [Aps -> ApStates]
  BY <1>1 DEF Known
<1>3. ASSUME NEW a \in Aps, NEW s \in StationType, Known(s), sta' = Received(NotifyApInfo(s, a))
      PROVE  Known(sta')
  <2>1. NotifyApInfo(s, a) \in StationType
    <3>1. s.apList \cup {a} \in SUBSET ApIds
      BY <1>1 DEF KnownInv, BInv, StationType, ApIds, Aps
    <3> QED
      BY <3>1 DEF NotifyApInfo, StationType
  <2> QED
    BY <1>3, <2>1, NotifyApInfoKnown, ReceivedKnown
<1>4. ASSUME NEW a \in Aps, ReceiveBeacon(a)
      PROVE  Known(sta') /\ apState' \in [Aps -> ApStates]
  <2>1. apState' = apState
    BY <1>4 DEF ReceiveBeacon, ap
  <2>2. CASE sta.m_state = "ASSOCIATED"
    <3> DEFINE s == [sta EXCEPT !.m_beaconWatchdog = TRUE]
    <3>1. /\ s \in StationType /\ s.bssid = sta.bssid /\ s.femBssid = sta.femBssid
          /\ s.m_aid = sta.m_aid /\ s.apList = sta.apList /\ s.retries = sta.retries
      BY <1>1 DEF StationType
    <3>2. sta' = Received(s)
      BY <1>4, <2>2 DEF ReceiveBeacon
    <3> HIDE DEF s
    <3> QED
      BY <1>1, <2>1, <3>1, <3>2, KnownAlike, ReceivedKnown
  <2>3. CASE sta.m_state # "ASSOCIATED"
    BY <1>1, <1>3, <1>4, <2>1, <2>3 DEF ReceiveBeacon
  <2> QED
    BY <2>2, <2>3
<1>5. ASSUME NEW a \in Aps, ReceiveProbeResp(a)
      PROVE  Known(sta') /\ apState' \in [Aps -> ApStates]
  BY <1>1, <1>3, <1>5 DEF ReceiveProbeResp, ap
<1>6. ASSUME NEW a \in Aps, ResponseReceived(a)
      PROVE  Known(sta') /\ apState' \in [Aps -> ApStates]
  <2> DEFINE r == Head(responses[a])
             s == IF r.heard THEN sta ELSE ReceiveAssocResp(sta, a, r.success)
  <2>1. sta' = Received(s) /\ sta.retries[TRUE] < MaxRetries
    BY <1>6 DEF ResponseReceived
  <2>2. apState' = [apState EXCEPT ![a] = TxOk(a)] \/ apState' = apState
    BY <1>6 DEF ResponseReceived
  <2>3. TxOk(a) \in ApStates
    BY <1>1 DEF TxOk, ApStates
  <2> HIDE DEF r
  <2>4. s \in StationType
    <3>1. a \in ApIds /\ overlapped \in BOOLEAN /\ Sound(sta, overlapped)
      BY DEF KnownInv, BInv, ApIds, Aps
    <3>2. Sound(ReceiveAssocResp(sta, a, r.success),
                overlapped \/ (AwaitsResponse(sta) /\ ~r.success /\ Overlaps(sta)))
      BY <3>1, ResponseSound
    <3> QED
      BY <1>1, <3>2 DEF Sound
  <2>5. Known(s)
    BY <1>1, <2>1, ResponseKnown
  <2> HIDE DEF s
  <2>6. Known(sta')
    BY <2>1, <2>4, <2>5, ReceivedKnown
  <2> QED
    BY <1>1, <2>2, <2>3, <2>6, ApSaysKnown
<1>7. ASSUME NEW a \in Aps, ResponseDropped(a)
      PROVE  Known(sta') /\ apState' \in [Aps -> ApStates]
  <2>1. /\ sta' = sta
        /\ apState' = [apState EXCEPT ![a] = IF apState[a] = "WAIT_ASSOC_TX_OK" THEN "DISASSOC" ELSE apState[a]]
    BY <1>1, <1>7 DEF ResponseDropped
  <2>2. (IF apState[a] = "WAIT_ASSOC_TX_OK" THEN "DISASSOC" ELSE apState[a]) \in ApStates
    BY <1>1 DEF ApStates
  <2> QED
    BY <1>1, <2>1, <2>2, ApSaysKnown
<1>8. ASSUME NEW i \in DOMAIN staQueue, Transmit(i)
      PROVE  Known(sta') /\ apState' \in [Aps -> ApStates]
  <2>1. sta' = sta
    BY <1>8 DEF Transmit
  <2>2. \/ apState' = apState
        \/ \E a, accepted :
              apState' = [apState EXCEPT ![a] = IF accepted THEN "WAIT_ASSOC_TX_OK" ELSE "DISASSOC"]
    BY <1>8 DEF Transmit, ap, ApReceive, ReceiveAssocRequest
  <2>3. \A accepted : (IF accepted THEN "WAIT_ASSOC_TX_OK" ELSE "DISASSOC") \in ApStates
    BY DEF ApStates
  <2> QED
    BY <1>1, <2>1, <2>2, <2>3, ApSaysKnown
<1>9. ASSUME NEW i \in DOMAIN staQueue, GotAck(i)
      PROVE  Known(sta') /\ apState' \in [Aps -> ApStates]
  <2>1. sta' = Acked(sta, staQueue[i]) /\ apState' = apState
    BY <1>9 DEF GotAck, ap
  <2>2. /\ sta'.bssid = sta.bssid /\ sta'.femBssid = sta.femBssid /\ sta'.m_aid = sta.m_aid
        /\ sta'.apList = sta.apList /\ sta'.retries = sta.retries
    BY <1>1, <2>1 DEF Acked, StationType
  <2> QED
    BY <1>1, <2>1, <2>2, KnownAlike
<1>10. ASSUME NEW i \in DOMAIN staQueue, MissedAck(i)
       PROVE  Known(sta') /\ apState' \in [Aps -> ApStates]
  BY <1>1, <1>10 DEF MissedAck, ap
<1> QED
  BY <1>4, <1>5, <1>6, <1>7, <1>8, <1>9, <1>10 DEF MediumStep

LEMMA TimerStepKnown ==
  ASSUME MaxRetries \in Nat, KnownInv, TimerStep
  PROVE  Known(sta)' /\ (apState \in [Aps -> ApStates])'
<1>1. /\ sta \in StationType /\ Known(sta) /\ UNCHANGED <<Aps, apState>>
      /\ apState \in [Aps -> ApStates]
  BY DEF KnownInv, BInv, Sound, TimerStep, EndScanning, AssocRequestTimeout, MissedBeacons,
         ReceptionEnds, DisassociatedLater, PmModeSwitchTimeout, ap, Aps
<1>2. SUFFICES Known(sta')
  BY <1>1 DEF Known
<1>3. ASSUME NEW s, \/ sta.endNow > 0 /\ s = [sta EXCEPT !.endNow = @ - 1]
                    \/ s = [sta EXCEPT !.scanEnd = FALSE]
                    \/ s = [sta EXCEPT !.m_beaconWatchdog = FALSE]
                    \/ s = [sta EXCEPT !.leaving = "no"]
      PROVE  s \in StationType /\ Known(s)
  <2>1. /\ s \in StationType /\ s.bssid = sta.bssid /\ s.femBssid = sta.femBssid
        /\ s.m_aid = sta.m_aid /\ s.apList = sta.apList /\ s.retries = sta.retries
    <3>1. CASE sta.endNow > 0 /\ s = [sta EXCEPT !.endNow = @ - 1]
      <4>1. sta.endNow - 1 \in Nat
        BY <1>1, <3>1 DEF StationType
      <4> QED
        BY <1>1, <3>1, <4>1 DEF StationType
    <3>2. CASE ~(sta.endNow > 0 /\ s = [sta EXCEPT !.endNow = @ - 1])
      BY <1>1, <1>3, <3>2, ZenonT(60) DEF StationType
    <3> QED
      BY <3>1, <3>2
  <2> QED
    BY <1>1, <2>1, KnownAlike
<1>4. CASE EndScanning
  BY <1>3, <1>4, ScanningTimeoutKnown DEF EndScanning
<1>5. CASE AssocRequestTimeout
  <2>1. /\ sta'.bssid = sta.bssid /\ sta'.femBssid = sta.femBssid /\ sta'.m_aid = sta.m_aid
        /\ sta'.apList = sta.apList /\ sta'.retries = sta.retries
    BY <1>1, <1>5 DEF AssocRequestTimeout, StationType
  <2> QED
    BY <1>1, <2>1, KnownAlike
<1>6. CASE MissedBeacons
  <2> DEFINE s == [sta EXCEPT !.m_beaconWatchdog = FALSE]
  <2>1. s \in StationType /\ Known(s)
    BY <1>3
  <2>2. Leave(s) \/ sta' = [s EXCEPT !.leaving = "receiving"]
    BY <1>6 DEF MissedBeacons
  <2> HIDE DEF s
  <2>3. CASE sta' = [s EXCEPT !.leaving = "receiving"]
    <3>1. /\ sta'.bssid = s.bssid /\ sta'.femBssid = s.femBssid /\ sta'.m_aid = s.m_aid
          /\ sta'.apList = s.apList /\ sta'.retries = s.retries
      BY <2>1, <2>3 DEF StationType
    <3> QED
      BY <2>1, <3>1, KnownAlike
  <2> QED
    BY <2>1, <2>2, <2>3, LeaveKnown
<1>7. CASE ReceptionEnds
  <2>1. /\ sta'.bssid = sta.bssid /\ sta'.femBssid = sta.femBssid /\ sta'.m_aid = sta.m_aid
        /\ sta'.apList = sta.apList /\ sta'.retries = sta.retries
    BY <1>1, <1>7 DEF ReceptionEnds, StationType
  <2> QED
    BY <1>1, <2>1, KnownAlike
<1>8. CASE DisassociatedLater
  BY <1>3, <1>8, LeaveKnown DEF DisassociatedLater
<1>9. ASSUME NEW enable \in BOOLEAN, PmModeSwitchTimeout(enable)
      PROVE  Known(sta')
  <2> DEFINE n == sta.retries[enable] - 1
             r == [sta.retries EXCEPT ![enable] = n]
             s == [sta EXCEPT !.retries = r]
  <2>1. sta.retries[enable] \in 0..MaxRetries /\ sta.retries[enable] > 0
    BY <1>1, <1>9, RetriesKept DEF Known, PmModeSwitchTimeout
  <2>2. n \in 0..MaxRetries /\ n < MaxRetries /\ n \in Int
    BY <2>1
  <2>3. SetPowerSaveMode(s, enable)
    BY <1>9 DEF PmModeSwitchTimeout
  <2> HIDE DEF n
  <2>4. r \in [BOOLEAN -> 0..MaxRetries] /\ r \in [BOOLEAN -> Int] /\ r[enable] = n
    BY <1>1, <2>2, RetriesKept DEF Known, StationType
  <2> HIDE DEF r
  <2>5. /\ s \in StationType /\ s.bssid = sta.bssid /\ s.femBssid = sta.femBssid
        /\ s.m_aid = sta.m_aid /\ s.apList = sta.apList /\ s.retries = r
    BY <1>1, <2>4 DEF StationType
  <2> HIDE DEF s
  <2>6. Known(s)
    BY <1>1, <2>4, <2>5 DEF Known
  <2>7. s.retries[enable] < MaxRetries
    BY <2>2, <2>4, <2>5
  <2> QED
    BY <2>3, <2>5, <2>6, <2>7, PowerSaveKnown
<1> QED
  BY <1>4, <1>5, <1>6, <1>7, <1>8, <1>9 DEF TimerStep

LEMMA InitKnown ==
  ASSUME MaxRetries \in Nat, Init
  PROVE  KnownInv
<1> DEFINE none == [enable \in BOOLEAN |-> 0]
<1>1. none \in [BOOLEAN -> 0..MaxRetries]
  <2>1. 0 \in 0..MaxRetries
    OBVIOUS
  <2> QED
    BY <2>1, Zenon
<1> HIDE DEF none
<1>2. /\ Station.bssid = NoAp /\ Station.femBssid = NoAp /\ Station.m_aid = NoAp
      /\ Station.apList = {} /\ Station.retries = none
  BY DEF Station, none
<1>3. LET s == StartScanning(Station)
      IN  /\ s.bssid = Station.bssid /\ s.femBssid = Station.femBssid /\ s.m_aid = Station.m_aid
          /\ s.apList = Station.apList /\ s.retries = Station.retries
  BY DEF StartScanning, Station
<1>4. Known(Station)
  BY <1>1, <1>2 DEF Known
<1>5. Known(StartScanning(Station))
  BY <1>3, <1>4, KnownAlike
<1> QED
  BY <1>5, BssInit DEF Init, KnownInv, ApStates

\* A station holds on to access points of its world, and repeats SetPowerSaveMode a
\* bounded number of times, whatever is received in whichever state.
THEOREM BssTypes == ASSUME ApsNamed, MaxRetries \in Nat PROVE Spec => []TypeOK
<1>1. KnownInv /\ [Next]_vars => KnownInv'
  <2> SUFFICES ASSUME KnownInv, [Next]_vars PROVE KnownInv'
    OBVIOUS
  <2>1. CASE UNCHANGED vars
    BY <2>1 DEF vars, ap, history, KnownInv, BInv, Known, Aps
  <2>2. CASE Next
    <3>1. BInv'
      BY <2>2, UserStepSound, MediumStepSound, TimerStepSound DEF KnownInv, Next
    <3> QED
      BY <2>2, <3>1, UserStepKnown, MediumStepKnown, TimerStepKnown DEF KnownInv, Next
  <2> QED
    BY <2>1, <2>2
<1>2. KnownInv /\ isInPsMode \in [Aps -> BOOLEAN] => TypeOK
  <2> SUFFICES ASSUME KnownInv, isInPsMode \in [Aps -> BOOLEAN] PROVE TypeOK
    OBVIOUS
  <2>1. sta \in StationType
    BY DEF KnownInv, BInv, Sound
  <2>2. /\ sta.m_state \in States /\ sta.leaving \in {"no", "receiving", "due"} /\ sta.pmMode \in PmModes
        /\ sta.endNow \in Nat /\ {sta.scanEnd, sta.m_assocRequestEvent, sta.m_beaconWatchdog} \subseteq BOOLEAN
    BY <2>1 DEF StationType
  <2> QED
    BY <2>2 DEF KnownInv, Known, TypeOK
<1>3. ModeInv => isInPsMode \in [Aps -> BOOLEAN]
  BY DEF ModeInv
<1> QED
  BY <1>1, <1>2, <1>3, InitKnown, ModeInvariant, PTL DEF Spec

\* The run Station interleaves the steps of both parts: what is a theorem of either is
\* one of the run.
THEOREM StationParts == StationSpec => TwtSpec /\ Spec
<1>1. StationInit => TwtInit /\ Init
  BY DEF StationInit
<1>2. [StationNext]_stationVars => [TwtNext]_twtVars /\ [Next]_vars
  BY DEF StationNext, InTwt, InBss, stationVars
<1> QED
  BY <1>1, <1>2, PTL DEF StationSpec, TwtSpec, Spec

\* Both parts keep their types, and events of TwtStation stay in order of time.
THEOREM StationTypes ==
  ASSUME ApsNamed, MaxRetries \in Nat PROVE StationSpec => []StationTypeOK
  BY StationParts, TwtTypes, BssTypes, PTL DEF StationTypeOK
=============================================================================
