----------------------- MODULE DefaultSimulatorProofs -----------------------
(***************************************************************************)
(* Proofs about DefaultSimulator, for every choice of delays, contexts and *)
(* number of events.                                                       *)
(***************************************************************************)
EXTENDS DefaultSimulator, FiniteSetTheorems, SequenceTheorems, TLAPS

\* What std::list::erase does: the elements before and after position i stay, in
\* their order.
LEMMA RemoveAtSeq ==
  ASSUME NEW S, NEW s \in Seq(S), NEW i \in 1..Len(s)
  PROVE  LET t == SubSeq(s, 1, i - 1) \o SubSeq(s, i + 1, Len(s))
         IN  /\ t \in Seq(S)
             /\ Len(t) = Len(s) - 1
             /\ \A k \in 1..Len(t) : t[k] = s[IF k < i THEN k ELSE k + 1]
<1> DEFINE a == SubSeq(s, 1, i - 1)
           b == SubSeq(s, i + 1, Len(s))
<1>1. a \in Seq(S) /\ Len(a) = i - 1 /\ \A k \in 1..i - 1 : a[k] = s[k]
  OBVIOUS
<1>2. b \in Seq(S) /\ Len(b) = Len(s) - i /\ \A k \in 1..Len(s) - i : b[k] = s[k + i]
  OBVIOUS
<1>. HIDE DEF a, b
<1>3. Len(a \o b) = Len(s) - 1 /\ a \o b \in Seq(S)
  <2>1. a \o b \in Seq(S) /\ Len(a \o b) = Len(a) + Len(b)
    BY <1>1, <1>2, ConcatProperties
  <2>2. Len(s) \in Nat
    OBVIOUS
  <2>. QED
    BY <1>1, <1>2, <2>1, <2>2
<1>4. ASSUME NEW k \in 1..Len(a \o b)
      PROVE  (a \o b)[k] = s[IF k < i THEN k ELSE k + 1]
  <2>1. k \in 1..Len(a) + Len(b)
    BY <1>1, <1>2, <1>3
  <2>2. (a \o b)[k] = IF k <= Len(a) THEN a[k] ELSE b[k - Len(a)]
    BY <1>1, <1>2, <2>1, ConcatProperties
  <2>3. CASE k < i
    <3>1. k <= Len(a) /\ k \in 1..i - 1
      BY <1>1, <2>1, <2>3
    <3>. QED
      BY <1>1, <2>2, <2>3, <3>1
  <2>4. CASE ~(k < i)
    <3>1. ~(k <= Len(a)) /\ k - Len(a) \in 1..Len(s) - i /\ k - Len(a) + i = k + 1
      BY <1>1, <1>2, <2>1, <2>4
    <3>. QED
      BY <1>2, <2>2, <2>4, <3>1
  <2>. QED
    BY <2>3, <2>4
<1>. QED
  BY <1>3, <1>4 DEF a, b

\* The type invariant is inductive: every operation, of user code, of other
\* threads and of the engine, keeps the engine's state well formed.
LEMMA TypeInductive == TypeOK /\ [Next]_vars => TypeOK'
<1> SUFFICES ASSUME TypeOK, [Next]_vars PROVE TypeOK'
  OBVIOUS
<1> USE DelaysAssumption, ForeignDelaysAssumption, UidModulusAssumption,
        MaxEventsAssumption
<1>1. ASSUME NEW d \in Delays \cup {0}, NEW b \in BOOLEAN, DoSchedule(d, b)
      PROVE  TypeOK'
  <2> DEFINE ev == Event(impls, m_currentTs + Clamp(d), m_uid, m_currentContext)
  <2>1. Clamp(d) \in Nat
    BY DEF Clamp
  <2>2. impls \in Impl /\ impls + 1 \in Impl /\ NextUid(m_uid) \in 0..UidModulus - 1
    BY <1>1 DEF TypeOK, DoSchedule, Impl, NextUid
  <2>3. ev \in EventType
    BY <2>1, <2>2 DEF TypeOK, Event, EventType
  <2>. QED
    BY <1>1, <2>2, <2>3 DEF TypeOK, DoSchedule, InsertNew, clock, foreign
<1>2. ASSUME NEW c \in Contexts, NEW d \in ForeignDelays, ScheduleWithContext(c, d)
      PROVE  TypeOK'
  BY <1>2, SMTT(30) DEF TypeOK, ScheduleWithContext, InsertNew, Event, EventType, NextUid,
              clock, foreign, history, Impl
<1>3. CASE ScheduleDestroy
  <2> DEFINE id == Event(impls, m_currentTs, DESTROY, NoContext)
  <2>1. impls \in Impl /\ impls + 1 \in Impl /\ NextUid(m_uid) \in 0..UidModulus - 1
    BY <1>3 DEF TypeOK, ScheduleDestroy, Impl, NextUid
  <2>2. id \in EventType
    BY <2>1 DEF TypeOK, Event, EventType, DESTROY
  <2>. QED
    BY <1>3, <2>1, <2>2 DEF TypeOK, ScheduleDestroy, clock, foreign
<1>4. ASSUME NEW id \in ids, Cancel(id) PROVE TypeOK'
  <2>1. id.impl \in Impl
    BY <1>4 DEF TypeOK, Cancel, IsExpired, NullId, Event, EventType
  <2>. QED
    BY <1>4, <2>1 DEF TypeOK, Cancel, clock, foreign, history
<1>5. ASSUME NEW id \in ids, RemoveDestroy(id) PROVE TypeOK'
  <2>1. m_destroyEvents' \in Seq(EventType)
    BY <1>5, RemoveAtSeq DEF TypeOK, RemoveDestroy
  <2>2. id.impl \in Impl
    <3>1. id # NullId
      BY <1>5 DEF RemoveDestroy, NullId, Event, INVALID, DESTROY
    <3>. QED
      BY <3>1 DEF TypeOK, EventType
  <2>. QED
    BY <1>5, <2>1, <2>2 DEF TypeOK, RemoveDestroy, clock, foreign
<1>6. ASSUME NEW id \in ids, RemoveScheduled(id) PROVE TypeOK'
  <2>1. id.impl \in Impl
    BY <1>6 DEF TypeOK, RemoveScheduled, IsExpired, NullId, Event, EventType
  <2>. QED
    BY <1>6, <2>1 DEF TypeOK, RemoveScheduled, clock, foreign
<1>7. CASE Stop
  BY <1>7 DEF TypeOK, Stop, clock, foreign, history
<1>8. ASSUME NEW c \in Contexts, NEW d \in ForeignDelays,
             ScheduleWithContextForeign(c, d)
      PROVE  TypeOK'
  <2> DEFINE fe == [event |-> impls, context |-> c, timestamp |-> d]
  <2>1. fe \in ForeignType /\ impls + 1 \in Impl
    BY <1>8 DEF TypeOK, ScheduleWithContextForeign, ForeignType, Impl
  <2>2. m_eventsWithContext' \in Seq(ForeignType)
    BY <1>8, <2>1 DEF TypeOK, ScheduleWithContextForeign
  <2>. QED
    BY <1>8, <2>1, <2>2 DEF TypeOK, ScheduleWithContextForeign, clock, history
<1>9. CASE ProcessNothing \/ InsertDone
  BY <1>9 DEF TypeOK, ProcessNothing, InsertDone, ReturnFromProcess, clock, foreign,
              history
<1>10. CASE SwapEventsWithContext
  BY <1>10 DEF TypeOK, SwapEventsWithContext, clock, history
<1>11. CASE InsertEventWithContext
  <2> DEFINE fe == Head(eventsWithContext)
             ev == Event(fe.event, m_currentTs + fe.timestamp, m_uid, fe.context)
  <2>1. fe \in ForeignType /\ eventsWithContext' \in Seq(ForeignType)
    BY <1>11 DEF TypeOK, InsertEventWithContext
  <2>2. ev \in EventType /\ NextUid(m_uid) \in 0..UidModulus - 1
    <3>1. /\ fe.event \in Impl
          /\ fe.context \in Contexts
          /\ fe.timestamp \in Nat
      BY <2>1 DEF ForeignType
    <3>2. m_uid \in 0..UidModulus - 1 /\ m_currentTs + fe.timestamp \in Nat
      BY <3>1 DEF TypeOK
    <3>3. NextUid(m_uid) \in 0..UidModulus - 1
      BY <3>2 DEF NextUid
    <3>. QED
      BY <3>1, <3>2, <3>3 DEF Event, EventType
  <2>. QED
    BY <1>11, <2>1, <2>2 DEF TypeOK, InsertEventWithContext, InsertNew, clock, history
<1>12. CASE ProcessOneEvent
  BY <1>12 DEF TypeOK, ProcessOneEvent, EventType, foreign
<1>13. ASSUME NEW label \in {"process", "idle", "destroy"}, Goto(label)
       PROVE  TypeOK'
  BY <1>13 DEF TypeOK, Goto, clock, foreign, history
<1>14. CASE Run \/ Dispose
  BY <1>14 DEF TypeOK, Run, Dispose, clock, foreign, history
<1>15. CASE DestroyOneEvent
  <2>1. Head(m_destroyEvents) \in EventType /\ m_destroyEvents' \in Seq(EventType)
    BY <1>15 DEF TypeOK, DestroyOneEvent
  <2>. QED
    BY <1>15, <2>1 DEF TypeOK, DestroyOneEvent, EventType, clock, foreign
<1>16. CASE Create
  <2>1. /\ VALID \in 0..UidModulus - 1
        /\ INVALID \in 0..UidModulus - 1
        /\ 0 \in Impl
        /\ <<>> \in Seq(EventType) /\ <<>> \in Seq(ForeignType)
    BY DEF VALID, INVALID, Impl
  <2>2. /\ m_events' \subseteq EventType /\ m_cancel' \subseteq Impl
        /\ stopImpls' \subseteq Impl /\ ids' \subseteq EventType \cup {NullId}
        /\ notified' \subseteq Impl /\ removed' \subseteq Impl
    BY <1>16 DEF Create
  <2>3. /\ m_destroyEvents' \in Seq(EventType)
        /\ m_eventsWithContext' \in Seq(ForeignType)
        /\ eventsWithContext' \in Seq(ForeignType)
    BY <1>16, <2>1 DEF Create
  <2>4. /\ m_stop' \in BOOLEAN /\ m_eventsWithContextEmpty' \in BOOLEAN
        /\ pc' \in {"idle"} /\ caller' \in {"run"}
    BY <1>16 DEF Create
  <2>5. /\ m_uid' \in 0..UidModulus - 1 /\ m_currentUid' \in 0..UidModulus - 1
        /\ m_currentTs' \in Nat /\ m_currentContext' \in Contexts \cup {NoContext}
        /\ m_eventCount' \in Nat /\ m_unscheduledEvents' \in Int /\ impls' \in Impl
    BY <1>16, <2>1 DEF Create
  <2>. QED
    BY <2>2, <2>3, <2>4, <2>5 DEF TypeOK
<1>17. CASE UNCHANGED vars
  BY <1>17 DEF TypeOK, vars, clock, foreign, history
<1>. QED
  BY <1>1, <1>2, <1>3, <1>4, <1>5, <1>6, <1>7, <1>8, <1>9, <1>10, <1>11, <1>12,
     <1>13, <1>14, <1>15, <1>16, <1>17
     DEF Next, UserStep, ForeignStep, EngineStep, Schedule, ScheduleNow, StopAfter,
         NotifyReturns, RunReturns, Destroy, DestroyNotifyReturns

LEMMA InitTypeOK == Init => TypeOK
<1>1. /\ VALID \in 0..UidModulus - 1
      /\ INVALID \in 0..UidModulus - 1
      /\ 0 \in Impl
      /\ <<>> \in Seq(EventType) /\ <<>> \in Seq(ForeignType)
  BY UidModulusAssumption, MaxEventsAssumption DEF VALID, INVALID, Impl
<1>2. ASSUME Init
      PROVE  /\ m_events \subseteq EventType /\ m_cancel \subseteq Impl
             /\ stopImpls \subseteq Impl /\ ids \subseteq EventType \cup {NullId}
             /\ notified \subseteq Impl /\ removed \subseteq Impl
  BY <1>2 DEF Init
<1>3. ASSUME Init
      PROVE  /\ m_destroyEvents \in Seq(EventType)
             /\ m_eventsWithContext \in Seq(ForeignType)
             /\ eventsWithContext \in Seq(ForeignType)
             /\ m_stop \in BOOLEAN /\ m_eventsWithContextEmpty \in BOOLEAN
             /\ pc \in {"idle"} /\ caller \in {"run"}
  BY <1>1, <1>3 DEF Init
<1>4. ASSUME Init
      PROVE  /\ m_uid \in 0..UidModulus - 1 /\ m_currentUid \in 0..UidModulus - 1
             /\ m_currentTs \in Nat
             /\ m_currentContext \in Contexts \cup {NoContext}
             /\ m_eventCount \in Nat /\ m_unscheduledEvents \in Int
             /\ impls \in Impl
  BY <1>1, <1>4 DEF Init
<1>. QED
  BY <1>2, <1>3, <1>4 DEF TypeOK

\* The engine's state is always well formed, even where uids wrap around.
THEOREM TypeCorrect == Spec => []TypeOK
BY InitTypeOK, TypeInductive, PTL DEF Spec

-----------------------------------------------------------------------------
(***************************************************************************)
(* The inductive invariant, one lemma per operation that moves an event.   *)
(***************************************************************************)

\* What TypeOK says of the numbers the proofs compare.
LEMMA Typed ==
  ASSUME TypeOK
  PROVE  /\ m_uid \in Nat /\ m_currentUid \in Nat /\ m_currentTs \in Nat /\ impls \in Nat
         /\ Len(m_eventsWithContext) \in Nat /\ Len(eventsWithContext) \in Nat
         /\ Len(m_destroyEvents) \in Nat
         /\ \A e \in m_events : e.impl \in Nat /\ e.uid \in Nat /\ e.ts \in Nat
         /\ \A i \in 1..Len(m_destroyEvents) :
               /\ m_destroyEvents[i].impl \in Nat /\ m_destroyEvents[i].uid \in Nat
               /\ m_destroyEvents[i].ts \in Nat
         /\ \A i \in 1..Len(m_eventsWithContext) :
               m_eventsWithContext[i] \in ForeignType /\ m_eventsWithContext[i].event \in Nat
         /\ \A i \in 1..Len(eventsWithContext) :
               eventsWithContext[i] \in ForeignType /\ eventsWithContext[i].event \in Nat
         /\ \A id \in ids : id = NullId \/ (id.impl \in Nat /\ id.uid \in Nat /\ id.ts \in Nat)
<1>1. Impl \subseteq Nat /\ 0..UidModulus - 1 \subseteq Nat
  BY MaxEventsAssumption, UidModulusAssumption DEF Impl
<1>2. \A e \in EventType : e.impl \in Nat /\ e.uid \in Nat /\ e.ts \in Nat
  BY <1>1 DEF EventType
<1>3. \A e \in ForeignType : e.event \in Nat
  BY <1>1 DEF ForeignType
<1>4. \A i \in 1..Len(m_destroyEvents) : m_destroyEvents[i] \in EventType
  BY DEF TypeOK
<1>5. /\ \A i \in 1..Len(m_eventsWithContext) : m_eventsWithContext[i] \in ForeignType
      /\ \A i \in 1..Len(eventsWithContext) : eventsWithContext[i] \in ForeignType
  BY DEF TypeOK
<1>. QED
  BY <1>1, <1>2, <1>3, <1>4, <1>5 DEF TypeOK

\* A new EventImpl put in the event list: it has the largest uid and is not
\* before the present, so it is ahead of the event being executed.
LEMMA NewEventKeepsIInv ==
  ASSUME NoWrap, IInv, TypeOK', NEW ev,
         UserCode, impls < MaxEvents,
         ev.impl = impls, ev.uid = m_uid, ev.ts \in Nat, m_currentTs <= ev.ts,
         m_events' = m_events \cup {ev}, m_uid' = NextUid(m_uid), impls' = impls + 1,
         m_unscheduledEvents' = m_unscheduledEvents + 1,
         ids' = ids \/ ids' = ids \cup {ev},
         UNCHANGED <<m_destroyEvents, clock, foreign, m_cancel, pc, caller, notified,
                     removed>>
  PROVE  IInv'
<1>0. /\ impls \in Nat /\ m_uid \in Nat /\ m_currentTs \in Nat /\ m_currentUid \in Nat
      /\ Len(m_eventsWithContext) \in Nat /\ Len(eventsWithContext) \in Nat
      /\ \A e \in m_events : e.impl \in Nat /\ e.uid \in Nat /\ e.ts \in Nat
      /\ \A i \in 1..Len(m_destroyEvents) : m_destroyEvents[i].impl \in Nat
  BY Typed DEF IInv
<1>1. /\ VALID <= m_uid /\ m_currentUid < m_uid /\ m_uid' = m_uid + 1
  BY <1>0, UidModulusAssumption, MaxEventsAssumption
     DEF IInv, UidsFresh, NoWrap, VALID, NextUid
<1>2. /\ ev.impl = impls /\ ev.uid = m_uid /\ m_events' = m_events \cup {ev}
      /\ impls' = impls + 1 /\ m_unscheduledEvents' = m_unscheduledEvents + 1
      /\ UNCHANGED <<m_destroyEvents, clock, foreign, m_cancel, pc, caller,
                     notified, removed>>
  OBVIOUS
<1>3. AfterNow(ev)
  BY <1>0, <1>1, <1>2 DEF AfterNow
<1>4. /\ \A e \in m_events : e.uid # m_uid /\ e.impl # impls
      /\ \A i \in 1..Len(m_destroyEvents) : m_destroyEvents[i].impl # impls
      /\ impls \notin notified \cup removed \cup m_cancel
  BY <1>0 DEF IInv, EventsAhead, DestroyListed, Withdrawn
<1>5. UidsFresh'
  BY <1>0, <1>1, <1>2 DEF IInv, UidsFresh, clock, foreign, VALID
<1>6. EventsAhead'
  <2>1. \A e \in m_events : /\ VALID <= e.uid /\ e.uid < m_uid + 1 /\ e.impl < impls + 1
                            /\ AfterNow(e)' /\ e.impl \notin notified \cup removed
    BY <1>0, <1>2 DEF IInv, EventsAhead, AfterNow, clock, VALID
  <2>2. /\ VALID <= ev.uid /\ ev.uid < m_uid + 1 /\ ev.impl < impls + 1
        /\ AfterNow(ev)' /\ ev.impl \notin notified \cup removed
    BY <1>0, <1>1, <1>2, <1>3, <1>4 DEF AfterNow, clock
  <2>3. \A e, f \in m_events \cup {ev} : e.uid = f.uid \/ e.impl = f.impl => e = f
    BY <1>2, <1>4 DEF IInv, EventsAhead
  <2>. QED
    BY <1>1, <1>2, <2>1, <2>2, <2>3 DEF EventsAhead
<1>7. DestroyListed'
  BY <1>0, <1>2, <1>4 DEF IInv, DestroyListed
<1>8. ForeignUnknown'
  <2>1. ASSUME NEW x \in Nat, Unknown(x) PROVE Unknown(x)'
    BY <1>0, <1>2, <2>1 DEF Unknown
  <2>2. /\ \A i \in 1..Len(m_eventsWithContext) : m_eventsWithContext[i].event \in Nat
        /\ \A i \in 1..Len(eventsWithContext) : eventsWithContext[i].event \in Nat
    BY Typed DEF IInv
  <2>3. UNCHANGED <<m_eventsWithContext, eventsWithContext>>
    BY <1>2 DEF foreign
  <2>. QED
    BY <2>1, <2>2, <2>3 DEF IInv, ForeignUnknown
<1>9. IdsAccurate'
  <2>1. ASSUME NEW id \in ids, id # NullId
        PROVE  /\ id.impl \in 0..impls /\ id.impl # impls
               /\ id.uid # DESTROY => VALID <= id.uid /\ id.uid < m_uid + 1
    BY <1>0, <2>1, Typed DEF IInv, IdsAccurate, VALID
  <2>2. \A id : AfterNow(id)' <=> AfterNow(id)
    BY <1>2 DEF AfterNow, clock
  <2>3. ASSUME NEW id \in ids, id # NullId
        PROVE  /\ \A e \in m_events' : e.impl = id.impl => e = id
               /\ \A i \in 1..Len(m_destroyEvents') :
                     m_destroyEvents'[i].impl = id.impl => m_destroyEvents'[i] = id
               /\ id.uid # DESTROY => \/ pc' = "none" \/ id \in m_events'
                                      \/ id.impl \in m_cancel' \/ ~AfterNow(id)'
    BY <1>2, <2>1, <2>2, <2>3 DEF IInv, IdsAccurate
  <2>4. /\ ev.impl \in 0..impls /\ \A e \in m_events' : e.impl = ev.impl => e = ev
        /\ \A i \in 1..Len(m_destroyEvents') : m_destroyEvents'[i].impl # ev.impl
        /\ VALID <= ev.uid /\ ev.uid < m_uid + 1 /\ ev \in m_events'
    BY <1>0, <1>1, <1>2, <1>4
  <2>. QED
    BY <1>0, <1>1, <1>2, <2>1, <2>3, <2>4 DEF IdsAccurate
<1>10. Withdrawn'
  BY <1>0, <1>2 DEF IInv, Withdrawn
<1>11. Counted'
  <2>1. ev \notin m_events
    BY <1>2, <1>4
  <2>2. IsFiniteSet(m_events) /\ Cardinality(m_events') = Cardinality(m_events) + 1
        /\ IsFiniteSet(m_events')
    BY <1>2, <2>1, FS_AddElement DEF IInv, Counted
  <2>. QED
    BY <1>2, <2>2 DEF IInv, Counted
<1>12. Disposed'
  BY <1>2 DEF IInv, Disposed, UserCode
<1>. QED
  BY <1>5, <1>6, <1>7, <1>8, <1>9, <1>10, <1>11, <1>12 DEF IInv

LEMMA DoScheduleKeepsIInv ==
  ASSUME NoWrap, IInv, TypeOK', NEW d \in Delays \cup {0}, NEW b \in BOOLEAN,
         DoSchedule(d, b)
  PROVE  IInv'
<1>1. Clamp(d) \in Nat /\ m_currentTs \in Nat
  <2>1. Clamp(d) \in Nat
    BY DelaysAssumption DEF Clamp
  <2>. QED
    BY <2>1 DEF IInv, TypeOK
<1> PICK ev : ev = Event(impls, m_currentTs + Clamp(d), m_uid, m_currentContext)
  OBVIOUS
<1>2. ev.impl = impls /\ ev.uid = m_uid /\ ev.ts \in Nat /\ m_currentTs <= ev.ts
  BY <1>1 DEF Event
<1>3. m_events' = m_events \cup {ev} /\ ids' = ids \cup {ev}
  BY DEF DoSchedule, InsertNew
<1>. QED
  BY <1>2, <1>3, NewEventKeepsIInv DEF DoSchedule, InsertNew

LEMMA ScheduleWithContextKeepsIInv ==
  ASSUME NoWrap, IInv, TypeOK', NEW c \in Contexts, NEW d \in ForeignDelays,
         ScheduleWithContext(c, d)
  PROVE  IInv'
<1>1. d \in Nat /\ m_currentTs \in Nat
  BY ForeignDelaysAssumption, Typed DEF IInv
<1> PICK ev : ev = Event(impls, m_currentTs + d, m_uid, c)
  OBVIOUS
<1>2. ev.impl = impls /\ ev.uid = m_uid /\ ev.ts \in Nat /\ m_currentTs <= ev.ts
  BY <1>1 DEF Event
<1>3. m_events' = m_events \cup {ev}
  BY DEF ScheduleWithContext, InsertNew
<1>. QED
  BY <1>2, <1>3, NewEventKeepsIInv DEF ScheduleWithContext, InsertNew, history

\* An event another thread asked for enters the event list: nobody else knows its
\* EventImpl, and its time stamp counts from the present.
LEMMA InsertEventWithContextKeepsIInv ==
  ASSUME NoWrap, IInv, TypeOK', InsertEventWithContext
  PROVE  IInv'
<1> PICK fe : fe = Head(eventsWithContext)
  OBVIOUS
<1> PICK ev : ev = Event(fe.event, m_currentTs + fe.timestamp, m_uid, fe.context)
  OBVIOUS
<1>0. /\ impls \in Nat /\ m_uid \in Nat /\ m_currentTs \in Nat /\ m_currentUid \in Nat
      /\ Len(m_eventsWithContext) \in Nat /\ Len(eventsWithContext) \in Nat
      /\ \A e \in m_events : e.impl \in Nat /\ e.uid \in Nat /\ e.ts \in Nat
      /\ \A i \in 1..Len(m_eventsWithContext) : m_eventsWithContext[i].event \in Nat
      /\ \A i \in 1..Len(eventsWithContext) : eventsWithContext[i].event \in Nat
      /\ \A id \in ids : id = NullId \/ (id.impl \in Nat /\ id.uid \in Nat /\ id.ts \in Nat)
  BY Typed DEF IInv
<1>1. /\ 1 \in 1..Len(eventsWithContext) /\ fe = eventsWithContext[1] /\ fe \in ForeignType
      /\ Len(eventsWithContext') = Len(eventsWithContext) - 1
      /\ \A i \in 1..Len(eventsWithContext') :
            i + 1 \in 1..Len(eventsWithContext)
            /\ eventsWithContext'[i] = eventsWithContext[i + 1]
  BY Typed DEF IInv, TypeOK, InsertEventWithContext
<1>2. fe.event \in Nat /\ fe.timestamp \in Nat
  BY <1>0, <1>1, ForeignDelaysAssumption DEF ForeignType
<1>3. Unknown(fe.event)
  BY <1>1 DEF IInv, ForeignUnknown
<1>4. /\ ev.impl = fe.event /\ ev.uid = m_uid /\ ev.ts \in Nat /\ m_currentTs <= ev.ts
      /\ m_events' = m_events \cup {ev}
      /\ m_unscheduledEvents' = m_unscheduledEvents + 1
      /\ UNCHANGED <<m_destroyEvents, clock, m_eventsWithContext, m_cancel, pc, caller,
                     impls, ids, notified, removed>>
  BY <1>0, <1>2 DEF InsertEventWithContext, InsertNew, Event, history
<1>5. /\ VALID <= m_uid /\ m_currentUid < m_uid /\ m_uid' = m_uid + 1
  BY <1>0, <1>1, UidModulusAssumption, MaxEventsAssumption
     DEF IInv, TypeOK, Impl, UidsFresh, NoWrap, VALID, NextUid, InsertEventWithContext,
         InsertNew
<1>6. UidsFresh'
  BY <1>0, <1>1, <1>4, <1>5 DEF IInv, UidsFresh, clock, VALID
<1>7. EventsAhead'
  <2>1. \A e \in m_events : /\ VALID <= e.uid /\ e.uid < m_uid + 1 /\ e.impl < impls
                            /\ AfterNow(e)' /\ e.impl \notin notified \cup removed
    BY <1>0, <1>4 DEF IInv, EventsAhead, AfterNow, clock, VALID
  <2>2. /\ VALID <= ev.uid /\ ev.uid < m_uid + 1 /\ ev.impl < impls
        /\ AfterNow(ev)' /\ ev.impl \notin notified \cup removed
    BY <1>0, <1>3, <1>4, <1>5 DEF AfterNow, clock, Unknown
  <2>3. \A e \in m_events : e.uid # ev.uid /\ e.impl # ev.impl
    BY <1>0, <1>3, <1>4 DEF IInv, EventsAhead, Unknown
  <2>4. \A e, f \in m_events \cup {ev} : e.uid = f.uid \/ e.impl = f.impl => e = f
    BY <2>3 DEF IInv, EventsAhead
  <2>. QED
    BY <1>4, <1>5, <2>1, <2>2, <2>4 DEF EventsAhead
<1>8. DestroyListed'
  BY <1>3, <1>4 DEF IInv, DestroyListed, Unknown
<1>9. ForeignUnknown'
  <2>1. ASSUME NEW x \in Nat, Unknown(x), x # fe.event PROVE Unknown(x)'
    BY <1>4, <2>1 DEF Unknown
  <2>2. /\ \A i \in 1..Len(m_eventsWithContext) : m_eventsWithContext[i].event # fe.event
        /\ \A i \in 1..Len(eventsWithContext') : eventsWithContext'[i].event # fe.event
    <3>1. ASSUME NEW i \in 1..Len(eventsWithContext')
          PROVE  eventsWithContext'[i].event # fe.event
      <4>1. i + 1 \in 1..Len(eventsWithContext) /\ i + 1 # 1
            /\ eventsWithContext'[i] = eventsWithContext[i + 1]
        BY <1>1
      <4>. QED
        BY <1>1, <4>1 DEF IInv, ForeignUnknown
    <3>. QED
      BY <1>1, <3>1 DEF IInv, ForeignUnknown
  <2>3. \A i \in 1..Len(m_eventsWithContext) : Unknown(m_eventsWithContext[i].event)'
    BY <1>0, <1>4, <2>1, <2>2 DEF IInv, ForeignUnknown
  <2>4. \A i \in 1..Len(eventsWithContext') : Unknown(eventsWithContext[i].event)'
    BY <1>0, <1>1, <2>1, <2>2 DEF IInv, ForeignUnknown
  <2>5. \A i, j \in 1..Len(eventsWithContext') :
           eventsWithContext'[i].event = eventsWithContext'[j].event => i = j
    <3>1. ASSUME NEW i \in 1..Len(eventsWithContext'), NEW j \in 1..Len(eventsWithContext'),
                 eventsWithContext[i + 1].event = eventsWithContext[j + 1].event
          PROVE  i = j
      <4>1. i + 1 \in 1..Len(eventsWithContext) /\ j + 1 \in 1..Len(eventsWithContext)
        BY <1>1
      <4>2. i + 1 = j + 1
        BY <3>1, <4>1 DEF IInv, ForeignUnknown
      <4>. QED
        BY <4>2
    <3>. QED
      BY <1>1, <3>1
  <2>6. \A i \in 1..Len(m_eventsWithContext), j \in 1..Len(eventsWithContext') :
           m_eventsWithContext[i].event # eventsWithContext'[j].event
    BY <1>1, SMTT(30) DEF IInv, ForeignUnknown
  <2>. QED
    BY <1>4, <2>3, <2>4, <2>5, <2>6 DEF IInv, ForeignUnknown
<1>10. IdsAccurate'
  <2>1. \A id : AfterNow(id)' <=> AfterNow(id)
    BY <1>4 DEF AfterNow, clock
  <2>2. \A id \in ids : id.impl # ev.impl
    BY <1>3, <1>4 DEF Unknown
  <2>. QED
    BY <1>0, <1>4, <1>5, <2>1, <2>2 DEF IInv, IdsAccurate, VALID
<1>11. Withdrawn'
  BY <1>4 DEF IInv, Withdrawn
<1>12. Counted'
  <2>1. ev \notin m_events
    BY <1>3, <1>4 DEF Unknown
  <2>2. IsFiniteSet(m_events') /\ Cardinality(m_events') = Cardinality(m_events) + 1
    BY <1>4, <2>1, FS_AddElement DEF IInv, Counted
  <2>. QED
    BY <1>4, <2>2 DEF IInv, Counted
<1>13. Disposed'
  BY <1>4 DEF IInv, Disposed, InsertEventWithContext
<1>. QED
  BY <1>6, <1>7, <1>8, <1>9, <1>10, <1>11, <1>12, <1>13 DEF IInv

\* The destroy list keeps EventImpls apart from those of the event list.
LEMMA ScheduleDestroyKeepsIInv ==
  ASSUME NoWrap, IInv, TypeOK', ScheduleDestroy
  PROVE  IInv'
<1> PICK id : id = Event(impls, m_currentTs, DESTROY, NoContext)
  OBVIOUS
<1>0. /\ impls \in Nat /\ m_uid \in Nat /\ m_currentTs \in Nat /\ m_currentUid \in Nat
      /\ Len(m_eventsWithContext) \in Nat /\ Len(eventsWithContext) \in Nat
      /\ Len(m_destroyEvents) \in Nat
      /\ \A e \in m_events : e.impl \in Nat /\ e.uid \in Nat /\ e.ts \in Nat
      /\ \A i \in 1..Len(m_destroyEvents) : m_destroyEvents[i].impl \in Nat
      /\ \A i \in 1..Len(m_eventsWithContext) : m_eventsWithContext[i].event \in Nat
      /\ \A i \in 1..Len(eventsWithContext) : eventsWithContext[i].event \in Nat
      /\ \A x \in ids : x = NullId \/ (x.impl \in Nat /\ x.uid \in Nat /\ x.ts \in Nat)
  BY Typed DEF IInv
<1>1. /\ VALID <= m_uid /\ m_currentUid < m_uid /\ m_uid' = m_uid + 1
  BY <1>0, UidModulusAssumption, MaxEventsAssumption
     DEF IInv, UidsFresh, NoWrap, VALID, NextUid, ScheduleDestroy
<1>2. /\ id.impl = impls /\ id.uid = DESTROY /\ ids' = ids \cup {id}
      /\ impls' = impls + 1
      /\ UNCHANGED <<m_events, clock, m_unscheduledEvents, foreign, m_cancel, pc, caller,
                     notified, removed>>
  BY DEF ScheduleDestroy, Event
<1>3. /\ Len(m_destroyEvents') = Len(m_destroyEvents) + 1
      /\ \A i \in 1..Len(m_destroyEvents) : m_destroyEvents'[i] = m_destroyEvents[i]
      /\ m_destroyEvents'[Len(m_destroyEvents) + 1] = id
  BY DEF ScheduleDestroy, IInv, TypeOK
<1>4. \A i \in 1..Len(m_destroyEvents') :
         i \in 1..Len(m_destroyEvents) \/ i = Len(m_destroyEvents) + 1
  BY <1>0, <1>3
<1>5. /\ \A e \in m_events : e.impl # impls
      /\ \A i \in 1..Len(m_destroyEvents) : m_destroyEvents[i].impl # impls
      /\ impls \notin notified \cup removed \cup m_cancel
      /\ \A x \in ids : x.impl # impls
  BY <1>0, NullAssumption
     DEF IInv, EventsAhead, DestroyListed, Withdrawn, IdsAccurate, NullId, Event
<1>6. UidsFresh'
  BY <1>0, <1>1, <1>2 DEF IInv, UidsFresh, clock, foreign, VALID
<1>7. EventsAhead'
  BY <1>0, <1>1, <1>2 DEF IInv, EventsAhead, AfterNow, clock, VALID
<1>8. DestroyListed'
  <2>1. \A i \in 1..Len(m_destroyEvents') :
           /\ m_destroyEvents'[i].uid = DESTROY /\ m_destroyEvents'[i].impl < impls + 1
           /\ m_destroyEvents'[i] \in ids'
           /\ m_destroyEvents'[i].impl \notin notified \cup removed
           /\ \A e \in m_events : e.impl # m_destroyEvents'[i].impl
    BY <1>0, <1>2, <1>3, <1>4, <1>5 DEF IInv, DestroyListed
  <2>2. \A i, j \in 1..Len(m_destroyEvents') :
           m_destroyEvents'[i].impl = m_destroyEvents'[j].impl => i = j
    BY <1>0, <1>2, <1>3, <1>4, <1>5 DEF IInv, DestroyListed
  <2>. QED
    BY <1>2, <2>1, <2>2 DEF DestroyListed
<1>9. ForeignUnknown'
  <2>1. ASSUME NEW x \in Nat, Unknown(x) PROVE Unknown(x)'
    <3>1. x < impls /\ x # impls
      BY <1>0, <2>1 DEF Unknown
    <3>2. \A i \in 1..Len(m_destroyEvents') : m_destroyEvents'[i].impl # x
      BY <1>2, <1>3, <1>4, <2>1, <3>1 DEF Unknown
    <3>. QED
      BY <1>0, <1>2, <2>1, <3>1, <3>2 DEF Unknown
  <2>2. UNCHANGED <<m_eventsWithContext, eventsWithContext>>
    BY <1>2 DEF foreign
  <2>. QED
    BY <1>0, <2>1, <2>2 DEF IInv, ForeignUnknown
<1>10. IdsAccurate'
  <2>1. \A x : AfterNow(x)' <=> AfterNow(x)
    BY <1>2 DEF AfterNow, clock
  <2>2. ASSUME NEW x \in ids, x # NullId
        PROVE  /\ x.impl \in 0..impls
               /\ \A e \in m_events : e.impl = x.impl => e = x
               /\ \A i \in 1..Len(m_destroyEvents') :
                     m_destroyEvents'[i].impl = x.impl => m_destroyEvents'[i] = x
               /\ x.uid # DESTROY =>
                     /\ VALID <= x.uid /\ x.uid < m_uid + 1
                     /\ \/ pc = "none" \/ x \in m_events \/ x.impl \in m_cancel
                        \/ ~AfterNow(x)
    <3>1. /\ x.impl \in 0..impls - 1 /\ x.impl # impls
          /\ \A e \in m_events : e.impl = x.impl => e = x
          /\ \A i \in 1..Len(m_destroyEvents) :
                m_destroyEvents[i].impl = x.impl => m_destroyEvents[i] = x
          /\ x.uid # DESTROY =>
                /\ VALID <= x.uid /\ x.uid < m_uid
                /\ \/ pc = "none" \/ x \in m_events \/ x.impl \in m_cancel
                   \/ ~AfterNow(x)
      BY <1>5, <2>2 DEF IInv, IdsAccurate
    <3>2. x.impl \in 0..impls /\ (x.uid # DESTROY => x.uid < m_uid + 1)
      <4>1. x.impl \in 0..impls
        BY <1>0, <3>1
      <4>2. x.uid # DESTROY => x.uid < m_uid + 1
        BY <1>0, <2>2, <3>1
      <4>. QED
        BY <4>1, <4>2
    <3>3. \A i \in 1..Len(m_destroyEvents') :
             m_destroyEvents'[i].impl = x.impl => m_destroyEvents'[i] = x
      BY <1>2, <1>3, <1>4, <3>1
    <3>. QED
      BY <3>1, <3>2, <3>3
  <2>3. /\ id.impl \in 0..impls /\ \A e \in m_events : e.impl # id.impl
        /\ \A i \in 1..Len(m_destroyEvents') :
              m_destroyEvents'[i].impl = id.impl => m_destroyEvents'[i] = id
    BY <1>0, <1>2, <1>3, <1>4, <1>5
  <2>. QED
    BY <1>0, <1>1, <1>2, <2>1, <2>2, <2>3 DEF IdsAccurate
<1>11. Withdrawn'
  BY <1>0, <1>2 DEF IInv, Withdrawn
<1>12. Counted'
  BY <1>2 DEF IInv, Counted
<1>13. Disposed'
  BY <1>2 DEF IInv, Disposed, ScheduleDestroy, UserCode
<1>. QED
  BY <1>6, <1>7, <1>8, <1>9, <1>10, <1>11, <1>12, <1>13 DEF IInv

\* Another thread's call only appends to its queue, under the mutex.
LEMMA ForeignKeepsIInv ==
  ASSUME NoWrap, IInv, TypeOK', NEW c \in Contexts, NEW d \in ForeignDelays,
         ScheduleWithContextForeign(c, d)
  PROVE  IInv'
<1>0. /\ impls \in Nat /\ m_uid \in Nat
      /\ Len(m_eventsWithContext) \in Nat /\ Len(eventsWithContext) \in Nat
      /\ \A e \in m_events : e.impl \in Nat
      /\ \A i \in 1..Len(m_destroyEvents) : m_destroyEvents[i].impl \in Nat
      /\ \A i \in 1..Len(m_eventsWithContext) : m_eventsWithContext[i].event \in Nat
      /\ \A i \in 1..Len(eventsWithContext) : eventsWithContext[i].event \in Nat
      /\ \A x \in ids : x = NullId \/ x.impl \in Nat
  BY Typed DEF IInv
<1> PICK n : n = impls
  OBVIOUS
<1>1. /\ impls' = impls + 1
      /\ UNCHANGED <<m_events, m_destroyEvents, m_uid, clock, m_unscheduledEvents,
                     eventsWithContext, m_cancel, pc, caller, ids, notified, removed>>
  BY DEF ScheduleWithContextForeign, history
<1>2. /\ Len(m_eventsWithContext') = Len(m_eventsWithContext) + 1
      /\ \A i \in 1..Len(m_eventsWithContext) :
            m_eventsWithContext'[i] = m_eventsWithContext[i]
      /\ m_eventsWithContext'[Len(m_eventsWithContext) + 1].event = impls
  BY DEF ScheduleWithContextForeign, IInv, TypeOK
<1>3. \A i \in 1..Len(m_eventsWithContext') :
         i \in 1..Len(m_eventsWithContext) \/ i = Len(m_eventsWithContext) + 1
  BY <1>0, <1>2
<1>4. ASSUME NEW x \in Nat, Unknown(x) PROVE Unknown(x)' /\ x # impls
  BY <1>0, <1>1, <1>4 DEF Unknown
<1>5. Unknown(n)'
  <2>1. \A id \in ids : id.impl # impls
    BY <1>0, NullAssumption DEF IInv, IdsAccurate, NullId, Event
  <2>. QED
    BY <1>0, <1>1, <2>1
       DEF Unknown, IInv, EventsAhead, DestroyListed, Withdrawn
<1>6. UidsFresh'
  BY <1>0, <1>1, <1>2 DEF IInv, UidsFresh, clock, VALID
<1>7. EventsAhead' /\ DestroyListed'
  BY <1>0, <1>1 DEF IInv, EventsAhead, DestroyListed, AfterNow, clock
<1>8. ForeignUnknown'
  <2>1. \A i \in 1..Len(m_eventsWithContext') : Unknown(m_eventsWithContext[i].event)'
    <3>1. \A i \in 1..Len(m_eventsWithContext) : Unknown(m_eventsWithContext[i].event)'
      BY <1>0, <1>2, <1>4 DEF IInv, ForeignUnknown
    <3>2. ASSUME NEW i \in 1..Len(m_eventsWithContext'),
                 i = Len(m_eventsWithContext) + 1
          PROVE  Unknown(m_eventsWithContext[i].event)'
      <4>1. m_eventsWithContext'[i].event = n
        BY <1>2, <3>2
      <4>. QED
        BY <1>5, <4>1 DEF Unknown
    <3>. QED
      BY <1>3, <3>1, <3>2
  <2>2. \A i \in 1..Len(m_eventsWithContext) : m_eventsWithContext[i].event # impls
    BY <1>0, <1>4 DEF IInv, ForeignUnknown
  <2>3. \A i, j \in 1..Len(m_eventsWithContext') :
           m_eventsWithContext'[i].event = m_eventsWithContext'[j].event => i = j
    BY <1>0, <1>2, <1>3, <2>2 DEF IInv, ForeignUnknown
  <2>4. \A i \in 1..Len(eventsWithContext) :
           Unknown(eventsWithContext[i].event)' /\ eventsWithContext[i].event # impls
    BY <1>0, <1>1, <1>4 DEF IInv, ForeignUnknown
  <2>5. \A i \in 1..Len(m_eventsWithContext'), j \in 1..Len(eventsWithContext) :
           m_eventsWithContext'[i].event # eventsWithContext[j].event
    BY <1>2, <1>3, <2>4 DEF IInv, ForeignUnknown
  <2>. QED
    BY <1>1, <2>1, <2>3, <2>4, <2>5 DEF IInv, ForeignUnknown
<1>9. IdsAccurate' /\ Withdrawn'
  BY <1>0, <1>1 DEF IInv, IdsAccurate, Withdrawn, AfterNow, clock
<1>10. Counted' /\ Disposed'
  BY <1>1 DEF IInv, Counted, Disposed
<1>. QED
  BY <1>6, <1>7, <1>8, <1>9, <1>10 DEF IInv

\* The whole queue changes hands; events stay unknown to everybody else.
LEMMA SwapKeepsIInv ==
  ASSUME IInv, TypeOK', SwapEventsWithContext
  PROVE  IInv'
<1>0. /\ impls \in Nat /\ m_uid \in Nat
      /\ Len(m_eventsWithContext) \in Nat /\ Len(eventsWithContext) \in Nat
  BY Typed DEF IInv
<1>1. /\ eventsWithContext' = m_eventsWithContext /\ m_eventsWithContext' = <<>>
      /\ pc = "process" /\ pc' = "insert"
      /\ UNCHANGED <<m_events, m_destroyEvents, m_uid, clock, m_unscheduledEvents,
                     m_cancel, caller, impls, ids, notified, removed>>
  BY DEF SwapEventsWithContext, history
<1>2. UidsFresh'
  BY <1>0, <1>1 DEF IInv, UidsFresh, clock, VALID
<1>3. EventsAhead' /\ DestroyListed' /\ Withdrawn' /\ Counted' /\ Disposed'
  BY <1>1 DEF IInv, EventsAhead, DestroyListed, Withdrawn, Counted, Disposed, AfterNow,
              clock
<1>4. ForeignUnknown'
  BY <1>1 DEF IInv, ForeignUnknown, Unknown
<1>5. IdsAccurate'
  BY <1>1 DEF IInv, IdsAccurate, AfterNow, clock
<1>. QED
  BY <1>2, <1>3, <1>4, <1>5 DEF IInv

\* IsExpired, computed from the clock, agrees with the lists.
LEMMA IdsTruth == IInv => EventIdTruth
<1> SUFFICES ASSUME IInv, NEW id \in ids
             PROVE  ~IsExpired(id) <=> /\ id \in m_events \cup DestroyIds
                                       /\ id.impl \notin m_cancel
  BY DEF EventIdTruth
<1>0. /\ m_uid \in Nat /\ m_currentTs \in Nat /\ m_currentUid \in Nat
      /\ \A e \in m_events : e.impl \in Nat /\ e.uid \in Nat /\ e.ts \in Nat
      /\ \A i \in 1..Len(m_destroyEvents) : m_destroyEvents[i].impl \in Nat
      /\ id = NullId \/ (id.impl \in Nat /\ id.uid \in Nat /\ id.ts \in Nat)
  BY Typed DEF IInv
<1>1. \A i \in DestroyIds : i.uid = DESTROY /\ i.impl \in Nat
  BY <1>0 DEF IInv, DestroyListed, DestroyIds
<1>2. CASE id = NullId
  BY <1>0, <1>1, <1>2, NullAssumption DEF IsExpired, NullId, Event
<1>3. CASE id # NullId /\ id.uid = DESTROY
  <2>1. id \notin m_events
    BY <1>0, <1>3 DEF IInv, EventsAhead, VALID, DESTROY
  <2>2. id \in DestroyIds => pc # "none"
    BY DEF IInv, Disposed, DestroyIds
  <2>. QED
    BY <1>0, <1>3, <2>1, <2>2, NullAssumption DEF IsExpired
<1>4. CASE id # NullId /\ id.uid # DESTROY
  <2>1. id \notin DestroyIds
    BY <1>1, <1>4
  <2>2. pc = "none" \/ id \in m_events \/ id.impl \in m_cancel \/ ~AfterNow(id)
    BY <1>4 DEF IInv, IdsAccurate
  <2>3. id \in m_events => AfterNow(id) /\ pc # "none"
    BY DEF IInv, EventsAhead, Disposed
  <2>4. ~AfterNow(id) <=> \/ id.ts < m_currentTs
                          \/ id.ts = m_currentTs /\ id.uid <= m_currentUid
    BY <1>0, <1>4 DEF AfterNow
  <2>. QED
    BY <1>0, <1>4, <2>1, <2>2, <2>3, <2>4, NullAssumption DEF IsExpired
<1>. QED
  BY <1>2, <1>3, <1>4

\* Only an event that is still queued can be cancelled.
LEMMA CancelKeepsIInv ==
  ASSUME IInv, TypeOK', NEW id \in ids, Cancel(id)
  PROVE  IInv'
<1>1. /\ m_cancel' = m_cancel \cup {id.impl}
      /\ UNCHANGED <<m_events, m_destroyEvents, m_uid, clock, m_unscheduledEvents,
                     m_eventsWithContext, eventsWithContext, pc, caller, impls, ids,
                     notified, removed>>
  BY DEF Cancel, foreign, history
<1>2. id \in m_events \cup DestroyIds
  BY IdsTruth DEF EventIdTruth, Cancel
<1>3. id.impl \notin notified \cup removed /\ id.impl \in 0..impls - 1
  <2>1. id.impl \notin notified \cup removed
    BY <1>2 DEF IInv, EventsAhead, DestroyListed, DestroyIds
  <2>2. id.impl < impls /\ id.impl \in Nat /\ impls \in Nat
    BY <1>2, Typed DEF IInv, EventsAhead, DestroyListed, DestroyIds
  <2>. QED
    BY <2>1, <2>2
<1>4. UidsFresh' /\ EventsAhead' /\ DestroyListed' /\ Counted' /\ Disposed'
  BY <1>1 DEF IInv, UidsFresh, EventsAhead, DestroyListed, Counted, Disposed, AfterNow,
              clock
<1>5. ForeignUnknown'
  BY <1>1 DEF IInv, ForeignUnknown, Unknown
<1>6. IdsAccurate'
  BY <1>1 DEF IInv, IdsAccurate, AfterNow, clock
<1>7. Withdrawn'
  BY <1>1, <1>3 DEF IInv, Withdrawn
<1>. QED
  BY <1>4, <1>5, <1>6, <1>7 DEF IInv

\* Fewer events in the list, the withdrawn one marked cancelled and removed.
LEMMA RemoveScheduledKeepsIInv ==
  ASSUME IInv, TypeOK', NEW id \in ids, RemoveScheduled(id)
  PROVE  IInv'
<1>1. /\ m_events' = m_events \ {id} /\ m_cancel' = m_cancel \cup {id.impl}
      /\ removed' = removed \cup {id.impl}
      /\ m_unscheduledEvents' = m_unscheduledEvents - 1
      /\ UNCHANGED <<m_destroyEvents, m_uid, clock, m_eventsWithContext,
                     eventsWithContext, pc, caller, impls, ids, notified>>
  BY DEF RemoveScheduled, foreign
<1>2. id \in m_events
  <2>1. id \in m_events \cup DestroyIds /\ id.uid # DESTROY
    BY IdsTruth DEF EventIdTruth, RemoveScheduled
  <2>. QED
    BY <2>1 DEF IInv, DestroyListed, DestroyIds
<1>3. /\ id.impl \notin notified \cup removed /\ id.impl \in 0..impls - 1
      /\ \A e \in m_events' : e.impl # id.impl
      /\ \A i \in 1..Len(m_destroyEvents) : m_destroyEvents[i].impl # id.impl
  <2>1. /\ id.impl \notin notified \cup removed
        /\ \A e \in m_events' : e.impl # id.impl
        /\ \A i \in 1..Len(m_destroyEvents) : m_destroyEvents[i].impl # id.impl
    BY <1>1, <1>2 DEF IInv, EventsAhead, DestroyListed
  <2>2. id.impl < impls /\ id.impl \in Nat /\ impls \in Nat
    BY <1>2, Typed DEF IInv, EventsAhead
  <2>. QED
    BY <2>1, <2>2
<1>4. UidsFresh' /\ EventsAhead' /\ DestroyListed' /\ Disposed'
  BY <1>1, <1>3 DEF IInv, UidsFresh, EventsAhead, DestroyListed, Disposed, AfterNow,
              clock
<1>5. ForeignUnknown'
  BY <1>1 DEF IInv, ForeignUnknown, Unknown
<1>6. IdsAccurate'
  BY <1>1 DEF IInv, IdsAccurate, AfterNow, clock
<1>7. Withdrawn'
  BY <1>1, <1>3 DEF IInv, Withdrawn
<1>8. Counted'
  BY <1>1, <1>2, FS_RemoveElement DEF IInv, Counted
<1>. QED
  BY <1>4, <1>5, <1>6, <1>7, <1>8 DEF IInv

\* A shorter destroy list whose entries all come from the old one, each once.
LEMMA ShorterDestroyListKeepsIInv ==
  ASSUME IInv, TypeOK', NEW k \in 1..Len(m_destroyEvents),
         \A i \in 1..Len(m_destroyEvents') : \E h \in 1..Len(m_destroyEvents) :
            h # k /\ m_destroyEvents'[i] = m_destroyEvents[h],
         \A i, j \in 1..Len(m_destroyEvents') :
            m_destroyEvents'[i].impl = m_destroyEvents'[j].impl => i = j,
         m_destroyEvents = <<>> => m_destroyEvents' = <<>>,
         UNCHANGED <<m_events, m_uid, clock, m_unscheduledEvents, m_eventsWithContext,
                     eventsWithContext, m_cancel, caller, impls, ids>>,
         pc \in {"idle", "notify", "destroy", "destroyNotify"},
         pc' \in {"idle", "notify", "destroy", "destroyNotify"},
         pc' = "notify" => pc = "notify",
         notified' \subseteq notified \cup {m_destroyEvents[k].impl},
         m_destroyEvents[k].impl \in m_cancel => notified' = notified,
         \/ removed' = removed
         \/ removed' = removed \cup {m_destroyEvents[k].impl} /\ notified' = notified
  PROVE  IInv'
<1> PICK x : x = m_destroyEvents[k].impl
  OBVIOUS
<1>1. /\ x \notin notified \cup removed /\ x < impls /\ x \in Nat /\ impls \in Nat
      /\ \A e \in m_events : e.impl # x
      /\ \A i \in 1..Len(m_destroyEvents) : i # k => m_destroyEvents[i].impl # x
      /\ \A i \in 1..Len(m_eventsWithContext) : m_eventsWithContext[i].event # x
      /\ \A i \in 1..Len(eventsWithContext) : eventsWithContext[i].event # x
  BY Typed DEF IInv, DestroyListed, ForeignUnknown, Unknown
<1>2. UidsFresh' /\ Counted'
  BY DEF IInv, UidsFresh, Counted, clock
<1>3. EventsAhead'
  BY <1>1 DEF IInv, EventsAhead, AfterNow, clock
<1>4. DestroyListed'
  <2>1. ASSUME NEW i \in 1..Len(m_destroyEvents')
        PROVE  /\ m_destroyEvents'[i].uid = DESTROY /\ m_destroyEvents'[i].impl < impls
               /\ m_destroyEvents'[i] \in ids
               /\ m_destroyEvents'[i].impl \notin notified' \cup removed'
               /\ \A e \in m_events : e.impl # m_destroyEvents'[i].impl
    <3>1. PICK h \in 1..Len(m_destroyEvents) :
             h # k /\ m_destroyEvents'[i] = m_destroyEvents[h]
      OBVIOUS
    <3>2. m_destroyEvents[h].impl # x
      BY <1>1, <3>1
    <3>. QED
      BY <3>1, <3>2 DEF IInv, DestroyListed
  <2>. QED
    BY <2>1 DEF DestroyListed
<1>5. ForeignUnknown'
  <2>1. ASSUME NEW y, Unknown(y), y # x PROVE Unknown(y)'
    BY <2>1 DEF Unknown
  <2>. QED
    BY <1>1, <2>1 DEF IInv, ForeignUnknown
<1>6. IdsAccurate'
  <2>1. ASSUME NEW id \in ids, id # NullId, NEW i \in 1..Len(m_destroyEvents'),
               m_destroyEvents'[i].impl = id.impl
        PROVE  m_destroyEvents'[i] = id
    BY <2>1 DEF IInv, IdsAccurate
  <2>2. \A id : AfterNow(id)' <=> AfterNow(id)
    BY DEF AfterNow, clock
  <2>3. pc # "none"
    OBVIOUS
  <2>. QED
    BY <2>1, <2>2, <2>3 DEF IInv, IdsAccurate
<1>7. Withdrawn'
  <2>1. notified' \cup removed' \subseteq 0..impls - 1
    BY <1>1 DEF IInv, Withdrawn
  <2>2. notified' \cap (m_cancel \cup removed') = {}
    BY <1>1 DEF IInv, Withdrawn
  <2>. QED
    BY <2>1, <2>2 DEF IInv, Withdrawn
<1>8. Disposed'
  BY DEF IInv, Disposed
<1>. QED
  BY <1>2, <1>3, <1>4, <1>5, <1>6, <1>7, <1>8 DEF IInv

LEMMA RemoveDestroyKeepsIInv ==
  ASSUME IInv, TypeOK', NEW id \in ids, RemoveDestroy(id)
  PROVE  IInv'
<1>1. PICK k \in 1..Len(m_destroyEvents) :
         /\ m_destroyEvents[k] = id
         /\ m_destroyEvents' = SubSeq(m_destroyEvents, 1, k - 1)
                               \o SubSeq(m_destroyEvents, k + 1, Len(m_destroyEvents))
  BY DEF RemoveDestroy
<1>2. m_destroyEvents \in Seq(EventType)
  BY DEF IInv, TypeOK
<1>3. /\ Len(m_destroyEvents') = Len(m_destroyEvents) - 1
      /\ \A i \in 1..Len(m_destroyEvents') :
            m_destroyEvents'[i] = m_destroyEvents[IF i < k THEN i ELSE i + 1]
  BY <1>1, <1>2, RemoveAtSeq
<1>4. Len(m_destroyEvents) \in Nat
  BY <1>2
<1> DEFINE from(i) == IF i < k THEN i ELSE i + 1
<1>5. ASSUME NEW i \in 1..Len(m_destroyEvents')
      PROVE  /\ from(i) \in 1..Len(m_destroyEvents) /\ from(i) # k
             /\ m_destroyEvents'[i] = m_destroyEvents[from(i)]
  BY <1>3, <1>4
<1>6. ASSUME NEW i \in 1..Len(m_destroyEvents'), NEW j \in 1..Len(m_destroyEvents'),
             m_destroyEvents'[i].impl = m_destroyEvents'[j].impl
      PROVE  i = j
  <2>1. from(i) = from(j)
    BY <1>5, <1>6 DEF IInv, DestroyListed
  <2>. QED
    BY <1>3, <1>4, <2>1
<1>7. m_destroyEvents # <<>>
  BY <1>2
<1>8. removed' = removed \cup {m_destroyEvents[k].impl} /\ notified' = notified
  BY <1>1 DEF RemoveDestroy
<1>9. /\ UNCHANGED <<m_events, m_uid, clock, m_unscheduledEvents, m_eventsWithContext,
                     eventsWithContext, m_cancel, caller, impls, ids>>
      /\ pc \in {"idle", "notify", "destroy", "destroyNotify"} /\ pc' = pc
  BY DEF RemoveDestroy, UserCode, foreign
<1>. QED
  BY <1>5, <1>6, <1>7, <1>8, <1>9, ShorterDestroyListKeepsIInv

LEMMA DestroyOneEventKeepsIInv ==
  ASSUME IInv, TypeOK', DestroyOneEvent
  PROVE  IInv'
<1>1. m_destroyEvents \in Seq(EventType) /\ m_destroyEvents # <<>>
  BY DEF IInv, TypeOK, DestroyOneEvent
<1>2. /\ 1 \in 1..Len(m_destroyEvents) /\ Head(m_destroyEvents) = m_destroyEvents[1]
      /\ Len(m_destroyEvents') = Len(m_destroyEvents) - 1
      /\ \A i \in 1..Len(m_destroyEvents') : m_destroyEvents'[i] = m_destroyEvents[i + 1]
      /\ Len(m_destroyEvents) \in Nat
  BY <1>1 DEF DestroyOneEvent
<1>3. ASSUME NEW i \in 1..Len(m_destroyEvents')
      PROVE  /\ i + 1 \in 1..Len(m_destroyEvents) /\ i + 1 # 1
             /\ m_destroyEvents'[i] = m_destroyEvents[i + 1]
  BY <1>2
<1>4. ASSUME NEW i \in 1..Len(m_destroyEvents'), NEW j \in 1..Len(m_destroyEvents'),
             m_destroyEvents'[i].impl = m_destroyEvents'[j].impl
      PROVE  i = j
  <2>1. i + 1 = j + 1
    BY <1>3, <1>4 DEF IInv, DestroyListed
  <2>. QED
    BY <2>1
<1>5. /\ UNCHANGED <<m_events, m_uid, clock, m_unscheduledEvents, m_eventsWithContext,
                     eventsWithContext, m_cancel, caller, impls, ids, removed>>
      /\ pc = "destroy" /\ pc' \in {"destroy", "destroyNotify"}
      /\ notified' \subseteq notified \cup {m_destroyEvents[1].impl}
      /\ m_destroyEvents[1].impl \in m_cancel => notified' = notified
  BY <1>2 DEF DestroyOneEvent, foreign, IsCancelled
<1>. QED
  BY <1>1, <1>2, <1>3, <1>4, <1>5, ShorterDestroyListKeepsIInv

\* The event executed next is the least of the list, so everything that stays is
\* ahead of it, and an EventId whose event is past is one of those executed.
LEMMA ProcessOneEventKeepsIInv ==
  ASSUME IInv, TypeOK', ProcessOneEvent
  PROVE  IInv'
<1>1. PICK next \in m_events :
         /\ \A e \in m_events : ~Before(e, next)
         /\ m_events' = m_events \ {next}
         /\ m_unscheduledEvents' = m_unscheduledEvents - 1
         /\ m_currentTs' = next.ts /\ m_currentUid' = next.uid
         /\ notified' = IF next.impl \in m_cancel THEN notified
                        ELSE notified \cup {next.impl}
  BY DEF ProcessOneEvent, IsNext, IsCancelled
<1>2. /\ pc = "loop" /\ pc' \in {"process", "notify"} /\ caller' = "loop"
      /\ UNCHANGED <<m_destroyEvents, m_uid, m_eventsWithContext, eventsWithContext,
                     m_cancel, impls, ids, removed>>
  BY DEF ProcessOneEvent, foreign
<1>3. /\ impls \in Nat /\ m_uid \in Nat /\ m_currentTs \in Nat /\ m_currentUid \in Nat
      /\ \A e \in m_events : e.impl \in Nat /\ e.uid \in Nat /\ e.ts \in Nat
      /\ \A id \in ids : id = NullId \/ (id.impl \in Nat /\ id.uid \in Nat /\ id.ts \in Nat)
  BY Typed DEF IInv
<1>4. \A e \in m_events' : /\ e # next /\ e.uid # next.uid /\ e.impl # next.impl
                           /\ AfterNow(e)'
  BY <1>1, <1>3 DEF IInv, EventsAhead, AfterNow, Before
<1>5. /\ AfterNow(next) /\ next.uid < m_uid /\ next.impl < impls
      /\ next.impl \notin notified \cup removed
      /\ \A i \in 1..Len(m_destroyEvents) : m_destroyEvents[i].impl # next.impl
      /\ \A i \in 1..Len(m_eventsWithContext) : m_eventsWithContext[i].event # next.impl
      /\ \A i \in 1..Len(eventsWithContext) : eventsWithContext[i].event # next.impl
  BY DEF IInv, EventsAhead, DestroyListed, ForeignUnknown, Unknown
<1>6. UidsFresh'
  BY <1>1, <1>2, <1>5 DEF IInv, UidsFresh
<1>7. EventsAhead'
  BY <1>1, <1>2, <1>4 DEF IInv, EventsAhead
<1>8. DestroyListed'
  BY <1>1, <1>2, <1>5 DEF IInv, DestroyListed
<1>9. ForeignUnknown'
  <2>1. ASSUME NEW x, Unknown(x), x # next.impl PROVE Unknown(x)'
    BY <1>1, <1>2, <2>1 DEF Unknown
  <2>. QED
    BY <1>2, <1>5, <2>1 DEF IInv, ForeignUnknown
<1>10. IdsAccurate'
  <2>1. ASSUME NEW id \in ids, id # NullId, id.uid # DESTROY
        PROVE  id \in m_events' \/ id.impl \in m_cancel \/ ~AfterNow(id)'
    <3>1. id \in m_events \/ id.impl \in m_cancel \/ ~AfterNow(id)
      BY <1>2, <2>1 DEF IInv, IdsAccurate
    <3>2. CASE id = next
      BY <1>1, <1>3, <3>2 DEF AfterNow
    <3>3. CASE ~AfterNow(id)
      BY <1>1, <1>3, <1>5, <2>1, <3>3 DEF AfterNow
    <3>. QED
      BY <1>1, <3>1, <3>2, <3>3
  <2>2. \A id \in ids : id = NullId \/
           /\ id.impl \in 0..impls - 1
           /\ \A e \in m_events' : e.impl = id.impl => e = id
           /\ \A i \in 1..Len(m_destroyEvents) :
                 m_destroyEvents[i].impl = id.impl => m_destroyEvents[i] = id
           /\ id.uid # DESTROY => VALID <= id.uid /\ id.uid < m_uid
    BY <1>1 DEF IInv, IdsAccurate
  <2>. QED
    BY <1>2, <2>1, <2>2 DEF IdsAccurate
<1>11. Withdrawn'
  <2>1. next.impl \in 0..impls - 1
    BY <1>3, <1>5
  <2>. QED
    BY <1>1, <1>2, <1>5, <2>1 DEF IInv, Withdrawn
<1>12. Counted'
  BY <1>1, <1>2, FS_RemoveElement DEF IInv, Counted
<1>13. Disposed'
  BY <1>2 DEF IInv, Disposed
<1>. QED
  BY <1>6, <1>7, <1>8, <1>9, <1>10, <1>11, <1>12, <1>13 DEF IInv

\* Steps that move no event: where the main thread goes, and the stop flag.
LEMMA FrameKeepsIInv ==
  ASSUME IInv, TypeOK', pc # "none", pc' # "none",
         pc' \in {"process", "insert"} /\ caller' = "dispose" => m_destroyEvents = <<>>,
         pc' = "notify" => caller' = "loop",
         UNCHANGED <<m_events, m_destroyEvents, m_uid, clock, m_unscheduledEvents,
                     m_eventsWithContext, eventsWithContext, m_cancel, impls, ids,
                     notified, removed>>
  PROVE  IInv'
<1>1. UidsFresh' /\ EventsAhead' /\ DestroyListed' /\ Withdrawn' /\ Counted' /\ Disposed'
  BY DEF IInv, UidsFresh, EventsAhead, DestroyListed, Withdrawn, Counted, Disposed,
         AfterNow, clock
<1>2. ForeignUnknown'
  BY DEF IInv, ForeignUnknown, Unknown
<1>3. IdsAccurate'
  BY DEF IInv, IdsAccurate, AfterNow, clock
<1>. QED
  BY <1>1, <1>2, <1>3 DEF IInv

\* Disposing of the implementation empties the event list; the destroy list was
\* emptied before.
LEMMA ReturnFromProcessKeepsIInv ==
  ASSUME IInv, TypeOK', pc \in {"process", "insert"}, ReturnFromProcess, UNCHANGED foreign
  PROVE  IInv'
<1>1. UNCHANGED <<m_destroyEvents, m_uid, clock, m_unscheduledEvents,
                  m_eventsWithContext, eventsWithContext, m_cancel, caller, impls, ids,
                  notified, removed>>
  BY DEF ReturnFromProcess, foreign, history
<1>2. CASE caller = "dispose"
  <2>1. m_events' = {} /\ pc' = "none" /\ m_destroyEvents = <<>>
    BY <1>2 DEF ReturnFromProcess, IInv, Disposed
  <2>2. UidsFresh' /\ EventsAhead' /\ DestroyListed' /\ Withdrawn' /\ Disposed'
    BY <1>1, <2>1 DEF IInv, UidsFresh, EventsAhead, DestroyListed, Withdrawn, Disposed,
                      AfterNow, clock
  <2>3. Counted'
    BY <2>1, FS_EmptySet DEF Counted
  <2>4. ForeignUnknown'
    BY <1>1, <2>1 DEF IInv, ForeignUnknown, Unknown
  <2>5. IdsAccurate'
    BY <1>1, <2>1 DEF IInv, IdsAccurate
  <2>. QED
    BY <2>2, <2>3, <2>4, <2>5 DEF IInv
<1>3. CASE caller # "dispose"
  BY <1>1, <1>3, FrameKeepsIInv DEF ReturnFromProcess
<1>. QED
  BY <1>2, <1>3

\* A new implementation starts from nothing.
LEMMA CreateKeepsIInv ==
  ASSUME IInv, TypeOK', Create
  PROVE  IInv'
<1>1. UidsFresh' /\ EventsAhead' /\ DestroyListed' /\ ForeignUnknown' /\ Withdrawn'
  BY DEF Create, UidsFresh, EventsAhead, DestroyListed, ForeignUnknown, Withdrawn,
         VALID, INVALID
<1>2. IdsAccurate' /\ Counted' /\ Disposed'
  BY FS_EmptySet DEF Create, IdsAccurate, Counted, Disposed
<1>. QED
  BY <1>1, <1>2 DEF IInv

LEMMA IInvInductive ==
  ASSUME NoWrap
  PROVE  IInv /\ [Next]_vars => IInv'
<1> SUFFICES ASSUME IInv, [Next]_vars PROVE IInv'
  OBVIOUS
<1>0. TypeOK'
  BY TypeInductive DEF IInv
<1>1. ASSUME NEW d \in Delays \cup {0}, NEW b \in BOOLEAN, DoSchedule(d, b) PROVE IInv'
  BY <1>0, <1>1, DoScheduleKeepsIInv
<1>2. ASSUME NEW c \in Contexts, NEW d \in ForeignDelays, ScheduleWithContext(c, d)
      PROVE  IInv'
  BY <1>0, <1>2, ScheduleWithContextKeepsIInv
<1>3. CASE ScheduleDestroy
  BY <1>0, <1>3, ScheduleDestroyKeepsIInv
<1>4. ASSUME NEW id \in ids, Cancel(id) PROVE IInv'
  BY <1>0, <1>4, CancelKeepsIInv
<1>5. ASSUME NEW id \in ids, RemoveDestroy(id) PROVE IInv'
  BY <1>0, <1>5, RemoveDestroyKeepsIInv
<1>6. ASSUME NEW id \in ids, RemoveScheduled(id) PROVE IInv'
  BY <1>0, <1>6, RemoveScheduledKeepsIInv
<1>7. CASE Stop
  BY <1>0, <1>7, FrameKeepsIInv
     DEF Stop, UserCode, foreign, history, IInv, Disposed
<1>8. ASSUME NEW c \in Contexts, NEW d \in ForeignDelays,
             ScheduleWithContextForeign(c, d)
      PROVE  IInv'
  BY <1>0, <1>8, ForeignKeepsIInv
<1>9. CASE ProcessNothing \/ InsertDone
  BY <1>0, <1>9, ReturnFromProcessKeepsIInv DEF ProcessNothing, InsertDone
<1>10. CASE SwapEventsWithContext
  BY <1>0, <1>10, SwapKeepsIInv
<1>11. CASE InsertEventWithContext
  BY <1>0, <1>11, InsertEventWithContextKeepsIInv
<1>12. CASE ProcessOneEvent
  BY <1>0, <1>12, ProcessOneEventKeepsIInv
<1>13. CASE NotifyReturns
  BY <1>0, <1>13, FrameKeepsIInv
     DEF NotifyReturns, Goto, foreign, history, IInv, Disposed
<1>14. CASE RunReturns \/ Destroy \/ DestroyNotifyReturns
  BY <1>0, <1>14, FrameKeepsIInv
     DEF RunReturns, Destroy, DestroyNotifyReturns, Goto, foreign, history
<1>15. CASE Run \/ Dispose
  BY <1>0, <1>15, FrameKeepsIInv DEF Run, Dispose, foreign, history
<1>16. CASE DestroyOneEvent
  BY <1>0, <1>16, DestroyOneEventKeepsIInv
<1>17. CASE Create
  BY <1>0, <1>17, CreateKeepsIInv
<1>18. CASE UNCHANGED vars
  BY <1>18 DEF vars, clock, foreign, history, IInv, TypeOK, UidsFresh, EventsAhead,
               DestroyListed, ForeignUnknown, IdsAccurate, Withdrawn, Counted, Disposed,
               AfterNow, Unknown
<1>. QED
  BY <1>1, <1>2, <1>3, <1>4, <1>5, <1>6, <1>7, <1>8, <1>9, <1>10, <1>11, <1>12,
     <1>13, <1>14, <1>15, <1>16, <1>17, <1>18
     DEF Next, UserStep, ForeignStep, EngineStep, Schedule, ScheduleNow, StopAfter

LEMMA InitIInv == Init => IInv
<1> SUFFICES ASSUME Init PROVE IInv
  OBVIOUS
<1>1. UidsFresh /\ EventsAhead /\ DestroyListed /\ ForeignUnknown /\ Withdrawn
  BY DEF Init, UidsFresh, EventsAhead, DestroyListed, ForeignUnknown, Withdrawn,
         VALID, INVALID
<1>2. IdsAccurate /\ Counted /\ Disposed
  BY FS_EmptySet DEF Init, IdsAccurate, Counted, Disposed
<1>. QED
  BY <1>1, <1>2, InitTypeOK DEF IInv

-----------------------------------------------------------------------------
\* The inductive invariant holds of every run in which uids do not wrap around.
THEOREM EngineInvariant == ASSUME NoWrap PROVE Spec => []IInv
<1>1. IInv /\ [Next]_vars => IInv'
  BY IInvInductive
<1>. QED
  BY <1>1, InitIInv, PTL DEF Spec

\* EventId::IsRunning is true exactly of the events still queued with a clear
\* cancel bit, however Schedule, Cancel, Remove and other threads interleave.
THEOREM EventIdCorrect == ASSUME NoWrap PROVE Spec => []EventIdTruth
BY EngineInvariant, IdsTruth, PTL

\* The counter behind the final assertion of Run is the size of the event list.
THEOREM UnscheduledCorrect == ASSUME NoWrap PROVE Spec => []UnscheduledCount
<1>1. IInv => UnscheduledCount
  BY DEF IInv, Counted, UnscheduledCount
<1>. QED
  BY <1>1, EngineInvariant, PTL

\* A cancelled or removed event is never notified.
THEOREM CancelCorrect == ASSUME NoWrap PROVE Spec => []CancelHolds
<1>1. IInv => CancelHolds
  BY DEF IInv, Withdrawn, CancelHolds
<1>. QED
  BY <1>1, EngineInvariant, PTL

\* Events are executed in strictly increasing (time stamp, uid) order.
THEOREM OrderCorrect == ASSUME NoWrap PROVE Spec => DispatchOrder
<1> DEFINE Ordered == m_eventCount' > m_eventCount =>
               \/ m_currentTs < m_currentTs'
               \/ m_currentTs = m_currentTs' /\ m_currentUid < m_currentUid'
<1>1. IInv /\ [Next]_vars => [Ordered]_vars
  <2> SUFFICES ASSUME IInv, Next, m_eventCount' > m_eventCount
               PROVE  \/ m_currentTs < m_currentTs'
                      \/ m_currentTs = m_currentTs' /\ m_currentUid < m_currentUid'
    OBVIOUS
  <2>1. m_eventCount \in Nat
    BY DEF IInv, TypeOK
  <2>2. CASE ProcessOneEvent
    BY <2>2 DEF ProcessOneEvent, IInv, EventsAhead, AfterNow
  <2>3. CASE Create
    BY <2>1, <2>3 DEF Create
  <2>4. CASE m_eventCount' = m_eventCount
    BY <2>1, <2>4
  <2>. QED
    BY <2>2, <2>3, <2>4
       DEF Next, UserStep, ForeignStep, EngineStep, Schedule, ScheduleNow, StopAfter,
           DoSchedule, ScheduleWithContext, ScheduleDestroy, Cancel, RemoveDestroy,
           RemoveScheduled, Stop, ScheduleWithContextForeign, ProcessNothing,
           ReturnFromProcess, SwapEventsWithContext, InsertEventWithContext, InsertDone,
           NotifyReturns, RunReturns, Goto, DestroyOneEvent, DestroyNotifyReturns,
           Dispose, Run, Destroy, clock
<1>. QED
  BY <1>1, EngineInvariant, PTL DEF Spec, DispatchOrder

-----------------------------------------------------------------------------
(***************************************************************************)
(* The engine implements the event calendar: every step is a calendar step *)
(* or leaves the calendar alone.                                           *)
(***************************************************************************)
Agenda == {e \in m_events : e.impl \notin m_cancel}
Fired == notified \ DestroyImpls

\* A new event, never fired and with the largest uid, is an Add.
LEMMA NewEventIsAdd ==
  ASSUME IInv, NEW ev, ev.uid = m_uid, ev.uid # DESTROY, ev.ts \in Nat,
         m_currentTs <= ev.ts, ev.impl \notin notified \cup m_cancel,
         \A e \in m_events : e.impl # ev.impl,
         m_events' = m_events \cup {ev}, ids' = ids \/ ids' = ids \cup {ev},
         UNCHANGED <<m_currentTs, m_cancel, notified>>
  PROVE  Calendar!Add
<1>1. Agenda' = Agenda \cup {ev} /\ ev \in Agenda'
  BY DEF Agenda
<1>2. DestroyImpls' = DestroyImpls
  BY DEF DestroyImpls
<1>3. \A f \in Agenda : f.impl # ev.impl /\ f.uid < ev.uid
  BY DEF Agenda, IInv, EventsAhead
<1>4. m_currentTs \in Nat
  BY DEF IInv, TypeOK
<1>. QED
  BY <1>1, <1>2, <1>3, <1>4 DEF Calendar!Add, Agenda

\* Steps in which no event is added, withdrawn or fired.
LEMMA HiddenStep ==
  ASSUME UNCHANGED <<m_events, m_cancel, m_currentTs>>,
         notified' \ DestroyImpls' = notified \ DestroyImpls
  PROVE  UNCHANGED Calendar!calendar
BY DEF Calendar!calendar

LEMMA DestroyIsHidden ==
  ASSUME IInv, DestroyOneEvent
  PROVE  UNCHANGED Calendar!calendar
<1> PICK ev : ev = Head(m_destroyEvents)
  OBVIOUS
<1>1. 1 \in 1..Len(m_destroyEvents) /\ ev = m_destroyEvents[1]
  BY DEF IInv, TypeOK, DestroyOneEvent
<1>2. ev \in ids /\ ev.uid = DESTROY
  BY <1>1 DEF IInv, DestroyListed
<1>3. ev.impl \in DestroyImpls
  BY <1>2 DEF DestroyImpls
<1>4. /\ UNCHANGED <<m_events, m_cancel, m_currentTs, ids>>
      /\ notified' = notified \/ notified' = notified \cup {ev.impl}
  BY DEF DestroyOneEvent, clock
<1>5. notified' \ DestroyImpls' = notified \ DestroyImpls
  BY <1>3, <1>4 DEF DestroyImpls
<1>. QED
  BY <1>4, <1>5, HiddenStep

\* Cancel and Remove of a live event of the list are the same to the calendar.
LEMMA WithdrawalStep ==
  ASSUME IInv, NEW id \in m_events, id.impl \notin m_cancel,
         m_events' = m_events \/ m_events' = m_events \ {id},
         m_cancel' = m_cancel \cup {id.impl},
         UNCHANGED <<m_currentTs, notified, ids>>
  PROVE  Calendar!Withdraw
<1>1. Agenda' = Agenda \ {id} /\ id \in Agenda
  BY DEF Agenda, IInv, EventsAhead
<1>. QED
  BY <1>1 DEF Calendar!Withdraw, Agenda, DestroyImpls

\* The least event of the list is fired, or passed over if it was cancelled.
LEMMA DispatchStep ==
  ASSUME IInv, ProcessOneEvent
  PROVE  Calendar!Fire \/ Calendar!Pass
<1>1. PICK next \in m_events :
         /\ \A e \in m_events : ~Before(e, next)
         /\ m_events' = m_events \ {next}
         /\ m_currentTs' = next.ts
         /\ notified' = IF next.impl \in m_cancel THEN notified
                        ELSE notified \cup {next.impl}
  BY DEF ProcessOneEvent, IsNext, IsCancelled
<1>2. UNCHANGED <<m_cancel, ids>>
  BY DEF ProcessOneEvent
<1>3. /\ m_currentTs \in Nat
      /\ \A e \in m_events : e.uid \in Nat /\ e.ts \in Nat
  BY Typed DEF IInv
<1>4. m_currentTs <= next.ts
  BY <1>3 DEF IInv, EventsAhead, AfterNow
<1>5. \A f \in m_events \ {next} :
         next.ts <= f.ts /\ (next.ts < f.ts \/ (next.ts = f.ts /\ next.uid < f.uid))
  BY <1>1, <1>3 DEF Before, IInv, EventsAhead
<1>6. next.impl \notin DestroyImpls
  <2>1. next.uid # DESTROY
    BY <1>3 DEF IInv, EventsAhead, VALID, DESTROY
  <2>2. \A id \in ids : id.impl = next.impl => id = next
    BY <2>1, <1>3, Typed, NullAssumption DEF IInv, IdsAccurate, NullId, Event
  <2>. QED
    BY <2>1, <2>2 DEF DestroyImpls
<1>7. CASE next.impl \in m_cancel
  <2>1. Agenda' = Agenda
    BY <1>1, <1>2, <1>7 DEF Agenda
  <2>2. \A e \in Agenda : next.ts <= e.ts
    BY <1>5, <1>7 DEF Agenda
  <2>. QED
    BY <1>1, <1>2, <1>4, <1>7, <2>1, <2>2 DEF Calendar!Pass, Agenda, DestroyImpls
<1>8. CASE next.impl \notin m_cancel
  <2>1. next \in Agenda /\ Agenda' = Agenda \ {next}
    BY <1>1, <1>2, <1>8 DEF Agenda
  <2>2. \A f \in Agenda \ {next} : Calendar!Earlier(next, f)
    BY <1>5 DEF Agenda, Calendar!Earlier
  <2>3. Fired' = Fired \cup {next.impl}
    BY <1>1, <1>2, <1>6, <1>8 DEF Fired, DestroyImpls
  <2>. QED
    BY <1>1, <1>4, <2>1, <2>2, <2>3 DEF Calendar!Fire, Agenda, Fired
<1>. QED
  BY <1>7, <1>8

LEMMA DoScheduleIsAdd ==
  ASSUME NoWrap, IInv, NEW d \in Delays \cup {0}, NEW b \in BOOLEAN, DoSchedule(d, b)
  PROVE  Calendar!Add
<1>1. Clamp(d) \in Nat /\ m_currentTs \in Nat
  <2>1. Clamp(d) \in Nat
    BY DelaysAssumption DEF Clamp
  <2>. QED
    BY <2>1 DEF IInv, TypeOK
<1> PICK ev : ev = Event(impls, m_currentTs + Clamp(d), m_uid, m_currentContext)
  OBVIOUS
<1>2. ev.impl = impls /\ ev.uid = m_uid /\ ev.ts \in Nat /\ m_currentTs <= ev.ts
  BY <1>1 DEF Event
<1>3. m_events' = m_events \cup {ev} /\ ids' = ids \cup {ev}
  BY DEF DoSchedule, InsertNew
<1>4. /\ impls \notin notified \cup m_cancel /\ \A e \in m_events : e.impl # impls
      /\ m_uid # DESTROY
  BY Typed DEF IInv, Withdrawn, EventsAhead, UidsFresh, VALID, DESTROY
<1>. QED
  BY <1>2, <1>3, <1>4, NewEventIsAdd DEF DoSchedule, clock

LEMMA ScheduleWithContextIsAdd ==
  ASSUME NoWrap, IInv, NEW c \in Contexts, NEW d \in ForeignDelays,
         ScheduleWithContext(c, d)
  PROVE  Calendar!Add
<1>1. d \in Nat /\ m_currentTs \in Nat
  BY ForeignDelaysAssumption, Typed DEF IInv
<1> PICK ev : ev = Event(impls, m_currentTs + d, m_uid, c)
  OBVIOUS
<1>2. ev.impl = impls /\ ev.uid = m_uid /\ ev.ts \in Nat /\ m_currentTs <= ev.ts
  BY <1>1 DEF Event
<1>3. m_events' = m_events \cup {ev}
  BY DEF ScheduleWithContext, InsertNew
<1>4. /\ impls \notin notified \cup m_cancel /\ \A e \in m_events : e.impl # impls
      /\ m_uid # DESTROY
  BY Typed DEF IInv, Withdrawn, EventsAhead, UidsFresh, VALID, DESTROY
<1>. QED
  BY <1>2, <1>3, <1>4, NewEventIsAdd DEF ScheduleWithContext, clock, history

LEMMA InsertEventWithContextIsAdd ==
  ASSUME IInv, InsertEventWithContext
  PROVE  Calendar!Add
<1> PICK fe : fe = Head(eventsWithContext)
  OBVIOUS
<1> PICK ev : ev = Event(fe.event, m_currentTs + fe.timestamp, m_uid, fe.context)
  OBVIOUS
<1>1. 1 \in 1..Len(eventsWithContext) /\ fe = eventsWithContext[1] /\ fe \in ForeignType
  BY Typed DEF IInv, TypeOK, InsertEventWithContext
<1>2. fe.timestamp \in Nat /\ m_currentTs \in Nat /\ m_uid \in Nat
  BY <1>1, ForeignDelaysAssumption, Typed DEF ForeignType, IInv
<1>3. Unknown(fe.event)
  BY <1>1 DEF IInv, ForeignUnknown
<1>4. /\ ev.impl = fe.event /\ ev.uid = m_uid /\ ev.ts \in Nat /\ m_currentTs <= ev.ts
      /\ m_events' = m_events \cup {ev}
      /\ UNCHANGED <<m_currentTs, m_cancel, ids, notified>>
  BY <1>2 DEF InsertEventWithContext, InsertNew, Event, history, clock
<1>5. m_uid # DESTROY
  BY <1>2 DEF IInv, UidsFresh, VALID, DESTROY
<1>. QED
  BY <1>3, <1>4, <1>5, NewEventIsAdd DEF Unknown

LEMMA CancelIsWithdraw ==
  ASSUME IInv, NEW id \in ids, Cancel(id)
  PROVE  Calendar!Withdraw \/ UNCHANGED Calendar!calendar
<1>1. id \in m_events \cup DestroyIds /\ id.impl \notin m_cancel
  BY IdsTruth DEF EventIdTruth, Cancel
<1>2. /\ m_cancel' = m_cancel \cup {id.impl}
      /\ UNCHANGED <<m_events, m_currentTs, notified, ids>>
  BY DEF Cancel, clock, history
<1>3. CASE id \in m_events
  BY <1>1, <1>2, <1>3, WithdrawalStep
<1>4. CASE id \in DestroyIds
  <2>1. \A e \in m_events : e.impl # id.impl
    BY <1>4 DEF IInv, DestroyListed, DestroyIds
  <2>. QED
    BY <1>2, <2>1 DEF Calendar!calendar, DestroyImpls
<1>. QED
  BY <1>1, <1>3, <1>4

LEMMA RemoveIsWithdraw ==
  ASSUME IInv, NEW id \in ids, RemoveScheduled(id)
  PROVE  Calendar!Withdraw
<1>1. id \in m_events /\ id.impl \notin m_cancel
  BY IdsTruth DEF EventIdTruth, RemoveScheduled, IInv, DestroyListed, DestroyIds
<1>2. /\ m_cancel' = m_cancel \cup {id.impl} /\ m_events' = m_events \ {id}
      /\ UNCHANGED <<m_currentTs, notified, ids>>
  BY DEF RemoveScheduled, clock
<1>. QED
  BY <1>1, <1>2, WithdrawalStep

LEMMA ScheduleDestroyIsHidden ==
  ASSUME IInv, ScheduleDestroy
  PROVE  UNCHANGED Calendar!calendar
<1>1. impls \notin notified
  BY Typed DEF IInv, Withdrawn
<1>2. PICK id : id.impl = impls /\ id.uid = DESTROY /\ ids' = ids \cup {id}
  BY DEF ScheduleDestroy, Event
<1>3. UNCHANGED <<m_events, m_cancel, m_currentTs, notified>>
  BY DEF ScheduleDestroy, clock
<1>4. notified' \ DestroyImpls' = notified \ DestroyImpls
  BY <1>1, <1>2, <1>3 DEF DestroyImpls
<1>. QED
  BY <1>3, <1>4, HiddenStep

LEMMA ReturnFromProcessIsClose ==
  ASSUME ReturnFromProcess
  PROVE  Calendar!Close \/ UNCHANGED Calendar!calendar
<1>1. UNCHANGED <<m_currentTs, m_cancel, notified, ids>>
  BY DEF ReturnFromProcess, clock, history
<1>2. CASE m_events' = {}
  BY <1>1, <1>2 DEF Calendar!Close, DestroyImpls
<1>3. CASE m_events' = m_events
  BY <1>1, <1>3, HiddenStep DEF DestroyImpls
<1>. QED
  BY <1>2, <1>3 DEF ReturnFromProcess

LEMMA StepImplementsCalendar ==
  ASSUME NoWrap, IInv, [Next]_vars
  PROVE  [Calendar!Next]_(Calendar!calendar)
<1> USE DEF Calendar!Next
<1>1. ASSUME NEW d \in Delays \cup {0}, NEW b \in BOOLEAN, DoSchedule(d, b)
      PROVE  Calendar!Add
  BY <1>1, DoScheduleIsAdd
<1>2. ASSUME NEW c \in Contexts, NEW d \in ForeignDelays, ScheduleWithContext(c, d)
      PROVE  Calendar!Add
  BY <1>2, ScheduleWithContextIsAdd
<1>3. ASSUME NEW id \in ids, Cancel(id)
      PROVE  Calendar!Withdraw \/ UNCHANGED Calendar!calendar
  BY <1>3, CancelIsWithdraw
<1>4. ASSUME NEW id \in ids, RemoveScheduled(id) PROVE Calendar!Withdraw
  BY <1>4, RemoveIsWithdraw
<1>5. ASSUME NEW id \in ids, RemoveDestroy(id) PROVE UNCHANGED Calendar!calendar
  BY <1>5 DEF RemoveDestroy, clock, Calendar!calendar, DestroyImpls
<1>6. ASSUME NEW c \in Contexts, NEW d \in ForeignDelays,
             ScheduleWithContextForeign(c, d)
      PROVE  UNCHANGED Calendar!calendar
  BY <1>6 DEF ScheduleWithContextForeign, clock, history, Calendar!calendar, DestroyImpls
<1>7. CASE ProcessNothing \/ InsertDone
  BY <1>7, ReturnFromProcessIsClose DEF ProcessNothing, InsertDone
<1>8. CASE Stop \/ SwapEventsWithContext \/ NotifyReturns \/ RunReturns \/ Destroy
           \/ DestroyNotifyReturns \/ Run \/ Dispose \/ UNCHANGED vars
  BY <1>8 DEF Stop, SwapEventsWithContext, NotifyReturns, RunReturns, Destroy,
              DestroyNotifyReturns, Run, Dispose, Goto, vars, clock, history,
              Calendar!calendar, DestroyImpls
<1>9. CASE Create
  BY <1>9 DEF Create, IInv, Disposed, Calendar!Restart, Calendar!Init
<1>. QED
  BY <1>1, <1>2, <1>3, <1>4, <1>5, <1>6, <1>7, <1>8, <1>9, ScheduleDestroyIsHidden,
     DispatchStep, InsertEventWithContextIsAdd, DestroyIsHidden
     DEF Next, UserStep, ForeignStep, EngineStep, Schedule, ScheduleNow, StopAfter

\* Lazy cancellation, late transfer of other threads' events and the destroy list
\* are invisible: the engine implements the event calendar.
THEOREM CalendarImplemented == ASSUME NoWrap PROVE Spec => ImplementsCalendar
<1>1. Init => Calendar!Init
  BY DEF Init, Calendar!Init
<1>2. IInv /\ [Next]_vars => [Calendar!Next]_(Calendar!calendar)
  BY StepImplementsCalendar
<1>. QED
  BY <1>1, <1>2, EngineInvariant, PTL DEF Spec, ImplementsCalendar, Calendar!Spec

-----------------------------------------------------------------------------
(***************************************************************************)
(* Nothing is lost. IInv tells that no EventImpl is in two places; that    *)
(* each is in one is an invariant of its own, which needs that the swapped *)
(* queue is empty when ProcessEventsWithContext swaps again.               *)
(***************************************************************************)
Located(i) ==
    \/ \E e \in m_events : e.impl = i
    \/ \E k \in 1..Len(m_destroyEvents) : m_destroyEvents[k].impl = i
    \/ \E k \in 1..Len(m_eventsWithContext) : m_eventsWithContext[k].event = i
    \/ \E k \in 1..Len(eventsWithContext) : eventsWithContext[k].event = i
    \/ i \in notified \cup m_cancel \cup removed

LInv ==
    /\ pc # "insert" => eventsWithContext = <<>>
    /\ pc # "none" => \A i \in 0..impls - 1 : Located(i)

\* A step that creates at most one EventImpl and moves the others keeps LInv.
LEMMA MovingKeepsLInv ==
  ASSUME IInv, LInv, pc # "none", impls' \in {impls, impls + 1},
         \A i : Located(i) \/ (i = impls /\ impls' # impls) => Located(i)',
         pc' # "insert" => eventsWithContext' = <<>>
  PROVE  LInv'
<1>1. impls \in Nat
  BY Typed DEF IInv
<1>2. ASSUME NEW i \in 0..impls' - 1
      PROVE  i \in 0..impls - 1 \/ (i = impls /\ impls' # impls)
  <2>1. CASE impls' = impls
    BY <2>1
  <2>2. CASE impls' = impls + 1
    BY <1>1, <2>2
  <2> QED
    BY <2>1, <2>2
<1>3. \A i \in 0..impls' - 1 : Located(i)'
  BY <1>2 DEF LInv
<1> QED
  BY <1>3 DEF LInv

\* Operations that add to the lists only.
LEMMA CreatingKeepsLInv ==
  ASSUME IInv, LInv, pc # "none",
         \/ \E d \in Delays \cup {0}, b \in BOOLEAN : DoSchedule(d, b)
         \/ \E c \in Contexts, d \in ForeignDelays : ScheduleWithContext(c, d)
         \/ \E c \in Contexts, d \in ForeignDelays : ScheduleWithContextForeign(c, d)
         \/ ScheduleDestroy
  PROVE  LInv'
<1>1. /\ m_destroyEvents \in Seq(EventType) /\ m_eventsWithContext \in Seq(ForeignType)
  BY DEF IInv, TypeOK
<1>2. CASE \/ \E d \in Delays \cup {0}, b \in BOOLEAN : DoSchedule(d, b)
           \/ \E c \in Contexts, d \in ForeignDelays : ScheduleWithContext(c, d)
  <2>1. /\ impls' = impls + 1
        /\ UNCHANGED <<m_destroyEvents, m_eventsWithContext, eventsWithContext, notified,
                       m_cancel, removed, pc>>
    BY <1>2 DEF DoSchedule, ScheduleWithContext, foreign, history
  <2>2. PICK ts, context : InsertNew(impls, ts, context)
    BY <1>2 DEF DoSchedule, ScheduleWithContext
  <2> DEFINE ev == Event(impls, ts, m_uid, context)
  <2>3. m_events' = m_events \cup {ev} /\ ev.impl = impls
    BY <2>2 DEF InsertNew, Event
  <2> HIDE DEF ev
  <2>4. \A i : Located(i) \/ i = impls => Located(i)'
    BY <2>1, <2>3 DEF Located
  <2> QED
    BY <2>1, <2>4, MovingKeepsLInv DEF LInv
<1>3. CASE \E c \in Contexts, d \in ForeignDelays : ScheduleWithContextForeign(c, d)
  <2>1. PICK fe : /\ fe.event = impls /\ m_eventsWithContext' = Append(m_eventsWithContext, fe)
    BY <1>3 DEF ScheduleWithContextForeign
  <2>2. /\ impls' = impls + 1
        /\ UNCHANGED <<m_events, m_destroyEvents, eventsWithContext, notified, m_cancel,
                       removed, pc>>
    BY <1>3 DEF ScheduleWithContextForeign, history
  <2>3. /\ Len(m_eventsWithContext') = Len(m_eventsWithContext) + 1
        /\ m_eventsWithContext'[Len(m_eventsWithContext) + 1] = fe
        /\ \A k \in 1..Len(m_eventsWithContext) : m_eventsWithContext'[k] = m_eventsWithContext[k]
        /\ Len(m_eventsWithContext) \in Nat
    BY <1>1, <2>1
  <2>4. \A k \in 1..Len(m_eventsWithContext) : k \in 1..Len(m_eventsWithContext')
    BY <2>3
  <2>5. Len(m_eventsWithContext) + 1 \in 1..Len(m_eventsWithContext')
    BY <2>3
  <2>6. \A i : Located(i) \/ i = impls => Located(i)'
    BY <2>1, <2>2, <2>3, <2>4, <2>5 DEF Located
  <2> QED
    BY <2>2, <2>6, MovingKeepsLInv DEF LInv
<1>4. CASE ScheduleDestroy
  <2>1. PICK id : id.impl = impls /\ m_destroyEvents' = Append(m_destroyEvents, id)
    BY <1>4 DEF ScheduleDestroy, Event
  <2>2. /\ impls' = impls + 1
        /\ UNCHANGED <<m_events, m_eventsWithContext, eventsWithContext, notified, m_cancel,
                       removed, pc>>
    BY <1>4 DEF ScheduleDestroy, foreign
  <2>3. /\ Len(m_destroyEvents') = Len(m_destroyEvents) + 1
        /\ m_destroyEvents'[Len(m_destroyEvents) + 1] = id
        /\ \A k \in 1..Len(m_destroyEvents) : m_destroyEvents'[k] = m_destroyEvents[k]
        /\ Len(m_destroyEvents) \in Nat
    BY <1>1, <2>1
  <2>4. \A k \in 1..Len(m_destroyEvents) : k \in 1..Len(m_destroyEvents')
    BY <2>3
  <2>5. Len(m_destroyEvents) + 1 \in 1..Len(m_destroyEvents')
    BY <2>3
  <2>6. \A i : Located(i) \/ i = impls => Located(i)'
    BY <2>1, <2>2, <2>3, <2>4, <2>5 DEF Located
  <2> QED
    BY <2>2, <2>6, MovingKeepsLInv DEF LInv
<1> QED
  BY <1>2, <1>3, <1>4

\* Operations that withdraw an event leave a trace of it.
LEMMA WithdrawingKeepsLInv ==
  ASSUME IInv, LInv, pc # "none", NEW id \in ids,
         Cancel(id) \/ RemoveScheduled(id) \/ RemoveDestroy(id)
  PROVE  LInv'
<1>1. CASE Cancel(id)
  <2>1. /\ m_cancel \subseteq m_cancel'
        /\ UNCHANGED <<m_events, m_destroyEvents, m_eventsWithContext, eventsWithContext,
                       notified, removed, pc, impls>>
    BY <1>1 DEF Cancel, foreign, history
  <2>2. \A i : Located(i) => Located(i)'
    BY <2>1 DEF Located
  <2> QED
    BY <2>1, <2>2, MovingKeepsLInv DEF LInv
<1>2. CASE RemoveScheduled(id)
  <2>1. /\ m_events' = m_events \ {id} /\ removed' = removed \cup {id.impl}
        /\ m_cancel \subseteq m_cancel'
        /\ UNCHANGED <<m_destroyEvents, m_eventsWithContext, eventsWithContext,
                       notified, pc, impls>>
    BY <1>2 DEF RemoveScheduled, foreign
  <2>2. \A i : Located(i) => Located(i)'
    BY <2>1 DEF Located
  <2> QED
    BY <2>1, <2>2, MovingKeepsLInv DEF LInv
<1>3. CASE RemoveDestroy(id)
  <2>1. PICK k \in 1..Len(m_destroyEvents) :
           /\ m_destroyEvents[k] = id
           /\ m_destroyEvents' = SubSeq(m_destroyEvents, 1, k - 1)
                                 \o SubSeq(m_destroyEvents, k + 1, Len(m_destroyEvents))
    BY <1>3 DEF RemoveDestroy
  <2>2. m_destroyEvents \in Seq(EventType) /\ Len(m_destroyEvents) \in Nat
    BY DEF IInv, TypeOK
  <2>3. /\ Len(m_destroyEvents') = Len(m_destroyEvents) - 1
        /\ \A i \in 1..Len(m_destroyEvents') :
              m_destroyEvents'[i] = m_destroyEvents[IF i < k THEN i ELSE i + 1]
    BY <2>1, <2>2, RemoveAtSeq
  <2>4. /\ removed' = removed \cup {id.impl}
        /\ UNCHANGED <<m_events, m_eventsWithContext, eventsWithContext, notified, m_cancel,
                       pc, impls>>
    BY <1>3 DEF RemoveDestroy, foreign
  <2>5. ASSUME NEW j \in 1..Len(m_destroyEvents), j # k
        PROVE  \E i \in 1..Len(m_destroyEvents') : m_destroyEvents'[i] = m_destroyEvents[j]
    <3>1. CASE j < k
      BY <2>2, <2>3, <3>1
    <3>2. CASE ~(j < k)
      <4>1. j - 1 \in 1..Len(m_destroyEvents') /\ ~(j - 1 < k) /\ (j - 1) + 1 = j
        BY <2>2, <2>3, <2>5, <3>2
      <4> QED
        BY <2>3, <4>1
    <3> QED
      BY <3>1, <3>2
  <2>6. \A i : Located(i) => Located(i)'
    BY <2>1, <2>4, <2>5, ZenonT(60) DEF Located
  <2> QED
    BY <2>4, <2>6, MovingKeepsLInv DEF LInv
<1> QED
  BY <1>1, <1>2, <1>3

\* The transfer of the events of other threads, and the execution of events.
LEMMA EngineKeepsLInv ==
  ASSUME IInv, LInv, pc # "none",
         \/ SwapEventsWithContext \/ InsertEventWithContext
         \/ ProcessOneEvent \/ DestroyOneEvent
  PROVE  LInv'
<1>1. CASE SwapEventsWithContext
  <2>1. /\ eventsWithContext = <<>> /\ eventsWithContext' = m_eventsWithContext
        /\ pc' = "insert"
        /\ UNCHANGED <<m_events, m_destroyEvents, notified, removed, m_cancel, impls>>
    BY <1>1 DEF SwapEventsWithContext, LInv, history
  <2>2. \A i : Located(i) => Located(i)'
    BY <2>1 DEF Located
  <2> QED
    BY <2>1, <2>2, MovingKeepsLInv
<1>2. CASE InsertEventWithContext
  <2>1. eventsWithContext \in Seq(ForeignType) /\ eventsWithContext # <<>>
    BY <1>2 DEF IInv, TypeOK, InsertEventWithContext
  <2>2. /\ eventsWithContext' = Tail(eventsWithContext) /\ pc' = "insert"
        /\ UNCHANGED <<m_destroyEvents, m_eventsWithContext, notified, removed, m_cancel, impls>>
    BY <1>2 DEF InsertEventWithContext, history
  <2>3. /\ Head(eventsWithContext) = eventsWithContext[1]
        /\ Len(eventsWithContext') = Len(eventsWithContext) - 1
        /\ Len(eventsWithContext) \in Nat
        /\ \A i \in 1..Len(eventsWithContext') : eventsWithContext'[i] = eventsWithContext[i + 1]
    BY <2>1, <2>2
  <2>4. ASSUME NEW k \in 1..Len(eventsWithContext), k # 1
        PROVE  \E i \in 1..Len(eventsWithContext') : eventsWithContext'[i] = eventsWithContext[k]
    <3>1. k - 1 \in 1..Len(eventsWithContext') /\ (k - 1) + 1 = k
      BY <2>3, <2>4
    <3> QED
      BY <2>3, <3>1
  <2> DEFINE fe == Head(eventsWithContext)
             ev == Event(fe.event, m_currentTs + fe.timestamp, m_uid, fe.context)
  <2>5. m_events' = m_events \cup {ev} /\ ev.impl = fe.event
    BY <1>2 DEF InsertEventWithContext, InsertNew, Event
  <2> HIDE DEF ev
  <2>6. \A i : Located(i) => Located(i)'
    BY <2>2, <2>3, <2>4, <2>5, SMTT(30) DEF Located
  <2> QED
    BY <2>2, <2>6, MovingKeepsLInv
<1>3. CASE ProcessOneEvent
  <2>1. PICK next \in m_events :
           /\ m_events' = m_events \ {next}
           /\ notified' = IF IsCancelled(next.impl) THEN notified ELSE notified \cup {next.impl}
    BY <1>3 DEF ProcessOneEvent
  <2>2. /\ UNCHANGED <<m_destroyEvents, m_eventsWithContext, eventsWithContext, removed,
                       m_cancel, impls>>
        /\ pc = "loop"
    BY <1>3 DEF ProcessOneEvent, foreign
  <2>3. \A i : Located(i) => Located(i)'
    BY <2>1, <2>2 DEF Located, IsCancelled
  <2> QED
    BY <2>2, <2>3, MovingKeepsLInv DEF LInv
<1>4. CASE DestroyOneEvent
  <2>1. m_destroyEvents \in Seq(EventType) /\ m_destroyEvents # <<>>
    BY <1>4 DEF IInv, TypeOK, DestroyOneEvent
  <2>2. /\ m_destroyEvents' = Tail(m_destroyEvents)
        /\ UNCHANGED <<m_events, m_eventsWithContext, eventsWithContext, removed, m_cancel, impls>>
        /\ pc = "destroy"
    BY <1>4 DEF DestroyOneEvent, foreign
  <2>3. /\ Head(m_destroyEvents) = m_destroyEvents[1]
        /\ Len(m_destroyEvents') = Len(m_destroyEvents) - 1
        /\ Len(m_destroyEvents) \in Nat
        /\ \A i \in 1..Len(m_destroyEvents') : m_destroyEvents'[i] = m_destroyEvents[i + 1]
    BY <2>1, <2>2
  <2>4. ASSUME NEW k \in 1..Len(m_destroyEvents), k # 1
        PROVE  \E i \in 1..Len(m_destroyEvents') : m_destroyEvents'[i] = m_destroyEvents[k]
    <3>1. k - 1 \in 1..Len(m_destroyEvents') /\ (k - 1) + 1 = k
      BY <2>3, <2>4
    <3> QED
      BY <2>3, <3>1
  <2>5. /\ notified \subseteq notified'
        /\ m_destroyEvents[1].impl \in notified' \cup m_cancel
    BY <1>4, <2>3 DEF DestroyOneEvent, IsCancelled
  <2>6. \A i : Located(i) => Located(i)'
    BY <2>2, <2>4, <2>5 DEF Located
  <2> QED
    BY <2>2, <2>6, MovingKeepsLInv DEF LInv
<1> QED
  BY <1>1, <1>2, <1>3, <1>4

\* Steps that leave every event where it is, or throw all away.
LEMMA StayingKeepsLInv ==
  ASSUME LInv,
         \/ Stop \/ ProcessNothing \/ InsertDone \/ NotifyReturns \/ RunReturns \/ Destroy
         \/ DestroyNotifyReturns \/ Run \/ Dispose \/ Create \/ UNCHANGED vars
  PROVE  LInv'
<1>1. CASE Create
  <2>1. impls' = 0 /\ eventsWithContext' = <<>>
    BY <1>1 DEF Create
  <2> QED
    BY <2>1 DEF LInv
<1>2. CASE \/ Stop \/ NotifyReturns \/ RunReturns \/ Destroy \/ DestroyNotifyReturns
           \/ Run \/ Dispose \/ UNCHANGED vars
  <2>1. /\ UNCHANGED <<m_events, m_destroyEvents, m_eventsWithContext, eventsWithContext,
                       notified, m_cancel, removed, impls>>
        /\ pc' # "insert" => pc # "insert" \/ pc' = pc
        /\ pc' # "none" => pc # "none"
        /\ pc' = "insert" => pc = "insert"
    BY <1>2 DEF Stop, UserCode, NotifyReturns, RunReturns, Destroy, DestroyNotifyReturns, Goto,
                Run, Dispose, vars, foreign, history
  <2>2. \A i \in 0..impls - 1 : Located(i) => Located(i)'
    BY <2>1 DEF Located
  <2> QED
    BY <2>1, <2>2 DEF LInv
<1>3. CASE ProcessNothing \/ InsertDone
  <2>1. /\ UNCHANGED <<m_destroyEvents, m_eventsWithContext, eventsWithContext,
                       notified, m_cancel, removed, impls>>
        /\ pc # "none" /\ (pc = "process" \/ eventsWithContext = <<>>)
        /\ pc' # "none" => m_events' = m_events
    BY <1>3 DEF ProcessNothing, InsertDone, ReturnFromProcess, foreign, history
  <2>2. eventsWithContext' = <<>>
    BY <2>1 DEF LInv
  <2>3. pc' # "none" => \A i \in 0..impls - 1 : Located(i) => Located(i)'
    BY <2>1 DEF Located
  <2> QED
    BY <2>1, <2>2, <2>3 DEF LInv
<1> QED
  BY <1>1, <1>2, <1>3

LEMMA LInvInductive ==
  ASSUME IInv, LInv, [Next]_vars
  PROVE  LInv'
<1>1. ASSUME \/ \E d \in Delays \cup {0}, b \in BOOLEAN : DoSchedule(d, b)
             \/ \E c \in Contexts, d \in ForeignDelays : ScheduleWithContext(c, d)
             \/ \E c \in Contexts, d \in ForeignDelays : ScheduleWithContextForeign(c, d)
             \/ ScheduleDestroy
      PROVE  LInv'
  <2>1. pc # "none"
    BY <1>1 DEF DoSchedule, ScheduleWithContext, ScheduleWithContextForeign, ScheduleDestroy,
                UserCode
  <2> QED
    BY <1>1, <2>1, CreatingKeepsLInv
<1>2. ASSUME NEW id \in ids, Cancel(id) \/ RemoveScheduled(id) \/ RemoveDestroy(id)
      PROVE  LInv'
  <2>1. pc # "none"
    BY <1>2 DEF Cancel, RemoveScheduled, RemoveDestroy, UserCode
  <2> QED
    BY <1>2, <2>1, WithdrawingKeepsLInv
<1>3. ASSUME SwapEventsWithContext \/ InsertEventWithContext \/ ProcessOneEvent \/ DestroyOneEvent
      PROVE  LInv'
  <2>1. pc # "none"
    BY <1>3 DEF SwapEventsWithContext, InsertEventWithContext, ProcessOneEvent, DestroyOneEvent
  <2> QED
    BY <1>3, <2>1, EngineKeepsLInv
<1>4. ASSUME \/ Stop \/ ProcessNothing \/ InsertDone \/ NotifyReturns \/ RunReturns \/ Destroy
             \/ DestroyNotifyReturns \/ Run \/ Dispose \/ Create \/ UNCHANGED vars
      PROVE  LInv'
  BY <1>4, StayingKeepsLInv
<1> QED
  BY <1>1, <1>2, <1>3, <1>4
     DEF Next, UserStep, ForeignStep, EngineStep, Schedule, ScheduleNow, StopAfter

\* Both invariants together say where every EventImpl is, and that it is there only.
LEMMA LocatedOnce == IInv /\ LInv => NothingLost
<1> SUFFICES ASSUME IInv, LInv, pc # "none"
             PROVE  /\ 0..impls - 1 = Foreign \cup Queued \cup notified \cup m_cancel \cup removed
                    /\ (Foreign \cup Queued) \cap (notified \cup removed) = {}
                    /\ Foreign \cap Queued = {}
  BY DEF NothingLost
<1>1. \A i : Located(i) <=> i \in Foreign \cup Queued \cup notified \cup m_cancel \cup removed
  BY DEF Located, Foreign, Queued, DestroyIds
<1>2. ASSUME NEW i \in Foreign PROVE Unknown(i) /\ i \in 0..impls - 1
  <2>1. Unknown(i)
    BY DEF IInv, ForeignUnknown, Foreign
  <2>2. i \in Nat /\ impls \in Nat
    BY Typed DEF IInv, Foreign
  <2> QED
    BY <2>1, <2>2 DEF Unknown
<1>3. ASSUME NEW i \in Queued PROVE i \notin notified \cup removed /\ i \in 0..impls - 1
  <2>1. impls \in Nat
    BY Typed DEF IInv
  <2>2. CASE \E e \in m_events : e.impl = i
    <3>1. PICK e \in m_events : e.impl = i
      BY <2>2
    <3>2. e.impl \in Nat /\ e.impl < impls /\ e.impl \notin notified \cup removed
      BY Typed DEF IInv, EventsAhead
    <3> QED
      BY <2>1, <3>1, <3>2
  <2>3. CASE \E k \in 1..Len(m_destroyEvents) : m_destroyEvents[k].impl = i
    <3>1. PICK k \in 1..Len(m_destroyEvents) : m_destroyEvents[k].impl = i
      BY <2>3
    <3>2. /\ m_destroyEvents[k].impl \in Nat /\ m_destroyEvents[k].impl < impls
          /\ m_destroyEvents[k].impl \notin notified \cup removed
      BY Typed DEF IInv, DestroyListed
    <3> QED
      BY <2>1, <3>1, <3>2
  <2> QED
    BY <2>2, <2>3 DEF Queued, DestroyIds
<1>4. notified \cup m_cancel \cup removed \subseteq 0..impls - 1
  BY DEF IInv, Withdrawn
<1>5. 0..impls - 1 \subseteq Foreign \cup Queued \cup notified \cup m_cancel \cup removed
  BY <1>1 DEF LInv
<1>6. Foreign \cap Queued = {}
  BY <1>2 DEF Unknown, Queued, DestroyIds
<1>7. (Foreign \cup Queued) \cap (notified \cup removed) = {}
  BY <1>2, <1>3 DEF Unknown
<1> QED
  BY <1>2, <1>3, <1>4, <1>5, <1>6, <1>7

\* Every EventImpl handed to the engine, from whichever thread, waits in exactly one list,
\* was notified or was withdrawn: Run, ProcessEventsWithContext, Remove and Destroy
\* neither drop an event nor put one back.
THEOREM LossFree == ASSUME NoWrap PROVE Spec => []NothingLost
<1>1. Init => LInv
  BY DEF Init, LInv
<1>2. IInv /\ LInv /\ [Next]_vars => LInv'
  BY LInvInductive
<1> QED
  BY <1>1, <1>2, LocatedOnce, EngineInvariant, PTL DEF Spec
=============================================================================
