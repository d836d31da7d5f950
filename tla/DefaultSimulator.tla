-------------------------- MODULE DefaultSimulator --------------------------
(***************************************************************************)
(* The discrete-event engine of src/src/core/model/default-simulator-impl, *)
(* with the Simulator facade that creates and destroys it, the EventId     *)
(* handles user code holds and the EventImpl cancel bit.                   *)
(*                                                                         *)
(* The main thread is split at the points where something else can happen: *)
(* the virtual call Invoke() lets user code re-enter the engine, and the   *)
(* flag that announces events of other threads is read without the lock.   *)
(* The event list is the set its Scheduler holds; module Scheduler says    *)
(* what a Scheduler promises and HeapScheduler, ListScheduler show which   *)
(* implementation keeps the promise. Names preceded by `Mutant' are         *)
(* plausible errors the properties must notice.                            *)
(***************************************************************************)
EXTENDS Integers, FiniteSets, Sequences

CONSTANTS
    Delays,         \* delays user code asks for, in time steps; may be negative
    ForeignDelays,  \* delays of ScheduleWithContext, never negative
    Contexts,       \* node ids given to ScheduleWithContext
    NoContext,      \* Simulator::NO_CONTEXT, 0xffffffff
    UidModulus,     \* 2^32 in the code: m_uid is a uint32_t
    MaxEvents,      \* bound: EventImpl objects created per simulation
    NULL            \* the null EventImpl pointer of a default EventId

ASSUME DelaysAssumption == Delays \subseteq Int
ASSUME ForeignDelaysAssumption == ForeignDelays \subseteq Nat
ASSUME UidModulusAssumption == UidModulus \in Nat /\ UidModulus > 4
ASSUME MaxEventsAssumption == MaxEvents \in Nat
ASSUME NullAssumption == NULL \notin Nat

VARIABLES
    m_events,                 \* what the Scheduler holds: a set of Event(...)
    m_destroyEvents,          \* EventIds of ScheduleDestroy, in call order
    m_stop,
    m_uid,                    \* uid of the next event
    m_currentUid, m_currentTs, m_currentContext,   \* the event being executed
    m_eventCount,
    m_unscheduledEvents,
    m_eventsWithContext,      \* events of other threads, under the mutex
    m_eventsWithContextEmpty, \* their flag, read without the mutex
    eventsWithContext,        \* the swapped queue ProcessEventsWithContext empties
    m_cancel,                 \* the EventImpls whose cancel bit is set
    pc,                       \* where the main thread is
    caller,                   \* what ProcessEventsWithContext returns to
    impls,                    \* number of EventImpls created so far
    stopImpls,                \* EventImpls that call Simulator::Stop
    ids,                      \* history: every EventId user code may hold
    notified,                 \* history: EventImpls whose Notify ran
    removed                   \* history: EventImpls taken out by Remove

clock == <<m_currentUid, m_currentTs, m_currentContext, m_eventCount>>
foreign == <<m_eventsWithContext, m_eventsWithContextEmpty, eventsWithContext>>
history == <<ids, notified, removed>>
vars == <<m_events, m_destroyEvents, m_stop, m_uid, clock, m_unscheduledEvents,
          foreign, m_cancel, pc, caller, impls, stopImpls, history>>

-----------------------------------------------------------------------------
\* EventId::UID
INVALID == 0
DESTROY == 2
VALID == 4

NextUid(u) == IF u + 1 = UidModulus THEN 0 ELSE u + 1

Event(impl, ts, uid, context) ==
    [impl |-> impl, ts |-> ts, uid |-> uid, context |-> context]

\* An EventId carries the same four values as the Scheduler::Event it names.
NullId == Event(NULL, 0, INVALID, 0)

\* operator< of Scheduler::EventKey
Before(a, b) == a.ts < b.ts \/ (a.ts = b.ts /\ a.uid < b.uid)

DestroyIds == {m_destroyEvents[i] : i \in 1..Len(m_destroyEvents)}

\* Mutant: the event being executed is still running.
IsExpiredButCurrent(id) ==
    \/ pc = "none" \/ id.impl = NULL \/ id.impl \in m_cancel
    \/ id.uid = DESTROY /\ id \notin DestroyIds
    \/ id.uid # DESTROY /\ (id.ts < m_currentTs \/ (id.ts = m_currentTs /\ id.uid < m_currentUid))

IsExpired(id) ==
    \/ pc = "none"                     \* Simulator::IsExpired, no implementation
    \/ id.impl = NULL
    \/ id.impl \in m_cancel
    \/ id.uid = DESTROY /\ id \notin DestroyIds
    \/ /\ id.uid # DESTROY
       /\ \/ id.ts < m_currentTs
          \/ id.ts = m_currentTs /\ id.uid <= m_currentUid

\* Mutant: the last event is left over.
IsFinishedEarly == Cardinality(m_events) <= 1 \/ m_stop

IsFinished == m_events = {} \/ m_stop

-----------------------------------------------------------------------------
Init ==
    /\ m_events = {} /\ m_destroyEvents = <<>> /\ m_stop = FALSE
    /\ m_uid = VALID /\ m_currentUid = INVALID /\ m_currentTs = 0
    /\ m_currentContext = NoContext
    /\ m_eventCount = 0 /\ m_unscheduledEvents = 0
    /\ m_eventsWithContext = <<>> /\ m_eventsWithContextEmpty = TRUE
    /\ eventsWithContext = <<>>
    /\ m_cancel = {} /\ caller = "run"
    /\ impls = 0 /\ stopImpls = {}
    /\ ids = {NullId} /\ notified = {} /\ removed = {}
    /\ pc = "idle"

\* User code runs before Run and after it, inside the Notify of an event, and
\* inside the Notify of a destroy event.
UserCode == pc \in {"idle", "notify", "destroyNotify"}

\* The part Schedule and the main-thread branch of ScheduleWithContext share.
InsertNew(impl, ts, context) ==
    /\ m_events' = m_events \cup {Event(impl, ts, m_uid, context)}
    /\ m_uid' = NextUid(m_uid)
    /\ m_unscheduledEvents' = m_unscheduledEvents + 1

\* Mutant: negative delays are used as they are.
NoClamp(delay) == delay

Clamp(delay) == IF delay < 0 THEN 0 ELSE delay

DoSchedule(delay, isStop) ==
    /\ UserCode /\ impls < MaxEvents
    /\ InsertNew(impls, m_currentTs + Clamp(delay), m_currentContext)
    /\ ids' = ids \cup {Event(impls, m_currentTs + Clamp(delay), m_uid, m_currentContext)}
    /\ impls' = impls + 1
    /\ stopImpls' = IF isStop THEN stopImpls \cup {impls} ELSE stopImpls
    /\ UNCHANGED <<m_destroyEvents, m_stop, clock, foreign, m_cancel, pc, caller,
                   notified, removed>>

Schedule(delay) == DoSchedule(delay, FALSE)

ScheduleNow == Schedule(0)

StopAfter(delay) == DoSchedule(delay, TRUE)

ScheduleWithContext(context, delay) ==
    /\ UserCode /\ impls < MaxEvents
    /\ InsertNew(impls, m_currentTs + delay, context)
    /\ impls' = impls + 1
    /\ UNCHANGED <<m_destroyEvents, m_stop, clock, foreign, m_cancel, pc, caller,
                   stopImpls, history>>

\* The branch of ScheduleWithContext another thread takes. Those threads have
\* been joined when the main thread calls Simulator::Destroy.
ScheduleWithContextForeign(context, delay) ==
    /\ pc \notin {"destroy", "destroyNotify", "none"} /\ caller # "dispose"
    /\ impls < MaxEvents
    /\ m_eventsWithContext' = Append(m_eventsWithContext,
           [event |-> impls, context |-> context, timestamp |-> delay])
    /\ m_eventsWithContextEmpty' = FALSE
    /\ impls' = impls + 1
    /\ UNCHANGED <<m_events, m_destroyEvents, m_stop, m_uid, clock,
                   m_unscheduledEvents, eventsWithContext, m_cancel, pc, caller,
                   stopImpls, history>>

ScheduleDestroy ==
    /\ UserCode /\ impls < MaxEvents
    /\ LET id == Event(impls, m_currentTs, DESTROY, NoContext)
       IN  /\ m_destroyEvents' = Append(m_destroyEvents, id)
           /\ ids' = ids \cup {id}
    /\ m_uid' = NextUid(m_uid)
    /\ impls' = impls + 1
    /\ UNCHANGED <<m_events, m_stop, clock, m_unscheduledEvents, foreign, m_cancel,
                   pc, caller, stopImpls, notified, removed>>

Cancel(id) ==
    /\ UserCode
    /\ ~IsExpired(id)
    /\ m_cancel' = m_cancel \cup {id.impl}
    /\ UNCHANGED <<m_events, m_destroyEvents, m_stop, m_uid, clock,
                   m_unscheduledEvents, foreign, pc, caller, impls, stopImpls, history>>

\* A destroy event leaves the list of destroy events, cancelled or not; any
\* other live event leaves the scheduler and is cancelled.
RemoveDestroy(id) ==
    /\ UserCode
    /\ id.uid = DESTROY
    /\ \E i \in 1..Len(m_destroyEvents) :
          /\ m_destroyEvents[i] = id
          /\ m_destroyEvents' = SubSeq(m_destroyEvents, 1, i - 1)
                                \o SubSeq(m_destroyEvents, i + 1, Len(m_destroyEvents))
    /\ removed' = removed \cup {id.impl}
    /\ UNCHANGED <<m_events, m_stop, m_uid, clock, m_unscheduledEvents, foreign,
                   m_cancel, pc, caller, impls, stopImpls, ids, notified>>

\* Mutant: the removed event stays counted.
RemoveUncounted(id) ==
    /\ UserCode
    /\ id.uid # DESTROY /\ ~IsExpired(id)
    /\ m_events' = m_events \ {id}
    /\ m_cancel' = m_cancel \cup {id.impl}
    /\ removed' = removed \cup {id.impl}
    /\ UNCHANGED <<m_destroyEvents, m_stop, m_uid, clock, m_unscheduledEvents, foreign, pc,
                   caller, impls, stopImpls, ids, notified>>

RemoveScheduled(id) ==
    /\ UserCode
    /\ id.uid # DESTROY /\ ~IsExpired(id)
    /\ m_events' = m_events \ {id}
    /\ m_cancel' = m_cancel \cup {id.impl}
    /\ m_unscheduledEvents' = m_unscheduledEvents - 1
    /\ removed' = removed \cup {id.impl}
    /\ UNCHANGED <<m_destroyEvents, m_stop, m_uid, clock, foreign, pc, caller, impls,
                   stopImpls, ids, notified>>

Stop ==
    /\ UserCode
    /\ m_stop' = TRUE
    /\ UNCHANGED <<m_events, m_destroyEvents, m_uid, clock, m_unscheduledEvents,
                   foreign, m_cancel, pc, caller, impls, stopImpls, history>>

-----------------------------------------------------------------------------
Goto(label) ==
    /\ pc' = label
    /\ UNCHANGED <<m_events, m_destroyEvents, m_stop, m_uid, clock,
                   m_unscheduledEvents, foreign, m_cancel, caller, impls, stopImpls,
                   history>>

Run ==
    /\ pc = "idle"
    /\ pc' = "process" /\ caller' = "run"
    /\ UNCHANGED <<m_events, m_destroyEvents, m_stop, m_uid, clock,
                   m_unscheduledEvents, foreign, m_cancel, impls, stopImpls, history>>

\* Where ProcessEventsWithContext returns: Run clears m_stop after it, the loop
\* of Run continues, and DoDispose drops every event of the scheduler.
ReturnFromProcess ==
    /\ m_stop' = IF caller = "run" THEN FALSE ELSE m_stop
    /\ m_events' = IF caller = "dispose" THEN {} ELSE m_events
    /\ pc' = IF caller = "dispose" THEN "none" ELSE "loop"
    /\ UNCHANGED <<m_destroyEvents, m_uid, clock, m_unscheduledEvents, m_cancel, caller,
                   impls, stopImpls, history>>

\* The early return. The flag is a plain bool written by other threads under
\* the mutex and read here without it: the read may miss a write.
ProcessNothing ==
    /\ pc = "process"
    /\ ReturnFromProcess
    /\ UNCHANGED foreign

SwapEventsWithContext ==
    /\ pc = "process" /\ ~m_eventsWithContextEmpty
    /\ eventsWithContext' = m_eventsWithContext
    /\ m_eventsWithContext' = <<>>
    /\ m_eventsWithContextEmpty' = TRUE
    /\ pc' = "insert"
    /\ UNCHANGED <<m_events, m_destroyEvents, m_stop, m_uid, clock,
                   m_unscheduledEvents, m_cancel, caller, impls, stopImpls, history>>

\* Mutant: the time stamp of another thread's event is taken for absolute.
InsertAbsolute ==
    /\ pc = "insert" /\ eventsWithContext # <<>>
    /\ LET event == Head(eventsWithContext)
       IN  InsertNew(event.event, event.timestamp, event.context)
    /\ eventsWithContext' = Tail(eventsWithContext)
    /\ UNCHANGED <<m_destroyEvents, m_stop, clock, m_eventsWithContext,
                   m_eventsWithContextEmpty, m_cancel, pc, caller, impls, stopImpls,
                   history>>

InsertEventWithContext ==
    /\ pc = "insert" /\ eventsWithContext # <<>>
    /\ LET event == Head(eventsWithContext)
       IN  InsertNew(event.event, m_currentTs + event.timestamp, event.context)
    /\ eventsWithContext' = Tail(eventsWithContext)
    /\ UNCHANGED <<m_destroyEvents, m_stop, clock, m_eventsWithContext,
                   m_eventsWithContextEmpty, m_cancel, pc, caller, impls, stopImpls,
                   history>>

\* Mutant: the shared queue is cleared after the transfer, not swapped before.
InsertDoneClears ==
    /\ pc = "insert" /\ eventsWithContext = <<>>
    /\ ReturnFromProcess
    /\ m_eventsWithContext' = <<>> /\ m_eventsWithContextEmpty' = TRUE
    /\ UNCHANGED eventsWithContext

InsertDone ==
    /\ pc = "insert" /\ eventsWithContext = <<>>
    /\ ReturnFromProcess
    /\ UNCHANGED foreign

\* Mutant: simultaneous events in any order.
IsNextByTime(next) == next \in m_events /\ \A e \in m_events : next.ts <= e.ts

\* Mutant: the cancel bit is not looked at.
CancelIgnored(impl) == FALSE

\* EventImpl::Invoke tests the bit before it calls Notify.
IsCancelled(impl) == impl \in m_cancel

IsNext(next) == next \in m_events /\ \A e \in m_events : ~Before(e, next)

\* ProcessOneEvent up to the user's Notify. A Stop event's Notify is
\* Simulator::Stop; a cancelled event is taken out and not notified.
ProcessOneEvent ==
    /\ pc = "loop" /\ ~IsFinished
    /\ \E next \in m_events :
         /\ IsNext(next)
         /\ m_events' = m_events \ {next}
         /\ m_unscheduledEvents' = m_unscheduledEvents - 1
         /\ m_eventCount' = m_eventCount + 1
         /\ m_currentTs' = next.ts
         /\ m_currentContext' = next.context
         /\ m_currentUid' = next.uid
         /\ notified' = IF IsCancelled(next.impl) THEN notified
                        ELSE notified \cup {next.impl}
         /\ m_stop' = (m_stop \/ next.impl \in stopImpls \ m_cancel)
         /\ pc' = IF next.impl \in m_cancel \cup stopImpls THEN "process" ELSE "notify"
    /\ caller' = "loop"
    /\ UNCHANGED <<m_destroyEvents, m_uid, foreign, m_cancel, impls, stopImpls, ids,
                   removed>>

NotifyReturns == pc = "notify" /\ Goto("process")

RunReturns == pc = "loop" /\ IsFinished /\ Goto("idle")

-----------------------------------------------------------------------------
\* Simulator::Destroy: run the destroy events, dispose of the implementation
\* and forget it; a later call of the facade creates a new one.
Destroy == pc = "idle" /\ Goto("destroy")

DestroyOneEvent ==
    /\ pc = "destroy" /\ m_destroyEvents # <<>>
    /\ LET ev == Head(m_destroyEvents).impl
       IN  /\ m_destroyEvents' = Tail(m_destroyEvents)
           /\ IF IsCancelled(ev)
              THEN UNCHANGED <<notified, pc>>
              ELSE notified' = notified \cup {ev} /\ pc' = "destroyNotify"
    /\ UNCHANGED <<m_events, m_stop, m_uid, clock, m_unscheduledEvents, foreign,
                   m_cancel, caller, impls, stopImpls, ids, removed>>

DestroyNotifyReturns == pc = "destroyNotify" /\ Goto("destroy")

Dispose ==
    /\ pc = "destroy" /\ m_destroyEvents = <<>>
    /\ pc' = "process" /\ caller' = "dispose"
    /\ UNCHANGED <<m_events, m_destroyEvents, m_stop, m_uid, clock,
                   m_unscheduledEvents, foreign, m_cancel, impls, stopImpls, history>>

\* GetImpl of the facade, on the first call after Destroy. User code drops the
\* EventIds of the destroyed simulation.
Create ==
    /\ pc = "none" /\ pc' = "idle" /\ caller' = "run"
    /\ m_events' = {} /\ m_destroyEvents' = <<>> /\ m_stop' = FALSE
    /\ m_uid' = VALID /\ m_currentUid' = INVALID /\ m_currentTs' = 0
    /\ m_currentContext' = NoContext
    /\ m_eventCount' = 0 /\ m_unscheduledEvents' = 0
    /\ m_eventsWithContext' = <<>> /\ m_eventsWithContextEmpty' = TRUE
    /\ eventsWithContext' = <<>>
    /\ m_cancel' = {} /\ impls' = 0 /\ stopImpls' = {}
    /\ ids' = {NullId} /\ notified' = {} /\ removed' = {}

-----------------------------------------------------------------------------
UserStep ==
    \/ \E d \in Delays : Schedule(d)
    \/ ScheduleNow
    \/ \E d \in Delays : StopAfter(d)
    \/ \E c \in Contexts, d \in ForeignDelays : ScheduleWithContext(c, d)
    \/ ScheduleDestroy
    \/ \E id \in ids : Cancel(id)
    \/ \E id \in ids : RemoveDestroy(id)
    \/ \E id \in ids : RemoveScheduled(id)
    \/ Stop

ForeignStep ==
    \E c \in Contexts, d \in ForeignDelays : ScheduleWithContextForeign(c, d)

\* The steps the main thread takes by itself once Run or Destroy is called.
EngineStep ==
    \/ ProcessNothing
    \/ SwapEventsWithContext
    \/ InsertEventWithContext
    \/ InsertDone
    \/ ProcessOneEvent
    \/ NotifyReturns
    \/ RunReturns
    \/ DestroyOneEvent
    \/ DestroyNotifyReturns
    \/ Dispose

Next == UserStep \/ ForeignStep \/ EngineStep \/ Run \/ Destroy \/ Create

Spec == Init /\ [][Next]_vars
\* Run and Destroy are loops of the main thread: it keeps taking its own steps,
\* and user callbacks return.
FairSpec == Spec /\ WF_vars(EngineStep)

-----------------------------------------------------------------------------
Queued == {e.impl : e \in m_events} \cup {id.impl : id \in DestroyIds}
Foreign == {m_eventsWithContext[i].event : i \in 1..Len(m_eventsWithContext)}
           \cup {eventsWithContext[i].event : i \in 1..Len(eventsWithContext)}

Impl == 0..MaxEvents
EventType == [impl : Impl, ts : Nat, uid : 0..UidModulus - 1,
              context : Contexts \cup {NoContext}]
ForeignType == [event : Impl, context : Contexts, timestamp : ForeignDelays]

\* Type invariant of the engine.
TypeOK ==
    /\ m_events \subseteq EventType
    /\ m_destroyEvents \in Seq(EventType)
    /\ m_stop \in BOOLEAN
    /\ m_uid \in 0..UidModulus - 1
    /\ m_currentUid \in 0..UidModulus - 1
    /\ m_currentTs \in Nat
    /\ m_currentContext \in Contexts \cup {NoContext}
    /\ m_eventCount \in Nat
    /\ m_unscheduledEvents \in Int
    /\ m_eventsWithContext \in Seq(ForeignType)
    /\ eventsWithContext \in Seq(ForeignType)
    /\ m_eventsWithContextEmpty \in BOOLEAN
    /\ m_cancel \subseteq Impl
    /\ pc \in {"idle", "process", "insert", "loop", "notify", "destroy",
               "destroyNotify", "none"}
    /\ caller \in {"run", "loop", "dispose"}
    /\ impls \in Impl
    /\ stopImpls \subseteq Impl
    /\ ids \subseteq EventType \cup {NullId}
    /\ notified \subseteq Impl
    /\ removed \subseteq Impl

\* EventId::IsRunning answers from the clock and the uid alone, without looking
\* in the scheduler: it is true exactly of the events that are still in the
\* scheduler (or in the destroy list) with their cancel bit clear. Remove relies
\* on it, and so does every model that tests a timer before it restarts it.
EventIdTruth ==
    \A id \in ids :
        ~IsExpired(id) <=> /\ id \in m_events \cup DestroyIds
                           /\ id.impl \notin m_cancel

\* The assertion at the end of Run, in the form that makes it true: the counter
\* is the size of the event list whenever an implementation exists. Cancel
\* leaves both alone, Remove and ProcessOneEvent lower both.
UnscheduledCount == pc # "none" => m_unscheduledEvents = Cardinality(m_events)

\* An event cancelled or removed in time is never notified, in Run or in
\* Destroy, and Cancel after the fact never marks an event that already ran.
CancelHolds == notified \cap (m_cancel \cup removed) = {}

\* Every EventImpl handed to the engine, from whichever thread, is waiting for
\* another thread's transfer, is queued, has been notified, or was withdrawn;
\* what was notified or removed is not queued again.
NothingLost ==
    pc # "none" =>
        /\ 0..impls - 1 = Foreign \cup Queued \cup notified \cup m_cancel \cup removed
        /\ (Foreign \cup Queued) \cap (notified \cup removed) = {}
        /\ Foreign \cap Queued = {}

\* The events of one simulation are executed in strictly increasing order of
\* (time stamp, uid), whatever user code and other threads schedule meanwhile;
\* simulation time never goes back.
DispatchOrder ==
    [][m_eventCount' > m_eventCount =>
          \/ m_currentTs < m_currentTs'
          \/ m_currentTs = m_currentTs' /\ m_currentUid < m_currentUid']_vars

\* Run comes to every live event of its list: an event in the scheduler while
\* the loop runs is notified, cancelled, or the loop is stopped.
EventuallyRuns ==
    \A i \in 0..MaxEvents - 1 :
        (/\ pc = "loop" /\ ~m_stop
         /\ \E e \in m_events : e.impl = i)
        ~> (i \in notified \cup m_cancel \/ m_stop)

-----------------------------------------------------------------------------
\* The engine seen through its promise: events with their cancel bit set are
\* off the agenda, and destroy events never were on it.
DestroyImpls == {id.impl : id \in {i \in ids : i.uid = DESTROY}}

Calendar == INSTANCE EventCalendar WITH
    now <- m_currentTs,
    agenda <- {e \in m_events : e.impl \notin m_cancel},
    fired <- notified \ DestroyImpls

\* Every step of the engine is a step of the event calendar or invisible in it:
\* cancelling lazily, drawing events of other threads in late and skipping
\* cancelled events cannot be told from doing it at once.
ImplementsCalendar == Calendar!Spec
-----------------------------------------------------------------------------
(***************************************************************************)
(* The inductive invariant behind EventIdTruth, UnscheduledCount,          *)
(* CancelHolds and DispatchOrder. It needs that no uid is used twice,      *)
(* which the code gets from a counter that must not wrap.                  *)
(***************************************************************************)
NoWrap == VALID + MaxEvents < UidModulus

\* The event in question is still ahead of the one being executed.
AfterNow(e) == m_currentTs < e.ts \/ (m_currentTs = e.ts /\ m_currentUid < e.uid)

UidsFresh ==
    /\ VALID <= m_uid /\ m_currentUid < m_uid
    /\ m_uid + Len(m_eventsWithContext) + Len(eventsWithContext) <= VALID + impls

EventsAhead ==
    /\ \A e \in m_events :
          /\ VALID <= e.uid /\ e.uid < m_uid /\ e.impl < impls
          /\ AfterNow(e)
          /\ e.impl \notin notified \cup removed
    /\ \A e, f \in m_events : e.uid = f.uid \/ e.impl = f.impl => e = f

DestroyListed ==
    /\ \A i \in 1..Len(m_destroyEvents) :
          /\ m_destroyEvents[i].uid = DESTROY /\ m_destroyEvents[i].impl < impls
          /\ m_destroyEvents[i] \in ids
          /\ m_destroyEvents[i].impl \notin notified \cup removed
          /\ \A e \in m_events : e.impl # m_destroyEvents[i].impl
    /\ \A i, j \in 1..Len(m_destroyEvents) :
          m_destroyEvents[i].impl = m_destroyEvents[j].impl => i = j

\* The event at an end of the queues of other threads is known to nobody else.
Unknown(impl) ==
    /\ impl < impls
    /\ impl \notin notified \cup removed \cup m_cancel
    /\ \A e \in m_events : e.impl # impl
    /\ \A i \in 1..Len(m_destroyEvents) : m_destroyEvents[i].impl # impl
    /\ \A id \in ids : id.impl # impl

ForeignUnknown ==
    /\ \A i \in 1..Len(m_eventsWithContext) : Unknown(m_eventsWithContext[i].event)
    /\ \A i, j \in 1..Len(m_eventsWithContext) :
          m_eventsWithContext[i].event = m_eventsWithContext[j].event => i = j
    /\ \A i \in 1..Len(eventsWithContext) : Unknown(eventsWithContext[i].event)
    /\ \A i, j \in 1..Len(eventsWithContext) :
          eventsWithContext[i].event = eventsWithContext[j].event => i = j
    /\ \A i \in 1..Len(m_eventsWithContext), j \in 1..Len(eventsWithContext) :
          m_eventsWithContext[i].event # eventsWithContext[j].event

IdsAccurate ==
    \A id \in ids :
        \/ id = NullId
        \/ /\ id.impl \in 0..impls - 1
           /\ \A e \in m_events : e.impl = id.impl => e = id
           /\ \A i \in 1..Len(m_destroyEvents) :
                 m_destroyEvents[i].impl = id.impl => m_destroyEvents[i] = id
           /\ id.uid # DESTROY =>
                 /\ VALID <= id.uid /\ id.uid < m_uid
                 /\ \/ pc = "none"
                    \/ id \in m_events
                    \/ id.impl \in m_cancel
                    \/ ~AfterNow(id)

Withdrawn ==
    /\ m_cancel \cup notified \cup removed \subseteq 0..impls - 1
    /\ notified \cap (m_cancel \cup removed) = {}

Counted ==
    /\ IsFiniteSet(m_events)
    /\ pc # "none" => m_unscheduledEvents = Cardinality(m_events)

Disposed ==
    /\ pc = "none" => m_events = {} /\ m_destroyEvents = <<>>
    /\ pc \in {"process", "insert"} /\ caller = "dispose" => m_destroyEvents = <<>>
    /\ pc = "notify" => caller = "loop"

\* The inductive strengthening: uids are handed out once and in increasing
\* order, everything in the event list is ahead of the event being executed,
\* no EventImpl is in two places, and an EventId that user code holds names a
\* queued event, a cancelled one or one that is past.
IInv ==
    /\ TypeOK /\ UidsFresh /\ EventsAhead /\ DestroyListed /\ ForeignUnknown
    /\ IdsAccurate /\ Withdrawn /\ Counted /\ Disposed
=============================================================================
