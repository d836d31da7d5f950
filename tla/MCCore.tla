-------------------------------- MODULE MCCore --------------------------------
(***************************************************************************)
(* The run Core: a behaviour exercises one of the parts that stand alone,  *)
(* an implementation of Scheduler (a simulation uses the one SchedulerType *)
(* names), the timers or the real-time engine; the others stay as they are *)
(* created. Each has delays and a number of events that take it through    *)
(* its cases.                                                              *)
(***************************************************************************)
EXTENDS MCRealtimeSimulator, Timers

CONSTANTS
    HeapEvents, ListEvents, CalendarEvents,  \* bounds: events inserted
    NearDelays,                              \* of the events of the heap and the list
    YearDelays                               \* of the events of the calendar

VARIABLES
    part,                                               \* chosen once
    m_heap, m_uidH, nowH, returnedH, misfilled,         \* HeapScheduler
    m_eventsL, m_uidL, nowL, returnedL,                 \* ListScheduler
    cal, m_reverse, m_uidC, nowC, returnedC             \* CalendarScheduler

heapVars == <<m_heap, m_uidH, nowH, returnedH, misfilled>>
listVars == <<m_eventsL, m_uidL, nowL, returnedL>>
calendarVars == <<cal, m_reverse, m_uidC, nowC, returnedC>>
coreVars == <<part, heapVars, listVars, calendarVars, timersVars, vars>>

\* Simultaneous events, and delays that differ in order.
MCNearDelays == {0, 1, 2}
\* Within a day of the calendar, over a day and over a year.
MCYearDelays == {0, 1, 5}
\* Timers that end at once, are postponed and are moved up.
MCTimerDelays == {0, 1, 3}

List == INSTANCE ListScheduler WITH
    Delays <- NearDelays, MaxEvents <- ListEvents, m_events <- m_eventsL, m_uid <- m_uidL, now <- nowL, returned <- returnedL
\* The modules with the theorems about the two are instantiated, so that these hold of
\* the parts of the run as well.
Heap == INSTANCE HeapSchedulerProofs WITH
    Delays <- NearDelays, MaxEvents <- HeapEvents, m_uid <- m_uidH, now <- nowH, returned <- returnedH
Calendar == INSTANCE CalendarSchedulerProofs WITH
    Delays <- YearDelays, MaxEvents <- CalendarEvents, m_uid <- m_uidC, now <- nowC, returned <- returnedC

CoreInit ==
    /\ part \in {"Heap", "List", "Calendar", "Timers", "Realtime"}
    /\ Heap!Init /\ List!Init /\ Calendar!Init /\ TimersInit /\ Init
    /\ part # "Calendar" => m_reverse = FALSE
    /\ part # "Realtime" => hardLimit = NoLimit /\ ~m_condition

InRealtime ==
    part = "Realtime" /\ UNCHANGED <<part, heapVars, listVars, calendarVars, timersVars>>

CoreNext ==
    \/ /\ UNCHANGED <<part, vars>>
       /\ \/ part = "Heap" /\ Heap!Next /\ UNCHANGED <<listVars, calendarVars, timersVars>>
          \/ part = "List" /\ List!Next /\ UNCHANGED <<heapVars, calendarVars, timersVars>>
          \/ part = "Calendar" /\ Calendar!Next /\ UNCHANGED <<heapVars, listVars, timersVars>>
          \/ part = "Timers" /\ TimersNext /\ UNCHANGED <<heapVars, listVars, calendarVars>>
    \/ InRealtime /\ Next

\* The real-time engine's thread runs and the wall clock advances, see FairSpec.
CoreSpec ==
    /\ CoreInit /\ [][CoreNext]_coreVars
    /\ WF_coreVars(InRealtime /\ MainStep) /\ WF_coreVars(InRealtime /\ Tick)

-----------------------------------------------------------------------------
(* What is checked of the timers and of the real-time engine are their own  *)
(* definitions; of the event lists, these.                                   *)

\* The type invariants of the parts: in the heap no event twice, in the calendar the
\* number of events counted, a timer's event not in the past.
CoreTypeOK == Heap!TypeOK /\ Calendar!TypeOK /\ TimersTypeOK /\ TypeOK

\* Every scheduler is the event list the simulator takes it for (scheduler.h,
\* RemoveNext: "Remove the earliest event from the event list"), the heap until
\* Remove fills a hole with an event earlier than the parent of the hole.
HeapImplementsScheduler == Heap!ImplementsScheduler
ListImplementsScheduler == List!ImplementsScheduler
CalendarImplementsScheduler == Calendar!ImplementsScheduler
=============================================================================
