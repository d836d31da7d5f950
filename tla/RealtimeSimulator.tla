-------------------------- MODULE RealtimeSimulator --------------------------
(***************************************************************************)
(* realtime-simulator-impl.cc with wall-clock-synchronizer.cc: the engine  *)
(* that waits for the wall clock before each event, while other threads    *)
(* insert events and signal it. Every access to the event list is under    *)
(* m_mutex, and a step of a thread is what it does with the mutex held or  *)
(* between two such sections.                                              *)
(***************************************************************************)
EXTENDS Integers, FiniteSets

CONSTANTS
    Delays,        \* the delays events are scheduled with
    IdleDelay,     \* how long Run waits at most when there is no event (1 s)
    SpinTime,      \* DoSynchronize spins, and does not sleep, this long (3 jiffies)
    HardLimits,    \* values of the attribute HardLimit, NoLimit for BestEffort
    MaxEvents, MaxTime, MaxRuns   \* bounds: events, the wall clock, calls of Run

NoLimit == -1

ASSUME RealtimeAssumption ==
    /\ Delays \subseteq Nat /\ HardLimits \subseteq Nat \cup {NoLimit}
    /\ {IdleDelay, SpinTime, MaxEvents, MaxTime, MaxRuns} \subseteq Nat

VARIABLES
    pc,            \* where the main thread is, see Places
    wall,          \* GetCurrentRealtime: the wall clock since the origin
    m_events, m_uid, m_currentTs, m_stop, m_running,
    m_condition,   \* of the synchronizer: a wait is to end
    target,        \* nsCurrent + nsDelay of the call of Synchronize
    sleepTill,     \* when the wait of SleepWait times out
    idle,          \* Synchronize was called because there was no event
    hardLimit,
    \* History, read by properties only:
    nRuns,         \* calls of Run
    returned       \* the event the last access to the event list took, if it took one

list == <<m_events, m_uid, m_currentTs, returned>>
sync == <<m_condition, target, sleepTill, idle>>
vars == <<pc, wall, list, m_stop, m_running, sync, hardLimit, nRuns>>

\* "user": outside Run; "start": Run before SetOrigin; "loop": the test of Run;
\* "peek", "take": the two critical sections of ProcessOneEvent; "sync", "sleep",
\* "spin": Synchronize; "invoke": in the callback of an event; "fatal": HardLimit was
\* exceeded.
Places == {"user", "start", "loop", "peek", "sync", "sleep", "spin", "take", "invoke", "fatal"}

\* What the wall clock shows before the first SetOrigin, while the origin is the one of
\* the constructor, zero: later than any time it shows in Run.
SinceEpoch == MaxTime + 1

Uids == 1..MaxEvents
NoEvent == [ts |-> 0, uid |-> 0]
Event(ts, uid) == [ts |-> ts, uid |-> uid]

\* operator< of EventKey, and the event the scheduler hands out next.
Before(a, b) == a.ts < b.ts \/ (a.ts = b.ts /\ a.uid < b.uid)

\* Mutant: compares time stamps only.
IsHeadByTime(ev) == ev \in m_events /\ \A e \in m_events : ev.ts <= e.ts

IsHead(ev) == ev \in m_events /\ \A e \in m_events \ {ev} : Before(ev, e)

\* The constructor of the synchronizer does not initialise m_condition.
Init ==
    /\ pc = "user" /\ wall = SinceEpoch /\ m_events = {} /\ m_uid = 1 /\ m_currentTs = 0
    /\ m_stop = FALSE /\ m_running = FALSE
    /\ m_condition \in BOOLEAN /\ target = 0 /\ sleepTill = 0 /\ idle = FALSE
    /\ hardLimit \in HardLimits /\ nRuns = 0 /\ returned = NoEvent

-----------------------------------------------------------------------------
(* Scheduling. The event is inserted and the main thread signalled in one   *)
(* critical section.                                                        *)

\* Bound: nothing is scheduled for later than the wall clock shows.
Latest == IF pc = "start" THEN SinceEpoch ELSE MaxTime

Insert(ts) ==
    /\ m_uid \in Uids /\ ts <= Latest
    /\ m_events' = m_events \cup {Event(ts, m_uid)} /\ m_uid' = m_uid + 1
    /\ returned' = NoEvent
    /\ m_condition' = TRUE    \* Signal
    /\ UNCHANGED <<pc, wall, m_currentTs, m_stop, m_running, target, sleepTill, idle, hardLimit, nRuns>>

\* User code of the main thread, in an event or outside Run.
InUserCode == pc \in {"user", "invoke"}

\* Schedule, ScheduleNow and, in the main thread, ScheduleWithContext.
Schedule(delay) == InUserCode /\ Insert(m_currentTs + delay)

\* The time another thread counts from.
ForeignNow == IF m_running THEN wall ELSE m_currentTs

\* ScheduleWithContext in another thread, and ScheduleRealtimeNowWithContext.
ScheduleWithContext(delay) == Insert(ForeignNow + delay)

Remove(ev) ==
    /\ InUserCode /\ ev \in m_events
    /\ m_events' = m_events \ {ev} /\ returned' = NoEvent
    /\ UNCHANGED <<pc, wall, m_uid, m_currentTs, m_stop, m_running, sync, hardLimit, nRuns>>

Stop ==
    /\ InUserCode /\ m_stop' = TRUE
    /\ UNCHANGED <<pc, wall, list, m_running, sync, hardLimit, nRuns>>

-----------------------------------------------------------------------------
(* The main thread in Run and ProcessOneEvent.                              *)

\* Until SetOrigin other threads count from the origin of the Run before, and some time
\* has passed since it returned, or from the epoch. No mutex is held.
Run ==
    /\ pc = "user" /\ nRuns < MaxRuns
    /\ pc' = "start" /\ m_stop' = FALSE /\ m_running' = TRUE /\ nRuns' = nRuns + 1
    /\ IF nRuns = 0 THEN UNCHANGED wall ELSE wall' \in wall..MaxTime
    /\ UNCHANGED <<list, sync, hardLimit>>

\* SetOrigin(m_currentTs) makes the wall clock start at zero, whatever m_currentTs.
SetOrigin ==
    /\ pc = "start"
    /\ pc' = "loop" /\ wall' = 0
    /\ UNCHANGED <<list, m_stop, m_running, sync, hardLimit, nRuns>>

RunReturns ==
    /\ pc = "loop" /\ m_stop
    /\ pc' = "user" /\ m_running' = FALSE
    /\ UNCHANGED <<wall, list, m_stop, sync, hardLimit, nRuns>>

RunProcesses ==
    /\ pc = "loop" /\ ~m_stop /\ m_events # {}
    /\ pc' = "peek"
    /\ UNCHANGED <<wall, list, m_stop, m_running, sync, hardLimit, nRuns>>

\* No event: wait, with the condition as it is.
RunIdles ==
    /\ pc = "loop" /\ ~m_stop /\ m_events = {}
    /\ pc' = "sync" /\ idle' = TRUE /\ target' = wall + IdleDelay
    /\ UNCHANGED <<wall, list, m_stop, m_running, m_condition, sleepTill, hardLimit, nRuns>>

\* The first critical section of ProcessOneEvent.
PeekNext ==
    /\ pc = "peek" /\ pc' = "sync"
    /\ \E next \in m_events :
          IsHead(next) /\ target' = IF next.ts <= wall THEN wall ELSE next.ts
    /\ idle' = FALSE /\ m_condition' = FALSE
    /\ UNCHANGED <<wall, list, m_stop, m_running, sleepTill, hardLimit, nRuns>>

\* With DriftCorrect what is left at this moment is waited for.
SleepsFirst == target - wall > SpinTime

\* DoSynchronize
SynchronizeFrom(condition) ==
    /\ pc = "sync"
    /\ IF SleepsFirst
       THEN pc' = "sleep" /\ sleepTill' = target - SpinTime
       ELSE pc' = "spin" /\ UNCHANGED sleepTill
    /\ m_condition' = condition
    /\ UNCHANGED <<wall, list, m_stop, m_running, target, idle, hardLimit, nRuns>>

\* Mutant: the condition is reset after the mutex was released.
SynchronizeResets == SynchronizeFrom(FALSE)

Synchronize == SynchronizeFrom(m_condition)

\* Mutant: Run waits again without a look at the event list.
AfterSynchronizeIdles(synchronized) ==
    IF idle THEN "sync" ELSE IF synchronized THEN "take" ELSE "peek"

\* Where the callers of Synchronize go on when it returns true or false.
AfterSynchronize(synchronized) ==
    IF idle THEN "loop" ELSE IF synchronized THEN "take" ELSE "peek"

\* SleepWait returns what wait_for does: true when the condition ended the wait,
\* after which SpinWait looks at it, and false when the time is over.
SleepWaitEnds ==
    /\ pc = "sleep" /\ (m_condition \/ wall >= sleepTill)
    /\ pc' = IF m_condition THEN "spin" ELSE AfterSynchronize(FALSE)
    /\ UNCHANGED <<wall, list, m_stop, m_running, sync, hardLimit, nRuns>>

SpinWaitReaches ==
    /\ pc = "spin" /\ wall >= target
    /\ pc' = AfterSynchronize(TRUE)
    /\ UNCHANGED <<wall, list, m_stop, m_running, sync, hardLimit, nRuns>>

\* Mutant: the event is taken although the wait was interrupted.
InterruptedTaken == AfterSynchronize(TRUE)

Interrupted == AfterSynchronize(FALSE)

\* The clock was looked at before, and may be past the target by now.
SpinWaitInterrupted ==
    /\ pc = "spin" /\ m_condition
    /\ pc' = Interrupted
    /\ UNCHANGED <<wall, list, m_stop, m_running, sync, hardLimit, nRuns>>

\* The second critical section takes the event that is the next one by now.
Jitter(ts) == IF wall >= ts THEN wall - ts ELSE ts - wall

TakeNext ==
    /\ pc = "take"
    /\ \E next \in m_events :
          /\ IsHead(next)
          /\ m_events' = m_events \ {next} /\ returned' = next /\ m_currentTs' = next.ts
          /\ pc' = IF hardLimit # NoLimit /\ Jitter(next.ts) > hardLimit THEN "fatal" ELSE "invoke"
    /\ UNCHANGED <<wall, m_uid, m_stop, m_running, sync, hardLimit, nRuns>>

InvokeReturns ==
    /\ pc = "invoke" /\ pc' = "loop"
    /\ UNCHANGED <<wall, list, m_stop, m_running, sync, hardLimit, nRuns>>

Tick ==
    /\ m_running /\ wall < MaxTime /\ wall' = wall + 1
    /\ UNCHANGED <<pc, list, m_stop, m_running, sync, hardLimit, nRuns>>

-----------------------------------------------------------------------------
MainStep ==
    \/ SetOrigin \/ RunReturns \/ RunProcesses \/ RunIdles \/ PeekNext \/ Synchronize
    \/ SleepWaitEnds \/ SpinWaitReaches \/ SpinWaitInterrupted \/ TakeNext \/ InvokeReturns

UserStep ==
    \/ \E delay \in Delays : Schedule(delay)
    \/ \E ev \in m_events : Remove(ev)
    \/ Stop \/ Run

ForeignStep == \E delay \in Delays : ScheduleWithContext(delay)

Next == MainStep \/ UserStep \/ ForeignStep \/ Tick

Spec == Init /\ [][Next]_vars

\* The main thread runs, callbacks return, and the wall clock goes on.
FairSpec == Spec /\ WF_vars(MainStep) /\ WF_vars(Tick)

-----------------------------------------------------------------------------
\* Type invariant.
TypeOK ==
    /\ pc \in Places /\ {wall, m_currentTs, target, sleepTill, nRuns} \subseteq Nat
    /\ \A ev \in m_events : ev.ts \in Nat /\ ev.uid \in 1..m_uid - 1
    /\ m_uid \in 1..MaxEvents + 1 /\ hardLimit \in HardLimits
    /\ {m_stop, m_running, m_condition, idle} \subseteq BOOLEAN

\* While Run waits with the condition false, the list is as it was when it
\* decided how long to wait: an event is due when the wait ends, none is due
\* earlier, and there is none at all if it waits for want of one. A signal that
\* gets lost between the critical section and the wait would leave an event of
\* another thread waiting behind a later one.
NoLostWakeup ==
    pc \in {"sync", "sleep", "spin"} /\ ~m_condition =>
        IF idle THEN m_events = {}
        ELSE /\ \E ev \in m_events : ev.ts <= target
             /\ target > wall => \A ev \in m_events : ev.ts >= target

\* realtime.rst:29: "the simulator sleeps until that realtime is reached and then
\* executes the next event", whatever another thread inserts between the wait and
\* the moment the event is taken. (As long as Run has been called once.)
NeverEarly == nRuns <= 1 /\ m_running => m_currentTs <= wall

\* With all its threads the engine has an event list as the other engine has: events
\* are inserted at or after the time of the last one executed and handed out in
\* order. (As long as Run has been called once.)
Sched == INSTANCE Scheduler WITH
    Delays <- 0..SinceEpoch, events <- m_events, now <- m_currentTs
ImplementsScheduler ==
    Sched!Init /\ [][nRuns' <= 1 => Sched!Next]_<<m_events, m_uid, m_currentTs, returned>>

\* Every event is executed or removed in the end, if Run goes on; not one whose time was
\* counted from the epoch, but that one does not keep the engine from the others.
RunExecutes ==
    \A uid \in Uids :
        (\E ev \in m_events : ev.uid = uid /\ ev.ts <= MaxTime) ~>
            ((\A ev \in m_events : ev.uid # uid) \/ pc \in {"user", "fatal"} \/ m_stop)
=============================================================================
