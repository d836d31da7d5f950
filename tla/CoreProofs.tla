------------------------------ MODULE CoreProofs ------------------------------
(***************************************************************************)
(* Theorems about the run Core: about the timers, for every set of delays, *)
(* about the real-time engine, for every number of events, delays and      *)
(* calls of Run, and about the list, for every number of events and every  *)
(* set of delays; and that these, with those about the heap and the        *)
(* calendar, are theorems about the run.                                   *)
(***************************************************************************)
EXTENDS MCCore, SequenceLemmas

-----------------------------------------------------------------------------
(* Timers: the types, the bound on the event of a postponed timer, and   *)
(* that each timer is a countdown.                                       *)

\* What the m_end members, and a Timer's event and time left, stand for: the ends that
\* were asked for last.
EndsAsAsked ==
    /\ TxIsRunning => txTimer.m_end = txDue
    /\ watchdog.m_end = pingedTill
    /\ EventIsRunning => timer.m_event = timerDue
    /\ timer.suspended => now + timer.m_delayLeft = timerDue

TInv == TimersTypeOK /\ EventNotLate /\ EndsAsAsked

LEMMA TimersInitInv == TimersInit => TInv
  BY DEF TimersInit, TInv, TimersTypeOK, EventNotLate, EndsAsAsked, TxTimers, Watchdogs, CoreTimers, Events,
         NotRunning, TxIsRunning, WatchdogIsRunning, EventIsRunning, Operations, Nothing, Doings

LEMMA TimersStep ==
  ASSUME TimerDelays \subseteq Nat, TInv, [TimersNext]_timersVars
  PROVE  TInv'
<1> USE DEF TInv, TimersTypeOK, EventNotLate, EndsAsAsked, TxTimers, Watchdogs, CoreTimers, Events,
            NotRunning, TxIsRunning, WatchdogIsRunning, EventIsRunning, Operations, Nothing, Doings
<1>1. ASSUME NEW delay \in TimerDelays, TxSet(delay)
      PROVE  TInv'
  <2>1. delay \in Nat
    OBVIOUS
  <2> QED
    BY <1>1, <2>1 DEF TxSet
<1>2. ASSUME NEW delay \in TimerDelays, TxReschedule(delay)
      PROVE  TInv'
  <2>1. delay \in Nat
    OBVIOUS
  <2> QED
    BY <1>2, <2>1 DEF TxReschedule, EventAfterReschedule
<1>3. ASSUME NEW delay \in TimerDelays, Ping(delay)
      PROVE  TInv'
  <2>1. delay \in Nat
    OBVIOUS
  <2> QED
    BY <1>3, <2>1 DEF Ping, LatestEnd
<1>4. ASSUME NEW delay \in TimerDelays, TimerSchedule(delay)
      PROVE  TInv'
  <2>1. delay \in Nat
    OBVIOUS
  <2> QED
    BY <1>4, <2>1 DEF TimerSchedule
<1>5. CASE TxCancel
  BY <1>5 DEF TxCancel
<1>6. CASE TxExpire
  BY <1>6 DEF TxExpire
<1>7. CASE WatchdogExpire
  BY <1>7 DEF WatchdogExpire
<1>8. CASE TimerSuspend
  BY <1>8 DEF TimerSuspend, DelayLeft, IsRunning
<1>9. CASE TimerResume
  BY <1>9 DEF TimerResume
<1>10. CASE TimerCancel
  BY <1>10 DEF TimerCancel
<1>11. CASE TimerExpire
  BY <1>11 DEF TimerExpire
<1>12. CASE TimersTick
  BY <1>12 DEF TimersTick
<1>13. CASE UNCHANGED timersVars
  BY <1>13 DEF timersVars
<1> QED
  BY <1>1, <1>2, <1>3, <1>4, <1>5, <1>6, <1>7, <1>8, <1>9, <1>10, <1>11, <1>12, <1>13 DEF TimersNext

\* The invariant holds throughout.
THEOREM TimersInvariant == ASSUME TimerDelays \subseteq Nat PROVE TimersSpec => []TInv
  BY TimersInitInv, TimersStep, PTL DEF TimersSpec

\* The timers keep their types whatever delays they are given.
THEOREM TimersTypeCorrect == ASSUME TimerDelays \subseteq Nat PROVE TimersSpec => []TimersTypeOK
<1>1. TInv => TimersTypeOK
  BY DEF TInv
<1> QED
  BY <1>1, TimersInvariant, PTL

\* No postponed timer has its event after its end or in the past.
THEOREM EventNeverLate == ASSUME TimerDelays \subseteq Nat PROVE TimersSpec => []EventNotLate
<1>1. TInv => EventNotLate
  BY DEF TInv
<1> QED
  BY <1>1, TimersInvariant, PTL

\* A step is a step of the countdown or leaves it alone.
LEMMA TxTimerCountsDownStep ==
  ASSUME TimerDelays \subseteq Nat, TInv, TInv', [TimersNext]_timersVars
  PROVE  [TxCountdown!Next]_TxCountdown!countdownVars
<1> USE DEF TInv, TimersTypeOK, EventNotLate, EndsAsAsked, TxTimers, Watchdogs, CoreTimers, Events,
            NotRunning, TxIsRunning, WatchdogIsRunning, EventIsRunning, IsRunning, Phase, DidTo, Nothing, Doings, Operations,
            TxLeft, TxCountdown!Next, TxCountdown!countdownVars, TxCountdown!Elsewhere
<1>1. ASSUME NEW delay \in TimerDelays, TxSet(delay)
      PROVE  [TxCountdown!Next]_TxCountdown!countdownVars
  <2>1. delay \in Nat
    OBVIOUS
  <2> QED
    BY <1>1, <2>1 DEF TxSet, TxCountdown!Start
<1>2. ASSUME NEW delay \in TimerDelays, TxReschedule(delay)
      PROVE  [TxCountdown!Next]_TxCountdown!countdownVars
  <2>1. delay \in Nat
    OBVIOUS
  <2> QED
    BY <1>2, <2>1 DEF TxReschedule, EventAfterReschedule, TxCountdown!Start
<1>3. ASSUME NEW delay \in TimerDelays, Ping(delay)
      PROVE  [TxCountdown!Next]_TxCountdown!countdownVars
  <2>1. delay \in Nat
    OBVIOUS
  <2> QED
    BY <1>3, <2>1 DEF Ping, LatestEnd
<1>4. ASSUME NEW delay \in TimerDelays, TimerSchedule(delay)
      PROVE  [TxCountdown!Next]_TxCountdown!countdownVars
  <2>1. delay \in Nat
    OBVIOUS
  <2> QED
    BY <1>4, <2>1 DEF TimerSchedule
<1>5. CASE TxCancel
  BY <1>5 DEF TxCancel, TxCountdown!Cancel
<1>6. CASE TxExpire
  BY <1>6 DEF TxExpire, TxCountdown!Fire
<1>7. CASE WatchdogExpire
  BY <1>7 DEF WatchdogExpire
<1>8. CASE TimerSuspend
  BY <1>8 DEF TimerSuspend
<1>9. CASE TimerResume
  BY <1>9 DEF TimerResume
<1>10. CASE TimerCancel
  BY <1>10 DEF TimerCancel
<1>11. CASE TimerExpire
  BY <1>11 DEF TimerExpire
<1>12. CASE TimersTick
  BY <1>12 DEF TimersTick, TxCountdown!Tick
<1>13. CASE UNCHANGED timersVars
  BY <1>13 DEF timersVars
<1> QED
  BY <1>1, <1>2, <1>3, <1>4, <1>5, <1>6, <1>7, <1>8, <1>9, <1>10, <1>11, <1>12, <1>13 DEF TimersNext

\* The timeout of a frame exchange is called at the end asked for last, once, unless it
\* is cancelled.
THEOREM TxTimerImplementsCountdown == ASSUME TimerDelays \subseteq Nat PROVE TimersSpec => TxTimerCountsDown
<1>1. TimersInit => TxCountdown!Init
  BY DEF TimersInit, TxCountdown!Init, TxLeft, NotRunning, TxIsRunning, WatchdogIsRunning, EventIsRunning, IsRunning,
         Phase, DidTo, Nothing
<1> QED
  BY <1>1, TxTimerCountsDownStep, TimersInvariant, PTL DEF TimersSpec, TxTimerCountsDown, TxCountdown!Spec

\* A step is a step of the countdown or leaves it alone.
LEMMA WatchdogCountsDownStep ==
  ASSUME TimerDelays \subseteq Nat, TInv, TInv', [TimersNext]_timersVars
  PROVE  [WatchdogCountdown!Next]_WatchdogCountdown!countdownVars
<1> USE DEF TInv, TimersTypeOK, EventNotLate, EndsAsAsked, TxTimers, Watchdogs, CoreTimers, Events,
            NotRunning, TxIsRunning, WatchdogIsRunning, EventIsRunning, IsRunning, Phase, DidTo, Nothing, Doings, Operations,
            WatchdogLeft, WatchdogCountdown!Next, WatchdogCountdown!countdownVars, WatchdogCountdown!Elsewhere
<1>1. ASSUME NEW delay \in TimerDelays, TxSet(delay)
      PROVE  [WatchdogCountdown!Next]_WatchdogCountdown!countdownVars
  <2>1. delay \in Nat
    OBVIOUS
  <2> QED
    BY <1>1, <2>1 DEF TxSet
<1>2. ASSUME NEW delay \in TimerDelays, TxReschedule(delay)
      PROVE  [WatchdogCountdown!Next]_WatchdogCountdown!countdownVars
  <2>1. delay \in Nat
    OBVIOUS
  <2> QED
    BY <1>2, <2>1 DEF TxReschedule, EventAfterReschedule
<1>3. ASSUME NEW delay \in TimerDelays, Ping(delay)
      PROVE  [WatchdogCountdown!Next]_WatchdogCountdown!countdownVars
  <2>1. delay \in Nat
    OBVIOUS
  <2> QED
    BY <1>3, <2>1 DEF Ping, LatestEnd, WatchdogCountdown!Start, WatchdogCountdown!Hold
<1>4. ASSUME NEW delay \in TimerDelays, TimerSchedule(delay)
      PROVE  [WatchdogCountdown!Next]_WatchdogCountdown!countdownVars
  <2>1. delay \in Nat
    OBVIOUS
  <2> QED
    BY <1>4, <2>1 DEF TimerSchedule
<1>5. CASE TxCancel
  BY <1>5 DEF TxCancel
<1>6. CASE TxExpire
  BY <1>6 DEF TxExpire
<1>7. CASE WatchdogExpire
  BY <1>7 DEF WatchdogExpire, WatchdogCountdown!Fire
<1>8. CASE TimerSuspend
  BY <1>8 DEF TimerSuspend
<1>9. CASE TimerResume
  BY <1>9 DEF TimerResume
<1>10. CASE TimerCancel
  BY <1>10 DEF TimerCancel
<1>11. CASE TimerExpire
  BY <1>11 DEF TimerExpire
<1>12. CASE TimersTick
  BY <1>12 DEF TimersTick, WatchdogCountdown!Tick
<1>13. CASE UNCHANGED timersVars
  BY <1>13 DEF timersVars
<1> QED
  BY <1>1, <1>2, <1>3, <1>4, <1>5, <1>6, <1>7, <1>8, <1>9, <1>10, <1>11, <1>12, <1>13 DEF TimersNext

\* A watchdog calls back when the last time it was pinged for has passed.
THEOREM WatchdogImplementsCountdown == ASSUME TimerDelays \subseteq Nat PROVE TimersSpec => WatchdogCountsDown
<1>1. TimersInit => WatchdogCountdown!Init
  BY DEF TimersInit, WatchdogCountdown!Init, WatchdogLeft, NotRunning, TxIsRunning, WatchdogIsRunning, EventIsRunning, IsRunning,
         Phase, DidTo, Nothing
<1> QED
  BY <1>1, WatchdogCountsDownStep, TimersInvariant, PTL DEF TimersSpec, WatchdogCountsDown, WatchdogCountdown!Spec

\* A step is a step of the countdown or leaves it alone.
LEMMA TimerCountsDownStep ==
  ASSUME TimerDelays \subseteq Nat, TInv, TInv', [TimersNext]_timersVars
  PROVE  [TimerCountdown!Next]_TimerCountdown!countdownVars
<1> USE DEF TInv, TimersTypeOK, EventNotLate, EndsAsAsked, TxTimers, Watchdogs, CoreTimers, Events,
            NotRunning, TxIsRunning, WatchdogIsRunning, EventIsRunning, IsRunning, Phase, DidTo, Nothing, Doings, Operations,
            TimerLeft, TimerCountdown!Next, TimerCountdown!countdownVars, TimerCountdown!Elsewhere
<1>1. ASSUME NEW delay \in TimerDelays, TxSet(delay)
      PROVE  [TimerCountdown!Next]_TimerCountdown!countdownVars
  <2>1. delay \in Nat
    OBVIOUS
  <2> QED
    BY <1>1, <2>1 DEF TxSet
<1>2. ASSUME NEW delay \in TimerDelays, TxReschedule(delay)
      PROVE  [TimerCountdown!Next]_TimerCountdown!countdownVars
  <2>1. delay \in Nat
    OBVIOUS
  <2> QED
    BY <1>2, <2>1 DEF TxReschedule, EventAfterReschedule
<1>3. ASSUME NEW delay \in TimerDelays, Ping(delay)
      PROVE  [TimerCountdown!Next]_TimerCountdown!countdownVars
  <2>1. delay \in Nat
    OBVIOUS
  <2> QED
    BY <1>3, <2>1 DEF Ping, LatestEnd
<1>4. ASSUME NEW delay \in TimerDelays, TimerSchedule(delay)
      PROVE  [TimerCountdown!Next]_TimerCountdown!countdownVars
  <2>1. delay \in Nat
    OBVIOUS
  <2> QED
    BY <1>4, <2>1 DEF TimerSchedule, TimerCountdown!Start
<1>5. CASE TxCancel
  BY <1>5 DEF TxCancel
<1>6. CASE TxExpire
  BY <1>6 DEF TxExpire
<1>7. CASE WatchdogExpire
  BY <1>7 DEF WatchdogExpire
<1>8. CASE TimerSuspend
  BY <1>8 DEF TimerSuspend, DelayLeft, TimerCountdown!Pause
<1>9. CASE TimerResume
  BY <1>9 DEF TimerResume, TimerCountdown!Continue
<1>10. CASE TimerCancel
  BY <1>10 DEF TimerCancel, TimerCountdown!Cancel
<1>11. CASE TimerExpire
  BY <1>11 DEF TimerExpire, TimerCountdown!Fire
<1>12. CASE TimersTick
  BY <1>12 DEF TimersTick, TimerCountdown!Tick
<1>13. CASE UNCHANGED timersVars
  BY <1>13 DEF timersVars
<1> QED
  BY <1>1, <1>2, <1>3, <1>4, <1>5, <1>6, <1>7, <1>8, <1>9, <1>10, <1>11, <1>12, <1>13 DEF TimersNext

\* A timer calls back when the delay it was scheduled with has passed, the time it was
\* suspended not counted, unless it is cancelled.
THEOREM TimerImplementsCountdown == ASSUME TimerDelays \subseteq Nat PROVE TimersSpec => TimerCountsDown
<1>1. TimersInit => TimerCountdown!Init
  BY DEF TimersInit, TimerCountdown!Init, TimerLeft, NotRunning, TxIsRunning, WatchdogIsRunning, EventIsRunning, IsRunning,
         Phase, DidTo, Nothing
<1> QED
  BY <1>1, TimerCountsDownStep, TimersInvariant, PTL DEF TimersSpec, TimerCountsDown, TimerCountdown!Spec

-----------------------------------------------------------------------------
(* RealtimeSimulator: no wake-up is lost, no event is executed before    *)
(* its time and the event list is the one Scheduler specifies.           *)

Stamped(ev) == ev.ts \in Nat /\ ev.uid \in Nat

\* The part of the type invariant the argument needs.
RTypes ==
    /\ pc \in Places /\ wall \in Nat /\ m_currentTs \in Nat /\ target \in Nat /\ nRuns \in Nat
    /\ m_uid \in Nat /\ \A ev \in m_events : Stamped(ev)
    /\ m_condition \in BOOLEAN /\ idle \in BOOLEAN /\ m_running \in BOOLEAN

\* Outside Run, or running: m_running tells.
RunningInRun == m_running <=> pc # "user"

\* While it waits for an event there is one that is due when the wait ends, even if
\* others were inserted, and when it is about to take an event one is due.
DueAfterWait ==
    /\ pc \in {"sync", "sleep", "spin"} /\ ~idle => \E ev \in m_events : ev.ts <= target
    /\ pc = "take" => \E ev \in m_events : ev.ts <= wall

\* No event is executed before the first call of Run has set the origin.
NothingBeforeRun ==
    /\ nRuns = 0 => ~m_running /\ m_currentTs = 0
    /\ nRuns = 1 /\ pc = "start" => m_currentTs = 0

RInv == RTypes /\ RunningInRun /\ DueAfterWait /\ NoLostWakeup /\ NeverEarly
        /\ NothingBeforeRun

LEMMA RealtimeInit == Init => RInv
<1> SUFFICES ASSUME Init PROVE RInv
  OBVIOUS
<1> USE DEF Init
<1>1. RTypes
  <2>1. MaxTime \in Nat
    BY RealtimeAssumption
  <2>2. wall \in Nat
    BY <2>1 DEF SinceEpoch
  <2>3. /\ pc \in Places /\ m_currentTs \in Nat /\ target \in Nat /\ nRuns \in Nat /\ m_uid \in Nat
        /\ m_events = {} /\ m_condition \in BOOLEAN /\ idle \in BOOLEAN /\ m_running \in BOOLEAN
    BY DEF Places
  <2> QED
    BY <2>2, <2>3 DEF RTypes
<1>2. pc = "user" /\ m_running = FALSE /\ nRuns = 0 /\ m_currentTs = 0
  OBVIOUS
<1>3. RunningInRun /\ NothingBeforeRun
  BY <1>2 DEF RunningInRun, NothingBeforeRun
<1>4. DueAfterWait /\ NoLostWakeup
  BY <1>2 DEF DueAfterWait, NoLostWakeup
<1>5. NeverEarly
  BY <1>2 DEF NeverEarly
<1> QED
  BY <1>1, <1>3, <1>4, <1>5 DEF RInv

\* The effect of an insertion at a time that is not past.
LEMMA InsertKeeps ==
  ASSUME RInv, NEW ts \in Nat, Insert(ts)
  PROVE  RInv'
<1> USE DEF RInv, RTypes, RunningInRun, DueAfterWait, NoLostWakeup, NeverEarly, NothingBeforeRun, Insert, Uids, Event, Stamped
<1>1. m_uid \in Nat /\ m_uid' \in Nat /\ m_condition' = TRUE
  BY RealtimeAssumption
<1>2. \A ev \in m_events' : Stamped(ev)
  BY <1>1
<1>3. m_events \subseteq m_events'
  OBVIOUS
<1>4. RTypes' /\ RunningInRun' /\ NeverEarly' /\ NothingBeforeRun'
  BY <1>1, <1>2
<1>5. DueAfterWait'
  BY <1>3
<1>6. NoLostWakeup'
  BY <1>1
<1> QED
  BY <1>4, <1>5, <1>6

LEMMA RealtimeStep ==
  ASSUME RInv, [Next]_vars
  PROVE  RInv'
<1> USE DEF RInv, RTypes, RunningInRun, DueAfterWait, NoLostWakeup, NeverEarly, NothingBeforeRun, Places, list, sync
<1>1. ASSUME NEW delay \in Delays, Schedule(delay)
      PROVE  RInv'
  <2>1. m_currentTs + delay \in Nat
    BY RealtimeAssumption
  <2> QED
    BY <1>1, <2>1, InsertKeeps DEF Schedule
<1>2. ASSUME NEW delay \in Delays, ScheduleWithContext(delay)
      PROVE  RInv'
  <2>1. ForeignNow + delay \in Nat
    BY RealtimeAssumption DEF ForeignNow
  <2> QED
    BY <1>2, <2>1, InsertKeeps DEF ScheduleWithContext
<1>3. ASSUME NEW ev \in m_events, Remove(ev)
      PROVE  RInv'
  BY <1>3 DEF Remove, InUserCode
<1>4. CASE Stop
  BY <1>4 DEF Stop
<1>5. CASE Run
  <2>1. pc' = "start" /\ m_running' = TRUE /\ nRuns' = nRuns + 1
        /\ IF nRuns = 0 THEN wall' = wall ELSE wall' \in Nat
    BY <1>5, RealtimeAssumption DEF Run
  <2>2. UNCHANGED <<m_events, m_uid, m_currentTs, m_condition, target, idle>>
    BY <1>5 DEF Run
  <2>3. RTypes'
    BY <2>1, <2>2
  <2>4. RunningInRun' /\ DueAfterWait' /\ NoLostWakeup'
    BY <2>1
  <2>5. NothingBeforeRun' /\ NeverEarly'
    BY <2>1, <2>2
  <2> QED
    BY <2>3, <2>4, <2>5
<1>6. CASE RunReturns
  BY <1>6 DEF RunReturns
<1>7. CASE RunProcesses
  BY <1>7 DEF RunProcesses
<1>8. CASE RunIdles
  <2>1. target' \in Nat
    BY <1>8, RealtimeAssumption DEF RunIdles
  <2> QED
    BY <1>8, <2>1 DEF RunIdles
<1>9. CASE PeekNext
  <2>1. PICK next \in m_events : IsHead(next) /\ target' = IF next.ts <= wall THEN wall ELSE next.ts
    BY <1>9 DEF PeekNext
  <2>2. next.ts \in Nat /\ target' \in Nat /\ next.ts <= target'
    BY <2>1 DEF Stamped
  <2>3. \A ev \in m_events : ev.ts >= next.ts
    BY <2>1 DEF IsHead, Before, Stamped
  <2>4. target' > wall => target' = next.ts
    BY <2>1, <2>2
  <2> QED
    BY <1>9, <2>2, <2>3, <2>4 DEF PeekNext
<1>10. CASE Synchronize
  BY <1>10 DEF Synchronize, SynchronizeFrom
<1>11. CASE SleepWaitEnds
  BY <1>11 DEF SleepWaitEnds, AfterSynchronize
<1>12. CASE SpinWaitReaches
  BY <1>12 DEF SpinWaitReaches, AfterSynchronize, Stamped
<1>13. CASE SpinWaitInterrupted
  BY <1>13 DEF SpinWaitInterrupted, Interrupted, AfterSynchronize
<1>14. CASE TakeNext
  <2>1. PICK next \in m_events :
           /\ IsHead(next) /\ m_events' = m_events \ {next} /\ m_currentTs' = next.ts
           /\ pc' \in {"fatal", "invoke"}
    BY <1>14 DEF TakeNext
  <2>2. PICK due \in m_events : due.ts <= wall
    BY <1>14 DEF TakeNext
  <2>3. next.ts <= wall /\ next.ts \in Nat
    BY <2>1, <2>2 DEF IsHead, Before, Stamped
  <2> QED
    BY <1>14, <2>1, <2>3 DEF TakeNext
<1>15. CASE InvokeReturns
  BY <1>15 DEF InvokeReturns
<1>16. CASE Tick
  BY <1>16 DEF Tick, Stamped
<1>17. CASE SetOrigin
  BY <1>17 DEF SetOrigin
<1>18. CASE UNCHANGED vars
  BY <1>18 DEF vars
<1> QED
  BY <1>1, <1>2, <1>3, <1>4, <1>5, <1>6, <1>7, <1>8, <1>9, <1>10, <1>11, <1>12, <1>13, <1>14,
     <1>15, <1>16, <1>17, <1>18
  DEF Next, MainStep, UserStep, ForeignStep

\* The inductive invariant holds throughout.
THEOREM RealtimeInvariant == Spec => []RInv
  BY RealtimeInit, RealtimeStep, PTL DEF Spec

\* The rest of the type invariant.
RestOfTypes ==
    /\ m_stop \in BOOLEAN /\ sleepTill \in Nat /\ hardLimit \in HardLimits
    /\ m_uid \in 1..MaxEvents + 1
    /\ \A ev \in m_events : ev.ts \in Nat /\ ev.uid \in 1..m_uid - 1

LEMMA InsertKeepsTypes ==
  ASSUME RestOfTypes, NEW ts \in Nat, Insert(ts)
  PROVE  RestOfTypes'
<1>1. m_uid \in 1..MaxEvents /\ m_uid' = m_uid + 1 /\ MaxEvents \in Nat
  BY RealtimeAssumption DEF Insert, Uids
<1>2. m_events' = m_events \cup {[ts |-> ts, uid |-> m_uid]}
  BY DEF Insert, Event
<1>3. UNCHANGED <<m_stop, sleepTill, hardLimit>>
  BY DEF Insert
<1> QED
  BY <1>1, <1>2, <1>3 DEF RestOfTypes

LEMMA RealtimeTypesStep ==
  ASSUME RInv, RestOfTypes, [Next]_vars
  PROVE  RestOfTypes'
<1> USE DEF RestOfTypes, list, sync
<1>1. ASSUME NEW delay \in Delays, Schedule(delay)
      PROVE  RestOfTypes'
  <2>1. m_currentTs + delay \in Nat
    BY RealtimeAssumption DEF RInv, RTypes
  <2> QED
    BY <1>1, <2>1, InsertKeepsTypes DEF Schedule
<1>2. ASSUME NEW delay \in Delays, ScheduleWithContext(delay)
      PROVE  RestOfTypes'
  <2>1. ForeignNow + delay \in Nat
    BY RealtimeAssumption DEF ForeignNow, RInv, RTypes
  <2> QED
    BY <1>2, <2>1, InsertKeepsTypes DEF ScheduleWithContext
<1>3. ASSUME NEW ev \in m_events, Remove(ev)
      PROVE  RestOfTypes'
  BY <1>3 DEF Remove
<1>4. CASE Stop \/ Run \/ SetOrigin \/ RunReturns \/ RunProcesses \/ RunIdles \/ PeekNext
  BY <1>4 DEF Stop, Run, SetOrigin, RunReturns, RunProcesses, RunIdles, PeekNext
<1>5. CASE Synchronize
  <2>1. SleepsFirst => target - SpinTime \in Nat
    BY RealtimeAssumption DEF SleepsFirst, RInv, RTypes
  <2> QED
    BY <1>5, <2>1 DEF Synchronize, SynchronizeFrom
<1>6. CASE SleepWaitEnds \/ SpinWaitReaches \/ SpinWaitInterrupted \/ InvokeReturns \/ Tick
  BY <1>6 DEF SleepWaitEnds, SpinWaitReaches, SpinWaitInterrupted, InvokeReturns, Tick
<1>7. CASE TakeNext
  BY <1>7 DEF TakeNext
<1>8. CASE UNCHANGED vars
  BY <1>8 DEF vars
<1> QED
  BY <1>1, <1>2, <1>3, <1>4, <1>5, <1>6, <1>7, <1>8 DEF Next, MainStep, UserStep, ForeignStep

\* The types hold whatever the threads do: no wait has its end before the origin, and
\* no event a uid that was not given out.
THEOREM RealtimeTypes == Spec => []TypeOK
<1>1. Init => RestOfTypes
  <2> SUFFICES ASSUME Init PROVE RestOfTypes
    OBVIOUS
  <2>1. m_stop = FALSE /\ sleepTill = 0 /\ hardLimit \in HardLimits /\ m_uid = 1 /\ m_events = {}
    BY DEF Init
  <2>2. MaxEvents \in Nat
    BY RealtimeAssumption
  <2>3. m_stop \in BOOLEAN /\ sleepTill \in Nat
    BY <2>1
  <2>4. m_uid \in 1..MaxEvents + 1
    BY <2>1, <2>2
  <2>5. \A ev \in m_events : ev.ts \in Nat /\ ev.uid \in 1..m_uid - 1
    BY <2>1
  <2> QED
    BY <2>1, <2>3, <2>4, <2>5 DEF RestOfTypes
<1>2. RInv /\ RestOfTypes => TypeOK
  BY DEF RInv, RTypes, RestOfTypes, TypeOK
<1> QED
  BY <1>1, <1>2, RealtimeTypesStep, RealtimeInvariant, PTL DEF Spec

\* No wake-up is lost.
THEOREM WakeupCorrect == Spec => []NoLostWakeup
<1>1. RInv => NoLostWakeup
  BY DEF RInv
<1> QED
  BY <1>1, RealtimeInvariant, PTL

\* No event is executed before the wall clock has reached its time.
THEOREM PacingCorrect == Spec => []NeverEarly
<1>1. RInv => NeverEarly
  BY DEF RInv
<1> QED
  BY <1>1, RealtimeInvariant, PTL

\* An insertion at a time that is not past is one of the specified event list.
LEMMA InsertIsSpecified ==
  ASSUME RInv, NEW ts \in Nat, ts >= m_currentTs, Insert(ts)
  PROVE  Sched!Next
<1>1. ts - m_currentTs \in 0..SinceEpoch /\ m_currentTs + (ts - m_currentTs) = ts
  BY RealtimeAssumption DEF Insert, Latest, SinceEpoch, RInv, RTypes
<1>2. /\ m_uid \in 1..MaxEvents /\ m_uid' = m_uid + 1
      /\ m_events' = m_events \cup {[ts |-> ts, uid |-> m_uid]}
      /\ returned' = [ts |-> 0, uid |-> 0] /\ m_currentTs' = m_currentTs
  BY DEF Insert, Uids, Event, NoEvent
<1>3. [ts |-> m_currentTs + (ts - m_currentTs), uid |-> m_uid] = [ts |-> ts, uid |-> m_uid]
  BY <1>1
<1>4. Sched!InsertOf(Sched!NewEvent(ts - m_currentTs))
  BY <1>2, <1>3 DEF Sched!InsertOf, Sched!NewEvent, Sched!NoEvent
<1>5. Sched!Insert
  BY <1>1, <1>2, <1>4 DEF Sched!Insert, Sched!Uids
<1> QED
  BY <1>5 DEF Sched!Next

LEMMA RealtimeStepRefines ==
  ASSUME RInv, [Next]_vars, nRuns' <= 1
  PROVE  Sched!Next \/ UNCHANGED <<m_events, m_uid, m_currentTs, returned>>
<1> USE DEF list
<1>1. ASSUME NEW delay \in Delays, Schedule(delay)
      PROVE  Sched!Next
  <2>1. m_currentTs + delay \in Nat /\ m_currentTs + delay >= m_currentTs
    BY RealtimeAssumption DEF RInv, RTypes
  <2> QED
    BY <1>1, <2>1, InsertIsSpecified DEF Schedule
<1>2. ASSUME NEW delay \in Delays, ScheduleWithContext(delay)
      PROVE  Sched!Next
  <2>1. nRuns <= 1
    BY <1>2 DEF ScheduleWithContext, Insert
  <2>2. ForeignNow \in Nat /\ ForeignNow >= m_currentTs
    BY <2>1 DEF RInv, RTypes, NeverEarly, ForeignNow
  <2>3. ForeignNow + delay \in Nat /\ ForeignNow + delay >= m_currentTs
    BY <2>2, RealtimeAssumption DEF RInv, RTypes
  <2> QED
    BY <1>2, <2>3, InsertIsSpecified DEF ScheduleWithContext
<1>3. ASSUME NEW ev \in m_events, Remove(ev)
      PROVE  Sched!Next
  BY <1>3 DEF Remove, Sched!Next, Sched!Remove, NoEvent, Sched!NoEvent
<1>4. CASE TakeNext
  <2>1. PICK next \in m_events :
           /\ IsHead(next) /\ m_events' = m_events \ {next}
           /\ returned' = next /\ m_currentTs' = next.ts
    BY <1>4 DEF TakeNext
  <2>2. \A e \in m_events \ {next} : Sched!Before(next, e)
    BY <2>1 DEF IsHead, Before, Sched!Before
  <2> QED
    BY <1>4, <2>1, <2>2 DEF TakeNext, Sched!Next, Sched!RemoveNext
<1>5. CASE Stop \/ Run \/ SetOrigin
  BY <1>5 DEF Stop, Run, SetOrigin
<1>6. CASE RunReturns \/ RunProcesses \/ RunIdles \/ PeekNext \/ Synchronize
  BY <1>6 DEF RunReturns, RunProcesses, RunIdles, PeekNext, Synchronize, SynchronizeFrom
<1>7. CASE SleepWaitEnds \/ SpinWaitReaches \/ SpinWaitInterrupted \/ InvokeReturns \/ Tick
  BY <1>7 DEF SleepWaitEnds, SpinWaitReaches, SpinWaitInterrupted, InvokeReturns, Tick
<1>8. CASE UNCHANGED vars
  BY <1>8 DEF vars
<1> QED
  BY <1>1, <1>2, <1>3, <1>4, <1>5, <1>6, <1>7, <1>8
  DEF Next, MainStep, UserStep, ForeignStep

\* During the first call of Run the event list, with all its threads, is the one
\* every engine has: nothing is inserted in the past, and the next event by time
\* and uid is the one handed out.
THEOREM RealtimeImplementsScheduler == Spec => ImplementsScheduler
<1>1. Init => Sched!Init
  BY DEF Init, Sched!Init, NoEvent, Sched!NoEvent
<1>2. RInv /\ [Next]_vars => [nRuns' <= 1 => Sched!Next]_<<m_events, m_uid, m_currentTs, returned>>
  BY RealtimeStepRefines
<1> QED
  BY <1>1, <1>2, RealtimeInvariant, PTL DEF Spec, ImplementsScheduler

-----------------------------------------------------------------------------
(* ListScheduler: an insertion finds its place, which keeps the list in    *)
(* the order of keys, so that its front is the earliest event.             *)

ListEntries == [ts : Nat, uid : Nat]

\* A list in the order of keys, which no two events share.
Ascending(entries) ==
    /\ entries \in Seq(ListEntries)
    /\ \A i, j \in 1..Len(entries) : i < j => List!Sched!Before(entries[i], entries[j])

\* The inductive invariant.
ListInv ==
    /\ m_uidL \in Nat /\ nowL \in Nat /\ Ascending(m_eventsL)
    /\ \A i \in 1..Len(m_eventsL) : m_eventsL[i].uid < m_uidL

\* The order of keys is total and strict.
LEMMA ListKeyOrder ==
  ASSUME NEW a \in ListEntries, NEW b \in ListEntries, NEW c \in ListEntries
  PROVE  /\ ~List!Sched!Before(a, a)
         /\ List!Sched!Before(a, b) /\ List!Sched!Before(b, c) => List!Sched!Before(a, c)
         /\ a.uid # b.uid => List!Sched!Before(a, b) \/ List!Sched!Before(b, a)
  BY DEF List!Sched!Before, ListEntries

\* The scan of ListScheduler::Insert stops, and all before the place are earlier.
LEMMA PlaceFound ==
  ASSUME NEW entries, Ascending(entries), NEW ev \in ListEntries,
         NEW n, n = List!InsertionPoint(entries, ev)
  PROVE  /\ n \in 1..Len(entries) + 1
         /\ n <= Len(entries) => List!Sched!Before(ev, entries[n])
         /\ \A j \in 1..n - 1 : ~List!Sched!Before(ev, entries[j])
<1> DEFINE T == {j \in 1..Len(entries) : ~List!Sched!Before(ev, entries[j])}
<1>1. entries \in Seq(ListEntries) /\ Len(entries) \in Nat /\ \A j \in 1..Len(entries) : entries[j] \in ListEntries
  BY DEF Ascending
<1>2. ASSUME NEW i \in T, NEW j \in 1..Len(entries), j < i
      PROVE  j \in T
  <2>1. List!Sched!Before(entries[j], entries[i])
    BY <1>1, <1>2 DEF Ascending
  <2>2. entries[i] \in ListEntries /\ entries[j] \in ListEntries
    BY <1>1
  <2>3. List!Sched!Before(ev, entries[j]) => List!Sched!Before(ev, entries[i])
    BY <2>1, <2>2, ListKeyOrder
  <2> QED
    BY <2>3
<1>3. T \in SUBSET (1..Len(entries))
  OBVIOUS
<1>4. Cardinality(T) \in 0..Len(entries) /\ T = 1..Cardinality(T)
  <2> HIDE DEF T
  <2> QED
    BY <1>1, <1>2, <1>3, Prefix
<1>5. \E i \in 1..Len(entries) + 1 :
        /\ i <= Len(entries) => List!Sched!Before(ev, entries[i])
        /\ \A j \in 1..i - 1 : ~List!Sched!Before(ev, entries[j])
  <2> DEFINE i == Cardinality(T) + 1
  <2>1. i \in 1..Len(entries) + 1
    BY <1>1, <1>4
  <2>2. i \notin T
    <3> HIDE DEF T
    <3>1. \A k \in T : k \in 1..Cardinality(T)
      BY <1>4
    <3> QED
      BY <1>1, <1>4, <3>1
  <2>3. i <= Len(entries) => List!Sched!Before(ev, entries[i])
    BY <2>1, <2>2
  <2>4. \A j \in 1..i - 1 : j \in T
    BY <1>1, <1>4
  <2> QED
    BY <2>1, <2>3, <2>4
<1> QED
  BY <1>5 DEF List!InsertionPoint

LEMMA ListInsertStep ==
  ASSUME NearDelays \subseteq Nat, ListInv, List!Insert
  PROVE  ListInv' /\ List!Sched!Insert
<1>1. PICK delay \in NearDelays :
        m_eventsL' = List!SeqExt!InsertAt(
                         m_eventsL, List!InsertionPoint(m_eventsL, List!Sched!NewEvent(delay)),
                         List!Sched!NewEvent(delay))
  BY DEF List!Insert
<1> DEFINE ev == List!Sched!NewEvent(delay)
           n == List!InsertionPoint(m_eventsL, ev)
<1>2. /\ m_uidL \in List!Sched!Uids /\ m_uidL' = m_uidL + 1
      /\ returnedL' = List!Sched!NoEvent /\ nowL' = nowL
  BY DEF List!Insert
<1>3. ev \in ListEntries /\ ev.uid = m_uidL
  BY DEF ListInv, List!Sched!NewEvent, ListEntries
<1>4. Ascending(m_eventsL) /\ m_eventsL \in Seq(ListEntries) /\ Len(m_eventsL) \in Nat
      /\ \A i \in 1..Len(m_eventsL) : m_eventsL[i] \in ListEntries
  BY DEF ListInv, Ascending
<1> HIDE DEF ev
<1>5. /\ n \in 1..Len(m_eventsL) + 1
      /\ n <= Len(m_eventsL) => List!Sched!Before(ev, m_eventsL[n])
      /\ \A j \in 1..n - 1 : ~List!Sched!Before(ev, m_eventsL[j])
  BY <1>3, <1>4, PlaceFound
<1>6. m_eventsL' = Inserted(m_eventsL, n, ev)
  BY <1>1 DEF Inserted, List!SeqExt!InsertAt, ev
<1> HIDE DEF n
<1>7. /\ m_eventsL' \in Seq(ListEntries) /\ Len(m_eventsL') = Len(m_eventsL) + 1 /\ m_eventsL'[n] = ev
      /\ \A i \in 1..n - 1 : m_eventsL'[i] = m_eventsL[i]
      /\ \A i \in n..Len(m_eventsL) : m_eventsL'[i + 1] = m_eventsL[i]
  <2> DEFINE after == Inserted(m_eventsL, n, ev)
  <2>1. /\ after \in Seq(ListEntries) /\ Len(after) = Len(m_eventsL) + 1 /\ after[n] = ev
        /\ \A i \in 1..n - 1 : after[i] = m_eventsL[i]
        /\ \A i \in n..Len(m_eventsL) : after[i + 1] = m_eventsL[i]
    BY <1>3, <1>4, <1>5, Inserting
  <2> HIDE DEF after
  <2>2. m_eventsL' = after
    BY <1>6 DEF after
  <2> QED
    BY <2>1, <2>2
<1>8. \A i \in 1..n - 1 : List!Sched!Before(m_eventsL[i], ev)
  <2> SUFFICES ASSUME NEW i \in 1..n - 1
               PROVE  List!Sched!Before(m_eventsL[i], ev)
    OBVIOUS
  <2>1. i \in 1..Len(m_eventsL)
    BY <1>4, <1>5
  <2>2. m_eventsL[i] \in ListEntries /\ m_eventsL[i].uid < m_uidL /\ m_uidL \in Nat
    BY <1>4, <2>1 DEF ListInv
  <2>3. m_eventsL[i].uid # ev.uid
    BY <1>3, <2>2 DEF ListEntries
  <2>4. ~List!Sched!Before(ev, m_eventsL[i])
    BY <1>5
  <2> QED
    BY <1>3, <2>2, <2>3, <2>4, ListKeyOrder
<1>9. \A i \in n..Len(m_eventsL) : List!Sched!Before(ev, m_eventsL[i])
  <2> SUFFICES ASSUME NEW i \in n..Len(m_eventsL), i # n
               PROVE  List!Sched!Before(ev, m_eventsL[i])
    BY <1>4, <1>5
  <2>1. n \in 1..Len(m_eventsL) /\ i \in 1..Len(m_eventsL) /\ n < i
    BY <1>4, <1>5
  <2>2. List!Sched!Before(m_eventsL[n], m_eventsL[i]) /\ List!Sched!Before(ev, m_eventsL[n])
    BY <1>4, <1>5, <2>1 DEF Ascending
  <2> QED
    BY <1>3, <1>4, <2>1, <2>2, ListKeyOrder
\* Where an element of the new list comes from.
<1>10. \A i \in 1..Len(m_eventsL') :
         \/ i < n /\ i \in 1..Len(m_eventsL) /\ m_eventsL'[i] = m_eventsL[i]
         \/ i = n /\ m_eventsL'[i] = ev
         \/ i > n /\ i - 1 \in n..Len(m_eventsL) /\ m_eventsL'[i] = m_eventsL[i - 1]
  <2> SUFFICES ASSUME NEW i \in 1..Len(m_eventsL'), i > n
               PROVE  i - 1 \in n..Len(m_eventsL) /\ m_eventsL'[i] = m_eventsL[i - 1]
    BY <1>4, <1>5, <1>7
  <2>1. i - 1 \in n..Len(m_eventsL) /\ (i - 1) + 1 = i
    BY <1>4, <1>5, <1>7
  <2> QED
    BY <1>7, <2>1
<1>11. Ascending(m_eventsL)'
  <2> SUFFICES ASSUME NEW i \in 1..Len(m_eventsL'), NEW j \in 1..Len(m_eventsL'), i < j
               PROVE  List!Sched!Before(m_eventsL'[i], m_eventsL'[j])
    BY <1>7 DEF Ascending
  <2>1. CASE j < n
    BY <1>4, <1>5, <1>10, <2>1 DEF Ascending
  <2>2. CASE j = n
    BY <1>5, <1>8, <1>10, <2>2
  <2>3. CASE j > n /\ i < n
    <3>1. j - 1 \in 1..Len(m_eventsL) /\ i \in 1..Len(m_eventsL) /\ i < j - 1
          /\ m_eventsL'[i] = m_eventsL[i] /\ m_eventsL'[j] = m_eventsL[j - 1]
      BY <1>4, <1>5, <1>10, <2>3
    <3> QED
      BY <1>4, <3>1 DEF Ascending
  <2>4. CASE j > n /\ i = n
    BY <1>5, <1>9, <1>10, <2>4
  <2>5. CASE j > n /\ i > n
    <3>1. j - 1 \in 1..Len(m_eventsL) /\ i - 1 \in 1..Len(m_eventsL) /\ i - 1 < j - 1
          /\ m_eventsL'[i] = m_eventsL[i - 1] /\ m_eventsL'[j] = m_eventsL[j - 1]
      BY <1>4, <1>5, <1>10, <2>5
    <3> QED
      BY <1>4, <3>1 DEF Ascending
  <2> QED
    BY <1>5, <2>1, <2>2, <2>3, <2>4, <2>5
<1>12. \A i \in 1..Len(m_eventsL') : m_eventsL'[i].uid < m_uidL'
  <2>1. \A i \in 1..Len(m_eventsL) : m_eventsL[i].uid \in Nat /\ m_eventsL[i].uid < m_uidL + 1
    BY <1>4 DEF ListInv, ListEntries
  <2>2. ev.uid < m_uidL + 1
    BY <1>3 DEF ListInv
  <2> SUFFICES ASSUME NEW i \in 1..Len(m_eventsL')
               PROVE  m_eventsL'[i].uid < m_uidL + 1
    BY <1>2
  <2>3. \/ m_eventsL'[i] = ev
        \/ \E k \in 1..Len(m_eventsL) : m_eventsL'[i] = m_eventsL[k]
    BY <1>4, <1>5, <1>10
  <2> QED
    BY <2>1, <2>2, <2>3
<1>13. List!Contents' = List!Contents \cup {ev}
  <2>1. DOMAIN m_eventsL = 1..Len(m_eventsL) /\ DOMAIN m_eventsL' = 1..Len(m_eventsL')
    BY <1>4, <1>7
  <2>2. \A i \in 1..Len(m_eventsL') : m_eventsL'[i] \in List!Contents \cup {ev}
    <3> SUFFICES ASSUME NEW i \in 1..Len(m_eventsL')
                 PROVE  m_eventsL'[i] \in List!Contents \cup {ev}
      OBVIOUS
    <3>1. \/ m_eventsL'[i] = ev
          \/ \E k \in 1..Len(m_eventsL) : m_eventsL'[i] = m_eventsL[k]
      BY <1>4, <1>5, <1>10
    <3> QED
      BY <2>1, <3>1 DEF List!Contents
  <2>3. ev \in List!Contents'
    BY <1>4, <1>5, <1>7, <2>1 DEF List!Contents
  <2>4. ASSUME NEW i \in 1..Len(m_eventsL)
        PROVE  m_eventsL[i] \in List!Contents'
    <3>1. CASE i < n
      BY <1>4, <1>5, <1>7, <2>1, <3>1 DEF List!Contents
    <3>2. CASE i >= n
      <4>1. i + 1 \in 1..Len(m_eventsL') /\ m_eventsL'[i + 1] = m_eventsL[i]
        BY <1>4, <1>5, <1>7, <3>2
      <4> QED
        BY <2>1, <4>1 DEF List!Contents
    <3> QED
      BY <1>4, <1>5, <3>1, <3>2
  <2> QED
    BY <2>1, <2>2, <2>3, <2>4 DEF List!Contents
<1>14. List!Sched!Insert
  BY <1>2, <1>13 DEF List!Sched!Insert, List!Sched!InsertOf, ev
<1> QED
  BY <1>2, <1>11, <1>12, <1>14 DEF ListInv

\* Taking the event at any place out of the list takes it out of the set.
LEMMA RemoveAnywhere ==
  ASSUME ListInv, NEW n \in 1..Len(m_eventsL), m_eventsL' = Removed(m_eventsL, n),
         m_uidL' = m_uidL, nowL' \in Nat
  PROVE  ListInv' /\ List!Contents' = List!Contents \ {m_eventsL[n]}
<1>1. Ascending(m_eventsL) /\ m_eventsL \in Seq(ListEntries) /\ Len(m_eventsL) \in Nat
      /\ \A i \in 1..Len(m_eventsL) : m_eventsL[i] \in ListEntries
  BY DEF ListInv, Ascending
<1>2. /\ m_eventsL' \in Seq(ListEntries) /\ Len(m_eventsL') = Len(m_eventsL) - 1
      /\ \A i \in 1..n - 1 : m_eventsL'[i] = m_eventsL[i]
      /\ \A i \in n..Len(m_eventsL') : m_eventsL'[i] = m_eventsL[i + 1]
  BY <1>1, Removing
<1>3. DOMAIN m_eventsL = 1..Len(m_eventsL) /\ DOMAIN m_eventsL' = 1..Len(m_eventsL')
  BY <1>1, <1>2
<1> DEFINE old(i) == IF i < n THEN i ELSE i + 1
<1>4. \A i \in 1..Len(m_eventsL') :
         old(i) \in 1..Len(m_eventsL) /\ old(i) # n /\ m_eventsL'[i] = m_eventsL[old(i)]
  BY <1>1, <1>2
<1>5. \A i, j \in 1..Len(m_eventsL') : i < j => old(i) < old(j)
  BY <1>1, <1>2
<1>6. \A i \in 1..Len(m_eventsL) : i # n => \E k \in 1..Len(m_eventsL') : old(k) = i
  <2> SUFFICES ASSUME NEW i \in 1..Len(m_eventsL), i # n
               PROVE  \E k \in 1..Len(m_eventsL') : old(k) = i
    OBVIOUS
  <2>1. CASE i < n
    <3>1. i \in 1..Len(m_eventsL') /\ old(i) = i
      BY <1>1, <1>2, <2>1
    <3> QED
      BY <3>1
  <2>2. CASE i > n
    <3>1. i - 1 \in 1..Len(m_eventsL') /\ old(i - 1) = i
      BY <1>1, <1>2, <2>2
    <3> QED
      BY <3>1
  <2> QED
    BY <1>1, <2>1, <2>2
<1> HIDE DEF old
<1>7. Ascending(m_eventsL)'
  BY <1>1, <1>2, <1>4, <1>5 DEF Ascending
<1>8. \A i \in 1..Len(m_eventsL) : i # n => m_eventsL[i] # m_eventsL[n]
  <2> SUFFICES ASSUME NEW i \in 1..Len(m_eventsL), i # n
               PROVE  m_eventsL[i] # m_eventsL[n]
    OBVIOUS
  <2>1. List!Sched!Before(m_eventsL[i], m_eventsL[n]) \/ List!Sched!Before(m_eventsL[n], m_eventsL[i])
    BY <1>1 DEF Ascending
  <2> QED
    BY <1>1, <2>1, ListKeyOrder
<1>9. List!Contents' = List!Contents \ {m_eventsL[n]}
  <2>1. ASSUME NEW i \in 1..Len(m_eventsL')
        PROVE  m_eventsL'[i] \in List!Contents \ {m_eventsL[n]}
    <3>1. m_eventsL[old(i)] \in List!Contents /\ m_eventsL[old(i)] # m_eventsL[n]
      BY <1>3, <1>4, <1>8 DEF List!Contents
    <3> QED
      BY <1>4, <3>1
  <2>2. ASSUME NEW i \in 1..Len(m_eventsL), m_eventsL[i] # m_eventsL[n]
        PROVE  m_eventsL[i] \in List!Contents'
    <3>1. PICK k \in 1..Len(m_eventsL') : old(k) = i
      BY <1>6, <2>2
    <3>2. m_eventsL'[k] = m_eventsL[i]
      BY <1>4, <3>1
    <3> QED
      BY <1>3, <3>2 DEF List!Contents
  <2> QED
    BY <1>3, <2>1, <2>2 DEF List!Contents
<1> QED
  BY <1>4, <1>7, <1>9 DEF ListInv

LEMMA ListRemoveNextStep ==
  ASSUME ListInv, List!RemoveNext
  PROVE  ListInv' /\ List!Sched!RemoveNext
<1>1. /\ m_eventsL # <<>> /\ m_eventsL' = Tail(m_eventsL) /\ returnedL' = Head(m_eventsL)
      /\ nowL' = Head(m_eventsL).ts /\ m_uidL' = m_uidL
  BY DEF List!RemoveNext
<1>2. Ascending(m_eventsL) /\ m_eventsL \in Seq(ListEntries) /\ Len(m_eventsL) \in Nat \ {0}
      /\ \A i \in 1..Len(m_eventsL) : m_eventsL[i] \in ListEntries
  BY <1>1 DEF ListInv, Ascending
<1>3. Head(m_eventsL) = m_eventsL[1] /\ m_eventsL[1] \in ListEntries /\ DOMAIN m_eventsL = 1..Len(m_eventsL)
  BY <1>2
<1>4. nowL' \in Nat
  BY <1>1, <1>3 DEF ListEntries
<1>5. m_eventsL' = Removed(m_eventsL, 1)
  BY <1>1, <1>2 DEF Removed
<1>6. ListInv' /\ List!Contents' = List!Contents \ {m_eventsL[1]}
  BY <1>1, <1>2, <1>4, <1>5, RemoveAnywhere
<1>7. m_eventsL[1] \in List!Contents
  BY <1>2, <1>3 DEF List!Contents
<1>8. \A e \in List!Contents \ {m_eventsL[1]} : List!Sched!Before(m_eventsL[1], e)
  BY <1>2, <1>3 DEF List!Contents, Ascending
<1> QED
  BY <1>1, <1>3, <1>6, <1>7, <1>8 DEF List!Sched!RemoveNext

LEMMA ListRemoveStep ==
  ASSUME ListInv, List!Remove
  PROVE  ListInv' /\ List!Sched!Remove
<1>1. PICK n \in DOMAIN m_eventsL : m_eventsL' = List!SeqExt!RemoveAt(m_eventsL, n)
  BY DEF List!Remove
<1>2. returnedL' = List!Sched!NoEvent /\ UNCHANGED <<m_uidL, nowL>>
  BY DEF List!Remove
<1>3. n \in 1..Len(m_eventsL) /\ m_eventsL[n] \in List!Contents
  BY DEF ListInv, Ascending, List!Contents
<1>4. m_eventsL' = Removed(m_eventsL, n)
  BY <1>1 DEF List!SeqExt!RemoveAt, Removed
<1>5. ListInv' /\ List!Contents' = List!Contents \ {m_eventsL[n]}
  BY <1>2, <1>3, <1>4, RemoveAnywhere DEF ListInv
<1> QED
  BY <1>2, <1>3, <1>5 DEF List!Sched!Remove

\* The list stays sorted, whatever is inserted and removed.
THEOREM ListInvariant == ASSUME NearDelays \subseteq Nat PROVE List!Spec => []ListInv
<1>1. List!Init => ListInv
  BY DEF List!Init, ListInv, Ascending
<1>2. ListInv /\ [List!Next]_List!vars => ListInv'
  BY ListInsertStep, ListRemoveNextStep, ListRemoveStep DEF List!Next, List!vars, ListInv, Ascending
<1> QED
  BY <1>1, <1>2, PTL DEF List!Spec

\* ListScheduler is the event list the simulator takes it for: RemoveNext hands out
\* the earliest event, and Insert and Remove concern no event but theirs.
THEOREM ListIsScheduler == ASSUME NearDelays \subseteq Nat PROVE List!Spec => List!ImplementsScheduler
<1>1. List!Init => List!Sched!Init
  BY DEF List!Init, List!Sched!Init, List!Contents
<1>2. ListInv /\ [List!Next]_List!vars => [List!Sched!Next]_List!Sched!schedulerVars
  <2> SUFFICES ASSUME ListInv, [List!Next]_List!vars
               PROVE  List!Sched!Next \/ UNCHANGED List!Sched!schedulerVars
    OBVIOUS
  <2>1. CASE UNCHANGED List!vars
    BY <2>1 DEF List!vars, List!Sched!schedulerVars, List!Contents
  <2> QED
    BY <2>1, ListInsertStep, ListRemoveNextStep, ListRemoveStep DEF List!Next, List!Sched!Next
<1> QED
  BY <1>1, <1>2, ListInvariant, PTL DEF List!Spec, List!ImplementsScheduler, List!Sched!Spec

-----------------------------------------------------------------------------
(* The run. The heap and the calendar are the subject of modules of their  *)
(* own, HeapSchedulerProofs and CalendarSchedulerProofs.                   *)

\* The simulator's delays are not negative, and the heap takes some number of events.
CoreDelaysAreTimes ==
    /\ NearDelays \subseteq Nat /\ YearDelays \subseteq Nat /\ TimerDelays \subseteq Nat
    /\ HeapEvents \in Nat

\* A step of the run is one of one part and none of the others: every behaviour of the
\* run is one of each part, so that what is a theorem of a part is one of the run.
THEOREM CoreParts ==
  CoreSpec => Heap!Spec /\ List!Spec /\ Calendar!Spec /\ TimersSpec /\ Spec
<1>1. CoreInit => Heap!Init /\ List!Init /\ Calendar!Init /\ TimersInit /\ Init
  BY DEF CoreInit
<1>2. UNCHANGED heapVars => UNCHANGED Heap!vars
  BY DEF heapVars, Heap!vars
<1>3. UNCHANGED listVars => UNCHANGED List!vars
  BY DEF listVars, List!vars
<1>4. UNCHANGED calendarVars => UNCHANGED Calendar!vars
  BY DEF calendarVars, Calendar!vars
<1>5. [CoreNext]_coreVars =>
        /\ Heap!Next \/ UNCHANGED heapVars
        /\ List!Next \/ UNCHANGED listVars
        /\ Calendar!Next \/ UNCHANGED calendarVars
        /\ TimersNext \/ UNCHANGED timersVars
        /\ Next \/ UNCHANGED vars
  BY DEF CoreNext, InRealtime, coreVars
<1>6. [CoreNext]_coreVars =>
        /\ [Heap!Next]_Heap!vars /\ [List!Next]_List!vars /\ [Calendar!Next]_Calendar!vars
        /\ [TimersNext]_timersVars /\ [Next]_vars
  BY <1>2, <1>3, <1>4, <1>5
<1> QED
  BY <1>1, <1>6, PTL DEF CoreSpec, Heap!Spec, List!Spec, Calendar!Spec, TimersSpec, Spec

\* The parts of the run keep their types: the heap and the calendar hold no event
\* twice and lose none, no event of a timer is in the past.
THEOREM CoreTypes == ASSUME CoreDelaysAreTimes PROVE CoreSpec => []CoreTypeOK
<1>1. Heap!DelaysAreTimes /\ Calendar!DelaysAreTimes /\ TimerDelays \subseteq Nat
  BY DEF CoreDelaysAreTimes, Heap!DelaysAreTimes, Calendar!DelaysAreTimes
<1>2. /\ Heap!Spec => []Heap!TypeOK
      /\ Calendar!Spec => []Calendar!TypeOK
      /\ TimersSpec => []TimersTypeOK
  BY <1>1, Heap!HeapTypes, Calendar!CalendarTypes, TimersTypeCorrect
<1>3. Heap!TypeOK /\ Calendar!TypeOK /\ TimersTypeOK /\ TypeOK => CoreTypeOK
  BY DEF CoreTypeOK
<1> QED
  BY <1>2, <1>3, CoreParts, RealtimeTypes, PTL

\* In the run the heap is an event list until Remove fills a hole with an event earlier
\* than the parent of the hole: RemoveNext hands out the earliest event.
THEOREM CoreHeapIsScheduler ==
  ASSUME CoreDelaysAreTimes PROVE CoreSpec => HeapImplementsScheduler
<1>1. Heap!DelaysAreTimes
  BY DEF CoreDelaysAreTimes, Heap!DelaysAreTimes
<1>2. Heap!Spec => Heap!ImplementsScheduler
  BY <1>1, Heap!HeapIsScheduler
<1> QED
  BY <1>2, CoreParts, PTL DEF HeapImplementsScheduler

\* In the run ListScheduler hands out the earliest event, and keeps all others.
THEOREM CoreListIsScheduler ==
  ASSUME CoreDelaysAreTimes PROVE CoreSpec => ListImplementsScheduler
<1>1. List!Spec => List!ImplementsScheduler
  BY ListIsScheduler DEF CoreDelaysAreTimes
<1> QED
  BY <1>1, CoreParts, PTL DEF ListImplementsScheduler

\* In the run CalendarScheduler does, too, through every resize.
THEOREM CoreCalendarIsScheduler ==
  ASSUME CoreDelaysAreTimes PROVE CoreSpec => CalendarImplementsScheduler
<1>1. Calendar!DelaysAreTimes
  BY DEF CoreDelaysAreTimes, Calendar!DelaysAreTimes
<1>2. Calendar!Spec => Calendar!ImplementsScheduler
  BY <1>1, Calendar!CalendarIsScheduler
<1> QED
  BY <1>2, CoreParts, PTL DEF CalendarImplementsScheduler
=============================================================================
