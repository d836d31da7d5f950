-------------------------------- MODULE Timers --------------------------------
(***************************************************************************)
(* The timers built on the engine: WifiTxTimer (the timeout of a frame     *)
(* exchange), Watchdog and Timer. The first two do not move their event    *)
(* when they are postponed; it runs early, notices, and schedules another. *)
(***************************************************************************)
EXTENDS Integers

CONSTANTS
    TimerDelays,   \* the delays timers are given, natural numbers
    TimersTill     \* bound: the clock stops here

VARIABLES
    now,         \* Simulator::Now()
    txTimer,     \* [m_timeoutEvent, m_end] of a WifiTxTimer
    watchdog,    \* [m_event, m_end] of a Watchdog
    timer,       \* [m_event, m_delayLeft, suspended] of a Timer
    \* History, read by properties only:
    did,         \* [timer, operation] the last step called or called back
    txDue,       \* when the last call of Set or Reschedule asked for it
    pingedTill,  \* the latest time a Ping asked for
    timerDue     \* when Schedule asked for it, put off by the time suspended since

timersVars == <<now, txTimer, watchdog, timer, did, txDue, pingedTill, timerDue>>

\* An event is the time it is scheduled for, or NoEvent once it is not running.
NotRunning == -1
Events == Nat \cup {NotRunning}

TxTimers == [m_timeoutEvent : Events, m_end : Nat]
Watchdogs == [m_event : Events, m_end : Nat]
CoreTimers == [m_event : Events, m_delayLeft : Nat, suspended : BOOLEAN]

\* The calls and callbacks the timers answer for.
Operations == {"start", "hold", "pause", "continue", "cancel", "fire"}
Nothing == <<"none", "nothing">>
Doings == {"txTimer", "watchdog", "timer"} \X Operations \cup {Nothing}

TimersInit ==
    /\ now = 0 /\ did = Nothing /\ txDue = 0 /\ pingedTill = 0 /\ timerDue = 0
    /\ txTimer = [m_timeoutEvent |-> NotRunning, m_end |-> 0]
    /\ watchdog = [m_event |-> NotRunning, m_end |-> 0]
    /\ timer = [m_event |-> NotRunning, m_delayLeft |-> 0, suspended |-> FALSE]

-----------------------------------------------------------------------------
(* WifiTxTimer                                                              *)
TxIsRunning == txTimer.m_timeoutEvent # NotRunning

\* Every caller asserts that the timer is not running.
TxSet(delay) ==
    /\ ~TxIsRunning
    /\ txTimer' = [m_timeoutEvent |-> now + delay, m_end |-> now + delay]
    /\ txDue' = now + delay
    /\ did' = <<"txTimer", "start">> /\ UNCHANGED <<now, watchdog, timer, pingedTill, timerDue>>

\* Mutant: the event is left where it is when the expiration is moved up, too.
EventKept(end) == txTimer.m_timeoutEvent

EventAfterReschedule(end) == IF end < txTimer.m_end THEN end ELSE txTimer.m_timeoutEvent

TxReschedule(delay) ==
    /\ TxIsRunning
    /\ txTimer' = [m_timeoutEvent |-> EventAfterReschedule(now + delay), m_end |-> now + delay]
    /\ txDue' = now + delay
    /\ did' = <<"txTimer", "start">> /\ UNCHANGED <<now, watchdog, timer, pingedTill, timerDue>>

TxCancel ==
    /\ txTimer' = [txTimer EXCEPT !.m_timeoutEvent = NotRunning]
    /\ did' = <<"txTimer", "cancel">> /\ UNCHANGED <<now, watchdog, timer, txDue, pingedTill, timerDue>>

TxExpire ==
    /\ txTimer.m_timeoutEvent = now
    /\ IF txTimer.m_end = now
       THEN /\ txTimer' = [txTimer EXCEPT !.m_timeoutEvent = NotRunning]
            /\ did' = <<"txTimer", "fire">>
       ELSE /\ txTimer' = [txTimer EXCEPT !.m_timeoutEvent = txTimer.m_end]
            /\ did' = Nothing
    /\ UNCHANGED <<now, watchdog, timer, txDue, pingedTill, timerDue>>

-----------------------------------------------------------------------------
(* Watchdog                                                                 *)
WatchdogIsRunning == watchdog.m_event # NotRunning

\* Mutant: a shorter delay brings the end forward.
LastEnd(end) == end

LatestEnd(end) == IF watchdog.m_end < end THEN end ELSE watchdog.m_end

Ping(delay) ==
    /\ LET end == LatestEnd(now + delay)
       IN  watchdog' = [m_event |-> IF WatchdogIsRunning THEN watchdog.m_event ELSE end,
                        m_end |-> end]
    /\ pingedTill' = IF pingedTill < now + delay THEN now + delay ELSE pingedTill
    /\ did' = <<"watchdog", IF WatchdogIsRunning THEN "hold" ELSE "start">>
    /\ UNCHANGED <<now, txTimer, timer, txDue, timerDue>>

WatchdogExpire ==
    /\ watchdog.m_event = now
    /\ IF watchdog.m_end = now
       THEN /\ watchdog' = [watchdog EXCEPT !.m_event = NotRunning]
            /\ did' = <<"watchdog", "fire">>
       ELSE /\ watchdog' = [watchdog EXCEPT !.m_event = watchdog.m_end]
            /\ did' = Nothing
    /\ UNCHANGED <<now, txTimer, timer, txDue, pingedTill, timerDue>>

-----------------------------------------------------------------------------
(* Timer, with a policy other than CHECK_ON_DESTROY: with that one Suspend  *)
(* leaves the event running, and timer.h says that it does not apply.       *)
EventIsRunning == timer.m_event # NotRunning
IsRunning == ~timer.suspended /\ EventIsRunning

\* It is fatal to schedule a timer that runs. No client schedules one that is
\* suspended; Resume would schedule it a second time.
TimerSchedule(delay) ==
    /\ ~EventIsRunning /\ ~timer.suspended
    /\ timer' = [timer EXCEPT !.m_event = now + delay]
    /\ timerDue' = now + delay
    /\ did' = <<"timer", "start">> /\ UNCHANGED <<now, txTimer, watchdog, txDue, pingedTill>>

\* Mutant: the time of the event is taken for the delay left.
DelayLeftTillEvent == timer.m_event

\* Simulator::GetDelayLeft(m_event)
DelayLeft == timer.m_event - now

TimerSuspend ==
    /\ IsRunning
    /\ timer' = [m_event |-> NotRunning, m_delayLeft |-> DelayLeft, suspended |-> TRUE]
    /\ did' = <<"timer", "pause">> /\ UNCHANGED <<now, txTimer, watchdog, txDue, pingedTill, timerDue>>

TimerResume ==
    /\ timer.suspended
    /\ timer' = [m_event |-> now + timer.m_delayLeft, m_delayLeft |-> timer.m_delayLeft, suspended |-> FALSE]
    /\ did' = <<"timer", "continue">> /\ UNCHANGED <<now, txTimer, watchdog, txDue, pingedTill, timerDue>>

\* Timer::Cancel and Timer::Remove
TimerCancel ==
    /\ timer' = [timer EXCEPT !.m_event = NotRunning]
    /\ did' = <<"timer", "cancel">> /\ UNCHANGED <<now, txTimer, watchdog, txDue, pingedTill, timerDue>>

TimerExpire ==
    /\ timer.m_event = now
    /\ timer' = [timer EXCEPT !.m_event = NotRunning]
    /\ did' = <<"timer", "fire">> /\ UNCHANGED <<now, txTimer, watchdog, txDue, pingedTill, timerDue>>

-----------------------------------------------------------------------------
\* The clock moves on when nothing is scheduled for this instant.
TimersTick ==
    /\ now < TimersTill
    /\ now \notin {txTimer.m_timeoutEvent, watchdog.m_event, timer.m_event}
    /\ now' = now + 1
    /\ timerDue' = IF timer.suspended THEN timerDue + 1 ELSE timerDue
    /\ did' = Nothing /\ UNCHANGED <<txTimer, watchdog, timer, txDue, pingedTill>>

TimersNext ==
    \/ \E delay \in TimerDelays :
          TxSet(delay) \/ TxReschedule(delay) \/ Ping(delay) \/ TimerSchedule(delay)
    \/ TxCancel \/ TxExpire \/ WatchdogExpire
    \/ TimerSuspend \/ TimerResume \/ TimerCancel \/ TimerExpire
    \/ TimersTick

TimersSpec == TimersInit /\ [][TimersNext]_timersVars

-----------------------------------------------------------------------------
\* Type invariant.
TimersTypeOK ==
    /\ now \in Nat /\ did \in Doings
    /\ txTimer \in TxTimers /\ watchdog \in Watchdogs /\ timer \in CoreTimers
    /\ txDue \in Nat /\ pingedTill \in Nat /\ timerDue \in Nat

\* The event a postponed timer leaves where it is comes no later than the end it
\* must notice, and never lies in the past, where no one would run it.
EventNotLate ==
    /\ TxIsRunning => now <= txTimer.m_timeoutEvent /\ txTimer.m_timeoutEvent <= txTimer.m_end
    /\ WatchdogIsRunning => now <= watchdog.m_event /\ watchdog.m_event <= watchdog.m_end
    /\ ~WatchdogIsRunning => watchdog.m_end <= now
    /\ EventIsRunning => now <= timer.m_event /\ ~timer.suspended

\* As Countdown sees them: the time left is counted from what the callers asked for,
\* not from the events.
Phase(isRunning) == IF isRunning THEN "running" ELSE "stopped"
DidTo(name) == IF did[1] = name THEN did[2] ELSE "nothing"

TxLeft == IF TxIsRunning THEN txDue - now ELSE 0
WatchdogLeft == IF WatchdogIsRunning THEN pingedTill - now ELSE 0
TimerLeft == IF IsRunning \/ timer.suspended THEN timerDue - now ELSE 0

TxCountdown == INSTANCE Countdown WITH
    Delays <- TimerDelays, phase <- Phase(TxIsRunning), left <- TxLeft, did <- DidTo("txTimer")
WatchdogCountdown == INSTANCE Countdown WITH
    Delays <- TimerDelays, phase <- Phase(WatchdogIsRunning), left <- WatchdogLeft, did <- DidTo("watchdog")
TimerCountdown == INSTANCE Countdown WITH
    Delays <- TimerDelays, phase <- IF timer.suspended THEN "paused" ELSE Phase(IsRunning),
    left <- TimerLeft, did <- DidTo("timer")

\* However often a WifiTxTimer is postponed and moved up, its timeout is called at
\* the end set last, once ("Expire() will reschedule itself to be executed at the
\* correct time", wifi-tx-timer.cc:57), unless it is cancelled.
TxTimerCountsDown == TxCountdown!Spec

\* A Watchdog calls back, once, when the latest end its Pings asked for is reached.
WatchdogCountsDown == WatchdogCountdown!Spec

\* A Timer calls back when the delay Schedule was given has passed, the time it was
\* suspended not counted, however often it was suspended and resumed.
TimerCountsDown == TimerCountdown!Spec
=============================================================================
