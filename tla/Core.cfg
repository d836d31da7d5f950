CONSTANTS
    HeapEvents = 7
    ListEvents = 6
    CalendarEvents = 6
    NearDelays <- MCNearDelays
    YearDelays <- MCYearDelays
    TimersTill = 5
    TimerDelays <- MCTimerDelays
    Delays <- MCDelays
    IdleDelay = 2
    SpinTime = 1
    HardLimits <- MCHardLimits
    MaxEvents = 3
    MaxTime = 3
    MaxRuns = 2
SPECIFICATION CoreSpec
INVARIANTS CoreTypeOK NoLostWakeup NeverEarly
PROPERTIES HeapImplementsScheduler ListImplementsScheduler CalendarImplementsScheduler TxTimerCountsDown WatchdogCountsDown TimerCountsDown ImplementsScheduler RunExecutes
CHECK_DEADLOCK FALSE
