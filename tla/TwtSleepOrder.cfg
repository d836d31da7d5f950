CONSTANTS
    Flows <- MCFlows
    Nodes <- MCSta
    Schedules <- MCSpaced
    TxDurations <- MCFrames
    RxDurations <- MCNone
    NavDurations <- MCNone
    MaxPending = 6
SPECIFICATION TwtSpec
INVARIANTS SleepFollowsLast
CHECK_DEADLOCK FALSE
