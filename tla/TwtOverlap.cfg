CONSTANTS
    Flows <- MCFlows
    Nodes <- MCAp
    Schedules <- MCSpaced
    TxDurations <- MCNone
    RxDurations <- MCNone
    NavDurations <- MCNone
    MaxPending = 6
SPECIFICATION TwtSpec
INVARIANTS OpenInServicePeriod
CHECK_DEADLOCK FALSE
