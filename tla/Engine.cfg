CONSTANTS
    Delays <- MCDelays
    ForeignDelays <- MCForeignDelays
    Contexts <- MCContexts
    NoContext = 255
    UidModulus = 16
    MaxEvents = 3
    NULL = NULL
SPECIFICATION FairSpec
INVARIANTS TypeOK EventIdTruth UnscheduledCount CancelHolds NothingLost
PROPERTIES EventuallyRuns DispatchOrder ImplementsCalendar
