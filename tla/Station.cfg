CONSTANTS
    Flows <- MCFlows
    Nodes <- MCNodes
    Schedules <- MCSchedules
    TxDurations <- MCFrames
    RxDurations <- MCFrame
    NavDurations <- MCNavs
    MaxPending = 6
    Worlds <- MCWorlds
    MaxFrames = 1
    MaxRetries = 2
SPECIFICATION StationSpec
INVARIANTS StationTypeOK QuietRequestFollowed BlockedBetweenPeriods AwakeForResponse OpenWithOneFlow OneChain MovesOn AsksKnownAp CleanScan AssociationAgreed PowerModeAgreedIfTold
PROPERTIES KeepsWaking PmSettles
CHECK_DEADLOCK FALSE
