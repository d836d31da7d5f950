CONSTANTS
    SeqSpace = 16
    BufferSize = 2
    StartingSeqs <- MCStartingSeqs
    MaxMpdus = 3
    VhtSupported = FALSE
    Fits = {TRUE, FALSE}
    MaxRequests = 1
SPECIFICATION FairSpec
PROPERTIES QueueDrains
CHECK_DEADLOCK FALSE
