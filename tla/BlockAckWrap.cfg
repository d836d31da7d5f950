CONSTANTS
    SeqSpace = 16
    BufferSize = 2
    StartingSeqs <- MCStartingSeqs
    MaxMpdus = 3
    VhtSupported = FALSE
    Fits = {TRUE}
    MaxRequests = 1
SPECIFICATION Spec
INVARIANTS WinStartBInSpace
CHECK_DEADLOCK FALSE
