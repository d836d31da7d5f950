CONSTANTS
    SeqSpace = 16
    BufferSize = 2
    StartingSeqs <- MCStartingSeqs
    MaxMpdus = 4
    VhtSupported = FALSE
    Fits = {TRUE, FALSE}
    MaxRequests = 2
SPECIFICATION Spec
INVARIANTS TypeOK InOrder AckedArrives WindowMarksAcked OutstandingInWindow ScoreboardAgrees GapAnnounced
CHECK_DEADLOCK FALSE
