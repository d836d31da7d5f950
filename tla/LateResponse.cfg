CONSTANTS
    Worlds <- MCRoam
    MaxFrames = 1
    MaxRetries = 2
SPECIFICATION Spec
INVARIANTS BssidAgrees
CHECK_DEADLOCK FALSE
