CONSTANTS
    Worlds <- MCPm
    MaxFrames = 1
    MaxRetries = 2
SPECIFICATION Spec
INVARIANTS PowerModeAgreed
CHECK_DEADLOCK FALSE
