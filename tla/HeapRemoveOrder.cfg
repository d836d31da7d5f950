CONSTANTS
    Delays <- MCDelays
    MaxEvents = 7
SPECIFICATION Spec
INVARIANTS PeekEarliest
CHECK_DEADLOCK FALSE
