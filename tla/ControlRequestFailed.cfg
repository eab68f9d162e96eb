SPECIFICATION Spec
CONSTANTS
    RequestSet <- MCRequests
    MaxCalls = 2
    EventCap = 1
    PipeCap = 1
    MaxChanges = 1
INVARIANTS
    UnknownStaysAfterFailure
CHECK_DEADLOCK FALSE
