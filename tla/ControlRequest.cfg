SPECIFICATION FairSpec
CONSTANTS
    RequestSet <- MCRequests
    MaxCalls = 2
    EventCap = 1
    PipeCap = 1
    MaxChanges = 1
INVARIANTS
    HonestAnswer
    ChangesWhatItRead
    UnknownStays
    NothingLeftBehind
PROPERTIES
    CancelledEnds
CHECK_DEADLOCK FALSE
