SPECIFICATION Spec
CONSTANTS
    Ids <- MCIds
    HamnProfiles <- MCHamnProfiles
    Contexts <- MCContexts
    Lists <- MCLists
    Hands <- MCHands
    MaxChanges = 1
    MaxSessions = 1
INVARIANTS
    RowsAreOfTheView
    OutcomesTold
    KindsOfTheContext
PROPERTIES
    CursorStays
    QuitEnds
CHECK_DEADLOCK FALSE
