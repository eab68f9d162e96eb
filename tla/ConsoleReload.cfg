SPECIFICATION Spec
CONSTANTS
    Ids <- MCIds
    HamnProfiles <- MCHamnProfiles
    Contexts <- MCContexts
    Lists <- MCLists
    Hands <- ReloadHands
    MaxChanges = 1
    MaxSessions = 1
INVARIANTS
    ReloadFitsTheScreen
CHECK_DEADLOCK FALSE
