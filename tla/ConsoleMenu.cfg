SPECIFICATION Spec
CONSTANTS
    Ids <- MCIds
    HamnProfiles <- MCHamnProfiles
    Contexts <- MCContexts
    Lists <- MCLists
    Hands <- MenuHands
    MaxChanges = 1
    MaxSessions = 1
INVARIANTS
    MenuActsOnItsRow
CHECK_DEADLOCK FALSE
