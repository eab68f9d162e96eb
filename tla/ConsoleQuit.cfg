SPECIFICATION Spec
CONSTANTS
    Ids <- MCIds
    HamnProfiles <- MCHamnProfiles
    Contexts <- MCContexts
    Lists <- MCLists
    Hands <- QuitHands
    MaxChanges = 1
    MaxSessions = 1
PROPERTIES
    ExitHappens
CHECK_DEADLOCK FALSE
