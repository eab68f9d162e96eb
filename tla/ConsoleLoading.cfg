SPECIFICATION Spec
CONSTANTS
    Ids <- MCIds
    HamnProfiles <- MCHamnProfiles
    Contexts <- MCContexts
    Lists <- MCLists
    Hands <- SettingsHands
    MaxChanges = 1
    MaxSessions = 1
INVARIANTS
    HiddenIsNotLoading
CHECK_DEADLOCK FALSE
