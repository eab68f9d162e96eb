SPECIFICATION Spec
CONSTANTS
    Ids <- MCIds
    HamnProfiles <- MCHamnProfiles
    Contexts <- MCContexts
    Lists <- MCLists
    Hands <- ConfirmHands
    MaxChanges = 1
    MaxSessions = 1
INVARIANTS
    ConfirmsWhatIsShown
CHECK_DEADLOCK FALSE
