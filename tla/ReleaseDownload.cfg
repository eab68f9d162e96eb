SPECIFICATION Spec
CONSTANTS
    Procs = {p1, p2}
    Good = Good
    Bad = Bad
    None = None
    Size = 2
    Attempts = 1
    MaxFaults = 2
    MaxChanges = 1
INVARIANTS
    PublishedIsExact
    OneVersion
    CountsAreTrue
PROPERTIES
    AcquiredInTheEnd
