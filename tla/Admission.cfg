CONSTANTS
    Profiles = {p1, p2, p3}
    Sizes = {1, 2}
    Reserves = {1}
    Total = 4
    NoProfile = NoProfile
SPECIFICATION FairSpec
INVARIANTS
    NoOvercommit
PROPERTY
    LockIsFreed
