SPECIFICATION FairSpec
CONSTANTS
    Homes = {h1}
    Starters = {}
    Releases = {1}
    MaxGen = 2
    None = None
PROPERTY
    RecoveryHappens
