SPECIFICATION Spec
CONSTANTS
    Homes = {h1}
    Starters = {h1}
    Releases = {1, 2}
    MaxGen = 2
    None = None
INVARIANT
    StartUsesNoHalf
