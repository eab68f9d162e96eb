SPECIFICATION Spec
CONSTANTS
    Homes = {h1}
    Starters = {}
    Releases = {1, 2}
    MaxGen = 2
    None = None
INVARIANT
    NothingLeftBehind
