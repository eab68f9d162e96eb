SPECIFICATION Spec
CONSTANTS
    Homes = {h1}
    Starters = {h1}
    Releases = {1, 2}
    MaxGen = 3
    None = None
INVARIANTS
    PairIsWhole
    SelectionHasImage
