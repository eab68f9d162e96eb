SPECIFICATION Spec
CONSTANTS
    Homes = {h1, h2}
    Starters = {}
    Releases = {1}
    MaxGen = 3
    None = None
INVARIANTS
    JournalsStayValid
PROPERTY
    CommittedStays
SYMMETRY HomeSymmetry
