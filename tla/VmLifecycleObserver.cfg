CONSTANTS
    Procs = {p1, p2, p3}
    Observers = {o1}
    Host = host
    None = none
SYMMETRY ProcSymmetry
SPECIFICATION Spec
INVARIANTS
    CleanupOnlyWhenStopped
