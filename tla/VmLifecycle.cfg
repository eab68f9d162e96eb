CONSTANTS
    Procs = {p1, p2, p3}
    Observers = {o1}
    Host = host
    None = none
CONSTRAINT AdoptionSparesOthers
SYMMETRY ProcSymmetry
SPECIFICATION Spec
INVARIANTS
    OneVm
    Visible
    CleanupOnlyWhenStopped
    VmHasDisk
    StoppedIsStopped
PROPERTIES
    UnlinksOwnIdentity
