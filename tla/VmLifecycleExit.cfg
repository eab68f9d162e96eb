CONSTANTS
    Procs = {p1, p2}
    Observers = {}
    Host = host
    None = none
SYMMETRY ProcSymmetry
SPECIFICATION Spec
PROPERTIES
    DiskRemovedUnderStoppedVm
