SPECIFICATION Spec
CONSTANTS
    Configs = {c1}
    Tokens = {t1, t2}
    None = None
    MaxLate = 1
SYMMETRY Symmetry
VIEW ControlView
INVARIANTS
    AtMostOneBackup
    CommitIsFinal
