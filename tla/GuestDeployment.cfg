SPECIFICATION Spec
CONSTANTS
    Configs = {c1, c2}
    Tokens = {t1, t2}
    None = None
    MaxLate = 1
SYMMETRY Symmetry
VIEW View
ACTION_CONSTRAINT LateEdits
INVARIANTS
    ReadyIsComplete
    ChangesUnderBackup
    MarkerVouches
    CommitIsFinal
