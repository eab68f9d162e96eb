SPECIFICATION Spec
CONSTANTS
    Configs = {c1, c2}
    Tokens = {t1, t2}
    None = None
    MaxLate = 0
SYMMETRY Symmetry
INVARIANT
    EarlySuccessRunsConfig
