SPECIFICATION Spec
CONSTANTS
    TcpPorts = {p80}
    UdpPorts = {}
    Addresses = {"any"}
    Observers = {o1, o2}
    Masters = {m1, m2}
    Relays = {}
    MaxRecords = 2
    Op = Op
    None = None
SYMMETRY NameSymmetry
INVARIANTS
    OrphanOnlyBySilence
    CleanStopReleases
    UnlistedOnlyIfUndone
