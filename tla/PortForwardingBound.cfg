SPECIFICATION Spec
CONSTANTS
    TcpPorts = {p80}
    UdpPorts = {}
    Addresses = {"any", "loopback"}
    Observers = {o1}
    Masters = {m1}
    Relays = {}
    MaxRecords = 1
    Op = Op
    None = None
SYMMETRY NameSymmetry
INVARIANTS
    OrphanOnlyBySilence
    UnlistedIsConfirmed
