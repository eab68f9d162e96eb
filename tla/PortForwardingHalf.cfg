SPECIFICATION Spec
CONSTANTS
    TcpPorts = {p80}
    UdpPorts = {}
    Addresses = {"any"}
    Observers = {o1}
    Masters = {m1}
    Relays = {}
    MaxRecords = 2
    Op = Op
    None = None
SYMMETRY NameSymmetry
INVARIANTS
    UnlistedIsForwarded
