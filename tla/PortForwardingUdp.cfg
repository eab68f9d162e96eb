SPECIFICATION Spec
CONSTANTS
    TcpPorts = {}
    UdpPorts = {p53}
    Addresses = {"any", "loopback"}
    Observers = {o1}
    Masters = {m1}
    Relays = {r1, r2}
    MaxRecords = 1
    Op = Op
    None = None
SYMMETRY NameSymmetry
INVARIANTS
    OneRelayPerPort
    FailuresFit
