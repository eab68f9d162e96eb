SPECIFICATION FairSpec
CONSTANTS
    TcpPorts = {p80}
    UdpPorts = {}
    Addresses = {"any"}
    Observers = {o1}
    Masters = {m1}
    Relays = {}
    MaxRecords = 1
    Op = Op
    None = None
PROPERTIES
    ForwardedOrListed
