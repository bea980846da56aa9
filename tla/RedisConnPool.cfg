SPECIFICATION FairSpec
CONSTANTS
    Clients = {c1, c2}
    Conns = {k1, k2, k3, k4}
    NoConn = NoConn
    Requests = 1
    ConfiguredMin = 2
PROPERTY ReachesConfiguredMin
