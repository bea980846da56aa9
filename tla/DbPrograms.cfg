SPECIFICATION FairDbSpec
CONSTANTS
    Clients = {c1, c2, c3}
    Conns = {k1, k2, k3, k4, k5}
    NoConn = NoConn
    MinSize = 1
    MaxIdle = 2
    Requests = 1
    Borrowers = {b1, b2}
    Nobody = Nobody
    Handles = {h1, h2}
    Updates = {u1}
    MaxRows = 1
    Keys = {echo, infos}
    Values = {v1, v2}
    OK = OK
    Empty = Empty
INVARIANTS
    ExclusiveConns
    OldestFirst
    ProducerAwake
    SizeBound
    RowsAreOwn
    DurableUnlessTransaction
    BelievedIsStored
PROPERTIES
    RecyclesAllExpired
    AllServed
    ShrinksToMin
CHECK_DEADLOCK FALSE
