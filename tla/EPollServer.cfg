SPECIFICATION FairSpec
CONSTANTS
    Clients = {c1, c2}
    NoClient = NoClient
    MaxSame = 2
    MaxRequests = 1
INVARIANTS
    OneOwner
    HarmlessWhileNobodyQuits
PROPERTIES
    Answered
CHECK_DEADLOCK FALSE
