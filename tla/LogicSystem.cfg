SPECIFICATION FairSpec
CONSTANTS
    hello1 = hello1
    hello2 = hello2
    other1 = other1
    other2 = other2
    Msgs <- MCMsgs
    Known <- MCKnown
    Posters = {p1, p2}
INVARIANTS
    WakeUpPending
    FrontExists
    InOrder
PROPERTY QueueDrained
