SPECIFICATION ProgramSpec
CONSTANTS
    main = main
    t1 = t1
    t2 = t2
    NoSession = NoSession
    Sessions = {s1, s2}
    Pool <- TwoThreads
    Acceptor = main
    MaxSendQue = 1
    MaxRequests = 2
    Sent = {"hello", "invalid"}
    Programs = {"IoServicePool", "IoThreadPool", "LogicServer", "readAtLeastServer", "asyncServer", "async", "demo"}
SYMMETRY SessionSymmetry
INVARIANTS
    OneWriteOutstanding
    NoReplyStuck
    RepliesInOrder
    ErasesInStrand
    ServerOutlivesHandlers
    EndedSessionsAreIdle
PROPERTIES
    LeaksOnlyAtInsert
CHECK_DEADLOCK FALSE
