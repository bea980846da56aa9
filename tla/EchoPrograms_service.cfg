SPECIFICATION FairProgramSpec
CONSTANTS
    main = main
    t1 = t1
    t2 = t2
    NoSession = NoSession
    Sessions = {s1}
    Pool <- TwoThreads
    Acceptor = main
    MaxSendQue = 1
    MaxRequests = 3
    Sent = {"hello", "other", "invalid"}
    Programs = {"IoServicePool", "IoThreadPool", "LogicServer", "readAtLeastServer", "asyncServer", "async", "demo"}
PROPERTIES
    ImplementsEchoService
    Answered
    Destroyed
    SignalEndsMain
CHECK_DEADLOCK FALSE
