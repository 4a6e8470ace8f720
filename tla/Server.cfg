\* One request, one job, two worker loops and the processor, one connection.
SPECIFICATION ServerFairSpec
CONSTANTS
    h1 = h1
    j1 = j1
    w1 = w1
    w2 = w2
    c1 = c1
    Handlers <- OneHandler
    Jobs <- OneJob
    Workers <- TwoWorkers
    Processor = Processor
    Conns <- OneConn
    MaxConnections = 1
INVARIANTS
    ClosedMeansQuiet
PROPERTIES
    ShutdownEnds
    SplitPairHeals
CHECK_DEADLOCK FALSE
