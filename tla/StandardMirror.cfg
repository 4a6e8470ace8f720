\* Two devices, one publication, two requests, one foreign write.
SPECIFICATION Spec
CONSTANTS
    s1 = s1
    s2 = s2
    p1 = p1
    m0 = m0
    m1 = m1
    m2 = m2
    Sessions <- TwoSessions
    Pubs <- OnePub
    Metas <- TwoMetas
    Plain = m0
    Absent = Absent
    Unknown = Unknown
    Gone = Gone
    MaxExistence = 2
    MaxSidecars = 2
    MaxRequests = 2
    MaxExternal = 1
    MaxClock = 1
SYMMETRY Symmetry
INVARIANTS
    QuietPassApplies
    DeleteSweepsDuplicates
PROPERTIES
    CleanupKeepsNewest
CHECK_DEADLOCK FALSE
