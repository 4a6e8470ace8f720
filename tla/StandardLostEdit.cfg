\* Two devices make a sidecar each.
SPECIFICATION Spec
CONSTANTS
    s1 = s1
    s2 = s2
    p1 = p1
    m0 = m0
    m1 = m1
    m2 = m2
    Sessions <- TwoSessions
    Pubs <- OnePub
    Metas <- ThreeMetas
    Plain = m0
    Absent = Absent
    Unknown = Unknown
    Gone = Gone
    MaxExistence = 1
    MaxSidecars = 2
    MaxRequests = 4
    MaxExternal = 0
    MaxClock = 0
SYMMETRY Symmetry
PROPERTIES
    LatestEditSurvives
CHECK_DEADLOCK FALSE
