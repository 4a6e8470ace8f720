\* A commit whose answer is lost.
SPECIFICATION Spec
CONSTANTS
    s1 = s1
    s2 = s2
    a = a
    b = b
    t1 = t1
    t2 = t2
    n1 = n1
    n2 = n2
    Sessions <- OneSession
    Items <- OneItem
    Tags <- OneTag
    Notes <- OneNote
    NoTags = t1
    NoNote = n1
    Absent = Absent
    MaxRkey = 2
    MaxRequests = 1
    MaxExternal = 0
    MaxClock = 0
PROPERTY FailureMeansNothingCommitted
CHECK_DEADLOCK FALSE
