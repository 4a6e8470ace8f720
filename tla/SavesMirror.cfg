\* Two devices, two items, two notes, two records, two requests, one foreign write.
SPECIFICATION Spec
CONSTANTS
    s1 = s1
    s2 = s2
    a = a
    b = b
    t1 = t1
    t2 = t2
    n1 = n1
    n2 = n2
    Sessions <- TwoSessions
    Items <- TwoItems
    Tags <- TwoTags
    Notes <- TwoNotes
    NoTags = t1
    NoNote = n1
    Absent = Absent
    MaxRkey = 2
    MaxRequests = 2
    MaxExternal = 1
    MaxClock = 1
SYMMETRY Symmetry
PROPERTIES
    QuietPassConverges
    NoSaveVanishes
    StaleListingSparesMirror
    NotesAreKept
CHECK_DEADLOCK FALSE
