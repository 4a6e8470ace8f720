\* Another client exchanges the feeds of two records.
SPECIFICATION RssSpec
CONSTANTS
    s1 = s1
    s2 = s2
    a = a
    b = b
    t = t
    Sessions <- TwoSessions
    Feeds <- TwoFeeds
    Aliases <- MCAliases
    TagNames <- OneTag
    NewTags <- Tagged
    Absent = Absent
    MaxRkey = 2
    MaxRequests = 2
    MaxExternal = 1
SYMMETRY Symmetry
CHECK_DEADLOCK FALSE
INVARIANTS
    RepointedFeedsApply
