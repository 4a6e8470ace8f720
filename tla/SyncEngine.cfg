\* One user on two devices, two jobs, one replanned pass, one open page.
SPECIFICATION PageFairSpec
CONSTANTS
    u1 = u1
    s1 = s1
    s2 = s2
    Users <- OneUser
    Sessions <- TwoSessions
    NoSession = NoSession
    Reader = u1
    MaxJobs = 2
    MaxReruns = 1
INVARIANTS
    PillCoversWork
    LastSessionServed
    FailureRetained
    FinalPageIsComplete
PROPERTIES
    ServesRequests
\* Shutdown ends the process.
CHECK_DEADLOCK FALSE
