\* Two readers and the poller at one source, a budget of one model call.
SPECIFICATION Spec
CONSTANTS
    Readers = {r1, r2}
    Clients = {c1, c2}
    k1 = k1
    Keys = {k1}
    Ids = {s1}
    None = None
    SetupSlots = 2
    DailySources = 1
    ModelDaily = 1
    SetupCalls = 2
    LegacyRows <- Unsure
    MaxRuns = 4
INVARIANTS
    SpendIsBounded
SYMMETRY Symmetry
