\* Two readers' creates, two listings of a site, two setups, one model call.
SPECIFICATION Spec
CONSTANTS
    Readers = {r1, r2}
    Clients = {c1, c2}
    k1 = k1
    Keys = {k1, k2}
    Ids = {s1, s2}
    None = None
    SetupSlots = 1
    DailySources = 1
    ModelDaily = 1
    SetupCalls = 1
    LegacyRows <- MCLegacyRows
    MaxRuns = 2
INVARIANTS
    DailyCapHolds
PROPERTIES
    KeysStay
    ReplacedOnlyOnceVetted
SYMMETRY Symmetry
