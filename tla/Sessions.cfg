\* Two requests and a pass on one session, three tokens, one call each.
SPECIFICATION FairSpec
CONSTANTS
    r1 = r1
    r2 = r2
    s1 = s1
    st1 = st1
    Requests <- TwoRequests
    Pass = Pass
    Sids <- OneSid
    States <- OneState
    None = None
    MaxTokens = 3
    MaxCalls = 1
INVARIANTS
    RowHoldsTheGoodToken
PROPERTIES
    ValidUserIsNotBooted
    RequestsDoNotRevive
    RequestsAreAnswered
CHECK_DEADLOCK FALSE
