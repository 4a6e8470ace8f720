\* A pass persists a session that a logout has deleted.
SPECIFICATION Spec
CONSTANTS
    r1 = r1
    r2 = r2
    s1 = s1
    st1 = st1
    Requests <- TwoRequests
    Pass = Pass
    Sids <- OneSid
    States <- OneState
    None = None
    MaxTokens = 3
    MaxCalls = 1
CHECK_DEADLOCK FALSE
PROPERTIES
    LogoutIsFinal
