\* One reader, two requests, two mails, three deliveries or enables.
SPECIFICATION Spec
CONSTANTS
    Owners = {o1}
    small = small
    large = large
    sender = sender
    Senders = {sender}
    Mails = {small, large}
    SenderOf <- MCSenderOf
    RawBytes <- MCRawBytes
    NormalBytes <- MCNormalBytes
    FallbackBytes = 1
    Reservation = 2
    OwnerBytes = 3
    GlobalBytes = 9
    SourceIds = {s1, s2}
    MessageIds = {m1, m2}
    SaveIds = {v1, v2}
    None = None
    Clients = {c1, c2}
    MaxStamp = 3
    MaxFailures = 0
    MaxManual = 1
INVARIANTS
    StoppedKeepsSaved
    NothingIsStranded
    StorageWithinQuota
PROPERTIES
    SavedStaysInLibrary
    BacklogStaysOut
    AcceptedMailFiled
SYMMETRY Symmetry
