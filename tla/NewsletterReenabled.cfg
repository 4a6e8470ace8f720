\* Mail accepted while a source is active, and an enable.
SPECIFICATION Spec
CONSTANTS
    Owners = {o1}
    small = small
    large = large
    sender = sender
    Senders = {sender}
    Mails = {small, large}
    SenderOf <- MCSenderOf
    RawBytes <- MCRawBytes
    NormalBytes <- MCNormalBytes
    FallbackBytes = 1
    Reservation = 2
    OwnerBytes = 6
    GlobalBytes = 9
    SourceIds = {s1, s2}
    MessageIds = {m1, m2, m3}
    SaveIds = {v1, v2}
    None = None
    Clients = {c1, c2}
    MaxStamp = 3
    MaxFailures = 1
    MaxManual = 1
PROPERTIES
    ActiveMailReadable
SYMMETRY Symmetry
