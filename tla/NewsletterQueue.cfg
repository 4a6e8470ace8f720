\* Two readers, a large mail, limits that refuse a further one, one failure.
SPECIFICATION LiveSpec
CONSTANTS
    Owners = {o1, o2}
    small = small
    large = large
    sender = sender
    Senders = {sender}
    Mails = {large}
    SenderOf <- MCSenderOf
    RawBytes <- MCRawBytes
    NormalBytes <- MCNormalBytes
    FallbackBytes = 1
    Reservation = 2
    OwnerBytes = 5
    GlobalBytes = 8
    SourceIds = {s1, s2, s3}
    MessageIds = {m1, m2}
    SaveIds = {v1}
    None = None
    Clients = {}
    MaxStamp = 3
    MaxFailures = 1
    MaxManual = 0
PROPERTIES
    QueueDrains
