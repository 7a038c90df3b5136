SPECIFICATION Spec
CONSTANTS
    w1 = w1
    w2 = w2
    e1 = e1
    e2 = e2
    ca = ca
    cb = cb
    e3 = e3
    None = None
    Workers = {w1, w2}
    Events = {e1, e2, e3}
    Channels = {ca, cb}
    ChannelOf <- OneChannel
    RecordedAt <- OldestFirst
    Subscribed <- OnBoth
    OptIn = {}
    Restarted = {w1, w2}
    ClaimLimit = 2
    LeaseSeconds = 1
    StaleAfter = 0
    Poison = {e1}
    Timely = TRUE
    MaxAttempts = 1
    MaxCrashes = 1
INVARIANTS
    TypeOK
    Exclusive
PROPERTIES
    ProcessedRowFrozen
    UnexpiredClaimKept
