SPECIFICATION LiveSpec
CONSTANTS
    w1 = w1
    w2 = w2
    e1 = e1
    e2 = e2
    ca = ca
    cb = cb
    e3 = e3
    None = None
    Workers = {w1, w2}
    Events = {e1, e2}
    Channels = {ca}
    ChannelOf <- OneChannel
    RecordedAt <- OldestFirst
    Subscribed <- OnA
    OptIn = {w1}
    Restarted = {w1}
    ClaimLimit = 2
    LeaseSeconds = 1
    StaleAfter = 0
    Poison = {e1}
    Timely = FALSE
    MaxAttempts = 1
    MaxCrashes = 1
INVARIANTS
    CountedBeforeLogged
PROPERTIES
    ImplementsAtLeastOnce
    DeliversAtLeastOnce
    DeadWorkerNoticed
