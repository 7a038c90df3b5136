SPECIFICATION LiveSpec
CONSTANTS
    s1 = s1
    n1 = n1
    p1 = p1
    d1 = d1
    d2 = d2
    c1 = c1
    c2 = c2
    t1 = t1
    Spans = {s1}
    Snapshots = {}
    Sweeps = {p1}
    Published = {d1, d2}
    TraceOf <- Traces
    Untraced = {}
    Malformed = {s1}
    DomainChannels = {"domain.a", "domain.b"}
    DomainChannelOf <- Domain
    Callbacks = {c1, c2}
    Registered <- OneOnA
    Late <- OtherOnBoth
    Raising = {c1}
    DbErrors = TRUE
    SlowSweeps = TRUE
    MaxSize = 2
    BatchSize = 2
INVARIANTS
    TypeOK
    Accounted
    TracesHaveSpans
    DeliveredInOrder
PROPERTIES
    ImplementsOrderedDelivery
    ShutdownCompletes
