SPECIFICATION FairSpec
CONSTANTS
    every = every
    some = some
    t1 = t1
    Scopes = {every, some}
    DefaultScope = every
    Types = {t1}
    AnyType = AnyType
    LastMoment = 1
    Total <- MCTotal
    PageSize = 3
    Workers = {w1, w2}
    Rows = {r1, r2}
    Spans = {s1, s2}
    On = On
    Off = Off
    MaxCalls = 2
    MaxActs = 3
    None = None
INVARIANTS TypeOK PanesCurrent PageInRange
PROPERTIES Settles
