SPECIFICATION LiveSpec
CONSTANTS
    server = server
    script = script
    None = None
    Procs = {server, script}
    Jobs <- ServerJobs
    Spans = {1, 2, 3, 4}
    TraceOf <- SpanTrace
    RecordedAt <- SpanTime
    HashOf <- Distinct
    KeyOf <- SameKey
    Malformed = {2}
    Manifest = {"b", "c"}
    Fields = {"domain", "app_box"}
    WithManifest = {server}
    Criticalities = {1, 2}
    DefaultCriticality = 2
    Limit = 2
    Early = {1, 2}
    Known <- OneNanobar
    MaxJobs = 2
    MaxCrashes = 2
INVARIANTS
    TypeOK
    NanobarsUnique
    EvidenceKept
    BricksBound
    WeightsCurrent
PROPERTIES
    ScanDrains
    JobsEnd
