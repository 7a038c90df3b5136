SPECIFICATION Spec
CONSTANTS
    server = server
    script = script
    None = None
    Procs = {server, script}
    Jobs <- ServerJobs
    Spans = {1, 2, 3, 4}
    TraceOf <- SpanTrace
    RecordedAt <- SpanTime
    HashOf <- Alike
    KeyOf <- SpanKey
    Malformed = {2}
    Manifest = {"b"}
    Fields = {"domain"}
    WithManifest = {server}
    Criticalities = {1, 2}
    DefaultCriticality = 2
    Limit = 2
    Early = {1, 2, 3}
    Known <- OneNanobar
    MaxJobs = 2
    MaxCrashes = 0
INVARIANT BoundariesCatalogued
