\* Chain: three appends on two replicas with one connection each; queries fail,
\* replicas die.
\* Parsers: up to three interesting bytes and a filler across both length forms, and
\* texts of up to four.
\* Logs: three nested values, texts at the cap; the digits and the cap are the code's.
\* Telemetry: four recordings into families of two series, one readiness probe.
\* Start-up: two replicas, two migrations, two starts each, two edits of a configuration.
SPECIFICATION PlatformSpec
CONSTANTS
    p1 = p1
    p2 = p2
    e1 = e1
    e2 = e2
    e3 = e3
    Replicas = {p1, p2}
    Events = {e1, e2, e3}
    ReplicaOf <- ThreeEvents
    PoolSize = 1
    MayFail = TRUE
    MaxDepth = 1
    MaxNodes = 4
    Width = 32
    Octets = {0, 1, 2, 24, 31, 48, 88, 127, 128, 129, 130, 162, 255}
    Fills = {0, 1, 2, 128, 129, 256}
    HeadLength = 3
    NidDigits = 16
    MaxString = 512
    TreeDepth = 2
    MaxItems = 2
    MaxKeys = 2
    Probes = {1}
    MaxSeries = 2
    MaxRecords = 4
    Latencies = {1, 2}
    Brokers = {p1, p2}
    Files = 2
    MaxStarts = 2
INVARIANTS
    ChainIntact
    HashCoversHistory
    AnsweredIsCommitted
    
    
    TelemetryHonest
    NothingLostUnnoticed
    BootedSafely
PROPERTIES
    AppendsEnd
CHECK_DEADLOCK FALSE
