\* Keys: two replicas and three keys; two countable signatures or failures each.
\* Phone: two bindings and three keys, so that a phone enrols, is stopped and enrols
\* again with a failed attempt in between; two requests, pulled twice; one retry of
\* a safe call.
\* Circuit: three calls with two retries each trip and probe a breaker, some of them
\* to a method that is not configured.
SPECIFICATION LiveSpec
CONSTANTS
    r1 = r1
    r2 = r2
    KeyReplicas = {r1, r2}
    Settings <- LiveSettings
    MaxKeys = 3
    MaxSigned = 2
    None = None
    Bindings = {b1, b2}
    Keys = {k1, k2, k3}
    Txns = {t1, t2}
    MaxAttempts = 2
    MaxPulls = 2
    Scenarios <- LiveScenarios
    i1 = i1
    i2 = i2
    i3 = i3
    Calls = {i1, i2, i3}
    Retries = 2
    Threshold = 3
    Partial = TRUE
INVARIANTS
    NeverWithoutActiveKey
    UsageAccounted
    EnrolmentCoherent
    
    SingleProbe
    OpenMeansOutage
PROPERTIES
    ReplicasConverge
    OperationsEnd
    CircuitRecovers
CHECK_DEADLOCK FALSE
