\* Tokens: one citizen, two relying parties, one token, two consents, two
\* requests over the two seconds of a token's life.
\* Abuse controls: two requests on one counter over two windows.
\* Push: three requests or sends, two addresses, three connections.
\* Attestation: evidence with up to two parts altered, two enrolments.
\* Strategies: two calls with two retries and one rotation of the credential.
SPECIFICATION ServicesSpec
CONSTANTS
    c1 = c1
    p1 = p1
    p2 = p2
    j1 = j1
    g1 = g1
    g2 = g2
    a1 = a1
    a2 = a2
    a3 = a3
    None = None
    Citizens = {c1}
    Rps = {p1, p2}
    Scopes = {"profile"}
    Tokens = {j1}
    Grants = {g1, g2}
    Calls = {a1, a2}
    TokenSeconds = 2
    ClaimedExps = {0}
    MaxTime = 4
    Requests = {a1, a2}
    Limit = 2
    Window = 2
    BackoffCap = 2
    MaxCount = 4
    EndOfTime = 4
    Jobs = {a1, a2, a3}
    Addresses = {1, 2}
    Sessions = {1, 2, 3}
    NoAddress = 0
    Skew = 2
    ExpiresIn = 5
    ProviderTtl = 2
    AppleMaxAge = 3
    Latency = 1
    LastTime = 8
    Enrolments = {a1, a2}
    Nonces = {1, 2}
    NoNonce = 0
    MaxChain = 3
    MaxAge = 2
    Tolerance = 1
    Callers = {a1, a2}
    MaxRetries = 2
    Trip = 2
    Deadline = 1
    TokenSkew = 2
    Lifetimes = {1, 3}
    FallbackLifetime = 4
    DiscoveryTtl = 1
    LastInstant = 1
    MaxRotations = 1
SYMMETRY Symmetric
INVARIANTS
    ReleasedUnderConsent
    LastRevocationHolds
    AbuseControlsHold
    PushHolds
    AdmittedOnce
    StrategiesHonest
CHECK_DEADLOCK FALSE
