\* Two phones answer the same prompt differently.
SPECIFICATION Spec
CONSTANTS
    c1 = c1
    c2 = c2
    d1 = d1
    d2 = d2
    d3 = d3
    t1 = t1
    t2 = t2
    x1 = x1
    x2 = x2
    x3 = x3
    k1 = k1
    k2 = k2
    j1 = j1
    j2 = j2
    r1 = r1
    r2 = r2
    p1 = p1
    p2 = p2
    q1 = q1
    q2 = q2
    None = None
    Citizens = {c1}
    Bindings = {d1, d2}
    CitizenOf <- TwinOwner
    Level <- TwinLevel
    Txns = {t1}
    Rps = {r1}
    Challenges = {x1, x2}
    Codes = {k1}
    Jtis = {j1}
    DeviceCalls = {p1, p2}
    RpCalls = {q1}
    RequestableALs = {2}
    Allowed = {}
SYMMETRY Symmetric
INVARIANTS
    AcknowledgedDenialHolds
CHECK_DEADLOCK FALSE
