\* One phone and one relying party, with every fault and outside event.
SPECIFICATION FairSpec
CONSTANTS
    c1 = c1
    c2 = c2
    d1 = d1
    d2 = d2
    d3 = d3
    t1 = t1
    t2 = t2
    x1 = x1
    x2 = x2
    x3 = x3
    k1 = k1
    k2 = k2
    j1 = j1
    j2 = j2
    r1 = r1
    r2 = r2
    p1 = p1
    p2 = p2
    q1 = q1
    q2 = q2
    None = None
    Citizens = {c1}
    Bindings = {d1}
    CitizenOf <- SingleOwner
    Level <- SingleLevel
    Txns = {t1}
    Rps = {r1}
    Challenges = {x1}
    Codes = {k1}
    Jtis = {j1}
    DeviceCalls = {p1}
    RpCalls = {q1}
    RequestableALs = {2}
    Allowed = {"abort", "lapse", "redis", "stale", "revoke", "sdid", "suspendRp"}
PROPERTIES
    DecisionIsFinal
    CibaSettles
CHECK_DEADLOCK FALSE
