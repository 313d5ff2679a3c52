\* One phone is enrolled and the second one is being enrolled when SDID withdraws
\* the identity; the sweep runs for ever.
SPECIFICATION FairSpec
CONSTANTS
    c1 = c1
    d1 = d1
    d2 = d2
    n1 = n1
    n2 = n2
    x1 = x1
    x2 = x2
    i1 = i1
    i2 = i2
    None = None
    Citizens = {c1}
    Bindings = {d1, d2}
    CitizenOf <- PairOwner
    Level <- PairLevel
    Enrolled = {d1}
    Nonces = {n1}
    Challenges = {x1}
    Calls = {i1, i2}
    Sweepers = {i2}
    MaxBindings = 2
    MaxFailures = 2
    SweepLimit = 1
    Allowed = {"enrol", "sweep", "stale", "sdid"}
PROPERTY
    WithdrawnLosesDevices
CHECK_DEADLOCK FALSE
