\* Two enrolments of one citizen against a limit of one.
SPECIFICATION Spec
CONSTANTS
    c1 = c1
    d1 = d1
    d2 = d2
    n1 = n1
    n2 = n2
    x1 = x1
    x2 = x2
    i1 = i1
    i2 = i2
    None = None
    Citizens = {c1}
    Bindings = {d1, d2}
    CitizenOf <- PairOwner
    Level <- PairLevel
    Enrolled = {}
    Nonces = {n1, n2}
    Challenges = {x1, x2}
    Calls = {i1, i2}
    Sweepers = {}
    MaxBindings = 1
    MaxFailures = 2
    SweepLimit = 1
    Allowed = {"enrol"}
INVARIANT
    DeviceCapHolds
CHECK_DEADLOCK FALSE
