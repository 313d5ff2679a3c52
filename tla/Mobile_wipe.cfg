\* A phone that is enrolled, stopped from elsewhere and enrolled again.
SPECIFICATION PhoneSpec
CONSTANTS
    None = None
    Bindings = {b1, b2}
    Keys = {k1, k2, k3}
    Txns = {t1, t2}
    MaxAttempts = 2
    MaxPulls = 2
    Scenarios <- OnlyComebacks
CHECK_DEADLOCK FALSE
INVARIANT RefusedMeansWiped
