\* Two replicas that boot at once on an empty table, and one that rotates.
SPECIFICATION KeysSpec
CONSTANTS
    r1 = r1
    r2 = r2
    KeyReplicas = {r1, r2}
    Settings <- OnlyFleet
    MaxKeys = 3
    MaxSigned = 2
CHECK_DEADLOCK FALSE
INVARIANT AtMostOneActiveKey
