\* All kinds of requests, two at once.
SPECIFICATION Spec
CONSTANTS
    i1 = i1
    i2 = i2
    k1 = k1
    k2 = k2
    w1 = w1
    w2 = w2
    NoIdentity = NoIdentity
    NoKey = NoKey
    NumDevices = 2
    NumSets = 2
    Identities = {i1}
    Keys = {k1}
    Workers = {w1, w2}
    Kinds = {"auth", "verify", "set_status", "delete_set", "decommission", "preauthorize", "force", "revoke", "delete_device", "delete_tokens", "patch"}
    CacheOn = TRUE
    DeviceLimit = 2
    Expiry = TRUE
    MaxRevision = 3
    MaxAdmin = 2
    MaxFailures = 0
INVARIANTS
    TypeOK
    EventsTellStatus
SYMMETRY MCSymmetry
