\* All requests of devices and operators but the forced preauthorization and the deletion of
\* tokens, one after the other.
SPECIFICATION Spec
CONSTANTS
    i1 = i1
    i2 = i2
    k1 = k1
    k2 = k2
    w1 = w1
    w2 = w2
    NoIdentity = NoIdentity
    NoKey = NoKey
    NumDevices = 2
    NumSets = 3
    Identities = {i1, i2}
    Keys = {k1, k2}
    Workers = {w1}
    Kinds = {"auth", "verify", "set_status", "delete_set", "decommission", "preauthorize", "revoke"}
    CacheOn = TRUE
    DeviceLimit = 1
    Expiry = TRUE
    MaxRevision = 2
    MaxAdmin = 3
    MaxFailures = 0
INVARIANTS
    StatusFollowsSets
    LimitRespected
    CachedIsStored
SYMMETRY MCSymmetry
