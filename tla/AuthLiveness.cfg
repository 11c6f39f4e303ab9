\* A device and an operator at once, with the writes that disturb them; a request is cut short.
SPECIFICATION FairSpec
CONSTANTS
    i1 = i1
    i2 = i2
    k1 = k1
    k2 = k2
    w1 = w1
    w2 = w2
    NoIdentity = NoIdentity
    NoKey = NoKey
    NumDevices = 1
    NumSets = 1
    Identities = {i1}
    Keys = {k1}
    Workers = {w1, w2}
    Kinds = {"auth", "set_status", "patch"}
    CacheOn = FALSE
    DeviceLimit = 2
    Expiry = FALSE
    MaxRevision = 3
    MaxAdmin = 2
    MaxFailures = 1
PROPERTIES
    AcceptedGetsIn
