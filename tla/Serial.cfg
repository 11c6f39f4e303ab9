\* All requests but the reset of a history, one after the other.
SPECIFICATION Spec
CONSTANTS
    a = a
    b = b
    w1 = w1
    w2 = w2
    old = old
    new = new
    NoDevice = NoDevice
    NoRequest = NoRequest
    other = other
    Devices = {a, b}
    NumDeployments = 2
    DeviceLists <- MCLists
    Workers = {w1}
    Requests = {old}
    Forced = {}
    Configuration = {2}
    Reports = {"installing", "success"}
    Kinds = {"poll", "report", "abort", "abort_device", "decommission"}
    PerDevice = 1
    Obedient = TRUE
    MaxSize = 2
    MaxAdmin = 2
    MaxFailures = 0
    Matching <- MCMatching
    Installed <- MCInstalled
INVARIANTS
    FinishedStatsExact
PROPERTIES
    ImplementsLifecycle
SYMMETRY MCSymmetry
