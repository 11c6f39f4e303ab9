\* One device with two requests at once that reports whatever it likes, requests cut short,
\* the device decommissioned, its history reset.
SPECIFICATION Spec
CONSTANTS
    a = a
    b = b
    w1 = w1
    w2 = w2
    old = old
    new = new
    NoDevice = NoDevice
    NoRequest = NoRequest
    other = other
    Devices = {a}
    NumDeployments = 1
    DeviceLists <- MCAlone
    Workers = {w1, w2}
    Requests = {new}
    Forced = {1}
    Configuration = {}
    Reports = {"success"}
    Kinds = {"poll", "report", "decommission", "delete_history"}
    PerDevice = 2
    Obedient = FALSE
    MaxSize = 2
    MaxAdmin = 1
    MaxFailures = 1
    Matching <- MCMatching
    Installed <- MCInstalled
INVARIANTS
    StatsConserved
    StatsAccounting
SYMMETRY MCSymmetry
