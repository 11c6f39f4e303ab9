\* One deployment for two devices that poll and report beside an abort by an operator.
SPECIFICATION Spec
CONSTANTS
    a = a
    b = b
    w1 = w1
    w2 = w2
    old = old
    new = new
    NoDevice = NoDevice
    NoRequest = NoRequest
    other = other
    Devices = {a, b}
    NumDeployments = 1
    DeviceLists <- MCBoth
    Workers = {w1, w2}
    Requests = {old, new, other}
    Forced = {}
    Configuration = {}
    Reports = {"installing", "success", "failure"}
    Kinds = {"poll", "report", "abort"}
    PerDevice = 1
    Obedient = TRUE
    MaxSize = 2
    MaxAdmin = 1
    MaxFailures = 0
    Matching <- MCMatching
    Installed <- MCInstalled
INVARIANTS
    StatsAccounting
    FinishedMeansDone
    DoneMeansFinished
PROPERTIES
    SettledIsFinal
    AbortKeepsOutcomes
SYMMETRY MCSymmetry
