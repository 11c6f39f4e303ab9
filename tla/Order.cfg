\* Two deployments for two devices, polled and reported on by two requests at once;
\* the devices keep at it.
SPECIFICATION FairSpec
CONSTANTS
    a = a
    b = b
    w1 = w1
    w2 = w2
    old = old
    new = new
    NoDevice = NoDevice
    NoRequest = NoRequest
    other = other
    Devices = {a, b}
    NumDeployments = 2
    DeviceLists <- MCBoth
    Workers = {w1, w2}
    Requests = {old}
    Forced = {}
    Configuration = {}
    Reports = {"success"}
    Kinds = {"poll", "report"}
    PerDevice = 1
    Obedient = TRUE
    MaxSize = 2
    MaxAdmin = 0
    MaxFailures = 0
    Matching <- MCMatching
    Installed <- MCInstalled
INVARIANTS
    FullMeansServed
    DeliveredInOrder
PROPERTIES
    ImplementsLifecycle
    EveryDeploymentFinishes
