\* Two requests at once, three in all.
\* Requests are bounded, so the system stops.
SPECIFICATION FairSpec
CONSTANTS
    t1 = t1
    t2 = t2
    w1 = w1
    w2 = w2
    NoType = NoType
    Garbage = Garbage
    NumIds = 2
    NumDeployments = 1
    Types = {t1, t2}
    Workers = {w1, w2}
    MaxRequests = 3
    MaxFaults = 1
INVARIANTS
    OneProcessor
    ProcessedMeansClean
    ImageHasFile
    ReleaseListsArtifacts
    DeploymentsGetArtifacts
PROPERTIES
    LinksSettle
CHECK_DEADLOCK FALSE
