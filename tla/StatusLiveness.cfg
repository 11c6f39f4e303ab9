\* One worker that crashes or whose calls break.
\* A finite number of jobs comes to an end, so the system stops.
SPECIFICATION FairSpec
CONSTANTS
    d1 = d1
    w1 = w1
    w2 = w2
    Devices = {d1}
    Workers = {w1}
    NumJobs = 2
    MaxRevision = 3
    Retries = 1
    DeviceWrites = TRUE
    MaxFaults = 2
PROPERTIES
    StatusArrives
    EveryJobEnds
CHECK_DEADLOCK FALSE
