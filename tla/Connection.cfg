\* A device that opens two connections to two instances.
\* Connections are bounded, so the system stops.
SPECIFICATION FairSpec
CONSTANTS
    i1 = i1
    i2 = i2
    NoInstance = NoInstance
    NumConns = 2
    Instances = {i1, i2}
    MaxFaults = 2
INVARIANTS
    StatusTellsConnection
    OneHandlerPerInstance
    DeletedStaysDeleted
PROPERTIES
    OfflineIsShown
CHECK_DEADLOCK FALSE
