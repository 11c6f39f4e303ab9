\* A device whose status changes, three jobs and two workers.
\* A finite number of jobs comes to an end, so the system stops.
SPECIFICATION Spec
CONSTANTS
    d1 = d1
    w1 = w1
    w2 = w2
    Devices = {d1}
    Workers = {w1, w2}
    NumJobs = 3
    MaxRevision = 3
    Retries = 1
    DeviceWrites = TRUE
    MaxFaults = 1
INVARIANTS
    InventoryFollows
    AcceptedIsProvisioned
    DecommissionForgets
PROPERTIES
    BoardHonest
SYMMETRY MCSymmetry
CHECK_DEADLOCK FALSE
