\* Two messages to the device and one to the user, one publication is lost; or one message, both
\* ends close, and one of them twice.  Messages are bounded, so the system stops.
SPECIFICATION Spec
CONSTANTS
    Sends <- MCSends
    SeqMod = 3
    InboxSize = 2
    RecvSize = 1
    Rounds = 1
    MaxCopies = 2
    MaxLosses = 1
    MaxCloses = 3
INVARIANTS
    NoViolation
    SendCanReturn
    PeerLearns
PROPERTIES
    IsPipe
CHECK_DEADLOCK FALSE
CONSTRAINT MCClosing
