CONSTANTS
    Hosts = {h1, h2}
    RAW = RAW
    PacketInformation = FALSE
    MaxReads = 3
    MaxQueued = 2
SPECIFICATION Spec
INVARIANT ClosedInboxIsEvicted
CHECK_DEADLOCK FALSE
