CONSTANTS
    Hosts = {h1, h2}
    RAW = RAW
    PacketInformation = TRUE
    MaxReads = 3
    MaxQueued = 2
SPECIFICATION Spec
INVARIANT HeldStreamsKeepTheirTask
CHECK_DEADLOCK FALSE
