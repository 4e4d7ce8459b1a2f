CONSTANTS
    Hosts = {h1, h2}
    RAW = RAW
    PacketInformation = TRUE
    MaxReads = 3
    MaxQueued = 3
SPECIFICATION Spec
INVARIANT TypeOK
INVARIANT OnlyItsSentinelEvicts
PROPERTY SignalledFlowIsEvicted
CHECK_DEADLOCK FALSE
