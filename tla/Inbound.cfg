CONSTANTS
    NULL = NULL
    Modulus <- MCModulus
    PeerIsn <- MCPeerIsn
    Windows = {4}
    PeerMay = {"reorder"}
    Events = {"shutdown", "device_failure"}
    ReadBufferSize = 4
    SendBufferCap = 2
    MaxWindow = 4
    InitSendWindow = 4
    Mtu = 42
    HeaderLen = 40
    ReadBufLens = {1, 4}
    MaxWriteBytes = 0
    MaxPeerBytes = 3
    MaxSegLen = 2
    MaxPeerSegs = 5
SPECIFICATION Spec
INVARIANT TypeOK
PROPERTY ImplementsByteStream
INVARIANT AdvertisedWindowFits
INVARIANT AckCountsDelivered
CHECK_DEADLOCK FALSE
