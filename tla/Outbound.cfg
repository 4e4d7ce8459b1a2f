CONSTANTS
    NULL = NULL
    Modulus <- MCModulus
    PeerIsn <- MCPeerIsn
    Windows = {1, 4}
    PeerMay = {"loss", "keep_alive"}
    Events = {}
    ReadBufferSize = 4
    SendBufferCap = 1
    MaxWindow = 4
    InitSendWindow = 4
    Mtu = 42
    HeaderLen = 40
    ReadBufLens = {4}
    MaxWriteBytes = 3
    MaxPeerBytes = 1
    MaxSegLen = 1
    MaxPeerSegs = 5
SPECIFICATION Spec
PROPERTY ImplementsByteStream
INVARIANT UnackedStaysInFlight
INVARIANT ControlSegmentsInSequence
CHECK_DEADLOCK FALSE
