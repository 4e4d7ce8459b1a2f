CONSTANTS
    NULL = NULL
    Modulus <- MCModulus
    PeerIsn <- MCPeerIsn
    Windows = {4}
    PeerMay = {}
    Events = {}
    ReadBufferSize = 4
    SendBufferCap = 1
    MaxWindow = 4
    InitSendWindow = 4
    Mtu = 42
    HeaderLen = 40
    ReadBufLens = {4}
    MaxWriteBytes = 3
    MaxPeerBytes = 0
    MaxSegLen = 1
    MaxPeerSegs = 2
SPECIFICATION Spec
INVARIANT InflightWithinCap
CHECK_DEADLOCK FALSE
