CONSTANTS
    NULL = NULL
    Modulus <- MCModulus
    PeerIsn <- MCPeerIsn
    Windows = {0, 4}
    PeerMay = {}
    Events = {}
    ReadBufferSize = 4
    SendBufferCap = 2
    MaxWindow = 4
    InitSendWindow = 4
    Mtu = 42
    HeaderLen = 40
    ReadBufLens = {4}
    MaxWriteBytes = 2
    MaxPeerBytes = 0
    MaxSegLen = 1
    MaxPeerSegs = 6
SPECIFICATION Spec
INVARIANT WriteTakesBytes
CHECK_DEADLOCK FALSE
