CONSTANTS
    NULL = NULL
    Modulus <- MCModulus
    PeerIsn <- MCPeerIsn
    Windows = {4}
    PeerMay = {}
    Events = {}
    ReadBufferSize = 4
    SendBufferCap = 2
    MaxWindow = 4
    InitSendWindow = 4
    Mtu = 42
    HeaderLen = 40
    ReadBufLens = {1, 4}
    MaxWriteBytes = 0
    MaxPeerBytes = 2
    MaxSegLen = 2
    MaxPeerSegs = 4
SPECIFICATION Spec
INVARIANT ReadFitsBuffer
CHECK_DEADLOCK FALSE
