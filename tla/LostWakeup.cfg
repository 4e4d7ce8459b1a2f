CONSTANTS
    NULL = NULL
    Modulus <- MCModulus
    PeerIsn <- MCPeerIsn
    Windows = {4}
    PeerMay = {}
    Events = {}
    ReadBufferSize = 4
    SendBufferCap = 0
    MaxWindow = 4
    InitSendWindow = 4
    Mtu = 42
    HeaderLen = 40
    ReadBufLens = {4}
    MaxWriteBytes = 2
    MaxPeerBytes = 1
    MaxSegLen = 1
    MaxPeerSegs = 5
SPECIFICATION TasksSafety
INVARIANT ParkedWriterHasReason
CHECK_DEADLOCK FALSE
