CONSTANTS
    NULL = NULL
    Modulus <- MCModulus
    PeerIsn <- MCPeerIsn
    Windows = {4}
    PeerMay = {"fin", "reset", "loss"}
    Events = {"shutdown", "timeout"}
    ReadBufferSize = 4
    SendBufferCap = 0
    MaxWindow = 4
    InitSendWindow = 4
    Mtu = 42
    HeaderLen = 40
    ReadBufLens = {4}
    MaxWriteBytes = 2
    MaxPeerBytes = 1
    MaxSegLen = 1
    MaxPeerSegs = 5
SPECIFICATION TasksSafety
INVARIANT ReaderHasWaker
CHECK_DEADLOCK FALSE
