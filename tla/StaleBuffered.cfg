CONSTANTS
    NULL = NULL
    Modulus <- MCModulus
    PeerIsn <- MCPeerIsn
    Windows = {4}
    PeerMay = {"reorder"}
    Events = {}
    ReadBufferSize = 4
    SendBufferCap = 2
    MaxWindow = 4
    InitSendWindow = 4
    Mtu = 42
    HeaderLen = 40
    ReadBufLens = {4}
    MaxWriteBytes = 0
    MaxPeerBytes = 3
    MaxSegLen = 2
    MaxPeerSegs = 5
SPECIFICATION Spec
INVARIANT BufferedAtOrAfterAck
CHECK_DEADLOCK FALSE
