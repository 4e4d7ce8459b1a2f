CONSTANTS
    NULL = NULL
    Modulus <- MCModulus
    PeerIsn <- MCPeerIsn
    Windows = {4}
    PeerMay = {"stray"}
    Events = {}
    ReadBufferSize = 4
    SendBufferCap = 2
    MaxWindow = 4
    InitSendWindow = 4
    Mtu = 42
    HeaderLen = 40
    ReadBufLens = {4}
    MaxWriteBytes = 0
    MaxPeerBytes = 0
    MaxSegLen = 1
    MaxPeerSegs = 2
SPECIFICATION Spec
PROPERTY RefusalAnswersInSequence
CHECK_DEADLOCK FALSE
