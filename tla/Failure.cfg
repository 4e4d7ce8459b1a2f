CONSTANTS
    NULL = NULL
    Modulus <- MCModulus
    PeerIsn <- MCPeerIsn
    Windows = {4}
    PeerMay = {"stray", "syn_again", "forged_ack", "stale_ack"}
    Events = {"drop", "timeout", "device_failure"}
    ReadBufferSize = 4
    SendBufferCap = 2
    MaxWindow = 4
    InitSendWindow = 4
    Mtu = 42
    HeaderLen = 40
    ReadBufLens = {4}
    MaxWriteBytes = 2
    MaxPeerBytes = 1
    MaxSegLen = 1
    MaxPeerSegs = 5
SPECIFICATION Spec
INVARIANT SequenceCountsAcceptedBytes
INVARIANT AcknowledgedIsSent
CHECK_DEADLOCK FALSE
