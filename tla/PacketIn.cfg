\* Two frames of a stream, received with and without a callback, and read.
CONSTANTS
    Workers = {w1}
    LuaThread = L
    NoPacket = NoPacket
    PrefixSize = 2
    Frames <- MCFrames
    Garbled <- MCGarbled
    MaxReceiveSize = 3
    Wrap = 64
    Requests <- MCRequests
    ReadSizes = {1, 2}
    MaxPos = 4
    MaxReceives = 2
SPECIFICATION Spec
CHECK_DEADLOCK FALSE
INVARIANTS
    TypeOK
    InsideBuffer
    InStreamOrder
    FrameReceived
