\* Two packets that grow, are copied, written to each other and to themselves;
\* two sends by the Lua thread or two workers.
CONSTANTS
    Packets = {p, q}
    Workers = {w1, w2}
    LuaThread = L
    Chunk = 1
    PrefixSize = 1
    Formats = {"fixed", "string", "ntstring"}
    Sizes = {0,1}
    MaxPos = 2
    MaxWritten = 2
    MaxSends = 2
CONSTRAINT OnePacketSends
SPECIFICATION Spec
SYMMETRY PacketSymmetry
CHECK_DEADLOCK FALSE
INVARIANTS
    TypeOK
    OutFits
    WrittenKept
    StreamAsMeant
