\* Two sends of one packet, taken by two workers.
CONSTANTS
    Packets = {p}
    Workers = {w1, w2}
    LuaThread = L
    Chunk = 2
    PrefixSize = 1
    Formats = {"fixed"}
    Sizes = {1}
    MaxPos = 3
    MaxWritten = 3
    MaxSends = 2
SPECIFICATION Spec
SYMMETRY PacketSymmetry
CHECK_DEADLOCK FALSE
PROPERTIES
    FramesWhole
