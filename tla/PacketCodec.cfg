\* Two packets, packed into each other and sent from a machine with one byte
\* order to a machine with the other.
CONSTANTS
    Packets = {p, q}
    Base = 4
    CR = 1
    LF = 2
    Size <- MCSize
    Signed = {"short"}
    LocalOut = 2
    LocalIn = 1
    EndianTypes = {1, 2}
    Numbers <- MCNumbers
    Strings <- MCStrings
    MaxValues = 3
SPECIFICATION Spec
SYMMETRY PacketSymmetry
CHECK_DEADLOCK FALSE
INVARIANTS
    TypeOK
    RoundTrip
