--------------------------- MODULE MCPacketCodec ---------------------------
(* Instances of PacketCodec for TLC. *)
EXTENDS PacketCodec, TLC

\* Bytes of two bits, so that a short is -8..7.
MCSize == [byte |-> 1, sbyte |-> 1, short |-> 2]

\* A string with a line end and a zero, the longest whose length a short
\* holds, which ends with half a line end, and one that is longer.
MCStrings ==
    {<<1, 2, 0>>, Append([i \in 1..6 |-> 3], 1), [i \in 1..8 |-> 3]}

MCNumbers == {-2, 2}

PacketSymmetry == Permutations(Packets)
=============================================================================
