---------------------------- MODULE MCPacketOut ----------------------------
(* Instances of PacketOut for TLC. *)
EXTENDS PacketOut, TLC

PacketSymmetry == Permutations(Packets) \union Permutations(Workers)

\* Once the script sends, it uses one packet.
OnePacketSends ==
    sends = 0 \/ \E p \in Packets : \A q \in Packets \ {p} : ~out[q].set
=============================================================================
