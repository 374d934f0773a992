----------------------------- MODULE MCPacketIn -----------------------------
(* Instances of PacketIn for TLC. *)
EXTENDS PacketIn

MCFrames == <<0, 2>>
MCFramed == {[kind |-> "framed", n |-> 0]}
MCRequests == MCFramed \union {[kind |-> "count", n |-> 0],
                              [kind |-> "count", n |-> 2],
                              [kind |-> "until", n |-> 2]}
MCGarbled == {-1, 0, 1, 9}
=============================================================================
