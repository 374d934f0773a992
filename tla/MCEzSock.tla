------------------------------ MODULE MCEzSock ------------------------------
(* The instance of EzSock for TLC: all workers are those of one wrapper. *)
EXTENDS EzSock

CONSTANT Server

MCHome == [t \in Workers |-> Server]
=============================================================================
