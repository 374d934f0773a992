--------------------------- MODULE MCSockWrapper ---------------------------
(* Instances of SockWrapper for TLC. *)
EXTENDS SockWrapper, TLC

WorkerSymmetry == Permutations(Workers)
=============================================================================
