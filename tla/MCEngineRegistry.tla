-------------------------- MODULE MCEngineRegistry --------------------------
(* The instance of EngineRegistry for TLC. *)
EXTENDS EngineRegistry, TLC

StateSymmetry == Permutations(States)
=============================================================================
