-------------------------- MODULE MCEngineHistory --------------------------
(* The engine with its history, for TLC. *)
EXTENDS EngineHistory, MCEngine
=============================================================================
