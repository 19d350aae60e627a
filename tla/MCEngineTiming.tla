--------------------------- MODULE MCEngineTiming ---------------------------
(* The engine with the times of electrical changes, for TLC. *)
EXTENDS EngineTiming, MCEngine
=============================================================================
