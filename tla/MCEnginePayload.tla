--------------------------- MODULE MCEnginePayload ---------------------------
(***************************************************************************)
(* EnginePayload with base fees around the largest 64-bit one.             *)
(***************************************************************************)
EXTENDS EnginePayload
============================================================================
