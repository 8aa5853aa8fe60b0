---------------------------- MODULE MCSupervisor ----------------------------
(***************************************************************************)
(* Small supervised sessions over one document.                            *)
(***************************************************************************)
EXTENDS Supervisor

CONSTANTS a, clean, broken

OneDoc == <<a>>
ImportsOf == [t \in Texts |-> {}]
=============================================================================
