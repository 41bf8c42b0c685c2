----------------------------- MODULE MCEventBus -----------------------------
(* Small instances of EventBus. *)
EXTENDS EventBus

CONSTANTS c1, c2
=============================================================================
