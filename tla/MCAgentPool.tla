---------------------------- MODULE MCAgentPool -----------------------------
(* Small instances of AgentPool: two units, side by side. *)
EXTENDS AgentPool

CONSTANTS u1, u2
=============================================================================
