-------------------------- MODULE MCAuditPipeline --------------------------
(* Small instances of AuditPipeline. *)
EXTENDS AuditPipeline, TLC

CONSTANTS u1, f, g, old, new

Symmetric == Permutations({f, g})
OneUnit == f :> u1 @@ g :> u1
=============================================================================
