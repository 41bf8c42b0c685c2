------------------------------ MODULE MCSystem ------------------------------
(* The components of System on small instances, each from its own start, in one run of *)
(* TLC.                                                                                *)
EXTENDS System, TLC

CONSTANTS
    u1, f, g,               \* a unit, and findings of it
    r1, r2, d1, k1, q2,     \* runs, a directory, an identity, a request
    e1                      \* an execution in a sandbox

MCUnitOf == f :> u1 @@ g :> u1

\* What an earlier version left of the pipeline is valid, but for its records or the file of
\* one finding.  A new audit without a sandbox finds the target moved when it is resumed;
\* its first attempt leaves the other file valid.
\* Of the records of a sandbox, one may be impossible to write when its invocation ends, and
\* when the scratch closes all or none.  The catalogue is explored twice: two audits that
\* share a directory, or an identity as well, and one request at a time; then two requests
\* at once on the directory of one audit, where a purge that is cut short alone can put back
\* what it took.
MCInit ==
    /\ SysInit
    /\ explored # "pipeline" => Pipeline!Fresh /\ ~sandbox
    /\ explored = "pipeline" =>
          /\ research = units /\ finding[g] # Invalid
          /\ finding[f] = Invalid => research = 0 /\ poc[f] = "reproduced" /\ package[f] = "ready"
    /\ registered[r1] = [dir |-> d1, key |-> k1]
    /\ explored # "catalogue" => registered[r2] = registered[r1]
MCNext ==
    /\ SysNext
    /\ attempts = 1 /\ ~sandbox => finding'[g] # Invalid /\ (units = None => head' = FirstCommit)
    /\ explored = "catalogue" => request'[q2] = None
    /\ explored = "drafts" =>
          /\ scan' = None \/ scan'.run = r1
          /\ lost' # lost => purge' = purge \/ request' # request
    /\ unwritten' \subseteq {e1}
    /\ stage = "closing" /\ stage' = "over" =>
          \/ record' \in {record, Container!Finalized(Container!Launched, "failed")}
          \/ ~scratch'

MCSpec == MCInit /\ [][MCNext]_SysVars
=============================================================================
