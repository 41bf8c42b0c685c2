------------------------------- MODULE System -------------------------------
(***************************************************************************)
(* The audit pipeline, its records of the agents' work, the sandbox its    *)
(* agents run in and the catalogue its results go to.  They share no state *)
(* of the models, so their product has nothing to show that each does not  *)
(* show alone: "explored" says which of them a behaviour is of, and the    *)
(* others stay as they started.  The Disclosure catalogue stands twice,    *)
(* for model checking bounds it in two ways.                               *)
(***************************************************************************)
EXTENDS DisclosureStore

CONSTANTS
    Units, Findings, UnitOf, Severe, Commits, FirstCommit, Forbidding, MaxParallel,
    MaxAttempts, Invalid,                       \* AuditPipeline
    Calls, MaxSteps, MaxTokens, MaxCharged,     \* TrajectoryDocument
    AgentTasks, Heavy, MaxBackfill, MaxRuns, MaxCalls,  \* RunTrajectory
    Invocations, Executions                     \* Sandbox

VARIABLES head, research, units, finding, verdict, poc, fp, package, markers, stageState,
          worktree, phase, at, errors, using, sandbox, attempts, outcome, madeAt, patchy
Pipeline == INSTANCE AuditPipeline

VARIABLES file, doc, backend, last, message, pending, seen, owed, text, counter,
          answered
Document == INSTANCE TrajectoryDocument

VARIABLES docs, rootFile, root, running, late, stats, runId, continued, purging, starts,
          calls, filed, added, used, pruned
Index == INSTANCE RunTrajectory WITH written <- filed, Tasks <- AgentTasks

VARIABLES stage, scratch, run, of, sup, ending, container, record, unkilled,
          unwritten
Container == INSTANCE Sandbox
               WITH Runs <- Invocations, phase <- stage, root <- scratch

ASSUME InstancesAreMeant ==
    /\ NoneIsNew /\ Pipeline!PipelineAssumption
    /\ Document!DocumentAssumption /\ Index!IndexAssumption /\ Container!SandboxAssumption

VARIABLE explored

pipelineVars == <<head, research, units, finding, verdict, poc, fp, package, markers,
                  stageState, worktree, phase, at, errors, using, sandbox, attempts,
                  outcome, madeAt, patchy>>
docVars == <<file, doc, backend, last, message, pending, seen, owed, text, counter,
             answered>>
indexVars == <<docs, rootFile, root, running, late, stats, runId, continued, purging,
               starts, calls, filed, added, used, pruned>>
sandboxVars == <<stage, scratch, run, of, sup, ending, container, record, unkilled,
                 unwritten>>
SysVars == <<vars, pipelineVars, docVars, indexVars, sandboxVars, explored>>

SysInit ==
    /\ Init /\ Pipeline!Init /\ Document!Init /\ Index!Init /\ Container!Init
    /\ explored \in {"pipeline", "document", "index", "container", "catalogue", "drafts"}

SysNext ==
    /\ UNCHANGED explored
    /\ \/ /\ explored = "pipeline"
          /\ UNCHANGED <<vars, docVars, indexVars, sandboxVars>>
          /\ Pipeline!Next
       \/ /\ explored = "document"
          /\ UNCHANGED <<vars, pipelineVars, indexVars, sandboxVars>>
          /\ Document!Next
       \/ /\ explored = "index"
          /\ UNCHANGED <<vars, pipelineVars, docVars, sandboxVars>>
          /\ Index!Next
       \/ /\ explored = "container"
          /\ UNCHANGED <<vars, pipelineVars, docVars, indexVars>>
          /\ Container!Next
       \/ /\ explored \in {"catalogue", "drafts"}
          /\ UNCHANGED <<pipelineVars, docVars, indexVars, sandboxVars>>
          /\ Next

SysSpec == SysInit /\ [][SysNext]_SysVars

-----------------------------------------------------------------------------
(* Properties *)

\* Every component's variables keep their types.
AllTyped ==
    /\ explored = "pipeline" => Pipeline!TypeOK
    /\ explored = "document" => Document!TypeOK
    /\ explored = "index" => Index!TypeOK
    /\ explored = "container" => Container!TypeOK
    /\ explored \in {"catalogue", "drafts"} => TypeOK

\* AuditPipeline: what Stage 4 evaluated is what Stage 3 found, and not an earlier text
\* under the same file name, but for findings of a unit that stayed unmarked, or was marked
\* with an invalid file and searched again.
EvaluatedAsFound == explored = "pipeline" => Pipeline!EvaluatedAsFound

\* AuditPipeline: an audit that is done without an error has searched every unit and left
\* a valid package, as the policy demands, of every vulnerability it selected.
DoneMeansSettled == explored = "pipeline" => Pipeline!DoneMeansSettled

\* AuditPipeline: a package recorded complete is of a vulnerability recorded reproduced,
\* with the report in place, whatever attempts they date from; evidence is of the commit
\* under audit, unless a git that outlived its attempt is removing the worktree.
DisclosureHasEvidence == explored = "pipeline" => Pipeline!DisclosureHasEvidence

\* AuditPipeline: Stage 6 is recorded done only while the attempt started last has gone
\* through all stages.
LastStageIsOfThisAttempt == explored = "pipeline" => Pipeline!LastStageIsOfThisAttempt

\* TrajectoryDocument: over retries and continued documents the record of an agent's work
\* is valid, never claims more tokens than the provider reported and claims exactly those,
\* but for a report of a call without a step, one after Codex's first turn, one whose first
\* count has reached the total kept of the call before, and what is owed at the end.
RecordIsFaithful == explored = "document" => Document!RecordIsFaithful

\* RunTrajectory: however many attempts, crashes and repairs an audit needed, its run
\* document, as written, refers once to every document of its session that the backfill's
\* limits let it find, and counts once the usage of every attempt that wrote it.
IndexIsComplete == explored = "index" => Index!IndexIsComplete

\* Sandbox: clean-up reaches every container it has to, and takes none from a supervisor
\* that is attached to it, though supervisors are killed and calls retried; not where the
\* clean-up of host processes raised, nor in records that could not be written.
CleanupIsExact == explored = "container" => Container!CleanupIsExact
=============================================================================
