--------------------------- MODULE RunTrajectory ---------------------------
(***************************************************************************)
(* The document of a run (orchestrator.py, agent.py): the index of the     *)
(* documents its agent tasks wrote, and the tokens the run has used.  It   *)
(* is kept in memory and written when the audit comes to its end, so a     *)
(* crash loses it; an audit resumed on the directory loads the last one    *)
(* and looks, within limits, for the documents it never registered.  A     *)
(* purge of disclosed evidence removes documents and then, in a read and a *)
(* write of the run document, their references, while audits go on.        *)
(***************************************************************************)
EXTENDS Integers, FiniteSets

CONSTANTS
    Tasks,      \* agent tasks, each with a document of its own
    Heavy,      \* those whose document the backfill skips: too large, or unreadable
    MaxBackfill, \* _BACKFILL_MAX_FILES
    MaxRuns,    \* bound: runs on the directory
    MaxCalls,   \* bound: agent invocations
    None

\* A run document, as far as its references and its total go.
Indexes == [session : 1..MaxRuns, refs : [Tasks -> 0..MaxCalls], total : 0..MaxCalls]

\* A purge between its steps: the task whose document it removed, and the run document
\* it has read, or None.
Purges == [task : Tasks, held : Indexes \cup {None}]

\* What an instance must satisfy.
IndexAssumption ==
    /\ IsFiniteSet(Tasks) /\ Heavy \subseteq Tasks
    /\ MaxBackfill \in Nat /\ MaxRuns \in Nat /\ MaxCalls \in Nat
    /\ None \notin 1..MaxRuns \cup Indexes \cup Purges

VARIABLES
    docs,       \* the session each task's document belongs to, or None
    rootFile,   \* trajectory.json: session, references to each task's document, total
                \* usage; or None
    root,       \* the same of the running audit, None when there is none
    running,    \* tasks with an agent: the session of their recorder, or None
    late,       \* the same of agents that outlived their audit
    stats,      \* config.usage_stats: what this process has used
    runId,      \* of the audit that runs or ran last
    continued,  \* that audit took up the written run document
    purging,    \* the purge under way, or None
    starts, calls,
    written,    \* history: the run document is the last thing that was written
    added,      \* history: references its backfill added
    used,       \* history: usage of the audits of the run document that were written
    pruned      \* history: "dangling" since a purge came beside an audit or failed,
                \* "overwritten" since it took back what an audit wrote

own == <<starts, calls, stats, runId, continued>>
vars == <<docs, rootFile, root, running, late, own, purging, written, added, used, pruned>>

Init ==
    /\ docs = [t \in Tasks |-> None] /\ rootFile = None /\ root = None
    /\ running = [t \in Tasks |-> None] /\ late = [t \in Tasks |-> None]
    /\ stats = 0 /\ runId = 0 /\ continued = FALSE /\ purging = None
    /\ starts = 0 /\ calls = 0
    /\ written = FALSE /\ added = 0 /\ used = 0 /\ pruned = "no"

Marked(mark) == IF pruned = "overwritten" THEN pruned ELSE mark

\* _start_run_trajectory: a resumed audit continues the written document, whichever run
\* wrote it, if it loads; else the session is named after the run.  A resumed run keeps
\* its id.
Begin ==
    /\ root = None /\ starts < MaxRuns
    /\ starts' = starts + 1
    /\ runId' \in {starts'} \cup ({runId} \ {0})
    /\ \/ rootFile # None /\ root' = rootFile /\ continued' = TRUE
       \/ /\ root' = [session |-> runId', refs |-> [t \in Tasks |-> 0], total |-> 0]
          /\ continued' = FALSE
    /\ stats' = 0 /\ written' = FALSE
    /\ pruned' = IF purging = None THEN pruned ELSE Marked("dangling")
    /\ UNCHANGED <<docs, rootFile, running, late, calls, purging, added, used>>

\* _open_trajectory: a document is continued in its own session.
Invoke(t) ==
    /\ root # None /\ running[t] = None /\ calls < MaxCalls
    /\ calls' = calls + 1
    /\ running' = [running EXCEPT ![t] = IF docs[t] = None THEN root.session ELSE docs[t]]
    /\ UNCHANGED <<docs, rootFile, root, late, stats, runId, continued, purging, starts,
                   written, added, used, pruned>>

\* Faulty variant of HasRef: a repair is not recognised.
HasRefNever(document, t) == FALSE
HasRef(document, t) == document.refs[t] > 0
\* add_subagent: a task is referenced once, however often it is invoked.
Referring(document, t) ==
    IF HasRef(document, t) THEN document ELSE [document EXCEPT !.refs[t] = @ + 1]

\* The agent ends and its record is flushed: written and registered, or invalid and put
\* aside.  Its usage counts in any case.
Ended(t) ==
    /\ root # None /\ running[t] # None
    /\ running' = [running EXCEPT ![t] = None]
    /\ stats' = stats + 1
    /\ \/ docs' = [docs EXCEPT ![t] = running[t]] /\ root' = Referring(root, t)
       \/ UNCHANGED <<docs, root>>
    /\ UNCHANGED <<rootFile, late, runId, continued, purging, starts, calls, written, added,
                   used, pruned>>

\* So does one whose audit is over: no run document is there to register with.
LateEnded(t) ==
    /\ late[t] # None
    /\ late' = [late EXCEPT ![t] = None]
    /\ \/ docs' = [docs EXCEPT ![t] = late[t]] /\ written' = FALSE
       \/ UNCHANGED <<docs, written>>
    /\ UNCHANGED <<rootFile, root, running, own, purging, added, used, pruned>>

\* _backfill_subagent_refs: documents of the session that are not referenced and not too
\* large to read.
Missing(document) ==
    {t \in Tasks \ Heavy : docs[t] = document.session /\ ~HasRef(document, t)}
\* merge_final_metrics: this process's usage on top of the earlier total.
Totalled(document) == [document EXCEPT !.total = @ + stats]
\* _finish_run_trajectory: of the documents that are missing, no more than the limit are
\* found.  Agents that a Stop has not ended yet outlive the audit.
Published(found) ==
    /\ rootFile' = Totalled([root EXCEPT !.refs =
                                [t \in Tasks |-> @[t] + IF t \in found THEN 1 ELSE 0]])
    /\ written' = TRUE /\ added' = Cardinality(found)
    /\ used' = (IF continued THEN used ELSE 0) + stats
Finish ==
    /\ root # None
    /\ \/ \E found \in SUBSET Missing(root) :
             /\ \/ found = Missing(root) /\ Cardinality(found) <= MaxBackfill
                \/ Cardinality(found) = MaxBackfill
             /\ Published(found)
       \/ UNCHANGED <<rootFile, written, added, used>>  \* it could not be written
    /\ root' = None /\ running' = [t \in Tasks |-> None]
    /\ late' = [t \in Tasks |-> IF running[t] # None THEN running[t] ELSE late[t]]
    /\ UNCHANGED <<docs, own, purging, pruned>>

\* The process dies: the run document of this audit was never written.
Crash ==
    /\ root # None \/ purging # None
    /\ root' = None /\ stats' = 0 /\ purging' = None
    /\ running' = [t \in Tasks |-> None] /\ late' = running'
    /\ pruned' = IF purging = None THEN pruned ELSE Marked("dangling")
    /\ UNCHANGED <<docs, rootFile, runId, continued, starts, calls, written, added, used>>

-----------------------------------------------------------------------------
(* A purge, in a thread of the pool *)

\* _purge_expired_disclosures: the document goes.
Purge(t) ==
    /\ purging = None /\ docs[t] # None
    /\ docs' = [docs EXCEPT ![t] = None]
    /\ purging' = [task |-> t, held |-> None]
    /\ pruned' = IF root = None THEN pruned ELSE Marked("dangling")
    /\ UNCHANGED <<rootFile, root, running, late, own, written, added, used>>
\* _prune_trajectory_refs loads the run document and returns when nothing refers.
PruneReads ==
    /\ purging # None /\ purging.held = None
    /\ purging' = IF rootFile # None /\ HasRef(rootFile, purging.task)
                  THEN [purging EXCEPT !.held = rootFile] ELSE None
    /\ UNCHANGED <<docs, rootFile, root, running, late, own, written, added, used, pruned>>
\* It writes what it has read without the reference, whatever the file says by now; the
\* index in the memory of an audit is not reached.
PruneWrites ==
    /\ purging # None /\ purging.held # None
    /\ rootFile' = [purging.held EXCEPT !.refs[purging.task] = 0]
    /\ pruned' = IF rootFile = purging.held /\ docs[purging.task] = None
                 THEN pruned ELSE "overwritten"
    /\ purging' = None
    /\ UNCHANGED <<docs, root, running, late, own, written, added, used>>
\* Failures are logged.
PruneFails ==
    /\ purging # None
    /\ purging' = None /\ pruned' = Marked("dangling")
    /\ UNCHANGED <<docs, rootFile, root, running, late, own, written, added, used>>

Next ==
    \/ Begin \/ Finish \/ Crash
    \/ \E t \in Tasks : Invoke(t) \/ Ended(t) \/ LateEnded(t) \/ Purge(t)
    \/ PruneReads \/ PruneWrites \/ PruneFails

Spec == Init /\ [][Next]_vars

-----------------------------------------------------------------------------
(* Properties *)

TypeOK ==
    /\ docs \in [Tasks -> 1..MaxRuns \cup {None}]
    /\ rootFile = None \/ rootFile \in Indexes
    /\ root = None \/ root \in Indexes
    /\ running \in [Tasks -> 1..MaxRuns \cup {None}]
    /\ late \in [Tasks -> 1..MaxRuns \cup {None}]
    /\ purging = None \/ purging \in Purges
    /\ stats \in 0..MaxCalls /\ runId \in 0..MaxRuns /\ continued \in BOOLEAN
    /\ starts \in 0..MaxRuns /\ calls \in 0..MaxCalls
    /\ used \in 0..MaxCalls /\ added \in Nat
    /\ written \in BOOLEAN /\ pruned \in {"no", "dangling", "overwritten"}

\* When an audit has written its run document, and no agent that outlived it has written
\* since, then, however many attempts, crashes and repairs went before: the document
\* refers, never twice, to every document of its session but those the backfill leaves
\* out, the large ones and, when it stopped at its limit, any; to none that does not
\* exist; and it counts once the usage of every attempt, since it was begun, that came to
\* its end and was written.  A purge that comes beside an audit or fails may leave a
\* reference without a document; one whose write falls on what an audit wrote after its
\* read takes references and usage back.
IndexIsComplete ==
    written =>
        /\ pruned # "overwritten" /\ added < MaxBackfill =>
              \A t \in Tasks \ Heavy : docs[t] = rootFile.session => HasRef(rootFile, t)
        /\ \A t \in Tasks : rootFile.refs[t] <= 1
        /\ pruned = "no" /\ purging = None =>
              \A t \in Tasks : HasRef(rootFile, t) => docs[t] # None
        /\ pruned # "overwritten" => rootFile.total = used
=============================================================================
