--------------------------- MODULE AuditPipeline ---------------------------
(***************************************************************************)
(* The audit as a whole (orchestrator.py, checkpoint.py, stage_state.py    *)
(* and the stages): seven stages in order, the parallel ones with one      *)
(* agent per item, over an output directory that survives the process.     *)
(* An audit that is stopped, fails or crashes is started again on the same *)
(* directory and skips what checkpoints say is complete.  Stage 4 is       *)
(* coarse here: module Stage4 has its detail.                              *)
(***************************************************************************)
EXTENDS Integers, FiniteSets

CONSTANTS
    Units,          \* analysis units (AU-1, ...)
    Findings,       \* names of finding files, AU-1-F-1.json, ...
    UnitOf,         \* the unit a finding file belongs to
    Severe,         \* findings Stage 5 selects once they are confirmed
    Commits,        \* commits the target may be at
    FirstCommit,    \* the one the output directory is named after
    Forbidding,     \* commits whose SECURITY.md refuses generated reports
    MaxParallel,    \* max_parallel
    MaxAttempts,    \* bound: how often the audit is started
    None, Invalid   \* no file; a file that does not pass validation

\* What an instance must satisfy.
PipelineAssumption ==
    /\ UnitOf \in [Findings -> Units]
    /\ Severe \subseteq Findings
    /\ FirstCommit \in Commits /\ Forbidding \subseteq Commits
    /\ MaxParallel \in Nat \ {0} /\ MaxAttempts \in Nat \ {0}
    /\ None \notin 0..MaxAttempts \cup Commits /\ Invalid \notin 0..MaxAttempts \cup {None}

VARIABLES
    \* the output directory and the target, which outlive the process
    head,           \* commit of the target
    research,       \* record and directives of Stage 1
    units,          \* the AU files of Stage 2
    finding,        \* contents of each finding file: who wrote it, or "invalid"
    verdict,        \* [of, is]: contents a finding was evaluated with, and the result
    poc,            \* report in stage5-pocs/<id>
    fp,             \* ids with a directory stage5-pocs/<id>_fp
    package,        \* stage6-disclosures/<id>
    markers,        \* .markers: the tasks recorded complete
    stageState,     \* stage-state.json
    worktree,       \* .poc-worktree: its HEAD, and whether git is removing it
    \* the running audit
    phase,          \* "down", a stage, "clean" (after Stage 6), or "ended"
    at,             \* what the worker of each task is doing, or its result
    errors,         \* config.task_errors
    using,          \* config.poc_worktree is set ("unset": not decided yet)
    sandbox,        \* config.sandbox_enabled
    attempts,
    \* history
    outcome,        \* how the last attempt ended
    madeAt,         \* commits at which results of the directory were made
    patchy          \* how the findings of a unit may have parted from their verdicts

inputs == <<head, research, units>>
pocs == <<poc, fp>>
settings == <<using, sandbox, attempts>>
disk == <<inputs, finding, verdict, pocs, package, markers, worktree>>
vars == <<disk, stageState, phase, at, errors, settings, outcome, madeAt, patchy>>

\* Valid contents of a file are told apart by the attempt that wrote them; 0 is an
\* attempt of an earlier version of the program.
Writers == 0..MaxAttempts
Contents == Writers \cup {None, Invalid}

Stages == {"setup", "research", "decompose", "search", "evaluate", "reproduce", "disclose"}
Earlier == Stages \ {"disclose"}
\* Task keys: stage1, stage2, stage3:<unit>, stage4:<finding>, stage5:<id>, stage6:<id>.
Research == <<"research">>
Decomposition == <<"decompose">>
Search(us) == {"search"} \X us
Evaluation(fs) == {"evaluate"} \X fs
Reproduction(fs) == {"reproduce"} \X fs
Disclosure(fs) == {"disclose"} \X fs
Tasks == {Research, Decomposition} \cup Search(Units) \cup Evaluation(Findings)
            \cup Reproduction(Findings) \cup Disclosure(Findings)
Busy == {"mend", "agent", "repair", "exported", "refuted"}
Over == {"idle", "ok", "none", "rejected"}
AllOver(tasks) == \A t \in tasks : at[t] \in Over

\* A directory that does not exist yet, or one an earlier version left, or something has
\* damaged since, whose markers promise more than its files hold.
Fresh ==
    /\ research = None /\ units = None
    /\ finding = [f \in Findings |-> None]
    /\ verdict = [f \in Findings |-> [of |-> None, is |-> "open"]]
    /\ poc = [f \in Findings |-> "none"] /\ package = [f \in Findings |-> "none"]
    /\ markers = {}
Inherited ==
    /\ research \in {0, Invalid} /\ units \in {0, Invalid}
    /\ finding \in [Findings -> {0, Invalid}]
    /\ verdict = [f \in Findings |-> [of |-> 0, is |-> "final"]]
    /\ \E report \in {"partial", "reproduced"}, left \in {"none", "invalid", "ready"} :
          /\ report = "partial" => left = "none"
          /\ poc = [f \in Findings |-> report]
          /\ package = [f \in Findings |-> left]
          /\ markers = Tasks \ ({Research}
                        \cup IF left = "none" THEN Disclosure(Findings) ELSE {})

Init ==
    /\ head = FirstCommit /\ fp = {} /\ worktree = [head |-> None, removal |-> "no"]
    /\ Fresh \/ Inherited
    /\ stageState = [s \in Stages |-> "pending"]
    /\ phase = "down" /\ at = [t \in Tasks |-> "idle"] /\ errors = {}
    /\ using = "unset" /\ sandbox \in BOOLEAN /\ attempts = 0 /\ outcome = "none"
    /\ madeAt = (IF units = None THEN {} ELSE {FirstCommit}) 
    /\ patchy = [u \in Units |-> {}]

-----------------------------------------------------------------------------
(* Stages *)

\* stage_span: a completed stage keeps its record while it is walked through again.
Begun(state, s) == IF state[s] = "done" THEN state ELSE [state EXCEPT ![s] = "running"]
Enter(s, tasks) ==
    /\ phase' = s
    /\ stageState' = Begun([stageState EXCEPT ![phase] = "done"], s)
    /\ at' = [t \in Tasks |-> IF t \in tasks THEN "waiting" ELSE "idle"]

\* stage_span, run_audit: whatever ends a stage early is recorded against it.
EndWith(result) ==
    /\ phase' = "ended" /\ outcome' = result
    /\ stageState' = [stageState EXCEPT ![phase] = "failed"]
    /\ at' = [t \in Tasks |-> IF at[t] \in Over THEN at[t] ELSE "idle"]

\* Faulty variant of ResetState: the record of Stage 6 is kept as well.
ResetStateKeepingAll == [s \in Stages |-> IF stageState[s] = "done" THEN "done" ELSE "pending"]
\* StageStateStore.reset(preserve_completed=True) and clear(6): what was completed
\* keeps its record, except Stage 6.
ResetState == [s \in Stages |-> IF s \in Earlier /\ stageState[s] = "done"
                                THEN "done" ELSE "pending"]

Start ==
    /\ phase \in {"down", "ended"} /\ attempts < MaxAttempts
    /\ attempts' = attempts + 1
    /\ phase' = "setup" /\ at' = [t \in Tasks |-> "idle"] /\ errors' = {} /\ using' = "unset"
    /\ stageState' = Begun(ResetState, "setup")
    /\ outcome' = "none"
    /\ UNCHANGED <<disk, sandbox, madeAt, patchy>>

\* Stage 0 pulls: the target may move to another commit, the directory stays.
SetUp ==
    /\ phase = "setup"
    /\ head' \in Commits
    /\ Enter("research", {Research})
    /\ UNCHANGED <<research, units, finding, verdict, pocs, package, markers, worktree,
                   errors, settings, outcome, madeAt, patchy>>

SlotFree == Cardinality({t \in Tasks : at[t] \in Busy}) < MaxParallel
\* Faulty variant of Settle: a task that raises is only logged.
SettleSilently(t, result) == at' = [at EXCEPT ![t] = result] /\ UNCHANGED errors
\* run_parallel_limited, collect_parallel_results: a task that raises is an error
\* of the audit and leaves the others running.
Settle(t, result) ==
    /\ at' = [at EXCEPT ![t] = result]
    /\ errors' = IF result = "rejected" THEN errors \cup {t} ELSE errors
Made == madeAt' = madeAt \cup {head}

-----------------------------------------------------------------------------
(* Stages 1 and 2 *)

\* run_stage1: the record is its own checkpoint; valid, it is kept, else research
\* is done again, and what it leaves is used even when it is invalid.
KeepResearch ==
    /\ phase = "research" /\ research \in Writers
    /\ Enter("decompose", {Decomposition})
    /\ UNCHANGED <<disk, errors, settings, outcome, madeAt, patchy>>
DoResearch ==
    /\ phase = "research" /\ research \notin Writers
    /\ research' \in {Invalid, attempts} /\ Made
    /\ Enter("decompose", {Decomposition})
    /\ UNCHANGED <<head, units, finding, verdict, pocs, package, markers, worktree, errors,
                   settings, outcome, patchy>>

\* run_stage2 with units of an earlier attempt: valid ones are taken over, marked or
\* not; invalid ones lose their marker and are given one repair.
KeepUnits ==
    /\ phase = "decompose" /\ at[Decomposition] = "waiting" /\ units \in Writers
    /\ markers' = markers \cup {Decomposition}
    /\ Enter("search", Search(Units))
    /\ UNCHANGED <<inputs, finding, verdict, pocs, package, worktree, errors, settings,
                   outcome, madeAt, patchy>>
Decompose ==
    /\ phase = "decompose" /\ at[Decomposition] = "waiting" /\ units \notin Writers
    /\ markers' = markers \ {Decomposition}
    /\ at' = [at EXCEPT ![Decomposition] = IF units = Invalid THEN "mend" ELSE "agent"]
    /\ UNCHANGED <<inputs, finding, verdict, pocs, package, worktree, stageState, phase,
                   errors, settings, outcome, madeAt, patchy>>
\* The agent returns.  Valid units are marked and used; others are repaired or, when
\* mending old ones failed, cleared and made anew; in the end they fail the audit.
Decomposed ==
    /\ phase = "decompose" /\ at[Decomposition] \in Busy /\ Made
    /\ \/ /\ units' = attempts /\ markers' = markers \cup {Decomposition}
          /\ Enter("search", Search(Units))
          /\ UNCHANGED outcome
       \/ /\ at[Decomposition] = "mend" /\ units' = None
          /\ at' = [at EXCEPT ![Decomposition] = "agent"]
          /\ UNCHANGED <<markers, phase, stageState, outcome>>
       \/ /\ at[Decomposition] = "agent" /\ units' \in {None, Invalid}
          /\ at' = [at EXCEPT ![Decomposition] = "repair"]
          /\ UNCHANGED <<markers, phase, stageState, outcome>>
       \/ /\ at[Decomposition] = "repair" /\ units' \in {None, Invalid}
          /\ EndWith("failed")
          /\ UNCHANGED markers
    /\ UNCHANGED <<head, research, finding, verdict, pocs, package, worktree, errors,
                   settings, patchy>>

-----------------------------------------------------------------------------
(* Stage 3 *)

Of(u) == {f \in Findings : UnitOf[f] = u}
BrokenFiles(u) == {f \in Of(u) : finding[f] = Invalid}

\* _run_unit: a marked unit whose findings are all valid is not searched again.
KeepFindings(u) ==
    /\ phase = "search" /\ at[<<"search", u>>] = "waiting" /\ SlotFree
    /\ <<"search", u>> \in markers /\ BrokenFiles(u) = {}
    /\ Settle(<<"search", u>>, "ok")
    /\ UNCHANGED <<disk, stageState, phase, settings, outcome, madeAt, patchy>>
\* Otherwise an agent is started, on the files an interrupted attempt left; a marked unit
\* loses all of its files and is searched again, under the same names.
SearchUnit(u) ==
    /\ phase = "search" /\ at[<<"search", u>>] = "waiting" /\ SlotFree
    /\ <<"search", u>> \notin markers \/ BrokenFiles(u) # {}
    /\ finding' = [f \in Findings |-> IF <<"search", u>> \in markers /\ f \in Of(u)
                                      THEN None ELSE finding[f]]
    /\ patchy' = IF <<"search", u>> \in markers
                 THEN [patchy EXCEPT ![u] = @ \cup {"reopened"}] ELSE patchy
    /\ markers' = markers \ {<<"search", u>>}
    /\ at' = [at EXCEPT ![<<"search", u>>] = "agent"]
    /\ UNCHANGED <<inputs, verdict, pocs, package, worktree, stageState, phase, errors,
                   settings, outcome, madeAt>>
\* The agent writes finding files, under the same names in every attempt.
AgentFinds(u) ==
    /\ phase = "search" /\ at[<<"search", u>>] = "agent" /\ Made
    /\ \E f \in Of(u), contents \in {attempts, Invalid} :
          finding' = [finding EXCEPT ![f] = contents]
    /\ UNCHANGED <<inputs, verdict, pocs, package, markers, worktree, stageState, phase, at,
                   errors, settings, outcome, patchy>>
\* Each invalid file is repaired once or removed; only a unit none of whose files
\* had to be removed is marked.
Searched(u) ==
    /\ phase = "search" /\ at[<<"search", u>>] = "agent" /\ Made
    /\ \E repaired \in SUBSET BrokenFiles(u) :
          /\ finding' = [f \in Findings |->
                            CASE f \in repaired -> attempts
                              [] f \in BrokenFiles(u) \ repaired -> None
                              [] OTHER -> finding[f]]
          /\ markers' = IF repaired = BrokenFiles(u) THEN markers \cup {<<"search", u>>}
                        ELSE markers \ {<<"search", u>>}
          /\ patchy' = IF repaired = BrokenFiles(u) THEN patchy
                     ELSE [patchy EXCEPT ![u] = @ \cup {"unmarked"}]
    /\ Settle(<<"search", u>>, "ok")
    /\ UNCHANGED <<inputs, verdict, pocs, package, worktree, stageState, phase, settings,
                   outcome>>

-----------------------------------------------------------------------------
(* Stage 4: the findings of the units that were searched without an error *)

\* Faulty variant of Candidates: a unit whose agent failed passes on what it has found.
CandidatesOfAll == {f \in Findings : finding[f] \in Writers}
Candidates == {f \in Findings : at[<<"search", UnitOf[f]>>] = "ok" /\ finding[f] \in Writers}

BeginEvaluation ==
    /\ phase = "search" /\ AllOver(Search(Units))
    /\ Enter("evaluate", Evaluation(Candidates))
    /\ UNCHANGED <<disk, errors, settings, outcome, madeAt, patchy>>
\* A marked finding is not looked at again, whatever its file holds now.
KeepVerdict(f) ==
    /\ phase = "evaluate" /\ at[<<"evaluate", f>>] = "waiting" /\ SlotFree
    /\ <<"evaluate", f>> \in markers
    /\ Settle(<<"evaluate", f>>, IF verdict[f].is = "pending" THEN "ok" ELSE "none")
    /\ UNCHANGED <<disk, stageState, phase, settings, outcome, madeAt, patchy>>
EvaluateFinding(f) ==
    /\ phase = "evaluate" /\ at[<<"evaluate", f>>] = "waiting" /\ SlotFree
    /\ <<"evaluate", f>> \notin markers
    /\ at' = [at EXCEPT ![<<"evaluate", f>>] = "agent"]
    /\ UNCHANGED <<disk, stageState, phase, errors, settings, outcome, madeAt, patchy>>
\* Confirmed, refused or a duplicate, or without a valid result after its repair.
Evaluated(f) ==
    /\ phase = "evaluate" /\ at[<<"evaluate", f>>] = "agent" /\ Made
    /\ \/ \E is \in {"pending", "refused"} :
             /\ verdict' = [verdict EXCEPT ![f] = [of |-> finding[f], is |-> is]]
             /\ markers' = markers \cup {<<"evaluate", f>>}
             /\ Settle(<<"evaluate", f>>, IF is = "pending" THEN "ok" ELSE "none")
       \/ /\ Settle(<<"evaluate", f>>, "none")
          /\ UNCHANGED <<verdict, markers>>
    /\ UNCHANGED <<inputs, finding, pocs, package, worktree, stageState, phase, settings,
                   outcome, patchy>>

-----------------------------------------------------------------------------
(* Stage 5 *)

\* The confirmed findings get their final files, next to those of earlier attempts;
\* _select_stage5_vulnerabilities chooses among all of them.
Selected == {f \in Severe : verdict[f].is = "final"}
BeginReproduction ==
    /\ phase = "evaluate" /\ AllOver(Evaluation(Findings))
    /\ verdict' = [f \in Findings |-> IF at[<<"evaluate", f>>] = "ok"
                                      THEN [verdict[f] EXCEPT !.is = "final"] ELSE verdict[f]]
    /\ Enter("reproduce", Reproduction({f \in Severe : verdict'[f].is = "final"}))
    /\ UNCHANGED <<inputs, finding, pocs, package, markers, worktree, errors, settings,
                   outcome, madeAt, patchy>>
\* ensure_poc_worktree: one worktree for all local agents, if it can be had at the
\* commit of the target; a stale or broken one is neither used nor removed.
OpenWorktree ==
    /\ phase = "reproduce" /\ using = "unset" /\ Selected # {}
    /\ \/ sandbox /\ using' = "no" /\ UNCHANGED worktree
       \/ /\ ~sandbox /\ worktree.head \in {None, head} /\ using' = "yes"
          /\ worktree' = [worktree EXCEPT !.head = head]
       \/ ~sandbox /\ worktree.head # head /\ using' = "no" /\ UNCHANGED worktree
    /\ UNCHANGED <<inputs, finding, verdict, pocs, package, markers, stageState, phase, at,
                   errors, sandbox, attempts, outcome, madeAt, patchy>>

\* _resolve_reproduction_report: a report of failure is moved to the _fp directory.
ReportOf(f) ==
    IF poc[f] \in {"unknown", "reproduced"} THEN "report"
    ELSE IF poc[f] = "failed" \/ f \in fp THEN "fp" ELSE "none"
ResolveReport(f) ==
    /\ poc' = IF poc[f] = "failed" /\ f \notin fp THEN [poc EXCEPT ![f] = "none"] ELSE poc
    /\ fp' = IF poc[f] = "failed" THEN fp \cup {f} ELSE fp

KeepReproduction(f) ==
    /\ phase = "reproduce" /\ using # "unset" /\ at[<<"reproduce", f>>] = "waiting" /\ SlotFree
    /\ <<"reproduce", f>> \in markers /\ ReportOf(f) # "none"
    /\ ResolveReport(f)
    /\ Settle(<<"reproduce", f>>, IF ReportOf(f) = "report" THEN "ok" ELSE "none")
    /\ UNCHANGED <<inputs, finding, verdict, package, markers, worktree, stageState, phase,
                   settings, outcome, madeAt, patchy>>
\* Not marked, or marked without any report; a sandbox works on a scratch directory.
Reproduce(f) ==
    /\ phase = "reproduce" /\ using # "unset" /\ at[<<"reproduce", f>>] = "waiting" /\ SlotFree
    /\ <<"reproduce", f>> \notin markers \/ ReportOf(f) = "none"
    /\ markers' = markers \ {<<"reproduce", f>>}
    /\ poc' = IF poc[f] = "none" /\ ~sandbox THEN [poc EXCEPT ![f] = "partial"] ELSE poc
    /\ at' = [at EXCEPT ![<<"reproduce", f>>] = "agent"]
    /\ UNCHANGED <<inputs, finding, verdict, fp, package, worktree, stageState, phase,
                   errors, settings, outcome, madeAt, patchy>>
\* A local agent writes into the directory itself, or renames it.
AgentReproduces(f) ==
    /\ phase = "reproduce" /\ at[<<"reproduce", f>>] = "agent" /\ ~sandbox /\ Made
    /\ \/ /\ \E report \in {"failed", "unknown", "reproduced"} :
                poc' = [poc EXCEPT ![f] = report]
          /\ UNCHANGED fp
       \/ /\ f \notin fp /\ fp' = fp \cup {f} /\ poc' = [poc EXCEPT ![f] = "none"]
    /\ UNCHANGED <<inputs, finding, verdict, package, markers, worktree, stageState, phase,
                   at, errors, settings, outcome, patchy>>
\* The end of _run_reproduce without a sandbox: no report, no marker and no error; a
\* reproduction whose package stays invalid after a repair is an error.
Reproduced(f) ==
    /\ phase = "reproduce" /\ at[<<"reproduce", f>>] = "agent" /\ ~sandbox /\ Made
    /\ ResolveReport(f)
    /\ \/ /\ ReportOf(f) = "none" /\ Settle(<<"reproduce", f>>, "none")
          /\ UNCHANGED markers
       \/ /\ poc[f] = "reproduced" /\ Settle(<<"reproduce", f>>, "rejected")
          /\ UNCHANGED markers
       \/ /\ ReportOf(f) # "none" /\ markers' = markers \cup {<<"reproduce", f>>}
          /\ Settle(<<"reproduce", f>>, IF ReportOf(f) = "report" THEN "ok" ELSE "none")
    /\ UNCHANGED <<inputs, finding, verdict, package, worktree, stageState, phase, settings,
                   outcome, patchy>>
\* With one, what is exported replaces the directory, or goes to the _fp one beside it.
ExportReproduction(f) ==
    /\ phase = "reproduce" /\ at[<<"reproduce", f>>] = "agent" /\ sandbox /\ Made
    /\ \/ /\ \E report \in {"unknown", "reproduced"} : poc' = [poc EXCEPT ![f] = report]
          /\ at' = [at EXCEPT ![<<"reproduce", f>>] = "exported"]
          /\ UNCHANGED fp
       \/ /\ fp' = fp \cup {f}
          /\ at' = [at EXCEPT ![<<"reproduce", f>>] = "refuted"]
          /\ UNCHANGED poc
    /\ UNCHANGED <<inputs, finding, verdict, package, markers, worktree, stageState, phase,
                   errors, settings, outcome, patchy>>
\* The scratch is closed, which takes awaits of its own, and the task marked.
ReproducedInSandbox(f) ==
    /\ phase = "reproduce" /\ at[<<"reproduce", f>>] \in {"exported", "refuted"}
    /\ markers' = markers \cup {<<"reproduce", f>>}
    /\ Settle(<<"reproduce", f>>, IF at[<<"reproduce", f>>] = "exported" THEN "ok" ELSE "none")
    /\ UNCHANGED <<inputs, finding, verdict, pocs, package, worktree, stageState, phase,
                   settings, outcome, madeAt, patchy>>

-----------------------------------------------------------------------------
(* Stage 6 *)

Reports == {f \in Findings : at[<<"reproduce", f>>] = "ok"}
\* Faulty variant of Disclosable: whatever has a report.
DisclosableAny == Reports
\* _filter_reproduced: only what was reproduced is disclosed.
Disclosable == {f \in Reports : poc[f] = "reproduced"}

\* The candidates, less those that a key or an agent finds to be known already.
BeginDisclosure ==
    /\ phase = "reproduce" /\ AllOver(Reproduction(Findings))
    /\ \E known \in SUBSET Disclosable : Enter("disclose", Disclosure(Disclosable \ known))
    /\ UNCHANGED <<disk, errors, settings, outcome, madeAt, patchy>>

Blocked == head \in Forbidding
Valid(contents) == contents \in {"ready", "draft"}
\* enforce_email_policy: marked as an internal draft where the target forbids reports.
Enforced(contents) == IF contents = "ready" /\ Blocked THEN "draft" ELSE contents

\* A complete and valid package is kept, unless it predates the policy.
KeepDisclosure(f) ==
    /\ phase = "disclose" /\ at[<<"disclose", f>>] = "waiting" /\ SlotFree
    /\ <<"disclose", f>> \in markers
    /\ Valid(package[f]) /\ Enforced(package[f]) = package[f]
    /\ Settle(<<"disclose", f>>, "ok")
    /\ UNCHANGED <<disk, stageState, phase, settings, outcome, madeAt, patchy>>
\* An invalid one is an error; the next attempt makes it again.
RefuseDisclosure(f) ==
    /\ phase = "disclose" /\ at[<<"disclose", f>>] = "waiting" /\ SlotFree
    /\ <<"disclose", f>> \in markers /\ ~Valid(package[f])
    /\ markers' = markers \ {<<"disclose", f>>}
    /\ Settle(<<"disclose", f>>, "rejected")
    /\ UNCHANGED <<inputs, finding, verdict, pocs, package, worktree, stageState, phase,
                   settings, outcome, madeAt, patchy>>
Disclose(f) ==
    /\ phase = "disclose" /\ at[<<"disclose", f>>] = "waiting" /\ SlotFree
    /\ \/ <<"disclose", f>> \notin markers
       \/ Valid(package[f]) /\ Enforced(package[f]) # package[f]
    /\ markers' = markers \ {<<"disclose", f>>}
    /\ at' = [at EXCEPT ![<<"disclose", f>>] = "agent"]
    /\ UNCHANGED <<inputs, finding, verdict, pocs, package, worktree, stageState, phase,
                   errors, settings, outcome, madeAt, patchy>>
AgentDiscloses(f) ==
    /\ phase = "disclose" /\ at[<<"disclose", f>>] \in Busy /\ ~sandbox /\ Made
    /\ package' \in {[package EXCEPT ![f] = contents] : contents \in {"invalid", "ready"}}
    /\ UNCHANGED <<inputs, finding, verdict, pocs, markers, worktree, stageState, phase, at,
                   errors, settings, outcome, patchy>>
\* The agent returns: the policy is enforced and the package validated; it has two tries.
Disclosed(f) ==
    /\ phase = "disclose" /\ at[<<"disclose", f>>] \in Busy /\ ~sandbox /\ Made
    /\ package' = [package EXCEPT ![f] = Enforced(package[f])]
    /\ \/ /\ Valid(package[f]) /\ markers' = markers \cup {<<"disclose", f>>}
          /\ Settle(<<"disclose", f>>, "ok")
       \/ /\ ~Valid(package[f]) /\ UNCHANGED markers
          /\ Settle(<<"disclose", f>>,
                    IF at[<<"disclose", f>>] = "agent" THEN "repair" ELSE "rejected")
    /\ UNCHANGED <<inputs, finding, verdict, pocs, worktree, stageState, phase, settings,
                   outcome, patchy>>
\* In a sandbox a package that is valid is exported, validated again, and marked once the
\* scratch is closed; invalid there, it fails the task.
ExportDisclosure(f) ==
    /\ phase = "disclose" /\ at[<<"disclose", f>>] = "agent" /\ sandbox /\ Made
    /\ \E contents \in {Enforced("ready"), "invalid"} :
          package' = [package EXCEPT ![f] = contents]
    /\ at' = [at EXCEPT ![<<"disclose", f>>] = "exported"]
    /\ UNCHANGED <<inputs, finding, verdict, pocs, markers, worktree, stageState, phase,
                   errors, settings, outcome, patchy>>
DisclosedInSandbox(f) ==
    /\ phase = "disclose" /\ at[<<"disclose", f>>] = "exported" /\ Valid(package[f])
    /\ markers' = markers \cup {<<"disclose", f>>}
    /\ Settle(<<"disclose", f>>, "ok")
    /\ UNCHANGED <<inputs, finding, verdict, pocs, package, worktree, stageState, phase,
                   settings, outcome, madeAt, patchy>>

-----------------------------------------------------------------------------
(* The end of _run_audit_stages *)

\* Stage 6 is over and recorded; a worktree in use is given to git to be removed.
CompleteDisclosure ==
    /\ phase = "disclose" /\ AllOver(Disclosure(Findings))
    /\ phase' = "clean" /\ stageState' = [stageState EXCEPT !["disclose"] = "done"]
    /\ worktree' = IF using = "yes" /\ worktree.removal = "no"
                   THEN [worktree EXCEPT !.removal = "running"] ELSE worktree
    /\ UNCHANGED <<inputs, finding, verdict, pocs, package, markers, at, errors, settings,
                   outcome, madeAt, patchy>>
\* git, or rmtree when git fails, removes all of it or a part.  A git whose audit is gone
\* goes on: nothing kills it, and a later attempt may find the directory still there.
RemoveWorktree ==
    /\ worktree.removal # "no"
    /\ worktree' \in {[worktree EXCEPT !.head = left] : left \in {None, Invalid}}
    /\ UNCHANGED <<inputs, finding, verdict, pocs, package, markers, stageState, phase, at,
                   errors, settings, outcome, madeAt, patchy>>
\* cleanup_poc_worktree has returned, whatever it achieved; failed if a task failed.
FinishAudit ==
    /\ phase = "clean"
    /\ phase' = "ended" /\ outcome' = IF errors = {} THEN "done" ELSE "failed"
    /\ worktree' = IF worktree.removal = "running" THEN [worktree EXCEPT !.removal = "no"]
                   ELSE worktree
    /\ UNCHANGED <<inputs, finding, verdict, pocs, package, markers, stageState, at, errors,
                   settings, madeAt, patchy>>
Orphaned ==
    IF worktree.removal = "running" THEN [worktree EXCEPT !.removal = "orphan"] ELSE worktree

-----------------------------------------------------------------------------
(* Failures *)

\* An agent of a parallel stage raises.
TaskFails(t) ==
    /\ at[t] \in Busy /\ t # Decomposition
    /\ Settle(t, "rejected")
    /\ UNCHANGED <<disk, stageState, phase, settings, outcome, madeAt, patchy>>
\* The pull fails, an agent of Stage 1 or 2 raises, or Stage 5 may not execute here.
StageFails ==
    /\ \/ phase \in {"setup", "research", "decompose"}
       \/ phase = "reproduce" /\ using = "unset" /\ Selected # {}
    /\ EndWith("failed")
    /\ UNCHANGED <<disk, errors, settings, madeAt, patchy>>
\* The job is stopped: CancelledError passes through the stage.
Stop ==
    /\ phase \in Stages
    /\ EndWith("cancelled")
    /\ UNCHANGED <<disk, errors, settings, madeAt, patchy>>
\* Stopped while the worktree is removed: the record of Stage 6 stays.  Without one
\* nothing is awaited there.
StopCleaning ==
    /\ phase = "clean" /\ using = "yes"
    /\ phase' = "ended" /\ outcome' = "cancelled" /\ worktree' = Orphaned
    /\ UNCHANGED <<inputs, finding, verdict, pocs, package, markers, stageState, at, errors,
                   settings, madeAt, patchy>>
\* The process dies: what is in files stays, but for a directory that an export has moved
\* aside and not replaced yet.
Exporting(stage) == {f \in Findings : sandbox /\ at[<<stage, f>>] = "agent"}
Crash ==
    /\ phase \in Stages \cup {"clean"}
    /\ \E moved, movedFp \in SUBSET Exporting("reproduce"), packed \in SUBSET Exporting("disclose") :
          /\ poc' = [f \in Findings |-> IF f \in moved THEN "none" ELSE poc[f]]
          /\ fp' = fp \ movedFp
          /\ package' = [f \in Findings |-> IF f \in packed THEN "none" ELSE package[f]]
    /\ worktree' = Orphaned
    /\ phase' = "down" /\ at' = [t \in Tasks |-> "idle"] /\ errors' = {} /\ using' = "unset"
    /\ UNCHANGED <<inputs, finding, verdict, markers, stageState, sandbox, attempts, outcome,
                   madeAt, patchy>>

Next ==
    \/ Start \/ SetUp \/ KeepResearch \/ DoResearch \/ KeepUnits \/ Decompose \/ Decomposed
    \/ \E u \in Units : KeepFindings(u) \/ SearchUnit(u) \/ AgentFinds(u) \/ Searched(u)
    \/ BeginEvaluation \/ BeginReproduction \/ OpenWorktree \/ BeginDisclosure
    \/ CompleteDisclosure \/ RemoveWorktree \/ FinishAudit
    \/ \E f \in Findings :
          \/ KeepVerdict(f) \/ EvaluateFinding(f) \/ Evaluated(f)
          \/ KeepReproduction(f) \/ Reproduce(f) \/ AgentReproduces(f) \/ Reproduced(f)
          \/ ExportReproduction(f) \/ ReproducedInSandbox(f)
          \/ KeepDisclosure(f) \/ RefuseDisclosure(f) \/ Disclose(f) \/ AgentDiscloses(f)
          \/ Disclosed(f) \/ ExportDisclosure(f) \/ DisclosedInSandbox(f)
    \/ \E t \in Tasks : TaskFails(t)
    \/ StageFails \/ Stop \/ StopCleaning \/ Crash

Spec == Init /\ [][Next]_vars

-----------------------------------------------------------------------------
(* Properties *)

TypeOK ==
    /\ head \in Commits /\ research \in Contents /\ units \in Contents
    /\ finding \in [Findings -> Contents]
    /\ verdict \in [Findings -> [of : Writers \cup {None},
                                 is : {"open", "pending", "refused", "final"}]]
    /\ poc \in [Findings -> {"none", "partial", "failed", "unknown", "reproduced"}]
    /\ fp \subseteq Findings
    /\ package \in [Findings -> {"none", "invalid", "ready", "draft"}]
    /\ markers \subseteq Tasks
    /\ stageState \in [Stages -> {"pending", "running", "done", "failed"}]
    /\ worktree \in [head : Commits \cup {None, Invalid}, removal : {"no", "running", "orphan"}]
    /\ phase \in Stages \cup {"down", "clean", "ended"}
    /\ at \in [Tasks -> Busy \cup Over \cup {"waiting"}]
    /\ errors \subseteq Tasks
    /\ using \in {"unset", "yes", "no"} /\ sandbox \in BOOLEAN
    /\ attempts \in 0..MaxAttempts
    /\ outcome \in {"none", "done", "failed", "cancelled"}
    /\ madeAt \subseteq Commits
    /\ patchy \in [Units -> SUBSET {"unmarked", "reopened"}]

\* Stage 4 has evaluated what Stage 3 found and not an earlier text under the same file
\* name, however often the audit was cut short and started again.  The markers of Stage 4
\* hide a new text in two ways: the unit stayed unmarked for one invalid file while its
\* others went on, and was searched again (stage3.py:107-121); or it was marked, had an
\* invalid file all the same, lost all its files and was searched again (stage3.py:58-66).
EvaluatedAsFound ==
    \A f \in Findings :
        verdict[f].is # "open" /\ finding[f] \in Writers /\ finding[f] # verdict[f].of
            => patchy[UnitOf[f]] # {}

\* A task is only passed over as complete for good: when the audit is done without an
\* error, every unit was searched to the end or had a file removed, every selected
\* vulnerability has its result (a local agent may leave no report at all), and every
\* package that was asked for is valid and says what the policy of the target demands.
DoneMeansSettled ==
    outcome = "done" /\ phase = "ended" =>
        /\ \A u \in Units : <<"search", u>> \in markers \/ "unmarked" \in patchy[u]
        /\ \A f \in Selected : \/ <<"reproduce", f>> \in markers /\ ReportOf(f) # "none"
                               \/ ~sandbox /\ ReportOf(f) = "none"
        /\ \A f \in Findings : at[<<"disclose", f>>] # "idle" =>
               /\ <<"disclose", f>> \in markers
               /\ Valid(package[f]) /\ Enforced(package[f]) = package[f]

\* Whatever attempt it dates from, a package recorded complete is of a vulnerability
\* recorded reproduced, with the report in place.  And evidence is of the commit under
\* audit: a worktree its agents work in is at that commit, whatever an earlier attempt or
\* a failed removal left there, unless a git that a stopped or dead attempt started to
\* remove it is still at it.
DisclosureHasEvidence ==
    /\ \A f \in Findings : <<"disclose", f>> \in markers =>
           <<"reproduce", f>> \in markers /\ poc[f] = "reproduced" /\ verdict[f].is = "final"
    /\ phase \in {"reproduce", "disclose"} /\ using = "yes" =>
           worktree.head = head \/ worktree.removal = "orphan"

\* The record of Stage 6 is never left over from an earlier attempt: done, the attempt
\* started last has gone through all stages and no package is being made.  It may yet be
\* stopped, or die, while it removes its worktree.
LastStageIsOfThisAttempt ==
    stageState["disclose"] = "done" =>
        /\ phase \notin Stages /\ AllOver(Disclosure(Findings))
        /\ \A s \in Stages : stageState[s] = "done"

\* "The same repository commit reuses its output directory and resumes from
\* checkpoints" (README.md): what an audit reuses was made of the commit it audits.
ReusedResultsAreOfTheCommit == outcome = "done" => madeAt \subseteq {head}
=============================================================================
