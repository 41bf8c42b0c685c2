# CodeAuditor: specifications, model checking and proofs

TLA+ models of CodeAuditor, the audit pipeline and Web application of this
repository, the TLC configurations that check them, and theorems about them
that TLAPS proves. Every definition is translated from `src/code_auditor`;
`PROJECT.json` maps each to its lines.

Run, in this directory:

    tlc -workers 2 -config MCJobManager_atomic.cfg MCJobManager   # a run
    tlapm JobManagerProofs.tla                                    # the proofs

## 1. The system

CodeAuditor audits a source checkout in seven stages (0 setup, 1 security
context, 2 decomposition into analysis units, 3 bug discovery, 4 evaluation,
5 reproduction, 6 disclosure). Each stage hands prompts to an external coding
agent, validates the files it leaves, repairs them a bounded number of times and
writes completion markers, so that a later audit of the same commit goes on from
the files. A Web worker runs audits and retests as asyncio tasks, keeps their
History in SQLite, and streams progress to browsers.

| Component | State | Operations | Interacts with | Hard about it |
|---|---|---|---|---|
| Job manager (`web/job.py`) | `AuditJob` objects, registry by key, asyncio tasks, results still to be written | start, resume, restore, reproduce, stop, reconcile, retry, prune, shutdown, recover | History store, event bus, orchestrator, Web handlers | handlers in pool threads interleave with the loop; crash and restart; failing writes; cancellation |
| History store (`db.py`) | SQLite tables: runs, reproductions, disclosures, artifacts | create, finish, cancel, resume, import of artifacts, trash and purge | job manager, routes | transactions of several callers; work after commit |
| Web server (`web/server.py`) | none of its own (manager, settings) | lifespan, routes, SSE streams, draft application | everything | `def` handlers run in threads; start-up and shutdown order |
| Event bus (`web/progress.py`) | replay buffer, numbering, bounded queues | publish, subscribe, deliver, get | jobs publish, streams read | deferred delivery, overflow, reconnection |
| Orchestrator (`orchestrator.py`, `stage_*.py`, `checkpoint.py`, `utils.py`) | markers, stage state, task errors | stage sequence, parallel workers, validation and repair | stages, agent | resume after interruption; partial failure |
| Stage 4 (`stages/stage4.py`, `semantic_dedupe.py`) | pending, duplicate and final files, markers | evaluate, deduplicate, number, finalise | stages 3 and 5, store | crash between file operations; several attempts |
| Stages 1-3, 5, 6 | output files, markers | one agent task per unit or finding | agent, sandbox | as above; reproduction in shared worktree or container |
| Agent runner (`agent.py`, `agent_runtime.py`) | child process, logs | run with retries, semantic timeout, cancellation | stages | timeout racing completion, clean-up under cancellation |
| Checkouts (`repos.py`) | clones | clone, pull, pin | job manager, stage 0 | lock per directory, timeout and shallow retry |
| Disclosures (`db.py`, `disclosures.py`) | rows per project and dedupe key, revisions, trash | synchronise, review, trash, restore, purge, mark disclosed, apply draft | store, files | files and rows without a common transaction; expiry racing restore and synchronisation |
| Sandbox (`sandbox.py`) | containers, records | launch, inspect, clean up | stages 5, 6 | clean-up after failure |
| Retention (`retention.py`) | runs' output trees | select, delete | store, files | deletion racing use |
| Settings and secrets | settings file, key file | load, replace | server | atomic replacement |
| Trajectory (`trajectory.py`) | run and child documents | begin, append, finish, resume | stages, agent | concurrent children |

What makes each correct: the job manager must never have two tasks work in one
checkout, must respect its limit, and its rows must agree with its tasks through
stops, failures, crashes and restarts. The event bus may drop events but not the
newest state of a job. Stage 4 must neither lose nor report twice a finding that
was confirmed, in whatever attempt, nor change an identifier. The pipeline must
be resumable from any point. Disclosure revisions must survive a failing step.

## 2. Modules

| Module | Models | Status |
|---|---|---|
| `JobManager`, `MCJobManager` | job manager, run and reproduction rows, worker life cycle | done |
| `JobManagerProofs` | theorems about `JobManager` | types, checkout exclusion, concurrency limit |
| `JobRecordProofs` | the same, continued: jobs, results and rows | every other safety property but the violated one |
| `FindingLedger` | what Stage 4 promises of findings (abstract) | done |
| `Stage4`, `MCStage4` | Stage 4 at the level of files; implements `FindingLedger` | done |
| `Stage4Proofs` | theorems about `Stage4` | every property but liveness; the refinement, step by step |
| `EventBus`, `MCEventBus` | event bus, bounded queue, SSE streams | done |
| `EventBusProofs` | theorems about `EventBus` | every property but liveness |
| `AgentPool`, `MCAgentPool` | parallel units of Stage 3, their agent calls, the Stop of a job | done, for agents without a container |
| `AgentPoolProofs` | theorems about `AgentPool` | every property but liveness and the violated one |
| `AuditPipeline`, `MCAuditPipeline` | the seven stages over several attempts on one output directory | done |
| `AuditPipelineProofs` | theorems about `AuditPipeline` | every property but the violated one |
| `TrajectoryDocument` | the recorder of one agent task | done |
| `RunTrajectory` | the run document, index of the others | done |
| `Sandbox` | a Docker scratch, its supervisors, records and containers | done |
| `DisclosureStore` | catalogue, trash, purge, application of drafts | without review statuses and CVE links |
| `DisclosureStoreProofs` | theorems about `DisclosureStore` | types, linked evidence, originals |
| `System`, `MCSystem` | the five components from `AuditPipeline` on, side by side; on small instances in one run | done |
| `SystemProofs` | theorems about `Sandbox`, `RunTrajectory`, `TrajectoryDocument` and about `System` | every property |

The modules do not share variables. `JobManager` sees an audit as a task that ends
at some time or when cancelled; `AuditPipeline` shows that task from its start to
its end, over all attempts, with what it leaves on disk; `AgentPool` shows what
happens inside it during Stage 3, await by await, and `Stage4` during Stage 4, at
the level of files. `TrajectoryDocument` and `Sandbox` are what surrounds one
agent call, `DisclosureStore` what becomes of the results.

### JobManager

`phase` is the worker process; `row` and `repro` the database rows, which survive
it; `job` the `AuditJob` objects with their asyncio task as a program counter
(`task`), `registered` the registry `_jobs`. `loop` names the job whose
synchronous stretch of event-loop code has been left half way and `pool` what a
thread-pool handler is in the middle of: the deployed server runs `def` handlers
(`stop`, status, job list) in threads, so they can run between two statements of
loop code (`Preempt = TRUE`); the class comment of `AuditJobManager` assumes that
handlers interleave with the loop at its awaits only (`Preempt = FALSE`). One
action per operation: `StartAudit`, `ResumeClone`, `ResumeRestore`,
`StartReproduction` include the survey (reconcile, retry of results, prune), the
conflict check, the write of the row and the registration; `Launch` creates the
task; `EnterCoroutine`, `Restored`, `RestoreEnds`, `BodyEnds`, `RecordRun`,
`RecordReproduction`, `WorktreeRemoved` are its steps; `Stop`, `PoolLooks`,
`PoolReconciles`, `PoolWrites`, `PoolChoosesToPrune`, `PoolPrunes` the handlers;
`BeginShutdown`, `ShutdownTimesOut`, `Exit`, `Crash`, `Boot`, `SkipResume`,
`Serve` the worker. `Faulty` lists the database writes that may raise.

A Stop can be lost. While `run_agent` waits for an agent it has killed,
`except asyncio.CancelledError: pass` (agent.py:232) takes a cancellation of the job
for that of the agent. Where the job's own task awaits `run_agent` (Stage 1, stage1.py:70;
Stage 2, stage2.py:58 and 138; the semantic deduplication of Stages 4 and 6,
semantic_dedupe.py:195 and stage6.py:449; the review of a retest,
reproduction_review.py:224) the audit then runs on to whatever end it comes to, and a
second Stop is refused, for the job is cancelling already (job.py:732). That is
`SwallowStop`. In the parallel stages the job's task awaits `gather`, which remembers the
cancellation, so that the job ends although a unit may not (module `AgentPool`).

Git commands, agents and files of a restoration or retest are reduced to their
outcome. Retry back-off and retention time are nondeterminism.

### Stage4 and FindingLedger

`Stage4` has one variable per kind of file (`markers`, `pending`, `duplicates`,
`final`) and one per part of the function's memory, which `Crash` throws away.
`Start` is the backfill of markers; `Skip`, `Evaluate`, `AgentWrites`,
`AgentReturns`, `AgentFails` the parallel workers; `SemanticDedupe` and `Divert`
the semantic pass; `ReadFinal`, `Unlink`, `MoveToFinal`, `Rewrite`, `Finish` the
numbering. A `Rewrite` takes two steps (truncate, write). `Crash` stands for the
death of the worker, a stop at an await, and a failing file operation.
`FindingLedger` keeps one entry per finding: open, confirmed, closed, or reported
under a name. `Entry` maps files to entries; `Start` may confirm several findings
at once (a resumed audit recognises pending files), hence `Confirm(F)`.

### EventBus

`Publish` numbers, buffers and schedules an event; `Deliver` is the scheduled
callback, `Put` the overflow rule, stated as what it leaves in the queue and what it
gives up. `Connect` (`Backlog` and subscription, which
have no await between them), `Replay`, `Take`, `Wake`, `Disconnect` are the
stream. `got` records what the client has received over all its connections, and
the last of it is the `Last-Event-ID` of the next one; `lost` records what full
queues gave up. Publication from a pool thread is left out (see the hazards).

### AgentPool

`gather` is the future the job's task awaits; `unit[u]` holds what the asyncio task
of a unit is doing (`work`), what the task of its agent is doing (`agent`), whether
a CancelledError is on its way to the one (`due`) or the other (`stop`), the kind and
status of the call, and its result. `Enter`, `CancelQueued`, `JobEnds` are
`run_parallel_limited`; `AgentWrites`, `AgentSucceeds`, `AgentFails`, `Retry`,
`AgentCancelled` the SDK under `_run_with_retries`; `Collect`, `TimeOut`, `Verdict`,
`CheckerFails`, `KillTimesOut`, `KillReturns`, `CancelCall`, `Unwound` are
`_await_agent_with_semantic_timeout`, one action per await; `Recorded` and
`CleanedUp` the end of `run_agent`; `AfterCall` what `_run_unit` makes of a call
(validation, one repair, marker). asyncio is modelled from how it is used, with the
semantics of Python 3.12, which `pyproject.toml` asks for: `wait_for` runs in the
caller's task and passes its cancellation on, `gather` fails with the first
cancelled child and does not wait for the rest.

A unit has one finding file, and so at most one repair. The clean-up of processes is
one step that ends: its waits are bounded, and survivors are only logged. Stage 3
agents run without a container, so a failing container removal belongs to `Sandbox`.
`deaf` records that a Stop has been lost: `except asyncio.CancelledError: pass`
(agent.py:232) cannot tell the end of the killed agent from a cancellation of the
unit itself, and `AuditJob.stop` cancels once. The unit then goes on to its
validation and, if need be, a repair. To the job itself the Stop is not lost here, for
in Stage 3 it awaits `gather`, which remembers it; where it awaits `run_agent` directly
it is, see `JobManager`. `StopStartsNothing` and `CompletionIsEarned` state what holds
apart from that.

### AuditPipeline

The variables before `phase` are files and the checkout, which survive; `at[t]` is what the
worker of task `t` does (`waiting`, `mend`, `agent`, `repair`) or how it ended. A
file holds the number of the attempt that wrote it, `Invalid`, or `None`, which is
all that resumption can confuse; 0 is an attempt of an earlier version of the
program, whose directory promises more than it holds, or has been damaged since:
markers may vouch for files that are missing or invalid, findings included
(`Inherited`). For each task
of Stages 3, 4, 5 and 6 there are a checkpoint hit (`KeepFindings`, `KeepVerdict`,
`KeepReproduction`, `KeepDisclosure`, `RefuseDisclosure`), the start of an agent
(`SearchUnit`, `EvaluateFinding`, `Reproduce`, `Disclose`), what agents do to the
files meanwhile (`AgentFinds`, `AgentReproduces`, `AgentDiscloses`) and the end of
the call (`Searched`, `Evaluated`, `Reproduced`, `Disclosed`, and the variants that
export from a sandbox: `ExportReproduction` and `ExportDisclosure` put the results in
place, `ReproducedInSandbox` and `DisclosedInSandbox` mark them once the scratch is
closed; an export that is rejected leaves what was there). The end of an audit is
`CompleteDisclosure`, which records Stage 6 and hands the worktree to git,
`RemoveWorktree`, which removes all or a part of it, and `FinishAudit` or, when a Stop
arrives meanwhile, `StopCleaning`. Nothing kills a git whose audit has been stopped or
has died: it stays behind as an `orphan` and may take the worktree from a later attempt.
`TaskFails`, `StageFails`, `Stop` and `Crash` come anywhere; a `Crash` may fall between
the two renames of an export, and then the directory that was moved aside is gone.
Stage 4's finalisation is one step of `BeginReproduction` here. The history
variables `madeAt` and `patchy` say at which commits results were made and how the
findings of a unit may have parted from their verdicts: it was left unmarked while some
of them went on, or it was marked and yet had to be searched again.

### TrajectoryDocument and RunTrajectory

A step keeps who speaks, the tool calls it declares, results and tokens. `Open`,
`Retry`, `Close` are the life of a recorder under `run_agent`, the others the
callbacks of the two back ends. `counter` is what the provider has charged in the
running call: Codex reports it cumulatively and repeats itself, Claude once per
call. `seen` is the count the recorder compares it with, which survives a `Retry`; a
report may come by itself (`CodexUsage`) or with the end of a turn (`TurnCompleted`).

`RunTrajectory` keeps of a document only the session it belongs to. `root` is
lost by a `Crash`; the next `Begin` may be of another run, and may or may not take up
the written run document (`config.resume`, or a document that does not load). `Missing`
and `Published` are the backfill with its limits: documents in `Heavy` are above 16 MiB
or cannot be read, and it gives up at `MaxBackfill` documents (2000 in the code). A
`Finish` may fail to write. Agents that a Stop has not ended outlive the audit (`late`)
and write their documents when there is no run document to register with. `Purge`, then
`PruneReads`, `PruneWrites` or `PruneFails` are the purge of `DisclosureStore` as the
index sees it: a read and a write in a thread, beside whatever audits do.

### Sandbox

A supervisor goes through `Launch`, `RequestCreate`, `Created`, `Attach`, then
`Exited`, `Fails` or `Interrupted`, then `RemoveOwn` and `Supervised`; `Killed` may
come at any of them. `DaemonAnswers` creates what was requested even if nobody
waits for it. `End`, `ProcessesCleaned`, `Sweep`, `Ended` are the end of an
invocation, `Leave`, `SweepAll`, `Closed`, `CloseCancelled` that of the scratch. A
`Sweep` is one listing and one removal; between two of them anything may happen. The
write of a record may raise where an invocation or a scratch ends; the execution is
then `unwritten`, and its record says what it said before.

### DisclosureStore

`bugs` is table `disclosed_bugs` with the places (report and package directories) a
row links to; `reports`, `packages`, `revisions` the tree. `Scan` and `Persist` are
the two halves of `persist_artifacts`. A purge takes the write lock in `BeginPurge`,
which renames, and gives it up in `AbortPurge` or `CommitPurge`; every other write
waits (`Unlocked`), file operations do not. `BeginApply`, `MoveOld`, `Install`,
`MarkApplied`, `FailApply` are one request that applies a draft. What undoes a step may
fail as well: `AbortPurge` renames back some of what the purge took, the rest is only
logged (db.py:1444-1449, 1518-1523), and `RollBack` may stop after its `rmtree`, or in
the middle of it, which leaves `Remains` (server.py:1187-1190). `Crash` loses the
purge, the scan and the requests, not what they had renamed.

### System and MCSystem

These five share no state in the models, so that exploring their product would
show nothing more; `System` puts them beside each other and lets a behaviour be of
one of them (`explored`), the others staying as they started. It states the properties
of the whole and knows no bounds; its theorems are about any instance. `MCSystem`
adds what keeps TLC's instance small: `DisclosureStore` is explored twice, for two
audits that share a directory or an identity with one request at a time, and for one
audit with two requests at once.

## 3. Runs

| Run | Bounds | Shows |
|---|---|---|
| `atomic` | 2 runs, 2 checkouts, 2 job slots, 1 exit or crash, failing result writes | types; exclusion; running rows have an owner; audits at work have a running row; job list and History agree; completion is final; results are not dropped; interrupted audits stay resumable |
| `live` | limit 1, 2 slots, 1 run, retests on 2 checkouts, 1 exit or crash, failing row writes, 1 slot whose task ignores cancellation | never two tasks at work; a stopped task ends unless its work takes the Stop for an agent's; a shutdown ends |
| `twojobs` (violated) | pool threads preempt the loop | two jobs in one checkout |
| `autoresume` (violated) | one exit or crash | an interrupted job that start-up does not resume |
| `stage4_attempts` | 3 findings, 2 of one key, 2 interruptions anywhere, 2 agents at a time | no duplicate reports, stable identifiers, nothing left behind, only valid documents, confirmed findings settled, refinement of `FindingLedger` until a rewrite is cut short |
| `stage4_overwrite` (violated) | interrupted between move and rewrite | a confirmed finding is overwritten |
| `bus_stream` | 4 events, queue of 2, buffer of 3, 2 connections | newest job state never lost, and arrives; no gaps after reconnection; no lost wake-up |
| `bus_twice` (violated) | 2 clients, 3 events | one event from the backlog and from the queue |
| `pool_calls` | 2 units side by side, 2 tries, one SDK that turns cancellations into errors, any leftovers | no agent outlives its call; markers and results only for what was left to finish and validates; a Stop starts nothing and ends every unit |
| `pool_stop` (violated) | 2 units, 1 try | a stopped job ends while an agent of it is still at work |
| `pipeline_pull` (violated) | 2 findings, 2 commits, 2 attempts | results of one commit taken for another's |
| `system`: pipeline | 1 unit, 2 findings of which one is severe, 2 commits, 2 attempts, 2 agents at a time, fresh or inherited and damaged directory, with or without sandbox | evaluations are of the findings there are; done means nothing open; no disclosure without a reproduction; Stage 6's record is of this attempt |
| `system`: document | 1 tool call, 5 steps, 2 tokens per call, 3 in all | valid and exact records over retries and continued documents |
| `system`: index | 3 tasks, one with a document too large to read, backfill of 1, 2 runs, 3 invocations, 1 purge at a time | every document within the limits referred to once, every attempt that was written counted once |
| `system`: container | 2 invocations, 2 executions, record writes that fail | exact clean-up |
| `system`: catalogue, drafts | 2 runs, 1 directory, 2 identities, 1 reproduction, 1 request; 1 run, 2 requests | linked files exist; originals are kept |

Why the bounds are enough: the conflicts of the job manager are between two jobs
(two slots; two runs of the same or of different checkouts), and a crash matters
once per state, the state after it being a start state. Stage 4 needs two
findings that collide and one that does not, and two interruptions for an attempt
that meets the leftovers of an attempt that met leftovers. The queue rules
distinguish three kinds of events and whether the queue is full, which a queue of
two shows; a queue of one does not keep the newest transition (an alert displaces
it), and the code's is 500.

Two units of the pool are enough for one to end while the other works (with one
place a unit may also wait; `Units` may outnumber `MaxParallel` in the proofs), two
tries for a retry and for the last attempt; the code has three.

Two attempts let each file be written by an earlier version, a first and a second
attempt; two findings in one unit are what one invalid file beside a valid one
needs. One of them is severe, which keeps the run in bounds: Stages 5 and 6 share
nothing between vulnerabilities but the places for agents (`pipeline_pull` has two).
The trajectory's five steps hold a prompt, a turn, a continuation and
two more; two runs of `RunTrajectory` are one that crashes or cannot write and one that
continues, and with a backfill of one document a second missing one is beyond the limit,
while a third is too large. Two executions are a retry, or a status check, beside the
call they concern. Two rows on one directory suffice for a purge of one to hurt the
other, and the scan of one synchronisation at a time (`scan`) for it to be stale.

`MCInit` and `MCNext` narrow the instance further where the product of choices would
not fit, each time in one of two dimensions that the rest explores together. Of the
inherited directories those are kept in which the records of Stages 1 and 2 agree, or
the file of one finding is invalid; a new audit without a sandbox writes the other
finding validly in its first attempt and finds the target moved only when it is resumed
(with a sandbox, or from an inherited directory, both are open). `catalogue` has one
request, two audits on one directory and the identity of either; `drafts` has one audit
that synchronises, and an undo that fails and a crash each with either the purge or a
request under way. At the end of an invocation the record of `e1` may be impossible to
write, at the end of the scratch all or none. The theorems have none of these bounds.

`CHECK_DEADLOCK FALSE` is set for the event bus, where nothing is left to do when the
bounded number of events has been published and read, for the pool, which ends
with its job, and for the system and the pipeline, whose attempts are bounded.

### What holds only under an assumption

With `Preempt = TRUE` most of the `atomic` properties fail, for the reason
`twojobs` shows and for the like of it: `reconcile` in a thread may cancel a job
that has just ended (`job.py:673-679`), and a retry may write a stale result over
a resumed row (`job.py:965-990`). One run states the disagreement; the others are
checked, and proved, under the assumption the code's comment makes.

### Exceptions the code makes

A property of the `system` run that does not hold without qualification says so in
its formula, and TLC finds a counterexample when the exception is dropped:

- `EvaluatedAsFound`, in two ways (`patchy`). Stage 3 leaves a unit unmarked when one
  of its files stays invalid, although its other findings go on (stage3.py:107-121); and
  of a unit that is marked it deletes all files when one of them is invalid
  (stage3.py:58-66). Either way the unit is searched again, new findings come under the
  same names, and the markers of Stage 4 (stage4.py:132-135) hide them: a verdict of
  another text stands.
- `DoneMeansSettled`: a unit one of whose files was removed counts as searched; a local
  agent that leaves no report at all is taken for a result.
- `DisclosureHasEvidence`: a git that removes the worktree goes on when its audit is
  stopped or dies, and may take the worktree from the next attempt (`orphan`).
- `LastStageIsOfThisAttempt` says that Stage 6 is recorded done only of the attempt
  started last, with all stages behind it. It does not say how that attempt ended: a
  Stop or a crash during the removal of the worktree leaves the record, and then the
  worktree or a part of it may be left too.
- `RecordIsFaithful`, in four. A usage report in a call that produced no step replaces
  figures of an earlier one (`early`). Three lose tokens (`late`): a report after the
  first turn of an invocation replaces that turn's figures; a call that is made again
  and whose first report has reached the total kept of the call before
  (trajectory.py:1394-1405) is charged the difference only, so that 5 and then 7 are
  recorded as 7 of 12; and what is owed when the invocation ends is dropped. A retried
  call that starts lower is recorded exactly.
- `IndexIsComplete`: documents above 16 MiB or unreadable (`Heavy`), and any once the
  backfill has reached its limit (`added`), are left out; usage of an attempt that
  crashed or could not write is not counted; an agent that outlives its audit writes a
  document nothing refers to before the next backfill. A purge beside an audit leaves
  references without documents, and takes back what the audit wrote between its read and
  its write (`pruned`).
- `CleanupIsExact`: when the clean-up of host processes raises, which is logged, a
  supervisor may create a container behind the sweep (`unkilled`). A record the host
  could not write stays open (`unwritten`). Cancelled a second time while it closes,
  `docker_scratch` leaves trees and pending records, but never a record that says
  verified of a running container.
- `LinkedEvidenceExists`: a crash between renames and commit, or between the two
  renames of an application, leaves a row without its files, and so does, with no crash
  at all, an undo that fails: the rename back of a purge, the removal or the rename
  back of an application (`lost`). The files are there under another name, or in part,
  and nothing puts them back.
- `OriginalKept`: two applications at once on one directory (`overlap`). The one that
  fails removes the active package, whoever installed it: two that fail can destroy
  the original, and one that fails after the other was recorded leaves the old files
  under an applied record.

Seen while modelling, and not covered by a model: the renamed directory of a purge
(`.V-01.purge-...`) matches the glob of `scan_output_dir`; `update_disclosed_entry`
and `import_cve` read the review status before their transaction takes the write
lock; revisions survive a permanent purge of their row.

### Findings

Besides those of the other runs, `pipeline_pull`: the output directory is named
after HEAD before the audit, then Stage 0 pulls, and the audit goes on at another
commit with the results and markers of the first.

## 4. Fairness

`JobManager`: a synchronous stretch of loop code ends (WF); the ready queue of
the loop is FIFO, so a task ready again and again is run (SF); a task asked to
stop gets its CancelledError, for as long as the Stop is due: the loop does not choose
between that and `SwallowStop`, which the model may always take first, so that
`StopCompletes` promises an end or a lost Stop, and an end without reservation only of a
job that has yet to start or restores its checkout. The timer of a shutdown goes off. An
audit need not end by itself, nobody has to poll. Only the jobs of `Obedient` are assumed to end
when cancelled: a shutdown must end without that. `Stage4`: an interrupted audit is taken up
again (the auto-resume of the Web worker), agent calls return (they are bounded
in turns and time). `EventBus`: the loop runs callbacks, a connected client
reads. `AgentPool`: the loop runs what is ready, a CancelledError is delivered, the
timer of a repair goes off. Nothing makes an agent end by itself, and a rude SDK
(`Rude`) may answer a cancellation with an error and a retry for ever, which is why
`StopEndsUnits` excludes it.

## 5. Proofs

Every invariant of every passing run is stated by a theorem, and so is every action
property; `tlapm` checks each proof to its leaves. A theorem speaks of all values of the
constants that the assumptions admit, with no bound on crashes, attempts or steps other
than the constants themselves. Each rests on an inductive invariant that is stronger
than the properties, and that TLC checked before it was proved. Of a proof with the
shape Init, step, consequence the step has one lemma per action.

| Module | Assumes | Proves of the specification | Inductive invariant |
|---|---|---|---|
| `JobManagerProofs` | the last two: `Preempt = FALSE` | `TypeOK`, `OneJobPerCheckout`, `ConcurrencyLimit` | `ExclusionInv` |
| `JobRecordProofs` | `Preempt = FALSE` | `RunningRowHasOwner`, `WorkingAuditHasRunningRow`, `ReportedIsRecorded`, `CompletionIsFinal`, `ResultNotDropped`, `InterruptedIsResumable` | `RecordInv` |
| `AgentPoolProofs` | | `TypeOK`, `NoAgentLeaks`, `FulfilledIsValid`, `CompletionIsEarned`, `StopStartsNothing` | `PoolInv` |
| `Stage4Proofs` | | `TypeOK`, `BatchIsValid`, `FinalKeysUnique`, `ConfirmedAreFinal`, `IdentityStable`, `KeepsLedger` | `Inv`, with `LedgerInv` for the refinement |
| `EventBusProofs` | the last: `MaxQueue >= 2` | `TypeOK`, `NoLostWakeup`, `NothingSkipped`, `JobEventsLeaveLast`, `NewestJobEventKept` | `Inv` |
| `DisclosureStoreProofs` | `NoneIsNew` | `TypeOK`, `LinkedEvidenceExists`, `OriginalKept` | `LinkInv`, `KeepInv` |
| `AuditPipelineProofs` | `PipelineAssumption` | `TypeOK`, `EvaluatedAsFound`, `DoneMeansSettled`, `DisclosureHasEvidence`, `LastStageIsOfThisAttempt` | `PipeInv` |
| `SystemProofs` | `InstancesAreMeant` | these of `AuditPipeline` for the system; `RecordIsFaithful`, `IndexIsComplete`, `CleanupIsExact`, `AllTyped` | `ContainerInv`, `IndexInv`, `DocumentInv` |

The assumptions on constants say no more than what sort of thing each is: a bound is a
natural number, a set that is counted is finite, a value that marks absence is not
itself a value. They are named, and TLC evaluates them in the runs. Two hypotheses say
something about the program. `Preempt = FALSE` is the comment of `AuditJobManager`;
`twojobs` is what happens without it. `MaxQueue >= 2`: with one place an alert
displaces the newest transition; the code has 500.

### Jobs

`OneJobPerCheckout` and `ConcurrencyLimit` are not inductive, for the conflict check
looks at registered busy jobs while the properties speak of tasks. `ExclusionInv` closes
the gap: every task at work belongs to a registered busy job whose claim is not
orphaned (`TasksRegistered`), claims on one checkout exclude each other
(`ClaimsDisjoint`) and are at most `MaxConcurrent` (`ClaimsBounded`), a job left
in the middle of a loop section is registered (`LaunchedIsRegistered`), at most
one such section or pool call is open (`SectionsExclusive`), keys are unique
(`KeysUnique`), a prune has an ended job in hand (`PrunesEnded`), a running job
with a run exists (`RunsExist`), and a worker that is down has no jobs
(`DownIsEmpty`).

`RecordInv` adds what relates a job to its row. While the worker serves (`Serving`) the
row of a registered job says running, or is what the job has yet to write, or what it
reports (`RowAgrees`), and a running row has a registered owner that is busy or has its
result to write (`Owned`): a row is orphaned neither by a failed write, which stays
`pending`, nor by a prune, which takes no job with a result. While it shuts down
(`Stopping`) every task at work has been cancelled and its run noted in `cut`. What is
noted there can be continued (`CutIsContinuable`), because its row is running, which the
next start turns into cancelled, or resumable already; a task that has lost its Stop
(`LostInWork`: only while it is in the work proper) may still complete during a shutdown,
and then nothing was cut short. What a pool thread has read is
still so when it writes (`PoolReadIsCurrent`): this is where `Preempt = FALSE` is used.

### The pool of Stage 3

`PoolInv` says of each unit that an agent at work is
awaited, that a pause leaves tries, that a result comes with the end (so no agent
can spoil a file that has been handed on), that a cancellation has a cause, and that
a Stop is on its way, has taken effect or is recorded as lost. The last two carry
`MarkersAreEarned`, which none of the checked properties would by itself. There is
one lemma per action over records (`OverKeeps`, `DeafenedFacts`, ...) and
one lemma, `OneUnit`, for the frame. `StopsStartNothing` adds `UnwindInv`: the agent
that a cancelled call waits for has its CancelledError on its way, so that it cannot
retry, unless its SDK is rude.

### Stage 4

`FinalKeysUnique` needs more than the final files: keys are unique among what is kept
and what the batch is yet to name (`KeysInv`). `IdentityStable` needs that an identity
goes with a whole document nobody is writing (`FinalInv`), and that the counters are
past every number given (`CountersInv`), which the sizes of finite sets give.
`ConfirmedAreFinal` needs that nothing confirmed is forgotten between its evaluation and
the end (`SettledInv`), hence that what a worker has concluded is what the files say
(`EvaluatedInv`).

`Stage4KeepsLedger` is the refinement: as long as no rewrite was cut short, each step of
the stage is a step of `FindingLedger` or a stutter (lemma per action, theorem
`LedgerStep` over all findings). It needs `LedgerInv`: final files are then numbered
without a gap, so that the next number is free and no higher than the ledger's, and a
finding is dropped only when another stands for it.

### Events

`StreamInv` follows an event through a stream: what is queued is in order and older than
what is still to be delivered (`QueueInv`), a snapshot is replayed in order before
anything else (`ReplayInv`), an open stream has sent, holds, awaits or has given up
everything since its subscription (`ReachInv`), and what the client received leaves no
gap (`GotInv`). Order makes `NewestJobEventKept` true: a queue drops an older transition
before a newer one, and only when it holds nothing else.

### The pipeline

`PipeInv` has one part per kind of result. A unit under search is unmarked, and one that is
through is marked or patchy (`SearchInv`); a verdict is of the text Stage 3 left unless
the unit is patchy, and a finding under evaluation has none that counts (`VerdictInv`); a reproduction that is over has its report in place (`ReportInv`); what
is marked as disclosed, or on its way there, has its evidence (`PackageInv`); a failed
task is an error for good (`OutcomeInv`); an attempt past a stage has walked through all
before it, whose records say done (`WalkedInv`), from which `LastStageIsOfThisAttempt`
follows without a word on the clean-up; and a worktree in use is of the commit under
audit unless an orphaned git is at it, and git is at work only while the audit cleans up
or after it has gone (`WorktreeInv`). Nothing is assumed of the findings an inherited
directory holds, nor of the removal of the worktree. `PackageInv` is where attempts meet: the
evidence of a package an earlier attempt marked complete may be withdrawn by a later one
only together with, or after, its marker.

The proof found a fault of the model: `ReportOf` was written with alternatives that
overlap, of which TLC takes the first and the logic any. It is now decided by cases in
the order the code looks.

### Documents, index, containers

`DocumentInv` says that a document's tokens, with those due to the message that has
them outstanding, are at most what was reported, and exactly that but for the two
exceptions (`Balanced`), in memory and on disk (`FileInv`); that the steps the recorder
remembers are there (`StepsInv`); and that the counter it compares with is the
provider's (`CounterInv`). `Total`, the sum over a document, is a recursive function,
and what it computes is proved for documents of any length: `SumsExist` and `SumsAgree`
(there is one function with the recursion's equations), `TotalIsSum`, `TotalAppend` and
`TotalReplace`. The induction is first-order, by the least number for which a claim
fails (`LeastNumber`, from the library's theorem that the order of the naturals is
well-founded); the library's induction theorems take a predicate and cannot be used.

`IndexInv`: the usage that was written, that of the running audit and its agents at work
are no more than the invocations (`UsageInv`); what a purge has read is a run document
too, and a purge beside an audit has left its mark (`PurgeInv`); a backfill below its
limit has left out nothing it may read (`FiledInv`); and the document on disk and the one
in memory refer to a task at most once and, unless a purge has overwritten one, count what
the attempts that wrote it used (`Accurate`).

`ContainerInv` says of each execution that was launched what the stage of its invocation
allows (`Accounted`): once that is swept no supervisor of it is alive to
create a container behind the sweep (but for `unkilled`), a record says verified only
where a listing found nothing left, and a scratch that is gone leaves no container
running.

Parts carry over to `System` by instantiation: a behaviour of `SysSpec` is one of each
component or leaves it alone.

### Disclosures

What a purge has renamed away must be accounted for
until it commits, which the properties do not say: `LinkInv` adds that a link of a row
being purged may be held by its purge, and only by it (`LinksAreCovered`), that a purge
holds what it listed (`PurgeHoldsPlaces`), and that a request has the old package in
hand exactly after its first rename (`SwapsHoldOld`). `KeepInv` adds, for a directory
on which no two requests met (`Safe`), that one request at most is busy, that a
package that is there is the original or replaced it, and that a request past its
first rename has the original unless it is a revision already. Every crash is covered,
and every undo that fails: what a purge or a request held becomes a member of `lost` or
a revision.

### Only model-checked

Liveness, for fairness and ENABLED are out of the prover's reach: `StopCompletes`, `ShutdownEnds`,
`StopEndsUnits`, `NewestJobEventArrives` and `ConfirmedIsSettled`.
The properties of the runs that are violated have their counterexamples and cannot be
theorems.

## 6. Not modelled, and the plan

- Validators, CVSS, parsing: predicates over single documents, inputs of the models.
- Prompts, agents' answers, logs, layout, command line, browser client, terminal: no
  state, or an agent's choice, which the models leave open.
- Settings and secrets: validated forms and one atomic replacement.
- `repos.py` beyond the pull and the worktree: the clone lock, its timeout and the
  shallow retry.
- `poc_backfill.py`, `review_cleanup.py`: maintenance programs run by hand over
  imported runs; they call the stages that are modelled.
- Review statuses, triage, CVE links, counts and texts of Disclosures.
- Usage columns, schema migrations and queries of the History store;
  `hot_switch_agent_settings`.
- Within a replacement of a directory (`export_retained_artifacts`) the single steps,
  but for a crash between its two renames; hashes and manifests.
- A purge that puts documents back beside an audit: `RunTrajectory` has purges whose
  removal stands and whose pruning fails or does not, `DisclosureStore` those that are
  undone.
- Survivors of a kill that are only logged are those of `unkilled`; several host
  processes of one agent are one supervisor.
- The components of `System` state no fairness: that an audit which is taken up again
  ends is a matter of the agents.

`PROJECT.json` maps the definitions that carry control; helpers a line or two long
are left to their comments.

Next: a model of review statuses with their CVE links, of the clone lock of
`repos.py` with its timeout, and of the background write of usage statistics. Among
what is proved, `Preempt = TRUE` deserves theorems of its own: what still holds of rows
and tasks when handlers preempt the loop.
