----------------------------- MODULE JobManager -----------------------------
(***************************************************************************)
(* The Web job scheduler: AuditJobManager and AuditJob of web/job.py, the  *)
(* History rows they write (runs and reproduction_runs, db.py), and the    *)
(* start-up and shutdown sequence of the Web worker (web/server.py).       *)
(*                                                                         *)
(* Two kinds of threads touch a job.  Its asyncio task, and every handler  *)
(* declared `async def`, run on the event loop: code between two awaits is *)
(* one atomic step as far as the loop is concerned.  The handlers declared *)
(* `def` (audit status, stop, the job list) run in the server's thread     *)
(* pool, so they may run between any two statements of the loop's code.    *)
(* Preempt says whether the model admits that: TRUE is the deployed        *)
(* server, FALSE is what the class comment of AuditJobManager assumes      *)
(* (job.py:1408-1412), handlers that interleave with the loop only at its  *)
(* awaits.                                                                 *)
(***************************************************************************)
EXTENDS Integers, FiniteSets

CONSTANTS
    Runs,           \* audit runs (rows of the runs table) that may exist
    Targets,        \* source checkouts
    TargetOf,       \* the checkout a run audits
    Jobs,           \* slots for AuditJob objects alive at one time
    NoJob, NoRun,   \* model values
    MaxConcurrent,  \* max_concurrent_jobs
    MaxCrashes,     \* bound: how often the worker dies or is restarted
    Preempt,        \* do pool threads run inside the loop's atomic sections?
    Obedient,       \* jobs whose work ends when its task is cancelled
    Faulty          \* database writes that may raise

(***************************************************************************)
(* The database writes whose failure the code handles: creating the row,   *)
(* the UPDATE of finish_run, its persist_artifacts call (after the UPDATE  *)
(* has been committed), and finish_reproduction.                           *)
(***************************************************************************)
Faults == {"create", "finish", "artifacts", "reproduction"}

ASSUME ConstantsAssumption ==
    /\ TargetOf \in [Runs -> Targets]
    /\ NoJob \notin Jobs
    /\ NoRun \notin Runs
    /\ IsFiniteSet(Jobs)
    /\ MaxConcurrent \in Nat \ {0}
    /\ MaxCrashes \in Nat
    /\ Preempt \in BOOLEAN
    /\ Obedient \subseteq Jobs
    /\ Faulty \subseteq Faults

VARIABLES
    phase,          \* life of the worker process
    row,            \* the runs table: survives the worker
    repro,          \* reproduction_runs rows in state running: survives the worker
    job,            \* the AuditJob objects
    registered,     \* AuditJobManager._jobs (the key is Key(j))
    loop,           \* job whose synchronous section of loop code is unfinished
    pool,           \* what a pool thread is in the middle of
    resuming,       \* run ids the start-up sequence has yet to resume
    cut,            \* history: what each run's job was doing when the worker went
    crashes         \* worker exits so far

vars == <<phase, row, repro, job, registered, loop, pool, resuming, cut, crashes>>

-----------------------------------------------------------------------------
(* Data *)

BusyStates == {"restoring", "running"}
Terminal == {"done", "failed", "cancelled"}
JobStates == {"idle"} \cup BusyStates \cup Terminal
\* The coroutine the job runs: _run, _restore_and_run_cancelled until it hands
\* over to _run, or _run_reproduction.
Kinds == {"audit", "restore", "reproduction"}

(***************************************************************************)
(* The asyncio task of a job: not yet created; created, its coroutine not  *)
(* yet entered; restoring the checkout; in the audit (or retest) proper;   *)
(* in the finally block that records the result; removing the retest's     *)
(* worktree; done.                                                         *)
(***************************************************************************)
TaskStates == {"none", "created", "restore", "body", "finish", "cleanup", "done"}
LiveTasks == {"created", "restore", "body"}

(***************************************************************************)
(* The cancellation of a task (Task.cancelling() is that it is not         *)
(* "none"): due, its CancelledError has yet to surface; lost, somebody     *)
(* caught it for his own and the work goes on.                             *)
(***************************************************************************)
Stops == {"none", "due", "lost"}

Results == [status : Terminal, error : BOOLEAN]
NoResult == [status |-> "none", error |-> FALSE]
RowStates == {"absent", "running"} \cup Terminal
Rows == [status : RowStates, error : BOOLEAN]
JobRecords ==
    [kind : Kinds, run : Runs \cup {NoRun}, target : Targets \cup {NoRun},
     state : JobStates, err : BOOLEAN, task : TaskStates, stop : Stops,
     pending : Results \cup {NoResult}]

NewJob(kind, r, t, state) ==
    [kind |-> kind, run |-> r, target |-> t, state |-> state, err |-> FALSE,
     task |-> "none", stop |-> "none", pending |-> NoResult]
NullJob == NewJob("audit", NoRun, NoRun, "idle")

IdlePool == [pc |-> "idle", job |-> NoJob, result |-> NoResult]

-----------------------------------------------------------------------------
(* Predicates of the job objects and of the rows *)

Busy(j) == job[j].state \in BusyStates
\* Faulty variant: a task that has not taken its first step counts as gone.
TaskGoneEarly(j) == job[j].task \in {"none", "created", "done"}
TaskGone(j) == job[j].task \in {"none", "done"}
Working(j) == job[j].task \in LiveTasks
Orphaned(j) == Busy(j) /\ TaskGone(j)
\* task.cancel() unless the task is being cancelled already.
Asked(j) == IF job[j].stop = "none" THEN "due" ELSE job[j].stop
\* Faulty variant: any ended job has its result written again.
UnsavedAny(j) == job[j].state \in Terminal
Unsaved(j) == ~Busy(j) /\ job[j].pending # NoResult
SameKey(i, j) == i = j \/ (job[i].run = job[j].run /\ job[i].run # NoRun)

\* Faulty variant: every audit that is not running can be resumed.
ResumableAny(w) == w.status \in Terminal
\* RUN_CANCELLED, RUN_FAILED, or RUN_DONE with a recorded error.
Resumable(w) == w.status \in {"cancelled", "failed"} \/ (w.status = "done" /\ w.error)

CancelledRow == [status |-> "cancelled", error |-> TRUE]
RunningRow == [status |-> "running", error |-> FALSE]

\* A slot can hold a new job once nothing refers to the object in it.
Free(j) ==
    /\ j \notin registered
    /\ TaskGone(j)
    /\ pool.job # j
    /\ j \notin repro

\* The event loop is between two steps and may run the next one.
LoopFree == loop = NoJob /\ (Preempt \/ pool.pc = "idle")
\* A pool thread may take its next step.
PoolMayRun == phase = "up" /\ (Preempt \/ loop = NoJob)

(***************************************************************************)
(* finish_run(run, result): UPDATE by id, whatever the row holds; the      *)
(* artifacts are imported after the UPDATE is committed and that may       *)
(* raise.  An outcome is <<row written, call returned>>.                   *)
(***************************************************************************)
\* (Faulty variant: the exception is swallowed and the result taken as written.)
FinishOutcomesSwallowed == {<<TRUE, TRUE>>, <<FALSE, TRUE>>}

FinishOutcomes ==
    {<<TRUE, TRUE>>}
        \cup (IF "artifacts" \in Faulty THEN {<<TRUE, FALSE>>} ELSE {})
        \cup (IF "finish" \in Faulty THEN {<<FALSE, FALSE>>} ELSE {})

-----------------------------------------------------------------------------
Init ==
    /\ phase = "down"
    \* a database of an older version: absent rows, or rows done with errors
    /\ row \in [Runs -> {[status |-> "absent", error |-> FALSE],
                         [status |-> "done", error |-> TRUE]}]
    /\ repro = {}
    /\ job = [j \in Jobs |-> NullJob]
    /\ registered = {}
    /\ loop = NoJob
    /\ pool = IdlePool
    /\ resuming = {}
    /\ cut = [r \in Runs |-> "none"]
    /\ crashes = 0

-----------------------------------------------------------------------------
(***************************************************************************)
(* The survey every start, resume and job list begins with:                *)
(* _prune_finished_jobs and _active_jobs reconcile each registered job (a  *)
(* busy job whose task is gone becomes cancelled, with its row; a terminal *)
(* job retries the write of its result unless it did so a moment ago) and  *)
(* drop the terminal ones that ended long enough ago.  s.wrote are the     *)
(* jobs whose retry reached the row, s.cleared those whose retry returned, *)
(* s.old the jobs past the retention time.                                 *)
(***************************************************************************)
\* (Faulty variant: retention does not look at the result still to be written.)
SurveysDropping ==
    {s \in [old : SUBSET {j \in registered : job[j].state \in Terminal},
            wrote : SUBSET {j \in registered : Unsaved(j)},
            cleared : SUBSET {j \in registered : Unsaved(j)}] : s.cleared = s.wrote}

Surveys ==
    {s \in [old : SUBSET {j \in registered : job[j].state \in Terminal},
            wrote : SUBSET {j \in registered : Unsaved(j)},
            cleared : SUBSET {j \in registered : Unsaved(j)}] :
        /\ s.cleared \subseteq s.wrote
        /\ "artifacts" \in Faulty \/ s.cleared = s.wrote
        /\ \A j \in s.old : job[j].pending = NoResult \/ j \in s.cleared}

SurveyedJob(j, s) ==
    IF j \in registered /\ Orphaned(j)
    THEN [job[j] EXCEPT !.state = "cancelled", !.err = TRUE]
    ELSE IF j \in s.cleared THEN [job[j] EXCEPT !.pending = NoResult] ELSE job[j]

SurveyedRow(r, s) ==
    IF \E j \in registered : Orphaned(j) /\ job[j].run = r /\ row[r].status = "running"
    THEN CancelledRow
    ELSE IF \E j \in s.wrote : job[j].run = r
         THEN job[CHOOSE j \in s.wrote : job[j].run = r].pending
         ELSE row[r]

\* A refused request, a prune, or a job list read on the loop: the survey alone.
Survey ==
    /\ phase = "up" /\ LoopFree
    /\ \E s \in Surveys :
          /\ job' = [j \in Jobs |-> SurveyedJob(j, s)]
          /\ row' = [r \in Runs |-> SurveyedRow(r, s)]
          /\ registered' = registered \ s.old
    /\ UNCHANGED <<phase, repro, loop, pool, resuming, cut, crashes>>

-----------------------------------------------------------------------------
(* Starting jobs *)

\* Faulty variants: a restoring job is not counted; the limit is off by one.
StartAllowedBesideRestoring(r, t) ==
    LET active == {i \in registered : job[i].state = "running" /\ ~Orphaned(i)}
    IN  /\ Cardinality(active) < MaxConcurrent
        /\ \A i \in active : job[i].target # t /\ (r = NoRun \/ job[i].run # r)
StartAllowedOneMore(r, t) ==
    LET active == {i \in registered : Busy(i) /\ ~Orphaned(i)}
    IN  /\ Cardinality(active) <= MaxConcurrent
        /\ \A i \in active : job[i].target # t /\ (r = NoRun \/ job[i].run # r)

\* _check_start_allowed: the limit, the run, and the checkout.
StartAllowed(r, t) ==
    LET active == {i \in registered : Busy(i) /\ ~Orphaned(i)}
    IN  /\ Cardinality(active) < MaxConcurrent
        /\ \A i \in active : job[i].target # t /\ (r = NoRun \/ job[i].run # r)

(***************************************************************************)
(* The survey, the conflict check and _register.  The synchronous section  *)
(* goes on to _launch, so the loop stays with j.  _register replaces the   *)
(* job that had the same key.                                              *)
(***************************************************************************)
Admit(j, checkedRun, rec, s) ==
    /\ LoopFree
    /\ Free(j)
    /\ StartAllowed(checkedRun, rec.target)
    /\ registered' = {i \in registered \ s.old : rec.run = NoRun \/ job[i].run # rec.run}
                        \cup {j}
    /\ job' = [[i \in Jobs |-> SurveyedJob(i, s)] EXCEPT ![j] = rec]
    /\ loop' = j

(***************************************************************************)
(* start(): a new audit.  When the row cannot be created the audit runs    *)
(* all the same, without one.                                              *)
(***************************************************************************)
StartAudit(j, r) ==
    /\ phase = "up"
    /\ row[r].status = "absent"
    /\ \E s \in Surveys, created \in BOOLEAN :
          /\ created \/ "create" \in Faulty
          /\ Admit(j, NoRun,
                   NewJob("audit", IF created THEN r ELSE NoRun, TargetOf[r], "running"),
                   s)
          /\ row' = [q \in Runs |-> IF q = r /\ created THEN RunningRow
                                    ELSE SurveyedRow(q, s)]
    /\ UNCHANGED <<phase, repro, pool, resuming, cut, crashes>>

\* A request of a user, or the next run of the start-up sequence.
MayResume(r) == phase = "up" \/ (phase = "booting" /\ r \in resuming)

(***************************************************************************)
(* resume_cancelled(): the row becomes running at once when the clone of   *)
(* the first attempt never completed; otherwise the job is restoring and   *)
(* the row is left alone until the checkout is back at the pinned commit.  *)
(* Which of the two depends on what is on disk, so both are possible.      *)
(***************************************************************************)
ResumeClone(j, r) ==
    /\ MayResume(r)
    /\ \E s \in Surveys :
          /\ Resumable(SurveyedRow(r, s))
          /\ Admit(j, r, NewJob("audit", r, TargetOf[r], "running"), s)
          /\ row' = [q \in Runs |-> IF q = r THEN RunningRow ELSE SurveyedRow(q, s)]
    /\ resuming' = resuming \ {r}
    /\ UNCHANGED <<phase, repro, pool, cut, crashes>>

ResumeRestore(j, r) ==
    /\ MayResume(r)
    /\ \E s \in Surveys :
          /\ Resumable(SurveyedRow(r, s))
          /\ Admit(j, r, NewJob("restore", r, TargetOf[r], "restoring"),
                   s)
          /\ row' = [q \in Runs |-> SurveyedRow(q, s)]
    /\ resuming' = resuming \ {r}
    /\ UNCHANGED <<phase, repro, pool, cut, crashes>>

\* start_reproduction(): the row is created first, and a failure refuses the request.
StartReproduction(j, t) ==
    /\ phase = "up"
    /\ \E s \in Surveys :
          /\ Admit(j, NoRun, NewJob("reproduction", NoRun, t, "running"),
                   s)
          /\ row' = [q \in Runs |-> SurveyedRow(q, s)]
    /\ repro' = repro \cup {j}
    /\ UNCHANGED <<phase, pool, resuming, cut, crashes>>

\* _launch: create_task.  The coroutine is entered by a later step of the loop.
Launch(j) ==
    /\ loop = j /\ job[j].task = "none"
    /\ job' = [job EXCEPT ![j].task = "created"]
    /\ loop' = NoJob
    /\ UNCHANGED <<phase, row, repro, registered, pool, resuming, cut, crashes>>

-----------------------------------------------------------------------------
(* The job's task *)

TaskStep == phase \in {"up", "stopping"} /\ LoopFree

\* A task cancelled before its first step never enters its coroutine.
EnterCoroutine(j) ==
    /\ TaskStep /\ job[j].task = "created"
    /\ job' = [job EXCEPT ![j].task = IF job[j].stop = "due" THEN "done"
                                      ELSE IF job[j].kind = "restore" THEN "restore"
                                      ELSE "body"]
    /\ UNCHANGED <<phase, row, repro, registered, loop, pool, resuming, cut, crashes>>

\* Faulty variant: the handler that kills a cancelled git command does not raise again.
RestoredAnyway(j) ==
    /\ TaskStep /\ job[j].task = "restore"
    /\ Resumable(row[job[j].run])
    /\ row' = [row EXCEPT ![job[j].run] = RunningRow]
    /\ job' = [job EXCEPT ![j].kind = "audit", ![j].state = "running", ![j].task = "body",
                          ![j].stop = IF @ = "due" THEN "lost" ELSE @]
    /\ UNCHANGED <<phase, repro, registered, loop, pool, resuming, cut, crashes>>

(***************************************************************************)
(* _restore_and_run_cancelled.  resume_cancelled_run takes the row only if *)
(* it is still resumable; then _run follows without an await in between.   *)
(***************************************************************************)
Restored(j) ==
    /\ TaskStep /\ job[j].task = "restore" /\ job[j].stop # "due"
    /\ Resumable(row[job[j].run])
    /\ row' = [row EXCEPT ![job[j].run] = RunningRow]
    /\ job' = [job EXCEPT ![j].kind = "audit", ![j].state = "running", ![j].task = "body"]
    /\ UNCHANGED <<phase, repro, registered, loop, pool, resuming, cut, crashes>>

\* The checkout cannot be restored, or the attempt is stopped: the row is not touched.
RestoreEnds(j) ==
    /\ TaskStep /\ job[j].task = "restore"
    /\ job' = [job EXCEPT ![j].state = IF job[j].stop = "due" THEN "cancelled"
                                       ELSE "failed",
                          ![j].err = @ \/ job[j].stop # "due",
                          ![j].task = "done"]
    /\ UNCHANGED <<phase, row, repro, registered, loop, pool, resuming, cut, crashes>>

(***************************************************************************)
(* Where the task awaits run_agent itself (Stages 1 and 2, the semantic    *)
(* deduplications, the review of a retest), a Stop that arrives while      *)
(* run_agent waits for the agent it has killed is taken for the agent's    *)
(* own cancellation (agent.py:232), and the audit goes on.                 *)
(***************************************************************************)
SwallowStop(j) ==
    /\ TaskStep /\ job[j].task = "body" /\ job[j].stop = "due"
    /\ job' = [job EXCEPT ![j].stop = "lost"]
    /\ UNCHANGED <<phase, row, repro, registered, loop, pool, resuming, cut, crashes>>

(***************************************************************************)
(* The end of _run or _run_reproduction, up to the write of the result: a  *)
(* cancellation that is due surfaces as CancelledError, otherwise the work *)
(* is done or has failed with an error.  The rest of the finally block     *)
(* follows without an await.                                               *)
(***************************************************************************)
BodyEnds(j) ==
    /\ TaskStep /\ job[j].task = "body"
    /\ \E status \in Terminal :
          /\ job[j].stop = "due" <=> status = "cancelled"
          /\ LET error == IF status = "cancelled" THEN job[j].err ELSE status = "failed"
             IN  job' = [job EXCEPT
                    ![j].state = status, ![j].err = error, ![j].task = "finish",
                    ![j].pending = IF job[j].run = NoRun THEN NoResult
                                   ELSE [status |-> status, error |-> error]]
          /\ cut' = IF phase = "stopping" /\ status = "done"
                    THEN [r \in Runs |-> IF r = job[j].run THEN "none" ELSE cut[r]] ELSE cut
    /\ loop' = j
    /\ UNCHANGED <<phase, row, repro, registered, pool, resuming, crashes>>

\* _finish_run_history: the forced write of the pending result, kept when it raises.
RecordRun(j) ==
    /\ loop = j /\ job[j].task = "finish" /\ job[j].kind # "reproduction"
    /\ IF job[j].pending = NoResult
       THEN /\ job' = [job EXCEPT ![j].task = "done"]
            /\ UNCHANGED row
       ELSE \E o \in FinishOutcomes :
            /\ row' = IF o[1] THEN [row EXCEPT ![job[j].run] = job[j].pending] ELSE row
            /\ job' = [job EXCEPT ![j].task = "done",
                                  ![j].pending = IF o[2] THEN NoResult ELSE @]
    /\ loop' = NoJob
    /\ UNCHANGED <<phase, repro, registered, pool, resuming, cut, crashes>>

\* finish_reproduction; a failure is logged and the row keeps its old state.
RecordReproduction(j) ==
    /\ loop = j /\ job[j].task = "finish" /\ job[j].kind = "reproduction"
    /\ \E written \in BOOLEAN :
          /\ written \/ "reproduction" \in Faulty
          /\ repro' = IF written THEN repro \ {j} ELSE repro
    /\ job' = [job EXCEPT ![j].task = "cleanup"]
    /\ loop' = NoJob
    /\ UNCHANGED <<phase, row, registered, pool, resuming, cut, crashes>>

WorktreeRemoved(j) ==
    /\ TaskStep /\ job[j].task = "cleanup"
    /\ job' = [job EXCEPT ![j].task = "done"]
    /\ UNCHANGED <<phase, row, repro, registered, loop, pool, resuming, cut, crashes>>

-----------------------------------------------------------------------------
(* Handlers in the thread pool *)

(***************************************************************************)
(* AuditJob.reconcile, called by every handler that looks a job up.  It    *)
(* reads the state first; what it does next uses what it has read.         *)
(***************************************************************************)
PoolLooks(j) ==
    /\ PoolMayRun /\ pool.pc = "idle" /\ j \in registered
    /\ \/ /\ Busy(j)
          /\ pool' = [pc |-> "reconcile", job |-> j, result |-> NoResult]
       \/ /\ Unsaved(j)
          /\ pool' = [pc |-> "write", job |-> j, result |-> job[j].pending]
    /\ UNCHANGED <<phase, row, repro, job, registered, loop, resuming, cut, crashes>>

\* cancel_running_run touches the row only while it is running.
PoolReconciles(j) ==
    /\ PoolMayRun /\ pool.pc = "reconcile" /\ pool.job = j
    /\ IF TaskGone(j)
       THEN /\ job' = [job EXCEPT ![j].state = "cancelled", ![j].err = TRUE]
            /\ row' = [r \in Runs |-> IF r = job[j].run /\ row[r].status = "running"
                                      THEN CancelledRow ELSE row[r]]
       ELSE UNCHANGED <<job, row>>
    /\ pool' = IdlePool
    /\ UNCHANGED <<phase, repro, registered, loop, resuming, cut, crashes>>

\* _retry_pending_run_finish: finish_run with the tuple read earlier.
PoolWrites(j) ==
    /\ PoolMayRun /\ pool.pc = "write" /\ pool.job = j
    /\ \E o \in FinishOutcomes :
          /\ row' = IF o[1] THEN [row EXCEPT ![job[j].run] = pool.result] ELSE row
          /\ job' = IF o[2] THEN [job EXCEPT ![j].pending = NoResult] ELSE job
    /\ pool' = IdlePool
    /\ UNCHANGED <<phase, repro, registered, loop, resuming, cut, crashes>>

\* _prune_finished_jobs for one job: the test, and later `del self._jobs[key]`.
PoolChoosesToPrune(j) ==
    /\ PoolMayRun /\ pool.pc = "idle" /\ j \in registered
    /\ job[j].state \in Terminal /\ job[j].pending = NoResult /\ loop # j
    /\ pool' = [pc |-> "prune", job |-> j, result |-> NoResult]
    /\ UNCHANGED <<phase, row, repro, job, registered, loop, resuming, cut, crashes>>

PoolPrunes(j) ==
    /\ PoolMayRun /\ pool.pc = "prune" /\ pool.job = j
    /\ registered' = {i \in registered : ~SameKey(i, j)}
    /\ pool' = IdlePool
    /\ UNCHANGED <<phase, row, repro, job, loop, resuming, cut, crashes>>

(***************************************************************************)
(* stop(): the task is cancelled unless it already is.  What stop() does   *)
(* to a job that is not busy, or whose task is gone, is its reconcile.     *)
(***************************************************************************)
Stop(j) ==
    /\ PoolMayRun /\ pool.pc = "idle" /\ j \in registered
    /\ Busy(j) /\ ~TaskGone(j) /\ job[j].stop = "none"
    /\ job' = [job EXCEPT ![j].err = FALSE, ![j].stop = "due"]
    /\ UNCHANGED <<phase, row, repro, registered, loop, pool, resuming, cut, crashes>>

-----------------------------------------------------------------------------
(* The worker: graceful exit, crash, start-up *)

\* What the run's job was doing, for the properties of start-up.
CutNow == [r \in Runs |->
    IF \E j \in registered : Busy(j) /\ job[j].run = r
    THEN job[CHOOSE j \in registered : Busy(j) /\ job[j].run = r].state
    ELSE cut[r]]

(***************************************************************************)
(* manager.shutdown: every job's shutdown() up to its wait.  Requests have *)
(* been drained, and tasks just created have taken their first step (the   *)
(* loop's ready queue is FIFO).                                            *)
(***************************************************************************)
BeginShutdown ==
    /\ phase = "up" /\ LoopFree /\ pool.pc = "idle" /\ crashes < MaxCrashes
    /\ \A j \in Jobs : job[j].task # "created"
    /\ \E s \in Surveys :
          /\ s.old = {}
          /\ {"finish", "artifacts"} \cap Faulty = {} =>
                s.cleared = {j \in registered : Unsaved(j)}
          /\ row' = [r \in Runs |-> SurveyedRow(r, s)]
          /\ job' = [j \in Jobs |->
                IF j \in registered /\ Busy(j) /\ ~Orphaned(j)
                THEN [job[j] EXCEPT !.err = TRUE, !.stop = Asked(j)]
                ELSE SurveyedJob(j, s)]
    /\ phase' = "stopping"
    /\ cut' = CutNow
    /\ UNCHANGED <<repro, registered, loop, pool, resuming, crashes>>

\* Faulty variant: the timeout is logged and the job stays busy.
ShutdownWaitsOn(j) ==
    /\ phase = "stopping" /\ LoopFree
    /\ j \in registered /\ Busy(j) /\ ~TaskGone(j)
    /\ UNCHANGED vars

\* SHUTDOWN_TASK_TIMEOUT_SECONDS passed and the task is still running.
ShutdownTimesOut(j) ==
    /\ phase = "stopping" /\ LoopFree
    /\ j \in registered /\ Busy(j) /\ ~TaskGone(j)
    /\ job' = [job EXCEPT ![j].state = "cancelled"]
    /\ row' = [r \in Runs |-> IF r = job[j].run /\ row[r].status = "running"
                              THEN CancelledRow ELSE row[r]]
    /\ UNCHANGED <<phase, repro, registered, loop, pool, resuming, cut, crashes>>

Vanish ==
    /\ phase' = "down"
    /\ job' = [j \in Jobs |-> NullJob]
    /\ registered' = {} /\ loop' = NoJob /\ pool' = IdlePool /\ resuming' = {}
    /\ crashes' = crashes + 1
    /\ UNCHANGED <<row, repro>>

Exit ==
    /\ phase = "stopping" /\ LoopFree
    /\ \A j \in registered : ~Busy(j) \/ TaskGone(j)
    /\ Vanish
    /\ UNCHANGED cut

Crash ==
    /\ phase # "down" /\ crashes < MaxCrashes
    /\ cut' = CutNow
    /\ Vanish

\* Faulty variant: start-up lists the running rows and leaves them as they are.
BootListing ==
    /\ phase = "down" /\ phase' = "booting"
    /\ resuming' = {r \in Runs : row[r].status = "running"}
    /\ cut' = [r \in Runs |-> "none"]
    /\ UNCHANGED <<row, repro, job, registered, loop, pool, crashes>>

\* lifespan: recover_interrupted_runs cancels every running row ...
Boot ==
    /\ phase = "down"
    /\ phase' = "booting"
    /\ resuming' = {r \in Runs : row[r].status = "running"}
    /\ row' = [r \in Runs |-> IF r \in resuming' THEN CancelledRow ELSE row[r]]
    /\ repro' = {}
    /\ cut' = [r \in Runs |-> "none"]
    /\ UNCHANGED <<job, registered, loop, pool, crashes>>

\* ... then the runs are resumed one by one, and one that cannot be is left.
SkipResume(r) ==
    /\ phase = "booting" /\ LoopFree /\ r \in resuming
    /\ resuming' = resuming \ {r}
    /\ UNCHANGED <<phase, row, repro, job, registered, loop, pool, cut, crashes>>

Serve ==
    /\ phase = "booting" /\ LoopFree /\ resuming = {}
    /\ phase' = "up"
    /\ UNCHANGED <<row, repro, job, registered, loop, pool, resuming, cut, crashes>>

-----------------------------------------------------------------------------
Request ==
    \/ Survey
    \/ \E j \in Jobs, r \in Runs : StartAudit(j, r) \/ ResumeClone(j, r) \/ ResumeRestore(j, r)
    \/ \E j \in Jobs, t \in Targets : StartReproduction(j, t)

TaskMoves(j) ==
    \/ Launch(j) \/ EnterCoroutine(j) \/ Restored(j) \/ RestoreEnds(j)
    \/ SwallowStop(j) \/ BodyEnds(j) \/ RecordRun(j) \/ RecordReproduction(j) \/ WorktreeRemoved(j)

PoolMoves(j) ==
    \/ PoolLooks(j) \/ PoolReconciles(j) \/ PoolWrites(j)
    \/ PoolChoosesToPrune(j) \/ PoolPrunes(j) \/ Stop(j)

Worker ==
    \/ BeginShutdown \/ (\E j \in Jobs : ShutdownTimesOut(j)) \/ Exit \/ Crash
    \/ Boot \/ (\E r \in Runs : SkipResume(r)) \/ Serve

Next ==
    \/ Request
    \/ \E j \in Jobs : TaskMoves(j) \/ PoolMoves(j)
    \/ Worker

(***************************************************************************)
(* Fairness.  The loop runs a section of code to its end and the worker    *)
(* goes through its start-up; a pool thread finishes what it began.  The   *)
(* loop's ready queue is FIFO, so a task that is time and again ready to   *)
(* move is not passed over forever (SF), and a task whose cancellation is  *)
(* due is ready, unless its work ignores the CancelledError.  The timer    *)
(* of shutdown goes off.  Nothing makes an audit end by itself, and nobody *)
(* has to start, stop or poll anything.  Steps that exclude each other     *)
(* until one of them is taken share a condition.                           *)
(***************************************************************************)
SectionEnds(j) == Launch(j) \/ RecordRun(j) \/ RecordReproduction(j)
Scheduled(j) ==
    \/ EnterCoroutine(j) \/ WorktreeRemoved(j)
    \/ j \in Obedient /\ job[j].stop = "due" /\ (RestoreEnds(j) \/ BodyEnds(j))

Fairness ==
    /\ WF_vars(\E j \in Jobs : SectionEnds(j))
    /\ \A j \in Jobs : SF_vars(Scheduled(j))
    /\ WF_vars(\E j \in Jobs : PoolReconciles(j) \/ PoolWrites(j) \/ PoolPrunes(j))
    /\ WF_vars(Boot \/ Serve \/ \E r \in Runs : SkipResume(r))
    /\ SF_vars(Exit \/ \E j \in Jobs : ShutdownTimesOut(j))

Spec == Init /\ [][Next]_vars
FairSpec == Spec /\ Fairness

-----------------------------------------------------------------------------
(* Properties *)

TypeOK ==
    /\ phase \in {"up", "booting", "stopping", "down"}
    /\ row \in [Runs -> Rows]
    /\ repro \subseteq Jobs
    /\ job \in [Jobs -> JobRecords]
    /\ registered \subseteq Jobs
    /\ loop \in Jobs \cup {NoJob}
    /\ pool \in [pc : {"idle", "reconcile", "write", "prune"}, job : Jobs \cup {NoJob},
                 result : Results \cup {NoResult}]
    /\ resuming \subseteq Runs
    /\ cut \in [Runs -> {"none"} \cup BusyStates]
    /\ crashes \in 0 .. MaxCrashes

(***************************************************************************)
(* "Concurrent jobs must target different repositories" (job.py:1478): two *)
(* tasks never work in the same checkout, whichever of audit, restoration  *)
(* and reproduction they are and however they were started.                *)
(***************************************************************************)
OneJobPerCheckout ==
    \A i, j \in Jobs : i # j /\ Working(i) /\ Working(j) => job[i].target # job[j].target

(***************************************************************************)
(* max_concurrent_jobs bounds the tasks really at work, not only the jobs  *)
(* the registry counts.                                                    *)
(***************************************************************************)
ConcurrencyLimit == Cardinality({j \in Jobs : Working(j)}) <= MaxConcurrent

(***************************************************************************)
(* No running row is stranded while the worker serves: a registered job    *)
(* is busy with it, or holds a result it has yet to write there.           *)
(***************************************************************************)
RunningRowHasOwner ==
    phase = "up" => \A r \in Runs : row[r].status = "running" =>
        \E j \in registered : job[j].run = r /\ (Busy(j) \/ job[j].pending # NoResult)

(***************************************************************************)
(* An audit at work has a running row: neither the recovery of orphans nor *)
(* a late write of another job's result takes it away.                     *)
(***************************************************************************)
WorkingAuditHasRunningRow ==
    phase = "up" => \A j \in Jobs :
        job[j].kind = "audit" /\ job[j].run # NoRun /\ Working(j) =>
            row[job[j].run].status = "running"

(***************************************************************************)
(* What the job list reports of an ended job is what History holds, unless *)
(* the result is still to be written; a restoration that ended left a row  *)
(* that can be continued again.                                            *)
(***************************************************************************)
ReportedIsRecorded ==
    phase = "up" => \A j \in registered :
        job[j].state \in Terminal /\ job[j].task = "done" /\ job[j].run # NoRun =>
            IF job[j].kind = "restore" THEN Resumable(row[job[j].run])
            ELSE job[j].pending = NoResult =>
                    row[job[j].run] = [status |-> job[j].state, error |-> job[j].err]

(***************************************************************************)
(* The row of an audit that completed without errors never changes again:  *)
(* no resume, no recovery, no late retry of an earlier result.             *)
(***************************************************************************)
CompletionIsFinal ==
    [][\A r \in Runs : row[r] = [status |-> "done", error |-> FALSE] => row'[r] = row[r]]_vars

(***************************************************************************)
(* While the worker serves, a result that could not be written is kept     *)
(* until its row holds it, or until its run is resumed (which takes a row  *)
(* that is not running): retention never drops it.                         *)
(***************************************************************************)
ResultNotDropped ==
    [][\A j \in registered :
          job[j].pending # NoResult /\ phase = "up" /\ phase' = "up" =>
            \/ j \in registered' /\ job'[j].pending = job[j].pending
            \/ row'[job[j].run] = job[j].pending
            \/ row[job[j].run] = job[j].pending
            \/ \E i \in registered' \ registered : job'[i].run = job[j].run]_vars

(***************************************************************************)
(* Whatever an exit or a crash cut short, the next start-up finds (or      *)
(* makes) a row the audit can be continued from.  An audit that lost its   *)
(* stop and completed during the shutdown was not cut short.               *)
(***************************************************************************)
InterruptedIsResumable ==
    [][phase = "down" /\ phase' = "booting" =>
          \A r \in Runs : cut[r] # "none" => Resumable(row'[r])]_vars

(***************************************************************************)
(* README.md:103 says "Interrupted Web jobs are resumed automatically by   *)
(* default": start-up resumes every audit the exit cut short.              *)
(***************************************************************************)
InterruptedIsResumed ==
    [][phase = "down" /\ phase' = "booting" =>
          \A r \in Runs : cut[r] # "none" => r \in resuming']_vars

(***************************************************************************)
(* The task of a job that was asked to stop ends, the write of its result  *)
(* and its clean-up included.  A stop can only be lost in the work proper  *)
(* (see SwallowStop); one that comes before it, while the task is new or   *)
(* restores its checkout, never is.                                        *)
(***************************************************************************)
StopCompletes ==
    \A j \in Obedient :
        /\ job[j].stop = "due" ~> TaskGone(j) \/ job[j].stop = "lost"
        /\ job[j].stop = "due" /\ job[j].task \in {"created", "restore"} ~> TaskGone(j)

(***************************************************************************)
(* A shutdown ends even when a task ignores its cancellation: the wait of  *)
(* AuditJob.shutdown is bounded, so the worker exits.                      *)
(***************************************************************************)
ShutdownEnds == phase = "stopping" ~> phase = "down"
=============================================================================
