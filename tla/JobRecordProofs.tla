-------------------------- MODULE JobRecordProofs --------------------------
(***************************************************************************)
(* Proofs about JobManager, continued: jobs, results and History rows.     *)
(* For any runs, jobs, faults and crashes, when handlers interleave with   *)
(* the event loop only at its awaits (Preempt = FALSE): rows in state      *)
(* running have an owner, audits at work a running row, ended jobs report  *)
(* what is recorded, completed rows are final, unwritten results are kept  *)
(* and what an exit cut short can be continued.                            *)
(***************************************************************************)
EXTENDS JobManagerProofs

(***************************************************************************)
(* What a job object holds at any time.  A result is kept from the end of  *)
(* the work until its write returned, and says what the job reports; a     *)
(* restoration has none, and a retest has no run.                          *)
(***************************************************************************)
Outcome(j) == [status |-> job[j].state, error |-> job[j].err]

JobShape(j) ==
    /\ job[j].kind = "restore" =>
          job[j].run # NoRun /\ job[j].pending = NoResult
             /\ job[j].task \notin {"body", "finish", "cleanup"}
    /\ job[j].kind = "reproduction" => job[j].run = NoRun
    /\ job[j].task = "restore" => job[j].kind = "restore"
    /\ job[j].task = "cleanup" => job[j].kind = "reproduction"
    /\ job[j].run = NoRun => job[j].pending = NoResult
    /\ Busy(j) \/ Working(j) => job[j].pending = NoResult
    /\ job[j].pending # NoResult => job[j].pending = Outcome(j)
    /\ job[j].task = "finish" =>
          loop = j /\ ~Busy(j) /\ (job[j].run # NoRun => job[j].pending # NoResult)

\* What a pool thread has read is still so, and its job still registered.
PoolReadIsCurrent ==
    pool.pc # "idle" =>
        /\ pool.job \in registered
        /\ pool.pc = "reconcile" => Busy(pool.job)
        /\ pool.pc = "write" => pool.result # NoResult /\ pool.result = job[pool.job].pending
        /\ pool.pc = "prune" => ~Busy(pool.job) /\ job[pool.job].pending = NoResult

\* The row of a registered job with a run, while the worker starts up or serves.
RowOf(j) == row[job[j].run]
RowAgrees(j) ==
    /\ Busy(j) /\ job[j].kind # "restore" => RowOf(j).status = "running"
    /\ job[j].kind = "restore" => Resumable(RowOf(j))
    /\ job[j].pending # NoResult => RowOf(j).status = "running" \/ RowOf(j) = job[j].pending
    /\ job[j].state \in Terminal /\ job[j].task = "done" /\ job[j].kind # "restore"
          /\ job[j].pending = NoResult => RowOf(j) = Outcome(j)

Owned(r) ==
    \E j \in registered : job[j].run = r /\ (Busy(j) \/ job[j].pending # NoResult)

Serving ==
    phase \in {"up", "booting"} =>
        /\ loop # NoJob => loop \in registered
        /\ \A j \in registered : job[j].run # NoRun => RowAgrees(j)
        /\ \A r \in Runs : row[r].status = "running" => Owned(r)
        /\ \A r \in Runs : cut[r] = "none"

\* A shutdown has cancelled what was at work and noted it, but for what completes all the
\* same; nothing new begins.
Stopping ==
    phase = "stopping" =>
        /\ \A j \in Jobs : Working(j) => job[j].stop # "none" /\ j \in registered
        /\ \A j \in Jobs :
              (Working(j) \/ (j \in registered /\ Busy(j))) /\ job[j].run # NoRun
              => cut[job[j].run] # "none"
        /\ \A j \in Jobs : job[j].task = "finish" /\ job[j].run # NoRun =>
              IF job[j].state = "done" THEN cut[job[j].run] = "none" /\ ~job[j].err
                                       ELSE cut[job[j].run] # "none"
        /\ \A j \in Jobs : loop = j => job[j].task = "finish"

\* What was cut short can be continued, once start-up has cancelled its row.
Continuable(w) == w.status = "running" \/ Resumable(w)
CutIsContinuable == \A r \in Runs : cut[r] # "none" => Continuable(row[r])

DownIsIdle == phase = "down" => loop = NoJob

\* A cancellation is lost only once the work proper has begun.
LostInWork == \A j \in Jobs : job[j].stop = "lost" => job[j].task \notin {"none", "created", "restore"}

RecordInv ==
    /\ ExclusionInv
    /\ \A j \in Jobs : JobShape(j)
    /\ PoolReadIsCurrent
    /\ Serving
    /\ Stopping
    /\ CutIsContinuable
    /\ DownIsIdle

-----------------------------------------------------------------------------
(* Frames *)

LEMMA Facts ==
    ASSUME RecordInv
    PROVE  /\ TypeOK /\ ExclusionInv
           /\ \A j \in Jobs : job[j] \in JobRecords
           /\ \A r \in Runs : row[r] \in Rows
           /\ registered \subseteq Jobs
           /\ NoRun \notin Runs /\ NoJob \notin Jobs
BY ConstantsAssumption DEF RecordInv, ExclusionInv, TypeInv, TypeOK

\* Two registered jobs of one run are one job.
LEMMA OneKey ==
    ASSUME RecordInv, NEW i \in registered, NEW j \in registered,
           job[i].run = job[j].run, job[i].run # NoRun
    PROVE  i = j
BY DEF RecordInv, ExclusionInv, KeysUnique, SameKey

LEMMA ShapeFrame ==
    ASSUME NEW i \in Jobs, JobShape(i), job'[i] = job[i],
           job[i].task = "finish" => loop' = loop
    PROVE  JobShape(i)'
BY DEF JobShape, Busy, Working, Outcome

LEMMA RowFrame ==
    ASSUME NEW i \in Jobs, RowAgrees(i), job'[i] = job[i], row'[job[i].run] = row[job[i].run]
    PROVE  RowAgrees(i)'
BY DEF RowAgrees, RowOf, Busy, Outcome

(***************************************************************************)
(* A step that touches one job, and no row but that of its run.            *)
(***************************************************************************)
LEMMA JobStep ==
    ASSUME RecordInv, ExclusionInv', PoolReadIsCurrent', NEW j \in Jobs,
           phase \in {"up", "stopping"} \/ (phase = "booting" /\ loop = j),
           phase' = phase, registered' = registered,
           \/ cut' = cut
           \/ /\ phase = "stopping" /\ j \in registered /\ ~Working(j)' /\ ~Busy(j)'
              /\ \A r \in Runs : cut'[r] = IF r = job[j].run THEN "none" ELSE cut[r],
           loop \in {NoJob, j}, loop' \in {NoJob, j},
           loop' = j => Working(j) /\ job'[j].task = "finish",
           \A i \in Jobs : i # j => job'[i] = job[i],
           job'[j].run = job[j].run,
           \A r \in Runs : r # job[j].run => row'[r] = row[r],
           JobShape(j)',
           phase # "stopping" /\ j \notin registered => row' = row,
           phase # "stopping" /\ j \in registered /\ job[j].run # NoRun =>
              /\ RowAgrees(j)'
              /\ row'[job[j].run].status = "running" => Busy(j)' \/ job'[j].pending # NoResult,
           phase = "stopping" =>
              /\ Working(j)' => Working(j) /\ job'[j].stop # "none"
              /\ Busy(j)' => Busy(j)
              /\ job'[j].task = "finish" /\ job[j].run # NoRun =>
                    IF job'[j].state = "done" THEN cut'[job[j].run] = "none" /\ ~job'[j].err
                                              ELSE cut'[job[j].run] # "none"
              /\ job[j].run # NoRun => \/ row'[job[j].run] = row[job[j].run]
                                       \/ Continuable(row'[job[j].run])
                                       \/ cut[job[j].run] = "none"
    PROVE  RecordInv'
<1>1. /\ TypeOK /\ registered \subseteq Jobs /\ NoRun \notin Runs /\ NoJob \notin Jobs
      /\ \A i \in Jobs : job[i] \in JobRecords
  BY Facts
<1>2. \A i \in Jobs : JobShape(i)'
  <2> SUFFICES ASSUME NEW i \in Jobs, i # j PROVE JobShape(i)'
    OBVIOUS
  <2>1. JobShape(i)
    BY DEF RecordInv
  <2>2. job[i].task # "finish"
    BY <1>1, <2>1 DEF JobShape
  <2> QED
    BY <2>1, <2>2, ShapeFrame
<1>3. Serving'
  <2> SUFFICES ASSUME phase \in {"up", "booting"} PROVE Serving'
    BY DEF Serving
  <2>1. /\ loop # NoJob => loop \in registered
        /\ \A i \in registered : job[i].run # NoRun => RowAgrees(i)
        /\ \A r \in Runs : row[r].status = "running" => Owned(r)
        /\ \A r \in Runs : cut[r] = "none"
    BY DEF RecordInv, Serving
  <2>2. loop' # NoJob => loop' \in registered'
    BY <1>1, <2>1 DEF RecordInv, ExclusionInv, TasksRegistered
  <2>3. ASSUME NEW i \in registered', job'[i].run # NoRun PROVE RowAgrees(i)'
    <3>1. CASE i = j
      BY <2>3, <3>1
    <3>2. CASE i # j
      <4>1. i \in Jobs /\ i \in registered /\ job'[i] = job[i] /\ job[i].run \in Runs
        BY <1>1, <2>3, <3>2 DEF JobRecords
      <4>2. row'[job[i].run] = row[job[i].run]
        <5>1. CASE j \in registered
          BY <2>3, <3>2, <4>1, <5>1, OneKey
        <5>2. CASE j \notin registered
          BY <5>2
        <5> QED
          BY <5>1, <5>2
      <4> QED
        BY <2>1, <2>3, <4>1, <4>2, RowFrame
    <3> QED
      BY <3>1, <3>2
  <2>4. ASSUME NEW r \in Runs, row'[r].status = "running" PROVE Owned(r)'
    <3>1. CASE j \in registered /\ job[j].run = r
      BY <1>1, <2>4, <3>1 DEF Owned
    <3>2. CASE ~(j \in registered /\ job[j].run = r)
      <4>1. row'[r] = row[r]
        BY <3>2
      <4>2. PICK i \in registered : job[i].run = r /\ (Busy(i) \/ job[i].pending # NoResult)
        BY <2>1, <2>4, <4>1 DEF Owned
      <4>3. i # j /\ i \in Jobs
        BY <1>1, <3>2, <4>2
      <4> QED
        BY <4>2, <4>3 DEF Owned, Busy
    <3> QED
      BY <3>1, <3>2
  <2> QED
    BY <2>1, <2>2, <2>3, <2>4 DEF Serving
<1>4. Stopping'
  <2> SUFFICES ASSUME phase = "stopping" PROVE Stopping'
    BY DEF Stopping
  <2>1. Stopping
    BY DEF RecordInv
  <2>2. ASSUME NEW i \in Jobs, Working(i)' PROVE job'[i].stop # "none" /\ i \in registered'
    BY <2>1, <2>2 DEF Stopping, Working
  <2>3. ASSUME NEW i \in Jobs, job'[i].run # NoRun,
               Working(i)' \/ (i \in registered' /\ Busy(i)')
        PROVE  cut'[job'[i].run] # "none"
    <3>1. /\ Working(i) \/ (i \in registered /\ Busy(i))
          /\ job'[i].run = job[i].run /\ job[i].run \in Runs /\ i \in registered
      BY <1>1, <2>1, <2>3 DEF Stopping, Working, Busy, JobRecords
    <3>2. cut[job[i].run] # "none"
      BY <2>1, <2>3, <3>1 DEF Stopping
    <3>3. CASE cut' = cut
      BY <3>1, <3>2, <3>3
    <3>4. CASE cut' # cut
      <4>1. i # j /\ j \in registered
        BY <2>3, <3>4
      <4>2. job[i].run # job[j].run
        BY <2>3, <3>1, <4>1, OneKey
      <4> QED
        BY <3>1, <3>2, <3>4, <4>2
    <3> QED
      BY <3>3, <3>4
  <2>4. ASSUME NEW i \in Jobs, job'[i].task = "finish", job'[i].run # NoRun
        PROVE  IF job'[i].state = "done" THEN cut'[job'[i].run] = "none" /\ ~job'[i].err
                                         ELSE cut'[job'[i].run] # "none"
    <3>1. i = j
      BY <1>1, <2>4 DEF RecordInv, JobShape
    <3> QED
      BY <2>4, <3>1
  <2>5. ASSUME NEW i \in Jobs, loop' = i PROVE job'[i].task = "finish"
    BY <1>1, <2>5
  <2> QED
    BY <2>2, <2>3, <2>4, <2>5 DEF Stopping
<1>5. CutIsContinuable'
  <2> SUFFICES ASSUME NEW r \in Runs, cut'[r] # "none" PROVE Continuable(row'[r])
    BY DEF CutIsContinuable
  <2>a. cut[r] # "none"
    OBVIOUS
  <2>1. phase = "stopping"
    BY <2>a DEF RecordInv, Serving
  <2>2. Continuable(row[r])
    BY <2>a DEF RecordInv, CutIsContinuable
  <2> QED
    BY <1>1, <2>a, <2>1, <2>2
<1> QED
  BY <1>2, <1>3, <1>4, <1>5 DEF RecordInv, DownIsIdle

-----------------------------------------------------------------------------
(* The steps of a job's task *)

\* Where a task may take a step, and what is known of its job there.
LEMMA TaskFacts ==
    ASSUME Preempt = FALSE, RecordInv, NEW j \in Jobs
    PROVE  /\ JobShape(j) /\ job[j] \in JobRecords
           /\ TaskStep => phase \in {"up", "stopping"} /\ loop = NoJob /\ pool.pc = "idle"
           /\ loop = j => pool.pc = "idle"
           /\ loop = j /\ job[j].task \in {"none", "finish"} =>
                 phase \in {"up", "stopping"} \/ phase = "booting"
           /\ phase = "up" /\ Working(j) => j \in registered /\ Busy(j)
           /\ phase \in {"up", "booting"} /\ j \in registered /\ job[j].run # NoRun =>
                 RowAgrees(j)
           /\ phase \in {"up", "booting"} /\ loop = j => j \in registered
           /\ job[j].run \in Runs \cup {NoRun}
           /\ job[j].pending \in Results \cup {NoResult}
<1>1. TypeOK /\ ExclusionInv /\ job[j] \in JobRecords /\ JobShape(j) /\ NoJob \notin Jobs
  BY Facts DEF RecordInv
<1>2. TaskStep => phase \in {"up", "stopping"} /\ loop = NoJob /\ pool.pc = "idle"
  BY DEF TaskStep, LoopFree
<1>3. loop = j => pool.pc = "idle"
  BY <1>1 DEF ExclusionInv, SectionsExclusive
<1>4. phase = "down" => job[j] = NullJob /\ registered = {}
  BY <1>1 DEF ExclusionInv, DownIsEmpty
<1>5. phase = "down" /\ loop = j => job[j].task \notin {"none", "finish"}
  BY <1>1, <1>4 DEF NullJob, NewJob, ExclusionInv, LaunchedIsRegistered
<1>6. phase \in {"up", "booting", "stopping", "down"}
  BY <1>1 DEF TypeOK
<1>7. phase = "up" /\ Working(j) => j \in registered /\ Busy(j)
  BY <1>1 DEF ExclusionInv, TasksRegistered
<1>8. /\ phase \in {"up", "booting"} /\ j \in registered /\ job[j].run # NoRun => RowAgrees(j)
      /\ phase \in {"up", "booting"} /\ loop = j => j \in registered
  BY <1>1 DEF RecordInv, Serving
<1>9. job[j].run \in Runs \cup {NoRun} /\ job[j].pending \in Results \cup {NoResult}
  BY <1>1 DEF JobRecords
<1> QED
  BY <1>1, <1>2, <1>3, <1>5, <1>6, <1>7, <1>8, <1>9

LEMMA LaunchRecord ==
    ASSUME Preempt = FALSE, RecordInv, ExclusionInv', NEW j \in Jobs, Launch(j)
    PROVE  RecordInv'
<1>1. /\ job[j] \in JobRecords /\ JobShape(j) /\ pool.pc = "idle" /\ TypeOK /\ NoJob \notin Jobs
      /\ phase \in {"up", "stopping"} \/ phase = "booting"
  BY Facts, TaskFacts DEF Launch
<1>2. /\ loop = j /\ job[j].task = "none" /\ loop' = NoJob
      /\ UNCHANGED <<phase, row, repro, registered, pool, resuming, cut, crashes>>
      /\ \A i \in Jobs : i # j => job'[i] = job[i]
      /\ job'[j] = [job[j] EXCEPT !.task = "created"]
  BY <1>1 DEF Launch, TypeOK
<1>3. Busy(j) /\ phase # "stopping"
  BY <1>1, <1>2 DEF RecordInv, ExclusionInv, LaunchedIsRegistered, Stopping
<1>4. JobShape(j)'
  BY <1>1, <1>2, <1>3 DEF JobShape, Busy, Working, LiveTasks, Outcome, JobRecords
<1>5. phase # "stopping" /\ j \in registered /\ job[j].run # NoRun =>
         /\ RowAgrees(j)'
         /\ row'[job[j].run].status = "running" => Busy(j)' \/ job'[j].pending # NoResult
  <2>1. Busy(j)'
    BY <1>1, <1>2, <1>3 DEF Busy, JobRecords
  <2>2. phase # "stopping" /\ j \in registered /\ job[j].run # NoRun => RowAgrees(j)
    BY <1>1, TaskFacts
  <2>3. RowAgrees(j) => RowAgrees(j)'
    BY <1>1, <1>2 DEF RowAgrees, RowOf, Busy, Outcome, JobRecords
  <2> QED
    BY <2>1, <2>2, <2>3
<1>6. PoolReadIsCurrent' /\ job'[j].run = job[j].run
  BY <1>1, <1>2 DEF PoolReadIsCurrent, JobRecords
<1>7. row' = row
  BY <1>2
<1> QED
  BY <1>1, <1>2, <1>3, <1>4, <1>5, <1>6, <1>7, JobStep

LEMMA EnterRecord ==
    ASSUME Preempt = FALSE, RecordInv, ExclusionInv', NEW j \in Jobs, EnterCoroutine(j)
    PROVE  RecordInv'
<1> DEFINE t == IF job[j].stop = "due" THEN "done"
                ELSE IF job[j].kind = "restore" THEN "restore" ELSE "body"
<1>1. /\ job[j] \in JobRecords /\ JobShape(j) /\ pool.pc = "idle" /\ TypeOK /\ NoJob \notin Jobs
      /\ phase \in {"up", "stopping"} /\ loop = NoJob
  BY Facts, TaskFacts DEF EnterCoroutine
<1>2. /\ job[j].task = "created"
      /\ UNCHANGED <<phase, row, repro, registered, loop, pool, resuming, cut, crashes>>
      /\ \A i \in Jobs : i # j => job'[i] = job[i]
      /\ job'[j] = [job[j] EXCEPT !.task = t]
  BY <1>1 DEF EnterCoroutine, TypeOK
<1>3. /\ job'[j].task = t /\ job'[j].run = job[j].run /\ job'[j].kind = job[j].kind
      /\ job'[j].state = job[j].state /\ job'[j].err = job[j].err
      /\ job'[j].pending = job[j].pending /\ job'[j].stop = job[j].stop
  BY <1>1, <1>2 DEF JobRecords
<1>4. Working(j) /\ job[j].pending = NoResult
  BY <1>1, <1>2 DEF Working, LiveTasks, JobShape
<1>5. JobShape(j)'
  BY <1>1, <1>3, <1>4 DEF JobShape, Busy, Working, LiveTasks, Outcome
<1>6. phase # "stopping" => j \in registered /\ Busy(j)
  BY <1>1, <1>4, TaskFacts
<1>7. phase # "stopping" /\ j \in registered /\ job[j].run # NoRun =>
         /\ RowAgrees(j)'
         /\ row'[job[j].run].status = "running" => Busy(j)' \/ job'[j].pending # NoResult
  <2> SUFFICES ASSUME phase # "stopping", j \in registered, job[j].run # NoRun
               PROVE  RowAgrees(j)' /\ Busy(j)'
    OBVIOUS
  <2>1. RowAgrees(j) /\ Busy(j)
    BY <1>1, <1>6, TaskFacts
  <2> QED
    BY <1>2, <1>3, <2>1 DEF RowAgrees, RowOf, Busy, BusyStates, Terminal, Outcome
<1>8. phase = "stopping" =>
         /\ Working(j)' => Working(j) /\ job'[j].stop # "none"
         /\ Busy(j)' => Busy(j)
         /\ job'[j].task # "finish"
  BY <1>3, <1>4 DEF RecordInv, Stopping, Busy
<1>9. PoolReadIsCurrent' /\ row' = row
  BY <1>1, <1>2 DEF PoolReadIsCurrent
<1> HIDE DEF t
<1> QED
  BY <1>1, <1>2, <1>3, <1>5, <1>6, <1>7, <1>8, <1>9, JobStep

LEMMA RestoredRecord ==
    ASSUME Preempt = FALSE, RecordInv, ExclusionInv', LostInWork, NEW j \in Jobs, Restored(j)
    PROVE  RecordInv'
<1>1. /\ job[j] \in JobRecords /\ JobShape(j) /\ pool.pc = "idle" /\ TypeOK /\ NoJob \notin Jobs
      /\ phase \in {"up", "stopping"} /\ loop = NoJob
  BY Facts, TaskFacts DEF Restored
<1>2. /\ job[j].task = "restore" /\ job[j].stop # "due"
      /\ row' = [row EXCEPT ![job[j].run] = RunningRow]
      /\ UNCHANGED <<phase, repro, registered, loop, pool, resuming, cut, crashes>>
      /\ \A i \in Jobs : i # j => job'[i] = job[i]
  BY <1>1 DEF Restored, TypeOK
<1>3. /\ job'[j].task = "body" /\ job'[j].run = job[j].run /\ job'[j].kind = "audit"
      /\ job'[j].state = "running" /\ job'[j].err = job[j].err
      /\ job'[j].pending = job[j].pending /\ job'[j].stop = job[j].stop
  BY <1>1 DEF Restored, TypeOK, JobRecords
<1>4. /\ Working(j) /\ job[j].pending = NoResult /\ job[j].kind = "restore"
      /\ job[j].run # NoRun /\ job[j].run \in Runs
  BY <1>1, <1>2, TaskFacts DEF Working, LiveTasks, JobShape
<1>5. phase = "up" /\ j \in registered
  <2>1. job[j].stop = "none"
    BY <1>1, <1>2 DEF LostInWork, JobRecords, Stops
  <2>a. phase # "stopping"
    BY <1>4, <2>1 DEF RecordInv, Stopping
  <2> QED
    BY <1>1, <1>4, <2>a, TaskFacts
<1>6. JobShape(j)'
  BY <1>3, <1>4 DEF JobShape, Busy, BusyStates, Working, LiveTasks, Outcome
<1>7. row'[job[j].run] = RunningRow /\ \A r \in Runs : r # job[j].run => row'[r] = row[r]
  BY <1>1, <1>2, <1>4 DEF TypeOK
<1>8. RowAgrees(j)' /\ Busy(j)'
  BY <1>3, <1>4, <1>7 DEF RowAgrees, RowOf, RunningRow, Busy, BusyStates, Terminal, Outcome
<1>9. PoolReadIsCurrent'
  BY <1>1, <1>2 DEF PoolReadIsCurrent
<1> QED
  BY <1>1, <1>2, <1>3, <1>5, <1>6, <1>7, <1>8, <1>9, JobStep

LEMMA RestoreEndsRecord ==
    ASSUME Preempt = FALSE, RecordInv, ExclusionInv', NEW j \in Jobs, RestoreEnds(j)
    PROVE  RecordInv'
<1>1. /\ job[j] \in JobRecords /\ JobShape(j) /\ pool.pc = "idle" /\ TypeOK /\ NoJob \notin Jobs
      /\ phase \in {"up", "stopping"} /\ loop = NoJob
  BY Facts, TaskFacts DEF RestoreEnds
<1>2. /\ job[j].task = "restore"
      /\ UNCHANGED <<phase, row, repro, registered, loop, pool, resuming, cut, crashes>>
      /\ \A i \in Jobs : i # j => job'[i] = job[i]
  BY <1>1 DEF RestoreEnds, TypeOK
<1>3. /\ job'[j].task = "done" /\ job'[j].run = job[j].run /\ job'[j].kind = job[j].kind
      /\ job'[j].state \in {"cancelled", "failed"} /\ job'[j].pending = job[j].pending
      /\ job'[j].stop = job[j].stop
  BY <1>1 DEF RestoreEnds, TypeOK, JobRecords
<1>4. /\ Working(j) /\ job[j].pending = NoResult /\ job[j].kind = "restore"
      /\ job[j].run # NoRun /\ job[j].run \in Runs
  BY <1>1, <1>2, TaskFacts DEF Working, LiveTasks, JobShape
<1>5. JobShape(j)'
  BY <1>3, <1>4 DEF JobShape, Busy, BusyStates, Working, LiveTasks, Outcome
<1>6. phase # "stopping" => j \in registered
  BY <1>1, <1>4, TaskFacts
<1>7. phase # "stopping" => RowAgrees(j)' /\ row'[job[j].run].status # "running"
  <2> SUFFICES ASSUME phase # "stopping" PROVE RowAgrees(j)' /\ row'[job[j].run].status # "running"
    OBVIOUS
  <2>1. RowAgrees(j)
    BY <1>1, <1>4, <1>6, TaskFacts
  <2>2. Resumable(row[job[j].run]) /\ row' = row
    BY <1>2, <1>4, <2>1 DEF RowAgrees, RowOf
  <2> QED
    BY <1>3, <1>4, <2>2 DEF RowAgrees, RowOf, Resumable, Busy, BusyStates
<1>8. ~Working(j)' /\ ~Busy(j)'
  BY <1>3 DEF Working, LiveTasks, Busy, BusyStates
<1>9. PoolReadIsCurrent' /\ row' = row
  BY <1>1, <1>2 DEF PoolReadIsCurrent
<1> QED
  BY <1>1, <1>2, <1>3, <1>5, <1>6, <1>7, <1>8, <1>9, JobStep

LEMMA SwallowStopRecord ==
    ASSUME Preempt = FALSE, RecordInv, ExclusionInv', NEW j \in Jobs, SwallowStop(j)
    PROVE  RecordInv'
<1>1. /\ job[j] \in JobRecords /\ JobShape(j) /\ pool.pc = "idle" /\ TypeOK /\ NoJob \notin Jobs
      /\ phase \in {"up", "stopping"} /\ loop = NoJob
  BY Facts, TaskFacts DEF SwallowStop
<1>2. /\ job[j].task = "body"
      /\ UNCHANGED <<phase, row, repro, registered, loop, pool, resuming, cut, crashes>>
      /\ \A i \in Jobs : i # j => job'[i] = job[i]
      /\ job'[j] = [job[j] EXCEPT !.stop = "lost"]
  BY <1>1 DEF SwallowStop, TypeOK
<1>3. /\ job'[j].task = "body" /\ job'[j].run = job[j].run /\ job'[j].kind = job[j].kind
      /\ job'[j].state = job[j].state /\ job'[j].err = job[j].err
      /\ job'[j].pending = job[j].pending /\ job'[j].stop = "lost"
  BY <1>1, <1>2 DEF JobRecords
<1>4. Working(j) /\ job[j].pending = NoResult
  BY <1>1, <1>2 DEF Working, LiveTasks, JobShape
<1>5. JobShape(j)'
  BY <1>1, <1>2, <1>3, <1>4 DEF JobShape, Busy, Working, LiveTasks, Outcome
<1>6. phase # "stopping" => j \in registered /\ Busy(j)
  BY <1>1, <1>4, TaskFacts
<1>7. phase # "stopping" /\ j \in registered /\ job[j].run # NoRun =>
         /\ RowAgrees(j)'
         /\ row'[job[j].run].status = "running" => Busy(j)' \/ job'[j].pending # NoResult
  <2> SUFFICES ASSUME phase # "stopping", j \in registered, job[j].run # NoRun
               PROVE  RowAgrees(j)' /\ Busy(j)'
    OBVIOUS
  <2>1. RowAgrees(j) /\ Busy(j)
    BY <1>1, <1>6, TaskFacts
  <2> QED
    BY <1>2, <1>3, <2>1 DEF RowAgrees, RowOf, Busy, BusyStates, Terminal, Outcome
<1>8. phase = "stopping" =>
         /\ Working(j)' => Working(j) /\ job'[j].stop # "none"
         /\ Busy(j)' => Busy(j)
         /\ job'[j].task # "finish"
  BY <1>3, <1>4 DEF Busy
<1>9. PoolReadIsCurrent' /\ row' = row
  BY <1>1, <1>2 DEF PoolReadIsCurrent
<1> QED
  BY <1>1, <1>2, <1>3, <1>5, <1>6, <1>7, <1>8, <1>9, JobStep

LEMMA BodyEndsRecord ==
    ASSUME Preempt = FALSE, RecordInv, ExclusionInv', NEW j \in Jobs, BodyEnds(j)
    PROVE  RecordInv'
<1>1. /\ job[j] \in JobRecords /\ JobShape(j) /\ pool.pc = "idle" /\ TypeOK /\ NoJob \notin Jobs
      /\ phase \in {"up", "stopping"} /\ loop = NoJob
  BY Facts, TaskFacts DEF BodyEnds
<1>2. /\ job[j].task = "body" /\ loop' = j
      /\ UNCHANGED <<phase, row, repro, registered, pool, resuming, crashes>>
  BY DEF BodyEnds
<1>3. PICK status \in Terminal, error \in BOOLEAN :
         /\ status = "done" => ~error
         /\ cut' = IF phase = "stopping" /\ status = "done"
                   THEN [r \in Runs |-> IF r = job[j].run THEN "none" ELSE cut[r]] ELSE cut
         /\ job' = [job EXCEPT
                      ![j].state = status, ![j].err = error, ![j].task = "finish",
                      ![j].pending = IF job[j].run = NoRun THEN NoResult
                                     ELSE [status |-> status, error |-> error]]
  <2>1. PICK status \in Terminal :
           /\ cut' = IF phase = "stopping" /\ status = "done"
                     THEN [r \in Runs |-> IF r = job[j].run THEN "none" ELSE cut[r]] ELSE cut
           /\ job' = [job EXCEPT
                ![j].state = status,
                ![j].err = (IF status = "cancelled" THEN job[j].err ELSE status = "failed"),
                ![j].task = "finish",
                ![j].pending = IF job[j].run = NoRun THEN NoResult
                               ELSE [status |-> status,
                                     error |-> IF status = "cancelled" THEN job[j].err
                                               ELSE status = "failed"]]
    BY Zenon DEF BodyEnds
  <2> DEFINE error == IF status = "cancelled" THEN job[j].err ELSE status = "failed"
  <2>2. error \in BOOLEAN
    BY <1>1 DEF JobRecords
  <2> QED
    BY <2>1, <2>2
<1>4. /\ \A i \in Jobs : i # j => job'[i] = job[i]
      /\ job'[j].task = "finish" /\ job'[j].run = job[j].run /\ job'[j].kind = job[j].kind
      /\ job'[j].state = status /\ job'[j].err = error
      /\ job'[j].pending = IF job[j].run = NoRun THEN NoResult
                           ELSE [status |-> status, error |-> error]
  BY <1>1, <1>3 DEF TypeOK, JobRecords
<1>5. /\ Working(j) /\ job[j].pending = NoResult /\ job[j].kind # "restore"
      /\ job[j].run \in Runs \cup {NoRun}
  BY <1>1, <1>2, TaskFacts DEF Working, LiveTasks, JobShape
<1>6. [status |-> status, error |-> error] # NoResult /\ status \notin BusyStates
  BY DEF NoResult, Terminal, BusyStates
<1>7. JobShape(j)'
  BY <1>1, <1>2, <1>4, <1>5, <1>6 DEF JobShape, Busy, Working, LiveTasks, Outcome
<1>8. phase # "stopping" => j \in registered /\ Busy(j)
  BY <1>1, <1>5, TaskFacts
<1>9. phase # "stopping" /\ job[j].run # NoRun =>
         RowAgrees(j)' /\ job'[j].pending # NoResult
  <2> SUFFICES ASSUME phase # "stopping", job[j].run # NoRun
               PROVE  RowAgrees(j)' /\ job'[j].pending # NoResult
    OBVIOUS
  <2>1. RowAgrees(j) /\ Busy(j)
    BY <1>1, <1>8, TaskFacts
  <2>2. row[job[j].run].status = "running"
    BY <1>5, <2>1 DEF RowAgrees, RowOf
  <2> QED
    BY <1>2, <1>4, <1>5, <1>6, <2>2 DEF RowAgrees, RowOf, Busy
<1>10. ~Working(j)' /\ ~Busy(j)'
  BY <1>4, <1>6 DEF Working, LiveTasks, Busy
<1>12. phase = "stopping" /\ job[j].run # NoRun =>
         IF job'[j].state = "done" THEN cut'[job[j].run] = "none" /\ ~job'[j].err
                                   ELSE cut'[job[j].run] # "none"
  <2> SUFFICES ASSUME phase = "stopping", job[j].run # NoRun
               PROVE  IF status = "done" THEN cut'[job[j].run] = "none" /\ ~error
                                         ELSE cut'[job[j].run] # "none"
    BY <1>4
  <2>1. cut[job[j].run] # "none"
    BY <1>5 DEF RecordInv, Stopping
  <2> QED BY <1>3, <1>5, <2>1
<1>13. \/ cut' = cut
       \/ /\ phase = "stopping" /\ j \in registered
          /\ \A r \in Runs : cut'[r] = IF r = job[j].run THEN "none" ELSE cut[r]
  BY <1>3, <1>5 DEF RecordInv, Stopping
<1>11. PoolReadIsCurrent' /\ row' = row
  BY <1>1, <1>2 DEF PoolReadIsCurrent
<1> QED
  BY <1>1, <1>2, <1>4, <1>5, <1>7, <1>8, <1>9, <1>10, <1>11, <1>12, <1>13, JobStep

(***************************************************************************)
(* A write that raises after its UPDATE leaves the row as a write that     *)
(* returns does; one that raises before it leaves row and result alone.    *)
(***************************************************************************)
LEMMA Outcomes ==
    ASSUME NEW o \in FinishOutcomes
    PROVE  o[2] => o[1]
<1>1. CASE o = <<TRUE, TRUE>>
  BY <1>1
<1>2. CASE o = <<TRUE, FALSE>>
  BY <1>2
<1>3. CASE o = <<FALSE, FALSE>>
  BY <1>3
<1> QED
  BY <1>1, <1>2, <1>3 DEF FinishOutcomes

\* A result is no state of a running row, and can be continued if cancelled.
LEMMA ResultFacts ==
    ASSUME NEW p \in Results
    PROVE  /\ p.status \in Terminal /\ p.status # "running" /\ p # NoResult
           /\ p.status \in {"cancelled", "failed"} => Continuable(p)
BY DEF Results, Terminal, NoResult, Continuable, Resumable

LEMMA RecordRunRecord ==
    ASSUME Preempt = FALSE, RecordInv, ExclusionInv', NEW j \in Jobs, RecordRun(j)
    PROVE  RecordInv'
<1>1. /\ job[j] \in JobRecords /\ JobShape(j) /\ pool.pc = "idle" /\ TypeOK /\ NoJob \notin Jobs
      /\ phase \in {"up", "stopping"} \/ phase = "booting"
      /\ phase # "stopping" => j \in registered
  BY Facts, TaskFacts DEF RecordRun
<1>2. /\ loop = j /\ job[j].task = "finish" /\ loop' = NoJob
      /\ job[j].kind # "reproduction" /\ job[j].kind # "restore" /\ ~Busy(j)
      /\ UNCHANGED <<phase, repro, registered, pool, resuming, cut, crashes>>
  BY <1>1 DEF RecordRun, JobShape
<1>3. /\ job[j].run \in Runs \cup {NoRun}
      /\ job[j].run # NoRun => job[j].pending \in Results /\ job[j].pending = Outcome(j)
      /\ job[j].run = NoRun => job[j].pending = NoResult
  BY <1>1, <1>2, TaskFacts DEF JobShape
<1>4. /\ \A i \in Jobs : i # j => job'[i] = job[i]
      /\ job'[j].task = "done" /\ job'[j].run = job[j].run /\ job'[j].kind = job[j].kind
      /\ job'[j].state = job[j].state /\ job'[j].err = job[j].err
      /\ job'[j].pending \in {job[j].pending, NoResult}
  BY <1>1 DEF RecordRun, TypeOK, JobRecords
<1>5. /\ \A r \in Runs : r # job[j].run => row'[r] = row[r]
      /\ job[j].run = NoRun => row' = row
      /\ job[j].run # NoRun =>
            \/ row'[job[j].run] = job[j].pending
            \/ row' = row /\ job'[j].pending = job[j].pending
  <2>1. CASE job[j].pending = NoResult
    BY <1>3, <2>1, ResultFacts DEF RecordRun
  <2>2. CASE job[j].pending # NoResult
    <3>1. job[j].run \in Runs
      BY <1>3, <2>2
    <3>2. PICK o \in FinishOutcomes :
             /\ row' = IF o[1] THEN [row EXCEPT ![job[j].run] = job[j].pending] ELSE row
             /\ job'[j].pending = IF o[2] THEN NoResult ELSE job[j].pending
      <4>1. PICK o \in FinishOutcomes :
               /\ row' = IF o[1] THEN [row EXCEPT ![job[j].run] = job[j].pending] ELSE row
               /\ job' = [job EXCEPT ![j].task = "done",
                                     ![j].pending = IF o[2] THEN NoResult ELSE @]
        BY <2>2, Zenon DEF RecordRun
      <4>2. job'[j].pending = IF o[2] THEN NoResult ELSE job[j].pending
        BY <1>1, <4>1 DEF TypeOK, JobRecords
      <4> QED
        BY <4>1, <4>2, Zenon
    <3>3. CASE o[1]
      <4>1. row' = [row EXCEPT ![job[j].run] = job[j].pending]
        BY <3>2, <3>3, Zenon
      <4> QED
        BY <1>1, <3>1, <4>1, ConstantsAssumption DEF TypeOK
    <3>4. CASE ~o[1]
      <4>1. row' = row /\ ~o[2]
        BY <3>2, <3>4, Outcomes
      <4> QED
        BY <3>1, <3>2, <4>1
    <3> QED
      BY <3>1, <3>3, <3>4
  <2> QED
    BY <2>1, <2>2
<1>6. ~Busy(j)' /\ ~Working(j)'
  BY <1>2, <1>4 DEF Busy, Working, LiveTasks
<1>7. JobShape(j)'
  BY <1>1, <1>2, <1>3, <1>4, <1>6 DEF JobShape, Outcome
<1>8. phase # "stopping" /\ job[j].run # NoRun =>
         /\ RowAgrees(j)'
         /\ row'[job[j].run].status = "running" => Busy(j)' \/ job'[j].pending # NoResult
  <2> SUFFICES ASSUME phase # "stopping", job[j].run # NoRun
               PROVE  /\ RowAgrees(j)'
                      /\ row'[job[j].run].status = "running" => job'[j].pending # NoResult
    OBVIOUS
  <2>1. job[j].pending \in Results /\ job[j].pending = Outcome(j)
    BY <1>3
  <2>2. job[j].pending.status # "running" /\ job[j].pending # NoResult
    BY <2>1, ResultFacts
  <2>3. RowAgrees(j)
    BY <1>1, TaskFacts
  <2>4. CASE row'[job[j].run] = job[j].pending
    BY <1>2, <1>4, <1>6, <2>1, <2>2, <2>4 DEF RowAgrees, RowOf, Outcome
  <2>5. CASE row' = row /\ job'[j].pending = job[j].pending
    BY <1>2, <1>4, <1>6, <2>2, <2>3, <2>5 DEF RowAgrees, RowOf, Outcome
  <2> QED
    BY <1>5, <2>4, <2>5
<1>9. phase = "stopping" /\ job[j].run # NoRun =>
         \/ row'[job[j].run] = row[job[j].run]
         \/ Continuable(row'[job[j].run])
         \/ cut[job[j].run] = "none"
  <2> SUFFICES ASSUME phase = "stopping", job[j].run # NoRun, cut[job[j].run] # "none",
                      row'[job[j].run] = job[j].pending
               PROVE  Continuable(row'[job[j].run])
    BY <1>5
  <2>1. job[j].state # "done"
    BY <1>2 DEF RecordInv, Stopping
  <2>2. job[j].pending \in Results /\ job[j].pending.status \in {"cancelled", "failed"}
    <3>1. job[j].pending \in Results /\ job[j].pending.status = job[j].state
      BY <1>3 DEF Outcome
    <3> QED
      BY <2>1, <3>1, ResultFacts DEF Terminal
  <2> QED
    BY <2>2, ResultFacts
<1>10. PoolReadIsCurrent' /\ phase' = phase /\ registered' = registered /\ cut' = cut
  BY <1>1, <1>2 DEF PoolReadIsCurrent
<1> QED
  BY <1>1, <1>2, <1>4, <1>5, <1>6, <1>7, <1>8, <1>9, <1>10, JobStep

\* The steps of a retest after its work: it has no run.
LEMMA RetestRecord ==
    ASSUME Preempt = FALSE, RecordInv, ExclusionInv', NEW j \in Jobs,
           RecordReproduction(j) \/ WorktreeRemoved(j)
    PROVE  RecordInv'
<1>1. /\ job[j] \in JobRecords /\ JobShape(j) /\ pool.pc = "idle" /\ TypeOK /\ NoJob \notin Jobs
      /\ phase \in {"up", "stopping"} \/ (phase = "booting" /\ loop = j)
      /\ loop \in {NoJob, j}
  BY Facts, TaskFacts DEF RecordReproduction, WorktreeRemoved
<1>2. /\ job[j].task \in {"finish", "cleanup"} /\ loop' = NoJob /\ job[j].kind = "reproduction"
      /\ UNCHANGED <<phase, row, registered, pool, resuming, cut, crashes>>
      /\ \A i \in Jobs : i # j => job'[i] = job[i]
  BY <1>1, TaskFacts DEF RecordReproduction, WorktreeRemoved, JobShape, TypeOK
<1>3. /\ job'[j].task \in {"cleanup", "done"} /\ job'[j].run = job[j].run
      /\ job'[j].kind = job[j].kind /\ job'[j].state = job[j].state
      /\ job'[j].err = job[j].err /\ job'[j].pending = job[j].pending
  BY <1>1 DEF RecordReproduction, WorktreeRemoved, TypeOK, JobRecords
<1>4. job[j].run = NoRun
  BY <1>1, <1>2 DEF JobShape
<1>5. ~Working(j)' /\ (Busy(j)' => Busy(j))
  BY <1>3 DEF Working, LiveTasks, Busy
<1>6. JobShape(j)'
  BY <1>1, <1>2, <1>3, <1>4, <1>5 DEF JobShape, Outcome
<1>7. PoolReadIsCurrent' /\ row' = row
  BY <1>1, <1>2 DEF PoolReadIsCurrent
<1> QED
  BY <1>1, <1>2, <1>3, <1>4, <1>5, <1>6, <1>7, JobStep

-----------------------------------------------------------------------------
(* Handlers in the thread pool, and the end of a shutdown's wait *)

\* A step that changes none of the jobs, rows, registrations and notes.
LEMMA IdleStep ==
    ASSUME RecordInv, ExclusionInv', PoolReadIsCurrent',
           phase' = phase \/ (phase = "booting" /\ phase' = "up"),
           UNCHANGED <<row, job, registered, loop, cut>>
    PROVE  RecordInv'
<1>1. \A j \in Jobs : JobShape(j)'
  BY ShapeFrame DEF RecordInv
<1>2. Serving'
  <2>1. registered \subseteq Jobs
    BY Facts
  <2>2. \A j \in registered : RowAgrees(j) => RowAgrees(j)'
    BY <2>1, RowFrame
  <2>3. \A r \in Runs : Owned(r) => Owned(r)'
    BY DEF Owned, Busy
  <2> QED
    BY <2>2, <2>3 DEF RecordInv, Serving
<1>3. Stopping' /\ CutIsContinuable'
  BY DEF RecordInv, Stopping, Working, Busy, CutIsContinuable
<1> QED
  BY <1>1, <1>2, <1>3 DEF RecordInv, DownIsIdle

LEMMA PoolLooksRecord ==
    ASSUME Preempt = FALSE, RecordInv, ExclusionInv', NEW j \in Jobs,
           PoolLooks(j) \/ PoolChoosesToPrune(j)
    PROVE  RecordInv'
<1>1. UNCHANGED <<phase, row, job, registered, loop, cut>>
  BY DEF PoolLooks, PoolChoosesToPrune
<1>2. PoolReadIsCurrent'
  <2>1. CASE PoolLooks(j)
    BY <1>1, <2>1 DEF PoolLooks, PoolReadIsCurrent, Busy, Unsaved
  <2>2. CASE PoolChoosesToPrune(j)
    BY <1>1, <2>2 DEF PoolChoosesToPrune, PoolReadIsCurrent, Busy, Terminal, BusyStates
  <2> QED
    BY <2>1, <2>2
<1> QED
  BY <1>1, <1>2, IdleStep

LEMMA PoolReconcilesRecord ==
    ASSUME Preempt = FALSE, RecordInv, ExclusionInv', NEW j \in Jobs, PoolReconciles(j)
    PROVE  RecordInv'
<1>1. /\ job[j] \in JobRecords /\ JobShape(j) /\ TypeOK /\ NoJob \notin Jobs
      /\ job[j].run \in Runs \cup {NoRun}
      /\ phase = "up" /\ loop = NoJob /\ pool.pc = "reconcile" /\ pool.job = j
  BY Facts, TaskFacts DEF PoolReconciles, PoolMayRun
<1>2. /\ pool' = IdlePool
      /\ UNCHANGED <<phase, repro, registered, loop, resuming, cut, crashes>>
  BY DEF PoolReconciles
<1>3. PoolReadIsCurrent'
  BY <1>2 DEF PoolReadIsCurrent, IdlePool
<1>4. j \in registered /\ Busy(j) /\ job[j].pending = NoResult
  BY <1>1 DEF RecordInv, PoolReadIsCurrent, JobShape
<1>5. CASE TaskGone(j)
  <2>1. /\ \A i \in Jobs : i # j => job'[i] = job[i]
        /\ job'[j].state = "cancelled" /\ job'[j].err = TRUE /\ job'[j].run = job[j].run
        /\ job'[j].task = job[j].task /\ job'[j].kind = job[j].kind
        /\ job'[j].pending = job[j].pending
    BY <1>1, <1>5 DEF PoolReconciles, TypeOK, JobRecords
  <2>2. \A r \in Runs : row'[r] = IF r = job[j].run /\ row[r].status = "running"
                                  THEN CancelledRow ELSE row[r]
    BY <1>5 DEF PoolReconciles
  <2>3. \A r \in Runs : r # job[j].run => row'[r] = row[r]
    BY <2>2
  <2>4. ~Busy(j)' /\ ~Working(j)'
    BY <1>5, <2>1 DEF Busy, BusyStates, TaskGone, Working, LiveTasks
  <2>5. JobShape(j)'
    BY <1>1, <1>2, <1>4, <1>5, <2>1, <2>4 DEF JobShape, TaskGone
  <2>6. job[j].run # NoRun => RowAgrees(j)' /\ row'[job[j].run].status # "running"
    <3> SUFFICES ASSUME job[j].run # NoRun
                 PROVE  RowAgrees(j)' /\ row'[job[j].run].status # "running"
      OBVIOUS
    <3>1. job[j].run \in Runs /\ RowAgrees(j)
      BY <1>1, <1>4, TaskFacts
    <3>2. CASE job[j].kind = "restore"
      <4>1. Resumable(row[job[j].run]) /\ row[job[j].run].status # "running"
        BY <3>1, <3>2 DEF RowAgrees, RowOf, Resumable
      <4>2. row'[job[j].run] = row[job[j].run]
        BY <2>2, <3>1, <4>1
      <4> QED
        BY <1>4, <2>1, <2>4, <3>2, <4>1, <4>2 DEF RowAgrees, RowOf
    <3>3. CASE job[j].kind # "restore"
      <4>1. row[job[j].run].status = "running"
        BY <1>4, <3>1, <3>3 DEF RowAgrees, RowOf
      <4>2. row'[job[j].run] = CancelledRow
        BY <2>2, <3>1, <4>1
      <4>3. Outcome(j)' = CancelledRow
        BY <2>1 DEF Outcome, CancelledRow
      <4>4. CancelledRow.status # "running"
        BY DEF CancelledRow
      <4> QED
        BY <1>4, <2>1, <2>4, <3>3, <4>2, <4>3, <4>4 DEF RowAgrees, RowOf
    <3> QED
      BY <3>2, <3>3
  <2> QED
    BY <1>1, <1>2, <1>3, <1>4, <2>1, <2>3, <2>5, <2>6, JobStep
<1>6. CASE ~TaskGone(j)
  BY <1>2, <1>3, <1>6, IdleStep DEF PoolReconciles
<1> QED
  BY <1>5, <1>6

LEMMA PoolWritesRecord ==
    ASSUME Preempt = FALSE, RecordInv, ExclusionInv', NEW j \in Jobs, PoolWrites(j)
    PROVE  RecordInv'
<1>1. /\ job[j] \in JobRecords /\ JobShape(j) /\ TypeOK /\ NoJob \notin Jobs
      /\ phase = "up" /\ loop = NoJob /\ pool.pc = "write" /\ pool.job = j
  BY Facts, TaskFacts DEF PoolWrites, PoolMayRun
<1>2. /\ pool' = IdlePool
      /\ UNCHANGED <<phase, repro, registered, loop, resuming, cut, crashes>>
  BY DEF PoolWrites
<1>3. PoolReadIsCurrent'
  BY <1>2 DEF PoolReadIsCurrent, IdlePool
<1>4. j \in registered /\ pool.result = job[j].pending /\ job[j].pending # NoResult
  BY <1>1 DEF RecordInv, PoolReadIsCurrent
<1>5. /\ job[j].run \in Runs /\ job[j].run # NoRun
      /\ job[j].pending \in Results /\ job[j].pending = Outcome(j)
      /\ ~Busy(j) /\ ~Working(j) /\ job[j].task # "finish" /\ job[j].kind # "restore"
      /\ RowAgrees(j)
  BY <1>1, <1>4, TaskFacts, ConstantsAssumption DEF JobShape
<1>6. PICK o \in FinishOutcomes :
         /\ row' = IF o[1] THEN [row EXCEPT ![job[j].run] = pool.result] ELSE row
         /\ job' = IF o[2] THEN [job EXCEPT ![j].pending = NoResult] ELSE job
  BY Zenon DEF PoolWrites
<1>7. \/ /\ row' = [row EXCEPT ![job[j].run] = job[j].pending]
         /\ job' = [job EXCEPT ![j].pending = NoResult]
      \/ row' = [row EXCEPT ![job[j].run] = job[j].pending] /\ job' = job
      \/ row' = row /\ job' = job
  BY <1>4, <1>6, Outcomes, Zenon
<1>8. /\ \A i \in Jobs : i # j => job'[i] = job[i]
      /\ \A r \in Runs : r # job[j].run => row'[r] = row[r]
      /\ job'[j].state = job[j].state /\ job'[j].err = job[j].err /\ job'[j].run = job[j].run
      /\ job'[j].task = job[j].task /\ job'[j].kind = job[j].kind
      /\ \/ row'[job[j].run] = job[j].pending /\ job'[j].pending \in {job[j].pending, NoResult}
         \/ row'[job[j].run] = row[job[j].run] /\ job'[j].pending = job[j].pending
  BY <1>1, <1>5, <1>7 DEF TypeOK, JobRecords
<1>9. ~Busy(j)' /\ ~Working(j)'
  BY <1>5, <1>8 DEF Busy, Working
<1>10. JobShape(j)'
  BY <1>1, <1>2, <1>5, <1>8, <1>9 DEF JobShape, Outcome
<1>11. /\ RowAgrees(j)'
       /\ row'[job[j].run].status = "running" => job'[j].pending # NoResult
  <2>1. job[j].pending.status # "running" /\ job[j].pending # NoResult
    BY <1>5, ResultFacts
  <2> QED
    BY <1>5, <1>8, <1>9, <2>1 DEF RowAgrees, RowOf, Outcome
<1> QED
  BY <1>1, <1>2, <1>3, <1>4, <1>8, <1>10, <1>11, JobStep

\* Only the ended job itself is dropped, and it owned no running row.
LEMMA PoolPrunesRecord ==
    ASSUME Preempt = FALSE, RecordInv, ExclusionInv', NEW j \in Jobs, PoolPrunes(j)
    PROVE  RecordInv'
<1>1. /\ phase = "up" /\ loop = NoJob /\ pool.pc = "prune" /\ pool.job = j
      /\ registered' = {i \in registered : ~SameKey(i, j)} /\ pool' = IdlePool
      /\ UNCHANGED <<phase, row, repro, job, loop, resuming, cut, crashes>>
      /\ registered \subseteq Jobs /\ NoJob \notin Jobs
  BY Facts DEF PoolPrunes, PoolMayRun
<1>2. j \in registered /\ ~Busy(j) /\ job[j].pending = NoResult
  BY <1>1 DEF RecordInv, PoolReadIsCurrent
<1>3. registered' = registered \ {j}
  BY <1>1, <1>2 DEF RecordInv, ExclusionInv, KeysUnique, SameKey
<1>4. \A i \in Jobs : JobShape(i)'
  BY <1>1, ShapeFrame DEF RecordInv
<1>5. PoolReadIsCurrent' /\ Stopping' /\ CutIsContinuable'
  BY <1>1 DEF PoolReadIsCurrent, IdlePool, Stopping, RecordInv, CutIsContinuable
<1>6. Serving'
  <2>1. \A i \in registered' : job'[i].run # NoRun => RowAgrees(i)'
    BY <1>1, <1>3, RowFrame DEF RecordInv, Serving
  <2>2. ASSUME NEW r \in Runs, row'[r].status = "running" PROVE Owned(r)'
    <3>1. PICK i \in registered : job[i].run = r /\ (Busy(i) \/ job[i].pending # NoResult)
      BY <1>1, <2>2 DEF RecordInv, Serving, Owned
    <3>2. i # j
      BY <1>2, <3>1
    <3> QED
      BY <1>1, <1>3, <3>1, <3>2 DEF Owned, Busy
  <2> QED
    BY <1>1, <2>1, <2>2 DEF RecordInv, Serving
<1> QED
  BY <1>1, <1>4, <1>5, <1>6 DEF RecordInv, DownIsIdle

LEMMA StopRecord ==
    ASSUME Preempt = FALSE, RecordInv, ExclusionInv', NEW j \in Jobs, Stop(j)
    PROVE  RecordInv'
<1>1. /\ job[j] \in JobRecords /\ JobShape(j) /\ TypeOK /\ NoJob \notin Jobs
      /\ phase = "up" /\ loop = NoJob /\ pool.pc = "idle" /\ j \in registered
      /\ Busy(j) /\ ~TaskGone(j)
      /\ UNCHANGED <<phase, row, repro, registered, loop, pool, resuming, cut, crashes>>
  BY Facts, TaskFacts DEF Stop, PoolMayRun
<1>2. /\ \A i \in Jobs : i # j => job'[i] = job[i]
      /\ job'[j].state = job[j].state /\ job'[j].run = job[j].run
      /\ job'[j].task = job[j].task /\ job'[j].kind = job[j].kind
      /\ job'[j].pending = job[j].pending
  BY <1>1 DEF Stop, TypeOK, JobRecords
<1>3. Busy(j)' /\ job[j].pending = NoResult
  BY <1>1, <1>2 DEF Busy, JobShape
<1>4. JobShape(j)'
  BY <1>1, <1>2, <1>3 DEF JobShape, Busy
<1>5. job[j].run # NoRun => RowAgrees(j)'
  <2>1. job[j].run # NoRun => RowAgrees(j)
    BY <1>1, TaskFacts
  <2> QED
    BY <1>1, <1>2, <1>3, <2>1 DEF RowAgrees, RowOf, Busy, BusyStates, Terminal
<1>6. PoolReadIsCurrent' /\ row' = row
  BY <1>1 DEF PoolReadIsCurrent
<1> QED
  BY <1>1, <1>2, <1>3, <1>4, <1>5, <1>6, JobStep

LEMMA ShutdownTimesOutRecord ==
    ASSUME Preempt = FALSE, RecordInv, ExclusionInv', NEW j \in Jobs, ShutdownTimesOut(j)
    PROVE  RecordInv'
<1>1. /\ job[j] \in JobRecords /\ JobShape(j) /\ TypeOK /\ NoJob \notin Jobs
      /\ phase = "stopping" /\ loop = NoJob /\ pool.pc = "idle" /\ Busy(j)
      /\ UNCHANGED <<phase, repro, registered, loop, pool, resuming, cut, crashes>>
      /\ job[j].run \in Runs \cup {NoRun}
  BY Facts, TaskFacts DEF ShutdownTimesOut, LoopFree
<1>2. /\ \A i \in Jobs : i # j => job'[i] = job[i]
      /\ job'[j].state = "cancelled" /\ job'[j].run = job[j].run
      /\ job'[j].task = job[j].task /\ job'[j].kind = job[j].kind
      /\ job'[j].pending = job[j].pending /\ job'[j].stop = job[j].stop
  BY <1>1 DEF ShutdownTimesOut, TypeOK, JobRecords
<1>3. \A r \in Runs : row'[r] = IF r = job[j].run /\ row[r].status = "running"
                                THEN CancelledRow ELSE row[r]
  BY DEF ShutdownTimesOut
<1>4. /\ \A r \in Runs : r # job[j].run => row'[r] = row[r]
      /\ job[j].run # NoRun => \/ row'[job[j].run] = row[job[j].run]
                               \/ Continuable(row'[job[j].run])
  BY <1>1, <1>3 DEF Continuable, Resumable, CancelledRow
<1>5. ~Busy(j)' /\ job[j].pending = NoResult /\ job[j].task # "finish"
  BY <1>1, <1>2 DEF Busy, BusyStates, JobShape
<1>6. JobShape(j)'
  BY <1>1, <1>2, <1>5 DEF JobShape, Busy, Working
<1>7. Working(j)' => Working(j) /\ job'[j].stop # "none"
  BY <1>1, <1>2 DEF RecordInv, Stopping, Working
<1>8. PoolReadIsCurrent'
  BY <1>1 DEF PoolReadIsCurrent
<1> QED
  BY <1>1, <1>2, <1>4, <1>5, <1>6, <1>7, <1>8, JobStep

-----------------------------------------------------------------------------
(* The survey *)

\* What a survey leaves alone, releases, and forgets.
LEMMA SurveyFacts ==
    ASSUME RecordInv, loop = NoJob, NEW s \in Surveys
    PROVE  /\ s.wrote \subseteq registered /\ s.cleared \subseteq s.wrote
           /\ s.old \subseteq registered
           /\ \A j \in s.wrote : ~Busy(j) /\ job[j].pending # NoResult /\ job[j].run # NoRun
           /\ \A j \in s.old : ~Busy(j) /\ (job[j].pending = NoResult \/ j \in s.cleared)
           /\ \A j \in registered : Orphaned(j) => job[j].pending = NoResult
<1>1. registered \subseteq Jobs /\ \A j \in Jobs : JobShape(j)
  BY Facts DEF RecordInv
<1>2. /\ s.wrote \subseteq {j \in registered : Unsaved(j)} /\ s.cleared \subseteq s.wrote
      /\ s.old \subseteq {j \in registered : job[j].state \in Terminal
                              /\ (job[j].pending = NoResult \/ j \in s.cleared)}
  BY DEF Surveys
<1>3. \A j \in s.wrote : j \in registered /\ ~Busy(j) /\ job[j].pending # NoResult
  BY <1>2 DEF Unsaved
<1>4. \A j \in s.old : ~Busy(j)
  BY <1>2 DEF Busy, BusyStates, Terminal
<1> QED
  BY <1>1, <1>2, <1>3, <1>4 DEF JobShape, Orphaned

\* The row a survey leaves a registered job's run with depends on that job alone.
LEMMA SurveyedRowOfJob ==
    ASSUME RecordInv, loop = NoJob, NEW s \in Surveys, NEW j \in registered, job[j].run # NoRun
    PROVE  SurveyedRow(job[j].run, s) =
              IF Orphaned(j) /\ row[job[j].run].status = "running" THEN CancelledRow
              ELSE IF j \in s.wrote THEN job[j].pending ELSE row[job[j].run]
<1> DEFINE r == job[j].run
<1>1. s.wrote \subseteq registered
  BY SurveyFacts
<1>2. \A i \in registered : job[i].run = r => i = j
  BY OneKey
<1>3. (\E i \in registered : Orphaned(i) /\ job[i].run = r /\ row[r].status = "running")
         <=> Orphaned(j) /\ row[r].status = "running"
  BY <1>2
<1>4. (\E i \in s.wrote : job[i].run = r) <=> j \in s.wrote
  BY <1>1, <1>2
<1>5. j \in s.wrote => (CHOOSE i \in s.wrote : job[i].run = r) = j
  BY <1>1, <1>2
<1> HIDE DEF r
<1>6. SurveyedRow(r, s) = IF Orphaned(j) /\ row[r].status = "running" THEN CancelledRow
                          ELSE IF j \in s.wrote THEN job[j].pending ELSE row[r]
  BY <1>3, <1>4, <1>5 DEF SurveyedRow
<1> QED
  BY <1>6 DEF r

\* A row a survey leaves running is owned by a job it does not touch.
LEMMA SurveyedOwned ==
    ASSUME RecordInv, loop = NoJob, phase \in {"up", "booting"}, NEW s \in Surveys,
           NEW r \in Runs, SurveyedRow(r, s).status = "running"
    PROVE  \E j \in registered \ s.old :
              /\ SurveyedJob(j, s) = job[j] /\ job[j].run = r
              /\ Busy(j) \/ job[j].pending # NoResult
<1>1. /\ registered \subseteq Jobs /\ NoRun \notin Runs /\ s.wrote \subseteq registered
      /\ s.cleared \subseteq s.wrote
      /\ \A j \in s.old : ~Busy(j) /\ (job[j].pending = NoResult \/ j \in s.cleared)
      /\ \A j \in Jobs : job[j] \in JobRecords
  BY Facts, SurveyFacts
<1>2. row[r].status = "running"
  <2>1. SUFFICES ASSUME SurveyedRow(r, s) # row[r] PROVE FALSE
    OBVIOUS
  <2>2. CASE \E j \in registered : Orphaned(j) /\ job[j].run = r /\ row[r].status = "running"
    BY <2>1, <2>2 DEF SurveyedRow, CancelledRow
  <2>3. CASE ~\E j \in registered : Orphaned(j) /\ job[j].run = r /\ row[r].status = "running"
    <3>1. \E j \in s.wrote : job[j].run = r
      BY <2>1, <2>3 DEF SurveyedRow
    <3> DEFINE w == CHOOSE j \in s.wrote : job[j].run = r
    <3>2. w \in s.wrote /\ SurveyedRow(r, s) = job[w].pending
      BY <2>3, <3>1 DEF SurveyedRow
    <3> HIDE DEF w
    <3>3. job[w].pending \in Results
      BY <1>1, <3>2, SurveyFacts DEF JobRecords
    <3> QED
      BY <3>2, <3>3, ResultFacts
  <2> QED
    BY <2>2, <2>3
<1>3. PICK j \in registered : job[j].run = r /\ (Busy(j) \/ job[j].pending # NoResult)
  BY <1>2 DEF RecordInv, Serving, Owned
<1>4. SurveyedRow(r, s) = IF Orphaned(j) /\ row[r].status = "running" THEN CancelledRow
                          ELSE IF j \in s.wrote THEN job[j].pending ELSE row[r]
  BY <1>1, <1>3, SurveyedRowOfJob
<1>5. ~Orphaned(j)
  BY <1>2, <1>4 DEF CancelledRow
<1>6. j \notin s.wrote
  <2>1. j \in s.wrote => job[j].pending \in Results
    BY <1>1, SurveyFacts DEF JobRecords
  <2> QED
    BY <1>4, <1>5, <2>1, ResultFacts
<1>7. j \notin s.cleared /\ j \notin s.old
  BY <1>1, <1>3, <1>6
<1> QED
  BY <1>3, <1>5, <1>7 DEF SurveyedJob

\* A survey keeps a job's shape and its agreement with the row.
LEMMA SurveyedShape ==
    ASSUME RecordInv, loop = NoJob, NEW s \in Surveys, NEW j \in Jobs,
           job'[j] = SurveyedJob(j, s)
    PROVE  JobShape(j)'
<1>1. /\ JobShape(j) /\ job[j] \in JobRecords /\ job[j].task # "finish"
  BY Facts DEF RecordInv, JobShape
<1>2. CASE j \in registered /\ Orphaned(j)
  <2>1. job'[j] = [job[j] EXCEPT !.state = "cancelled", !.err = TRUE]
    BY <1>2 DEF SurveyedJob
  <2>2. /\ job'[j].state = "cancelled" /\ job'[j].run = job[j].run
        /\ job'[j].task = job[j].task /\ job'[j].kind = job[j].kind
        /\ job'[j].pending = job[j].pending /\ Busy(j) /\ TaskGone(j)
    BY <1>1, <1>2, <2>1 DEF JobRecords, Orphaned
  <2> QED
    BY <1>1, <2>2 DEF JobShape, Busy, Working, TaskGone
<1>3. CASE ~(j \in registered /\ Orphaned(j)) /\ j \in s.cleared
  <2>1. job'[j] = [job[j] EXCEPT !.pending = NoResult]
    BY <1>3 DEF SurveyedJob
  <2>2. /\ job'[j].state = job[j].state /\ job'[j].run = job[j].run
        /\ job'[j].task = job[j].task /\ job'[j].kind = job[j].kind
        /\ job'[j].pending = NoResult
    BY <1>1, <2>1 DEF JobRecords
  <2> QED
    BY <1>1, <2>2 DEF JobShape
<1>4. CASE ~(j \in registered /\ Orphaned(j)) /\ j \notin s.cleared
  <2>1. job'[j] = job[j]
    BY <1>4 DEF SurveyedJob
  <2> QED
    BY <1>1, <2>1, ShapeFrame
<1> QED
  BY <1>2, <1>3, <1>4

LEMMA SurveyedAgrees ==
    ASSUME RecordInv, loop = NoJob, phase \in {"up", "booting"}, NEW s \in Surveys,
           NEW j \in registered, job[j].run # NoRun,
           job'[j] = SurveyedJob(j, s), row'[job[j].run] = SurveyedRow(job[j].run, s)
    PROVE  RowAgrees(j)'
<1>1. /\ JobShape(j) /\ job[j] \in JobRecords /\ RowAgrees(j) /\ j \in Jobs
      /\ row'[job[j].run] = IF Orphaned(j) /\ row[job[j].run].status = "running"
                            THEN CancelledRow
                            ELSE IF j \in s.wrote THEN job[j].pending ELSE row[job[j].run]
  BY Facts, SurveyedRowOfJob DEF RecordInv, Serving
<1>2. /\ s.cleared \subseteq s.wrote
      /\ j \in s.wrote => ~Busy(j) /\ job[j].pending # NoResult /\ job[j].pending \in Results
  BY <1>1, SurveyFacts DEF JobRecords
<1>3. CASE Orphaned(j)
  <2>1. job'[j] = [job[j] EXCEPT !.state = "cancelled", !.err = TRUE]
    BY <1>3 DEF SurveyedJob
  <2>2. /\ job'[j].state = "cancelled" /\ job'[j].err = TRUE /\ job'[j].run = job[j].run
        /\ job'[j].task = job[j].task /\ job'[j].kind = job[j].kind
        /\ job'[j].pending = NoResult /\ Busy(j)
    BY <1>1, <1>3, <2>1 DEF JobRecords, Orphaned, JobShape
  <2>3. ~Busy(j)'
    BY <2>2 DEF Busy, BusyStates
  <2>4. CASE job[j].kind = "restore"
    <3>1. Resumable(row[job[j].run]) /\ row'[job[j].run] = row[job[j].run]
      BY <1>1, <1>2, <2>2, <2>4 DEF RowAgrees, RowOf, Resumable
    <3> QED
      BY <2>2, <2>3, <2>4, <3>1 DEF RowAgrees, RowOf
  <2>5. CASE job[j].kind # "restore"
    <3>1. row'[job[j].run] = CancelledRow
      BY <1>1, <1>3, <2>2, <2>5 DEF RowAgrees, RowOf
    <3>2. Outcome(j)' = CancelledRow
      BY <2>2 DEF Outcome, CancelledRow
    <3> QED
      BY <2>2, <2>3, <2>5, <3>1, <3>2 DEF RowAgrees, RowOf
  <2> QED
    BY <2>4, <2>5
<1>4. CASE ~Orphaned(j) /\ j \in s.cleared
  <2>1. job'[j] = [job[j] EXCEPT !.pending = NoResult]
    BY <1>4 DEF SurveyedJob
  <2>2. /\ job'[j].state = job[j].state /\ job'[j].run = job[j].run /\ job'[j].err = job[j].err
        /\ job'[j].task = job[j].task /\ job'[j].kind = job[j].kind
        /\ job'[j].pending = NoResult
    BY <1>1, <2>1 DEF JobRecords
  <2>3. row'[job[j].run] = Outcome(j) /\ ~Busy(j) /\ job[j].kind # "restore"
    BY <1>1, <1>2, <1>4 DEF JobShape
  <2> QED
    BY <2>2, <2>3 DEF RowAgrees, RowOf, Outcome, Busy
<1>5. CASE ~Orphaned(j) /\ j \notin s.cleared
  <2>1. job'[j] = job[j]
    BY <1>5 DEF SurveyedJob
  <2>2. CASE j \in s.wrote
    <3>1. row'[job[j].run] = job[j].pending /\ ~Busy(j) /\ job[j].kind # "restore"
      BY <1>1, <1>2, <1>5, <2>2 DEF JobShape
    <3> QED
      BY <1>2, <2>1, <2>2, <3>1 DEF RowAgrees, RowOf, Busy
  <2>3. CASE j \notin s.wrote
    BY <1>1, <1>5, <2>1, <2>3, RowFrame
  <2> QED
    BY <2>2, <2>3
<1> QED
  BY <1>3, <1>4, <1>5

LEMMA SurveyRecord ==
    ASSUME Preempt = FALSE, RecordInv, ExclusionInv', Survey
    PROVE  RecordInv'
<1>1. PICK s \in Surveys : /\ job' = [j \in Jobs |-> SurveyedJob(j, s)]
                           /\ row' = [r \in Runs |-> SurveyedRow(r, s)]
                           /\ registered' = registered \ s.old
  BY DEF Survey
<1>2. /\ phase = "up" /\ loop = NoJob /\ pool.pc = "idle"
      /\ UNCHANGED <<phase, repro, loop, pool, resuming, cut, crashes>>
      /\ registered \subseteq Jobs /\ NoRun \notin Runs /\ \A j \in Jobs : job[j] \in JobRecords
      /\ TypeOK
  BY Facts DEF Survey, LoopFree
<1>3. \A j \in Jobs : JobShape(j)'
  BY <1>1, <1>2, SurveyedShape
<1>4. PoolReadIsCurrent' /\ Stopping' /\ CutIsContinuable'
  BY <1>2 DEF PoolReadIsCurrent, Stopping, RecordInv, Serving, CutIsContinuable
<1>5. ASSUME NEW j \in registered', job'[j].run # NoRun PROVE RowAgrees(j)'
  <2>1. j \in registered /\ j \in Jobs
    BY <1>1, <1>2
  <2>2. job'[j] = SurveyedJob(j, s) /\ job'[j].run = job[j].run
    <3>1. job'[j] = SurveyedJob(j, s)
      BY <1>1, <2>1
    <3> QED
      BY <1>2, <2>1, <3>1, SurveyedFields
  <2>3. row'[job[j].run] = SurveyedRow(job[j].run, s)
    BY <1>1, <1>2, <1>5, <2>1, <2>2 DEF JobRecords
  <2>4. job[j].run # NoRun
    BY <1>5, <2>2
  <2> QED
    BY <1>2, <2>1, <2>2, <2>3, <2>4, SurveyedAgrees
<1>6. ASSUME NEW r \in Runs, row'[r].status = "running" PROVE Owned(r)'
  <2>1. SurveyedRow(r, s).status = "running"
    BY <1>1, <1>6
  <2>2. PICK j \in registered \ s.old : /\ SurveyedJob(j, s) = job[j] /\ job[j].run = r
                                        /\ Busy(j) \/ job[j].pending # NoResult
    BY <1>2, <2>1, SurveyedOwned
  <2>3. job'[j] = job[j]
    BY <1>1, <1>2, <2>2
  <2> QED
    BY <1>1, <2>2, <2>3 DEF Owned, Busy
<1>7. Serving'
  BY <1>2, <1>5, <1>6 DEF Serving, RecordInv
<1> QED
  BY <1>2, <1>3, <1>4, <1>7 DEF RecordInv, DownIsIdle

-----------------------------------------------------------------------------
(* The four starts *)

LEMMA AdmitRecord ==
    ASSUME Preempt = FALSE, RecordInv, ExclusionInv', phase \in {"up", "booting"},
           NEW j \in Jobs, NEW c, NEW rec \in JobRecords, NEW s \in Surveys, Admit(j, c, rec, s),
           rec.state \in BusyStates, rec.task = "none", rec.pending = NoResult,
           rec.kind = "restore" => rec.run # NoRun,
           rec.kind = "reproduction" => rec.run = NoRun,
           \A r \in Runs : r # rec.run => row'[r] = SurveyedRow(r, s),
           rec.run # NoRun => IF rec.kind = "restore" THEN Resumable(row'[rec.run])
                              ELSE row'[rec.run] = RunningRow,
           phase' = phase, pool' = pool, cut' = cut
    PROVE  RecordInv'
<1>1. /\ loop = NoJob /\ pool.pc = "idle" /\ loop' = j /\ j \notin registered
      /\ registered' = {i \in registered \ s.old : rec.run = NoRun \/ job[i].run # rec.run}
                          \cup {j}
      /\ registered \subseteq Jobs /\ NoRun \notin Runs /\ NoJob \notin Jobs /\ TypeOK
      /\ \A i \in Jobs : job[i] \in JobRecords
  BY Facts DEF Admit, LoopFree, Free
<1>2. job'[j] = rec /\ \A i \in Jobs : i # j => job'[i] = SurveyedJob(i, s)
  BY DEF Admit
<1>3. Busy(j)' /\ ~Working(j)' /\ job'[j].run = rec.run /\ rec.run \in Runs \cup {NoRun}
  BY <1>2 DEF Busy, Working, LiveTasks, JobRecords
<1>4. \A i \in Jobs : JobShape(i)'
  <2>1. JobShape(j)'
    BY <1>2, <1>3 DEF JobShape
  <2>2. \A i \in Jobs : i # j => JobShape(i)'
    BY <1>1, <1>2, SurveyedShape
  <2> QED
    BY <2>1, <2>2
<1>5. PoolReadIsCurrent' /\ Stopping' /\ CutIsContinuable'
  BY <1>1 DEF PoolReadIsCurrent, Stopping, RecordInv, Serving, CutIsContinuable
<1>6. ASSUME NEW i \in registered', job'[i].run # NoRun PROVE RowAgrees(i)'
  <2>1. CASE i = j
    <3>1. CASE rec.kind = "restore"
      BY <1>2, <1>3, <1>6, <2>1, <3>1 DEF RowAgrees, RowOf
    <3>2. CASE rec.kind # "restore"
      <4>1. row'[rec.run].status = "running" /\ job'[j].task # "done"
        BY <1>2, <1>3, <1>6, <2>1, <3>2 DEF RunningRow
      <4> QED
        BY <1>2, <1>3, <1>6, <2>1, <3>2, <4>1 DEF RowAgrees, RowOf
    <3> QED
      BY <3>1, <3>2
  <2>2. CASE i # j
    <3>1. i \in registered /\ i \in Jobs /\ (rec.run = NoRun \/ job[i].run # rec.run)
      BY <1>1, <2>2
    <3>2. job'[i] = SurveyedJob(i, s)
      BY <1>2, <2>2, <3>1
    <3>3. job'[i].run = job[i].run
      BY <1>1, <3>1, <3>2, SurveyedFields
    <3>4. job[i].run \in Runs /\ job[i].run # NoRun
      BY <1>1, <1>6, <3>1, <3>3 DEF JobRecords
    <3>5. row'[job[i].run] = SurveyedRow(job[i].run, s)
      BY <3>1, <3>4
    <3> QED
      BY <1>1, <3>1, <3>2, <3>4, <3>5, SurveyedAgrees
  <2> QED
    BY <2>1, <2>2
<1>7. ASSUME NEW r \in Runs, row'[r].status = "running" PROVE Owned(r)'
  <2>1. CASE r = rec.run
    BY <1>1, <1>3, <2>1 DEF Owned
  <2>2. CASE r # rec.run
    <3>1. SurveyedRow(r, s).status = "running"
      BY <1>7, <2>2
    <3>2. PICK i \in registered \ s.old : /\ SurveyedJob(i, s) = job[i] /\ job[i].run = r
                                          /\ Busy(i) \/ job[i].pending # NoResult
      BY <1>1, <3>1, SurveyedOwned
    <3>3. job'[i] = job[i] /\ i \in registered'
      BY <1>1, <1>2, <2>2, <3>2
    <3> QED
      BY <3>2, <3>3 DEF Owned, Busy
  <2> QED
    BY <2>1, <2>2
<1>8. Serving'
  BY <1>1, <1>6, <1>7 DEF Serving, RecordInv
<1> QED
  BY <1>4, <1>5, <1>8 DEF RecordInv, DownIsIdle

\* The record of a new job.
LEMMA NewJobFields ==
    ASSUME NEW k \in Kinds, NEW r \in Runs \cup {NoRun}, NEW t \in Targets, NEW st \in BusyStates
    PROVE  /\ NewJob(k, r, t, st) \in JobRecords
           /\ NewJob(k, r, t, st).kind = k /\ NewJob(k, r, t, st).run = r
           /\ NewJob(k, r, t, st).state = st /\ NewJob(k, r, t, st).task = "none"
           /\ NewJob(k, r, t, st).pending = NoResult
<1>1. NewJob(k, r, t, st) \in JobRecords
  BY DEF NewJob, JobRecords, JobStates, TaskStates, Stops
<1> QED
  BY <1>1 DEF NewJob

LEMMA StartRecord ==
    ASSUME Preempt = FALSE, RecordInv, ExclusionInv', NEW j \in Jobs, NEW r \in Runs,
           StartAudit(j, r) \/ ResumeClone(j, r) \/ ResumeRestore(j, r)
    PROVE  RecordInv'
<1>1. /\ TypeOK /\ NoRun \notin Runs /\ TargetOf[r] \in Targets
      /\ phase \in {"up", "booting"} /\ phase' = phase /\ pool' = pool /\ cut' = cut
  BY Facts, ConstantsAssumption DEF StartAudit, ResumeClone, ResumeRestore, MayResume
<1>2. /\ "audit" \in Kinds /\ "restore" \in Kinds
      /\ "running" \in BusyStates /\ "restoring" \in BusyStates
  BY DEF Kinds, BusyStates
<1>3. CASE StartAudit(j, r)
  <2>1. PICK s \in Surveys, created \in BOOLEAN :
           /\ Admit(j, NoRun,
                    NewJob("audit", IF created THEN r ELSE NoRun, TargetOf[r], "running"), s)
           /\ row' = [q \in Runs |-> IF q = r /\ created THEN RunningRow
                                     ELSE SurveyedRow(q, s)]
    BY <1>3 DEF StartAudit
  <2> DEFINE n == IF created THEN r ELSE NoRun
             rec == NewJob("audit", n, TargetOf[r], "running")
  <2>2. n \in Runs \cup {NoRun}
    OBVIOUS
  <2>3. \A q \in Runs : q # n => row'[q] = SurveyedRow(q, s)
    BY <2>1
  <2>4. n # NoRun => row'[n] = RunningRow
    BY <1>1, <2>1
  <2>5. Admit(j, NoRun, rec, s)
    BY <2>1
  <2> HIDE DEF n
  <2>6. /\ rec \in JobRecords /\ rec.kind = "audit" /\ rec.run = n /\ rec.state = "running"
        /\ rec.task = "none" /\ rec.pending = NoResult
    BY <1>1, <1>2, <2>2, NewJobFields
  <2> HIDE DEF rec
  <2> QED
    BY <1>1, <1>2, <2>3, <2>4, <2>5, <2>6, AdmitRecord
<1>4. CASE ResumeClone(j, r)
  <2> DEFINE rec == NewJob("audit", r, TargetOf[r], "running")
  <2>1. PICK s \in Surveys :
           /\ Admit(j, r, rec, s)
           /\ row' = [q \in Runs |-> IF q = r THEN RunningRow ELSE SurveyedRow(q, s)]
    BY <1>4 DEF ResumeClone
  <2>2. row'[r] = RunningRow /\ \A q \in Runs : q # r => row'[q] = SurveyedRow(q, s)
    BY <2>1
  <2>3. /\ rec \in JobRecords /\ rec.kind = "audit" /\ rec.run = r /\ rec.state = "running"
        /\ rec.task = "none" /\ rec.pending = NoResult
    BY <1>1, <1>2, NewJobFields
  <2> HIDE DEF rec
  <2> QED
    BY <1>1, <1>2, <2>1, <2>2, <2>3, AdmitRecord
<1>5. CASE ResumeRestore(j, r)
  <2> DEFINE rec == NewJob("restore", r, TargetOf[r], "restoring")
  <2>1. PICK s \in Surveys :
           /\ Resumable(SurveyedRow(r, s)) /\ Admit(j, r, rec, s)
           /\ row' = [q \in Runs |-> SurveyedRow(q, s)]
    BY <1>5 DEF ResumeRestore
  <2>2. Resumable(row'[r]) /\ \A q \in Runs : row'[q] = SurveyedRow(q, s)
    BY <2>1
  <2>3. /\ rec \in JobRecords /\ rec.kind = "restore" /\ rec.run = r /\ rec.state = "restoring"
        /\ rec.task = "none" /\ rec.pending = NoResult
    BY <1>1, <1>2, NewJobFields
  <2> HIDE DEF rec
  <2> QED
    BY <1>1, <1>2, <2>1, <2>2, <2>3, AdmitRecord
<1> QED
  BY <1>3, <1>4, <1>5

LEMMA StartReproductionRecord ==
    ASSUME Preempt = FALSE, RecordInv, ExclusionInv', NEW j \in Jobs, NEW t \in Targets,
           StartReproduction(j, t)
    PROVE  RecordInv'
<1> DEFINE rec == NewJob("reproduction", NoRun, t, "running")
<1>1. phase = "up" /\ phase' = phase /\ pool' = pool /\ cut' = cut /\ NoRun \notin Runs
  BY Facts DEF StartReproduction
<1>2. "reproduction" \in Kinds /\ "running" \in BusyStates
  BY DEF Kinds, BusyStates
<1>3. PICK s \in Surveys : Admit(j, NoRun, rec, s) /\ row' = [q \in Runs |-> SurveyedRow(q, s)]
  BY DEF StartReproduction
<1>4. \A q \in Runs : row'[q] = SurveyedRow(q, s)
  BY <1>3
<1>5. /\ rec \in JobRecords /\ rec.kind = "reproduction" /\ rec.run = NoRun
      /\ rec.state = "running" /\ rec.task = "none" /\ rec.pending = NoResult
  BY <1>2, NewJobFields
<1> HIDE DEF rec
<1> QED
  BY <1>1, <1>2, <1>3, <1>4, <1>5, AdmitRecord

-----------------------------------------------------------------------------
(* The worker *)

\* What an exit notes down: the runs whose registered job is busy.
LEMMA CutFacts ==
    ASSUME RecordInv
    PROVE  /\ \A j \in registered : Busy(j) /\ job[j].run \in Runs => CutNow[job[j].run] # "none"
           /\ \A r \in Runs : CutNow[r] # "none" =>
                 cut[r] # "none" \/ \E j \in registered : Busy(j) /\ job[j].run = r
<1>1. ASSUME NEW r \in Runs, NEW j \in registered, Busy(j), job[j].run = r
      PROVE  CutNow[r] # "none"
  <2> DEFINE w == CHOOSE i \in registered : Busy(i) /\ job[i].run = r
  <2>1. w \in registered /\ Busy(w)
    BY <1>1
  <2>2. CutNow[r] = job[w].state
    BY <1>1 DEF CutNow
  <2> HIDE DEF w
  <2> QED
    BY <2>1, <2>2 DEF Busy, BusyStates
<1>2. ASSUME NEW r \in Runs, CutNow[r] # "none",
             ~\E j \in registered : Busy(j) /\ job[j].run = r
      PROVE  cut[r] # "none"
  BY <1>2 DEF CutNow
<1> QED
  BY <1>1, <1>2

\* The row of a run whose registered job is busy can be continued after an exit.
LEMMA BusyContinuable ==
    ASSUME RecordInv, phase \in {"up", "booting"}, NEW j \in registered, Busy(j),
           job[j].run # NoRun
    PROVE  Continuable(row[job[j].run])
<1>1. RowAgrees(j)
  BY DEF RecordInv, Serving
<1> QED
  BY <1>1 DEF RowAgrees, RowOf, Continuable

LEMMA BeginShutdownRecord ==
    ASSUME Preempt = FALSE, RecordInv, ExclusionInv', BeginShutdown
    PROVE  RecordInv'
<1>1. PICK s \in Surveys :
         /\ row' = [r \in Runs |-> SurveyedRow(r, s)]
         /\ job' = [j \in Jobs |->
               IF j \in registered /\ Busy(j) /\ ~Orphaned(j)
               THEN [job[j] EXCEPT !.err = TRUE, !.stop = Asked(j)]
               ELSE SurveyedJob(j, s)]
  BY DEF BeginShutdown
<1>2. /\ phase = "up" /\ loop = NoJob /\ pool.pc = "idle" /\ phase' = "stopping" /\ cut' = CutNow
      /\ UNCHANGED <<repro, registered, loop, pool, resuming, crashes>>
      /\ registered \subseteq Jobs /\ NoRun \notin Runs /\ NoJob \notin Jobs /\ TypeOK
      /\ \A j \in Jobs : job[j] \in JobRecords
      /\ \A j \in Jobs : JobShape(j)
  BY Facts DEF BeginShutdown, LoopFree, RecordInv
<1>3. ASSUME NEW j \in Jobs, j \in registered /\ Busy(j) /\ ~Orphaned(j)
      PROVE  /\ JobShape(j)' /\ job'[j].stop # "none" /\ job'[j].run = job[j].run
             /\ job'[j].task = job[j].task /\ job'[j].state = job[j].state
  <2>1. job'[j] = [job[j] EXCEPT !.err = TRUE, !.stop = Asked(j)]
    BY <1>1, <1>3
  <2>2. /\ job'[j].stop # "none" /\ job'[j].run = job[j].run /\ job'[j].kind = job[j].kind
        /\ job'[j].task = job[j].task /\ job'[j].state = job[j].state
        /\ job'[j].pending = job[j].pending
    BY <1>2, <2>1, AskedType DEF JobRecords
  <2> QED
    BY <1>2, <1>3, <2>2 DEF JobShape, Busy, Working
<1>4. ASSUME NEW j \in Jobs, ~(j \in registered /\ Busy(j) /\ ~Orphaned(j))
      PROVE  /\ JobShape(j)' /\ job'[j].run = job[j].run /\ job'[j].task = job[j].task
             /\ ~(j \in registered /\ Busy(j)')
  <2>1. job'[j] = SurveyedJob(j, s)
    BY <1>1, <1>4
  <2>2. JobShape(j)'
    BY <1>2, <2>1, SurveyedShape
  <2>3. /\ job'[j].run = job[j].run /\ job'[j].task = job[j].task
        /\ job'[j].state = IF j \in registered /\ Orphaned(j) THEN "cancelled" ELSE job[j].state
    BY <1>2, <2>1, SurveyedFields
  <2> QED
    BY <1>4, <2>2, <2>3 DEF Busy, BusyStates
<1>5. \A j \in Jobs : JobShape(j)'
  BY <1>3, <1>4
<1>6. ASSUME NEW j \in Jobs, Working(j)'
      PROVE  j \in registered /\ Busy(j) /\ job'[j].stop # "none"
  <2>1. Working(j)
    BY <1>3, <1>4, <1>6 DEF Working
  <2>2. j \in registered /\ Busy(j) /\ ~Orphaned(j)
    BY <1>2, <2>1 DEF RecordInv, ExclusionInv, TasksRegistered, Orphaned, TaskGone,
                      Working, LiveTasks
  <2> QED
    BY <1>3, <2>2
<1>7. \A j \in Jobs : job'[j].task # "finish"
  <2> SUFFICES ASSUME NEW j \in Jobs PROVE job'[j].task # "finish"
    OBVIOUS
  <2>1. job'[j].task = job[j].task
    BY <1>3, <1>4
  <2> QED
    BY <1>2, <2>1 DEF JobShape
<1>8. ASSUME NEW j \in Jobs, Working(j)' \/ (j \in registered' /\ Busy(j)'), job'[j].run # NoRun
      PROVE  cut'[job'[j].run] # "none"
  <2>1. j \in registered /\ Busy(j)
    BY <1>2, <1>4, <1>6, <1>8
  <2>2. job'[j].run = job[j].run /\ job[j].run \in Runs
    BY <1>2, <1>3, <1>4, <1>8 DEF JobRecords
  <2> QED
    BY <1>2, <2>1, <2>2, CutFacts
<1>9. Stopping'
  BY <1>2, <1>6, <1>7, <1>8 DEF Stopping
<1>10. CutIsContinuable'
  <2> SUFFICES ASSUME NEW r \in Runs, cut'[r] # "none" PROVE Continuable(row'[r])
    BY DEF CutIsContinuable
  <2>1. PICK j \in registered : Busy(j) /\ job[j].run = r
    BY <1>2, CutFacts DEF RecordInv, Serving
  <2>2. SurveyedRow(r, s) = IF Orphaned(j) /\ row[r].status = "running" THEN CancelledRow
                            ELSE IF j \in s.wrote THEN job[j].pending ELSE row[r]
    BY <1>2, <2>1, SurveyedRowOfJob
  <2>3. j \notin s.wrote /\ Continuable(row[r])
    BY <1>2, <2>1, SurveyFacts, BusyContinuable
  <2>4. Continuable(CancelledRow)
    BY DEF Continuable, Resumable, CancelledRow
  <2>5. row'[r] = SurveyedRow(r, s)
    BY <1>1
  <2> QED
    BY <2>2, <2>3, <2>4, <2>5
<1>11. PoolReadIsCurrent' /\ Serving' /\ DownIsIdle'
  BY <1>2 DEF PoolReadIsCurrent, Serving, DownIsIdle
<1> QED
  BY <1>5, <1>9, <1>10, <1>11 DEF RecordInv

LEMMA VanishRecord ==
    ASSUME RecordInv, ExclusionInv', Vanish,
           \A r \in Runs : cut'[r] # "none" => Continuable(row[r])
    PROVE  RecordInv'
<1>1. /\ phase' = "down" /\ job' = [j \in Jobs |-> NullJob] /\ loop' = NoJob
      /\ pool' = IdlePool /\ row' = row
  BY DEF Vanish
<1>2. \A j \in Jobs : job'[j] = NullJob
  BY <1>1
<1>3. \A j \in Jobs : JobShape(j)'
  BY <1>2 DEF JobShape, NullJob, NewJob, Busy, BusyStates, Working, LiveTasks
<1>4. PoolReadIsCurrent' /\ Serving' /\ Stopping' /\ CutIsContinuable' /\ DownIsIdle'
  BY <1>1 DEF PoolReadIsCurrent, IdlePool, Serving, Stopping, CutIsContinuable, DownIsIdle
<1> QED
  BY <1>3, <1>4 DEF RecordInv

LEMMA CrashRecord ==
    ASSUME Preempt = FALSE, RecordInv, ExclusionInv', Crash
    PROVE  RecordInv'
<1>1. cut' = CutNow /\ Vanish /\ phase \in {"up", "booting", "stopping"}
  BY Facts DEF Crash, TypeOK
<1>2. ASSUME NEW r \in Runs, cut'[r] # "none" PROVE Continuable(row[r])
  <2>1. CASE cut[r] # "none"
    BY <2>1 DEF RecordInv, CutIsContinuable
  <2>2. CASE cut[r] = "none"
    <3>1. PICK j \in registered : Busy(j) /\ job[j].run = r
      BY <1>1, <1>2, <2>2, CutFacts
    <3>2. j \in Jobs /\ job[j].run # NoRun
      BY <3>1, Facts
    <3>3. phase # "stopping"
      BY <2>2, <3>1, <3>2 DEF RecordInv, Stopping
    <3> QED
      BY <1>1, <3>1, <3>2, <3>3, BusyContinuable
  <2> QED
    BY <2>1, <2>2
<1> QED
  BY <1>1, <1>2, VanishRecord

LEMMA ExitRecord ==
    ASSUME Preempt = FALSE, RecordInv, ExclusionInv', Exit
    PROVE  RecordInv'
<1>1. Vanish /\ cut' = cut
  BY DEF Exit
<1> QED
  BY <1>1, VanishRecord DEF RecordInv, CutIsContinuable

LEMMA BootRecord ==
    ASSUME Preempt = FALSE, RecordInv, ExclusionInv', Boot
    PROVE  RecordInv'
<1>1. /\ phase = "down" /\ phase' = "booting" /\ loop = NoJob /\ registered = {}
      /\ UNCHANGED <<job, registered, loop, pool, crashes>>
      /\ \A r \in Runs : cut'[r] = "none"
  BY DEF Boot, RecordInv, ExclusionInv, DownIsEmpty, DownIsIdle
<1>2. \A r \in Runs : row'[r].status # "running"
  BY DEF Boot, CancelledRow
<1>3. \A j \in Jobs : JobShape(j)'
  BY <1>1, ShapeFrame DEF RecordInv
<1>4. PoolReadIsCurrent' /\ Stopping' /\ CutIsContinuable' /\ DownIsIdle'
  BY <1>1 DEF RecordInv, PoolReadIsCurrent, Stopping, CutIsContinuable, DownIsIdle
<1>5. Serving'
  BY <1>1, <1>2 DEF Serving
<1> QED
  BY <1>3, <1>4, <1>5 DEF RecordInv

-----------------------------------------------------------------------------
(***************************************************************************)
(* The invariant of jobs, results and rows.                                *)
(***************************************************************************)
LEMMA InitRecord == Init => RecordInv
<1> SUFFICES ASSUME Init PROVE RecordInv
  OBVIOUS
<1>1. ExclusionInv
  BY InitExclusion
<1>2. \A j \in Jobs : job[j] = NullJob
  BY DEF Init
<1>3. \A j \in Jobs : JobShape(j)
  BY <1>2 DEF JobShape, NullJob, NewJob, Busy, BusyStates, Working, LiveTasks
<1>4. PoolReadIsCurrent /\ Serving /\ Stopping /\ CutIsContinuable /\ DownIsIdle
  BY DEF Init, PoolReadIsCurrent, IdlePool, Serving, Stopping, CutIsContinuable, DownIsIdle
<1> QED
  BY <1>1, <1>3, <1>4 DEF RecordInv

(***************************************************************************)
(* A cancellation is lost in the work proper alone: a task that is new or  *)
(* restores its checkout has none, or one that will end it.                *)
(***************************************************************************)
LEMMA LostStep ==
    ASSUME TypeOK, LostInWork, [Next]_vars
    PROVE  LostInWork'
<1> DEFINE Sound(x) == x.stop = "lost" => x.task \notin {"none", "created", "restore"}
<1>1. /\ \A j \in Jobs : job[j] \in JobRecords /\ Sound(job[j])
      /\ job \in [Jobs -> JobRecords]
  BY DEF TypeOK, LostInWork
<1>2. SUFFICES \A i \in Jobs : Sound(job'[i])
  BY DEF LostInWork
<1>3. ASSUME NEW s \in Surveys, NEW i \in Jobs PROVE Sound(SurveyedJob(i, s))
  BY <1>1 DEF SurveyedJob, JobRecords
<1>4. ASSUME NEW k, NEW r, NEW t, NEW st PROVE Sound(NewJob(k, r, t, st)) /\ Sound(NullJob)
  BY DEF NewJob, NullJob
<1>5. ASSUME NEW j \in Jobs, NEW c, NEW rec, NEW s \in Surveys, Admit(j, c, rec, s), Sound(rec),
             NEW i \in Jobs
      PROVE  Sound(job'[i])
  BY <1>3, <1>5 DEF Admit
<1>6. CASE Request
  BY <1>3, <1>4, <1>5, <1>6 DEF Request, Survey, StartAudit, ResumeClone, ResumeRestore,
                                StartReproduction
<1>7. ASSUME NEW j \in Jobs, TaskMoves(j) \/ PoolMoves(j), NEW i \in Jobs PROVE Sound(job'[i])
  <2>1. CASE TaskMoves(j)
    <3>1. CASE Launch(j)
      BY <1>1, <3>1 DEF Launch, JobRecords
    <3>2. CASE EnterCoroutine(j)
      BY <1>1, <3>2 DEF EnterCoroutine, JobRecords
    <3>3. CASE Restored(j) \/ RestoreEnds(j) \/ SwallowStop(j)
      BY <1>1, <3>3 DEF Restored, RestoreEnds, SwallowStop, JobRecords
    <3>4. CASE BodyEnds(j)
      <4>1. PICK st \in Terminal :
               job' = [job EXCEPT
                    ![j].state = st,
                    ![j].err = (IF st = "cancelled" THEN job[j].err ELSE st = "failed"),
                    ![j].task = "finish",
                    ![j].pending = IF job[j].run = NoRun THEN NoResult
                                   ELSE [status |-> st,
                                         error |-> IF st = "cancelled" THEN job[j].err
                                                   ELSE st = "failed"]]
        BY <3>4, Zenon DEF BodyEnds
      <4>2. job'[j].task = "finish" /\ (i # j => job'[i] = job[i])
        BY <1>1, <4>1 DEF JobRecords
      <4> QED BY <1>1, <4>2
    <3>5. CASE RecordRun(j)
      <4>1. PICK p : \/ job' = [job EXCEPT ![j].task = "done"]
                     \/ job' = [job EXCEPT ![j].task = "done", ![j].pending = p]
        BY <3>5, Zenon DEF RecordRun
      <4> QED BY <1>1, <4>1 DEF JobRecords
    <3>6. CASE RecordReproduction(j) \/ WorktreeRemoved(j)
      BY <1>1, <3>6 DEF RecordReproduction, WorktreeRemoved, JobRecords
    <3> QED BY <2>1, <3>1, <3>2, <3>3, <3>4, <3>5, <3>6 DEF TaskMoves
  <2>2. CASE PoolMoves(j)
    BY <1>1, <1>7, <2>2 DEF PoolMoves, PoolLooks, PoolReconciles, PoolWrites,
       PoolChoosesToPrune, PoolPrunes, Stop, JobRecords
  <2> QED
    BY <1>7, <2>1, <2>2
<1>8. CASE Worker
  <2>1. CASE BeginShutdown
    <3>1. PICK s \in Surveys :
             job' = [j \in Jobs |->
                   IF j \in registered /\ Busy(j) /\ ~Orphaned(j)
                   THEN [job[j] EXCEPT !.err = TRUE, !.stop = Asked(j)]
                   ELSE SurveyedJob(j, s)]
      BY <2>1 DEF BeginShutdown
    <3>2. \A i \in Jobs : Sound([job[i] EXCEPT !.err = TRUE, !.stop = Asked(i)])
      BY <1>1 DEF Asked, JobRecords
    <3> QED
      BY <1>3, <3>1, <3>2
  <2>2. CASE \E j \in Jobs : ShutdownTimesOut(j)
    BY <1>1, <2>2 DEF ShutdownTimesOut, JobRecords
  <2>3. CASE Vanish
    BY <1>4, <2>3 DEF Vanish
  <2>4. CASE job' = job
    BY <1>1, <2>4
  <2> QED
    BY <1>8, <2>1, <2>2, <2>3, <2>4 DEF Worker, Exit, Crash, Boot, SkipResume, Serve
<1>9. CASE UNCHANGED vars
  BY <1>1, <1>9 DEF vars
<1> QED
  BY <1>6, <1>7, <1>8, <1>9 DEF Next

LEMMA RecordStep ==
    ASSUME Preempt = FALSE, RecordInv, LostInWork, [Next]_vars
    PROVE  RecordInv'
<1>1. ExclusionInv'
  BY ExclusionStep DEF RecordInv
<1>2. CASE Request
  BY <1>1, <1>2, SurveyRecord, StartRecord, StartReproductionRecord DEF Request
<1>3. ASSUME NEW j \in Jobs, TaskMoves(j) PROVE RecordInv'
  BY <1>1, <1>3, LaunchRecord, EnterRecord, RestoredRecord, RestoreEndsRecord,
     SwallowStopRecord, BodyEndsRecord,
     RecordRunRecord, RetestRecord DEF TaskMoves
<1>4. ASSUME NEW j \in Jobs, PoolMoves(j) PROVE RecordInv'
  BY <1>1, <1>4, PoolLooksRecord, PoolReconcilesRecord, PoolWritesRecord, PoolPrunesRecord,
     StopRecord DEF PoolMoves
<1>5. CASE Worker
  <2>1. ASSUME NEW r \in Runs, SkipResume(r) PROVE RecordInv'
    <3>1. PoolReadIsCurrent'
      BY <2>1 DEF SkipResume, RecordInv, PoolReadIsCurrent, Busy
    <3> QED
      BY <1>1, <2>1, <3>1, IdleStep DEF SkipResume
  <2>2. CASE Serve
    <3>1. PoolReadIsCurrent'
      BY <2>2 DEF Serve, RecordInv, PoolReadIsCurrent, Busy
    <3> QED
      BY <1>1, <2>2, <3>1, IdleStep DEF Serve
  <2> QED
    BY <1>1, <1>5, <2>1, <2>2, BeginShutdownRecord, ShutdownTimesOutRecord, ExitRecord,
       CrashRecord, BootRecord DEF Worker
<1>6. CASE UNCHANGED vars
  <2>1. PoolReadIsCurrent'
    BY <1>6 DEF vars, RecordInv, PoolReadIsCurrent, Busy
  <2> QED
    BY <1>1, <1>6, <2>1, IdleStep DEF vars
<1> QED
  BY <1>2, <1>3, <1>4, <1>5, <1>6 DEF Next

THEOREM RecordInvariant ==
    ASSUME Preempt = FALSE
    PROVE  Spec => []RecordInv
<1>1. RecordInv /\ LostInWork /\ [Next]_vars => RecordInv' /\ LostInWork'
  BY RecordStep, LostStep, Facts
<1>2. Init => LostInWork
  BY DEF Init, LostInWork, NullJob, NewJob
<1> QED
  BY <1>1, <1>2, InitRecord, PTL DEF Spec

(***************************************************************************)
(* A row in state running is never stranded while the worker serves.       *)
(***************************************************************************)
THEOREM RunningRowsAreOwned ==
    ASSUME Preempt = FALSE
    PROVE  Spec => []RunningRowHasOwner
<1>1. RecordInv => RunningRowHasOwner
  BY DEF RecordInv, Serving, Owned, RunningRowHasOwner
<1> QED
  BY <1>1, RecordInvariant, PTL

(***************************************************************************)
(* An audit at work has its row: no recovery and no late write takes it.   *)
(***************************************************************************)
THEOREM WorkingAuditsHaveRows ==
    ASSUME Preempt = FALSE
    PROVE  Spec => []WorkingAuditHasRunningRow
<1>1. RecordInv => WorkingAuditHasRunningRow
  <2> SUFFICES ASSUME RecordInv, phase = "up", NEW j \in Jobs, job[j].kind = "audit",
                      job[j].run # NoRun, Working(j)
               PROVE  row[job[j].run].status = "running"
    BY DEF WorkingAuditHasRunningRow
  <2>1. j \in registered /\ Busy(j)
    BY DEF RecordInv, ExclusionInv, TasksRegistered
  <2>2. RowAgrees(j)
    BY <2>1 DEF RecordInv, Serving
  <2> QED
    BY <2>1, <2>2 DEF RowAgrees, RowOf
<1> QED
  BY <1>1, RecordInvariant, PTL

(***************************************************************************)
(* What the job list reports of an ended job is what its row holds.        *)
(***************************************************************************)
THEOREM ReportsAreRecorded ==
    ASSUME Preempt = FALSE
    PROVE  Spec => []ReportedIsRecorded
<1>1. RecordInv => ReportedIsRecorded
  <2> SUFFICES ASSUME RecordInv, phase = "up", NEW j \in registered, job[j].state \in Terminal,
                      job[j].task = "done", job[j].run # NoRun
               PROVE  IF job[j].kind = "restore" THEN Resumable(row[job[j].run])
                      ELSE job[j].pending = NoResult =>
                              row[job[j].run] = [status |-> job[j].state, error |-> job[j].err]
    BY DEF ReportedIsRecorded
  <2>1. RowAgrees(j)
    BY DEF RecordInv, Serving
  <2> QED
    BY <2>1 DEF RowAgrees, RowOf, Outcome
<1> QED
  BY <1>1, RecordInvariant, PTL

-----------------------------------------------------------------------------
(* Completed rows are final *)

Completed == [status |-> "done", error |-> FALSE]

LEMMA CompletedIsEnded ==
    /\ Completed.status = "done" /\ ~Resumable(Completed) /\ ~Continuable(Completed)
    /\ Completed.status # "running" /\ Completed.status # "absent"
BY DEF Completed, Resumable, Continuable

\* The only result a survey can write to a completed row is the one it holds.
LEMMA SurveyKeepsCompleted ==
    ASSUME RecordInv, loop = NoJob, phase \in {"up", "booting"}, NEW s \in Surveys,
           NEW r \in Runs, row[r] = Completed
    PROVE  SurveyedRow(r, s) = Completed
<1>1. CASE \E j \in s.wrote : job[j].run = r
  <2>1. PICK j \in registered : job[j].run = r /\ job[j].pending # NoResult /\ job[j].run # NoRun
    BY <1>1, SurveyFacts
  <2>2. SurveyedRow(r, s) = IF Orphaned(j) /\ row[r].status = "running" THEN CancelledRow
                            ELSE IF j \in s.wrote THEN job[j].pending ELSE row[r]
    BY <2>1, SurveyedRowOfJob
  <2>3. row[r] = job[j].pending
    BY <2>1, CompletedIsEnded DEF RecordInv, Serving, RowAgrees, RowOf
  <2> QED
    BY <2>2, <2>3, CompletedIsEnded
<1>2. CASE ~\E j \in s.wrote : job[j].run = r
  BY <1>2, CompletedIsEnded DEF SurveyedRow
<1> QED
  BY <1>1, <1>2

LEMMA CompletedStep ==
    ASSUME Preempt = FALSE, RecordInv, [Next]_vars, NEW r \in Runs, row[r] = Completed
    PROVE  row'[r] = Completed
<1>1. /\ TypeOK /\ \A q \in Runs : row[q] \in Rows
      /\ LoopFree => loop = NoJob
      /\ PoolMayRun => phase = "up" /\ loop = NoJob
  BY Facts DEF LoopFree, PoolMayRun
<1>2. CASE row' = row
  BY <1>2
<1>3. ASSUME NEW s \in Surveys, row' = [q \in Runs |-> SurveyedRow(q, s)],
             loop = NoJob, phase \in {"up", "booting"}
      PROVE  row'[r] = Completed
  BY <1>3, SurveyKeepsCompleted
<1>4. CASE Survey \/ BeginShutdown
  BY <1>1, <1>3, <1>4 DEF Survey, BeginShutdown
<1>5. ASSUME NEW j \in Jobs, NEW q \in Runs, StartAudit(j, q) PROVE row'[r] = Completed
  <2>1. PICK s \in Surveys, created \in BOOLEAN :
           row' = [p \in Runs |-> IF p = q /\ created THEN RunningRow ELSE SurveyedRow(p, s)]
    BY <1>5 DEF StartAudit
  <2>2. loop = NoJob /\ phase = "up" /\ row[q].status = "absent"
    BY <1>1, <1>5 DEF StartAudit, Admit
  <2>3. q # r
    BY <2>2, CompletedIsEnded
  <2>4. row'[r] = SurveyedRow(r, s)
    BY <2>1, <2>3
  <2> QED
    BY <2>2, <2>4, SurveyKeepsCompleted
<1>6. ASSUME NEW j \in Jobs, NEW q \in Runs, ResumeClone(j, q) PROVE row'[r] = Completed
  <2>1. PICK s \in Surveys :
           /\ Resumable(SurveyedRow(q, s))
           /\ row' = [p \in Runs |-> IF p = q THEN RunningRow ELSE SurveyedRow(p, s)]
    BY <1>6 DEF ResumeClone
  <2>2. loop = NoJob /\ phase \in {"up", "booting"}
    BY <1>1, <1>6 DEF ResumeClone, MayResume, Admit
  <2>3. q # r
    BY <2>1, <2>2, SurveyKeepsCompleted, CompletedIsEnded
  <2>4. row'[r] = SurveyedRow(r, s)
    BY <2>1, <2>3
  <2> QED
    BY <2>2, <2>4, SurveyKeepsCompleted
<1>7. ASSUME NEW j \in Jobs, NEW q \in Runs, ResumeRestore(j, q) PROVE row'[r] = Completed
  BY <1>1, <1>3, <1>7 DEF ResumeRestore, MayResume, Admit
<1>8. ASSUME NEW j \in Jobs, NEW t \in Targets, StartReproduction(j, t) PROVE row'[r] = Completed
  BY <1>1, <1>3, <1>8 DEF StartReproduction, Admit
<1>9. ASSUME NEW j \in Jobs, Restored(j) PROVE row'[r] = Completed
  <2>1. job[j].run # r
    BY <1>9, CompletedIsEnded DEF Restored
  <2> QED
    BY <1>1, <1>9, <2>1 DEF Restored, TypeOK
<1>10. ASSUME NEW j \in Jobs, RecordRun(j) PROVE row'[r] = Completed
  <2>1. row'[r] \in {row[r]} \/ (r = job[j].run /\ row'[r] = job[j].pending
                                   /\ job[j].pending # NoResult)
    BY <1>1, <1>10 DEF RecordRun, TypeOK
  <2>2. SUFFICES ASSUME r = job[j].run, job[j].pending # NoResult PROVE row[r] = job[j].pending
    BY <2>1
  <2>3. /\ phase \in {"up", "stopping"} \/ phase = "booting"
        /\ phase # "stopping" => j \in registered
        /\ job[j].run # NoRun /\ job[j].task = "finish"
    BY <1>10, <2>2, TaskFacts, Facts DEF RecordRun
  <2>4. CASE phase = "stopping"
    <3>1. job[j].state = "done" /\ ~job[j].err
      BY <2>2, <2>3, <2>4, CompletedIsEnded DEF RecordInv, Stopping, CutIsContinuable
    <3>2. job[j].pending = Outcome(j) /\ job[j].err \in BOOLEAN
      BY <2>2, TaskFacts DEF JobShape, JobRecords
    <3> QED BY <1>1, <2>2, <3>1, <3>2 DEF Outcome, Completed
  <2>5. CASE phase # "stopping"
    <3>1. RowAgrees(j)
      BY <2>3, <2>5, TaskFacts
    <3> QED
      BY <2>2, <3>1, CompletedIsEnded DEF RowAgrees, RowOf
  <2> QED
    BY <2>4, <2>5
<1>11. ASSUME NEW j \in Jobs, PoolReconciles(j) \/ ShutdownTimesOut(j) PROVE row'[r] = Completed
  BY <1>11, CompletedIsEnded DEF PoolReconciles, ShutdownTimesOut
<1>12. ASSUME NEW j \in Jobs, PoolWrites(j) PROVE row'[r] = Completed
  <2>1. /\ j \in registered /\ pool.result = job[j].pending /\ job[j].pending # NoResult
        /\ phase = "up"
    BY <1>1, <1>12 DEF PoolWrites, RecordInv, PoolReadIsCurrent
  <2>2. row'[r] = row[r] \/ (r = job[j].run /\ row'[r] = job[j].pending)
    BY <1>1, <1>12, <2>1 DEF PoolWrites, TypeOK
  <2>3. ASSUME r = job[j].run PROVE row[r] = job[j].pending
    <3>1. RowAgrees(j)
      BY <2>1, <2>3, Facts, TaskFacts
    <3> QED
      BY <2>1, <2>3, <3>1, CompletedIsEnded DEF RowAgrees, RowOf
  <2> QED
    BY <2>2, <2>3
<1>13. CASE Boot
  BY <1>13, CompletedIsEnded DEF Boot
<1>14. ASSUME NEW j \in Jobs, TaskMoves(j), ~Restored(j), ~RecordRun(j) PROVE row' = row
  BY <1>14 DEF TaskMoves, Launch, EnterCoroutine, RestoreEnds, SwallowStop, BodyEnds, RecordReproduction,
               WorktreeRemoved
<1>15. ASSUME NEW j \in Jobs, PoolMoves(j), ~PoolReconciles(j), ~PoolWrites(j) PROVE row' = row
  BY <1>15 DEF PoolMoves, PoolLooks, PoolChoosesToPrune, PoolPrunes, Stop
<1>16. ASSUME Exit \/ Crash \/ Serve \/ UNCHANGED vars \/ \E q \in Runs : SkipResume(q)
       PROVE row' = row
  BY <1>16 DEF Exit, Crash, Vanish, Serve, SkipResume, vars
<1>17. CASE Request
  BY <1>4, <1>5, <1>6, <1>7, <1>8, <1>17 DEF Request
<1>18. CASE \E j \in Jobs : TaskMoves(j) \/ PoolMoves(j)
  BY <1>2, <1>9, <1>10, <1>11, <1>12, <1>14, <1>15, <1>18
<1>19. CASE Worker
  BY <1>2, <1>4, <1>11, <1>13, <1>16, <1>19 DEF Worker
<1> QED
  BY <1>2, <1>16, <1>17, <1>18, <1>19 DEF Next

(***************************************************************************)
(* The row of an audit that completed without errors never changes again.  *)
(***************************************************************************)
THEOREM CompletionsAreFinal ==
    ASSUME Preempt = FALSE
    PROVE  Spec => CompletionIsFinal
<1>1. RecordInv /\ [Next]_vars =>
         [\A r \in Runs : row[r] = [status |-> "done", error |-> FALSE] => row'[r] = row[r]]_vars
  BY CompletedStep DEF Completed
<1> QED
  BY <1>1, RecordInvariant, PTL DEF Spec, CompletionIsFinal

-----------------------------------------------------------------------------
(* Unwritten results *)

\* What may become of the result a registered job has yet to write.
Kept(j) ==
    \/ j \in registered' /\ job'[j].pending = job[j].pending
    \/ row'[job[j].run] = job[j].pending
    \/ row[job[j].run] = job[j].pending
    \/ \E i \in registered' \ registered : job'[i].run = job[j].run

\* A survey keeps the result of a job or has it in the row.
LEMMA SurveyKeepsResult ==
    ASSUME RecordInv, loop = NoJob, NEW s \in Surveys, NEW j \in registered,
           job[j].pending # NoResult
    PROVE  \/ j \notin s.old /\ SurveyedJob(j, s).pending = job[j].pending
           \/ SurveyedRow(job[j].run, s) = job[j].pending
<1>1. /\ j \in Jobs /\ job[j] \in JobRecords /\ ~Orphaned(j) /\ job[j].run # NoRun
      /\ s.cleared \subseteq s.wrote
      /\ j \in s.old => j \in s.cleared
  BY Facts, SurveyFacts DEF RecordInv, JobShape
<1>2. CASE j \in s.cleared
  BY <1>1, <1>2, SurveyedRowOfJob
<1>3. CASE j \notin s.cleared
  BY <1>1, <1>3 DEF SurveyedJob
<1> QED
  BY <1>2, <1>3

\* The starts: the only job that may be replaced is one of the same run.
LEMMA AdmitKeepsResult ==
    ASSUME RecordInv, NEW i \in Jobs, NEW c, NEW rec, NEW s \in Surveys, Admit(i, c, rec, s),
           NEW j \in registered, job[j].pending # NoResult,
           job[j].run # rec.run => row'[job[j].run] = SurveyedRow(job[j].run, s)
    PROVE  Kept(j)
<1>1. /\ loop = NoJob /\ i \notin registered /\ i \in registered'
      /\ registered' = {k \in registered \ s.old : rec.run = NoRun \/ job[k].run # rec.run}
                          \cup {i}
      /\ registered \subseteq Jobs
  BY Facts DEF Admit, LoopFree, Free
<1>2. /\ job' = [[k \in Jobs |-> SurveyedJob(k, s)] EXCEPT ![i] = rec]
      /\ job'[i] = rec /\ job'[j] = SurveyedJob(j, s)
  BY <1>1 DEF Admit
<1>3. CASE job[j].run = rec.run
  BY <1>1, <1>2, <1>3 DEF Kept
<1>4. CASE job[j].run # rec.run
  BY <1>1, <1>2, <1>4, SurveyKeepsResult DEF Kept
<1> QED
  BY <1>3, <1>4

LEMMA ResultStep ==
    ASSUME Preempt = FALSE, RecordInv, [Next]_vars, phase = "up", phase' = "up",
           NEW j \in registered, job[j].pending # NoResult
    PROVE  Kept(j)
<1>1. /\ TypeOK /\ j \in Jobs /\ JobShape(j) /\ \A i \in Jobs : job[i] \in JobRecords
      /\ job[j].run \in Runs /\ job[j].run # NoRun /\ ~Busy(j) /\ ~Working(j)
      /\ LoopFree => loop = NoJob
      /\ NoRun \notin Runs
  BY Facts DEF RecordInv, JobShape, JobRecords, LoopFree
<1>2. CASE registered' = registered /\ job'[j].pending = job[j].pending
  BY <1>2 DEF Kept
<1>3. CASE Survey
  <2>1. PICK s \in Surveys : /\ job' = [i \in Jobs |-> SurveyedJob(i, s)]
                             /\ row' = [r \in Runs |-> SurveyedRow(r, s)]
                             /\ registered' = registered \ s.old
    BY <1>3 DEF Survey
  <2>2. loop = NoJob
    BY <1>1, <1>3 DEF Survey
  <2>3. job'[j] = SurveyedJob(j, s) /\ row'[job[j].run] = SurveyedRow(job[j].run, s)
    BY <1>1, <2>1
  <2> QED
    BY <2>1, <2>2, <2>3, SurveyKeepsResult DEF Kept
<1>4. ASSUME NEW i \in Jobs, NEW r \in Runs, StartAudit(i, r) PROVE Kept(j)
  <2>1. PICK s \in Surveys, created \in BOOLEAN :
           /\ Admit(i, NoRun,
                    NewJob("audit", IF created THEN r ELSE NoRun, TargetOf[r], "running"), s)
           /\ row' = [q \in Runs |-> IF q = r /\ created THEN RunningRow
                                     ELSE SurveyedRow(q, s)]
    BY <1>4 DEF StartAudit
  <2> DEFINE n == IF created THEN r ELSE NoRun
             rec == NewJob("audit", n, TargetOf[r], "running")
  <2>2. rec.run = n /\ Admit(i, NoRun, rec, s)
    BY <2>1 DEF NewJob
  <2>3. job[j].run # n => row'[job[j].run] = SurveyedRow(job[j].run, s)
    BY <1>1, <2>1
  <2> HIDE DEF rec, n
  <2> QED
    BY <2>2, <2>3, AdmitKeepsResult
<1>5. ASSUME NEW i \in Jobs, NEW r \in Runs, ResumeClone(i, r) \/ ResumeRestore(i, r)
      PROVE  Kept(j)
  <2>1. CASE ResumeClone(i, r)
    <3> DEFINE rec == NewJob("audit", r, TargetOf[r], "running")
    <3>1. PICK s \in Surveys :
             /\ Admit(i, r, rec, s)
             /\ row' = [q \in Runs |-> IF q = r THEN RunningRow ELSE SurveyedRow(q, s)]
      BY <2>1 DEF ResumeClone
    <3>2. rec.run = r
      BY DEF NewJob
    <3>3. job[j].run # r => row'[job[j].run] = SurveyedRow(job[j].run, s)
      BY <1>1, <3>1
    <3> HIDE DEF rec
    <3> QED
      BY <3>1, <3>2, <3>3, AdmitKeepsResult
  <2>2. CASE ResumeRestore(i, r)
    <3> DEFINE rec == NewJob("restore", r, TargetOf[r], "restoring")
    <3>1. PICK s \in Surveys :
             Admit(i, r, rec, s) /\ row' = [q \in Runs |-> SurveyedRow(q, s)]
      BY <2>2 DEF ResumeRestore
    <3>2. row'[job[j].run] = SurveyedRow(job[j].run, s)
      BY <1>1, <3>1
    <3> HIDE DEF rec
    <3> QED
      BY <3>1, <3>2, AdmitKeepsResult
  <2> QED
    BY <1>5, <2>1, <2>2
<1>6. ASSUME NEW i \in Jobs, NEW t \in Targets, StartReproduction(i, t) PROVE Kept(j)
  <2> DEFINE rec == NewJob("reproduction", NoRun, t, "running")
  <2>1. PICK s \in Surveys :
           Admit(i, NoRun, rec, s) /\ row' = [q \in Runs |-> SurveyedRow(q, s)]
    BY <1>6 DEF StartReproduction
  <2>2. row'[job[j].run] = SurveyedRow(job[j].run, s)
    BY <1>1, <2>1
  <2> HIDE DEF rec
  <2> QED
    BY <2>1, <2>2, AdmitKeepsResult
<1>7. ASSUME NEW i \in Jobs, RecordRun(i) PROVE Kept(j)
  <2>1. registered' = registered
    BY <1>7 DEF RecordRun
  <2>2. CASE i # j
    BY <1>1, <1>2, <1>7, <2>1, <2>2 DEF RecordRun, TypeOK
  <2>3. CASE i = j
    <3>1. PICK o \in FinishOutcomes :
             /\ row' = IF o[1] THEN [row EXCEPT ![job[j].run] = job[j].pending] ELSE row
             /\ job' = [job EXCEPT ![j].task = "done",
                                   ![j].pending = IF o[2] THEN NoResult ELSE @]
      BY <1>7, <2>3, Zenon DEF RecordRun
    <3>2. CASE o[1]
      <4>1. row' = [row EXCEPT ![job[j].run] = job[j].pending]
        BY <3>1, <3>2, Zenon
      <4> QED
        BY <1>1, <4>1 DEF TypeOK, Kept
    <3>3. CASE ~o[1]
      <4>1. ~o[2]
        BY <3>3, Outcomes
      <4>2. job'[j].pending = job[j].pending
        BY <1>1, <3>1, <4>1 DEF TypeOK, JobRecords
      <4> QED
        BY <1>2, <2>1, <4>2
    <3> QED
      BY <3>2, <3>3
  <2> QED
    BY <2>2, <2>3
<1>8. ASSUME NEW i \in Jobs, PoolWrites(i) PROVE Kept(j)
  <2>1. registered' = registered /\ pool.job = i /\ pool.result = job[i].pending
    BY <1>8 DEF PoolWrites, RecordInv, PoolReadIsCurrent
  <2>2. PICK o \in FinishOutcomes :
           /\ row' = IF o[1] THEN [row EXCEPT ![job[i].run] = pool.result] ELSE row
           /\ job' = IF o[2] THEN [job EXCEPT ![i].pending = NoResult] ELSE job
    BY <1>8, Zenon DEF PoolWrites
  <2>3. CASE o[2]
    <3>1. /\ row' = [row EXCEPT ![job[i].run] = pool.result]
          /\ job' = [job EXCEPT ![i].pending = NoResult]
      BY <2>2, <2>3, Outcomes, Zenon
    <3>2. CASE i = j
      BY <1>1, <2>1, <3>1, <3>2 DEF TypeOK, Kept
    <3>3. CASE i # j
      BY <1>1, <1>2, <2>1, <3>1, <3>3 DEF TypeOK
    <3> QED
      BY <3>2, <3>3
  <2>4. CASE ~o[2]
    BY <1>2, <2>1, <2>2, <2>4
  <2> QED
    BY <2>3, <2>4
<1>9. ASSUME NEW i \in Jobs, PoolPrunes(i) PROVE Kept(j)
  <2>1. /\ i \in registered /\ job[i].pending = NoResult
        /\ job' = job /\ registered' = {k \in registered : ~SameKey(k, i)}
    BY <1>9 DEF PoolPrunes, RecordInv, PoolReadIsCurrent
  <2>2. ~SameKey(j, i)
    BY <2>1 DEF RecordInv, ExclusionInv, KeysUnique
  <2> QED
    BY <2>1, <2>2 DEF Kept
<1>10. ASSUME NEW i \in Jobs, TaskMoves(i), ~RecordRun(i) PROVE Kept(j)
  <2>1. registered' = registered
    BY <1>10 DEF TaskMoves, Launch, EnterCoroutine, Restored, RestoreEnds, SwallowStop, BodyEnds,
                 RecordReproduction, WorktreeRemoved
  <2>2. CASE BodyEnds(i)
    <3>1. i # j
      BY <1>1, <2>2 DEF BodyEnds, Working, LiveTasks
    <3>2. job'[j] = job[j]
      BY <1>1, <2>2, <3>1 DEF BodyEnds, TypeOK
    <3> QED
      BY <1>2, <2>1, <3>2
  <2>3. CASE ~BodyEnds(i)
    <3>1. job'[j].pending = job[j].pending
      BY <1>1, <1>10, <2>3 DEF TaskMoves, Launch, EnterCoroutine, Restored, RestoreEnds,
                                SwallowStop, RecordReproduction, WorktreeRemoved, TypeOK, JobRecords
    <3> QED
      BY <1>2, <2>1, <3>1
  <2> QED
    BY <2>2, <2>3
<1>11. ASSUME NEW i \in Jobs, PoolMoves(i), ~PoolWrites(i), ~PoolPrunes(i) PROVE Kept(j)
  <2>1. registered' = registered
    BY <1>11 DEF PoolMoves, PoolLooks, PoolReconciles, PoolChoosesToPrune, Stop
  <2>2. job'[j].pending = job[j].pending
    BY <1>1, <1>11 DEF PoolMoves, PoolLooks, PoolReconciles, PoolChoosesToPrune, Stop, TypeOK,
                       JobRecords
  <2> QED
    BY <1>2, <2>1, <2>2
<1>12. CASE Request
  BY <1>3, <1>4, <1>5, <1>6, <1>12 DEF Request
<1>13. CASE Worker
  BY <1>13 DEF Worker, BeginShutdown, ShutdownTimesOut, Exit, Crash, Vanish, Boot, SkipResume,
               Serve
<1>14. CASE UNCHANGED vars
  BY <1>2, <1>14 DEF vars
<1> QED
  BY <1>7, <1>8, <1>9, <1>10, <1>11, <1>12, <1>13, <1>14 DEF Next

(***************************************************************************)
(* A result that could not be written is kept until its row holds it or    *)
(* its run is resumed.                                                     *)
(***************************************************************************)
THEOREM ResultsAreKept ==
    ASSUME Preempt = FALSE
    PROVE  Spec => ResultNotDropped
<1>1. RecordInv /\ [Next]_vars =>
        [\A j \in registered :
          job[j].pending # NoResult /\ phase = "up" /\ phase' = "up" =>
            \/ j \in registered' /\ job'[j].pending = job[j].pending
            \/ row'[job[j].run] = job[j].pending
            \/ row[job[j].run] = job[j].pending
            \/ \E i \in registered' \ registered : job'[i].run = job[j].run]_vars
  BY ResultStep DEF Kept
<1> QED
  BY <1>1, RecordInvariant, PTL DEF Spec, ResultNotDropped

(***************************************************************************)
(* Whatever an exit or a crash cut short, start-up finds or makes a row    *)
(* the audit can be continued from.                                        *)
(***************************************************************************)
THEOREM InterruptionsAreResumable ==
    ASSUME Preempt = FALSE
    PROVE  Spec => InterruptedIsResumable
<1>1. RecordInv /\ [Next]_vars =>
        [phase = "down" /\ phase' = "booting" =>
          \A r \in Runs : cut[r] # "none" => Resumable(row'[r])]_vars
  <2> SUFFICES ASSUME RecordInv, Next, phase = "down", phase' = "booting",
                      NEW r \in Runs, cut[r] # "none"
               PROVE  Resumable(row'[r])
    BY DEF vars
  <2>1. Continuable(row[r])
    BY DEF RecordInv, CutIsContinuable
  <2>2. Boot
    <3>1. ~Request
      BY DEF Request, Survey, StartAudit, ResumeClone, ResumeRestore, MayResume, StartReproduction
    <3>2. ASSUME NEW j \in Jobs PROVE ~TaskMoves(j) /\ ~PoolMoves(j)
      BY DEF TaskMoves, Launch, EnterCoroutine, Restored, RestoreEnds, SwallowStop, BodyEnds, RecordRun,
             RecordReproduction, WorktreeRemoved, TaskStep, PoolMoves, PoolLooks,
             PoolReconciles, PoolWrites, PoolChoosesToPrune, PoolPrunes, Stop, PoolMayRun
    <3> QED
      BY <3>1, <3>2 DEF Next, Worker, BeginShutdown, ShutdownTimesOut, Exit, Crash, Vanish,
                        SkipResume, Serve
  <2>3. row'[r] = IF row[r].status = "running" THEN CancelledRow ELSE row[r]
    BY <2>2 DEF Boot
  <2>4. Resumable(CancelledRow)
    BY DEF Resumable, CancelledRow
  <2> QED
    BY <2>1, <2>3, <2>4 DEF Continuable
<1> QED
  BY <1>1, RecordInvariant, PTL DEF Spec, InterruptedIsResumable
=============================================================================
