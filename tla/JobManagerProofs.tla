-------------------------- MODULE JobManagerProofs --------------------------
(***************************************************************************)
(* Proofs about JobManager for every value of its constants: the type      *)
(* invariant, for both values of Preempt, and, when handlers interleave    *)
(* with the event loop only at its awaits (Preempt = FALSE), that two jobs *)
(* never work in one checkout and that the job limit is kept.              *)
(***************************************************************************)
EXTENDS JobManager, FiniteSetTheorems, TLAPS

(***************************************************************************)
(* TypeOK is not inductive by itself: the result a pool thread carries is  *)
(* a real result when it is about to write it, and a shutdown leaves room  *)
(* for the exit it ends with.                                              *)
(***************************************************************************)
TypeInv ==
    /\ TypeOK
    /\ pool.pc = "write" => pool.result \in Results
    /\ phase = "stopping" => crashes < MaxCrashes

\* Every combination of fields the actions assign keeps a job record one.
LEMMA SetState ==
    ASSUME NEW x \in JobRecords, NEW st \in JobStates
    PROVE  [x EXCEPT !.state = st] \in JobRecords
BY DEF JobRecords

LEMMA SetTask ==
    ASSUME NEW x \in JobRecords, NEW t \in TaskStates
    PROVE  [x EXCEPT !.task = t] \in JobRecords
BY DEF JobRecords

LEMMA SetPending ==
    ASSUME NEW x \in JobRecords, NEW p \in Results \cup {NoResult}
    PROVE  [x EXCEPT !.pending = p] \in JobRecords
BY DEF JobRecords

LEMMA SetStateErr ==
    ASSUME NEW x \in JobRecords, NEW st \in JobStates, NEW e \in BOOLEAN
    PROVE  [x EXCEPT !.state = st, !.err = e] \in JobRecords
BY DEF JobRecords

LEMMA SetErrStop ==
    ASSUME NEW x \in JobRecords, NEW e \in BOOLEAN, NEW c \in Stops
    PROVE  [x EXCEPT !.err = e, !.stop = c] \in JobRecords
BY DEF JobRecords

LEMMA SetStop ==
    ASSUME NEW x \in JobRecords, NEW c \in Stops
    PROVE  [x EXCEPT !.stop = c] \in JobRecords
BY DEF JobRecords

LEMMA AskedType ==
    ASSUME TypeOK, NEW j \in Jobs
    PROVE  Asked(j) \in Stops /\ Asked(j) # "none"
BY DEF TypeOK, JobRecords, Asked, Stops

LEMMA SetTaskPending ==
    ASSUME NEW x \in JobRecords, NEW t \in TaskStates, NEW p \in Results \cup {NoResult}
    PROVE  [x EXCEPT !.task = t, !.pending = p] \in JobRecords
BY DEF JobRecords

LEMMA SetKindStateTask ==
    ASSUME NEW x \in JobRecords, NEW k \in Kinds, NEW st \in JobStates, NEW t \in TaskStates
    PROVE  [x EXCEPT !.kind = k, !.state = st, !.task = t] \in JobRecords
BY DEF JobRecords

LEMMA SetStateErrTask ==
    ASSUME NEW x \in JobRecords, NEW st \in JobStates, NEW e \in BOOLEAN, NEW t \in TaskStates
    PROVE  [x EXCEPT !.state = st, !.err = e, !.task = t] \in JobRecords
BY DEF JobRecords

LEMMA SetStateErrTaskPending ==
    ASSUME NEW x \in JobRecords, NEW st \in JobStates, NEW e \in BOOLEAN, NEW t \in TaskStates, NEW p \in Results \cup {NoResult}
    PROVE  [x EXCEPT !.state = st, !.err = e, !.task = t, !.pending = p] \in JobRecords
BY DEF JobRecords

\* A survey keeps the shape of the job objects.
LEMMA SurveyedJobType ==
    ASSUME TypeOK, NEW j \in Jobs, NEW s \in Surveys
    PROVE  SurveyedJob(j, s) \in JobRecords
<1>1. job[j] \in JobRecords
  BY DEF TypeOK
<1>2. "cancelled" \in JobStates /\ TRUE \in BOOLEAN /\ NoResult \in Results \cup {NoResult}
  BY DEF JobStates, Terminal
<1>3. [job[j] EXCEPT !.state = "cancelled", !.err = TRUE] \in JobRecords
  BY <1>1, <1>2, SetStateErr
<1>4. [job[j] EXCEPT !.pending = NoResult] \in JobRecords
  BY <1>1, <1>2, SetPending
<1> QED
  BY <1>1, <1>3, <1>4 DEF SurveyedJob

\* A survey writes rows: cancelled ones, and the results of terminal jobs.
LEMMA SurveyedRowType ==
    ASSUME TypeOK, NEW r \in Runs, NEW s \in Surveys
    PROVE  SurveyedRow(r, s) \in Rows
<1>1. CASE \E j \in registered : Orphaned(j) /\ job[j].run = r /\ row[r].status = "running"
  BY <1>1 DEF SurveyedRow, CancelledRow, Rows, RowStates, Terminal
<1>2. CASE /\ ~\E j \in registered : Orphaned(j) /\ job[j].run = r /\ row[r].status = "running"
           /\ \E j \in s.wrote : job[j].run = r
  <2> DEFINE w == CHOOSE j \in s.wrote : job[j].run = r
  <2>1. w \in s.wrote
    BY <1>2
  <2>2. w \in Jobs /\ job[w].pending # NoResult
    BY <2>1 DEF Surveys, Unsaved, TypeOK
  <2>3. job[w].pending \in Results
    BY <2>2 DEF TypeOK, JobRecords
  <2>4. job[w].pending \in Rows
    BY <2>3 DEF Results, Rows, RowStates
  <2> QED
    BY <1>2, <2>4 DEF SurveyedRow
<1>3. CASE /\ ~\E j \in registered : Orphaned(j) /\ job[j].run = r /\ row[r].status = "running"
           /\ ~\E j \in s.wrote : job[j].run = r
  BY <1>3 DEF SurveyedRow, TypeOK
<1> QED
  BY <1>1, <1>2, <1>3

LEMMA NewJobType ==
    ASSUME NEW k \in Kinds, NEW r \in Runs \cup {NoRun}, NEW t \in Targets \cup {NoRun},
           NEW st \in JobStates
    PROVE  NewJob(k, r, t, st) \in JobRecords
BY DEF NewJob, JobRecords, TaskStates, Stops

LEMMA AdmitType ==
    ASSUME TypeOK, NEW j \in Jobs, NEW c, NEW rec \in JobRecords, NEW s \in Surveys,
           Admit(j, c, rec, s)
    PROVE  job' \in [Jobs -> JobRecords] /\ registered' \subseteq Jobs /\ loop' \in Jobs
BY SurveyedJobType DEF Admit, TypeOK

LEMMA InitType == Init => TypeInv
<1> SUFFICES ASSUME Init PROVE TypeInv
  OBVIOUS
<1>1. NullJob \in JobRecords
  BY NewJobType DEF NullJob, Kinds, JobStates
<1>2. row \in [Runs -> Rows]
  <2>1. [status |-> "absent", error |-> FALSE] \in Rows
    BY DEF Rows, RowStates
  <2>2. [status |-> "done", error |-> TRUE] \in Rows
    BY DEF Rows, RowStates, Terminal
  <2> QED
    BY <2>1, <2>2 DEF Init
<1>3. IdlePool \in [pc : {"idle", "reconcile", "write", "prune"}, job : Jobs \cup {NoJob},
                    result : Results \cup {NoResult}]
  BY DEF IdlePool
<1>4. TypeOK
  BY <1>1, <1>2, <1>3, ConstantsAssumption DEF Init, TypeOK
<1> QED
  BY <1>4 DEF Init, TypeInv, IdlePool

LEMMA TypeStep == TypeInv /\ [Next]_vars => TypeInv'
<1> SUFFICES ASSUME TypeInv, [Next]_vars PROVE TypeInv'
  OBVIOUS
<1> DEFINE PoolType == [pc : {"idle", "reconcile", "write", "prune"},
                        job : Jobs \cup {NoJob}, result : Results \cup {NoResult}]
<1>t. TypeOK
  BY DEF TypeInv
<1>c. /\ {"cancelled", "failed", "done", "idle", "running", "restoring"} = JobStates
      /\ Terminal \subseteq JobStates
      /\ TRUE \in BOOLEAN /\ FALSE \in BOOLEAN
      /\ NoResult \in Results \cup {NoResult}
      /\ "audit" \in Kinds /\ "restore" \in Kinds /\ "reproduction" \in Kinds
      /\ {"none", "created", "restore", "body", "finish", "cleanup", "done"} = TaskStates
      /\ {"none", "due", "lost"} = Stops
  BY DEF JobStates, Terminal, BusyStates, Kinds, TaskStates, Stops
<1>r. RunningRow \in Rows /\ CancelledRow \in Rows /\ Results \subseteq Rows
  BY DEF RunningRow, CancelledRow, Rows, RowStates, Terminal, Results
<1>p. IdlePool \in PoolType /\ IdlePool.pc # "write"
  BY DEF IdlePool
<1>j. \A j \in Jobs : job[j] \in JobRecords
  BY <1>t DEF TypeOK
<1>f. \A j \in Jobs : /\ job[j].run \in Runs \cup {NoRun}
                      /\ job[j].err \in BOOLEAN
                      /\ job[j].pending \in Results \cup {NoResult}
  BY <1>j DEF JobRecords
<1>n. NullJob \in JobRecords
  BY <1>c, NewJobType DEF NullJob
<1>1. CASE UNCHANGED vars
  BY <1>1 DEF TypeInv, TypeOK, vars
<1>2. CASE Survey
  BY <1>2, <1>t, SurveyedJobType, SurveyedRowType DEF Survey, TypeInv, TypeOK
<1>3. ASSUME NEW j \in Jobs, NEW r \in Runs, StartAudit(j, r) PROVE TypeInv'
  <2>1. PICK s \in Surveys, created \in BOOLEAN :
           /\ Admit(j, NoRun, NewJob("audit", IF created THEN r ELSE NoRun, TargetOf[r],
                                     "running"), s)
           /\ row' = [q \in Runs |-> IF q = r /\ created THEN RunningRow ELSE SurveyedRow(q, s)]
    BY <1>3 DEF StartAudit
  <2>2. NewJob("audit", IF created THEN r ELSE NoRun, TargetOf[r], "running") \in JobRecords
    BY <1>c, NewJobType, ConstantsAssumption
  <2>3. job' \in [Jobs -> JobRecords] /\ registered' \subseteq Jobs /\ loop' \in Jobs
    BY <1>t, <2>1, <2>2, AdmitType
  <2>4. row' \in [Runs -> Rows]
    BY <1>t, <1>r, <2>1, SurveyedRowType
  <2> QED
    BY <1>3, <2>3, <2>4 DEF StartAudit, TypeInv, TypeOK
<1>4. ASSUME NEW j \in Jobs, NEW r \in Runs, ResumeClone(j, r) PROVE TypeInv'
  <2>1. PICK s \in Surveys :
           /\ Admit(j, r, NewJob("audit", r, TargetOf[r], "running"), s)
           /\ row' = [q \in Runs |-> IF q = r THEN RunningRow ELSE SurveyedRow(q, s)]
    BY <1>4 DEF ResumeClone
  <2>2. NewJob("audit", r, TargetOf[r], "running") \in JobRecords
    BY <1>c, NewJobType, ConstantsAssumption
  <2>3. job' \in [Jobs -> JobRecords] /\ registered' \subseteq Jobs /\ loop' \in Jobs
    BY <1>t, <2>1, <2>2, AdmitType
  <2>4. row' \in [Runs -> Rows]
    BY <1>t, <1>r, <2>1, SurveyedRowType
  <2> QED
    BY <1>4, <2>3, <2>4 DEF ResumeClone, TypeInv, TypeOK
<1>5. ASSUME NEW j \in Jobs, NEW r \in Runs, ResumeRestore(j, r) PROVE TypeInv'
  <2>1. PICK s \in Surveys :
           /\ Admit(j, r, NewJob("restore", r, TargetOf[r], "restoring"), s)
           /\ row' = [q \in Runs |-> SurveyedRow(q, s)]
    BY <1>5 DEF ResumeRestore
  <2>2. NewJob("restore", r, TargetOf[r], "restoring") \in JobRecords
    BY <1>c, NewJobType, ConstantsAssumption
  <2>3. job' \in [Jobs -> JobRecords] /\ registered' \subseteq Jobs /\ loop' \in Jobs
    BY <1>t, <2>1, <2>2, AdmitType
  <2>4. row' \in [Runs -> Rows]
    BY <1>t, <1>r, <2>1, SurveyedRowType
  <2> QED
    BY <1>5, <2>3, <2>4 DEF ResumeRestore, TypeInv, TypeOK
<1>6. ASSUME NEW j \in Jobs, NEW t \in Targets, StartReproduction(j, t) PROVE TypeInv'
  <2>1. PICK s \in Surveys :
           /\ Admit(j, NoRun, NewJob("reproduction", NoRun, t, "running"), s)
           /\ row' = [q \in Runs |-> SurveyedRow(q, s)]
    BY <1>6 DEF StartReproduction
  <2>2. NewJob("reproduction", NoRun, t, "running") \in JobRecords
    BY <1>c, NewJobType
  <2>3. job' \in [Jobs -> JobRecords] /\ registered' \subseteq Jobs /\ loop' \in Jobs
    BY <1>t, <2>1, <2>2, AdmitType
  <2>4. row' \in [Runs -> Rows]
    BY <1>t, <1>r, <2>1, SurveyedRowType
  <2> QED
    BY <1>6, <2>3, <2>4 DEF StartReproduction, TypeInv, TypeOK
<1>7. ASSUME NEW j \in Jobs, Launch(j) PROVE TypeInv'
  BY <1>7, <1>c, <1>j, SetTask DEF Launch, TypeInv, TypeOK
<1>8. ASSUME NEW j \in Jobs, EnterCoroutine(j) PROVE TypeInv'
  BY <1>8, <1>c, <1>j, SetTask DEF EnterCoroutine, TypeInv, TypeOK
<1>9. ASSUME NEW j \in Jobs, Restored(j) PROVE TypeInv'
  BY <1>9, <1>c, <1>r, <1>j, SetKindStateTask DEF Restored, TypeInv, TypeOK
<1>10. ASSUME NEW j \in Jobs, RestoreEnds(j) PROVE TypeInv'
  <2> DEFINE st == IF job[j].stop = "due" THEN "cancelled" ELSE "failed"
  <2> DEFINE e == job[j].err \/ job[j].stop # "due"
  <2>1. st \in JobStates /\ e \in BOOLEAN /\ "done" \in TaskStates
    BY <1>c
  <2>2. [job[j] EXCEPT !.state = st, !.err = e, !.task = "done"] \in JobRecords
    BY <2>1, <1>j, SetStateErrTask
  <2>3. job' = [job EXCEPT ![j] = [job[j] EXCEPT !.state = st, !.err = e, !.task = "done"]]
    BY <1>10, <1>t DEF RestoreEnds, TypeOK
  <2> HIDE DEF st, e
  <2>4. job' \in [Jobs -> JobRecords]
    BY <2>2, <2>3, <1>t DEF TypeOK
  <2> QED
    BY <1>10, <2>4 DEF RestoreEnds, TypeInv, TypeOK
<1>11. ASSUME NEW j \in Jobs, BodyEnds(j) PROVE TypeInv'
  <2>1. PICK status \in Terminal :
           LET error == IF status = "cancelled" THEN job[j].err ELSE status = "failed"
           IN  job' = [job EXCEPT
                 ![j].state = status, ![j].err = error, ![j].task = "finish",
                 ![j].pending = IF job[j].run = NoRun THEN NoResult
                                ELSE [status |-> status, error |-> error]]
    BY <1>11 DEF BodyEnds
  <2> DEFINE e == IF status = "cancelled" THEN job[j].err ELSE status = "failed"
  <2> DEFINE p == IF job[j].run = NoRun THEN NoResult ELSE [status |-> status, error |-> e]
  <2>2. e \in BOOLEAN
    BY <1>f
  <2>3. [status |-> status, error |-> e] \in Results
    BY <2>2 DEF Results
  <2>4. p \in Results \cup {NoResult} /\ status \in JobStates /\ "finish" \in TaskStates
    BY <2>3, <1>c
  <2>5. [job[j] EXCEPT !.state = status, !.err = e, !.task = "finish", !.pending = p]
            \in JobRecords
    BY <2>2, <2>4, <1>j, SetStateErrTaskPending
  <2>6. job' = [job EXCEPT ![j] = [job[j] EXCEPT !.state = status, !.err = e,
                                                 !.task = "finish", !.pending = p]]
    BY <2>1, <1>t DEF TypeOK
  <2> HIDE DEF e, p
  <2>7. job' \in [Jobs -> JobRecords]
    BY <2>5, <2>6, <1>t DEF TypeOK
  <2> QED
    <3>1. cut' \in [Runs -> {"none"} \cup BusyStates]
      BY <1>11, <1>t DEF BodyEnds, TypeOK
    <3> QED BY <1>11, <2>7, <3>1 DEF BodyEnds, TypeInv, TypeOK
<1>30. ASSUME NEW j \in Jobs, SwallowStop(j) PROVE TypeInv'
  BY <1>30, <1>c, <1>j, SetStop DEF SwallowStop, TypeInv, TypeOK
<1>12. ASSUME NEW j \in Jobs, RecordRun(j) PROVE TypeInv'
  <2>1. CASE job[j].pending = NoResult
    BY <1>12, <2>1, <1>c, <1>j, SetTask, SMTT(30) DEF RecordRun, TypeInv, TypeOK
  <2>2. CASE job[j].pending # NoResult
    <3>1. PICK o \in FinishOutcomes :
             /\ row' = IF o[1] THEN [row EXCEPT ![job[j].run] = job[j].pending] ELSE row
             /\ job' = [job EXCEPT ![j].task = "done",
                                   ![j].pending = IF o[2] THEN NoResult ELSE @]
      BY <1>12, <2>2 DEF RecordRun
    <3>2. job[j].pending \in Rows
      BY <2>2, <1>f, <1>r
    <3>3. row' \in [Runs -> Rows]
      BY <3>1, <3>2, <1>t DEF TypeOK
    <3> DEFINE p == IF o[2] THEN NoResult ELSE job[j].pending
    <3>4. p \in Results \cup {NoResult} /\ "done" \in TaskStates
      BY <1>f, <1>c
    <3>5. [job[j] EXCEPT !.task = "done", !.pending = p] \in JobRecords
      BY <3>4, <1>j, SetTaskPending
    <3>6. job' = [job EXCEPT ![j] = [job[j] EXCEPT !.task = "done", !.pending = p]]
      BY <3>1, <1>t DEF TypeOK
    <3> HIDE DEF p
    <3>7. job' \in [Jobs -> JobRecords]
      BY <3>5, <3>6, <1>t DEF TypeOK
    <3> QED
      BY <1>12, <3>3, <3>7 DEF RecordRun, TypeInv, TypeOK
  <2> QED
    BY <2>1, <2>2
<1>13. ASSUME NEW j \in Jobs, RecordReproduction(j) PROVE TypeInv'
  BY <1>13, <1>c, <1>j, SetTask DEF RecordReproduction, TypeInv, TypeOK
<1>14. ASSUME NEW j \in Jobs, WorktreeRemoved(j) PROVE TypeInv'
  BY <1>14, <1>c, <1>j, SetTask DEF WorktreeRemoved, TypeInv, TypeOK
<1>15. ASSUME NEW j \in Jobs, PoolLooks(j) PROVE TypeInv'
  <2>1. pool' \in PoolType /\ (pool'.pc = "write" => pool'.result \in Results)
    BY <1>15, <1>f DEF PoolLooks, Unsaved
  <2> QED
    BY <1>15, <2>1 DEF PoolLooks, TypeInv, TypeOK
<1>16. ASSUME NEW j \in Jobs, PoolReconciles(j) PROVE TypeInv'
  <2>1. [job[j] EXCEPT !.state = "cancelled", !.err = TRUE] \in JobRecords
    BY <1>c, <1>j, SetStateErr
  <2>2. \/ job' = job
        \/ job' = [job EXCEPT ![j] = [job[j] EXCEPT !.state = "cancelled", !.err = TRUE]]
    BY <1>16, <1>t DEF PoolReconciles, TypeOK
  <2>3. job' \in [Jobs -> JobRecords]
    BY <2>1, <2>2, <1>t DEF TypeOK
  <2>4. row' \in [Runs -> Rows]
    BY <1>16, <1>r, <1>t DEF PoolReconciles, TypeOK
  <2> QED
    BY <1>16, <2>3, <2>4, <1>p DEF PoolReconciles, TypeInv, TypeOK
<1>17. ASSUME NEW j \in Jobs, PoolWrites(j) PROVE TypeInv'
  <2>1. pool.result \in Rows
    BY <1>17, <1>r DEF PoolWrites, TypeInv
  <2>2. [job[j] EXCEPT !.pending = NoResult] \in JobRecords
    BY <1>c, <1>j, SetPending
  <2>3. job' \in [Jobs -> JobRecords] /\ row' \in [Runs -> Rows]
    BY <1>17, <2>1, <2>2, <1>t DEF PoolWrites, TypeOK
  <2> QED
    BY <1>17, <2>3, <1>p DEF PoolWrites, TypeInv, TypeOK
<1>18. ASSUME NEW j \in Jobs, PoolChoosesToPrune(j) PROVE TypeInv'
  BY <1>18 DEF PoolChoosesToPrune, TypeInv, TypeOK
<1>19. ASSUME NEW j \in Jobs, PoolPrunes(j) PROVE TypeInv'
  BY <1>19, <1>p DEF PoolPrunes, TypeInv, TypeOK
<1>20. ASSUME NEW j \in Jobs, Stop(j) PROVE TypeInv'
  BY <1>20, <1>c, <1>j, SetErrStop DEF Stop, TypeInv, TypeOK
<1>21. CutNow \in [Runs -> {"none"} \cup BusyStates]
  <2> SUFFICES ASSUME NEW r \in Runs PROVE CutNow[r] \in {"none"} \cup BusyStates
    BY DEF CutNow
  <2> DEFINE w == CHOOSE j \in registered : Busy(j) /\ job[j].run = r
  <2>1. CASE \E j \in registered : Busy(j) /\ job[j].run = r
    <3>1. Busy(w)
      BY <2>1
    <3> QED
      BY <2>1, <3>1 DEF CutNow, Busy
  <2>2. CASE ~\E j \in registered : Busy(j) /\ job[j].run = r
    BY <2>2, <1>t DEF CutNow, TypeOK
  <2> QED
    BY <2>1, <2>2
<1>22. CASE BeginShutdown
  <2>1. PICK s \in Surveys :
           /\ row' = [r \in Runs |-> SurveyedRow(r, s)]
           /\ job' = [j \in Jobs |->
                 IF j \in registered /\ Busy(j) /\ ~Orphaned(j)
                 THEN [job[j] EXCEPT !.err = TRUE, !.stop = Asked(j)]
                 ELSE SurveyedJob(j, s)]
    BY <1>22 DEF BeginShutdown
  <2>2. \A j \in Jobs : [job[j] EXCEPT !.err = TRUE, !.stop = Asked(j)] \in JobRecords
    BY <1>c, <1>j, <1>t, AskedType, SetErrStop
  <2>3. \A j \in Jobs : SurveyedJob(j, s) \in JobRecords
    BY <1>t, SurveyedJobType
  <2>4. job' \in [Jobs -> JobRecords]
    BY <2>1, <2>2, <2>3
  <2>5. row' \in [Runs -> Rows]
    BY <2>1, <1>t, SurveyedRowType
  <2> QED
    BY <1>22, <1>21, <2>4, <2>5 DEF BeginShutdown, TypeInv, TypeOK
<1>23. ASSUME NEW j \in Jobs, ShutdownTimesOut(j) PROVE TypeInv'
  <2>1. [job[j] EXCEPT !.state = "cancelled"] \in JobRecords
    BY <1>c, <1>j, SetState
  <2>2. job' = [job EXCEPT ![j] = [job[j] EXCEPT !.state = "cancelled"]]
    BY <1>23 DEF ShutdownTimesOut
  <2>3. job' \in [Jobs -> JobRecords]
    BY <2>1, <2>2, <1>t DEF TypeOK
  <2>4. row' \in [Runs -> Rows]
    BY <1>23, <1>r, <1>t DEF ShutdownTimesOut, TypeOK
  <2> QED
    BY <1>23, <2>3, <2>4 DEF ShutdownTimesOut, TypeInv, TypeOK
<1>24. ASSUME Vanish, cut' \in [Runs -> {"none"} \cup BusyStates], crashes < MaxCrashes
       PROVE  TypeInv'
  BY <1>24, <1>n, <1>p, ConstantsAssumption DEF Vanish, TypeInv, TypeOK
<1>25. CASE Exit
  BY <1>25, <1>24 DEF Exit, TypeInv, TypeOK
<1>26. CASE Crash
  BY <1>26, <1>24, <1>21 DEF Crash
<1>27. CASE Boot
  <2>1. row' \in [Runs -> Rows] /\ cut' \in [Runs -> {"none"} \cup BusyStates]
    BY <1>27, <1>r, <1>t DEF Boot, TypeOK
  <2> QED
    BY <1>27, <2>1 DEF Boot, TypeInv, TypeOK
<1>28. ASSUME NEW r \in Runs, SkipResume(r) PROVE TypeInv'
  BY <1>28 DEF SkipResume, TypeInv, TypeOK
<1>29. CASE Serve
  BY <1>29 DEF Serve, TypeInv, TypeOK
<1> QED
  BY <1>1, <1>2, <1>3, <1>4, <1>5, <1>6, <1>7, <1>8, <1>9, <1>10, <1>11, <1>12, <1>13,
     <1>14, <1>15, <1>16, <1>17, <1>18, <1>19, <1>20, <1>22, <1>23, <1>25, <1>26, <1>27,
     <1>28, <1>29, <1>30 DEF Next, Request, TaskMoves, PoolMoves, Worker

(***************************************************************************)
(* Every reachable state of the scheduler is well-typed, whether or not    *)
(* pool threads run inside the loop's sections.                            *)
(***************************************************************************)
THEOREM TypeCorrect == Spec => []TypeOK
<1>1. TypeInv => TypeOK
  BY DEF TypeInv
<1> QED
  BY <1>1, InitType, TypeStep, PTL DEF Spec

-----------------------------------------------------------------------------
(***************************************************************************)
(* Exclusion.  What the conflict check of a start looks at is the          *)
(* registry; what must not collide are the tasks.  The invariant ties the  *)
(* two together: a working task belongs to a registered busy job (until a  *)
(* shutdown gives up on it), so the check sees every task there is.        *)
(***************************************************************************)
Claims(j) == Working(j) \/ (j \in registered /\ Busy(j))
Claimants == {j \in Jobs : Claims(j)}

TasksRegistered ==
    phase \in {"up", "booting"} => \A j \in Jobs : Working(j) => j \in registered /\ Busy(j)
ClaimsDisjoint ==
    \A i, j \in Jobs : i # j /\ Claims(i) /\ Claims(j) => job[i].target # job[j].target
ClaimsBounded == Cardinality(Claimants) <= MaxConcurrent
LaunchedIsRegistered ==
    \A j \in Jobs : loop = j /\ job[j].task = "none" => j \in registered /\ Busy(j)
SectionsExclusive == loop # NoJob => pool.pc = "idle"
KeysUnique == \A i, j \in registered : SameKey(i, j) => i = j
PrunesEnded ==
    pool.pc = "prune" => pool.job \in registered /\ job[pool.job].state \in Terminal
RunsExist == \A j \in Jobs : job[j].run # NoRun => row[job[j].run].status # "absent"
DownIsEmpty == phase = "down" => registered = {} /\ \A j \in Jobs : job[j] = NullJob

ExclusionInv ==
    /\ TypeInv
    /\ TasksRegistered /\ ClaimsDisjoint /\ ClaimsBounded /\ LaunchedIsRegistered
    /\ SectionsExclusive /\ KeysUnique /\ PrunesEnded /\ RunsExist /\ DownIsEmpty

\* A survey only releases orphans and forgets results it has written.
LEMMA SurveyedFields ==
    ASSUME TypeOK, NEW j \in Jobs, NEW s \in Surveys
    PROVE  /\ SurveyedJob(j, s).run = job[j].run
           /\ SurveyedJob(j, s).target = job[j].target
           /\ SurveyedJob(j, s).task = job[j].task
           /\ SurveyedJob(j, s).state =
                 IF j \in registered /\ Orphaned(j) THEN "cancelled" ELSE job[j].state
<1>1. job[j] \in JobRecords
  BY DEF TypeOK
<1> QED
  BY <1>1 DEF SurveyedJob, JobRecords

\* A step after which every claim is an old one keeps claims disjoint and bounded.
LEMMA ClaimsShrink ==
    ASSUME ClaimsDisjoint, ClaimsBounded,
           \A j \in Jobs : Claims(j)' => Claims(j) /\ job'[j].target = job[j].target
    PROVE  ClaimsDisjoint' /\ ClaimsBounded'
<1>1. ClaimsDisjoint'
  BY DEF ClaimsDisjoint
<1>2. Claimants' \subseteq Claimants
  BY DEF Claimants
<1>3. IsFiniteSet(Claimants)
  <2>1. Claimants \subseteq Jobs
    BY DEF Claimants
  <2> QED
    BY <2>1, FS_Subset, ConstantsAssumption
<1>4. /\ IsFiniteSet(Claimants')
      /\ Cardinality(Claimants') <= Cardinality(Claimants)
  BY <1>2, <1>3, FS_Subset
<1>5. Cardinality(Claimants) \in Nat /\ Cardinality(Claimants') \in Nat
  BY <1>3, <1>4, FS_CardinalityType
<1>6. ClaimsBounded'
  BY <1>4, <1>5, ConstantsAssumption DEF ClaimsBounded
<1> QED
  BY <1>1, <1>6

(***************************************************************************)
(* The four starts.  Whatever still claims a checkout after the survey is  *)
(* one of the active jobs the conflict check compared the new one with.    *)
(***************************************************************************)
LEMMA AdmitExcludes ==
    ASSUME Preempt = FALSE, ExclusionInv, phase \in {"up", "booting"},
           NEW j \in Jobs, NEW c, NEW rec \in JobRecords, NEW s \in Surveys,
           rec.state \in BusyStates, rec.task = "none",
           \/ rec.run = NoRun
           \/ c = rec.run
           \/ \A i \in Jobs : job[i].run # rec.run,
           Admit(j, c, rec, s), phase' = phase, pool' = pool
    PROVE  /\ TasksRegistered' /\ ClaimsDisjoint' /\ ClaimsBounded' /\ LaunchedIsRegistered'
           /\ SectionsExclusive' /\ KeysUnique' /\ PrunesEnded' /\ DownIsEmpty'
<1> DEFINE active == {i \in registered : Busy(i) /\ ~Orphaned(i)}
<1>t. TypeOK
  BY DEF ExclusionInv, TypeInv
<1>a. /\ loop = NoJob /\ pool.pc = "idle" /\ loop' = j /\ j \notin registered
      /\ registered' = {i \in registered \ s.old : rec.run = NoRun \/ job[i].run # rec.run}
                          \cup {j}
  BY DEF Admit, LoopFree, Free
<1>b. job'[j] = rec
  BY <1>t DEF Admit, TypeOK
<1>c. \A i \in Jobs : i # j => /\ job'[i].run = job[i].run
                               /\ job'[i].target = job[i].target
                               /\ job'[i].task = job[i].task
                               /\ job'[i].state = IF i \in registered /\ Orphaned(i)
                                                  THEN "cancelled" ELSE job[i].state
  <2> SUFFICES ASSUME NEW i \in Jobs, i # j
               PROVE  /\ job'[i].run = job[i].run
                      /\ job'[i].target = job[i].target
                      /\ job'[i].task = job[i].task
                      /\ job'[i].state = IF i \in registered /\ Orphaned(i)
                                         THEN "cancelled" ELSE job[i].state
    OBVIOUS
  <2>1. job'[i] = SurveyedJob(i, s)
    BY DEF Admit
  <2> QED
    BY <2>1, <1>t, SurveyedFields
<1>d. \A i \in Jobs : i # j /\ Claims(i)' => i \in active
  <2> SUFFICES ASSUME NEW i \in Jobs, i # j, Claims(i)' PROVE i \in active
    OBVIOUS
  <2>1. CASE Working(i)'
    <3>1. Working(i)
      BY <2>1, <1>c DEF Working
    <3>2. i \in registered /\ Busy(i)
      BY <3>1 DEF ExclusionInv, TasksRegistered
    <3>3. ~Orphaned(i)
      BY <3>1 DEF Orphaned, TaskGone, Working, LiveTasks
    <3> QED
      BY <3>2, <3>3
  <2>2. CASE i \in registered' /\ Busy(i)'
    BY <2>2, <1>a, <1>c DEF Busy, BusyStates
  <2> QED
    BY <2>1, <2>2 DEF Claims
<1>e. \A i \in active : /\ Cardinality(active) < MaxConcurrent
                        /\ job[i].target # rec.target
                        /\ c = NoRun \/ job[i].run # c
  BY DEF Admit, StartAllowed
<1>f. Cardinality(active) < MaxConcurrent
  BY DEF Admit, StartAllowed
<1>1. TasksRegistered'
  <2> SUFFICES ASSUME NEW i \in Jobs, Working(i)' PROVE i \in registered' /\ Busy(i)'
    BY DEF TasksRegistered
  <2>1. i # j
    BY <1>b DEF Working, LiveTasks
  <2>2. i \in active
    BY <2>1, <1>d DEF Claims
  <2>3. Busy(i)'
    BY <2>1, <2>2, <1>c DEF Busy
  <2>4. i \notin s.old
    BY <2>2 DEF Surveys, Busy, BusyStates, Terminal
  <2>5. rec.run = NoRun \/ job[i].run # rec.run
    BY <2>2, <1>e, <1>t DEF TypeOK
  <2> QED
    BY <2>2, <2>3, <2>4, <2>5, <1>a
<1>2. ClaimsDisjoint'
  <2> SUFFICES ASSUME NEW i \in Jobs, NEW k \in Jobs, i # k, Claims(i)', Claims(k)'
               PROVE  job'[i].target # job'[k].target
    BY DEF ClaimsDisjoint
  <2>1. CASE i = j
    BY <2>1, <1>b, <1>c, <1>d, <1>e
  <2>2. CASE k = j
    BY <2>2, <1>b, <1>c, <1>d, <1>e
  <2>3. CASE i # j /\ k # j
    <3>1. Claims(i) /\ Claims(k)
      BY <2>3, <1>d DEF Claims
    <3>2. job[i].target # job[k].target
      BY <3>1 DEF ExclusionInv, ClaimsDisjoint
    <3> QED
      BY <3>2, <2>3, <1>c
  <2> QED
    BY <2>1, <2>2, <2>3
<1>3. ClaimsBounded'
  <2>1. Claimants' \subseteq active \cup {j}
    BY <1>d DEF Claimants
  <2>2. IsFiniteSet(active)
    <3>1. active \subseteq Jobs
      BY <1>t DEF TypeOK
    <3> QED
      BY <3>1, FS_Subset, ConstantsAssumption
  <2>3. j \notin active
    BY <1>a
  <2>4. /\ IsFiniteSet(active \cup {j})
        /\ Cardinality(active \cup {j}) = Cardinality(active) + 1
    BY <2>2, <2>3, FS_AddElement
  <2>5. /\ IsFiniteSet(Claimants')
        /\ Cardinality(Claimants') <= Cardinality(active \cup {j})
    BY <2>1, <2>4, FS_Subset
  <2>6. /\ Cardinality(active) \in Nat /\ Cardinality(active \cup {j}) \in Nat
        /\ Cardinality(Claimants') \in Nat
    BY <2>2, <2>4, <2>5, FS_CardinalityType
  <2> HIDE DEF active
  <2> QED
    BY <1>f, <2>4, <2>5, <2>6, ConstantsAssumption DEF ClaimsBounded
<1>4. LaunchedIsRegistered'
  BY <1>a, <1>b DEF LaunchedIsRegistered, Busy
<1>5. SectionsExclusive' /\ PrunesEnded'
  BY <1>a DEF SectionsExclusive, PrunesEnded
<1>6. KeysUnique'
  <2> SUFFICES ASSUME NEW i \in registered', NEW k \in registered', SameKey(i, k)' PROVE i = k
    BY DEF KeysUnique
  <2>1. i \in Jobs /\ k \in Jobs
    BY <1>a, <1>t DEF TypeOK
  <2>2. CASE i = j \/ k = j
    BY <2>1, <2>2, <1>a, <1>b, <1>c DEF SameKey
  <2>3. CASE i # j /\ k # j
    <3>1. i \in registered /\ k \in registered /\ SameKey(i, k)
      BY <2>1, <2>3, <1>a, <1>c DEF SameKey
    <3> QED
      BY <3>1 DEF ExclusionInv, KeysUnique
  <2> QED
    BY <2>2, <2>3
<1>7. DownIsEmpty'
  BY DEF DownIsEmpty
<1> QED
  BY <1>1, <1>2, <1>3, <1>4, <1>5, <1>6, <1>7

\* A row that exists is never deleted by a survey.
LEMMA SurveyedRowExists ==
    ASSUME TypeOK, NEW r \in Runs, NEW s \in Surveys, row[r].status # "absent"
    PROVE  SurveyedRow(r, s).status # "absent"
<1>1. CASE \E j \in registered : Orphaned(j) /\ job[j].run = r /\ row[r].status = "running"
  BY <1>1 DEF SurveyedRow, CancelledRow
<1>2. CASE /\ ~\E j \in registered : Orphaned(j) /\ job[j].run = r /\ row[r].status = "running"
           /\ \E j \in s.wrote : job[j].run = r
  <2> DEFINE w == CHOOSE j \in s.wrote : job[j].run = r
  <2>1. w \in s.wrote
    BY <1>2
  <2>2. w \in Jobs /\ job[w].pending # NoResult
    BY <2>1 DEF Surveys, Unsaved, TypeOK
  <2>3. job[w].pending.status \in Terminal
    BY <2>2 DEF TypeOK, JobRecords, Results
  <2> QED
    BY <1>2, <2>3 DEF SurveyedRow, Terminal
<1>3. CASE /\ ~\E j \in registered : Orphaned(j) /\ job[j].run = r /\ row[r].status = "running"
           /\ ~\E j \in s.wrote : job[j].run = r
  BY <1>3 DEF SurveyedRow
<1> QED
  BY <1>1, <1>2, <1>3

(***************************************************************************)
(* What is left to show of a step that starts no job: it creates no claim, *)
(* renames no job and deletes no row.                                      *)
(***************************************************************************)
LEMMA QuietStep ==
    ASSUME ExclusionInv, TypeOK', registered' \subseteq registered,
           \A i \in Jobs : job'[i].run = job[i].run /\ job'[i].target = job[i].target,
           \A i \in Jobs : Claims(i)' => Claims(i),
           \A r \in Runs : row[r].status # "absent" => row'[r].status # "absent"
    PROVE  ClaimsDisjoint' /\ ClaimsBounded' /\ KeysUnique' /\ RunsExist'
<1>1. ClaimsDisjoint' /\ ClaimsBounded'
  BY ClaimsShrink DEF ExclusionInv
<1>2. KeysUnique'
  <2> SUFFICES ASSUME NEW i \in registered', NEW k \in registered', SameKey(i, k)' PROVE i = k
    BY DEF KeysUnique
  <2>1. i \in Jobs /\ k \in Jobs /\ i \in registered /\ k \in registered
    BY DEF TypeOK
  <2>2. SameKey(i, k)
    BY <2>1 DEF SameKey
  <2> QED
    BY <2>1, <2>2 DEF ExclusionInv, KeysUnique
<1>3. RunsExist'
  <2> SUFFICES ASSUME NEW i \in Jobs, job'[i].run # NoRun
               PROVE  row'[job'[i].run].status # "absent"
    BY DEF RunsExist
  <2>1. job'[i].run \in Runs
    BY DEF TypeOK, JobRecords
  <2>2. row[job[i].run].status # "absent"
    BY DEF ExclusionInv, RunsExist
  <2> QED
    BY <2>1, <2>2
<1> QED
  BY <1>1, <1>2, <1>3

(***************************************************************************)
(* One step of the scheduler keeps the exclusion invariant when handlers   *)
(* do not run inside the loop's sections.                                  *)
(***************************************************************************)
LEMMA ExclusionStep ==
    ASSUME Preempt = FALSE, ExclusionInv, [Next]_vars
    PROVE  ExclusionInv'
<1>t. TypeOK /\ TypeInv
  BY DEF ExclusionInv, TypeInv
<1>u. TypeInv' /\ TypeOK'
  <2>1. TypeInv'
    BY <1>t, TypeStep
  <2> QED
    BY <2>1 DEF TypeInv
<1>j. \A i \in Jobs : job[i] \in JobRecords
  BY <1>t DEF TypeOK
<1>l. /\ LoopFree => loop = NoJob /\ pool.pc = "idle"
      /\ PoolMayRun => loop = NoJob /\ phase = "up"
  BY DEF LoopFree, PoolMayRun
<1>n. NoJob \notin Jobs
  BY ConstantsAssumption
<1>1. CASE UNCHANGED vars
  <2>1. \A i \in Jobs : Claims(i)' => Claims(i)
    BY <1>1 DEF vars, Claims, Working, Busy
  <2>2. ClaimsDisjoint' /\ ClaimsBounded' /\ KeysUnique' /\ RunsExist'
    BY <1>1, <1>u, <2>1, QuietStep DEF vars
  <2>3. /\ TasksRegistered' /\ LaunchedIsRegistered' /\ SectionsExclusive' /\ PrunesEnded'
        /\ DownIsEmpty'
    BY <1>1 DEF vars, ExclusionInv, TasksRegistered, LaunchedIsRegistered, SectionsExclusive,
                PrunesEnded, DownIsEmpty, Working, Busy
  <2> QED
    BY <1>u, <2>2, <2>3 DEF ExclusionInv
<1>2. ASSUME NEW j \in Jobs, Launch(j) PROVE ExclusionInv'
  <2>1. registered' \subseteq registered
    BY <1>2 DEF Launch
  <2>2. \A i \in Jobs : job'[i].run = job[i].run /\ job'[i].target = job[i].target
    BY <1>2, <1>t, <1>j DEF Launch, TypeOK, JobRecords
  <2>3. \A i \in Jobs : Claims(i)' => Claims(i)
    BY <1>2, <1>t, <1>j DEF Launch, Claims, Working, Busy, BusyStates, LiveTasks, TypeOK, JobRecords, Terminal, TaskGone, ExclusionInv, LaunchedIsRegistered
  <2>4. \A r \in Runs : row[r].status # "absent" => row'[r].status # "absent"
    BY <1>2, <1>t, <1>j DEF Launch, RunningRow, CancelledRow, TypeOK, TypeInv, JobRecords, Results, Terminal
  <2>5. ClaimsDisjoint' /\ ClaimsBounded' /\ KeysUnique' /\ RunsExist'
    BY <1>u, <2>1, <2>2, <2>3, <2>4, QuietStep
  <2>6. TasksRegistered'
    BY <1>2, <1>t, <1>j, <1>l, <1>n DEF Launch, ExclusionInv, TypeOK, JobRecords, TaskGone, TasksRegistered, LaunchedIsRegistered, Working, Busy, BusyStates, LiveTasks
  <2>7. LaunchedIsRegistered'
    BY <1>2, <1>t, <1>j, <1>l, <1>n DEF Launch, ExclusionInv, TypeOK, JobRecords, TaskGone, LaunchedIsRegistered, Busy, BusyStates
  <2>8. SectionsExclusive' /\ PrunesEnded'
    BY <1>2, <1>t, <1>j, <1>l, <1>n DEF Launch, ExclusionInv, TypeOK, JobRecords, TaskGone, SectionsExclusive, PrunesEnded, Busy, BusyStates, Terminal, IdlePool
  <2>9. DownIsEmpty'
    BY <1>2, <1>t, <1>j, <1>l, <1>n DEF Launch, ExclusionInv, TypeOK, JobRecords, TaskGone, DownIsEmpty, LaunchedIsRegistered, NullJob, NewJob, PoolMayRun
  <2> QED
    BY <1>u, <2>5, <2>6, <2>7, <2>8, <2>9 DEF ExclusionInv
<1>3. ASSUME NEW j \in Jobs, EnterCoroutine(j) PROVE ExclusionInv'
  <2>1. registered' \subseteq registered
    BY <1>3 DEF EnterCoroutine
  <2>2. \A i \in Jobs : job'[i].run = job[i].run /\ job'[i].target = job[i].target
    BY <1>3, <1>t, <1>j DEF EnterCoroutine, TypeOK, JobRecords
  <2>3. \A i \in Jobs : Claims(i)' => Claims(i)
    BY <1>3, <1>t, <1>j DEF EnterCoroutine, TaskStep, Claims, Working, Busy, BusyStates, LiveTasks, TypeOK, JobRecords, Terminal, TaskGone, ExclusionInv, LaunchedIsRegistered
  <2>4. \A r \in Runs : row[r].status # "absent" => row'[r].status # "absent"
    BY <1>3, <1>t, <1>j DEF EnterCoroutine, RunningRow, CancelledRow, TypeOK, TypeInv, JobRecords, Results, Terminal
  <2>5. ClaimsDisjoint' /\ ClaimsBounded' /\ KeysUnique' /\ RunsExist'
    BY <1>u, <2>1, <2>2, <2>3, <2>4, QuietStep
  <2>6. TasksRegistered'
    BY <1>3, <1>t, <1>j, <1>l, <1>n DEF EnterCoroutine, TaskStep, ExclusionInv, TypeOK, JobRecords, TaskGone, TasksRegistered, Working, Busy, BusyStates, LiveTasks
  <2>7. LaunchedIsRegistered'
    BY <1>3, <1>t, <1>j, <1>l, <1>n DEF EnterCoroutine, TaskStep, ExclusionInv, TypeOK, JobRecords, TaskGone, LaunchedIsRegistered, Busy, BusyStates
  <2>8. SectionsExclusive' /\ PrunesEnded'
    BY <1>3, <1>t, <1>j, <1>l, <1>n DEF EnterCoroutine, TaskStep, ExclusionInv, TypeOK, JobRecords, TaskGone, SectionsExclusive, PrunesEnded, Busy, BusyStates, Terminal, IdlePool
  <2>9. DownIsEmpty'
    BY <1>3, <1>t, <1>j, <1>l, <1>n DEF EnterCoroutine, TaskStep, ExclusionInv, TypeOK, JobRecords, TaskGone, DownIsEmpty, LaunchedIsRegistered, NullJob, NewJob, PoolMayRun
  <2> QED
    BY <1>u, <2>5, <2>6, <2>7, <2>8, <2>9 DEF ExclusionInv
<1>4. ASSUME NEW j \in Jobs, Restored(j) PROVE ExclusionInv'
  <2>1. registered' \subseteq registered
    BY <1>4 DEF Restored
  <2>2. \A i \in Jobs : job'[i].run = job[i].run /\ job'[i].target = job[i].target
    BY <1>4, <1>t, <1>j DEF Restored, TypeOK, JobRecords
  <2>3. \A i \in Jobs : Claims(i)' => Claims(i)
    BY <1>4, <1>t, <1>j DEF Restored, TaskStep, Claims, Working, Busy, BusyStates, LiveTasks, TypeOK, JobRecords, Terminal, TaskGone, ExclusionInv, LaunchedIsRegistered
  <2>4. \A r \in Runs : row[r].status # "absent" => row'[r].status # "absent"
    BY <1>4, <1>t, <1>j DEF Restored, RunningRow, CancelledRow, TypeOK, TypeInv, JobRecords, Results, Terminal
  <2>5. ClaimsDisjoint' /\ ClaimsBounded' /\ KeysUnique' /\ RunsExist'
    BY <1>u, <2>1, <2>2, <2>3, <2>4, QuietStep
  <2>6. TasksRegistered'
    BY <1>4, <1>t, <1>j, <1>l, <1>n DEF Restored, TaskStep, ExclusionInv, TypeOK, JobRecords, TaskGone, TasksRegistered, Working, Busy, BusyStates, LiveTasks
  <2>7. LaunchedIsRegistered'
    BY <1>4, <1>t, <1>j, <1>l, <1>n DEF Restored, TaskStep, ExclusionInv, TypeOK, JobRecords, TaskGone, LaunchedIsRegistered, Busy, BusyStates
  <2>8. SectionsExclusive' /\ PrunesEnded'
    BY <1>4, <1>t, <1>j, <1>l, <1>n DEF Restored, TaskStep, ExclusionInv, TypeOK, JobRecords, TaskGone, SectionsExclusive, PrunesEnded, Busy, BusyStates, Terminal, IdlePool
  <2>9. DownIsEmpty'
    BY <1>4, <1>t, <1>j, <1>l, <1>n DEF Restored, TaskStep, ExclusionInv, TypeOK, JobRecords, TaskGone, DownIsEmpty, LaunchedIsRegistered, NullJob, NewJob, PoolMayRun
  <2> QED
    BY <1>u, <2>5, <2>6, <2>7, <2>8, <2>9 DEF ExclusionInv
<1>5. ASSUME NEW j \in Jobs, RestoreEnds(j) PROVE ExclusionInv'
  <2>1. registered' \subseteq registered
    BY <1>5 DEF RestoreEnds
  <2>2. \A i \in Jobs : job'[i].run = job[i].run /\ job'[i].target = job[i].target
    BY <1>5, <1>t, <1>j DEF RestoreEnds, TypeOK, JobRecords
  <2>3. \A i \in Jobs : Claims(i)' => Claims(i)
    BY <1>5, <1>t, <1>j DEF RestoreEnds, TaskStep, Claims, Working, Busy, BusyStates, LiveTasks, TypeOK, JobRecords, Terminal, TaskGone, ExclusionInv, LaunchedIsRegistered
  <2>4. \A r \in Runs : row[r].status # "absent" => row'[r].status # "absent"
    BY <1>5, <1>t, <1>j DEF RestoreEnds, RunningRow, CancelledRow, TypeOK, TypeInv, JobRecords, Results, Terminal
  <2>5. ClaimsDisjoint' /\ ClaimsBounded' /\ KeysUnique' /\ RunsExist'
    BY <1>u, <2>1, <2>2, <2>3, <2>4, QuietStep
  <2>6. TasksRegistered'
    BY <1>5, <1>t, <1>j, <1>l, <1>n DEF RestoreEnds, TaskStep, ExclusionInv, TypeOK, JobRecords, TaskGone, TasksRegistered, Working, Busy, BusyStates, LiveTasks
  <2>7. LaunchedIsRegistered'
    BY <1>5, <1>t, <1>j, <1>l, <1>n DEF RestoreEnds, TaskStep, ExclusionInv, TypeOK, JobRecords, TaskGone, LaunchedIsRegistered, Busy, BusyStates
  <2>8. SectionsExclusive' /\ PrunesEnded'
    BY <1>5, <1>t, <1>j, <1>l, <1>n DEF RestoreEnds, TaskStep, ExclusionInv, TypeOK, JobRecords, TaskGone, SectionsExclusive, PrunesEnded, Busy, BusyStates, Terminal, IdlePool
  <2>9. DownIsEmpty'
    BY <1>5, <1>t, <1>j, <1>l, <1>n DEF RestoreEnds, TaskStep, ExclusionInv, TypeOK, JobRecords, TaskGone, DownIsEmpty, LaunchedIsRegistered, NullJob, NewJob, PoolMayRun
  <2> QED
    BY <1>u, <2>5, <2>6, <2>7, <2>8, <2>9 DEF ExclusionInv
<1>6. ASSUME NEW j \in Jobs, BodyEnds(j) PROVE ExclusionInv'
  <2>1. registered' \subseteq registered
    BY <1>6 DEF BodyEnds
  <2>2. \A i \in Jobs : job'[i].run = job[i].run /\ job'[i].target = job[i].target
    BY <1>6, <1>t, <1>j DEF BodyEnds, TypeOK, JobRecords
  <2>3. \A i \in Jobs : Claims(i)' => Claims(i)
    BY <1>6, <1>t, <1>j DEF BodyEnds, TaskStep, Claims, Working, Busy, BusyStates, LiveTasks, TypeOK, JobRecords, Terminal, TaskGone, ExclusionInv, LaunchedIsRegistered
  <2>4. \A r \in Runs : row[r].status # "absent" => row'[r].status # "absent"
    BY <1>6, <1>t, <1>j DEF BodyEnds, RunningRow, CancelledRow, TypeOK, TypeInv, JobRecords, Results, Terminal
  <2>5. ClaimsDisjoint' /\ ClaimsBounded' /\ KeysUnique' /\ RunsExist'
    BY <1>u, <2>1, <2>2, <2>3, <2>4, QuietStep
  <2>6. TasksRegistered'
    BY <1>6, <1>t, <1>j, <1>l, <1>n DEF BodyEnds, TaskStep, ExclusionInv, TypeOK, JobRecords, TaskGone, TasksRegistered, Working, Busy, BusyStates, LiveTasks
  <2>7. LaunchedIsRegistered'
    BY <1>6, <1>t, <1>j, <1>l, <1>n DEF BodyEnds, TaskStep, ExclusionInv, TypeOK, JobRecords, TaskGone, LaunchedIsRegistered, Busy, BusyStates
  <2>8. SectionsExclusive' /\ PrunesEnded'
    BY <1>6, <1>t, <1>j, <1>l, <1>n DEF BodyEnds, TaskStep, ExclusionInv, TypeOK, JobRecords, TaskGone, SectionsExclusive, PrunesEnded, Busy, BusyStates, Terminal, IdlePool
  <2>9. DownIsEmpty'
    BY <1>6, <1>t, <1>j, <1>l, <1>n DEF BodyEnds, TaskStep, ExclusionInv, TypeOK, JobRecords, TaskGone, DownIsEmpty, LaunchedIsRegistered, NullJob, NewJob, PoolMayRun
  <2> QED
    BY <1>u, <2>5, <2>6, <2>7, <2>8, <2>9 DEF ExclusionInv
<1>33. ASSUME NEW j \in Jobs, SwallowStop(j) PROVE ExclusionInv'
  <2>1. registered' \subseteq registered
    BY <1>33 DEF SwallowStop
  <2>2. \A i \in Jobs : job'[i].run = job[i].run /\ job'[i].target = job[i].target
    BY <1>33, <1>t, <1>j DEF SwallowStop, TypeOK, JobRecords
  <2>3. \A i \in Jobs : Claims(i)' => Claims(i)
    BY <1>33, <1>t, <1>j DEF SwallowStop, TaskStep, Claims, Working, Busy, BusyStates, LiveTasks, TypeOK, JobRecords, Terminal, TaskGone, ExclusionInv, LaunchedIsRegistered
  <2>4. \A r \in Runs : row[r].status # "absent" => row'[r].status # "absent"
    BY <1>33, <1>t, <1>j DEF SwallowStop, RunningRow, CancelledRow, TypeOK, TypeInv, JobRecords, Results, Terminal
  <2>5. ClaimsDisjoint' /\ ClaimsBounded' /\ KeysUnique' /\ RunsExist'
    BY <1>u, <2>1, <2>2, <2>3, <2>4, QuietStep
  <2>6. TasksRegistered'
    BY <1>33, <1>t, <1>j, <1>l, <1>n DEF SwallowStop, TaskStep, ExclusionInv, TypeOK, JobRecords, TaskGone, TasksRegistered, Working, Busy, BusyStates, LiveTasks
  <2>7. LaunchedIsRegistered'
    BY <1>33, <1>t, <1>j, <1>l, <1>n DEF SwallowStop, TaskStep, ExclusionInv, TypeOK, JobRecords, TaskGone, LaunchedIsRegistered, Busy, BusyStates
  <2>8. SectionsExclusive' /\ PrunesEnded'
    BY <1>33, <1>t, <1>j, <1>l, <1>n DEF SwallowStop, TaskStep, ExclusionInv, TypeOK, JobRecords, TaskGone, SectionsExclusive, PrunesEnded, Busy, BusyStates, Terminal, IdlePool
  <2>9. DownIsEmpty'
    BY <1>33, <1>t, <1>j, <1>l, <1>n DEF SwallowStop, TaskStep, ExclusionInv, TypeOK, JobRecords, TaskGone, DownIsEmpty, LaunchedIsRegistered, NullJob, NewJob, PoolMayRun
  <2> QED
    BY <1>u, <2>5, <2>6, <2>7, <2>8, <2>9 DEF ExclusionInv
<1>7. ASSUME NEW j \in Jobs, RecordRun(j) PROVE ExclusionInv'
  <2>1. registered' \subseteq registered
    BY <1>7 DEF RecordRun
  <2>2. \A i \in Jobs : job'[i].run = job[i].run /\ job'[i].target = job[i].target
    BY <1>7, <1>t, <1>j DEF RecordRun, TypeOK, JobRecords
  <2>3. \A i \in Jobs : Claims(i)' => Claims(i)
    BY <1>7, <1>t, <1>j DEF RecordRun, Claims, Working, Busy, BusyStates, LiveTasks, TypeOK, JobRecords, Terminal, TaskGone, ExclusionInv, LaunchedIsRegistered
  <2>4. \A r \in Runs : row[r].status # "absent" => row'[r].status # "absent"
    BY <1>7, <1>t, <1>j DEF RecordRun, RunningRow, CancelledRow, TypeOK, TypeInv, JobRecords, Results, Terminal
  <2>5. ClaimsDisjoint' /\ ClaimsBounded' /\ KeysUnique' /\ RunsExist'
    BY <1>u, <2>1, <2>2, <2>3, <2>4, QuietStep
  <2>6. TasksRegistered'
    BY <1>7, <1>t, <1>j, <1>l, <1>n DEF RecordRun, ExclusionInv, TypeOK, JobRecords, TaskGone, TasksRegistered, Working, Busy, BusyStates, LiveTasks
  <2>7. LaunchedIsRegistered'
    BY <1>7, <1>t, <1>j, <1>l, <1>n DEF RecordRun, ExclusionInv, TypeOK, JobRecords, TaskGone, LaunchedIsRegistered, Busy, BusyStates
  <2>8. SectionsExclusive' /\ PrunesEnded'
    BY <1>7, <1>t, <1>j, <1>l, <1>n DEF RecordRun, ExclusionInv, TypeOK, JobRecords, TaskGone, SectionsExclusive, PrunesEnded, Busy, BusyStates, Terminal, IdlePool
  <2>9. DownIsEmpty'
    BY <1>7, <1>t, <1>j, <1>l, <1>n DEF RecordRun, ExclusionInv, TypeOK, JobRecords, TaskGone, DownIsEmpty, LaunchedIsRegistered, NullJob, NewJob, PoolMayRun
  <2> QED
    BY <1>u, <2>5, <2>6, <2>7, <2>8, <2>9 DEF ExclusionInv
<1>8. ASSUME NEW j \in Jobs, RecordReproduction(j) PROVE ExclusionInv'
  <2>1. registered' \subseteq registered
    BY <1>8 DEF RecordReproduction
  <2>2. \A i \in Jobs : job'[i].run = job[i].run /\ job'[i].target = job[i].target
    BY <1>8, <1>t, <1>j DEF RecordReproduction, TypeOK, JobRecords
  <2>3. \A i \in Jobs : Claims(i)' => Claims(i)
    BY <1>8, <1>t, <1>j DEF RecordReproduction, Claims, Working, Busy, BusyStates, LiveTasks, TypeOK, JobRecords, Terminal, TaskGone, ExclusionInv, LaunchedIsRegistered
  <2>4. \A r \in Runs : row[r].status # "absent" => row'[r].status # "absent"
    BY <1>8, <1>t, <1>j DEF RecordReproduction, RunningRow, CancelledRow, TypeOK, TypeInv, JobRecords, Results, Terminal
  <2>5. ClaimsDisjoint' /\ ClaimsBounded' /\ KeysUnique' /\ RunsExist'
    BY <1>u, <2>1, <2>2, <2>3, <2>4, QuietStep
  <2>6. TasksRegistered'
    BY <1>8, <1>t, <1>j, <1>l, <1>n DEF RecordReproduction, ExclusionInv, TypeOK, JobRecords, TaskGone, TasksRegistered, Working, Busy, BusyStates, LiveTasks
  <2>7. LaunchedIsRegistered'
    BY <1>8, <1>t, <1>j, <1>l, <1>n DEF RecordReproduction, ExclusionInv, TypeOK, JobRecords, TaskGone, LaunchedIsRegistered, Busy, BusyStates
  <2>8. SectionsExclusive' /\ PrunesEnded'
    BY <1>8, <1>t, <1>j, <1>l, <1>n DEF RecordReproduction, ExclusionInv, TypeOK, JobRecords, TaskGone, SectionsExclusive, PrunesEnded, Busy, BusyStates, Terminal, IdlePool
  <2>9. DownIsEmpty'
    BY <1>8, <1>t, <1>j, <1>l, <1>n DEF RecordReproduction, ExclusionInv, TypeOK, JobRecords, TaskGone, DownIsEmpty, LaunchedIsRegistered, NullJob, NewJob, PoolMayRun
  <2> QED
    BY <1>u, <2>5, <2>6, <2>7, <2>8, <2>9 DEF ExclusionInv
<1>9. ASSUME NEW j \in Jobs, WorktreeRemoved(j) PROVE ExclusionInv'
  <2>1. registered' \subseteq registered
    BY <1>9 DEF WorktreeRemoved
  <2>2. \A i \in Jobs : job'[i].run = job[i].run /\ job'[i].target = job[i].target
    BY <1>9, <1>t, <1>j DEF WorktreeRemoved, TypeOK, JobRecords
  <2>3. \A i \in Jobs : Claims(i)' => Claims(i)
    BY <1>9, <1>t, <1>j DEF WorktreeRemoved, TaskStep, Claims, Working, Busy, BusyStates, LiveTasks, TypeOK, JobRecords, Terminal, TaskGone, ExclusionInv, LaunchedIsRegistered
  <2>4. \A r \in Runs : row[r].status # "absent" => row'[r].status # "absent"
    BY <1>9, <1>t, <1>j DEF WorktreeRemoved, RunningRow, CancelledRow, TypeOK, TypeInv, JobRecords, Results, Terminal
  <2>5. ClaimsDisjoint' /\ ClaimsBounded' /\ KeysUnique' /\ RunsExist'
    BY <1>u, <2>1, <2>2, <2>3, <2>4, QuietStep
  <2>6. TasksRegistered'
    BY <1>9, <1>t, <1>j, <1>l, <1>n DEF WorktreeRemoved, TaskStep, ExclusionInv, TypeOK, JobRecords, TaskGone, TasksRegistered, Working, Busy, BusyStates, LiveTasks
  <2>7. LaunchedIsRegistered'
    BY <1>9, <1>t, <1>j, <1>l, <1>n DEF WorktreeRemoved, TaskStep, ExclusionInv, TypeOK, JobRecords, TaskGone, LaunchedIsRegistered, Busy, BusyStates
  <2>8. SectionsExclusive' /\ PrunesEnded'
    BY <1>9, <1>t, <1>j, <1>l, <1>n DEF WorktreeRemoved, TaskStep, ExclusionInv, TypeOK, JobRecords, TaskGone, SectionsExclusive, PrunesEnded, Busy, BusyStates, Terminal, IdlePool
  <2>9. DownIsEmpty'
    BY <1>9, <1>t, <1>j, <1>l, <1>n DEF WorktreeRemoved, TaskStep, ExclusionInv, TypeOK, JobRecords, TaskGone, DownIsEmpty, LaunchedIsRegistered, NullJob, NewJob, PoolMayRun
  <2> QED
    BY <1>u, <2>5, <2>6, <2>7, <2>8, <2>9 DEF ExclusionInv
<1>10. ASSUME NEW j \in Jobs, PoolLooks(j) PROVE ExclusionInv'
  <2>1. registered' \subseteq registered
    BY <1>10 DEF PoolLooks
  <2>2. \A i \in Jobs : job'[i].run = job[i].run /\ job'[i].target = job[i].target
    BY <1>10, <1>t, <1>j DEF PoolLooks, TypeOK, JobRecords
  <2>3. \A i \in Jobs : Claims(i)' => Claims(i)
    BY <1>10, <1>t, <1>j DEF PoolLooks, Claims, Working, Busy, BusyStates, LiveTasks, TypeOK, JobRecords, Terminal, TaskGone, ExclusionInv, LaunchedIsRegistered
  <2>4. \A r \in Runs : row[r].status # "absent" => row'[r].status # "absent"
    BY <1>10, <1>t, <1>j DEF PoolLooks, RunningRow, CancelledRow, TypeOK, TypeInv, JobRecords, Results, Terminal
  <2>5. ClaimsDisjoint' /\ ClaimsBounded' /\ KeysUnique' /\ RunsExist'
    BY <1>u, <2>1, <2>2, <2>3, <2>4, QuietStep
  <2>6. TasksRegistered'
    BY <1>10, <1>t, <1>j, <1>l, <1>n DEF PoolLooks, ExclusionInv, TypeOK, JobRecords, TaskGone, TasksRegistered, Working, Busy, BusyStates, LiveTasks
  <2>7. LaunchedIsRegistered'
    BY <1>10, <1>t, <1>j, <1>l, <1>n DEF PoolLooks, ExclusionInv, TypeOK, JobRecords, TaskGone, LaunchedIsRegistered, Busy, BusyStates
  <2>8. SectionsExclusive' /\ PrunesEnded'
    BY <1>10, <1>t, <1>j, <1>l, <1>n DEF PoolLooks, ExclusionInv, TypeOK, JobRecords, TaskGone, SectionsExclusive, PrunesEnded, Busy, BusyStates, Terminal, IdlePool
  <2>9. DownIsEmpty'
    BY <1>10, <1>t, <1>j, <1>l, <1>n DEF PoolLooks, ExclusionInv, TypeOK, JobRecords, TaskGone, DownIsEmpty, LaunchedIsRegistered, NullJob, NewJob, PoolMayRun
  <2> QED
    BY <1>u, <2>5, <2>6, <2>7, <2>8, <2>9 DEF ExclusionInv
<1>11. ASSUME NEW j \in Jobs, PoolReconciles(j) PROVE ExclusionInv'
  <2>1. registered' \subseteq registered
    BY <1>11 DEF PoolReconciles
  <2>2. \A i \in Jobs : job'[i].run = job[i].run /\ job'[i].target = job[i].target
    BY <1>11, <1>t, <1>j DEF PoolReconciles, TypeOK, JobRecords
  <2>3. \A i \in Jobs : Claims(i)' => Claims(i)
    BY <1>11, <1>t, <1>j DEF PoolReconciles, Claims, Working, Busy, BusyStates, LiveTasks, TypeOK, JobRecords, Terminal, TaskGone, ExclusionInv, LaunchedIsRegistered
  <2>4. \A r \in Runs : row[r].status # "absent" => row'[r].status # "absent"
    BY <1>11, <1>t, <1>j DEF PoolReconciles, RunningRow, CancelledRow, TypeOK, TypeInv, JobRecords, Results, Terminal
  <2>5. ClaimsDisjoint' /\ ClaimsBounded' /\ KeysUnique' /\ RunsExist'
    BY <1>u, <2>1, <2>2, <2>3, <2>4, QuietStep
  <2>6. TasksRegistered'
    BY <1>11, <1>t, <1>j, <1>l, <1>n DEF PoolReconciles, ExclusionInv, TypeOK, JobRecords, TaskGone, TasksRegistered, Working, Busy, BusyStates, LiveTasks
  <2>7. LaunchedIsRegistered'
    BY <1>11, <1>t, <1>j, <1>l, <1>n DEF PoolReconciles, ExclusionInv, TypeOK, JobRecords, TaskGone, LaunchedIsRegistered, Busy, BusyStates
  <2>8. SectionsExclusive' /\ PrunesEnded'
    BY <1>11, <1>t, <1>j, <1>l, <1>n DEF PoolReconciles, ExclusionInv, TypeOK, JobRecords, TaskGone, SectionsExclusive, PrunesEnded, Busy, BusyStates, Terminal, IdlePool
  <2>9. DownIsEmpty'
    BY <1>11, <1>t, <1>j, <1>l, <1>n DEF PoolReconciles, ExclusionInv, TypeOK, JobRecords, TaskGone, DownIsEmpty, LaunchedIsRegistered, NullJob, NewJob, PoolMayRun
  <2> QED
    BY <1>u, <2>5, <2>6, <2>7, <2>8, <2>9 DEF ExclusionInv
<1>12. ASSUME NEW j \in Jobs, PoolWrites(j) PROVE ExclusionInv'
  <2>1. registered' \subseteq registered
    BY <1>12 DEF PoolWrites
  <2>2. \A i \in Jobs : job'[i].run = job[i].run /\ job'[i].target = job[i].target
    BY <1>12, <1>t, <1>j DEF PoolWrites, TypeOK, JobRecords
  <2>3. \A i \in Jobs : Claims(i)' => Claims(i)
    BY <1>12, <1>t, <1>j DEF PoolWrites, Claims, Working, Busy, BusyStates, LiveTasks, TypeOK, JobRecords, Terminal, TaskGone, ExclusionInv, LaunchedIsRegistered
  <2>4. \A r \in Runs : row[r].status # "absent" => row'[r].status # "absent"
    BY <1>12, <1>t, <1>j DEF PoolWrites, RunningRow, CancelledRow, TypeOK, TypeInv, JobRecords, Results, Terminal
  <2>5. ClaimsDisjoint' /\ ClaimsBounded' /\ KeysUnique' /\ RunsExist'
    BY <1>u, <2>1, <2>2, <2>3, <2>4, QuietStep
  <2>6. TasksRegistered'
    BY <1>12, <1>t, <1>j, <1>l, <1>n DEF PoolWrites, ExclusionInv, TypeOK, JobRecords, TaskGone, TasksRegistered, Working, Busy, BusyStates, LiveTasks
  <2>7. LaunchedIsRegistered'
    BY <1>12, <1>t, <1>j, <1>l, <1>n DEF PoolWrites, ExclusionInv, TypeOK, JobRecords, TaskGone, LaunchedIsRegistered, Busy, BusyStates
  <2>8. SectionsExclusive' /\ PrunesEnded'
    BY <1>12, <1>t, <1>j, <1>l, <1>n DEF PoolWrites, ExclusionInv, TypeOK, JobRecords, TaskGone, SectionsExclusive, PrunesEnded, Busy, BusyStates, Terminal, IdlePool
  <2>9. DownIsEmpty'
    BY <1>12, <1>t, <1>j, <1>l, <1>n DEF PoolWrites, ExclusionInv, TypeOK, JobRecords, TaskGone, DownIsEmpty, LaunchedIsRegistered, NullJob, NewJob, PoolMayRun
  <2> QED
    BY <1>u, <2>5, <2>6, <2>7, <2>8, <2>9 DEF ExclusionInv
<1>13. ASSUME NEW j \in Jobs, PoolChoosesToPrune(j) PROVE ExclusionInv'
  <2>1. registered' \subseteq registered
    BY <1>13 DEF PoolChoosesToPrune
  <2>2. \A i \in Jobs : job'[i].run = job[i].run /\ job'[i].target = job[i].target
    BY <1>13, <1>t, <1>j DEF PoolChoosesToPrune, TypeOK, JobRecords
  <2>3. \A i \in Jobs : Claims(i)' => Claims(i)
    BY <1>13, <1>t, <1>j DEF PoolChoosesToPrune, Claims, Working, Busy, BusyStates, LiveTasks, TypeOK, JobRecords, Terminal, TaskGone, ExclusionInv, LaunchedIsRegistered
  <2>4. \A r \in Runs : row[r].status # "absent" => row'[r].status # "absent"
    BY <1>13, <1>t, <1>j DEF PoolChoosesToPrune, RunningRow, CancelledRow, TypeOK, TypeInv, JobRecords, Results, Terminal
  <2>5. ClaimsDisjoint' /\ ClaimsBounded' /\ KeysUnique' /\ RunsExist'
    BY <1>u, <2>1, <2>2, <2>3, <2>4, QuietStep
  <2>6. TasksRegistered'
    BY <1>13, <1>t, <1>j, <1>l, <1>n DEF PoolChoosesToPrune, ExclusionInv, TypeOK, JobRecords, TaskGone, TasksRegistered, Working, Busy, BusyStates, LiveTasks
  <2>7. LaunchedIsRegistered'
    BY <1>13, <1>t, <1>j, <1>l, <1>n DEF PoolChoosesToPrune, ExclusionInv, TypeOK, JobRecords, TaskGone, LaunchedIsRegistered, Busy, BusyStates
  <2>8. SectionsExclusive' /\ PrunesEnded'
    BY <1>13, <1>t, <1>j, <1>l, <1>n DEF PoolChoosesToPrune, ExclusionInv, TypeOK, JobRecords, TaskGone, SectionsExclusive, PrunesEnded, Busy, BusyStates, Terminal, IdlePool
  <2>9. DownIsEmpty'
    BY <1>13, <1>t, <1>j, <1>l, <1>n DEF PoolChoosesToPrune, ExclusionInv, TypeOK, JobRecords, TaskGone, DownIsEmpty, LaunchedIsRegistered, NullJob, NewJob, PoolMayRun
  <2> QED
    BY <1>u, <2>5, <2>6, <2>7, <2>8, <2>9 DEF ExclusionInv
<1>14. ASSUME NEW j \in Jobs, PoolPrunes(j) PROVE ExclusionInv'
  <2>1. registered' \subseteq registered
    BY <1>14 DEF PoolPrunes
  <2>2. \A i \in Jobs : job'[i].run = job[i].run /\ job'[i].target = job[i].target
    BY <1>14, <1>t, <1>j DEF PoolPrunes, TypeOK, JobRecords
  <2>3. \A i \in Jobs : Claims(i)' => Claims(i)
    BY <1>14, <1>t, <1>j DEF PoolPrunes, Claims, Working, Busy, BusyStates, LiveTasks, TypeOK, JobRecords, Terminal, TaskGone, ExclusionInv, LaunchedIsRegistered
  <2>4. \A r \in Runs : row[r].status # "absent" => row'[r].status # "absent"
    BY <1>14, <1>t, <1>j DEF PoolPrunes, RunningRow, CancelledRow, TypeOK, TypeInv, JobRecords, Results, Terminal
  <2>5. ClaimsDisjoint' /\ ClaimsBounded' /\ KeysUnique' /\ RunsExist'
    BY <1>u, <2>1, <2>2, <2>3, <2>4, QuietStep
  <2>6. TasksRegistered'
    BY <1>14, <1>t, <1>j, <1>l, <1>n DEF PoolPrunes, ExclusionInv, TypeOK, JobRecords, TaskGone, TasksRegistered, KeysUnique, PrunesEnded, Terminal, Working, Busy, BusyStates, LiveTasks
  <2>7. LaunchedIsRegistered'
    BY <1>14, <1>t, <1>j, <1>l, <1>n DEF PoolPrunes, ExclusionInv, TypeOK, JobRecords, TaskGone, LaunchedIsRegistered, Busy, BusyStates
  <2>8. SectionsExclusive' /\ PrunesEnded'
    BY <1>14, <1>t, <1>j, <1>l, <1>n DEF PoolPrunes, ExclusionInv, TypeOK, JobRecords, TaskGone, SectionsExclusive, PrunesEnded, Busy, BusyStates, Terminal, IdlePool
  <2>9. DownIsEmpty'
    BY <1>14, <1>t, <1>j, <1>l, <1>n DEF PoolPrunes, ExclusionInv, TypeOK, JobRecords, TaskGone, DownIsEmpty, LaunchedIsRegistered, NullJob, NewJob, PoolMayRun
  <2> QED
    BY <1>u, <2>5, <2>6, <2>7, <2>8, <2>9 DEF ExclusionInv
<1>15. ASSUME NEW j \in Jobs, Stop(j) PROVE ExclusionInv'
  <2>1. registered' \subseteq registered
    BY <1>15 DEF Stop
  <2>2. \A i \in Jobs : job'[i].run = job[i].run /\ job'[i].target = job[i].target
    BY <1>15, <1>t, <1>j DEF Stop, TypeOK, JobRecords
  <2>3. \A i \in Jobs : Claims(i)' => Claims(i)
    BY <1>15, <1>t, <1>j DEF Stop, Claims, Working, Busy, BusyStates, LiveTasks, TypeOK, JobRecords, Terminal, TaskGone, ExclusionInv, LaunchedIsRegistered
  <2>4. \A r \in Runs : row[r].status # "absent" => row'[r].status # "absent"
    BY <1>15, <1>t, <1>j DEF Stop, RunningRow, CancelledRow, TypeOK, TypeInv, JobRecords, Results, Terminal
  <2>5. ClaimsDisjoint' /\ ClaimsBounded' /\ KeysUnique' /\ RunsExist'
    BY <1>u, <2>1, <2>2, <2>3, <2>4, QuietStep
  <2>6. TasksRegistered'
    BY <1>15, <1>t, <1>j, <1>l, <1>n DEF Stop, ExclusionInv, TypeOK, JobRecords, TaskGone, TasksRegistered, Working, Busy, BusyStates, LiveTasks
  <2>7. LaunchedIsRegistered'
    BY <1>15, <1>t, <1>j, <1>l, <1>n DEF Stop, ExclusionInv, TypeOK, JobRecords, TaskGone, LaunchedIsRegistered, Busy, BusyStates
  <2>8. SectionsExclusive' /\ PrunesEnded'
    BY <1>15, <1>t, <1>j, <1>l, <1>n DEF Stop, ExclusionInv, TypeOK, JobRecords, TaskGone, SectionsExclusive, PrunesEnded, Busy, BusyStates, Terminal, IdlePool
  <2>9. DownIsEmpty'
    BY <1>15, <1>t, <1>j, <1>l, <1>n DEF Stop, ExclusionInv, TypeOK, JobRecords, TaskGone, DownIsEmpty, LaunchedIsRegistered, NullJob, NewJob, PoolMayRun
  <2> QED
    BY <1>u, <2>5, <2>6, <2>7, <2>8, <2>9 DEF ExclusionInv
<1>16. ASSUME NEW j \in Jobs, ShutdownTimesOut(j) PROVE ExclusionInv'
  <2>1. registered' \subseteq registered
    BY <1>16 DEF ShutdownTimesOut
  <2>2. \A i \in Jobs : job'[i].run = job[i].run /\ job'[i].target = job[i].target
    BY <1>16, <1>t, <1>j DEF ShutdownTimesOut, TypeOK, JobRecords
  <2>3. \A i \in Jobs : Claims(i)' => Claims(i)
    BY <1>16, <1>t, <1>j DEF ShutdownTimesOut, Claims, Working, Busy, BusyStates, LiveTasks, TypeOK, JobRecords, Terminal, TaskGone, ExclusionInv, LaunchedIsRegistered
  <2>4. \A r \in Runs : row[r].status # "absent" => row'[r].status # "absent"
    BY <1>16, <1>t, <1>j DEF ShutdownTimesOut, RunningRow, CancelledRow, TypeOK, TypeInv, JobRecords, Results, Terminal
  <2>5. ClaimsDisjoint' /\ ClaimsBounded' /\ KeysUnique' /\ RunsExist'
    BY <1>u, <2>1, <2>2, <2>3, <2>4, QuietStep
  <2>6. TasksRegistered'
    BY <1>16, <1>t, <1>j, <1>l, <1>n DEF ShutdownTimesOut, ExclusionInv, TypeOK, JobRecords, TaskGone, TasksRegistered, Working, Busy, BusyStates, LiveTasks
  <2>7. LaunchedIsRegistered'
    BY <1>16, <1>t, <1>j, <1>l, <1>n DEF ShutdownTimesOut, ExclusionInv, TypeOK, JobRecords, TaskGone, LaunchedIsRegistered, Busy, BusyStates
  <2>8. SectionsExclusive' /\ PrunesEnded'
    BY <1>16, <1>t, <1>j, <1>l, <1>n DEF ShutdownTimesOut, ExclusionInv, TypeOK, JobRecords, TaskGone, SectionsExclusive, PrunesEnded, Busy, BusyStates, Terminal, IdlePool
  <2>9. DownIsEmpty'
    BY <1>16, <1>t, <1>j, <1>l, <1>n DEF ShutdownTimesOut, ExclusionInv, TypeOK, JobRecords, TaskGone, DownIsEmpty, LaunchedIsRegistered, NullJob, NewJob, PoolMayRun
  <2> QED
    BY <1>u, <2>5, <2>6, <2>7, <2>8, <2>9 DEF ExclusionInv
<1>17. CASE Survey
  <2>1. PICK s \in Surveys :
           /\ job' = [i \in Jobs |-> SurveyedJob(i, s)]
           /\ row' = [r \in Runs |-> SurveyedRow(r, s)]
           /\ registered' = registered \ s.old
    BY <1>17 DEF Survey
  <2>2. \A i \in Jobs : /\ job'[i].run = job[i].run /\ job'[i].target = job[i].target
                        /\ job'[i].task = job[i].task
                        /\ job'[i].state = IF i \in registered /\ Orphaned(i)
                                           THEN "cancelled" ELSE job[i].state
    BY <2>1, <1>t, SurveyedFields
  <2>3. \A i \in Jobs : Busy(i)' => Busy(i) /\ i \notin s.old /\ ~(i \in registered /\ Orphaned(i))
    BY <2>2 DEF Busy, BusyStates, Surveys, Terminal
  <2>4. \A i \in Jobs : Claims(i)' => Claims(i)
    BY <2>1, <2>2, <2>3 DEF Claims, Working
  <2>5. \A r \in Runs : row[r].status # "absent" => row'[r].status # "absent"
    BY <2>1, <1>t, SurveyedRowExists
  <2>6. ClaimsDisjoint' /\ ClaimsBounded' /\ KeysUnique' /\ RunsExist'
    BY <1>u, <2>1, <2>2, <2>4, <2>5, QuietStep
  <2>7. TasksRegistered'
    <3> SUFFICES ASSUME NEW i \in Jobs, Working(i)' PROVE i \in registered' /\ Busy(i)'
      BY DEF TasksRegistered
    <3>1. Working(i)
      BY <2>2 DEF Working
    <3>2. i \in registered /\ Busy(i)
      BY <3>1, <1>17 DEF Survey, ExclusionInv, TasksRegistered
    <3>3. ~Orphaned(i)
      BY <3>1 DEF Orphaned, TaskGone, Working, LiveTasks
    <3>4. i \notin s.old
      BY <3>2 DEF Surveys, Busy, BusyStates, Terminal
    <3> QED
      BY <3>2, <3>3, <3>4, <2>1, <2>2 DEF Busy
  <2>8. LaunchedIsRegistered' /\ SectionsExclusive' /\ PrunesEnded' /\ DownIsEmpty'
    BY <1>17, <1>l, <1>n DEF Survey, LaunchedIsRegistered, SectionsExclusive, PrunesEnded,
                              DownIsEmpty
  <2> QED
    BY <1>u, <2>6, <2>7, <2>8 DEF ExclusionInv
<1>c. /\ "running" \in BusyStates /\ "restoring" \in BusyStates
      /\ BusyStates \subseteq JobStates
      /\ "audit" \in Kinds /\ "restore" \in Kinds /\ "reproduction" \in Kinds
  BY DEF BusyStates, JobStates, Kinds
<1>s. \A k, r, t, st : /\ NewJob(k, r, t, st).run = r /\ NewJob(k, r, t, st).task = "none"
                       /\ NewJob(k, r, t, st).state = st
  BY DEF NewJob
\* The rows after a start: those that existed still do, and so does the new job's.
<1>a. ASSUME NEW j \in Jobs, NEW c, NEW rec \in JobRecords, NEW s \in Surveys,
             phase \in {"up", "booting"}, rec.state \in BusyStates, rec.task = "none",
             \/ rec.run = NoRun
             \/ c = rec.run
             \/ \A i \in Jobs : job[i].run # rec.run,
             Admit(j, c, rec, s), phase' = phase, pool' = pool,
             rec.run # NoRun => row'[rec.run].status # "absent",
             \A r \in Runs : row[r].status # "absent" => row'[r].status # "absent"
      PROVE  ExclusionInv'
  <2>1. /\ TasksRegistered' /\ ClaimsDisjoint' /\ ClaimsBounded' /\ LaunchedIsRegistered'
        /\ SectionsExclusive' /\ KeysUnique' /\ PrunesEnded' /\ DownIsEmpty'
    BY <1>a, AdmitExcludes
  <2>2. \A i \in Jobs : i # j => job'[i].run = job[i].run
    BY <1>a, <1>t, SurveyedFields DEF Admit
  <2>3. job'[j] = rec
    BY <1>a, <1>t DEF Admit, TypeOK
  <2>4. \A i \in Jobs : job[i].run \in Runs \cup {NoRun}
    BY <1>j DEF JobRecords
  <2>5. RunsExist'
    BY <1>a, <2>2, <2>3, <2>4 DEF RunsExist, ExclusionInv
  <2> QED
    BY <1>u, <2>1, <2>5 DEF ExclusionInv
<1>18. ASSUME NEW j \in Jobs, NEW r \in Runs, StartAudit(j, r) PROVE ExclusionInv'
  <2>1. PICK s \in Surveys, created \in BOOLEAN :
           /\ Admit(j, NoRun, NewJob("audit", IF created THEN r ELSE NoRun, TargetOf[r],
                                     "running"), s)
           /\ row' = [q \in Runs |-> IF q = r /\ created THEN RunningRow ELSE SurveyedRow(q, s)]
    BY <1>18 DEF StartAudit
  <2> DEFINE rec == NewJob("audit", IF created THEN r ELSE NoRun, TargetOf[r], "running")
  <2>2. rec \in JobRecords /\ rec.state \in BusyStates /\ rec.task = "none"
    BY <1>c, <1>s, NewJobType, ConstantsAssumption
  <2>3. rec.run = IF created THEN r ELSE NoRun
    BY <1>s
  <2>4. \A i \in Jobs : job[i].run # r
    BY <1>18, ConstantsAssumption DEF StartAudit, ExclusionInv, RunsExist
  <2>5. \A q \in Runs : row[q].status # "absent" => row'[q].status # "absent"
    BY <2>1, <1>t, SurveyedRowExists DEF RunningRow
  <2>6. rec.run # NoRun => row'[rec.run].status # "absent"
    BY <2>1, <2>3 DEF RunningRow
  <2>7. Admit(j, NoRun, rec, s)
    BY <2>1
  <2>8. phase \in {"up", "booting"} /\ phase' = phase /\ pool' = pool
    BY <1>18 DEF StartAudit
  <2> HIDE DEF rec
  <2> QED
    BY <1>a, <2>2, <2>3, <2>4, <2>5, <2>6, <2>7, <2>8
<1>19. ASSUME NEW j \in Jobs, NEW r \in Runs, ResumeClone(j, r) PROVE ExclusionInv'
  <2>1. PICK s \in Surveys :
           /\ Admit(j, r, NewJob("audit", r, TargetOf[r], "running"), s)
           /\ row' = [q \in Runs |-> IF q = r THEN RunningRow ELSE SurveyedRow(q, s)]
    BY <1>19 DEF ResumeClone
  <2> DEFINE rec == NewJob("audit", r, TargetOf[r], "running")
  <2>2. rec \in JobRecords /\ rec.state \in BusyStates /\ rec.task = "none" /\ rec.run = r
    BY <1>c, <1>s, NewJobType, ConstantsAssumption
  <2>3. \A q \in Runs : row[q].status # "absent" => row'[q].status # "absent"
    BY <2>1, <1>t, SurveyedRowExists DEF RunningRow
  <2>4. row'[r].status # "absent"
    BY <2>1 DEF RunningRow
  <2>5. Admit(j, r, rec, s)
    BY <2>1
  <2>6. phase \in {"up", "booting"} /\ phase' = phase /\ pool' = pool
    BY <1>19 DEF ResumeClone, MayResume
  <2> HIDE DEF rec
  <2> QED
    BY <1>a, <2>2, <2>3, <2>4, <2>5, <2>6
<1>20. ASSUME NEW j \in Jobs, NEW r \in Runs, ResumeRestore(j, r) PROVE ExclusionInv'
  <2>1. PICK s \in Surveys :
           /\ Resumable(SurveyedRow(r, s))
           /\ Admit(j, r, NewJob("restore", r, TargetOf[r], "restoring"), s)
           /\ row' = [q \in Runs |-> SurveyedRow(q, s)]
    BY <1>20 DEF ResumeRestore
  <2> DEFINE rec == NewJob("restore", r, TargetOf[r], "restoring")
  <2>2. rec \in JobRecords /\ rec.state \in BusyStates /\ rec.task = "none" /\ rec.run = r
    BY <1>c, <1>s, NewJobType, ConstantsAssumption
  <2>3. \A q \in Runs : row[q].status # "absent" => row'[q].status # "absent"
    BY <2>1, <1>t, SurveyedRowExists
  <2>4. row'[r].status # "absent"
    BY <2>1 DEF Resumable
  <2>5. Admit(j, r, rec, s)
    BY <2>1
  <2>6. phase \in {"up", "booting"} /\ phase' = phase /\ pool' = pool
    BY <1>20 DEF ResumeRestore, MayResume
  <2> HIDE DEF rec
  <2> QED
    BY <1>a, <2>2, <2>3, <2>4, <2>5, <2>6
<1>21. ASSUME NEW j \in Jobs, NEW t \in Targets, StartReproduction(j, t) PROVE ExclusionInv'
  <2>1. PICK s \in Surveys :
           /\ Admit(j, NoRun, NewJob("reproduction", NoRun, t, "running"), s)
           /\ row' = [q \in Runs |-> SurveyedRow(q, s)]
    BY <1>21 DEF StartReproduction
  <2> DEFINE rec == NewJob("reproduction", NoRun, t, "running")
  <2>2. rec \in JobRecords /\ rec.state \in BusyStates /\ rec.task = "none" /\ rec.run = NoRun
    BY <1>c, <1>s, NewJobType
  <2>3. \A q \in Runs : row[q].status # "absent" => row'[q].status # "absent"
    BY <2>1, <1>t, SurveyedRowExists
  <2>4. Admit(j, NoRun, rec, s)
    BY <2>1
  <2>5. phase \in {"up", "booting"} /\ phase' = phase /\ pool' = pool
    BY <1>21 DEF StartReproduction
  <2> HIDE DEF rec
  <2> QED
    BY <1>a, <2>2, <2>3, <2>4, <2>5
<1>22. CASE BeginShutdown
  <2>1. PICK s \in Surveys :
           /\ row' = [r \in Runs |-> SurveyedRow(r, s)]
           /\ job' = [i \in Jobs |->
                 IF i \in registered /\ Busy(i) /\ ~Orphaned(i)
                 THEN [job[i] EXCEPT !.err = TRUE, !.stop = Asked(i)]
                 ELSE SurveyedJob(i, s)]
    BY <1>22 DEF BeginShutdown
  <2>2. \A i \in Jobs : /\ job'[i].run = job[i].run /\ job'[i].target = job[i].target
                        /\ job'[i].task = job[i].task
                        /\ Busy(i)' => Busy(i)
    BY <2>1, <1>t, <1>j, SurveyedFields DEF JobRecords, Busy, BusyStates
  <2>3. \A i \in Jobs : Claims(i)' => Claims(i)
    BY <1>22, <2>2 DEF BeginShutdown, Claims, Working
  <2>4. \A r \in Runs : row[r].status # "absent" => row'[r].status # "absent"
    BY <2>1, <1>t, SurveyedRowExists
  <2>5. ClaimsDisjoint' /\ ClaimsBounded' /\ KeysUnique' /\ RunsExist'
    BY <1>22, <1>u, <2>2, <2>3, <2>4, QuietStep DEF BeginShutdown
  <2>6. /\ TasksRegistered' /\ LaunchedIsRegistered' /\ SectionsExclusive' /\ PrunesEnded'
        /\ DownIsEmpty'
    BY <1>22, <1>l, <1>n DEF BeginShutdown, TasksRegistered, LaunchedIsRegistered,
                              SectionsExclusive, PrunesEnded, DownIsEmpty
  <2> QED
    BY <1>u, <2>5, <2>6 DEF ExclusionInv
<1>v. ASSUME Vanish PROVE ExclusionInv'
  <2>1. \A i \in Jobs : job'[i] = NullJob
    BY <1>v DEF Vanish
  <2>2. \A i \in Jobs : ~Claims(i)'
    BY <1>v, <2>1 DEF Vanish, Claims, Working, LiveTasks, NullJob, NewJob
  <2>3. Claimants' = {}
    BY <2>2 DEF Claimants
  <2>4. ClaimsDisjoint' /\ ClaimsBounded'
    BY <2>2, <2>3, FS_EmptySet, ConstantsAssumption DEF ClaimsDisjoint, ClaimsBounded
  <2>5. RunsExist'
    BY <2>1 DEF RunsExist, NullJob, NewJob
  <2>6. /\ TasksRegistered' /\ LaunchedIsRegistered' /\ SectionsExclusive' /\ PrunesEnded'
        /\ KeysUnique' /\ DownIsEmpty'
    BY <1>v, <2>1, <1>n DEF Vanish, TasksRegistered, LaunchedIsRegistered, SectionsExclusive,
                             PrunesEnded, KeysUnique, DownIsEmpty, IdlePool
  <2> QED
    BY <1>u, <2>4, <2>5, <2>6 DEF ExclusionInv
<1>23. CASE Exit \/ Crash
  BY <1>23, <1>v DEF Exit, Crash
<1>24. ASSUME UNCHANGED <<job, registered, loop, pool>>,
              phase' = "down" => phase = "down",
              phase \in {"up", "booting"} \/ (phase = "down" /\ phase' = "booting"),
              \A r \in Runs : row[r].status # "absent" => row'[r].status # "absent"
       PROVE  ExclusionInv'
  <2>1. \A i \in Jobs : Claims(i)' => Claims(i)
    BY <1>24 DEF Claims, Working, Busy
  <2>2. ClaimsDisjoint' /\ ClaimsBounded' /\ KeysUnique' /\ RunsExist'
    BY <1>24, <1>u, <2>1, QuietStep
  <2>3. TasksRegistered'
    BY <1>24 DEF ExclusionInv, TasksRegistered, Working, Busy, DownIsEmpty, NullJob, NewJob,
                 LiveTasks
  <2>4. LaunchedIsRegistered' /\ SectionsExclusive' /\ PrunesEnded' /\ DownIsEmpty'
    BY <1>24 DEF ExclusionInv, LaunchedIsRegistered, Busy, SectionsExclusive, PrunesEnded,
                 DownIsEmpty
  <2> QED
    BY <1>u, <2>2, <2>3, <2>4 DEF ExclusionInv
<1>25. CASE Boot
  <2>1. \A r \in Runs : row[r].status # "absent" => row'[r].status # "absent"
    BY <1>25, <1>t DEF Boot, CancelledRow, TypeOK
  <2> QED
    BY <1>24, <1>25, <2>1 DEF Boot
<1>26. ASSUME NEW r \in Runs, SkipResume(r) PROVE ExclusionInv'
  BY <1>24, <1>26 DEF SkipResume
<1>27. CASE Serve
  BY <1>24, <1>27 DEF Serve
<1> QED
  BY <1>1, <1>2, <1>3, <1>4, <1>5, <1>6, <1>7, <1>8, <1>9, <1>10, <1>11, <1>12, <1>13,
     <1>14, <1>15, <1>16, <1>17, <1>18, <1>19, <1>20, <1>21, <1>22, <1>23, <1>25, <1>26,
     <1>27, <1>33 DEF Next, Request, TaskMoves, PoolMoves, Worker

LEMMA InitExclusion == Init => ExclusionInv
<1> SUFFICES ASSUME Init PROVE ExclusionInv
  OBVIOUS
<1>1. \A i \in Jobs : ~Claims(i) /\ job[i].run = NoRun
  BY DEF Init, Claims, Working, LiveTasks, NullJob, NewJob
<1>2. Claimants = {}
  BY <1>1 DEF Claimants
<1>3. ClaimsDisjoint /\ ClaimsBounded /\ RunsExist
  BY <1>1, <1>2, FS_EmptySet, ConstantsAssumption DEF ClaimsDisjoint, ClaimsBounded, RunsExist
<1>4. /\ TasksRegistered /\ LaunchedIsRegistered /\ SectionsExclusive /\ KeysUnique
      /\ PrunesEnded /\ DownIsEmpty
  BY ConstantsAssumption DEF Init, TasksRegistered, LaunchedIsRegistered, SectionsExclusive,
     KeysUnique, PrunesEnded, DownIsEmpty, IdlePool
<1> QED
  BY <1>3, <1>4, InitType DEF ExclusionInv

(***************************************************************************)
(* Two jobs never work in the same checkout, whatever the number of jobs,  *)
(* runs and checkouts, provided that handlers interleave with the event    *)
(* loop only at its awaits, as the comment of AuditJobManager assumes.     *)
(***************************************************************************)
THEOREM CheckoutExclusion ==
    ASSUME Preempt = FALSE
    PROVE  Spec => []OneJobPerCheckout
<1>1. ExclusionInv => OneJobPerCheckout
  BY DEF ExclusionInv, ClaimsDisjoint, Claims, OneJobPerCheckout
<1>2. ExclusionInv /\ [Next]_vars => ExclusionInv'
  BY ExclusionStep
<1> QED
  BY <1>1, <1>2, InitExclusion, PTL DEF Spec

(***************************************************************************)
(* Under the same assumption max_concurrent_jobs bounds the tasks at work. *)
(***************************************************************************)
THEOREM LimitKept ==
    ASSUME Preempt = FALSE
    PROVE  Spec => []ConcurrencyLimit
<1>1. ExclusionInv => ConcurrencyLimit
  <2> SUFFICES ASSUME ExclusionInv PROVE ConcurrencyLimit
    OBVIOUS
  <2> DEFINE W == {j \in Jobs : Working(j)}
  <2>1. IsFiniteSet(Claimants)
    BY FS_Subset, ConstantsAssumption DEF Claimants
  <2>2. W \subseteq Claimants
    BY DEF Claimants, Claims
  <2>3. IsFiniteSet(W) /\ Cardinality(W) <= Cardinality(Claimants)
    BY <2>1, <2>2, FS_Subset
  <2>4. Cardinality(W) \in Nat /\ Cardinality(Claimants) \in Nat
    BY <2>1, <2>3, FS_CardinalityType
  <2>5. Cardinality(W) <= MaxConcurrent
    <3>1. Cardinality(Claimants) <= MaxConcurrent
      BY DEF ExclusionInv, ClaimsBounded
    <3> HIDE DEF W
    <3> QED
      BY <3>1, <2>3, <2>4, ConstantsAssumption
  <2> QED
    BY <2>5 DEF ConcurrencyLimit
<1>2. ExclusionInv /\ [Next]_vars => ExclusionInv'
  BY ExclusionStep
<1> QED
  BY <1>1, <1>2, InitExclusion, PTL DEF Spec
=============================================================================
