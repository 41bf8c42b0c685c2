----------------------------- MODULE AgentPool ------------------------------
(***************************************************************************)
(* Agents at work for a stage: run_parallel_limited (utils.py), the worker *)
(* of Stage 3 (stages/stage3.py) and run_agent (agent.py) with its         *)
(* retries, its semantic timeout and its clean-up, under a Stop of the job *)
(* (web/job.py).                                                           *)
(*                                                                         *)
(* The job awaits one asyncio task per analysis unit (gather).  A unit's   *)
(* task runs one agent call after another; each call awaits a task of its  *)
(* own for the SDK (agent_task).  A cancellation is delivered at the await *)
(* the task is in, which decides what becomes of it.                       *)
(***************************************************************************)
EXTENDS Integers, FiniteSets

CONSTANTS
    Units,          \* analysis units
    Rude,           \* units whose SDK call may answer a cancellation with an error
    MaxParallel,    \* max_parallel
    MaxTries        \* AGENT_MAX_RETRIES

ASSUME AgentPoolAssumption ==
    /\ IsFiniteSet(Units) /\ Units # {}
    /\ Rude \subseteq Units
    /\ MaxParallel \in Nat \ {0} /\ MaxTries \in Nat \ {0}

VARIABLES
    job,            \* the job's task
    asked,          \* job.task.cancelling(): a Stop or a shutdown has cancelled it
    gather,         \* the future the job awaits
    unit,           \* what each unit's task, and its agent's, is doing
    markers,        \* completion markers
    files           \* the finding file of the unit

vars == <<job, asked, gather, unit, markers, files>>

(***************************************************************************)
(* work: queued at the semaphore; awaiting the agent (or the timeout); the *)
(* status check; the end of a killed agent; the end of a cancelled one;    *)
(* the record of what was used; the clean-up; done.                        *)
(* agent: the SDK task, in an attempt or between two.  stop: a             *)
(* CancelledError is on its way to it; due: one is on its way to the       *)
(* unit's task; hit: the cancellations of this call (a Stop, the timer of  *)
(* a repair, the timer of a kill).  deaf: history, a Stop was lost on the  *)
(* end of a killed agent or in the status check.                           *)
(***************************************************************************)
Works == {"queued", "waiting", "checking", "killing", "unwinding", "recording", "cleanup",
          "done"}
UnitRecords ==
    [work : Works, call : {"audit", "repair"},
     agent : {"none", "attempt", "backoff", "result", "error", "cancelled"},
     tries : 0 .. MaxTries, stop : BOOLEAN, due : BOOLEAN, hit : SUBSET {"stop", "timeout", "kill"},
     status : {"none", "completed", "killed", "failed", "cancelled"},
     result : {"pending", "fulfilled", "rejected", "cancelled"}, deaf : BOOLEAN]

Queued ==
    [work |-> "queued", call |-> "audit", agent |-> "none", tries |-> 0, stop |-> FALSE,
     due |-> FALSE, hit |-> {}, status |-> "none", result |-> "pending", deaf |-> FALSE]

\* run_agent is called: agent_task is created.
Calling(rec, call) ==
    [rec EXCEPT !.work = "waiting", !.call = call, !.agent = "attempt", !.tries = 1,
                !.stop = FALSE, !.hit = {}, !.status = "none", !.deaf = FALSE]

\* What a call has come to when its agent's task is over.
Over(rec, work, status) ==
    [rec EXCEPT !.work = work, !.status = status, !.agent = "none", !.tries = 0, !.due = FALSE]

AgentRuns(u) == unit[u].agent \in {"attempt", "backoff"}
AgentDone(u) == unit[u].agent \in {"result", "error", "cancelled"}

\* Files and markers of an earlier, interrupted attempt may be there.
Init ==
    /\ job = "running" /\ asked = FALSE /\ gather = "open"
    /\ unit = [u \in Units |-> Queued]
    /\ markers \in SUBSET Units
    /\ files \in [Units -> {"none", "valid", "invalid"}]

-----------------------------------------------------------------------------
(* The pool: run_parallel_limited and asyncio.gather *)

SlotFree == Cardinality({u \in Units : unit[u].work \notin {"queued", "done"}}) < MaxParallel

\* A unit's task ends.  gather fails with the first cancelled one, and does not
\* wait for the others then.
Leave(u, rec, result) ==
    /\ unit' = [unit EXCEPT ![u] = [Queued EXCEPT !.work = "done", !.call = rec.call,
                                                  !.result = result]]
    /\ gather' = IF gather = "open" /\ result = "cancelled" THEN "cancelled"
                 ELSE IF gather = "open" /\ \A v \in Units \ {u} : unit[v].work = "done"
                      THEN "complete" ELSE gather

\* Faulty variant: whatever is marked complete is taken as it is.
EnterMarked(u) ==
    /\ unit[u].work = "queued" /\ ~unit[u].due /\ SlotFree
    /\ IF u \in markers
       THEN /\ Leave(u, unit[u], "fulfilled")
            /\ UNCHANGED <<markers, files>>
       ELSE /\ unit' = [unit EXCEPT ![u] = Calling(@, "audit")]
            /\ UNCHANGED <<gather, markers, files>>
    /\ UNCHANGED <<job, asked>>

\* The semaphore is acquired and _run_unit begins: a complete unit is skipped, one
\* with an invalid finding is analysed again.
Enter(u) ==
    /\ unit[u].work = "queued" /\ ~unit[u].due /\ SlotFree
    /\ IF u \in markers /\ files[u] # "invalid"
       THEN /\ Leave(u, unit[u], "fulfilled")
            /\ UNCHANGED <<markers, files>>
       ELSE /\ unit' = [unit EXCEPT ![u] = Calling(@, "audit")]
            /\ files' = IF u \in markers THEN [files EXCEPT ![u] = "none"] ELSE files
            /\ markers' = markers \ {u}
            /\ UNCHANGED gather
    /\ UNCHANGED <<job, asked>>

CancelQueued(u) ==
    /\ unit[u].work = "queued" /\ unit[u].due
    /\ Leave(u, unit[u], "cancelled")
    /\ UNCHANGED <<job, asked, markers, files>>

\* A cancellation of the task of a unit.  Where the unit awaits its agent's end the
\* cancellation goes on to the agent.
Cancelled(rec, cause) ==
    IF rec.work = "done" THEN rec
    ELSE [rec EXCEPT !.due = TRUE, !.hit = @ \cup {cause},
                     !.stop = @ \/ (rec.work \in {"killing", "unwinding"}
                                    /\ rec.agent \in {"attempt", "backoff"})]

\* AuditJob.stop or shutdown: task.cancel(), once, which cancels what gather awaits.
Stop ==
    /\ job = "running" /\ ~asked
    /\ asked' = TRUE
    /\ unit' = IF gather = "open" THEN [u \in Units |-> Cancelled(unit[u], "stop")] ELSE unit
    /\ UNCHANGED <<job, gather, markers, files>>

\* gather raises or returns and the job's task ends.
JobEnds ==
    /\ job = "running" /\ gather # "open"
    /\ job' = IF asked \/ gather = "cancelled" THEN "cancelled" ELSE "done"
    /\ UNCHANGED <<asked, gather, unit, markers, files>>

-----------------------------------------------------------------------------
(* The SDK task: _run_with_retries *)

Agent(u, next) ==
    /\ unit' = [unit EXCEPT ![u] = next]
    /\ UNCHANGED <<job, asked, gather, markers>>

\* The agent writes its finding, or repairs it; the file may be wrong or partial.
AgentWrites(u) ==
    /\ unit[u].agent = "attempt"
    /\ \E f \in {"valid", "invalid"} : files' = [files EXCEPT ![u] = f]
    /\ UNCHANGED <<job, asked, gather, unit, markers>>

AgentSucceeds(u) ==
    /\ unit[u].agent = "attempt" /\ ~unit[u].stop
    /\ Agent(u, [unit[u] EXCEPT !.agent = "result"])
    /\ UNCHANGED files

\* Faulty variant: the attempts are not counted.
FailureUnbounded(rec) == {[rec EXCEPT !.agent = a, !.stop = FALSE] : a \in {"error", "backoff"}}

\* A retryable error with tries left is followed by a pause, any other ends the call.
Failure(rec) ==
    {[rec EXCEPT !.agent = "error", !.stop = FALSE]}
        \cup {r \in {[rec EXCEPT !.agent = "backoff", !.stop = FALSE]} : rec.tries < MaxTries}

AgentFails(u) ==
    /\ unit[u].agent = "attempt" /\ ~unit[u].stop
    /\ \E next \in Failure(unit[u]) : Agent(u, next)
    /\ UNCHANGED files

Retry(u) ==
    /\ unit[u].agent = "backoff" /\ ~unit[u].stop
    /\ Agent(u, [unit[u] EXCEPT !.agent = "attempt", !.tries = @ + 1])
    /\ UNCHANGED files

\* The CancelledError arrives.  It ends the call, unless it becomes an ordinary error
\* on its way out of the SDK, which is retried like any other.
AgentCancelled(u) ==
    /\ AgentRuns(u) /\ unit[u].stop
    /\ \/ Agent(u, [unit[u] EXCEPT !.agent = "cancelled", !.stop = FALSE])
       \/ /\ u \in Rude /\ unit[u].agent = "attempt"
          /\ \E next \in Failure(unit[u]) : Agent(u, next)
    /\ UNCHANGED files

-----------------------------------------------------------------------------
(* One agent call: run_agent and _await_agent_with_semantic_timeout *)

Move(u, next) ==
    /\ unit' = [unit EXCEPT ![u] = next]
    /\ UNCHANGED <<job, asked, gather, markers, files>>

\* The result of the agent is recorded as used; an error goes straight to the clean-up.
AgentEnded(rec) ==
    IF rec.agent = "result" THEN Over(rec, "recording", "completed")
    ELSE Over(rec, "cleanup", "failed")

Collect(u) ==
    /\ unit[u].work = "waiting" /\ AgentDone(u) /\ ~unit[u].due
    /\ Move(u, AgentEnded(unit[u]))

\* agent_timeout_seconds have passed: the status checker is launched.
TimeOut(u) ==
    /\ unit[u].work = "waiting" /\ AgentRuns(u) /\ ~unit[u].due
    /\ Move(u, [unit[u] EXCEPT !.work = "checking"])

\* The checker's decision; a check that fails or times out says "not finished".  The
\* agent may have ended meanwhile.
Verdict(u) ==
    /\ unit[u].work = "checking" /\ ~unit[u].due
    /\ \/ AgentDone(u) /\ Move(u, AgentEnded(unit[u]))
       \/ AgentRuns(u) /\ Move(u, [unit[u] EXCEPT !.work = "waiting"])
       \/ AgentRuns(u) /\ Move(u, [unit[u] EXCEPT !.work = "killing", !.stop = TRUE])

\* A Stop that is on its way gets lost.
Deafened(rec) == [rec EXCEPT !.deaf = @ \/ (rec.due /\ "stop" \in rec.hit)]

\* The checker is an agent as well: what its SDK makes an error of counts as "not
\* finished", a cancellation too.
CheckerFails(u) ==
    /\ u \in Rude /\ unit[u].work = "checking" /\ unit[u].due
    /\ Move(u, [Deafened(unit[u]) EXCEPT !.due = FALSE])

\* 30 seconds later: wait_for cancels once more, and waits.
KillTimesOut(u) ==
    /\ unit[u].work = "killing" /\ AgentRuns(u) /\ "kill" \notin unit[u].hit
    /\ Move(u, [unit[u] EXCEPT !.stop = TRUE, !.hit = @ \cup {"kill"}])

\* Faulty variant: the killed agent is not waited for.
KillReturnsAtOnce(u) ==
    /\ unit[u].work = "killing"
    /\ Move(u, [Deafened(unit[u]) EXCEPT !.work = "recording", !.status = "killed", !.due = FALSE])

\* The killed agent has ended.  `except asyncio.CancelledError: pass` takes a
\* cancellation of the unit's own task for the agent's.
KillReturns(u) ==
    /\ unit[u].work = "killing" /\ AgentDone(u)
    /\ Move(u, IF unit[u].agent = "error" THEN Over(Deafened(unit[u]), "cleanup", "failed")
               ELSE Over(Deafened(unit[u]), "recording", "killed"))

\* Faulty variant: the agent is awaited, but not cancelled.
CancelCallOnly(u) ==
    /\ unit[u].work \in {"waiting", "checking"} /\ unit[u].due
    /\ Move(u, IF AgentDone(u) THEN Over(unit[u], "cleanup", "cancelled")
               ELSE [unit[u] EXCEPT !.work = "unwinding", !.due = FALSE])

\* The unit's task is cancelled while it awaits its agent or the status check: the
\* finally block cancels the agent and waits for it.
CancelCall(u) ==
    /\ unit[u].work \in {"waiting", "checking"} /\ unit[u].due
    /\ Move(u, IF AgentDone(u) THEN Over(unit[u], "cleanup", "cancelled")
               ELSE [unit[u] EXCEPT !.work = "unwinding", !.stop = TRUE, !.due = FALSE])

\* The agent has ended; an error of its own takes the place of the cancellation.
Unwound(u) ==
    /\ unit[u].work = "unwinding" /\ AgentDone(u)
    /\ Move(u, Over(unit[u], "cleanup", IF unit[u].agent = "error" THEN "failed" ELSE "cancelled"))

\* register_used_backend_and_model after the result, an await of its own.
Recorded(u) ==
    /\ unit[u].work = "recording"
    /\ Move(u, [unit[u] EXCEPT !.work = "cleanup", !.due = FALSE,
                               !.status = IF unit[u].due THEN "cancelled" ELSE @])

-----------------------------------------------------------------------------
(* The end of a call, and what _run_unit makes of it *)

\* Faulty variant: a cancellation during the clean-up is forgotten.
OutcomeForgetting(rec) ==
    CASE rec.status = "cancelled" -> "cancelled"
      [] rec.status = "failed"    -> "error"
      [] OTHER                    -> "return"

\* The clean-up is shielded: a cancellation that falls on it is raised at its end.
Outcome(rec) ==
    CASE rec.due \/ rec.status = "cancelled"  -> "cancelled"
      [] ~rec.due /\ rec.status = "failed"    -> "error"
      [] OTHER                                -> "return"

\* wait_for of a repair turns a cancellation by its own timer into a TimeoutError.
Ending(rec) ==
    IF Outcome(rec) = "cancelled" /\ "stop" \notin rec.hit THEN "timeout" ELSE Outcome(rec)

\* The unit is finished with: the marker says whether its finding is valid.
Finalize(u, rec, valid) ==
    /\ markers' = IF valid THEN markers \cup {u} ELSE markers \ {u}
    /\ files' = IF valid THEN files ELSE [files EXCEPT ![u] = "none"]
    /\ Leave(u, rec, "fulfilled")

\* Validation, one repair, and the checkpoint.
AfterCall(u, ending) ==
    LET rec == [unit[u] EXCEPT !.due = FALSE]
    IN  \/ /\ ending \in {"cancelled", "error"}
           /\ Leave(u, rec, IF ending = "error" THEN "rejected" ELSE "cancelled")
           /\ UNCHANGED <<markers, files>>
        \/ /\ ending \in {"return", "timeout"}
           /\ files[u] # "invalid" \/ rec.call = "repair"
           /\ Finalize(u, rec, files[u] # "invalid")
        \/ /\ ending \in {"return", "timeout"}
           /\ files[u] = "invalid" /\ rec.call = "audit"
           /\ unit' = [unit EXCEPT ![u] = Calling(rec, "repair")]
           /\ UNCHANGED <<gather, markers, files>>

\* The shielded clean-up ends: what is left of the agent's processes has been killed.
CleanedUp(u) ==
    /\ unit[u].work = "cleanup"
    /\ AfterCall(u, Ending(unit[u]))
    /\ UNCHANGED <<job, asked>>

\* The timer of a repair goes off.
RepairTimesOut(u) ==
    /\ unit[u].call = "repair" /\ unit[u].work # "done" /\ "timeout" \notin unit[u].hit
    /\ Move(u, Cancelled(unit[u], "timeout"))

-----------------------------------------------------------------------------
AgentMoves(u) ==
    \/ AgentWrites(u) \/ AgentSucceeds(u) \/ AgentFails(u) \/ Retry(u) \/ AgentCancelled(u)

CallMoves(u) ==
    \/ Collect(u) \/ TimeOut(u) \/ Verdict(u) \/ CheckerFails(u)
    \/ KillTimesOut(u) \/ KillReturns(u) \/ CancelCall(u) \/ Unwound(u) \/ Recorded(u) \/ CleanedUp(u) \/ RepairTimesOut(u)

Next ==
    \/ Stop \/ JobEnds
    \/ \E u \in Units : Enter(u) \/ CancelQueued(u) \/ AgentMoves(u) \/ CallMoves(u)

(***************************************************************************)
(* Fairness: the loop runs what is ready; a CancelledError ends the call   *)
(* of an SDK that is not rude, or is repeated by the timer of the kill;    *)
(* timers go off; a clean-up ends (its waits are bounded).  Agents need    *)
(* not end by themselves.                                                  *)
(***************************************************************************)
Ready(u) ==
    \/ CancelQueued(u) \/ Collect(u) \/ KillReturns(u) \/ CancelCall(u)
    \/ Unwound(u) \/ Recorded(u) \/ CleanedUp(u)

Fairness ==
    /\ WF_vars(JobEnds)
    /\ \A u \in Units : WF_vars(Ready(u)) /\ WF_vars(AgentCancelled(u))
                        /\ WF_vars(RepairTimesOut(u))

Spec == Init /\ [][Next]_vars
FairSpec == Spec /\ Fairness

-----------------------------------------------------------------------------
(* Properties *)

TypeOK ==
    /\ job \in {"running", "cancelled", "done"} /\ asked \in BOOLEAN
    /\ gather \in {"open", "cancelled", "complete"}
    /\ unit \in [Units -> UnitRecords]
    /\ markers \subseteq Units
    /\ files \in [Units -> {"none", "valid", "invalid"}]

(***************************************************************************)
(* No SDK task outlives the call that made it: whatever cancels, kills or  *)
(* times out a call, it ends only after its agent_task has ended.          *)
(***************************************************************************)
NoAgentLeaks ==
    \A u \in Units : AgentRuns(u) =>
        unit[u].work \in {"waiting", "checking", "killing", "unwinding"}

(***************************************************************************)
(* A unit is marked complete only by a call that was left to finish, with  *)
(* a finding that validates: a unit cut off by a Stop or whose agent       *)
(* failed is analysed again by the next run.  A repair whose time is up is *)
(* judged by its finding alone.  (deaf: see StopStartsNothing)             *)
(***************************************************************************)
CompletionIsEarned ==
    [][\A u \in markers' \ markers :
          /\ files[u] # "invalid"
          /\ unit[u].status \in {"failed", "cancelled"} => "timeout" \in unit[u].hit
          /\ "stop" \in unit[u].hit => unit[u].deaf]_vars

(***************************************************************************)
(* What is skipped on the strength of a marker, and what is handed on to   *)
(* Stage 4, never is an invalid finding.                                   *)
(***************************************************************************)
FulfilledIsValid ==
    \A u \in Units : unit[u].result = "fulfilled" => files[u] # "invalid"

(***************************************************************************)
(* A Stop that has reached a unit starts no agent any more: no repair, and *)
(* once it is delivered no retry.  The exceptions are an SDK that makes an *)
(* error of the cancellation, and a Stop that fell on the end of a killed  *)
(* agent, which is taken for the end of the agent (deaf).                  *)
(***************************************************************************)
StopStartsNothing ==
    [][\A u \in Units : "stop" \in unit[u].hit /\ ~unit[u].deaf =>
          /\ unit'[u].call = unit[u].call
          /\ unit[u].due \/ u \in Rude \/ unit'[u].tries <= unit[u].tries]_vars

(***************************************************************************)
(* A Stop ends each unit: its agent is cancelled, reaped and cleaned up    *)
(* after (except for an SDK that makes an error of the cancellation).      *)
(***************************************************************************)
StopEndsUnits ==
    \A u \in Units \ Rude : "stop" \in unit[u].hit ~> unit[u].work = "done"

(***************************************************************************)
(* Jobs "that share a source checkout (the managed repo mirror) are        *)
(* mutually exclusive" (job.py:6-9): when the task of a job has ended, and *)
(* its checkout may be given to another job, none of its agents is at work *)
(* any more.                                                               *)
(***************************************************************************)
AgentsEndWithJob == job # "running" => \A u \in Units : ~AgentRuns(u)
=============================================================================
