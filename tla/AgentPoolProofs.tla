-------------------------- MODULE AgentPoolProofs ---------------------------
(***************************************************************************)
(* Proofs about AgentPool for every set of units, any number of places and *)
(* tries, and any units whose SDK answers cancellations with errors.       *)
(***************************************************************************)
EXTENDS AgentPool, TLAPS

(***************************************************************************)
(* What is true of a unit at every moment: an agent at work is awaited     *)
(* (AgentAwaited) and pauses only before another attempt (TriesLeft), a    *)
(* unit with a result has ended (ResultAtEnd), what is cancelled has been  *)
(* cancelled by somebody (CancelHasCause), and a Stop is on its way, takes *)
(* effect or has been lost (StopNotForgotten).                             *)
(***************************************************************************)
AgentAwaited(rec) ==
    rec.agent \in {"attempt", "backoff"} =>
        rec.work \in {"waiting", "checking", "killing", "unwinding"}
TriesLeft(rec) == rec.agent = "backoff" => rec.tries < MaxTries
ResultAtEnd(rec) == rec.result # "pending" => rec.work = "done"
CancelHasCause(rec) ==
    rec.due \/ rec.work = "unwinding" \/ rec.status = "cancelled" =>
        "stop" \in rec.hit \/ "timeout" \in rec.hit
StopNotForgotten(rec) ==
    "stop" \in rec.hit =>
        \/ rec.due \/ rec.deaf
        \/ rec.work = "unwinding"
        \/ rec.work = "cleanup" /\ rec.status \in {"cancelled", "failed"}

CallInv(rec) ==
    /\ AgentAwaited(rec) /\ TriesLeft(rec) /\ ResultAtEnd(rec)
    /\ CancelHasCause(rec) /\ StopNotForgotten(rec)

PoolInv ==
    \A u \in Units :
        /\ CallInv(unit[u])
        /\ unit[u].result = "fulfilled" => files[u] # "invalid"

-----------------------------------------------------------------------------
(* Records *)

LEMMA CallingType ==
    ASSUME NEW r \in UnitRecords, r.result = "pending", ~r.due, NEW c \in {"audit", "repair"}
    PROVE  Calling(r, c) \in UnitRecords /\ CallInv(Calling(r, c))
                /\ Calling(r, c).result = "pending"
<1>1. 1 \in 0 .. MaxTries
  BY AgentPoolAssumption
<1> QED
  BY <1>1 DEF Calling, UnitRecords, Works, CallInv, AgentAwaited, TriesLeft, ResultAtEnd, CancelHasCause, StopNotForgotten

LEMMA OverType ==
    ASSUME NEW r \in UnitRecords, NEW w \in {"recording", "cleanup"},
           NEW s \in {"completed", "killed", "failed", "cancelled"}
    PROVE  Over(r, w, s) \in UnitRecords /\ Over(r, w, s).result = r.result
<1>1. 0 \in 0 .. MaxTries
  BY AgentPoolAssumption
<1> QED
  BY <1>1 DEF Over, UnitRecords, Works

LEMMA QueuedType == Queued \in UnitRecords
<1>1. 0 \in 0 .. MaxTries
  BY AgentPoolAssumption
<1> QED
  BY <1>1 DEF Queued, UnitRecords, Works

\* A unit that has ended.
Left(r, result) == [Queued EXCEPT !.work = "done", !.call = r.call, !.result = result]

LEMMA LeftType ==
    ASSUME NEW r \in UnitRecords, NEW s \in {"fulfilled", "rejected", "cancelled"}
    PROVE  Left(r, s) \in UnitRecords /\ CallInv(Left(r, s)) /\ Left(r, s).result = s
<1>1. 0 \in 0 .. MaxTries
  BY AgentPoolAssumption
<1>2. Left(r, s) \in UnitRecords /\ Left(r, s).result = s
  BY <1>1 DEF Left, Queued, UnitRecords, Works
<1>3. CallInv(Left(r, s))
  BY DEF Left, Queued, CallInv, AgentAwaited, TriesLeft, ResultAtEnd, CancelHasCause, StopNotForgotten
<1> QED
  BY <1>2, <1>3

LEMMA CancelledType ==
    ASSUME NEW r \in UnitRecords, CallInv(r), NEW c \in {"stop", "timeout"}
    PROVE  Cancelled(r, c) \in UnitRecords /\ CallInv(Cancelled(r, c))
                /\ Cancelled(r, c).result = r.result
<1>1. CASE r.work = "done"
  BY <1>1 DEF Cancelled
<1>2. CASE r.work # "done"
  <2> DEFINE b == r.stop \/ (r.work \in {"killing", "unwinding"}
                             /\ r.agent \in {"attempt", "backoff"})
             n == [r EXCEPT !.due = TRUE, !.hit = r.hit \cup {c}, !.stop = b]
  <2>1. b \in BOOLEAN
    BY Zenon DEF UnitRecords
  <2>2. Cancelled(r, c) = n
    BY <1>2 DEF Cancelled
  <2> HIDE DEF b
  <2>3. n \in UnitRecords /\ n.result = r.result
    BY <2>1 DEF UnitRecords
  <2>4. /\ n.agent = r.agent /\ n.work = r.work /\ n.result = r.result
        /\ n.due = TRUE /\ n.hit = r.hit \cup {c} /\ n.tries = r.tries
    BY DEF UnitRecords
  <2>5. CallInv(n)
    <3> HIDE DEF n
    <3> QED
      BY <2>4 DEF CallInv, AgentAwaited, TriesLeft, ResultAtEnd, CancelHasCause, StopNotForgotten
  <2> QED
    BY <2>2, <2>3, <2>5
<1> QED
  BY <1>1, <1>2

LEMMA FailureType ==
    ASSUME NEW r \in UnitRecords, CallInv(r), r.agent = "attempt", NEW n \in Failure(r)
    PROVE  n \in UnitRecords /\ CallInv(n) /\ n.result = r.result
BY ZenonT(60) DEF Failure, UnitRecords, Works, CallInv, AgentAwaited, TriesLeft, ResultAtEnd, CancelHasCause,
       StopNotForgotten

-----------------------------------------------------------------------------
(* Steps *)

IndInv == TypeOK /\ PoolInv

\* A step that gives one unit a new record, and leaves the other units' files alone.
LEMMA OneUnit ==
    ASSUME IndInv, NEW u \in Units, NEW r \in UnitRecords, CallInv(r),
           unit' = [unit EXCEPT ![u] = r],
           \A v \in Units \ {u} : files'[v] = files[v],
           r.result = "fulfilled" => files'[u] # "invalid"
    PROVE  unit' \in [Units -> UnitRecords] /\ PoolInv'
<1>1. unit' \in [Units -> UnitRecords]
  BY DEF IndInv, TypeOK
<1>2. ASSUME NEW v \in Units
      PROVE  CallInv(unit'[v]) /\ (unit'[v].result = "fulfilled" => files'[v] # "invalid")
  <2>1. CASE v = u
    BY <2>1 DEF IndInv, TypeOK
  <2>2. CASE v # u
    BY <2>2 DEF IndInv, TypeOK, PoolInv
  <2> QED
    BY <2>1, <2>2
<1> QED
  BY <1>1, <1>2 DEF PoolInv

\* A unit ends: what it leaves behind.
LEMMA LeaveStep ==
    ASSUME IndInv, NEW u \in Units, NEW r \in UnitRecords,
           NEW s \in {"fulfilled", "rejected", "cancelled"}, Leave(u, r, s),
           \A v \in Units \ {u} : files'[v] = files[v],
           s = "fulfilled" => files'[u] # "invalid"
    PROVE  unit' \in [Units -> UnitRecords] /\ PoolInv' /\ gather' \in {"open", "cancelled", "complete"}
<1>1. unit' = [unit EXCEPT ![u] = Left(r, s)]
  BY DEF Leave, Left
<1>2. gather' \in {"open", "cancelled", "complete"}
  BY DEF Leave, IndInv, TypeOK
<1> QED
  BY <1>1, <1>2, LeftType, OneUnit

\* A step within a call.
LEMMA MoveStep ==
    ASSUME IndInv, NEW u \in Units, NEW r \in UnitRecords, CallInv(r),
           r.result = unit[u].result, Move(u, r)
    PROVE  IndInv'
<1>1. files' = files /\ unit' = [unit EXCEPT ![u] = r]
  BY DEF Move
<1>2. r.result = "fulfilled" => files'[u] # "invalid"
  BY <1>1 DEF IndInv, PoolInv
<1>3. unit' \in [Units -> UnitRecords] /\ PoolInv'
  BY <1>1, <1>2, OneUnit
<1> QED
  BY <1>1, <1>3 DEF Move, IndInv, TypeOK

(* Actions *)

\* The record of a unit is what the invariant says it is.
LEMMA UnitFacts ==
    ASSUME IndInv, NEW u \in Units
    PROVE  unit[u] \in UnitRecords /\ CallInv(unit[u])
BY DEF IndInv, TypeOK, PoolInv

LEMMA EnterKeeps == ASSUME IndInv, NEW u \in Units, Enter(u) PROVE IndInv'
<1>1. unit[u] \in UnitRecords /\ unit[u].work = "queued" /\ ~unit[u].due
  BY UnitFacts DEF Enter
<1>2. unit[u].result = "pending"
  BY <1>1, UnitFacts DEF CallInv, ResultAtEnd
<1>3. CASE u \in markers /\ files[u] # "invalid"
  <2>1. Leave(u, unit[u], "fulfilled") /\ UNCHANGED <<job, asked, markers, files>>
    BY <1>3 DEF Enter
  <2> QED
    BY <1>1, <1>3, <2>1, LeaveStep DEF IndInv, TypeOK
<1>4. CASE ~(u \in markers /\ files[u] # "invalid")
  <2>1. /\ unit' = [unit EXCEPT ![u] = Calling(unit[u], "audit")]
        /\ files' = IF u \in markers THEN [files EXCEPT ![u] = "none"] ELSE files
        /\ markers' = markers \ {u}
        /\ UNCHANGED <<job, asked, gather>>
    BY <1>4 DEF Enter
  <2>2. files' \in [Units -> {"none", "valid", "invalid"}] /\ \A v \in Units \ {u} : files'[v] = files[v]
    BY <2>1 DEF IndInv, TypeOK
  <2>3. unit' \in [Units -> UnitRecords] /\ PoolInv'
    BY <1>1, <1>2, <2>1, <2>2, CallingType, OneUnit
  <2> QED
    BY <2>1, <2>2, <2>3 DEF IndInv, TypeOK
<1> QED
  BY <1>3, <1>4

LEMMA CancelQueuedKeeps == ASSUME IndInv, NEW u \in Units, CancelQueued(u) PROVE IndInv'
<1>1. Leave(u, unit[u], "cancelled") /\ UNCHANGED <<job, asked, markers, files>>
  BY DEF CancelQueued
<1> QED
  BY <1>1, UnitFacts, LeaveStep DEF IndInv, TypeOK

LEMMA StopKeeps == ASSUME IndInv, Stop PROVE IndInv'
<1>1. ASSUME NEW u \in Units
      PROVE  /\ Cancelled(unit[u], "stop") \in UnitRecords
             /\ CallInv(Cancelled(unit[u], "stop"))
             /\ Cancelled(unit[u], "stop").result = unit[u].result
  BY UnitFacts, CancelledType
<1>2. CASE gather = "open"
  <2>1. unit' = [u \in Units |-> Cancelled(unit[u], "stop")]
    BY <1>2 DEF Stop
  <2>2. unit' \in [Units -> UnitRecords] /\ PoolInv'
    BY <1>1, <2>1 DEF Stop, IndInv, PoolInv
  <2> QED
    BY <2>2 DEF Stop, IndInv, TypeOK
<1>3. CASE gather # "open"
  BY <1>3 DEF Stop, IndInv, TypeOK, PoolInv
<1> QED
  BY <1>2, <1>3

LEMMA JobEndsKeeps == ASSUME IndInv, JobEnds PROVE IndInv'
BY DEF JobEnds, IndInv, TypeOK, PoolInv

\* An agent at work belongs to a unit without a result, whose file is not vouched for.
LEMMA AgentWritesKeeps == ASSUME IndInv, NEW u \in Units, AgentWrites(u) PROVE IndInv'
<1>1. unit[u].result = "pending"
  BY UnitFacts DEF AgentWrites, CallInv, AgentAwaited, TriesLeft, ResultAtEnd
<1>2. /\ files' \in [Units -> {"none", "valid", "invalid"}]
      /\ \A v \in Units \ {u} : files'[v] = files[v]
  BY DEF AgentWrites, IndInv, TypeOK
<1> QED
  BY <1>1, <1>2 DEF AgentWrites, IndInv, TypeOK, PoolInv

LEMMA AgentSucceedsKeeps == ASSUME IndInv, NEW u \in Units, AgentSucceeds(u) PROVE IndInv'
<1> DEFINE r == [unit[u] EXCEPT !.agent = "result"]
<1>1. Move(u, r)
  BY DEF AgentSucceeds, Agent, Move
<1>2. r \in UnitRecords /\ r.result = unit[u].result /\ CallInv(r)
  BY UnitFacts DEF UnitRecords, CallInv, AgentAwaited, TriesLeft, ResultAtEnd, CancelHasCause, StopNotForgotten
<1> QED
  BY <1>1, <1>2, MoveStep

LEMMA AgentFailsKeeps == ASSUME IndInv, NEW u \in Units, AgentFails(u) PROVE IndInv'
<1>1. PICK r \in Failure(unit[u]) : Move(u, r)
  BY DEF AgentFails, Agent, Move
<1>2. unit[u].agent = "attempt"
  BY DEF AgentFails
<1> QED
  BY <1>1, <1>2, UnitFacts, FailureType, MoveStep

LEMMA RetryKeeps == ASSUME IndInv, NEW u \in Units, Retry(u) PROVE IndInv'
<1> DEFINE r == [unit[u] EXCEPT !.agent = "attempt", !.tries = @ + 1]
<1>1. Move(u, r) /\ unit[u].agent = "backoff"
  BY DEF Retry, Agent, Move
<1>2. unit[u].tries + 1 \in 0 .. MaxTries
  BY <1>1, UnitFacts, AgentPoolAssumption DEF UnitRecords, CallInv, TriesLeft
<1>3. r \in UnitRecords /\ r.result = unit[u].result /\ CallInv(r)
  BY <1>1, <1>2, UnitFacts, ZenonT(60) DEF UnitRecords, CallInv, AgentAwaited, TriesLeft, ResultAtEnd, CancelHasCause, StopNotForgotten
<1> QED
  BY <1>1, <1>3, MoveStep

LEMMA AgentCancelledKeeps == ASSUME IndInv, NEW u \in Units, AgentCancelled(u) PROVE IndInv'
<1>1. CASE Agent(u, [unit[u] EXCEPT !.agent = "cancelled", !.stop = FALSE]) /\ UNCHANGED files
  <2> DEFINE r == [unit[u] EXCEPT !.agent = "cancelled", !.stop = FALSE]
  <2>1. Move(u, r)
    BY <1>1 DEF Agent, Move
  <2>2. r \in UnitRecords /\ r.result = unit[u].result /\ CallInv(r)
    BY UnitFacts, ZenonT(60) DEF UnitRecords, CallInv, AgentAwaited, TriesLeft, ResultAtEnd, CancelHasCause,
                        StopNotForgotten
  <2> QED
    BY <2>1, <2>2, MoveStep
<1>2. CASE /\ unit[u].agent = "attempt" /\ UNCHANGED files
           /\ \E next \in Failure(unit[u]) : Agent(u, next)
  <2>1. PICK r \in Failure(unit[u]) : Move(u, r)
    BY <1>2 DEF Agent, Move
  <2> QED
    BY <1>2, <2>1, UnitFacts, FailureType, MoveStep
<1> QED
  BY <1>1, <1>2 DEF AgentCancelled

\* A call whose agent is over keeps the invariant where the cancellations say so.
LEMMA OverKeeps ==
    ASSUME NEW r \in UnitRecords, CallInv(r), r.work \notin {"done"},
           NEW w \in {"recording", "cleanup"},
           NEW s \in {"completed", "killed", "failed", "cancelled"},
           s = "cancelled" => "stop" \in r.hit \/ "timeout" \in r.hit,
           "stop" \in r.hit => r.deaf \/ (w = "cleanup" /\ s \in {"cancelled", "failed"})
    PROVE  /\ Over(r, w, s) \in UnitRecords /\ CallInv(Over(r, w, s))
           /\ Over(r, w, s).result = r.result
<1>1. /\ Over(r, w, s).agent = "none" /\ Over(r, w, s).due = FALSE
      /\ Over(r, w, s).work = w /\ Over(r, w, s).status = s
      /\ Over(r, w, s).hit = r.hit /\ Over(r, w, s).deaf = r.deaf
      /\ Over(r, w, s).result = r.result
  BY DEF Over, UnitRecords
<1>2. CallInv(Over(r, w, s))
  BY <1>1 DEF CallInv, AgentAwaited, TriesLeft, ResultAtEnd, CancelHasCause,
                        StopNotForgotten
<1> QED
  BY <1>1, <1>2, OverType

LEMMA AgentEndedKeeps ==
    ASSUME NEW r \in UnitRecords, CallInv(r), ~r.due, r.work \in {"waiting", "checking"}
    PROVE  /\ AgentEnded(r) \in UnitRecords /\ CallInv(AgentEnded(r))
           /\ AgentEnded(r).result = r.result
<1>1. "stop" \in r.hit => r.deaf
  BY DEF CallInv, StopNotForgotten
<1> QED
  BY <1>1, OverKeeps DEF AgentEnded

LEMMA CollectKeeps == ASSUME IndInv, NEW u \in Units, Collect(u) PROVE IndInv'
BY UnitFacts, AgentEndedKeeps, MoveStep DEF Collect

LEMMA TimeOutKeeps == ASSUME IndInv, NEW u \in Units, TimeOut(u) PROVE IndInv'
<1> DEFINE r == [unit[u] EXCEPT !.work = "checking"]
<1>1. Move(u, r) /\ unit[u].work = "waiting"
  BY DEF TimeOut
<1>2. r \in UnitRecords /\ r.result = unit[u].result /\ CallInv(r)
  BY <1>1, UnitFacts DEF UnitRecords, Works, CallInv, AgentAwaited, TriesLeft, ResultAtEnd, CancelHasCause,
                        StopNotForgotten
<1> QED
  BY <1>1, <1>2, MoveStep

LEMMA VerdictKeeps == ASSUME IndInv, NEW u \in Units, Verdict(u) PROVE IndInv'
<1>1. unit[u].work = "checking" /\ ~unit[u].due
  BY DEF Verdict
<1>2. CASE Move(u, AgentEnded(unit[u]))
  BY <1>1, <1>2, UnitFacts, AgentEndedKeeps, MoveStep
<1>3. CASE Move(u, [unit[u] EXCEPT !.work = "waiting"])
  <2> DEFINE r == [unit[u] EXCEPT !.work = "waiting"]
  <2>1. r \in UnitRecords /\ r.result = unit[u].result /\ CallInv(r)
    BY <1>1, UnitFacts DEF UnitRecords, Works, CallInv, AgentAwaited, TriesLeft, ResultAtEnd, CancelHasCause,
                        StopNotForgotten
  <2> QED
    BY <1>3, <2>1, MoveStep
<1>4. CASE Move(u, [unit[u] EXCEPT !.work = "killing", !.stop = TRUE])
  <2> DEFINE r == [unit[u] EXCEPT !.work = "killing", !.stop = TRUE]
  <2>1. r \in UnitRecords /\ r.result = unit[u].result /\ CallInv(r)
    BY <1>1, UnitFacts, ZenonT(60) DEF UnitRecords, Works, CallInv, AgentAwaited, TriesLeft, ResultAtEnd, CancelHasCause,
                        StopNotForgotten
  <2> QED
    BY <1>4, <2>1, MoveStep
<1> QED
  BY <1>2, <1>3, <1>4 DEF Verdict

LEMMA DeafenedFacts ==
    ASSUME NEW r \in UnitRecords
    PROVE  /\ Deafened(r) \in UnitRecords
           /\ Deafened(r).deaf <=> r.deaf \/ (r.due /\ "stop" \in r.hit)
           /\ \A f \in {"work", "call", "agent", "tries", "due", "hit", "status", "result"} :
                 Deafened(r)[f] = r[f]
<1> DEFINE b == r.deaf \/ (r.due /\ "stop" \in r.hit)
<1>1. b \in BOOLEAN
  BY Zenon DEF UnitRecords
<1>2. Deafened(r) = [r EXCEPT !.deaf = b]
  BY DEF Deafened
<1>3. b <=> r.deaf \/ (r.due /\ "stop" \in r.hit)
  OBVIOUS
<1> HIDE DEF b
<1> QED
  BY <1>1, <1>2, <1>3 DEF UnitRecords

LEMMA CheckerFailsKeeps == ASSUME IndInv, NEW u \in Units, CheckerFails(u) PROVE IndInv'
<1> DEFINE d == Deafened(unit[u])
           r == [d EXCEPT !.due = FALSE]
<1>1. Move(u, r) /\ unit[u].work = "checking"
  BY DEF CheckerFails
<1>2. /\ d \in UnitRecords
      /\ d.deaf <=> unit[u].deaf \/ (unit[u].due /\ "stop" \in unit[u].hit)
      /\ d.work = unit[u].work /\ d.agent = unit[u].agent /\ d.tries = unit[u].tries
      /\ d.hit = unit[u].hit /\ d.status = unit[u].status /\ d.result = unit[u].result
  BY UnitFacts, DeafenedFacts
<1> HIDE DEF d
<1>3. r \in UnitRecords /\ r.result = unit[u].result
  BY <1>2 DEF UnitRecords
<1>4. /\ r.due = FALSE /\ r.deaf = d.deaf /\ r.work = "checking" /\ r.agent = unit[u].agent
      /\ r.tries = unit[u].tries /\ r.hit = unit[u].hit /\ r.status = unit[u].status
  BY <1>1, <1>2 DEF UnitRecords
<1>5. CallInv(r)
  <2> HIDE DEF r
  <2> QED
    BY <1>1, <1>2, <1>3, <1>4, UnitFacts DEF CallInv, AgentAwaited, TriesLeft, ResultAtEnd, CancelHasCause,
                        StopNotForgotten
<1> QED
  BY <1>1, <1>3, <1>5, MoveStep

LEMMA KillTimesOutKeeps == ASSUME IndInv, NEW u \in Units, KillTimesOut(u) PROVE IndInv'
<1> DEFINE r == [unit[u] EXCEPT !.stop = TRUE, !.hit = @ \cup {"kill"}]
<1>1. Move(u, r)
  BY DEF KillTimesOut
<1>2. r \in UnitRecords /\ r.result = unit[u].result /\ CallInv(r)
  BY UnitFacts, ZenonT(60) DEF UnitRecords, CallInv, AgentAwaited, TriesLeft, ResultAtEnd, CancelHasCause,
                        StopNotForgotten
<1> QED
  BY <1>1, <1>2, MoveStep

LEMMA KillReturnsKeeps == ASSUME IndInv, NEW u \in Units, KillReturns(u) PROVE IndInv'
<1> DEFINE d == Deafened(unit[u])
<1>1. /\ unit[u].work = "killing"
      /\ Move(u, IF unit[u].agent = "error" THEN Over(d, "cleanup", "failed")
                 ELSE Over(d, "recording", "killed"))
  BY DEF KillReturns
<1>2. /\ d \in UnitRecords
      /\ d.deaf <=> unit[u].deaf \/ (unit[u].due /\ "stop" \in unit[u].hit)
      /\ d.work = unit[u].work /\ d.agent = unit[u].agent /\ d.tries = unit[u].tries
      /\ d.hit = unit[u].hit /\ d.status = unit[u].status /\ d.result = unit[u].result
      /\ d.due = unit[u].due
  BY UnitFacts, DeafenedFacts
<1> HIDE DEF d
<1>3. CallInv(d) /\ ("stop" \in d.hit => d.deaf)
  BY <1>1, <1>2, UnitFacts DEF CallInv, AgentAwaited, TriesLeft, ResultAtEnd, CancelHasCause,
                        StopNotForgotten
<1>4. CASE unit[u].agent = "error"
  BY <1>1, <1>2, <1>3, <1>4, OverKeeps, MoveStep
<1>5. CASE unit[u].agent # "error"
  BY <1>1, <1>2, <1>3, <1>5, OverKeeps, MoveStep
<1> QED
  BY <1>4, <1>5

LEMMA CancelCallKeeps == ASSUME IndInv, NEW u \in Units, CancelCall(u) PROVE IndInv'
<1>1. /\ unit[u].work \in {"waiting", "checking"} /\ unit[u].due
      /\ unit[u] \in UnitRecords /\ CallInv(unit[u])
  BY UnitFacts DEF CancelCall
<1>2. "stop" \in unit[u].hit \/ "timeout" \in unit[u].hit
  BY <1>1 DEF CallInv, CancelHasCause
<1>3. CASE Move(u, Over(unit[u], "cleanup", "cancelled"))
  BY <1>1, <1>2, <1>3, OverKeeps, MoveStep
<1>4. CASE Move(u, [unit[u] EXCEPT !.work = "unwinding", !.stop = TRUE, !.due = FALSE])
  <2> DEFINE r == [unit[u] EXCEPT !.work = "unwinding", !.stop = TRUE, !.due = FALSE]
  <2>1. r \in UnitRecords /\ r.result = unit[u].result /\ CallInv(r)
    BY <1>1, <1>2 DEF UnitRecords, Works, CallInv, AgentAwaited, TriesLeft, ResultAtEnd, CancelHasCause,
                        StopNotForgotten
  <2> QED
    BY <1>4, <2>1, MoveStep
<1> QED
  BY <1>3, <1>4 DEF CancelCall

LEMMA UnwoundKeeps == ASSUME IndInv, NEW u \in Units, Unwound(u) PROVE IndInv'
<1>1. /\ unit[u].work = "unwinding" /\ unit[u] \in UnitRecords /\ CallInv(unit[u])
      /\ Move(u, Over(unit[u], "cleanup", IF unit[u].agent = "error" THEN "failed" ELSE "cancelled"))
  BY UnitFacts DEF Unwound
<1>2. "stop" \in unit[u].hit \/ "timeout" \in unit[u].hit
  BY <1>1 DEF CallInv, CancelHasCause
<1>3. CASE unit[u].agent = "error"
  BY <1>1, <1>2, <1>3, OverKeeps, MoveStep
<1>4. CASE unit[u].agent # "error"
  BY <1>1, <1>2, <1>4, OverKeeps, MoveStep
<1> QED
  BY <1>3, <1>4

LEMMA RecordedKeeps == ASSUME IndInv, NEW u \in Units, Recorded(u) PROVE IndInv'
<1> DEFINE t == IF unit[u].due THEN "cancelled" ELSE unit[u].status
           r == [unit[u] EXCEPT !.work = "cleanup", !.due = FALSE, !.status = t]
<1>1. Move(u, r) /\ unit[u].work = "recording"
  BY DEF Recorded
<1>2. /\ t \in {"none", "completed", "killed", "failed", "cancelled"}
      /\ unit[u].due => t = "cancelled"
      /\ ~unit[u].due => t = unit[u].status
  BY UnitFacts DEF UnitRecords
<1> HIDE DEF t
<1>3. r \in UnitRecords /\ r.result = unit[u].result /\ CallInv(r)
  BY <1>1, <1>2, UnitFacts, ZenonT(60) DEF UnitRecords, Works, CallInv, AgentAwaited, TriesLeft, ResultAtEnd, CancelHasCause,
                        StopNotForgotten
<1> QED
  BY <1>1, <1>3, MoveStep

LEMMA RepairTimesOutKeeps == ASSUME IndInv, NEW u \in Units, RepairTimesOut(u) PROVE IndInv'
BY UnitFacts, CancelledType, MoveStep DEF RepairTimesOut

LEMMA CleanedUpKeeps == ASSUME IndInv, NEW u \in Units, CleanedUp(u) PROVE IndInv'
<1> DEFINE r == [unit[u] EXCEPT !.due = FALSE]
           valid == files[u] # "invalid"
<1>1. /\ unit[u].work = "cleanup" /\ AfterCall(u, Ending(unit[u])) /\ UNCHANGED <<job, asked>>
      /\ unit[u] \in UnitRecords /\ CallInv(unit[u])
  BY UnitFacts DEF CleanedUp
<1>2. r \in UnitRecords /\ r.result = "pending" /\ ~r.due
  BY <1>1 DEF UnitRecords, CallInv, ResultAtEnd
<1>3. CASE /\ \E s \in {"rejected", "cancelled"} : Leave(u, r, s)
           /\ UNCHANGED <<markers, files>>
  BY <1>1, <1>2, <1>3, LeaveStep DEF IndInv, TypeOK
<1>4. CASE Finalize(u, r, valid)
  <2>1. /\ markers' = IF valid THEN markers \cup {u} ELSE markers \ {u}
        /\ files' = IF valid THEN files ELSE [files EXCEPT ![u] = "none"]
        /\ Leave(u, r, "fulfilled")
    BY <1>4 DEF Finalize
  <2>2. /\ files' \in [Units -> {"none", "valid", "invalid"}] /\ files'[u] # "invalid"
        /\ \A v \in Units \ {u} : files'[v] = files[v]
        /\ markers' \subseteq Units
    BY <2>1 DEF IndInv, TypeOK
  <2>3. unit' \in [Units -> UnitRecords] /\ PoolInv' /\ gather' \in {"open", "cancelled", "complete"}
    BY <1>2, <2>1, <2>2, LeaveStep
  <2> QED
    BY <1>1, <2>2, <2>3 DEF IndInv, TypeOK
<1>5. CASE /\ unit' = [unit EXCEPT ![u] = Calling(r, "repair")]
           /\ UNCHANGED <<gather, markers, files>>
  <2>1. /\ Calling(r, "repair") \in UnitRecords /\ CallInv(Calling(r, "repair"))
        /\ Calling(r, "repair").result = "pending"
    BY <1>2, CallingType
  <2>2. unit' \in [Units -> UnitRecords] /\ PoolInv'
    BY <1>5, <2>1, OneUnit
  <2> QED
    BY <1>1, <1>5, <2>2 DEF IndInv, TypeOK
<1> QED
  BY <1>1, <1>3, <1>4, <1>5 DEF AfterCall

-----------------------------------------------------------------------------
(* Theorems *)

LEMMA InitIndInv == ASSUME Init PROVE IndInv
<1>1. TypeOK
  BY QueuedType DEF Init, TypeOK
<1>2. CallInv(Queued) /\ Queued.result = "pending"
  BY DEF Queued, CallInv, AgentAwaited, TriesLeft, ResultAtEnd, CancelHasCause, StopNotForgotten
<1>3. PoolInv
  BY <1>2 DEF Init, PoolInv
<1> QED
  BY <1>1, <1>3 DEF IndInv

LEMMA NextIndInv == ASSUME IndInv, [Next]_vars PROVE IndInv'
<1>1. CASE Stop
  BY <1>1, StopKeeps
<1>2. CASE JobEnds
  BY <1>2, JobEndsKeeps
<1>3. ASSUME NEW u \in Units, Enter(u) \/ CancelQueued(u)
      PROVE  IndInv'
  BY <1>3, EnterKeeps, CancelQueuedKeeps
<1>4. ASSUME NEW u \in Units, AgentMoves(u)
      PROVE  IndInv'
  BY <1>4, AgentWritesKeeps, AgentSucceedsKeeps, AgentFailsKeeps, RetryKeeps, AgentCancelledKeeps
     DEF AgentMoves
<1>5. ASSUME NEW u \in Units, CallMoves(u)
      PROVE  IndInv'
  BY <1>5, CollectKeeps, TimeOutKeeps, VerdictKeeps, CheckerFailsKeeps, KillTimesOutKeeps,
     KillReturnsKeeps, CancelCallKeeps, UnwoundKeeps, RecordedKeeps, CleanedUpKeeps,
     RepairTimesOutKeeps
     DEF CallMoves
<1>6. CASE UNCHANGED vars
  BY <1>6 DEF vars, IndInv, TypeOK, PoolInv
<1> QED
  BY <1>1, <1>2, <1>3, <1>4, <1>5, <1>6 DEF Next

LEMMA Invariance == Spec => []IndInv
<1>1. Init => IndInv
  BY InitIndInv
<1>2. IndInv /\ [Next]_vars => IndInv'
  BY NextIndInv
<1> QED
  BY <1>1, <1>2, PTL DEF Spec

(***************************************************************************)
(* Every variable keeps its type; in particular no call is tried more than *)
(* MaxTries times (_run_with_retries).                                     *)
(***************************************************************************)
THEOREM PoolTypeCorrect == Spec => []TypeOK
<1>1. IndInv => TypeOK
  BY DEF IndInv
<1> QED
  BY <1>1, Invariance, PTL

(***************************************************************************)
(* No SDK task outlives the call that made it, whatever kills, cancels or  *)
(* times out the call (run_agent, _await_agent_with_semantic_timeout).     *)
(***************************************************************************)
THEOREM AgentsAreReaped == Spec => []NoAgentLeaks
<1>1. IndInv => NoAgentLeaks
  BY DEF IndInv, PoolInv, CallInv, AgentAwaited, NoAgentLeaks, AgentRuns
<1> QED
  BY <1>1, Invariance, PTL

(***************************************************************************)
(* What a unit of Stage 3 hands on is no invalid finding (_run_unit).      *)
(***************************************************************************)
THEOREM HandedOnIsValid == Spec => []FulfilledIsValid
<1>1. IndInv => FulfilledIsValid
  BY DEF IndInv, PoolInv, FulfilledIsValid
<1> QED
  BY <1>1, Invariance, PTL

\* Only the end of a call marks a unit complete.
LEMMA MarkersGrow ==
    ASSUME IndInv, [Next]_vars, NEW u \in markers' \ markers
    PROVE  u \in Units /\ CleanedUp(u) /\ Finalize(u, [unit[u] EXCEPT !.due = FALSE], files[u] # "invalid")
                /\ files[u] # "invalid" /\ Ending(unit[u]) \in {"return", "timeout"}
<1>1. PICK v \in Units : CleanedUp(v)
  BY DEF Next, vars, Stop, JobEnds, Enter, CancelQueued, AgentMoves, AgentWrites, AgentSucceeds,
         AgentFails, Retry, AgentCancelled, Agent, CallMoves, Move, Collect, TimeOut, Verdict,
         CheckerFails, KillTimesOut, KillReturns, CancelCall, Unwound, Recorded, RepairTimesOut
<1>2. AfterCall(v, Ending(unit[v]))
  BY <1>1 DEF CleanedUp
<1>3. /\ Finalize(v, [unit[v] EXCEPT !.due = FALSE], files[v] # "invalid")
      /\ Ending(unit[v]) \in {"return", "timeout"}
  BY <1>2 DEF AfterCall
<1>4. u = v /\ files[v] # "invalid"
  BY <1>3 DEF Finalize
<1> QED
  BY <1>1, <1>3, <1>4

(***************************************************************************)
(* A unit is marked complete only by a call that was left to finish, or a  *)
(* repair whose time is up, with a finding that validates: what a Stop cut *)
(* off is analysed again by the next run.                                  *)
(***************************************************************************)
THEOREM MarkersAreEarned == Spec => CompletionIsEarned
<1>1. ASSUME IndInv, [Next]_vars, NEW u \in markers' \ markers
      PROVE  /\ files[u] # "invalid"
             /\ unit[u].status \in {"failed", "cancelled"} => "timeout" \in unit[u].hit
             /\ "stop" \in unit[u].hit => unit[u].deaf
  <2>1. /\ u \in Units /\ files[u] # "invalid" /\ unit[u].work = "cleanup"
        /\ Ending(unit[u]) \in {"return", "timeout"}
    BY <1>1, MarkersGrow DEF CleanedUp
  <2>2. unit[u] \in UnitRecords /\ CallInv(unit[u])
    BY <1>1, <2>1, UnitFacts
  <2>3. CASE Outcome(unit[u]) = "cancelled"
    <3>1. "stop" \notin unit[u].hit
      BY <2>1, <2>3 DEF Ending
    <3>2. unit[u].due \/ unit[u].status = "cancelled"
      BY <2>2, <2>3 DEF Outcome, UnitRecords
    <3> QED
      BY <2>1, <2>2, <3>1, <3>2 DEF CallInv, CancelHasCause
  <2>4. CASE Outcome(unit[u]) # "cancelled"
    <3>1. Outcome(unit[u]) = "return"
      BY <2>1, <2>4 DEF Ending, Outcome
    <3>2. ~unit[u].due /\ unit[u].status \notin {"failed", "cancelled"}
      BY <2>2, <3>1 DEF Outcome, UnitRecords
    <3> QED
      BY <2>1, <2>2, <3>2 DEF CallInv, StopNotForgotten
  <2> QED
    BY <2>3, <2>4
<1>2. IndInv /\ [Next]_vars =>
        [\A u \in markers' \ markers :
            /\ files[u] # "invalid"
            /\ unit[u].status \in {"failed", "cancelled"} => "timeout" \in unit[u].hit
            /\ "stop" \in unit[u].hit => unit[u].deaf]_vars
  BY <1>1
<1> QED
  BY <1>2, Invariance, PTL DEF Spec, CompletionIsEarned

-----------------------------------------------------------------------------
(* What a Stop starts *)

\* A step changes a unit by a move of its own, or by the cancellation of all.
LEMMA UnitMoves ==
    ASSUME [Next]_vars, IndInv, NEW u \in Units
    PROVE  \/ unit'[u] = unit[u]
           \/ unit'[u] = Cancelled(unit[u], "stop")
           \/ Enter(u) \/ CancelQueued(u) \/ AgentMoves(u) \/ CallMoves(u)
<1>1. unit \in [Units -> UnitRecords]
  BY DEF IndInv, TypeOK
<1>2. CASE Stop
  BY <1>2 DEF Stop
<1>3. CASE JobEnds \/ UNCHANGED vars
  BY <1>3 DEF JobEnds, vars
<1>4. ASSUME NEW v \in Units, v # u, Enter(v) \/ CancelQueued(v)
      PROVE  unit'[u] = unit[u]
  BY <1>1, <1>4 DEF Enter, CancelQueued, Leave
<1>5. ASSUME NEW v \in Units, v # u, AgentMoves(v)
      PROVE  unit'[u] = unit[u]
  BY <1>1, <1>5 DEF AgentMoves, AgentWrites, AgentSucceeds, AgentFails, Retry, AgentCancelled, Agent
<1>6. ASSUME NEW v \in Units, v # u, CallMoves(v)
      PROVE  unit'[u] = unit[u]
  <2>1. ASSUME NEW r, Move(v, r)
        PROVE  unit'[u] = unit[u]
    BY <1>1, <1>6, <2>1 DEF Move
  <2>2. CASE CleanedUp(v)
    BY <1>1, <1>6, <2>2 DEF CleanedUp, AfterCall, Finalize, Leave
  <2>3. CASE Collect(v) \/ TimeOut(v) \/ Verdict(v) \/ CheckerFails(v)
    BY <2>1, <2>3 DEF Collect, TimeOut, Verdict, CheckerFails
  <2>4. CASE \/ KillTimesOut(v) \/ KillReturns(v) \/ CancelCall(v) \/ Unwound(v)
             \/ Recorded(v) \/ RepairTimesOut(v)
    BY <2>1, <2>4 DEF KillTimesOut, KillReturns, CancelCall, Unwound, Recorded, RepairTimesOut
  <2> QED
    BY <1>6, <2>2, <2>3, <2>4 DEF CallMoves
<1> QED
  BY <1>2, <1>3, <1>4, <1>5, <1>6 DEF Next

(***************************************************************************)
(* An agent that a cancelled call waits for has a CancelledError on its    *)
(* way, unless its SDK has made an error of it.                            *)
(***************************************************************************)
Stopping(rec) == rec.work = "unwinding" /\ rec.agent \in {"attempt", "backoff"} => rec.stop
UnwindInv == \A u \in Units \ Rude : Stopping(unit[u])

LEMMA CancelledFacts ==
    ASSUME NEW r \in UnitRecords, NEW c \in {"stop", "timeout"}
    PROVE  /\ Cancelled(r, c).work = r.work /\ Cancelled(r, c).agent = r.agent
           /\ Cancelled(r, c).call = r.call /\ Cancelled(r, c).tries = r.tries
           /\ r.work = "unwinding" /\ r.agent \in {"attempt", "backoff"} => Cancelled(r, c).stop
<1>1. CASE r.work = "done"
  BY <1>1 DEF Cancelled
<1>2. CASE r.work # "done"
  <2> DEFINE b == r.stop \/ (r.work \in {"killing", "unwinding"}
                             /\ r.agent \in {"attempt", "backoff"})
  <2>1. Cancelled(r, c) = [r EXCEPT !.due = TRUE, !.hit = r.hit \cup {c}, !.stop = b]
    BY <1>2 DEF Cancelled
  <2>2. r.work = "unwinding" /\ r.agent \in {"attempt", "backoff"} => b
    OBVIOUS
  <2> HIDE DEF b
  <2> QED
    BY <2>1, <2>2 DEF UnitRecords
<1> QED
  BY <1>1, <1>2

\* What the moves of a unit leave of it.
LEMMA RecordFacts ==
    ASSUME NEW r \in UnitRecords
    PROVE  /\ \A w, s : LET o == Over(r, w, s)
                        IN  o.work = w /\ o.agent = "none" /\ o.tries = 0 /\ o.call = r.call
           /\ \A s : Left(r, s).work = "done" /\ Left(r, s).tries = 0 /\ Left(r, s).call = r.call
           /\ \A c : Calling(r, c).work = "waiting"
           /\ \A n \in Failure(r) : n.work = r.work /\ n.tries = r.tries /\ n.call = r.call
           /\ AgentEnded(r).work # "unwinding" /\ AgentEnded(r).tries = 0
           /\ AgentEnded(r).call = r.call
BY DEF UnitRecords, Over, Left, Queued, Calling, Failure, AgentEnded

LEMMA MovesTo ==
    ASSUME IndInv, NEW u \in Units
    PROVE  /\ \A r : Move(u, r) \/ Agent(u, r) => unit'[u] = r
           /\ \A r, s : Leave(u, r, s) => unit'[u] = Left(r, s)
BY DEF IndInv, TypeOK, Move, Agent, Leave, Left

LEMMA UnwindStep ==
    ASSUME IndInv, UnwindInv, [Next]_vars
    PROVE  UnwindInv'
<1> SUFFICES ASSUME NEW u \in Units, u \notin Rude
             PROVE  Stopping(unit'[u])
  BY DEF UnwindInv
<1>1. unit \in [Units -> UnitRecords] /\ unit[u] \in UnitRecords /\ Stopping(unit[u])
  BY DEF IndInv, TypeOK, UnwindInv
<1>2. CASE unit'[u] = unit[u]
  BY <1>1, <1>2
<1>3. CASE unit'[u] = Cancelled(unit[u], "stop")
  BY <1>1, <1>3, CancelledFacts DEF Stopping
<1>4. CASE Enter(u)
  <2>1. unit'[u] = Left(unit[u], "fulfilled") \/ unit'[u] = Calling(unit[u], "audit")
    BY <1>1, <1>4, MovesTo DEF Enter
  <2> QED
    BY <1>1, <2>1, RecordFacts DEF Stopping
<1>5. CASE CancelQueued(u)
  BY <1>1, <1>5, MovesTo, RecordFacts DEF CancelQueued, Stopping
<1>6. CASE AgentMoves(u)
  <2>1. CASE AgentWrites(u)
    BY <1>1, <2>1 DEF AgentWrites
  <2>2. CASE AgentFails(u)
    <3>1. unit[u].agent = "attempt" /\ ~unit[u].stop /\ unit'[u] \in Failure(unit[u])
      BY <2>2, MovesTo DEF AgentFails
    <3> QED
      BY <1>1, <3>1, RecordFacts DEF Stopping
  <2>3. CASE AgentSucceeds(u)
    <3>1. unit'[u] = [unit[u] EXCEPT !.agent = "result"]
      BY <2>3, MovesTo DEF AgentSucceeds
    <3> QED
      BY <1>1, <3>1 DEF Stopping, UnitRecords
  <2>4. CASE Retry(u)
    <3>1. /\ unit'[u] = [unit[u] EXCEPT !.agent = "attempt", !.tries = @ + 1]
          /\ unit[u].agent = "backoff" /\ ~unit[u].stop
      BY <2>4, MovesTo DEF Retry
    <3> QED
      BY <1>1, <3>1 DEF Stopping, UnitRecords
  <2>5. CASE AgentCancelled(u)
    <3>1. unit'[u] = [unit[u] EXCEPT !.agent = "cancelled", !.stop = FALSE]
      BY <2>5, MovesTo DEF AgentCancelled
    <3> QED
      BY <1>1, <3>1 DEF Stopping, UnitRecords
  <2> QED
    BY <1>6, <2>1, <2>2, <2>3, <2>4, <2>5 DEF AgentMoves
<1>7. CASE CallMoves(u)
  <2>1. CASE CleanedUp(u)
    <3> DEFINE r == [unit[u] EXCEPT !.due = FALSE]
    <3>1. r \in UnitRecords
      BY <1>1 DEF UnitRecords
    <3>2. (\E s : Leave(u, r, s)) \/ unit' = [unit EXCEPT ![u] = Calling(r, "repair")]
      BY <2>1 DEF CleanedUp, AfterCall, Finalize
    <3>3. (\E s : unit'[u] = Left(r, s)) \/ unit'[u] = Calling(r, "repair")
      BY <1>1, <3>2, MovesTo
    <3> HIDE DEF r
    <3> QED
      BY <3>1, <3>3, RecordFacts DEF Stopping
  <2>2. CASE Collect(u)
    BY <1>1, <2>2, MovesTo, RecordFacts DEF Collect, Stopping
  <2>3. CASE TimeOut(u)
    <3>1. unit'[u] = [unit[u] EXCEPT !.work = "checking"]
      BY <2>3, MovesTo DEF TimeOut
    <3> QED
      BY <1>1, <3>1 DEF Stopping, UnitRecords
  <2>4. CASE Verdict(u)
    <3>1. \/ unit'[u] = AgentEnded(unit[u])
          \/ unit'[u] = [unit[u] EXCEPT !.work = "waiting"]
          \/ unit'[u] = [unit[u] EXCEPT !.work = "killing", !.stop = TRUE]
      BY <2>4, MovesTo DEF Verdict
    <3>2. CASE unit'[u] = AgentEnded(unit[u])
      BY <1>1, <3>2, RecordFacts DEF Stopping
    <3>3. CASE unit'[u] # AgentEnded(unit[u])
      BY <1>1, <3>1, <3>3 DEF Stopping, UnitRecords
    <3> QED
      BY <3>2, <3>3
  <2>5. CASE KillTimesOut(u)
    <3>1. /\ unit'[u] = [unit[u] EXCEPT !.stop = TRUE, !.hit = @ \cup {"kill"}]
          /\ unit[u].work = "killing"
      BY <2>5, MovesTo DEF KillTimesOut
    <3> QED
      BY <1>1, <3>1 DEF Stopping, UnitRecords
  <2>6. CASE CancelCall(u)
    <3>1. \/ unit'[u] = Over(unit[u], "cleanup", "cancelled")
          \/ unit'[u] = [unit[u] EXCEPT !.work = "unwinding", !.stop = TRUE, !.due = FALSE]
      BY <2>6, MovesTo DEF CancelCall
    <3>2. CASE unit'[u] = Over(unit[u], "cleanup", "cancelled")
      BY <1>1, <3>2, RecordFacts DEF Stopping
    <3>3. CASE unit'[u] = [unit[u] EXCEPT !.work = "unwinding", !.stop = TRUE, !.due = FALSE]
      BY <1>1, <3>3 DEF Stopping, UnitRecords
    <3> QED
      BY <3>1, <3>2, <3>3
  <2>7. CASE Unwound(u)
    BY <1>1, <2>7, MovesTo, RecordFacts DEF Unwound, Stopping
  <2>8. CASE Recorded(u)
    <3>1. \E s : unit'[u] = [unit[u] EXCEPT !.work = "cleanup", !.due = FALSE, !.status = s]
      BY <2>8, MovesTo DEF Recorded
    <3> QED
      BY <1>1, <3>1 DEF Stopping, UnitRecords
  <2>9. CASE KillReturns(u)
    <3>1. Deafened(unit[u]) \in UnitRecords
      BY <1>1, DeafenedFacts
    <3>2. \E w \in {"cleanup", "recording"} : \E s : unit'[u] = Over(Deafened(unit[u]), w, s)
      BY <2>9, MovesTo DEF KillReturns
    <3> QED
      BY <3>1, <3>2, RecordFacts DEF Stopping
  <2>10. CASE RepairTimesOut(u)
    BY <1>1, <2>10, MovesTo, CancelledFacts DEF RepairTimesOut, Stopping
  <2>11. ~CheckerFails(u)
    BY DEF CheckerFails
  <2> QED
    BY <1>7, <2>1, <2>2, <2>3, <2>4, <2>5, <2>6, <2>7, <2>8, <2>9, <2>10, <2>11 DEF CallMoves
<1> QED
  BY <1>2, <1>3, <1>4, <1>5, <1>6, <1>7, UnitMoves

\* The step that a Stop allows a unit.
LEMMA StoppedStarts ==
    ASSUME IndInv, UnwindInv, [Next]_vars, NEW u \in Units,
           "stop" \in unit[u].hit, ~unit[u].deaf
    PROVE  /\ unit'[u].call = unit[u].call
           /\ unit[u].due \/ u \in Rude \/ unit'[u].tries <= unit[u].tries
<1>1. /\ unit \in [Units -> UnitRecords] /\ unit[u] \in UnitRecords /\ CallInv(unit[u])
      /\ u \notin Rude => Stopping(unit[u])
  BY DEF IndInv, TypeOK, PoolInv, UnwindInv
<1>2. /\ unit[u].tries \in Nat
      /\ \/ unit[u].due \/ unit[u].work = "unwinding"
         \/ unit[u].work = "cleanup" /\ unit[u].status \in {"cancelled", "failed"}
  BY <1>1, AgentPoolAssumption DEF CallInv, StopNotForgotten, UnitRecords
<1>3. CASE unit'[u] = unit[u]
  BY <1>2, <1>3
<1>4. CASE unit'[u] = Cancelled(unit[u], "stop")
  BY <1>1, <1>2, <1>4, CancelledFacts
<1>5. CASE Enter(u)
  BY <1>2, <1>5 DEF Enter
<1>6. CASE CancelQueued(u)
  BY <1>1, <1>2, <1>6, MovesTo, RecordFacts DEF CancelQueued
<1>7. CASE AgentMoves(u)
  <2>1. CASE AgentWrites(u)
    BY <1>2, <2>1 DEF AgentWrites
  <2>2. CASE \/ AgentFails(u)
             \/ AgentCancelled(u) /\ \E next \in Failure(unit[u]) : Agent(u, next)
    <3>1. unit'[u] \in Failure(unit[u])
      BY <2>2, MovesTo DEF AgentFails
    <3> QED
      BY <1>1, <1>2, <3>1, RecordFacts
  <2>3. CASE AgentSucceeds(u)
    <3>1. unit'[u] = [unit[u] EXCEPT !.agent = "result"]
      BY <2>3, MovesTo DEF AgentSucceeds
    <3> QED
      BY <1>1, <1>2, <3>1 DEF UnitRecords
  <2>4. CASE /\ AgentCancelled(u)
             /\ Agent(u, [unit[u] EXCEPT !.agent = "cancelled", !.stop = FALSE])
    <3>1. unit'[u] = [unit[u] EXCEPT !.agent = "cancelled", !.stop = FALSE]
      BY <2>4, MovesTo
    <3> QED
      BY <1>1, <1>2, <3>1 DEF UnitRecords
  <2>5. CASE Retry(u)
    <3>1. unit[u].agent = "backoff" /\ ~unit[u].stop
      BY <2>5 DEF Retry
    <3>2. unit[u].due \/ u \in Rude
      BY <1>1, <1>2, <3>1 DEF CallInv, AgentAwaited, Stopping
    <3>3. unit'[u] = [unit[u] EXCEPT !.agent = "attempt", !.tries = @ + 1]
      BY <2>5, MovesTo DEF Retry
    <3> QED
      BY <1>1, <3>2, <3>3 DEF UnitRecords
  <2> QED
    BY <1>7, <2>1, <2>2, <2>3, <2>4, <2>5 DEF AgentMoves, AgentCancelled
<1>8. CASE CallMoves(u)
  <2>1. CASE CleanedUp(u)
    <3> DEFINE r == [unit[u] EXCEPT !.due = FALSE]
    <3>1. Outcome(unit[u]) # "return"
      BY <1>1, <1>2, <2>1 DEF Outcome, CleanedUp, UnitRecords
    <3>2. Ending(unit[u]) \notin {"return", "timeout"}
      BY <3>1 DEF Ending, Outcome
    <3>3. \E s : Leave(u, r, s)
      BY <2>1, <3>2 DEF CleanedUp, AfterCall
    <3>4. \E s : unit'[u] = Left(r, s)
      BY <3>3, MovesTo
    <3>5. r \in UnitRecords /\ r.call = unit[u].call
      BY <1>1 DEF UnitRecords
    <3> HIDE DEF r
    <3> QED
      BY <1>2, <3>4, <3>5, RecordFacts
  <2>2. CASE Collect(u)
    BY <1>1, <1>2, <2>2, MovesTo, RecordFacts DEF Collect
  <2>3. CASE TimeOut(u)
    <3>1. unit'[u] = [unit[u] EXCEPT !.work = "checking"]
      BY <2>3, MovesTo DEF TimeOut
    <3> QED
      BY <1>1, <1>2, <3>1 DEF UnitRecords
  <2>4. CASE Verdict(u)
    <3>1. \/ unit'[u] = AgentEnded(unit[u])
          \/ unit'[u] = [unit[u] EXCEPT !.work = "waiting"]
          \/ unit'[u] = [unit[u] EXCEPT !.work = "killing", !.stop = TRUE]
      BY <2>4, MovesTo DEF Verdict
    <3>2. CASE unit'[u] = AgentEnded(unit[u])
      BY <1>1, <1>2, <3>2, RecordFacts
    <3>3. CASE unit'[u] = [unit[u] EXCEPT !.work = "waiting"]
      BY <1>1, <1>2, <3>3 DEF UnitRecords
    <3>4. CASE unit'[u] = [unit[u] EXCEPT !.work = "killing", !.stop = TRUE]
      BY <1>1, <1>2, <3>4 DEF UnitRecords
    <3> QED
      BY <3>1, <3>2, <3>3, <3>4
  <2>5. CASE KillTimesOut(u)
    <3>1. unit'[u] = [unit[u] EXCEPT !.stop = TRUE, !.hit = @ \cup {"kill"}]
      BY <2>5, MovesTo DEF KillTimesOut
    <3> QED
      BY <1>1, <1>2, <3>1 DEF UnitRecords
  <2>6. CASE CancelCall(u)
    <3>1. \/ unit'[u] = Over(unit[u], "cleanup", "cancelled")
          \/ unit'[u] = [unit[u] EXCEPT !.work = "unwinding", !.stop = TRUE, !.due = FALSE]
      BY <2>6, MovesTo DEF CancelCall
    <3>2. CASE unit'[u] = Over(unit[u], "cleanup", "cancelled")
      BY <1>1, <1>2, <3>2, RecordFacts
    <3>3. CASE unit'[u] = [unit[u] EXCEPT !.work = "unwinding", !.stop = TRUE, !.due = FALSE]
      BY <1>1, <1>2, <3>3 DEF UnitRecords
    <3> QED
      BY <3>1, <3>2, <3>3
  <2>7. CASE Unwound(u)
    BY <1>1, <1>2, <2>7, MovesTo, RecordFacts DEF Unwound
  <2>8. CASE Recorded(u)
    <3>1. \E s : unit'[u] = [unit[u] EXCEPT !.work = "cleanup", !.due = FALSE, !.status = s]
      BY <2>8, MovesTo DEF Recorded
    <3> QED
      BY <1>1, <1>2, <3>1 DEF UnitRecords
  <2>9. CASE KillReturns(u) \/ CheckerFails(u)
    <3>1. /\ Deafened(unit[u]) \in UnitRecords /\ Deafened(unit[u]).tries = unit[u].tries
          /\ Deafened(unit[u]).call = unit[u].call
      BY <1>1, DeafenedFacts
    <3>2. \/ \E w, s : unit'[u] = Over(Deafened(unit[u]), w, s)
          \/ unit'[u] = [Deafened(unit[u]) EXCEPT !.due = FALSE]
      BY <2>9, MovesTo DEF KillReturns, CheckerFails
    <3>3. CASE \E w, s : unit'[u] = Over(Deafened(unit[u]), w, s)
      BY <1>2, <3>1, <3>3, RecordFacts
    <3>4. CASE unit'[u] = [Deafened(unit[u]) EXCEPT !.due = FALSE]
      BY <1>2, <3>1, <3>4 DEF UnitRecords
    <3> QED
      BY <3>2, <3>3, <3>4
  <2>10. CASE RepairTimesOut(u)
    BY <1>1, <1>2, <2>10, MovesTo, CancelledFacts DEF RepairTimesOut
  <2> QED
    BY <1>8, <2>1, <2>2, <2>3, <2>4, <2>5, <2>6, <2>7, <2>8, <2>9, <2>10 DEF CallMoves
<1> QED
  BY <1>3, <1>4, <1>5, <1>6, <1>7, <1>8, UnitMoves

(***************************************************************************)
(* A Stop that has reached a unit, and is not lost, starts no agent: no    *)
(* repair, and no further attempt once it is delivered, but by an SDK that *)
(* makes an error of it (AuditJob.stop, _await_agent_with_semantic_timeout,*)
(* _run_with_retries).                                                     *)
(***************************************************************************)
THEOREM StopsStartNothing == Spec => StopStartsNothing
<1>1. Init => UnwindInv
  BY DEF Init, Queued, UnwindInv, Stopping
<1>2. IndInv /\ UnwindInv /\ [Next]_vars => UnwindInv'
  BY UnwindStep
<1>3. IndInv /\ UnwindInv /\ [Next]_vars =>
        [\A u \in Units : "stop" \in unit[u].hit /\ ~unit[u].deaf =>
            /\ unit'[u].call = unit[u].call
            /\ unit[u].due \/ u \in Rude \/ unit'[u].tries <= unit[u].tries]_vars
  BY StoppedStarts
<1> QED
  BY <1>1, <1>2, <1>3, Invariance, PTL DEF Spec, StopStartsNothing
=============================================================================
