----------------------------- MODULE SystemProofs -----------------------------
(***************************************************************************)
(* Proofs about the system: the sandbox, the run document and the document *)
(* of an agent task, each with its inductive invariant, and the theorems   *)
(* of AuditPipelineProofs and DisclosureStoreProofs carried over to it.    *)
(***************************************************************************)
EXTENDS System, Sequences, DisclosureStoreProofs, FiniteSetTheorems, WellFoundedInduction

-----------------------------------------------------------------------------
(* Sandbox *)

\* What holds of an execution that was launched: its invocation has begun; once that is
\* swept or over the supervisor is not alive, and neither it nor the container is where a
\* record says so or the scratch is gone; the records of an invocation that ended are
\* settled, those aside that could not be written; and a supervisor that runs has the
\* container it created.
Accounted(e) ==
    LET r == of[e] IN
    /\ run[r] # "idle"
    /\ r \notin unkilled =>
          /\ run[r] \in {"sweeping", "ended"} => sup[e] \notin Container!Alive
          /\ record[e].cleanup = "verified" =>
                sup[e] \notin Container!Alive /\ container[e] \notin {"running", "exited"}
          /\ ~scratch => sup[e] \notin Container!Alive /\ container[e] # "running"
          /\ run[r] = "ended" /\ e \notin unwritten =>
                record[e].state \notin Container!Open /\ record[e].cleanup # "pending"
    /\ run[r] = "running" =>
          /\ sup[e] = "created" => container[e] = "created"
          /\ sup[e] = "attached" => container[e] \in {"running", "exited"}

\* No invocation begins before the scratch is open or goes on when it closes, and the
\* trees are there in between.
StageInv ==
    /\ stage \in {"closing", "over"} => \A r \in Invocations : run[r] \in {"idle", "ended"}
    /\ stage \in {"new", "preparing"} => \A r \in Invocations : run[r] = "idle"
    /\ ~scratch => stage \in {"new", "over"}

ContainerInv ==
    /\ Container!TypeOK /\ StageInv
    /\ \A e \in Executions : IF of[e] = None THEN sup[e] = "none" ELSE Accounted(e)

LEMMA ContainerStarts == Container!Init => ContainerInv
<1> SUFFICES ASSUME Container!Init PROVE ContainerInv
  OBVIOUS
<1>1. Container!TypeOK
  BY DEF Container!Init, Container!TypeOK, Container!NoRecord, Container!Present,
     Container!Open, Container!Alive
<1>2. StageInv /\ \A e \in Executions : of[e] = None /\ sup[e] = "none"
  BY DEF Container!Init, StageInv
<1> QED BY <1>1, <1>2 DEF ContainerInv

\* The course of the scratch: nothing of an execution changes.
LEMMA ScratchSteps ==
    ASSUME Container!SandboxAssumption, ContainerInv,
           Container!Prepare \/ Container!Prepared \/ Container!Leave \/ Container!CloseCancelled
    PROVE  ContainerInv'
<1>1. Container!TypeOK'
  BY DEF ContainerInv, Container!TypeOK, Container!Prepare, Container!Prepared,
     Container!Leave, Container!CloseCancelled, Container!ghost
<1>2. StageInv'
  BY DEF ContainerInv, StageInv, Container!TypeOK, Container!Prepare, Container!Prepared,
     Container!Leave, Container!CloseCancelled
<1>3. /\ UNCHANGED <<run, of, sup, container, record, unkilled, unwritten>>
      /\ scratch' \/ scratch' = scratch
  BY DEF Container!ghost, Container!Prepare, Container!Prepared, Container!Leave, Container!CloseCancelled
<1>4. ASSUME NEW e \in Executions, Accounted(e) PROVE Accounted(e)'
  BY <1>3, <1>4 DEF Accounted, Container!Alive, Container!Open
<1> QED BY <1>1, <1>2, <1>3, <1>4 DEF ContainerInv

\* A step of one supervisor or its container: only that execution changes.
OnlyExecution(e) ==
    /\ UNCHANGED <<stage, scratch, run, of, unkilled, unwritten>>
    /\ \A x \in Executions \ {e} :
          sup'[x] = sup[x] /\ container'[x] = container[x] /\ record'[x] = record[x]

LEMMA OneExecution ==
    ASSUME ContainerInv, NEW e \in Executions, OnlyExecution(e), Container!TypeOK',
           of[e] = None => sup'[e] = "none",
           of[e] # None => Accounted(e)'
    PROVE  ContainerInv'
<1>1. StageInv'
  BY DEF ContainerInv, OnlyExecution, StageInv
<1>2. ASSUME NEW x \in Executions, x # e, Accounted(x) PROVE Accounted(x)'
  BY <1>2 DEF OnlyExecution, Accounted, Container!Alive, Container!Open
<1>3. ASSUME NEW x \in Executions
      PROVE  IF of'[x] = None THEN sup'[x] = "none" ELSE Accounted(x)'
  BY <1>2 DEF ContainerInv, OnlyExecution
<1> QED BY <1>1, <1>3 DEF ContainerInv

LEMMA SupervisorSteps ==
    ASSUME Container!SandboxAssumption, ContainerInv, NEW e \in Executions,
           \/ Container!RequestCreate(e) \/ Container!Created(e) \/ Container!Attach(e)
           \/ Container!Exited(e) \/ Container!Fails(e) \/ Container!Interrupted(e)
           \/ Container!Killed(e) \/ Container!RemoveOwn(e) \/ Container!Supervised(e)
           \/ Container!DaemonAnswers(e) \/ Container!ContainerExits(e)
    PROVE  ContainerInv'
<1> USE DEF Container!Present, Container!Open, Container!Alive, Container!NoRecord,
            Container!ghost
<1>1. CASE Container!RequestCreate(e)
  <2>1. Container!TypeOK' /\ OnlyExecution(e)
    BY <1>1 DEF ContainerInv, Container!TypeOK, Container!RequestCreate, OnlyExecution
  <2>2. of[e] # None /\ Accounted(e)'
    BY <1>1 DEF ContainerInv, Container!TypeOK, Container!RequestCreate, Accounted
  <2> QED BY <2>1, <2>2, OneExecution
<1>2. CASE Container!Created(e)
  <2>1. Container!TypeOK' /\ OnlyExecution(e)
    BY <1>2 DEF ContainerInv, Container!TypeOK, Container!Created, OnlyExecution
  <2>2. of[e] # None /\ Accounted(e)'
    BY <1>2 DEF ContainerInv, Container!TypeOK, Container!Created, Accounted
  <2> QED BY <2>1, <2>2, OneExecution
<1>3. CASE Container!Attach(e)
  <2>1. Container!TypeOK' /\ OnlyExecution(e)
    BY <1>3 DEF ContainerInv, Container!TypeOK, Container!Attach, OnlyExecution
  <2>2. of[e] # None /\ Accounted(e)'
    BY <1>3 DEF ContainerInv, Container!TypeOK, Container!Attach, Accounted
  <2> QED BY <2>1, <2>2, OneExecution
<1>4. CASE Container!Exited(e) \/ Container!Fails(e) \/ Container!Interrupted(e)
  <2>1. /\ sup[e] \in {"creating", "created", "attached"}
        /\ \E result \in {"exited", "failed", "interrupted"} : Container!EndsAs(e, result)
    BY <1>4 DEF Container!Exited, Container!Fails, Container!Interrupted
  <2>2. Container!TypeOK' /\ OnlyExecution(e)
    BY <2>1 DEF ContainerInv, Container!TypeOK, Container!EndsAs, OnlyExecution
  <2>3. of[e] # None /\ Accounted(e)'
    BY <2>1 DEF ContainerInv, Container!TypeOK, Container!EndsAs, Accounted
  <2> QED BY <2>2, <2>3, OneExecution
<1>5. CASE Container!Killed(e)
  <2>1. Container!TypeOK' /\ OnlyExecution(e)
    BY <1>5 DEF ContainerInv, Container!TypeOK, Container!Killed, OnlyExecution
  <2>2. of[e] # None /\ Accounted(e)'
    BY <1>5 DEF ContainerInv, Container!TypeOK, Container!Killed, Accounted
  <2> QED BY <2>1, <2>2, OneExecution
<1>6. CASE Container!RemoveOwn(e)
  <2>1. Container!TypeOK' /\ OnlyExecution(e)
    BY <1>6 DEF ContainerInv, Container!TypeOK, Container!RemoveOwn, Container!Removed,
       Container!Named, OnlyExecution
  <2>2. of[e] # None /\ Accounted(e)'
    BY <1>6 DEF ContainerInv, Container!TypeOK, Container!RemoveOwn, Container!Removed,
       Container!Named, Accounted
  <2> QED BY <2>1, <2>2, OneExecution
<1>7. CASE Container!Supervised(e)
  <2>1. Container!TypeOK' /\ OnlyExecution(e)
    BY <1>7 DEF ContainerInv, Container!TypeOK, Container!Supervised, OnlyExecution
  <2>2. of[e] # None /\ Accounted(e)'
    BY <1>7 DEF ContainerInv, Container!TypeOK, Container!Supervised, Container!Named, Accounted
  <2> QED BY <2>1, <2>2, OneExecution
<1>8. CASE Container!DaemonAnswers(e)
  <2>1. Container!TypeOK' /\ OnlyExecution(e)
    BY <1>8 DEF ContainerInv, Container!TypeOK, Container!DaemonAnswers, OnlyExecution
  <2>2. /\ of[e] = None => sup'[e] = "none"
        /\ of[e] # None => Accounted(e)'
    BY <1>8 DEF ContainerInv, Container!TypeOK, Container!DaemonAnswers, Accounted
  <2> QED BY <2>1, <2>2, OneExecution
<1>9. CASE Container!ContainerExits(e)
  <2>1. Container!TypeOK' /\ OnlyExecution(e)
    BY <1>9 DEF ContainerInv, Container!TypeOK, Container!ContainerExits, OnlyExecution
  <2>2. /\ of[e] = None => sup'[e] = "none"
        /\ of[e] # None => Accounted(e)'
    BY <1>9 DEF ContainerInv, Container!TypeOK, Container!ContainerExits, Accounted
  <2> QED BY <2>1, <2>2, OneExecution
<1> QED BY <1>1, <1>2, <1>3, <1>4, <1>5, <1>6, <1>7, <1>8, <1>9

\* An invocation begins or its call ends: its supervisors go on.
LEMMA InvocationGoesOn ==
    ASSUME Container!SandboxAssumption, ContainerInv, NEW r \in Invocations,
           Container!Begin(r) \/ Container!End(r)
    PROVE  ContainerInv'
<1>1. Container!TypeOK'
  BY DEF ContainerInv, Container!TypeOK, Container!Begin, Container!End, Container!ghost
<1>2. StageInv'
  BY DEF ContainerInv, StageInv, Container!TypeOK, Container!Begin, Container!End
<1>3. /\ UNCHANGED <<scratch, of, sup, container, record, unkilled, unwritten>>
      /\ \A x \in Invocations : \/ run'[x] = run[x]
                                \/ run[x] = "idle" /\ run'[x] = "running"
                                \/ run[x] = "running" /\ run'[x] = "killing"
  BY DEF ContainerInv, Container!TypeOK, Container!Begin, Container!End, Container!ghost
<1>4. ASSUME NEW e \in Executions, of[e] # None, Accounted(e) PROVE Accounted(e)'
  <2>1. of[e] \in Invocations
    BY <1>4 DEF ContainerInv, Container!TypeOK
  <2> QED BY <1>3, <1>4, <2>1 DEF Accounted, Container!Alive, Container!Open
<1> QED BY <1>1, <1>2, <1>3, <1>4 DEF ContainerInv

LEMMA LaunchStep ==
    ASSUME Container!SandboxAssumption, ContainerInv, NEW r \in Invocations,
           NEW e \in Executions, Container!Launch(r, e)
    PROVE  ContainerInv'
<1>1. Container!TypeOK'
  BY DEF ContainerInv, Container!TypeOK, Container!Launch, Container!Open, Container!Alive,
     Container!ghost
<1>2. StageInv'
  BY DEF ContainerInv, StageInv, Container!Launch
<1>3. Accounted(e)' /\ of'[e] # None
  <2>1. scratch
    BY DEF ContainerInv, StageInv, Container!Launch, Container!TypeOK
  <2> QED BY <2>1 DEF ContainerInv, Container!TypeOK, Container!Launch, Accounted,
             Container!SandboxAssumption, Container!ghost
<1>4. ASSUME NEW x \in Executions, x # e
      PROVE  IF of'[x] = None THEN sup'[x] = "none" ELSE Accounted(x)'
  <2>1. /\ of'[x] = of[x] /\ sup'[x] = sup[x] /\ record'[x] = record[x]
        /\ UNCHANGED <<scratch, run, container, unkilled, unwritten>>
    BY <1>4 DEF ContainerInv, Container!TypeOK, Container!Launch, Container!ghost
  <2>2. Accounted(x) => Accounted(x)'
    BY <2>1 DEF Accounted, Container!Alive, Container!Open
  <2> QED BY <2>1, <2>2 DEF ContainerInv
<1> QED BY <1>1, <1>2, <1>3, <1>4 DEF ContainerInv

\* cleanup_processes: a supervisor that is alive yet is noted.
LEMMA ProcessesCleanedStep ==
    ASSUME Container!SandboxAssumption, ContainerInv, NEW r \in Invocations,
           Container!ProcessesCleaned(r)
    PROVE  ContainerInv'
<1>1. Container!TypeOK'
  BY DEF ContainerInv, Container!TypeOK, Container!ProcessesCleaned, Container!ghost
<1>2. StageInv'
  BY DEF ContainerInv, StageInv, Container!TypeOK, Container!ProcessesCleaned
<1>3. /\ UNCHANGED <<scratch, of, sup, container, record, unwritten>>
      /\ run[r] = "killing" /\ run'[r] = "sweeping"
      /\ \A x \in Invocations \ {r} : run'[x] = run[x]
      /\ unkilled \subseteq unkilled'
      /\ r \notin unkilled' => \A e \in Executions : of[e] = r => sup[e] \notin Container!Alive
  BY DEF ContainerInv, Container!TypeOK, Container!ProcessesCleaned, Container!Belonging
<1>4. ASSUME NEW e \in Executions, of[e] # None, Accounted(e) PROVE Accounted(e)'
  <2>1. of[e] \in Invocations
    BY <1>4 DEF ContainerInv, Container!TypeOK
  <2> QED BY <1>3, <1>4, <2>1 DEF Accounted, Container!Alive, Container!Open
<1> QED BY <1>1, <1>2, <1>3, <1>4 DEF ContainerInv

\* Containers are removed of an invocation that is swept, or when none runs any more.
LEMMA SweepSteps ==
    ASSUME Container!SandboxAssumption, ContainerInv,
           Container!SweepAll \/ \E r \in Invocations : Container!Sweep(r)
    PROVE  ContainerInv'
<1>1. Container!TypeOK' /\ UNCHANGED <<stage, scratch, run, of, sup, record, unkilled, unwritten>>
  BY DEF ContainerInv, Container!ghost, Container!TypeOK, Container!SweepAll, Container!Sweep,
     Container!Removed, Container!Present
<1>2. StageInv'
  BY <1>1 DEF ContainerInv, StageInv
<1>3. ASSUME NEW e \in Executions, of[e] # None
      PROVE  \/ container'[e] = container[e]
             \/ container'[e] = "absent" /\ run[of[e]] # "running"
  BY <1>3 DEF ContainerInv, StageInv, Container!TypeOK, Container!SweepAll, Container!Sweep,
     Container!Removed, Container!Present, Container!Belonging
<1>4. ASSUME NEW e \in Executions, of[e] # None, Accounted(e) PROVE Accounted(e)'
  BY <1>1, <1>3, <1>4 DEF Accounted, Container!Alive, Container!Open
<1> QED BY <1>1, <1>2, <1>4 DEF ContainerInv

LEMMA EndedStep ==
    ASSUME Container!SandboxAssumption, ContainerInv, NEW r \in Invocations, Container!Ended(r)
    PROVE  ContainerInv'
<1>1. PICK failing \in SUBSET Container!Belonging(r), cleanup \in {"verified", "failed"} :
          /\ cleanup = "verified" =>
                \A e \in Container!Belonging(r) : container[e] \notin Container!Present
          /\ record' = Container!Finalized(Container!Belonging(r) \ failing, cleanup)
          /\ unwritten' = unwritten \cup failing
  BY DEF Container!Ended, Container!Finalize
<1>2. Container!TypeOK'
  BY <1>1 DEF ContainerInv, Container!TypeOK, Container!Ended, Container!Finalized,
     Container!Belonging, Container!Open
<1>3. StageInv'
  BY DEF ContainerInv, StageInv, Container!TypeOK, Container!Ended
<1>4. /\ UNCHANGED <<scratch, of, sup, container, unkilled>>
      /\ run[r] = "sweeping" /\ run'[r] = "ended"
      /\ \A x \in Invocations \ {r} : run'[x] = run[x]
  BY DEF ContainerInv, Container!TypeOK, Container!Ended
<1>5. ASSUME NEW e \in Executions, of[e] # None, of[e] # r, Accounted(e) PROVE Accounted(e)'
  <2>1. of[e] \in Invocations /\ record'[e] = record[e] /\ (e \in unwritten' <=> e \in unwritten)
    BY <1>1, <1>5 DEF ContainerInv, Container!TypeOK, Container!Finalized, Container!Belonging
  <2> QED BY <1>4, <1>5, <2>1 DEF Accounted, Container!Alive, Container!Open
<1>6. ASSUME NEW e \in Executions, of[e] = r, Accounted(e) PROVE Accounted(e)'
  <2>1. CASE e \in failing
    <3>1. record'[e] = record[e] /\ e \in unwritten'
      BY <1>1, <2>1 DEF Container!Finalized
    <3> QED BY <1>4, <1>6, <3>1 DEF Accounted, Container!Alive, Container!Open
  <2>2. CASE e \notin failing
    <3>1. /\ record'[e].cleanup = cleanup
          /\ record'[e].state \notin Container!Open
          /\ cleanup = "verified" => container[e] \notin Container!Present
      BY <1>1, <1>6, <2>2 DEF Container!Finalized, Container!Belonging, Container!Open
    <3> QED BY <1>4, <1>6, <3>1 DEF Accounted, Container!Present, Container!Alive, Container!Open
  <2> QED BY <2>1, <2>2
<1> QED BY <1>2, <1>3, <1>4, <1>5, <1>6 DEF ContainerInv

\* close: every invocation has ended, so no supervisor that was stopped is alive.
LEMMA ClosedStep ==
    ASSUME Container!SandboxAssumption, ContainerInv, Container!Closed
    PROVE  ContainerInv'
<1>1. PICK failing \in SUBSET Container!Launched, cleanup \in {"verified", "failed"} :
          /\ record' = Container!Finalized(Container!Launched \ failing, cleanup)
          /\ cleanup = "verified" =>
                \A e \in Container!Launched : container[e] \notin Container!Present
          /\ \/ scratch' = scratch
             \/ \A e \in Executions : container[e] \notin Container!Present
          /\ scratch' \in BOOLEAN
  <2>1. Container!Launched \ {} = Container!Launched
    OBVIOUS
  <2>2. CASE /\ \A e \in Executions : container[e] \notin Container!Present
             /\ record' = Container!Finalized(Container!Launched, "verified")
             /\ scratch' \in BOOLEAN
    BY <2>1, <2>2 DEF Container!Launched
  <2>3. CASE /\ \E failing \in SUBSET Container!Launched :
                   Container!Finalize(Container!Launched, failing)
             /\ UNCHANGED scratch
    BY <2>3 DEF Container!Finalize, ContainerInv, Container!TypeOK
  <2> QED BY <2>2, <2>3 DEF Container!Closed
<1>2. Container!TypeOK'
  BY <1>1 DEF ContainerInv, Container!TypeOK, Container!Closed, Container!Finalized,
     Container!Open, Container!ghost
<1>3. StageInv'
  BY DEF ContainerInv, StageInv, Container!TypeOK, Container!Closed
<1>4. UNCHANGED <<run, of, sup, container, unkilled, unwritten>>
  BY DEF Container!Closed, Container!ghost
<1>5. ASSUME NEW e \in Executions, of[e] # None, Accounted(e) PROVE Accounted(e)'
  <2>1. run[of[e]] = "ended"
    BY <1>5 DEF ContainerInv, StageInv, Container!TypeOK, Container!Closed, Accounted
  <2>2. \/ record'[e] = record[e]
        \/ /\ record'[e].cleanup = cleanup /\ record'[e].state \notin Container!Open
           /\ cleanup = "verified" => container[e] \notin Container!Present
    BY <1>1, <1>5 DEF Container!Finalized, Container!Launched, Container!Open
  <2> QED BY <1>1, <1>4, <1>5, <2>1, <2>2 DEF Accounted, Container!Present, Container!Alive,
             Container!Open
<1> QED BY <1>2, <1>3, <1>4, <1>5 DEF ContainerInv

LEMMA ContainerStep ==
    ASSUME Container!SandboxAssumption, ContainerInv, [Container!Next]_Container!vars
    PROVE  ContainerInv'
<1>1. CASE UNCHANGED Container!vars
  BY <1>1 DEF ContainerInv, Container!TypeOK, StageInv, Accounted, Container!vars, Container!ghost
<1>2. CASE Container!Next
  BY <1>2, ScratchSteps, SupervisorSteps, InvocationGoesOn, LaunchStep, ProcessesCleanedStep,
     SweepSteps, EndedStep, ClosedStep DEF Container!Next
<1> QED BY <1>1, <1>2

LEMMA ContainerExact == ContainerInv => Container!CleanupIsExact
  BY DEF ContainerInv, Accounted, Container!CleanupIsExact, Container!Launched

-----------------------------------------------------------------------------
(* RunTrajectory *)

Recording == {t \in AgentTasks : running[t] # None}

\* A run document, on disk or in memory: it refers to a task once at most, to none
\* without a document but for the purge under way and unless one came beside an audit or
\* failed, and counts what was used unless a purge took an audit's document back.
Accurate(document, usage) ==
    document # None =>
        /\ \A t \in AgentTasks : document.refs[t] <= 1
        /\ pruned = "no" =>
              \A t \in AgentTasks :
                 document.refs[t] > 0 => docs[t] # None \/ (purging # None /\ purging.task = t)
        /\ pruned # "overwritten" => document.total = usage
Base == IF continued THEN used ELSE 0

\* Every agent was invoked once, and its usage is in one place: the documents of audits
\* that ended, the running audit, or the agent at work.
UsageInv ==
    /\ used <= calls
    /\ root # None => /\ used + stats + Cardinality(Recording) <= calls
                      /\ root.total + stats + Cardinality(Recording) <= calls
    /\ root = None => Recording = {}
    /\ rootFile # None => rootFile.total <= calls
    /\ \A t \in AgentTasks : docs[t] # None \/ running[t] # None \/ late[t] # None => calls > 0

\* What a purge has read is a run document as well; one that began beside no audit is
\* still beside none, unless its mark says so.
PurgeInv ==
    /\ purging # None /\ purging.held # None =>
          /\ purging.held.total <= calls
          /\ \A t \in AgentTasks : purging.held.refs[t] <= 1
    /\ pruned = "no" /\ root # None => purging = None

\* The backfill found all it may read, unless it stopped at its limit.
FiledInv ==
    /\ root # None => ~filed
    /\ filed => /\ rootFile # None
                /\ pruned # "overwritten" /\ added < MaxBackfill =>
                      \A t \in AgentTasks \ Heavy :
                         docs[t] = rootFile.session => rootFile.refs[t] > 0

IndexInv ==
    /\ Index!TypeOK /\ UsageInv /\ PurgeInv /\ FiledInv
    /\ Accurate(rootFile, used) /\ Accurate(root, Base)

LEMMA IndexFacts ==
    ASSUME Index!IndexAssumption
    PROVE  /\ IsFiniteSet(AgentTasks) /\ MaxRuns \in Nat /\ MaxCalls \in Nat /\ MaxBackfill \in Nat
           /\ None \notin 1..MaxRuns /\ None \notin Index!Indexes /\ None \notin Index!Purges
  BY DEF Index!IndexAssumption, Index!IsFiniteSet, IsFiniteSet

LEMMA RecordingFacts ==
    ASSUME Index!IndexAssumption
    PROVE  /\ IsFiniteSet(Recording) /\ Cardinality(Recording) \in Nat
           /\ \A t \in Recording : Cardinality(Recording \ {t}) = Cardinality(Recording) - 1
           /\ \A t \in AgentTasks \ Recording :
                 Cardinality(Recording \cup {t}) = Cardinality(Recording) + 1
<1>1. IsFiniteSet(Recording)
  BY IndexFacts, FS_Subset DEF Recording
<1> QED BY <1>1, FS_CardinalityType, FS_RemoveElement, FS_AddElement

\* What the fields of a run document are.
LEMMA IndexFields ==
    ASSUME NEW document \in Index!Indexes, Index!IndexAssumption
    PROVE  /\ document.session \in 1..MaxRuns /\ document.session # None /\ document # None
           /\ document.total \in 0..MaxCalls /\ document.total \in Nat
           /\ \A t \in AgentTasks : document.refs[t] \in 0..MaxCalls /\ document.refs[t] \in Nat
  BY IndexFacts DEF Index!Indexes

LEMMA IndexTypes ==
    ASSUME Index!IndexAssumption, IndexInv
    PROVE  /\ calls \in Nat /\ calls <= MaxCalls /\ stats \in Nat /\ used \in Nat
           /\ rootFile # None => rootFile \in Index!Indexes
           /\ root # None => root \in Index!Indexes
           /\ purging # None => /\ purging \in Index!Purges /\ purging.task \in AgentTasks
                                /\ purging.held # None => purging.held \in Index!Indexes
  BY IndexFacts DEF IndexInv, Index!TypeOK, Index!Purges

LEMMA MarkedFacts ==
    ASSUME Index!TypeOK, NEW mark \in {"no", "dangling", "overwritten"}
    PROVE  /\ Index!Marked(mark) \in {"no", "dangling", "overwritten"}
           /\ Index!Marked(mark) # "overwritten" => pruned # "overwritten"
           /\ Index!Marked("dangling") # "no"
  BY DEF Index!Marked, Index!TypeOK

LEMMA IndexStarts == Index!IndexAssumption /\ Index!Init => IndexInv
<1> SUFFICES ASSUME Index!IndexAssumption, Index!Init PROVE IndexInv
  OBVIOUS
<1>1. Index!TypeOK
  <2>1. filed \in BOOLEAN /\ continued \in BOOLEAN
    BY Zenon DEF Index!Init
  <2>2. 0 \in 0..MaxRuns /\ 0 \in 0..MaxCalls
    BY IndexFacts
  <2> QED BY <2>1, <2>2 DEF Index!Init, Index!TypeOK
<1>2. UsageInv
  BY IndexFacts DEF Index!Init, UsageInv, Recording
<1>3. PurgeInv /\ FiledInv
  BY DEF Index!Init, PurgeInv, FiledInv
<1> QED BY <1>1, <1>2, <1>3 DEF Index!Init, IndexInv, Accurate

LEMMA BeginStep ==
    ASSUME Index!IndexAssumption, IndexInv, Index!Begin
    PROVE  IndexInv'
<1>1. /\ root = None /\ stats' = 0 /\ filed' = FALSE
      /\ pruned' = IF purging = None THEN pruned ELSE Index!Marked("dangling")
      /\ UNCHANGED <<docs, rootFile, running, late, calls, purging, added, used>>
  BY DEF Index!Begin
<1>2. starts' \in 1..MaxRuns /\ runId' \in 1..MaxRuns
  BY IndexFacts DEF IndexInv, Index!TypeOK, Index!Begin
<1>3. /\ root' \in Index!Indexes /\ root'.total <= calls /\ continued' \in BOOLEAN
      /\ \A t \in AgentTasks : root'.refs[t] <= 1
      /\ pruned' = "no" => \A t \in AgentTasks : root'.refs[t] > 0 => docs[t] # None
      /\ pruned' # "overwritten" => root'.total = Base'
  <2>1. CASE rootFile # None /\ root' = rootFile /\ continued' = TRUE
    <3>1. Base' = used /\ continued' \in BOOLEAN
      BY <1>1, <2>1, Zenon DEF Base
    <3>2. pruned' = "no" => purging = None /\ pruned = "no"
      BY <1>1, MarkedFacts DEF IndexInv
    <3>3. pruned' # "overwritten" => pruned # "overwritten"
      BY <1>1, MarkedFacts DEF IndexInv
    <3> QED BY <2>1, <3>1, <3>2, <3>3, IndexTypes DEF IndexInv, UsageInv, Accurate
  <2>2. CASE /\ root' = [session |-> runId', refs |-> [t \in AgentTasks |-> 0], total |-> 0]
             /\ continued' = FALSE
    <3>1. Base' = 0 /\ continued' \in BOOLEAN
      BY <2>2, Zenon DEF Base
    <3>2. root' \in Index!Indexes
      BY <1>2, <2>2, IndexFacts DEF Index!Indexes
    <3> QED BY <2>2, <3>1, <3>2, IndexTypes
  <2> QED BY <2>1, <2>2 DEF Index!Begin
<1>4. pruned' \in {"no", "dangling", "overwritten"}
      /\ (pruned' # "overwritten" => pruned # "overwritten")
      /\ (pruned' = "no" => pruned = "no" /\ purging = None)
  BY <1>1, MarkedFacts DEF IndexInv, Index!TypeOK
<1>5. Index!TypeOK'
  <2>1. filed' \in BOOLEAN
    BY <1>1, Zenon
  <2> QED BY <1>1, <1>2, <1>3, <1>4, <2>1, IndexFacts DEF IndexInv, Index!TypeOK
<1>6. UsageInv'
  <2>1. Recording = {} /\ Recording' = Recording
    BY <1>1 DEF IndexInv, UsageInv, Recording
  <2>2. Cardinality(Recording') = 0
    BY <2>1, FS_EmptySet
  <2>3. root'.total \in Nat
    BY <1>3, IndexFields
  <2> QED BY <1>1, <1>3, <2>1, <2>2, <2>3, IndexTypes, IndexFacts DEF IndexInv, UsageInv
<1>7. PurgeInv' /\ FiledInv'
  BY <1>1, <1>4 DEF IndexInv, PurgeInv, FiledInv
<1>8. Accurate(rootFile, used)'
  BY <1>1, <1>4 DEF IndexInv, Accurate
<1>9. Accurate(root, Base)'
  BY <1>1, <1>3 DEF Accurate
<1> QED BY <1>5, <1>6, <1>7, <1>8, <1>9 DEF IndexInv

LEMMA InvokeStep ==
    ASSUME Index!IndexAssumption, IndexInv, NEW t \in AgentTasks, Index!Invoke(t)
    PROVE  IndexInv'
<1>1. Index!TypeOK'
  BY IndexFacts DEF IndexInv, Index!TypeOK, Index!Invoke, Index!Indexes
<1>2. /\ UNCHANGED <<root, rootFile, docs, late, used, stats, purging, pruned, filed, added,
                     continued>>
      /\ calls' = calls + 1 /\ root # None
  BY DEF Index!Invoke
<1>3. UsageInv'
  <2>1. running'[t] # None
    BY IndexFacts DEF IndexInv, Index!TypeOK, Index!Invoke, Index!Indexes
  <2>2. t \notin Recording /\ Recording' = Recording \cup {t}
    BY <2>1 DEF IndexInv, Index!TypeOK, Index!Invoke, Recording
  <2>3. Cardinality(Recording') = Cardinality(Recording) + 1 /\ Cardinality(Recording) \in Nat
    BY <2>2, RecordingFacts
  <2>4. /\ root.total \in Nat /\ stats \in Nat /\ used \in Nat /\ calls \in Nat
        /\ rootFile # None => rootFile.total \in Nat
    BY <1>2, IndexTypes, IndexFields
  <2> QED BY <1>2, <2>3, <2>4 DEF IndexInv, UsageInv
<1>4. PurgeInv'
  <2>1. purging # None /\ purging.held # None => purging.held.total \in Nat /\ calls \in Nat
    BY IndexTypes, IndexFields
  <2> QED BY <1>2, <2>1, IndexTypes DEF IndexInv, PurgeInv
<1>5. FiledInv' /\ Accurate(rootFile, used)' /\ Accurate(root, Base)'
  BY <1>2 DEF IndexInv, FiledInv, Accurate, Base
<1> QED BY <1>1, <1>3, <1>4, <1>5 DEF IndexInv

LEMMA AgentEndedStep ==
    ASSUME Index!IndexAssumption, IndexInv, NEW t \in AgentTasks, Index!Ended(t)
    PROVE  IndexInv'
<1>1. /\ root # None /\ root \in Index!Indexes /\ running[t] # None /\ calls > 0 /\ ~filed
      /\ calls <= MaxCalls /\ stats' = stats + 1
      /\ UNCHANGED <<rootFile, late, runId, continued, purging, starts, calls, filed, added,
                     used, pruned>>
  BY DEF IndexInv, Index!TypeOK, UsageInv, FiledInv, Index!Ended
<1>2. Index!Referring(root, t) \in Index!Indexes
  BY <1>1, IndexFacts DEF Index!Referring, Index!HasRef, Index!Indexes, Index!TypeOK, IndexInv
<1>3. root' \in Index!Indexes /\ root' # None
  BY <1>1, <1>2, IndexFacts DEF Index!Ended
<1>4. /\ \A x \in AgentTasks : root'.refs[x] <= 1
      /\ \A x \in AgentTasks : docs[x] # None => docs'[x] # None
      /\ \A x \in AgentTasks : docs'[x] # None => docs[x] # None \/ running[x] # None
      /\ \A x \in AgentTasks : root'.refs[x] > 0 => root.refs[x] > 0 \/ docs'[x] # None
      /\ root'.total = root.total
  BY <1>1 DEF IndexInv, Accurate, Index!TypeOK, Index!Indexes, Index!Ended, Index!Referring,
     Index!HasRef
<1>5. UsageInv' /\ stats' <= MaxCalls
  <2>1. t \in Recording /\ Recording' = Recording \ {t}
    BY <1>1 DEF IndexInv, Index!TypeOK, Index!Ended, Recording
  <2>2. Cardinality(Recording') = Cardinality(Recording) - 1 /\ Cardinality(Recording) \in Nat
        /\ Cardinality(Recording') \in Nat
    BY <2>1, RecordingFacts, FS_CardinalityType, FS_Subset
  <2>3. /\ root.total \in Nat /\ stats \in Nat /\ used \in Nat /\ calls \in Nat
    BY <1>1, IndexTypes, IndexFields
  <2>4. \A x \in AgentTasks : running'[x] # None => running[x] # None
    BY DEF IndexInv, Index!TypeOK, Index!Ended
  <2> QED BY <1>1, <1>3, <1>4, <2>2, <2>3, <2>4, IndexFacts DEF IndexInv, UsageInv
<1>6. Index!TypeOK'
  BY <1>1, <1>3, <1>5, IndexFacts DEF IndexInv, Index!TypeOK, Index!Ended
<1>7. PurgeInv' /\ FiledInv'
  BY <1>1 DEF IndexInv, PurgeInv, FiledInv
<1>8. Accurate(rootFile, used)' /\ Accurate(root, Base)'
  BY <1>1, <1>4 DEF IndexInv, Accurate, Base
<1> QED BY <1>5, <1>6, <1>7, <1>8 DEF IndexInv

LEMMA LateEndedStep ==
    ASSUME Index!IndexAssumption, IndexInv, NEW t \in AgentTasks, Index!LateEnded(t)
    PROVE  IndexInv'
<1>1. /\ late[t] # None /\ late' = [late EXCEPT ![t] = None]
      /\ UNCHANGED <<rootFile, root, running, starts, calls, stats, runId, continued,
                     purging, added, used, pruned>>
  BY DEF Index!LateEnded, Index!own
<1>2. \/ docs' = [docs EXCEPT ![t] = late[t]] /\ filed' = FALSE
      \/ docs' = docs /\ filed' = filed
  BY DEF Index!LateEnded
<1>3. Index!TypeOK'
  <2>1. filed' \in BOOLEAN
    BY <1>2, Zenon DEF IndexInv, Index!TypeOK
  <2>2. docs' \in [AgentTasks -> 1..MaxRuns \cup {None}]
    BY <1>1, <1>2 DEF IndexInv, Index!TypeOK
  <2>3. late' \in [AgentTasks -> 1..MaxRuns \cup {None}]
    BY <1>1 DEF IndexInv, Index!TypeOK
  <2> QED BY <1>1, <2>1, <2>2, <2>3 DEF IndexInv, Index!TypeOK
<1>4. UsageInv'
  BY <1>1 DEF IndexInv, Index!TypeOK, UsageInv, Recording
<1>5. PurgeInv' /\ FiledInv'
  BY <1>1, <1>2 DEF IndexInv, PurgeInv, FiledInv
<1>6. \A x \in AgentTasks : docs[x] # None => docs'[x] # None
  BY <1>1, <1>2 DEF IndexInv, Index!TypeOK
<1>7. Accurate(rootFile, used)' /\ Accurate(root, Base)'
  BY <1>1, <1>6 DEF IndexInv, Accurate, Base
<1> QED BY <1>3, <1>4, <1>5, <1>7 DEF IndexInv

\* The run document the audit writes.
LEMMA PublishedFacts ==
    ASSUME Index!IndexAssumption, IndexInv, root # None,
           NEW found \in SUBSET Index!Missing(root), Index!Published(found)
    PROVE  /\ rootFile' \in Index!Indexes /\ rootFile'.session = root.session
           /\ rootFile'.total = root.total + stats
           /\ \A t \in AgentTasks : /\ rootFile'.refs[t] <= 1
                                    /\ root.refs[t] > 0 \/ t \in found => rootFile'.refs[t] > 0
                                    /\ rootFile'.refs[t] > 0 => root.refs[t] > 0 \/ docs[t] # None
           /\ used' = Base + stats /\ used' \in 0..MaxCalls
           /\ filed' = TRUE /\ added' = Cardinality(found) /\ added' \in Nat
<1> DEFINE refs == [t \in AgentTasks |-> root.refs[t] + IF t \in found THEN 1 ELSE 0]
<1>1. /\ root \in Index!Indexes /\ root.total + stats <= MaxCalls /\ Base + stats \in 0..MaxCalls
      /\ root.total \in Nat /\ stats \in Nat
  <2>1. Cardinality(Recording) \in Nat
    BY RecordingFacts
  <2>2. root \in Index!Indexes /\ root.total \in Nat /\ stats \in Nat /\ used \in Nat
        /\ calls \in Nat /\ calls <= MaxCalls /\ MaxCalls \in Nat
    BY IndexTypes, IndexFields, IndexFacts
  <2> QED BY <2>1, <2>2 DEF IndexInv, UsageInv, Base
<1>2. rootFile' = [session |-> root.session, refs |-> refs, total |-> root.total + stats]
  BY <1>1 DEF Index!Published, Index!Totalled, Index!Indexes
<1>3. \A t \in found : t \in AgentTasks /\ docs[t] = root.session /\ ~(root.refs[t] > 0)
  BY DEF Index!Missing, Index!HasRef
<1>4. \A t \in AgentTasks : /\ refs[t] \in 0..1 /\ refs[t] \in 0..MaxCalls
                            /\ root.refs[t] > 0 \/ t \in found => refs[t] > 0
                            /\ refs[t] > 0 => root.refs[t] > 0 \/ docs[t] # None
  <2> TAKE t \in AgentTasks
  <2>1. /\ root.session # None /\ root.refs[t] \in 0..MaxCalls /\ root.refs[t] <= 1
        /\ root.refs[t] \in Nat
    BY <1>1, IndexFields DEF IndexInv, Accurate
  <2>2. docs[t] # None => MaxCalls > 0
    BY IndexTypes, IndexFacts DEF IndexInv, UsageInv
  <2>3. refs[t] = root.refs[t] + IF t \in found THEN 1 ELSE 0
    OBVIOUS
  <2> HIDE DEF refs
  <2>4. CASE t \in found
    <3>1. root.refs[t] = 0 /\ docs[t] # None /\ refs[t] = 1
      BY <1>3, <2>1, <2>3, <2>4
    <3> QED BY <2>2, <2>4, <3>1, IndexFacts
  <2>5. CASE t \notin found
    <3>1. refs[t] = root.refs[t]
      BY <2>1, <2>3, <2>5
    <3> QED BY <2>1, <2>5, <3>1
  <2> QED BY <2>4, <2>5
<1>5. refs \in [AgentTasks -> 0..MaxCalls]
  BY <1>4
<1> HIDE DEF refs
<1>6. /\ rootFile' \in Index!Indexes /\ rootFile'.session = root.session
      /\ rootFile'.refs = refs /\ rootFile'.total = root.total + stats
  <2>1. root.session \in 1..MaxRuns /\ root.total + stats \in 0..MaxCalls
    BY <1>1, IndexFields, IndexFacts
  <2> QED BY <1>2, <1>5, <2>1 DEF Index!Indexes
<1>7. Cardinality(found) \in Nat
  <2>1. found \subseteq AgentTasks
    BY <1>3
  <2>2. IsFiniteSet(found)
    BY <2>1, IndexFacts, FS_Subset
  <2> QED BY <2>2, FS_CardinalityType
<1>8. /\ used' = Base + stats /\ added' = Cardinality(found)
      /\ filed' = TRUE
  BY DEF Index!Published, Base, Index!Cardinality, Cardinality
<1> QED BY <1>1, <1>4, <1>6, <1>7, <1>8

LEMMA FinishStep ==
    ASSUME Index!IndexAssumption, IndexInv, Index!Finish
    PROVE  IndexInv'
<1>1. /\ root # None /\ root' = None /\ running' = [t \in AgentTasks |-> None]
      /\ late' = [t \in AgentTasks |-> IF running[t] # None THEN running[t] ELSE late[t]]
      /\ UNCHANGED <<docs, starts, calls, stats, runId, continued, purging, pruned>>
  BY DEF Index!Finish, Index!own
<1>2. /\ running' \in [AgentTasks -> 1..MaxRuns \cup {None}]
      /\ late' \in [AgentTasks -> 1..MaxRuns \cup {None}]
      /\ Recording' = {}
      /\ \A t \in AgentTasks : late'[t] # None => running[t] # None \/ late[t] # None
  BY <1>1 DEF IndexInv, Index!TypeOK, Recording
<1>3. PurgeInv'
  BY <1>1 DEF IndexInv, PurgeInv
<1>4. CASE UNCHANGED <<rootFile, filed, added, used>>
  <2>1. Index!TypeOK'
    BY <1>1, <1>2, <1>4 DEF IndexInv, Index!TypeOK
  <2>2. UsageInv'
    BY <1>1, <1>2, <1>4 DEF IndexInv, UsageInv
  <2>3. FiledInv' /\ Accurate(rootFile, used)' /\ Accurate(root, Base)'
    BY <1>1, <1>4 DEF IndexInv, FiledInv, Accurate
  <2> QED BY <1>3, <2>1, <2>2, <2>3 DEF IndexInv
<1>5. ASSUME NEW found \in SUBSET Index!Missing(root),
             \/ found = Index!Missing(root) /\ Index!Cardinality(found) <= MaxBackfill
             \/ Index!Cardinality(found) = MaxBackfill,
             Index!Published(found)
      PROVE  IndexInv'
  <2>1. /\ rootFile' \in Index!Indexes /\ rootFile'.session = root.session
        /\ rootFile'.total = root.total + stats
        /\ \A t \in AgentTasks : /\ rootFile'.refs[t] <= 1
                                 /\ root.refs[t] > 0 \/ t \in found => rootFile'.refs[t] > 0
                                 /\ rootFile'.refs[t] > 0 => root.refs[t] > 0 \/ docs[t] # None
        /\ used' = Base + stats /\ used' \in 0..MaxCalls
        /\ filed' = TRUE /\ added' = Cardinality(found) /\ added' \in Nat
    BY <1>1, <1>5, PublishedFacts
  <2>2. Index!TypeOK'
    <3>1. filed' \in BOOLEAN
      BY <2>1, Zenon
    <3> QED BY <1>1, <1>2, <2>1, <3>1 DEF IndexInv, Index!TypeOK
  <2>3. UsageInv'
    <3>1. /\ root.total + stats <= calls /\ used + stats <= calls /\ stats <= calls
      <4>1. Cardinality(Recording) \in Nat
        BY RecordingFacts
      <4>2. root.total \in Nat /\ stats \in Nat /\ used \in Nat /\ calls \in Nat
        BY <1>1, IndexTypes, IndexFields
      <4> QED BY <1>1, <4>1, <4>2 DEF IndexInv, UsageInv
    <3>2. used' <= calls
      BY <2>1, <3>1, IndexTypes DEF Base
    <3> QED BY <1>1, <1>2, <2>1, <3>1, <3>2 DEF IndexInv, UsageInv
  <2>4. FiledInv'
    <3>1. rootFile' # None
      BY <2>1, IndexFacts
    <3>2. ASSUME added' < MaxBackfill, NEW t \in AgentTasks \ Heavy, docs[t] = root.session
          PROVE  rootFile'.refs[t] > 0
      <4>1. found = Index!Missing(root)
        BY <1>5, <2>1, <3>2, IndexFacts DEF Index!Cardinality, Cardinality
      <4>2. root.refs[t] > 0 \/ t \in found
        BY <3>2, <4>1 DEF Index!Missing, Index!HasRef
      <4> QED BY <2>1, <4>2
    <3> QED BY <1>1, <2>1, <3>1, <3>2 DEF FiledInv
  <2>5. Accurate(rootFile, used)'
    <3>1. pruned # "overwritten" => rootFile'.total = used'
      BY <1>1, <2>1 DEF IndexInv, Accurate
    <3>2. ASSUME pruned = "no", NEW t \in AgentTasks, rootFile'.refs[t] > 0 PROVE docs[t] # None
      <4>1. purging = None
        BY <1>1, <3>2 DEF IndexInv, PurgeInv
      <4> QED BY <1>1, <2>1, <3>2, <4>1 DEF IndexInv, Accurate
    <3> QED BY <1>1, <2>1, <3>1, <3>2 DEF Accurate
  <2>6. Accurate(root, Base)'
    BY <1>1 DEF Accurate
  <2> QED BY <1>3, <2>2, <2>3, <2>4, <2>5, <2>6 DEF IndexInv
<1> QED BY <1>4, <1>5 DEF Index!Finish

LEMMA IndexCrashStep ==
    ASSUME Index!IndexAssumption, IndexInv, Index!Crash
    PROVE  IndexInv'
<1>1. /\ root' = None /\ stats' = 0 /\ purging' = None
      /\ running' = [t \in AgentTasks |-> None] /\ late' = running'
      /\ pruned' = IF purging = None THEN pruned ELSE Index!Marked("dangling")
      /\ UNCHANGED <<docs, rootFile, runId, continued, starts, calls, filed, added, used>>
      /\ root # None \/ purging # None
  BY DEF Index!Crash
<1>2. pruned' \in {"no", "dangling", "overwritten"}
      /\ (pruned' # "overwritten" => pruned # "overwritten")
      /\ (pruned' = "no" => pruned = "no" /\ purging = None)
  BY <1>1, MarkedFacts DEF IndexInv, Index!TypeOK
<1>3. Index!TypeOK'
  BY <1>1, <1>2, IndexFacts DEF IndexInv, Index!TypeOK
<1>4. UsageInv'
  BY <1>1 DEF IndexInv, Index!TypeOK, UsageInv, Recording
<1>5. PurgeInv' /\ FiledInv'
  BY <1>1, <1>2 DEF IndexInv, PurgeInv, FiledInv
<1>6. Accurate(rootFile, used)' /\ Accurate(root, Base)'
  BY <1>1, <1>2 DEF IndexInv, Accurate
<1> QED BY <1>3, <1>4, <1>5, <1>6 DEF IndexInv

LEMMA PurgeStep ==
    ASSUME Index!IndexAssumption, IndexInv, NEW t \in AgentTasks, Index!Purge(t)
    PROVE  IndexInv'
<1>1. /\ purging = None /\ docs[t] # None /\ docs' = [docs EXCEPT ![t] = None]
      /\ purging' = [task |-> t, held |-> None]
      /\ pruned' = IF root = None THEN pruned ELSE Index!Marked("dangling")
      /\ UNCHANGED <<rootFile, root, running, late, starts, calls, stats, runId, continued,
                     filed, added, used>>
  BY DEF Index!Purge, Index!own
<1>2. pruned' \in {"no", "dangling", "overwritten"}
      /\ (pruned' # "overwritten" => pruned # "overwritten")
      /\ (pruned' = "no" => pruned = "no" /\ root = None)
  BY <1>1, MarkedFacts DEF IndexInv, Index!TypeOK
<1>3. purging' \in Index!Purges /\ purging' # None /\ purging'.task = t /\ purging'.held = None
  BY <1>1, IndexFacts DEF Index!Purges
<1>4. /\ \A x \in AgentTasks \ {t} : docs'[x] = docs[x]
      /\ docs'[t] = None /\ docs' \in [AgentTasks -> 1..MaxRuns \cup {None}]
  BY <1>1 DEF IndexInv, Index!TypeOK
<1>5. Index!TypeOK'
  BY <1>1, <1>2, <1>3, <1>4 DEF IndexInv, Index!TypeOK
<1>6. UsageInv'
  BY <1>1, <1>4 DEF IndexInv, UsageInv, Recording
<1>7. PurgeInv'
  BY <1>1, <1>2, <1>3 DEF PurgeInv
<1>8. FiledInv'
  <2>1. rootFile # None => rootFile.session # None
    BY IndexTypes, IndexFields
  <2> QED BY <1>1, <1>2, <1>4, <2>1 DEF IndexInv, FiledInv
<1>9. Accurate(rootFile, used)' /\ Accurate(root, Base)'
  BY <1>1, <1>2, <1>3, <1>4 DEF IndexInv, Accurate, Base
<1> QED BY <1>5, <1>6, <1>7, <1>8, <1>9 DEF IndexInv

LEMMA PruneReadsStep ==
    ASSUME Index!IndexAssumption, IndexInv, Index!PruneReads
    PROVE  IndexInv'
<1>1. /\ purging # None /\ purging.held = None
      /\ UNCHANGED <<docs, rootFile, root, running, late, starts, calls, stats, runId,
                     continued, filed, added, used, pruned>>
  BY DEF Index!PruneReads, Index!own
<1>2. purging \in Index!Purges /\ purging.task \in AgentTasks
  BY <1>1, IndexTypes
<1>3. UsageInv' /\ FiledInv'
  BY <1>1 DEF IndexInv, UsageInv, FiledInv, Recording
<1>4. CASE rootFile # None /\ Index!HasRef(rootFile, purging.task)
  <2>1. purging' = [purging EXCEPT !.held = rootFile] /\ rootFile \in Index!Indexes
    BY <1>4, IndexTypes DEF Index!PruneReads
  <2>2. /\ purging' \in Index!Purges /\ purging'.task = purging.task
        /\ purging'.held = rootFile /\ purging' # None
    BY <1>2, <2>1, IndexFacts DEF Index!Purges
  <2>3. Index!TypeOK'
    BY <1>1, <2>2 DEF IndexInv, Index!TypeOK
  <2>4. PurgeInv'
    BY <1>1, <1>4, <2>2 DEF IndexInv, PurgeInv, UsageInv, Accurate
  <2>5. Accurate(rootFile, used)' /\ Accurate(root, Base)'
    BY <1>1, <2>2 DEF IndexInv, Accurate, Base
  <2> QED BY <1>3, <2>3, <2>4, <2>5 DEF IndexInv
<1>5. CASE ~(rootFile # None /\ Index!HasRef(rootFile, purging.task))
  <2>1. purging' = None
    BY <1>5 DEF Index!PruneReads
  <2>2. Index!TypeOK' /\ PurgeInv'
    BY <1>1, <2>1 DEF IndexInv, Index!TypeOK, PurgeInv
  <2>3. rootFile # None => ~(rootFile.refs[purging.task] > 0)
    BY <1>5 DEF Index!HasRef
  <2>4. root # None => pruned # "no"
    BY <1>1 DEF IndexInv, PurgeInv
  <2>5. Accurate(rootFile, used)' /\ Accurate(root, Base)'
    BY <1>1, <2>1, <2>3, <2>4 DEF IndexInv, Accurate, Base
  <2> QED BY <1>3, <2>2, <2>5 DEF IndexInv
<1> QED BY <1>4, <1>5

LEMMA PruneWritesStep ==
    ASSUME Index!IndexAssumption, IndexInv, Index!PruneWrites
    PROVE  IndexInv'
<1> DEFINE t == purging.task
<1>1. /\ purging # None /\ purging.held # None /\ purging' = None
      /\ rootFile' = [purging.held EXCEPT !.refs[t] = 0]
      /\ pruned' = IF rootFile = purging.held /\ docs[t] = None THEN pruned ELSE "overwritten"
      /\ UNCHANGED <<docs, root, running, late, starts, calls, stats, runId, continued, filed,
                     added, used>>
  BY DEF Index!PruneWrites, Index!own
<1>2. t \in AgentTasks /\ purging.held \in Index!Indexes
  BY <1>1, IndexTypes
<1> HIDE DEF t
<1>3. /\ rootFile' \in Index!Indexes /\ rootFile' # None
      /\ rootFile'.session = purging.held.session /\ rootFile'.total = purging.held.total
      /\ rootFile'.refs[t] = 0
      /\ \A x \in AgentTasks \ {t} : rootFile'.refs[x] = purging.held.refs[x]
  BY <1>1, <1>2, IndexFacts DEF Index!Indexes
<1>4. /\ purging.held.total <= calls /\ \A x \in AgentTasks : purging.held.refs[x] <= 1
      /\ root # None => pruned # "no"
  BY <1>1 DEF IndexInv, PurgeInv
<1>5. \A x \in AgentTasks : rootFile'.refs[x] <= 1
  BY <1>3, <1>4
<1>6. Index!TypeOK' /\ PurgeInv'
  BY <1>1, <1>3 DEF IndexInv, Index!TypeOK, PurgeInv
<1>7. UsageInv'
  BY <1>1, <1>3, <1>4 DEF IndexInv, UsageInv, Recording
<1>8. CASE rootFile = purging.held /\ docs[t] = None
  <2>1. pruned' = pruned /\ rootFile # None
    BY <1>1, <1>8
  <2>2. rootFile'.session # None
    BY <1>3, IndexFields
  <2>3. FiledInv'
    BY <1>1, <1>3, <1>8, <2>1, <2>2 DEF IndexInv, FiledInv
  <2>4. Accurate(rootFile, used)'
    <3>1. ASSUME pruned = "no", NEW x \in AgentTasks, rootFile'.refs[x] > 0 PROVE docs[x] # None
      <4>1. x # t
        BY <1>3, <3>1
      <4> QED BY <1>3, <1>8, <2>1, <3>1, <4>1 DEF IndexInv, Accurate, t
    <3> QED BY <1>1, <1>3, <1>5, <1>8, <2>1, <3>1 DEF IndexInv, Accurate
  <2>5. Accurate(root, Base)'
    BY <1>1, <1>4, <2>1 DEF IndexInv, Accurate, Base
  <2> QED BY <1>6, <1>7, <2>3, <2>4, <2>5 DEF IndexInv
<1>9. CASE ~(rootFile = purging.held /\ docs[t] = None)
  <2>1. pruned' = "overwritten"
    BY <1>1, <1>9
  <2>2. FiledInv' /\ Accurate(rootFile, used)' /\ Accurate(root, Base)'
    BY <1>1, <1>3, <1>5, <2>1 DEF IndexInv, FiledInv, Accurate
  <2> QED BY <1>6, <1>7, <2>2 DEF IndexInv
<1> QED BY <1>8, <1>9

LEMMA PruneFailsStep ==
    ASSUME Index!IndexAssumption, IndexInv, Index!PruneFails
    PROVE  IndexInv'
<1>1. /\ purging' = None /\ pruned' = Index!Marked("dangling")
      /\ UNCHANGED <<docs, rootFile, root, running, late, starts, calls, stats, runId,
                     continued, filed, added, used>>
  BY DEF Index!PruneFails, Index!own
<1>2. pruned' \in {"no", "dangling", "overwritten"} /\ pruned' # "no"
      /\ (pruned' # "overwritten" => pruned # "overwritten")
  BY <1>1, MarkedFacts DEF IndexInv
<1>3. Index!TypeOK'
  BY <1>1, <1>2 DEF IndexInv, Index!TypeOK
<1>4. UsageInv' /\ PurgeInv' /\ FiledInv'
  BY <1>1, <1>2 DEF IndexInv, UsageInv, PurgeInv, FiledInv, Recording
<1>5. Accurate(rootFile, used)' /\ Accurate(root, Base)'
  BY <1>1, <1>2 DEF IndexInv, Accurate, Base
<1> QED BY <1>3, <1>4, <1>5 DEF IndexInv

LEMMA IndexStep ==
    ASSUME Index!IndexAssumption, IndexInv, [Index!Next]_Index!vars
    PROVE  IndexInv'
<1>1. CASE UNCHANGED Index!vars
  BY <1>1 DEF IndexInv, Index!TypeOK, UsageInv, PurgeInv, FiledInv, Accurate, Base, Recording,
     Index!vars, Index!own
<1>2. CASE Index!Next
  BY <1>2, BeginStep, InvokeStep, AgentEndedStep, LateEndedStep, FinishStep, IndexCrashStep,
     PurgeStep, PruneReadsStep, PruneWritesStep, PruneFailsStep DEF Index!Next
<1> QED BY <1>1, <1>2

LEMMA IndexComplete == Index!IndexAssumption /\ IndexInv => Index!IndexIsComplete
  BY IndexFacts DEF IndexInv, FiledInv, Accurate, Index!IndexIsComplete, Index!HasRef

-----------------------------------------------------------------------------
(* TrajectoryDocument: what Total computes.  A recursive function is defined where its    *)
(* recursion can be carried on to the end, which is shown by the least number at which it *)
(* could not.                                                                             *)

LEMMA LeastNumber ==
    ASSUME NEW T \in SUBSET Nat, T # {}
    PROVE  \E x \in T : \A y \in T : x <= y
<1> DEFINE Below == {ss \in Nat \X Nat : ss[1] < ss[2]}
<1>1. IsWellFoundedOn(Below, Nat)
  BY NatLessThanWellFounded, Zenon DEF OpToRel
<1>2. PICK x \in T : \A y \in T : <<y, x>> \notin Below
  <2> HIDE DEF Below
  <2> QED BY <1>1, WFMin, Zenon
<1>3. \A y \in T : ~(y < x)
  BY <1>2
<1> QED BY <1>3

StepTypes == [source : {"user", "system", "agent", "tool"}, calls : SUBSET Calls,
              results : SUBSET Calls, orphans : {0, 1}, metrics : Nat \cup {-1}]

\* The sums of the charges of the first steps, up to n of them.
Sums(s, n, upTo) ==
    /\ upTo \in [0..n -> Nat] /\ upTo[0] = 0
    /\ \A i \in 1..n : upTo[i] = upTo[i - 1] + Document!Charge(s[i])

LEMMA ChargeType == \A x \in StepTypes : Document!Charge(x) \in Nat
  BY DEF StepTypes, Document!Charge

LEMMA SumsExist ==
    ASSUME NEW s \in Seq(StepTypes), NEW n \in 0..Len(s)
    PROVE  \E upTo : Sums(s, n, upTo)
<1> DEFINE Failing == {m \in 0..Len(s) : ~ \E upTo : Sums(s, m, upTo)}
<1>1. ASSUME Failing # {} PROVE FALSE
  <2> HIDE DEF Failing
  <2>1. Failing \in SUBSET Nat
    BY DEF Failing
  <2>2. PICK m \in Failing : \A y \in Failing : m <= y
    BY <1>1, <2>1, LeastNumber
  <2>3. m \in 0..Len(s) /\ Len(s) \in Nat /\ ~ \E upTo : Sums(s, m, upTo)
    BY <2>2 DEF Failing
  <2>4. m # 0
    <3>1. Sums(s, 0, [i \in 0..0 |-> 0])
      BY DEF Sums
    <3> QED BY <2>3, <3>1
  <2>5. m - 1 \in 0..Len(s) /\ m - 1 \notin Failing /\ m \in 1..Len(s)
    BY <2>2, <2>3, <2>4
  <2>6. PICK upTo : Sums(s, m - 1, upTo)
    BY <2>5 DEF Failing
  <2>7. Document!Charge(s[m]) \in Nat
    BY <2>5, ChargeType
  <2> DEFINE longer == [i \in 0..m |-> IF i < m THEN upTo[i]
                                      ELSE upTo[m - 1] + Document!Charge(s[m])]
  <2>8. upTo[m - 1] \in Nat /\ \A i \in 0..m : i < m => upTo[i] \in Nat
    BY <2>5, <2>6 DEF Sums
  <2>9. longer \in [0..m -> Nat] /\ longer[0] = 0
    BY <2>5, <2>6, <2>7, <2>8 DEF Sums
  <2>10. \A i \in 1..m : longer[i] = longer[i - 1] + Document!Charge(s[i])
    BY <2>5, <2>6 DEF Sums
  <2> QED BY <2>3, <2>9, <2>10 DEF Sums
<1> QED BY <1>1

LEMMA SumsAgree ==
    ASSUME NEW s \in Seq(StepTypes), NEW n \in 0..Len(s), NEW f, NEW g,
           Sums(s, n, f), Sums(s, n, g)
    PROVE  \A i \in 0..n : f[i] = g[i]
<1> DEFINE Differing == {i \in 0..n : f[i] # g[i]}
<1>1. ASSUME Differing # {} PROVE FALSE
  <2> HIDE DEF Differing
  <2>1. Differing \in SUBSET Nat
    BY DEF Differing
  <2>2. PICK m \in Differing : \A y \in Differing : m <= y
    BY <1>1, <2>1, LeastNumber
  <2>3. m \in 0..n /\ n \in Nat /\ f[m] # g[m]
    BY <2>2 DEF Differing
  <2>4. m \in 1..n
    BY <2>3 DEF Sums
  <2>5. m - 1 \notin Differing
    BY <2>2, <2>4
  <2>6. f[m - 1] = g[m - 1]
    BY <2>4, <2>5 DEF Differing
  <2> QED BY <2>3, <2>4, <2>6 DEF Sums
<1> QED BY <1>1

\* What the recursion of Total comes to is what any such function comes to.
LEMMA TotalIsSum ==
    ASSUME NEW s \in Seq(StepTypes)
    PROVE  /\ Document!Total(s) \in Nat
           /\ \A g : Sums(s, Len(s), g) => Document!Total(s) = g[Len(s)]
<1> DEFINE Recurs(h) == h = [i \in 0..Len(s) |-> IF i = 0 THEN 0
                                                ELSE h[i - 1] + Document!Charge(s[i])]
           total == CHOOSE h : Recurs(h)
<1>1. PICK f : Sums(s, Len(s), f)
  BY SumsExist
<1>2. Recurs(f)
  BY <1>1 DEF Sums
<1>3. Recurs(total)
  <2> HIDE DEF Recurs
  <2> QED BY <1>2, Zenon
<1>4. Document!Total(s) = total[Len(s)]
  BY Zenon DEF Document!Total
<1> HIDE DEF total
<1>5. \A i \in 0..Len(s) : total[i] = f[i]
  <2> DEFINE Differing == {i \in 0..Len(s) : total[i] # f[i]}
  <2>1. ASSUME Differing # {} PROVE FALSE
    <3> HIDE DEF Differing
    <3>1. Differing \in SUBSET Nat
      BY DEF Differing
    <3>2. PICK m \in Differing : \A y \in Differing : m <= y
      BY <2>1, <3>1, LeastNumber
    <3>3. m \in 0..Len(s) /\ total[m] # f[m]
      BY <3>2 DEF Differing
    <3>4. m \in 1..Len(s)
      BY <3>3, <1>1, <1>3 DEF Sums
    <3>5. total[m - 1] = f[m - 1]
      BY <3>2, <3>4 DEF Differing
    <3> QED BY <1>1, <1>3, <3>3, <3>4, <3>5 DEF Sums
  <2> QED BY <2>1
<1>6. Document!Total(s) = f[Len(s)]
  BY <1>4, <1>5
<1>7. Len(s) \in 0..Len(s) /\ f[Len(s)] \in Nat
  BY <1>1 DEF Sums
<1>8. ASSUME NEW g, Sums(s, Len(s), g) PROVE Document!Total(s) = g[Len(s)]
  <2>1. \A i \in 0..Len(s) : f[i] = g[i]
    BY <1>1, <1>7, <1>8, SumsAgree
  <2> QED BY <1>6, <1>7, <2>1
<1> QED BY <1>6, <1>7, <1>8

LEMMA TotalEmpty == Document!Total(<<>>) = 0
<1>1. Sums(<<>>, 0, [i \in 0..0 |-> 0])
  BY DEF Sums
<1> QED BY <1>1, TotalIsSum

\* A step that is added adds its charge.
LEMMA TotalAppend ==
    ASSUME NEW s \in Seq(StepTypes), NEW x \in StepTypes
    PROVE  Document!Total(Append(s, x)) = Document!Total(s) + Document!Charge(x)
<1>1. PICK f : Sums(s, Len(s), f)
  BY SumsExist
<1> DEFINE n == Len(s)
           g == [i \in 0..(n + 1) |-> IF i <= n THEN f[i] ELSE f[n] + Document!Charge(x)]
<1>2. /\ Append(s, x) \in Seq(StepTypes) /\ Len(Append(s, x)) = n + 1 /\ n \in Nat
      /\ Append(s, x)[n + 1] = x /\ \A i \in 1..n : Append(s, x)[i] = s[i]
  OBVIOUS
<1>3. Sums(Append(s, x), n + 1, g)
  <2>1. /\ Document!Charge(x) \in Nat /\ f[0] = 0
        /\ \A i \in 0..(n + 1) : i <= n => f[i] \in Nat
        /\ f[n] \in Nat
    BY <1>1, <1>2, ChargeType, SMTT(30) DEF Sums
  <2>2. g \in [0..(n + 1) -> Nat] /\ g[0] = 0
    BY <1>2, <2>1
  <2>3. \A i \in 1..(n + 1) : g[i] = g[i - 1] + Document!Charge(Append(s, x)[i])
    BY <1>1, <1>2 DEF Sums
  <2> QED BY <2>2, <2>3 DEF Sums
<1>4. Document!Total(Append(s, x)) = g[n + 1] /\ Document!Total(s) = f[n]
  BY <1>1, <1>2, <1>3, TotalIsSum
<1> QED BY <1>2, <1>4

\* A step that is changed changes it by the difference.
LEMMA TotalReplace ==
    ASSUME NEW s \in Seq(StepTypes), NEW t \in Seq(StepTypes), Len(t) = Len(s),
           NEW k \in 1..Len(s), \A i \in 1..Len(s) : i # k => t[i] = s[i]
    PROVE  /\ Document!Total(t) + Document!Charge(s[k])
                 = Document!Total(s) + Document!Charge(t[k])
<1>1. PICK f : Sums(s, Len(s), f)
  BY SumsExist
<1>2. PICK g : Sums(t, Len(s), g)
  BY SumsExist
<1> DEFINE Wrong == {i \in 0..Len(s) :
                       g[i] + (IF i < k THEN 0 ELSE Document!Charge(s[k]))
                          # f[i] + (IF i < k THEN 0 ELSE Document!Charge(t[k]))}
<1>3. Document!Charge(s[k]) \in Nat /\ Document!Charge(t[k]) \in Nat
  BY ChargeType
<1>4. ASSUME Wrong # {} PROVE FALSE
  <2>1. Wrong \in SUBSET Nat
    OBVIOUS
  <2>2. PICK m \in Wrong : \A y \in Wrong : m <= y
    <3> HIDE DEF Wrong
    <3> QED BY <1>4, <2>1, LeastNumber
  <2>3. m \in 1..Len(s) /\ m - 1 \in 0..Len(s) /\ m - 1 \notin Wrong
    BY <1>1, <1>2, <2>2 DEF Sums
  <2>4. /\ f[m] = f[m - 1] + Document!Charge(s[m]) /\ g[m] = g[m - 1] + Document!Charge(t[m])
        /\ f[m - 1] \in Nat /\ g[m - 1] \in Nat
    BY <1>1, <1>2, <2>3 DEF Sums
  <2>5. Document!Charge(s[m]) \in Nat /\ Document!Charge(t[m]) \in Nat
    BY <2>3, ChargeType, SMTT(30)
  <2>6. /\ g[m] + (IF m < k THEN 0 ELSE Document!Charge(s[k]))
            # f[m] + (IF m < k THEN 0 ELSE Document!Charge(t[k]))
        /\ g[m - 1] + (IF m - 1 < k THEN 0 ELSE Document!Charge(s[k]))
            = f[m - 1] + (IF m - 1 < k THEN 0 ELSE Document!Charge(t[k]))
    BY <2>2, <2>3
  <2> HIDE DEF Wrong
  <2>7. CASE m = k
    BY <1>3, <2>3, <2>4, <2>7, <2>5, <2>6
  <2>8. CASE m # k
    <3>1. t[m] = s[m] /\ (m < k <=> m - 1 < k)
      BY <2>3, <2>8
    <3>2. g[m] = g[m - 1] + Document!Charge(s[m])
      BY <2>4, <3>1
    <3>3. CASE m < k
      BY <2>4, <2>5, <2>6, <3>1, <3>2, <3>3
    <3>4. CASE ~(m < k)
      <4> DEFINE cs == Document!Charge(s[k])  ct == Document!Charge(t[k])
                 c == Document!Charge(s[m])
      <4>1. /\ g[m] + cs # f[m] + ct /\ g[m - 1] + cs = f[m - 1] + ct
            /\ f[m] = f[m - 1] + c /\ g[m] = g[m - 1] + c
        BY <2>4, <2>6, <3>1, <3>2, <3>4
      <4>2. cs \in Nat /\ ct \in Nat /\ c \in Nat /\ f[m - 1] \in Nat /\ g[m - 1] \in Nat
        BY <1>3, <2>4, <2>5
      <4> DEFINE f0 == f[m - 1]  f1 == f[m]  g0 == g[m - 1]  g1 == g[m]
      <4>3. /\ g1 + cs # f1 + ct /\ g0 + cs = f0 + ct /\ f1 = f0 + c /\ g1 = g0 + c
            /\ f0 \in Nat /\ g0 \in Nat
        BY <4>1, <4>2
      <4> HIDE DEF cs, ct, c, f0, f1, g0, g1
      <4> QED BY <4>2, <4>3
    <3> QED BY <3>3, <3>4
  <2> QED BY <2>7, <2>8
<1>5. Len(s) \notin Wrong
  BY <1>4
<1>6. Document!Total(s) = f[Len(s)] /\ Document!Total(t) = g[Len(s)]
  BY <1>1, <1>2, TotalIsSum
<1> QED BY <1>5, <1>6

-----------------------------------------------------------------------------
(* TrajectoryDocument: steps and documents *)

Doc == Document!Documents

LEMMA DocIs ==
    Doc = [steps : Seq(StepTypes), reported : Nat, early : BOOLEAN, late : BOOLEAN]
  BY DEF Doc, Document!Documents, StepTypes

\* What validate_trajectory asks of a step.
Sound(x) ==
    /\ x.metrics # -1 => x.source = "agent"
    /\ x.calls # {} => x.source \in {"agent", "tool"}
    /\ x.results \subseteq x.calls

LEMMA ValidIs ==
    ASSUME NEW s \in Seq(StepTypes)
    PROVE  Document!Valid(s) <=> s # <<>> /\ \A i \in 1..Len(s) : Sound(s[i])
  BY DEF Document!Valid, Sound

\* A fresh step of one of the sources, declaring some calls.
LEMMA FreshStep ==
    ASSUME NEW source \in {"user", "system", "agent", "tool"}, NEW called \in SUBSET Calls,
           called # {} => source \in {"agent", "tool"}
    PROVE  LET x == Document!Step(source, called) IN
           /\ x \in StepTypes /\ Sound(x) /\ Document!Charge(x) = 0
           /\ x.source = source /\ x.calls = called /\ x.metrics = -1
  BY DEF Document!Step, StepTypes, Sound, Document!Charge

LEMMA AppendedFacts ==
    ASSUME NEW d \in Doc, NEW x \in StepTypes
    PROVE  LET e == Document!Appended(d, x) IN
           /\ e \in Doc /\ e.steps = Append(d.steps, x) /\ Len(e.steps) = Len(d.steps) + 1
           /\ e.reported = d.reported /\ e.early = d.early /\ e.late = d.late
           /\ \A i \in 1..Len(d.steps) : e.steps[i] = d.steps[i]
           /\ e.steps[Len(d.steps) + 1] = x
           /\ Document!Total(e.steps) = Document!Total(d.steps) + Document!Charge(x)
           /\ Document!Total(d.steps) \in Nat
           /\ (d.steps = <<>> \/ Document!Valid(d.steps)) /\ Sound(x) => Document!Valid(e.steps)
<1> DEFINE e == Document!Appended(d, x)
<1>1. /\ e \in Doc /\ e.steps = Append(d.steps, x) /\ d.steps \in Seq(StepTypes)
      /\ e.reported = d.reported /\ e.early = d.early /\ e.late = d.late
  BY DocIs DEF Document!Appended
<1>2. /\ Len(e.steps) = Len(d.steps) + 1 /\ e.steps[Len(d.steps) + 1] = x
      /\ \A i \in 1..Len(d.steps) : e.steps[i] = d.steps[i]
      /\ Len(d.steps) \in Nat /\ e.steps \in Seq(StepTypes)
  BY <1>1
<1>3. /\ Document!Total(e.steps) = Document!Total(d.steps) + Document!Charge(x)
      /\ Document!Total(d.steps) \in Nat
  BY <1>1, TotalAppend, TotalIsSum
<1>4. ASSUME d.steps = <<>> \/ Document!Valid(d.steps), Sound(x) PROVE Document!Valid(e.steps)
  <2>1. \A i \in 1..Len(d.steps) : Sound(d.steps[i])
    BY <1>1, <1>4, ValidIs
  <2>2. \A i \in 1..(Len(d.steps) + 1) : Sound(e.steps[i])
    BY <1>2, <1>4, <2>1
  <2>3. e.steps # <<>>
    BY <1>2
  <2> QED BY <1>2, <2>2, <2>3, ValidIs
<1> QED BY <1>1, <1>2, <1>3, <1>4

\* One step takes another form.
Replaced(d, k, x) == [d EXCEPT !.steps[k] = x]
Altered(d, e, k, x) ==
    /\ e \in Doc /\ Len(e.steps) = Len(d.steps)
    /\ e.reported = d.reported /\ e.early = d.early /\ e.late = d.late
    /\ \A i \in 1..Len(d.steps) : i # k => e.steps[i] = d.steps[i]
    /\ e.steps[k] = x

LEMMA AlteredFacts ==
    ASSUME NEW d \in Doc, NEW k \in 1..Len(d.steps), NEW x \in StepTypes,
           NEW e, e = Replaced(d, k, x)
    PROVE  /\ Altered(d, e, k, x)
           /\ Document!Total(e.steps) + Document!Charge(d.steps[k])
                = Document!Total(d.steps) + Document!Charge(x)
           /\ Document!Charge(x) \in Nat /\ Document!Charge(d.steps[k]) \in Nat
           /\ Document!Total(d.steps) \in Nat /\ Document!Total(e.steps) \in Nat
           /\ Document!Valid(d.steps) /\ Sound(x) => Document!Valid(e.steps)
<1>1. d.steps \in Seq(StepTypes) /\ Len(d.steps) \in Nat
  BY DocIs
<1>2. e.steps = [d.steps EXCEPT ![k] = x] /\ e.steps \in Seq(StepTypes)
  BY <1>1, DocIs DEF Replaced
<1>3. /\ e \in Doc /\ e.reported = d.reported /\ e.early = d.early /\ e.late = d.late
  <2>1. d \in [steps : Seq(StepTypes), reported : Nat, early : BOOLEAN, late : BOOLEAN]
    BY DocIs
  <2>2. e = [d EXCEPT !.steps = e.steps]
    BY <1>2, <2>1 DEF Replaced
  <2>3. e \in [steps : Seq(StepTypes), reported : Nat, early : BOOLEAN, late : BOOLEAN]
    BY <1>2, <2>1, <2>2
  <2> QED BY <2>1, <2>2, <2>3, DocIs
<1>4. /\ Len(e.steps) = Len(d.steps) /\ e.steps[k] = x
      /\ \A i \in 1..Len(d.steps) : i # k => e.steps[i] = d.steps[i]
  BY <1>1, <1>2
<1>5. Document!Total(e.steps) + Document!Charge(d.steps[k])
         = Document!Total(d.steps) + Document!Charge(x)
  <2>1. Document!Total(e.steps) + Document!Charge(d.steps[k])
           = Document!Total(d.steps) + Document!Charge(e.steps[k])
    BY <1>1, <1>2, <1>4, TotalReplace
  <2> QED BY <1>4, <2>1
<1>6. ASSUME Document!Valid(d.steps), Sound(x) PROVE Document!Valid(e.steps)
  <2>1. \A i \in 1..Len(d.steps) : Sound(d.steps[i])
    BY <1>1, <1>6, ValidIs
  <2>2. \A i \in 1..Len(e.steps) : Sound(e.steps[i])
    BY <1>4, <1>6, <2>1
  <2>3. e.steps # <<>>
    BY <1>1, <1>4
  <2> QED BY <1>2, <2>2, <2>3, ValidIs
<1>7. d.steps[k] \in StepTypes
  BY <1>1
<1> QED BY <1>1, <1>2, <1>3, <1>4, <1>5, <1>6, <1>7, TotalIsSum, ChargeType DEF Altered

\* record_step_metrics: at most one step of an agent takes the figure.
LEMMA MeteredFacts ==
    ASSUME NEW d \in Doc, NEW i \in 0..Len(d.steps), NEW tokens \in Nat, last \in 0..Len(d.steps)
    PROVE  LET e == Document!Metered(d, i, tokens) IN
           \/ /\ e = d
              /\ i # 0 => d.steps[i].source = "tool"
           \/ \E k \in 1..Len(d.steps) :
                 LET x == [d.steps[k] EXCEPT !.metrics = tokens] IN
                 /\ e = Replaced(d, k, x) /\ x \in StepTypes
                 /\ d.steps[k].source # "tool"
                 /\ i # 0 /\ d.steps[i].source # "tool" => k = i
<1> DEFINE live(j) == j # 0 /\ d.steps[j].source # "tool"
           k == IF live(i) THEN i ELSE IF live(last) THEN last ELSE 0
           x == [d.steps[k] EXCEPT !.metrics = tokens]
<1>1. Document!Metered(d, i, tokens) = IF k = 0 THEN d ELSE [d EXCEPT !.steps[k].metrics = tokens]
  BY DEF Document!Metered
<1>2. d.steps \in Seq(StepTypes) /\ Len(d.steps) \in Nat
  BY DocIs
<1>3. CASE k = 0
  BY <1>1, <1>3
<1>4. CASE k # 0
  <2>1. k \in 1..Len(d.steps) /\ d.steps[k].source # "tool" /\ d.steps[k] \in StepTypes
    BY <1>2, <1>4
  <2>2. x \in StepTypes
    BY <2>1 DEF StepTypes
  <2>3. Document!Metered(d, i, tokens) = Replaced(d, k, x)
    BY <1>1, <1>4 DEF Replaced
  <2>4. i # 0 /\ d.steps[i].source # "tool" => k = i
    OBVIOUS
  <2> QED BY <2>1, <2>2, <2>3, <2>4
<1> QED BY <1>3, <1>4

-----------------------------------------------------------------------------
(* TrajectoryDocument: the invariant *)

\* The tokens a document puts down, with those that are due, are no more than were
\* reported, and all of them but for the exceptions.
Balanced(d, due) ==
    /\ Document!Total(d.steps) + due <= d.reported
    /\ ~d.early /\ ~d.late => Document!Total(d.steps) + due = d.reported

FileInv ==
    /\ file.steps = <<>> \/ Document!Valid(file.steps)
    /\ Balanced(file, 0)

\* What the recorder remembers of the document's steps is there: the message usage goes to,
\* the calls that await results, and the answer the next result is about.
StepsInv ==
    /\ message # 0 => doc.steps[message].source = "agent"
    /\ \A c \in Calls : pending[c] # 0 => c \in doc.steps[pending[c]].calls
    /\ backend = "claude" /\ answered /\ counter = 0 =>
          last # 0 /\ doc.steps[last].source = "agent" /\ doc.steps[last].metrics = -1

\* The counter the recorder compares with is the provider's, unless a call was made again
\* and has reported nothing since.
CounterInv ==
    /\ backend = "claude" => owed = -1 /\ message = 0
    /\ backend = "codex" =>
          /\ counter <= seen
          /\ counter # seen => counter = 0

DocumentInv ==
    /\ Document!TypeOK /\ FileInv /\ StepsInv /\ CounterInv
    /\ Balanced(doc, Document!Owed)
    /\ backend # "none" /\ ~doc.early => Document!Valid(doc.steps)

LEMMA NumberFacts ==
    ASSUME Document!DocumentAssumption
    PROVE  /\ MaxSteps \in Nat /\ MaxTokens \in Nat /\ MaxTokens > 0 /\ MaxCharged \in Nat
  BY DEF Document!DocumentAssumption

LEMMA OwedType == Document!TypeOK => Document!Owed \in Nat
  BY DEF Document!TypeOK, Document!Owed

\* What holds of no document.
LEMMA EmptyFacts ==
    LET d == Document!NoDocument IN
    /\ d \in Doc /\ d.steps = <<>> /\ Len(d.steps) = 0 /\ d.reported = 0
    /\ Document!Total(d.steps) = 0
<1>1. <<>> \in Seq(StepTypes) /\ Len(<<>>) = 0
  OBVIOUS
<1> QED BY <1>1, DocIs, TotalEmpty DEF Document!NoDocument

LEMMA EmptyBalanced == ASSUME owed = -1 PROVE Balanced(Document!NoDocument, Document!Owed)
  BY EmptyFacts DEF Balanced, Document!Owed

LEMMA DocumentStarts == Document!DocumentAssumption /\ Document!Init => DocumentInv
<1> SUFFICES ASSUME Document!DocumentAssumption, Document!Init PROVE DocumentInv
  OBVIOUS
<1>1. Document!TypeOK
  <2>1. text \in BOOLEAN /\ answered \in BOOLEAN
    BY Zenon DEF Document!Init
  <2>2. 0 \in 0..MaxTokens /\ 0 \in 0..Len(doc.steps)
    BY NumberFacts, EmptyFacts DEF Document!Init
  <2> QED BY <2>1, <2>2, EmptyFacts DEF Document!Init, Document!TypeOK, Doc
<1>2. FileInv /\ Balanced(doc, Document!Owed)
  BY EmptyFacts DEF Document!Init, FileInv, Balanced, Document!Owed
<1> QED BY <1>1, <1>2 DEF Document!Init, DocumentInv, StepsInv, CounterInv

\* Steps that leave the file and the record of its calls alone.
LEMMA FileFrame == ASSUME FileInv, file' = file PROVE FileInv'
  BY DEF FileInv, Balanced

LEMMA OpenStep ==
    ASSUME Document!DocumentAssumption, DocumentInv, Document!Open
    PROVE  DocumentInv'
<1> DEFINE x == Document!Step("user", {})
<1>1. x \in StepTypes /\ Sound(x) /\ Document!Charge(x) = 0
  BY FreshStep
<1>2. /\ file \in Doc /\ doc' = Document!Appended(file, x)
  BY DEF DocumentInv, Document!TypeOK, Document!Open, Doc
<1> HIDE DEF x
<1>3. /\ doc' \in Doc /\ Len(doc'.steps) = Len(file.steps) + 1
      /\ doc'.reported = file.reported /\ doc'.early = file.early /\ doc'.late = file.late
      /\ Document!Total(doc'.steps) = Document!Total(file.steps) + Document!Charge(x)
      /\ Document!Total(file.steps) \in Nat
      /\ (file.steps = <<>> \/ Document!Valid(file.steps)) => Document!Valid(doc'.steps)
  BY <1>1, <1>2, AppendedFacts
<1>4. Len(file.steps) \in Nat /\ last' \in 0..Len(file.steps)
  BY <1>2, DocIs DEF Document!Open, Document!Resumed
<1>5. Document!TypeOK'
  <2>1. text' \in BOOLEAN /\ answered' \in BOOLEAN
    BY Zenon DEF Document!Open
  <2>2. last' \in 0..Len(doc'.steps) /\ 0 \in 0..Len(doc'.steps) /\ 0 \in 0..MaxTokens
    BY <1>3, <1>4, NumberFacts
  <2> QED BY <1>2, <1>3, <2>1, <2>2 DEF Document!Open, Document!TypeOK, Doc
<1>6. FileInv'
  BY FileFrame DEF DocumentInv, Document!Open
<1>7. Balanced(doc, Document!Owed)'
  <2>1. Document!Owed' = 0
    BY DEF Document!Open, Document!Owed
  <2>2. Document!Total(doc'.steps) = Document!Total(file.steps)
    BY <1>1, <1>3
  <2> QED BY <1>3, <2>1, <2>2 DEF DocumentInv, FileInv, Balanced
<1>8. StepsInv' /\ CounterInv'
  BY DEF Document!Open, StepsInv, CounterInv
<1>9. Document!Valid(doc'.steps)
  BY <1>3 DEF DocumentInv, FileInv
<1> QED BY <1>5, <1>6, <1>7, <1>8, <1>9 DEF DocumentInv

LEMMA RetryStep ==
    ASSUME Document!DocumentAssumption, DocumentInv, Document!Retry
    PROVE  DocumentInv'
<1>1. /\ counter' = 0 /\ answered' = FALSE
      /\ UNCHANGED <<file, doc, backend, last, message, seen, owed, text, pending>>
  BY DEF Document!Retry, Document!codex
<1>2. Document!TypeOK'
  <2>1. answered' \in BOOLEAN
    BY <1>1, Zenon
  <2>2. 0 \in 0..MaxTokens
    BY NumberFacts
  <2> QED BY <1>1, <2>1, <2>2 DEF DocumentInv, Document!TypeOK
<1>3. FileInv' /\ StepsInv' /\ Balanced(doc, Document!Owed)'
  BY <1>1 DEF DocumentInv, FileInv, StepsInv, Balanced, Document!Owed
<1>4. CounterInv'
  <2>1. seen' \in Nat
    BY <1>1, NumberFacts DEF DocumentInv, Document!TypeOK
  <2> QED BY <1>1, <2>1 DEF DocumentInv, CounterInv
<1> QED BY <1>1, <1>2, <1>3, <1>4 DEF DocumentInv

LEMMA CloseStep ==
    ASSUME Document!DocumentAssumption, DocumentInv, Document!Close
    PROVE  DocumentInv'
<1>1. doc' = Document!NoDocument /\ owed' = -1 /\ message' = 0 /\ last' = 0
  BY DEF Document!Close
<1>2. file' \in Doc /\ FileInv'
  <2>1. CASE Document!Valid(doc.steps)
    <3>1. /\ file' = [doc EXCEPT !.late = @ \/ owed > 0] /\ doc \in Doc
          /\ Document!Total(doc.steps) \in Nat
      BY <2>1, TotalIsSum, DocIs DEF Document!Close, DocumentInv, Document!TypeOK, Doc
    <3>2. /\ file' \in Doc /\ file'.steps = doc.steps /\ file'.reported = doc.reported
          /\ file'.early = doc.early /\ (~file'.late => ~doc.late /\ ~(owed > 0))
      BY <3>1, DocIs
    <3>3. Document!Owed \in Nat /\ (~(owed > 0) => Document!Owed = 0)
      BY DEF Document!Owed, DocumentInv, Document!TypeOK
    <3>4. doc.reported \in Nat
      BY <3>1, DocIs
    <3> QED BY <2>1, <3>1, <3>2, <3>3, <3>4 DEF FileInv, Balanced, DocumentInv
  <2>2. CASE ~Document!Valid(doc.steps)
    BY <2>2, FileFrame DEF Document!Close, DocumentInv, Document!TypeOK, Doc
  <2> QED BY <2>1, <2>2
<1>3. Document!TypeOK'
  <2>1. text' \in BOOLEAN /\ answered' \in BOOLEAN
    BY Zenon DEF Document!Close
  <2>2. 0 \in 0..MaxTokens /\ 0 \in 0..Len(doc'.steps)
    BY <1>1, NumberFacts, EmptyFacts
  <2> QED BY <1>1, <1>2, <2>1, <2>2, EmptyFacts DEF Document!Close, Document!TypeOK, Doc
<1>4. Balanced(doc, Document!Owed)'
  BY <1>1, EmptyFacts DEF Balanced, Document!Owed
<1>5. StepsInv' /\ CounterInv' /\ backend' = "none"
  BY DEF Document!Close, StepsInv, CounterInv
<1> QED BY <1>2, <1>3, <1>4, <1>5 DEF DocumentInv

\* A step of the document at an index of the document: what it says.
LEMMA DocStep ==
    ASSUME Document!TypeOK
    PROVE  /\ doc \in Doc /\ Len(doc.steps) \in Nat /\ doc.steps \in Seq(StepTypes)
           /\ \A i \in 1..Len(doc.steps) : doc.steps[i] \in StepTypes
           /\ message \in 0..Len(doc.steps) /\ last \in 0..Len(doc.steps)
           /\ \A c \in Calls : pending[c] \in 0..Len(doc.steps)
           /\ Document!Total(doc.steps) \in Nat /\ doc.reported \in Nat
  BY DocIs, TotalIsSum DEF Document!TypeOK, Doc

\* A step is added to the document: what is remembered of the others stays true.
LEMMA AddedStep ==
    ASSUME DocumentInv, NEW x \in StepTypes, Sound(x), doc' = Document!Appended(doc, x),
           UNCHANGED file, backend # "none", backend' = backend
    PROVE  /\ doc' \in Doc /\ Len(doc'.steps) = Len(doc.steps) + 1 /\ FileInv'
           /\ doc'.steps[Len(doc.steps) + 1] = x
           /\ \A i \in 1..Len(doc.steps) : doc'.steps[i] = doc.steps[i]
           /\ doc'.reported = doc.reported /\ doc'.early = doc.early /\ doc'.late = doc.late
           /\ Document!Total(doc'.steps) = Document!Total(doc.steps) + Document!Charge(x)
           /\ ~doc'.early => Document!Valid(doc'.steps)
<1>1. doc \in Doc
  BY DocStep DEF DocumentInv
<1> QED BY <1>1, AppendedFacts, FileFrame DEF DocumentInv

LEMMA ClaudeAnswersStep ==
    ASSUME Document!DocumentAssumption, DocumentInv, Document!ClaudeAnswers
    PROVE  DocumentInv'
<1>1. PICK called \in SUBSET (Calls \ Document!Declared) :
          /\ doc' = Document!Appended(doc, Document!Step("agent", called))
          /\ last' = Len(doc.steps) + 1
          /\ pending' = [c \in Calls |-> IF c \in called THEN Len(doc.steps) + 1
                                         ELSE pending[c]]
  BY DEF Document!ClaudeAnswers
<1> DEFINE x == Document!Step("agent", called)
<1>2. /\ x \in StepTypes /\ Sound(x) /\ Document!Charge(x) = 0
      /\ x.source = "agent" /\ x.calls = called /\ x.metrics = -1
  BY FreshStep
<1>3. /\ backend = "claude" /\ answered' = TRUE
      /\ UNCHANGED <<file, backend, message, seen, owed, text, counter>>
  BY DEF Document!ClaudeAnswers, Document!codex
<1> HIDE DEF x
<1>4. /\ doc' \in Doc /\ Len(doc'.steps) = Len(doc.steps) + 1 /\ FileInv'
      /\ doc'.steps[Len(doc.steps) + 1] = x
      /\ \A i \in 1..Len(doc.steps) : doc'.steps[i] = doc.steps[i]
      /\ doc'.reported = doc.reported /\ doc'.early = doc.early /\ doc'.late = doc.late
      /\ Document!Total(doc'.steps) = Document!Total(doc.steps)
      /\ ~doc'.early => Document!Valid(doc'.steps)
  <2>1. doc' = Document!Appended(doc, x)
    BY <1>1 DEF x
  <2> QED BY <1>2, <1>3, <2>1, AddedStep, DocStep DEF DocumentInv
<1>5. Document!TypeOK'
  <2>1. answered' \in BOOLEAN
    BY <1>3, Zenon
  <2>2. pending' \in [Calls -> 0..Len(doc'.steps)] /\ last' \in 0..Len(doc'.steps)
    BY <1>1, <1>4, DocStep DEF DocumentInv
  <2> QED BY <1>3, <1>4, <2>1, <2>2, DocStep, SMTT(30) DEF DocumentInv, Document!TypeOK, Doc
<1>6. Balanced(doc, Document!Owed)'
  BY <1>3, <1>4 DEF DocumentInv, Balanced, Document!Owed
<1>7. StepsInv'
  <2>1. message' = 0
    BY <1>3 DEF DocumentInv, CounterInv
  <2>2. last' # 0 /\ doc'.steps[last'].source = "agent" /\ doc'.steps[last'].metrics = -1
    BY <1>1, <1>2, <1>4, DocStep DEF DocumentInv
  <2>3. ASSUME NEW c \in Calls, pending'[c] # 0 PROVE c \in doc'.steps[pending'[c]].calls
    <3>1. CASE c \in called
      BY <1>1, <1>2, <1>4, <3>1
    <3>2. CASE c \notin called
      <4>1. pending'[c] = pending[c] /\ pending[c] \in 1..Len(doc.steps)
        BY <1>1, <2>3, <3>2, DocStep DEF DocumentInv
      <4> QED BY <1>4, <2>3, <4>1 DEF DocumentInv, StepsInv
    <3> QED BY <3>1, <3>2
  <2> QED BY <2>1, <2>2, <2>3 DEF StepsInv
<1>8. CounterInv'
  BY <1>3 DEF DocumentInv, CounterInv
<1> QED BY <1>3, <1>4, <1>5, <1>6, <1>7, <1>8 DEF DocumentInv

\* A step that is remembered as it was.
LEMMA StepsFrame ==
    ASSUME DocumentInv, UNCHANGED <<backend, message, last, counter, answered>>,
           Document!TypeOK',
           \A i \in 1..Len(doc.steps) :
              /\ doc'.steps[i].source = doc.steps[i].source
              /\ doc'.steps[i].calls = doc.steps[i].calls
              /\ doc'.steps[i].metrics = doc.steps[i].metrics,
           \A c \in Calls : pending'[c] \in {0, pending[c]}
    PROVE  StepsInv'
<1>1. message # 0 => message \in 1..Len(doc.steps)
  BY DocStep DEF DocumentInv
<1>2. last # 0 => last \in 1..Len(doc.steps)
  BY DocStep DEF DocumentInv
<1>3. ASSUME NEW c \in Calls, pending'[c] # 0 PROVE c \in doc'.steps[pending'[c]].calls
  <2>1. pending'[c] = pending[c] /\ pending[c] \in 1..Len(doc.steps)
    BY <1>3, DocStep DEF DocumentInv
  <2> QED BY <1>3, <2>1 DEF DocumentInv, StepsInv
<1> QED BY <1>1, <1>2, <1>3 DEF DocumentInv, StepsInv

LEMMA SystemMessageStep ==
    ASSUME Document!DocumentAssumption, DocumentInv, Document!SystemMessage
    PROVE  DocumentInv'
<1> DEFINE x == Document!Step("system", {})
<1>1. x \in StepTypes /\ Sound(x) /\ Document!Charge(x) = 0
  BY FreshStep
<1>2. /\ backend = "claude" /\ doc' = Document!Appended(doc, x)
      /\ UNCHANGED <<file, backend, last, message, seen, owed, text, pending, counter,
                     answered>>
  BY DEF Document!SystemMessage, Document!codex
<1> HIDE DEF x
<1>3. /\ doc' \in Doc /\ Len(doc'.steps) = Len(doc.steps) + 1 /\ FileInv'
      /\ \A i \in 1..Len(doc.steps) : doc'.steps[i] = doc.steps[i]
      /\ doc'.reported = doc.reported /\ doc'.early = doc.early /\ doc'.late = doc.late
      /\ Document!Total(doc'.steps) = Document!Total(doc.steps)
      /\ ~doc'.early => Document!Valid(doc'.steps)
  BY <1>1, <1>2, AddedStep, DocStep DEF DocumentInv
<1>4. Document!TypeOK'
  <2>1. pending' \in [Calls -> 0..Len(doc'.steps)] /\ last' \in 0..Len(doc'.steps)
        /\ message' \in 0..Len(doc'.steps)
    BY <1>2, <1>3, DocStep DEF DocumentInv, Document!TypeOK
  <2> QED BY <1>2, <1>3, <2>1 DEF DocumentInv, Document!TypeOK, Doc
<1>5. Balanced(doc, Document!Owed)'
  BY <1>2, <1>3 DEF DocumentInv, Balanced, Document!Owed
<1>6. StepsInv' /\ CounterInv'
  BY <1>2, <1>3, <1>4, StepsFrame DEF DocumentInv, CounterInv
<1> QED BY <1>2, <1>3, <1>4, <1>5, <1>6 DEF DocumentInv

\* A result is put to the step that declared its call, or in a step of its own.
LEMMA ToolReturnsStep ==
    ASSUME Document!DocumentAssumption, DocumentInv, NEW c \in Calls, Document!ToolReturns(c)
    PROVE  DocumentInv'
<1>1. /\ backend = "claude" /\ doc' = Document!WithResult(doc, c, pending[c])
      /\ pending' = [pending EXCEPT ![c] = 0]
      /\ UNCHANGED <<file, backend, last, message, seen, owed, text, counter, answered>>
  BY DEF Document!ToolReturns, Document!codex
<1>2. /\ doc' \in Doc /\ Len(doc'.steps) >= Len(doc.steps) /\ Len(doc'.steps) \in Nat
      /\ \A i \in 1..Len(doc.steps) :
            /\ doc'.steps[i].source = doc.steps[i].source
            /\ doc'.steps[i].calls = doc.steps[i].calls
            /\ doc'.steps[i].metrics = doc.steps[i].metrics
      /\ doc'.reported = doc.reported /\ doc'.early = doc.early /\ doc'.late = doc.late
      /\ Document!Total(doc'.steps) = Document!Total(doc.steps)
      /\ ~doc'.early => Document!Valid(doc'.steps)
  <2>1. CASE pending[c] # 0
    <3> DEFINE k == pending[c]
               x == [doc.steps[k] EXCEPT !.results = @ \cup {c}]
    <3>1. k \in 1..Len(doc.steps) /\ doc.steps[k] \in StepTypes /\ c \in doc.steps[k].calls
      BY <2>1, DocStep DEF DocumentInv, StepsInv
    <3>2. /\ x \in StepTypes /\ Document!Charge(x) = Document!Charge(doc.steps[k])
          /\ x.source = doc.steps[k].source /\ x.calls = doc.steps[k].calls
          /\ x.metrics = doc.steps[k].metrics
          /\ Sound(doc.steps[k]) => Sound(x)
      BY <3>1 DEF StepTypes, Document!Charge, Sound
    <3>3. doc' = Replaced(doc, k, x)
      BY <1>1, <2>1 DEF Document!WithResult, Replaced
    <3> HIDE DEF x, k
    <3>4. /\ Altered(doc, doc', k, x)
          /\ Document!Total(doc'.steps) + Document!Charge(doc.steps[k])
               = Document!Total(doc.steps) + Document!Charge(x)
          /\ Document!Charge(doc.steps[k]) \in Nat
          /\ Document!Total(doc'.steps) \in Nat
          /\ Document!Valid(doc.steps) /\ Sound(x) => Document!Valid(doc'.steps)
      <4>1. doc \in Doc /\ k \in 1..Len(doc.steps) /\ x \in StepTypes
        BY <3>1, <3>2, DocStep DEF DocumentInv
      <4> QED BY <3>3, <4>1, AlteredFacts
    <3>5. Document!Total(doc'.steps) = Document!Total(doc.steps)
      BY <3>2, <3>4, DocStep DEF DocumentInv
    <3>6. ~doc'.early => Document!Valid(doc'.steps)
      <4>1. Document!Valid(doc.steps) => Sound(doc.steps[k])
        BY <3>1, ValidIs, DocStep DEF DocumentInv
      <4> QED BY <1>1, <3>2, <3>4, <4>1 DEF Altered, DocumentInv
    <3>7. \A i \in 1..Len(doc.steps) :
            /\ doc'.steps[i].source = doc.steps[i].source
            /\ doc'.steps[i].calls = doc.steps[i].calls
            /\ doc'.steps[i].metrics = doc.steps[i].metrics
      BY <3>2, <3>4 DEF Altered
    <3> QED BY <3>4, <3>5, <3>6, <3>7, DocStep DEF Altered, DocumentInv
  <2>2. CASE pending[c] = 0
    <3> DEFINE x == [Document!Step("tool", {}) EXCEPT !.orphans = 1]
    <3>1. x \in StepTypes /\ Sound(x) /\ Document!Charge(x) = 0
      BY DEF Document!Step, StepTypes, Sound, Document!Charge
    <3>2. doc' = Document!Appended(doc, x)
      BY <1>1, <2>2 DEF Document!WithResult
    <3> HIDE DEF x
    <3> QED BY <1>1, <3>1, <3>2, AddedStep, DocStep DEF DocumentInv
  <2> QED BY <2>1, <2>2
<1>3. FileInv'
  BY <1>1, FileFrame DEF DocumentInv
<1>4. Document!TypeOK'
  <2>1. pending' \in [Calls -> 0..Len(doc'.steps)] /\ last' \in 0..Len(doc'.steps)
        /\ message' \in 0..Len(doc'.steps)
    BY <1>1, <1>2, DocStep, SMTT(30) DEF DocumentInv, Document!TypeOK
  <2> QED BY <1>1, <1>2, <2>1 DEF DocumentInv, Document!TypeOK, Doc
<1>5. Balanced(doc, Document!Owed)'
  BY <1>1, <1>2 DEF DocumentInv, Balanced, Document!Owed
<1>6. \A d \in Calls : pending'[d] \in {0, pending[d]}
  BY <1>1 DEF DocumentInv, Document!TypeOK
<1>7. StepsInv' /\ CounterInv'
  BY <1>1, <1>2, <1>4, <1>6, StepsFrame DEF DocumentInv, CounterInv
<1> QED BY <1>1, <1>2, <1>3, <1>4, <1>5, <1>7 DEF DocumentInv

\* What a metered document is to the one before: the same, or one step has another figure.
LEMMA MeteredDoc ==
    ASSUME NEW d \in Doc, last \in 0..Len(d.steps), NEW i \in 0..Len(d.steps),
           NEW tokens \in Nat
    PROVE  LET e == Document!Metered(d, i, tokens) IN
           /\ e \in Doc /\ Len(e.steps) = Len(d.steps)
           /\ e.reported = d.reported /\ e.early = d.early /\ e.late = d.late
           /\ \A j \in 1..Len(d.steps) : /\ e.steps[j].source = d.steps[j].source
                                           /\ e.steps[j].calls = d.steps[j].calls
           /\ Document!Total(e.steps) <= Document!Total(d.steps) + tokens
           /\ i # 0 /\ d.steps[i].source = "agent" =>
                 /\ Document!Valid(d.steps) => Document!Valid(e.steps)
                 /\ d.steps[i].metrics = -1 =>
                       Document!Total(e.steps) = Document!Total(d.steps) + tokens
<1> DEFINE e == Document!Metered(d, i, tokens)
<1>1. /\ Document!Total(d.steps) \in Nat /\ Len(d.steps) \in Nat
      /\ d.steps \in Seq(StepTypes) /\ \A j \in 1..Len(d.steps) : d.steps[j] \in StepTypes
  BY TotalIsSum, DocIs
<1>2. CASE e = d /\ (i # 0 => d.steps[i].source = "tool")
  <2> HIDE DEF e
  <2> QED BY <1>1, <1>2 DEF e
<1>3. CASE \E k \in 1..Len(d.steps) :
              LET x == [d.steps[k] EXCEPT !.metrics = tokens] IN
              /\ e = Replaced(d, k, x) /\ x \in StepTypes
              /\ d.steps[k].source # "tool"
              /\ i # 0 /\ d.steps[i].source # "tool" => k = i
  <2>1. PICK k \in 1..Len(d.steps) :
              LET x == [d.steps[k] EXCEPT !.metrics = tokens] IN
              /\ e = Replaced(d, k, x) /\ x \in StepTypes
              /\ d.steps[k].source # "tool"
              /\ i # 0 /\ d.steps[i].source # "tool" => k = i
    BY <1>3
  <2> DEFINE x == [d.steps[k] EXCEPT !.metrics = tokens]
  <2>2. /\ x.source = d.steps[k].source /\ x.calls = d.steps[k].calls
        /\ Document!Charge(x) = tokens
        /\ d.steps[k].metrics = -1 => Document!Charge(d.steps[k]) = 0
        /\ d.steps[k].source = "agent" /\ Sound(d.steps[k]) => Sound(x)
    BY <1>1 DEF StepTypes, Document!Charge, Sound
  <2>3. e = Replaced(d, k, x) /\ x \in StepTypes
    BY <2>1
  <2> HIDE DEF e, x
  <2>4. /\ Altered(d, e, k, x)
        /\ Document!Total(e.steps) + Document!Charge(d.steps[k])
             = Document!Total(d.steps) + Document!Charge(x)
        /\ Document!Charge(d.steps[k]) \in Nat /\ Document!Total(e.steps) \in Nat
        /\ Document!Valid(d.steps) /\ Sound(x) => Document!Valid(e.steps)
    BY <1>1, <2>3, AlteredFacts
  <2>5. Document!Total(e.steps) <= Document!Total(d.steps) + tokens
    BY <1>1, <2>2, <2>4
  <2>6. \A j \in 1..Len(d.steps) : /\ e.steps[j].source = d.steps[j].source
                                     /\ e.steps[j].calls = d.steps[j].calls
    BY <2>2, <2>4 DEF Altered
  <2>7. ASSUME i # 0, d.steps[i].source = "agent"
        PROVE  /\ Document!Valid(d.steps) => Document!Valid(e.steps)
               /\ d.steps[i].metrics = -1 =>
                     Document!Total(e.steps) = Document!Total(d.steps) + tokens
    <3>1. k = i
      BY <2>1, <2>7
    <3>2. Document!Valid(d.steps) => Sound(d.steps[k])
      BY <1>1, ValidIs, DocIs
    <3> QED BY <1>1, <2>2, <2>4, <2>7, <3>1, <3>2
  <2> QED BY <2>4, <2>5, <2>6, <2>7 DEF Altered, e
<1> QED
  <2> HIDE DEF e
  <2>1. \/ e = d /\ (i # 0 => d.steps[i].source = "tool")
        \/ \E k \in 1..Len(d.steps) :
              LET x == [d.steps[k] EXCEPT !.metrics = tokens] IN
              /\ e = Replaced(d, k, x) /\ x \in StepTypes
              /\ d.steps[k].source # "tool"
              /\ i # 0 /\ d.steps[i].source # "tool" => k = i
    BY MeteredFacts DEF e
  <2> QED BY <1>2, <1>3, <2>1 DEF e

\* The one result of a call: to the answer of the call, if it has one.
LEMMA ClaudeResultStep ==
    ASSUME Document!DocumentAssumption, DocumentInv, Document!ClaudeResult
    PROVE  DocumentInv'
<1>1. PICK tokens \in 0..MaxTokens :
          /\ ~answered => tokens = 0
          /\ doc' = [Document!Metered(doc, last, tokens)
                        EXCEPT !.reported = @ + tokens, !.early = @ \/ ~answered]
  BY DEF Document!ClaudeResult
<1>2. /\ backend = "claude" /\ counter = 0 /\ counter' = MaxTokens
      /\ UNCHANGED <<file, backend, last, message, seen, owed, text, pending, answered>>
  BY DEF Document!ClaudeResult, Document!codex
<1>3. tokens \in Nat
  BY NumberFacts
<1> DEFINE e == Document!Metered(doc, last, tokens)
<1>4. /\ e \in Doc /\ Len(e.steps) = Len(doc.steps)
      /\ e.reported = doc.reported /\ e.early = doc.early /\ e.late = doc.late
      /\ \A j \in 1..Len(doc.steps) : /\ e.steps[j].source = doc.steps[j].source
                                      /\ e.steps[j].calls = doc.steps[j].calls
      /\ Document!Total(e.steps) <= Document!Total(doc.steps) + tokens
      /\ last # 0 /\ doc.steps[last].source = "agent" =>
            /\ Document!Valid(doc.steps) => Document!Valid(e.steps)
            /\ doc.steps[last].metrics = -1 =>
                  Document!Total(e.steps) = Document!Total(doc.steps) + tokens
  BY <1>3, MeteredDoc, DocStep DEF DocumentInv, Document!TypeOK, Doc
<1> HIDE DEF e
<1>5. /\ doc' \in Doc /\ doc'.steps = e.steps /\ doc'.reported = doc.reported + tokens
      /\ (~doc'.early => ~doc.early /\ answered) /\ doc'.late = doc.late
  <2>1. doc' = [e EXCEPT !.reported = @ + tokens, !.early = @ \/ ~answered]
    BY <1>1 DEF e
  <2>2. answered \in BOOLEAN /\ e.early \in BOOLEAN
    BY <1>4, DocIs DEF DocumentInv, Document!TypeOK
  <2>3. e \in [steps : Seq(StepTypes), reported : Nat, early : BOOLEAN, late : BOOLEAN]
    BY <1>4, DocIs
  <2>4. doc'.early = (e.early \/ ~answered)
    BY <2>1, <2>3
  <2>5. doc' \in [steps : Seq(StepTypes), reported : Nat, early : BOOLEAN, late : BOOLEAN]
    <3>1. doc' = [steps |-> e.steps, reported |-> doc'.reported, early |-> doc'.early,
                  late |-> e.late]
      BY <2>1, <2>3
    <3>2. doc'.reported \in Nat
      BY <1>3, <2>1, <2>3
    <3>3. doc'.early \in BOOLEAN
      BY <2>4, Zenon
    <3> QED BY <2>3, <3>1, <3>2, <3>3
  <2>6. /\ doc'.steps = e.steps /\ doc'.reported = e.reported + tokens
        /\ doc'.late = e.late
    BY <2>1, <2>3
  <2> QED BY <1>4, <2>2, <2>4, <2>5, <2>6, DocIs
<1>6. answered => last # 0 /\ doc.steps[last].source = "agent" /\ doc.steps[last].metrics = -1
  BY <1>2 DEF DocumentInv, StepsInv
<1>7. Document!TypeOK'
  <2>1. counter' \in 0..MaxTokens
    BY <1>2, NumberFacts
  <2> QED BY <1>2, <1>4, <1>5, <2>1 DEF DocumentInv, Document!TypeOK, Doc
<1>8. FileInv'
  BY <1>2, FileFrame DEF DocumentInv
<1>9. Balanced(doc, Document!Owed)'
  <2>1. Document!Owed' = 0 /\ Document!Owed = 0
    BY <1>2 DEF DocumentInv, CounterInv, Document!Owed
  <2>2. Document!Total(doc'.steps) \in Nat /\ Document!Total(doc.steps) \in Nat
        /\ doc.reported \in Nat
    BY <1>5, TotalIsSum, DocIs, DocStep DEF DocumentInv
  <2> QED BY <1>3, <1>4, <1>5, <1>6, <2>1, <2>2 DEF DocumentInv, Balanced
<1>10. ~doc'.early => Document!Valid(doc'.steps)
  BY <1>2, <1>4, <1>5, <1>6 DEF DocumentInv
<1>11. StepsInv'
  <2>1. message' = 0 /\ counter' # 0
    BY <1>2, NumberFacts DEF DocumentInv, CounterInv
  <2>2. ASSUME NEW c \in Calls, pending'[c] # 0 PROVE c \in doc'.steps[pending'[c]].calls
    <3>1. pending[c] \in 1..Len(doc.steps) /\ pending'[c] = pending[c]
      BY <1>2, <2>2, DocStep DEF DocumentInv
    <3> QED BY <1>4, <1>5, <2>2, <3>1 DEF DocumentInv, StepsInv
  <2> QED BY <2>1, <2>2 DEF StepsInv
<1>12. CounterInv'
  BY <1>2 DEF DocumentInv, CounterInv
<1> QED BY <1>7, <1>8, <1>9, <1>10, <1>11, <1>12 DEF DocumentInv

\* _usage_delta takes no more than was charged since, and all of it unless the first count
\* of a call made again has reached that of the call before.
LEMMA DeltaFacts ==
    ASSUME DocumentInv, backend = "codex", NEW current \in counter..MaxTokens
    PROVE  /\ Document!Delta(current) \in Nat /\ current \in Nat /\ counter \in Nat
           /\ Document!Delta(current) <= current - counter
           /\ ~(counter < seen /\ seen <= current) =>
                 Document!Delta(current) = current - counter
  BY DEF DocumentInv, Document!TypeOK, CounterInv, Document!Delta

\* A document that differs from the recorder's in what its steps report, and balances with
\* the tokens kept back.
Amount(kept) == IF kept = -1 THEN 0 ELSE kept
Ready(d, kept) ==
    /\ d \in Doc /\ Len(d.steps) = Len(doc.steps) /\ kept \in Nat \cup {-1}
    /\ \A j \in 1..Len(doc.steps) : /\ d.steps[j].source = doc.steps[j].source
                                    /\ d.steps[j].calls = doc.steps[j].calls
    /\ Balanced(d, Amount(kept))
    /\ ~d.early => Document!Valid(d.steps)

LEMMA HeldReady == DocumentInv /\ backend = "codex" => Ready(doc, owed)
<1> SUFFICES ASSUME DocumentInv, backend = "codex" PROVE Ready(doc, owed)
  OBVIOUS
<1>1. Amount(owed) = Document!Owed
  BY DEF Amount, Document!Owed
<1>2. doc \in Doc /\ owed \in Nat \cup {-1}
  BY DocStep DEF DocumentInv, Document!TypeOK
<1> QED BY <1>1, <1>2 DEF DocumentInv, Ready

LEMMA ToldFacts ==
    ASSUME DocumentInv, NEW current \in Nat, counter \in Nat, current - counter \in Nat
    PROVE  LET told == Document!Told(current) IN
           /\ told \in Doc /\ told.steps = doc.steps /\ told.early = doc.early
           /\ told.reported = doc.reported + (current - counter)
           /\ told.late <=> doc.late \/ message # 0 \/ (counter < seen /\ seen <= current)
<1> DEFINE behind == doc.late \/ message # 0 \/ (counter < seen /\ seen <= current)
           reported == doc.reported + (current - counter)
           told == Document!Told(current)
<1>1. doc \in [steps : Seq(StepTypes), reported : Nat, early : BOOLEAN, late : BOOLEAN]
  BY DocStep, DocIs DEF DocumentInv
<1>2. told = [doc EXCEPT !.reported = reported, !.late = behind]
  BY DEF Document!Told
<1>3. behind \in BOOLEAN
  BY <1>1, Zenon
<1>4. reported \in Nat
  BY <1>1
<1> HIDE DEF behind, reported, told
<1>5. /\ told.steps = doc.steps /\ told.early = doc.early /\ told.late = behind
      /\ told.reported = reported
  BY <1>1, <1>2
<1>6. told = [steps |-> doc.steps, reported |-> reported, early |-> doc.early, late |-> behind]
  BY <1>1, <1>2
<1>7. told \in Doc
  BY <1>1, <1>3, <1>4, <1>6, DocIs
<1> QED BY <1>5, <1>7 DEF behind, reported, told

\* A usage report is put down at the last message, or kept back until there is one.
LEMMA ReportedReady ==
    ASSUME DocumentInv, backend = "codex", NEW current \in counter..MaxTokens
    PROVE  Ready(Document!Charged(current), Document!Kept(current))
<1> DEFINE due == Document!Due(current)
           told == Document!Told(current)
<1>1. /\ Document!Delta(current) \in Nat /\ current \in Nat /\ counter \in Nat
      /\ current - counter \in Nat
      /\ Document!Delta(current) <= current - counter
      /\ ~(counter < seen /\ seen <= current) => Document!Delta(current) = current - counter
  BY DeltaFacts
<1>2. /\ told \in Doc /\ told.steps = doc.steps /\ told.early = doc.early
      /\ told.reported = doc.reported + (current - counter)
      /\ told.late <=> doc.late \/ message # 0 \/ (counter < seen /\ seen <= current)
  BY <1>1, ToldFacts
<1>3. /\ Document!Owed \in Nat /\ due \in Nat /\ due = Document!Owed + Document!Delta(current)
      /\ doc.reported \in Nat /\ Document!Total(doc.steps) \in Nat
  BY <1>1, DocStep, OwedType DEF DocumentInv, Document!Due
<1> HIDE DEF due, told
<1>4. CASE message = 0
  <2>1. Document!Charged(current) = told /\ Document!Kept(current) = due /\ Amount(due) = due
    BY <1>3, <1>4 DEF Document!Charged, Document!Kept, Amount, due, told
  <2>2. Balanced(told, due)
    <3>1. Document!Total(doc.steps) + Document!Owed <= doc.reported
      BY DEF DocumentInv, Balanced
    <3>2. Document!Total(told.steps) + due <= told.reported
      BY <1>1, <1>2, <1>3, <3>1
    <3>3. ASSUME ~told.early, ~told.late
          PROVE  Document!Total(told.steps) + due = told.reported
      <4>1. Document!Total(doc.steps) + Document!Owed = doc.reported
        BY <1>2, <3>3 DEF DocumentInv, Balanced
      <4>2. Document!Delta(current) = current - counter
        BY <1>1, <1>2, <3>3
      <4> QED BY <1>1, <1>2, <1>3, <4>1, <4>2
    <3> QED BY <3>2, <3>3 DEF Balanced
  <2> QED BY <1>2, <1>3, <2>1, <2>2 DEF Ready, DocumentInv
<1>5. CASE message # 0
  <2> DEFINE d == Document!Metered(told, message, due)
  <2>1. /\ Document!Charged(current) = d /\ Document!Kept(current) = -1 /\ Amount(-1) = 0
    BY <1>5 DEF Document!Charged, Document!Kept, Amount, due, told
  <2>2. doc.steps[message].source = "agent" /\ message \in 1..Len(doc.steps)
    BY <1>5, DocStep DEF DocumentInv, StepsInv
  <2>3. /\ d \in Doc /\ Len(d.steps) = Len(doc.steps)
        /\ d.reported = told.reported /\ d.early = doc.early /\ d.late = told.late
        /\ \A j \in 1..Len(doc.steps) : /\ d.steps[j].source = doc.steps[j].source
                                        /\ d.steps[j].calls = doc.steps[j].calls
        /\ Document!Total(d.steps) <= Document!Total(doc.steps) + due
        /\ Document!Valid(doc.steps) => Document!Valid(d.steps)
    <3>1. message \in 0..Len(told.steps) /\ last \in 0..Len(told.steps)
      BY <1>2, DocStep DEF DocumentInv
    <3> QED BY <1>2, <1>3, <2>2, <3>1, MeteredDoc, SMTT(30)
  <2> HIDE DEF d
  <2>4. Balanced(d, 0)
    <3>1. d.late /\ Document!Total(d.steps) \in Nat
      BY <1>2, <1>5, <2>3, TotalIsSum, DocIs
    <3>2. Document!Total(doc.steps) + Document!Owed <= doc.reported
      BY DEF DocumentInv, Balanced
    <3>3. due <= Document!Owed + (current - counter)
      BY <1>1, <1>3
    <3>4. d.reported = doc.reported + (current - counter)
      BY <1>2, <2>3
    <3>5. Document!Total(d.steps) <= d.reported
      <4>1. Document!Total(d.steps) <= Document!Total(doc.steps) + due
        BY <2>3
      <4>2. /\ Document!Total(d.steps) \in Nat /\ Document!Total(doc.steps) \in Nat
            /\ due \in Nat /\ Document!Owed \in Nat /\ doc.reported \in Nat
            /\ current - counter \in Nat
        BY <1>1, <1>3, <3>1
      <4> QED BY <3>2, <3>3, <3>4, <4>1, <4>2
    <3>6. d.reported \in Nat
      BY <1>1, <1>3, <3>4
    <3> QED BY <3>1, <3>5, <3>6 DEF Balanced
  <2>5. ~d.early => Document!Valid(d.steps)
    BY <2>3 DEF DocumentInv
  <2> QED BY <2>1, <2>3, <2>4, <2>5 DEF Ready
<1> QED BY <1>4, <1>5

\* The document is such a one, and the recorder remembers the same of its steps.
LEMMA ReadyStep ==
    ASSUME Document!DocumentAssumption, DocumentInv, backend = "codex",
           Ready(doc', owed'), CounterInv', counter' \in 0..MaxTokens, seen' \in 0..MaxTokens,
           UNCHANGED <<file, backend, last, message, text, pending, answered>>
    PROVE  DocumentInv'
<1>1. /\ doc' \in Doc /\ Len(doc'.steps) = Len(doc.steps) /\ owed' \in Nat \cup {-1}
      /\ \A j \in 1..Len(doc.steps) : /\ doc'.steps[j].source = doc.steps[j].source
                                      /\ doc'.steps[j].calls = doc.steps[j].calls
      /\ Balanced(doc', Amount(owed')) /\ (~doc'.early => Document!Valid(doc'.steps))
  BY DEF Ready
<1>2. Document!TypeOK'
  BY <1>1 DEF DocumentInv, Document!TypeOK, Doc
<1>3. FileInv'
  BY FileFrame DEF DocumentInv
<1>4. Balanced(doc, Document!Owed)'
  <2>1. Document!Owed' = Amount(owed')
    BY DEF Document!Owed, Amount
  <2> QED BY <1>1, <2>1 DEF Balanced
<1>5. StepsInv'
  <2>1. message # 0 => doc'.steps[message].source = "agent"
    <3>1. message # 0 => message \in 1..Len(doc.steps)
      BY DocStep DEF DocumentInv
    <3> QED BY <1>1, <3>1 DEF DocumentInv, StepsInv
  <2>2. ASSUME NEW c \in Calls, pending[c] # 0 PROVE c \in doc'.steps[pending[c]].calls
    <3>1. pending[c] \in 1..Len(doc.steps)
      BY <2>2, DocStep DEF DocumentInv
    <3> QED BY <1>1, <2>2, <3>1 DEF DocumentInv, StepsInv
  <2> QED BY <2>1, <2>2 DEF StepsInv
<1> QED BY <1>1, <1>2, <1>3, <1>4, <1>5 DEF DocumentInv

LEMMA ReportedCounter ==
    ASSUME Document!DocumentAssumption, DocumentInv, backend = "codex", backend' = backend,
           Document!Reported
    PROVE  /\ counter' \in counter..MaxTokens /\ CounterInv'
           /\ counter' \in 0..MaxTokens /\ seen' \in 0..MaxTokens
<1>1. /\ counter' \in counter..MaxTokens /\ seen' = counter'
      /\ counter \in 0..MaxTokens /\ MaxTokens \in Nat
  BY NumberFacts DEF Document!Reported, DocumentInv, Document!TypeOK
<1>2. counter' \in 0..MaxTokens
  BY <1>1
<1> QED BY <1>1, <1>2 DEF CounterInv

LEMMA CodexUsageStep ==
    ASSUME Document!DocumentAssumption, DocumentInv, Document!CodexUsage
    PROVE  DocumentInv'
<1>1. /\ backend = "codex" /\ Document!Reported
      /\ doc' = Document!Charged(counter') /\ owed' = Document!Kept(counter')
      /\ UNCHANGED <<file, backend, last, message, text, pending, answered>>
  BY DEF Document!CodexUsage
<1>2. /\ counter' \in counter..MaxTokens /\ CounterInv'
      /\ counter' \in 0..MaxTokens /\ seen' \in 0..MaxTokens
  BY <1>1, ReportedCounter
<1>3. Ready(Document!Charged(counter'), Document!Kept(counter'))
  BY <1>1, <1>2, ReportedReady
<1>4. Ready(doc', owed')
  BY <1>1, <1>3
<1> QED BY <1>1, <1>2, <1>4, ReadyStep

LEMMA LastAltered ==
    ASSUME NEW s \in Seq(StepTypes), NEW x \in StepTypes, NEW y \in StepTypes
    PROVE  [Append(s, x) EXCEPT ![Len(s) + 1] = y] = Append(s, y)
<1> DEFINE n == Len(s) + 1  a == Append(s, x)  b == Append(s, y)
<1>1. /\ a \in Seq(StepTypes) /\ Len(a) = n /\ b \in Seq(StepTypes) /\ Len(b) = n
      /\ b[n] = y /\ \A i \in 1..n : i # n => b[i] = a[i]
      /\ n \in Nat /\ n >= 1
  OBVIOUS
<1> HIDE DEF a, b, n
<1>2. a \in [1..n -> StepTypes] /\ b \in [1..n -> StepTypes] /\ n \in 1..n
  BY <1>1
<1>3. [a EXCEPT ![n] = y] = [i \in 1..n |-> IF i = n THEN y ELSE a[i]]
  BY <1>2
<1>4. b = [i \in 1..n |-> b[i]]
  BY <1>2
<1>5. \A i \in 1..n : b[i] = IF i = n THEN y ELSE a[i]
  BY <1>1
<1>6. [a EXCEPT ![n] = y] = b
  BY <1>3, <1>4, <1>5
<1> QED BY <1>6 DEF a, b, n

LEMMA CodexSpeaksStep ==
    ASSUME Document!DocumentAssumption, DocumentInv, Document!CodexSpeaks
    PROVE  DocumentInv'
<1>1. UNCHANGED <<file, doc, backend, last, message, seen, owed, pending, counter,
                  answered>>
  BY DEF Document!CodexSpeaks
<1>2. text' \in BOOLEAN
  BY Zenon DEF Document!CodexSpeaks
<1>3. Document!TypeOK'
  BY <1>1, <1>2 DEF DocumentInv, Document!TypeOK
<1>4. FileInv' /\ StepsInv' /\ CounterInv' /\ Balanced(doc, Document!Owed)'
  BY <1>1 DEF DocumentInv, FileInv, StepsInv, CounterInv, Balanced, Document!Owed
<1> QED BY <1>1, <1>3, <1>4 DEF DocumentInv

LEMMA CodexToolStep ==
    ASSUME Document!DocumentAssumption, DocumentInv, NEW c \in Calls, Document!CodexTool(c)
    PROVE  DocumentInv'
<1> DEFINE n == Len(doc.steps) + 1
           x == Document!Step("tool", {c})
           y == [x EXCEPT !.results = @ \cup {c}]
           d == Document!Appended(doc, x)
<1>1. /\ backend = "codex" /\ last' = n /\ doc' = Document!WithResult(d, c, n)
      /\ UNCHANGED <<file, backend, message, seen, owed, text, pending, counter,
                     answered>>
  BY DEF Document!CodexTool, Document!codex
<1>2. /\ x \in StepTypes /\ Document!Charge(x) = 0
      /\ y \in StepTypes /\ Document!Charge(y) = 0 /\ Sound(y)
  BY DEF Document!Step, StepTypes, Document!Charge, Sound
<1>3. doc \in Doc /\ n \in Nat /\ n # 0
  BY DocStep DEF DocumentInv
<1>4. doc' = Document!Appended(doc, y)
  <2>1. doc' = [d EXCEPT !.steps[n].results = @ \cup {c}]
    BY <1>1, <1>3 DEF Document!WithResult
  <2>2. d = [doc EXCEPT !.steps = Append(doc.steps, x)] /\ doc.steps \in Seq(StepTypes)
    BY <1>3, DocIs DEF Document!Appended
  <2>3. d.steps[n] = x /\ d.steps = Append(doc.steps, x)
    <3> HIDE DEF x, d
    <3> QED BY <1>3, <2>2, DocIs
  <2>4. doc' = [d EXCEPT !.steps = [d.steps EXCEPT ![n] = y]]
    BY <2>1, <2>3
  <2> HIDE DEF x, y, d, n
  <2>5. [d.steps EXCEPT ![n] = y] = Append(doc.steps, y)
    <3>1. [Append(doc.steps, x) EXCEPT ![n] = y] = Append(doc.steps, y)
      BY <1>2, <2>2, LastAltered, Zenon DEF n
    <3> QED BY <2>3, <3>1, Zenon
  <2>6. doc' = [doc EXCEPT !.steps = Append(doc.steps, y)]
    BY <1>3, <2>2, <2>4, <2>5, DocIs
  <2> QED BY <2>6 DEF Document!Appended
<1> HIDE DEF x, y, d
<1>5. /\ doc' \in Doc /\ Len(doc'.steps) = Len(doc.steps) + 1 /\ FileInv'
      /\ \A i \in 1..Len(doc.steps) : doc'.steps[i] = doc.steps[i]
      /\ doc'.reported = doc.reported /\ doc'.early = doc.early /\ doc'.late = doc.late
      /\ Document!Total(doc'.steps) = Document!Total(doc.steps)
      /\ ~doc'.early => Document!Valid(doc'.steps)
  BY <1>1, <1>2, <1>4, AddedStep, DocStep DEF DocumentInv
<1>6. Document!TypeOK'
  <2>1. pending' \in [Calls -> 0..Len(doc'.steps)] /\ last' \in 0..Len(doc'.steps)
        /\ message' \in 0..Len(doc'.steps)
    BY <1>1, <1>5, DocStep DEF DocumentInv, Document!TypeOK
  <2> QED BY <1>1, <1>5, <2>1 DEF DocumentInv, Document!TypeOK, Doc
<1>7. Balanced(doc, Document!Owed)'
  BY <1>1, <1>5 DEF DocumentInv, Balanced, Document!Owed
<1>8. StepsInv'
  <2>1. message # 0 => doc'.steps[message].source = "agent"
    BY <1>5, DocStep DEF DocumentInv, StepsInv
  <2>2. ASSUME NEW k \in Calls, pending[k] # 0 PROVE k \in doc'.steps[pending[k]].calls
    <3>1. pending[k] \in 1..Len(doc.steps)
      BY <2>2, DocStep DEF DocumentInv
    <3> QED BY <1>5, <2>2, <3>1 DEF DocumentInv, StepsInv
  <2> QED BY <1>1, <2>1, <2>2 DEF StepsInv
<1>9. CounterInv'
  BY <1>1, <1>5 DEF DocumentInv, CounterInv
<1> QED BY <1>1, <1>5, <1>6, <1>7, <1>8, <1>9 DEF DocumentInv

\* The turn's message is put down with what is owed.
LEMMA FlushStep ==
    ASSUME Document!DocumentAssumption, DocumentInv, backend = "codex",
           NEW e, NEW kept, Ready(e, kept), Document!Flush(e, kept),
           CounterInv', counter' \in 0..MaxTokens, seen' \in 0..MaxTokens,
           UNCHANGED <<file, backend, pending, answered>>
    PROVE  DocumentInv'
<1>1. CASE ~text /\ kept = -1
  BY <1>1, ReadyStep DEF Document!Flush
<1>2. CASE ~(~text /\ kept = -1)
  <2> DEFINE n == Len(e.steps) + 1
             x == Document!Step("agent", {})
             y == [x EXCEPT !.metrics = kept]
             d == Document!Appended(e, x)
  <2>1. /\ doc' = [d EXCEPT !.steps[n].metrics = kept]
        /\ last' = n /\ message' = n /\ owed' = -1 /\ text' = FALSE
    BY <1>2 DEF Document!Flush
  <2>2. /\ e \in Doc /\ Len(e.steps) = Len(doc.steps) /\ kept \in Nat \cup {-1}
        /\ \A j \in 1..Len(doc.steps) : /\ e.steps[j].source = doc.steps[j].source
                                        /\ e.steps[j].calls = doc.steps[j].calls
        /\ Balanced(e, Amount(kept)) /\ (~e.early => Document!Valid(e.steps))
        /\ Amount(kept) \in Nat
    BY DEF Ready, Amount
  <2>3. /\ x \in StepTypes /\ y \in StepTypes /\ Document!Charge(y) = Amount(kept)
        /\ Sound(y) /\ y.source = "agent"
    BY <2>2 DEF Document!Step, StepTypes, Document!Charge, Amount, Sound
  <2>4. n \in Nat /\ n # 0 /\ n = Len(doc.steps) + 1
    BY <2>2, DocIs
  <2>5. doc' = Document!Appended(e, y)
    <3>1. d = [e EXCEPT !.steps = Append(e.steps, x)] /\ e.steps \in Seq(StepTypes)
      BY <2>2, DocIs DEF Document!Appended
    <3>2. d.steps[n] = x /\ d.steps = Append(e.steps, x)
      BY <2>2, <3>1, DocIs
    <3>3. doc' = [d EXCEPT !.steps = [d.steps EXCEPT ![n] = y]]
      BY <2>1, <3>2
    <3> HIDE DEF x, y, d, n
    <3>4. [d.steps EXCEPT ![n] = y] = Append(e.steps, y)
      <4>1. [Append(e.steps, x) EXCEPT ![n] = y] = Append(e.steps, y)
        BY <2>3, <3>1, LastAltered, Zenon DEF n
      <4> QED BY <3>2, <4>1, Zenon
    <3>5. doc' = [e EXCEPT !.steps = Append(e.steps, y)]
      BY <2>2, <3>1, <3>3, <3>4, DocIs
    <3> QED BY <3>5 DEF Document!Appended
  <2> HIDE DEF x, y, d
  <2>6. /\ doc' \in Doc /\ Len(doc'.steps) = Len(doc.steps) + 1
        /\ doc'.reported = e.reported /\ doc'.early = e.early /\ doc'.late = e.late
        /\ \A i \in 1..Len(doc.steps) : doc'.steps[i] = e.steps[i]
        /\ doc'.steps[n] = y
        /\ Document!Total(doc'.steps) = Document!Total(e.steps) + Amount(kept)
        /\ Document!Total(e.steps) \in Nat
        /\ Document!Valid(e.steps) => Document!Valid(doc'.steps)
    <3> DEFINE g == Document!Appended(e, y)
    <3>1. /\ g \in Doc /\ Len(g.steps) = Len(e.steps) + 1
          /\ g.reported = e.reported /\ g.early = e.early /\ g.late = e.late
          /\ \A i \in 1..Len(e.steps) : g.steps[i] = e.steps[i]
          /\ g.steps[Len(e.steps) + 1] = y
          /\ Document!Total(g.steps) = Document!Total(e.steps) + Document!Charge(y)
          /\ Document!Total(e.steps) \in Nat
          /\ Document!Valid(e.steps) => Document!Valid(g.steps)
      <4>1. e \in Doc /\ y \in StepTypes /\ Sound(y)
        BY <2>2, <2>3
      <4> QED BY <4>1, AppendedFacts
    <3>2. doc' = g
      BY <2>5
    <3> HIDE DEF g
    <3>3. Len(e.steps) = Len(doc.steps) /\ Document!Charge(y) = Amount(kept)
      BY <2>2, <2>3
    <3> QED BY <3>1, <3>2, <3>3
  <2>7. Document!TypeOK'
    <3>1. pending' \in [Calls -> 0..Len(doc'.steps)] /\ last' \in 0..Len(doc'.steps)
          /\ message' \in 0..Len(doc'.steps)
      BY <2>1, <2>4, <2>6, DocStep DEF DocumentInv, Document!TypeOK
    <3>2. text' \in BOOLEAN
      BY <2>1, Zenon
    <3> QED BY <2>1, <2>6, <3>1, <3>2 DEF DocumentInv, Document!TypeOK, Doc
  <2>8. FileInv'
    BY FileFrame DEF DocumentInv
  <2>9. Balanced(doc, Document!Owed)'
    <3>1. Document!Owed' = 0
      BY <2>1 DEF Document!Owed
    <3> QED BY <2>2, <2>6, <3>1 DEF Balanced
  <2>10. StepsInv'
    <3>1. ASSUME NEW k \in Calls, pending[k] # 0 PROVE k \in doc'.steps[pending[k]].calls
      <4>1. pending[k] \in 1..Len(doc.steps)
        BY <3>1, DocStep DEF DocumentInv
      <4> QED BY <2>2, <2>6, <3>1, <4>1 DEF DocumentInv, StepsInv
    <3> QED BY <2>1, <2>3, <2>6, <3>1 DEF StepsInv
  <2>11. ~doc'.early => Document!Valid(doc'.steps)
    BY <2>2, <2>6
  <2> QED BY <2>7, <2>8, <2>9, <2>10, <2>11 DEF DocumentInv
<1> QED BY <1>1, <1>2

LEMMA TurnCompletedStep ==
    ASSUME Document!DocumentAssumption, DocumentInv, Document!TurnCompleted
    PROVE  DocumentInv'
<1>1. backend = "codex" /\ UNCHANGED <<file, backend, pending, answered>>
  BY DEF Document!TurnCompleted
<1>2. CASE Document!Flush(doc, owed) /\ UNCHANGED <<seen, counter>>
  <2>1. CounterInv' /\ counter' \in 0..MaxTokens /\ seen' \in 0..MaxTokens
    <3>1. owed' = -1 \/ backend' = "codex"
      BY <1>1
    <3> QED BY <1>1, <1>2 DEF DocumentInv, Document!TypeOK, CounterInv
  <2>2. Ready(doc, owed)
    BY <1>1, HeldReady
  <2> QED BY <1>1, <1>2, <2>1, <2>2, FlushStep
<1>3. CASE Document!Reported /\ Document!Flush(Document!Charged(counter'), Document!Kept(counter'))
  <2>1. /\ counter' \in counter..MaxTokens /\ CounterInv'
        /\ counter' \in 0..MaxTokens /\ seen' \in 0..MaxTokens
    BY <1>1, <1>3, ReportedCounter
  <2> DEFINE e == Document!Charged(counter')  kept == Document!Kept(counter')
  <2>2. Ready(e, kept) /\ Document!Flush(e, kept)
    BY <1>1, <1>3, <2>1, ReportedReady
  <2> HIDE DEF e, kept
  <2> QED BY <1>1, <2>1, <2>2, FlushStep
<1> QED BY <1>2, <1>3 DEF Document!TurnCompleted

LEMMA DocumentStep ==
    ASSUME Document!DocumentAssumption, DocumentInv, [Document!Next]_Document!vars
    PROVE  DocumentInv'
<1>1. CASE UNCHANGED Document!vars
  <2>1. UNCHANGED <<file, doc, backend, last, message, seen, owed, text, pending, counter,
                    answered>>
    BY <1>1 DEF Document!vars, Document!codex
  <2>2. Document!TypeOK' /\ FileInv' /\ StepsInv' /\ CounterInv'
    BY <2>1 DEF DocumentInv, Document!TypeOK, FileInv, Balanced, StepsInv, CounterInv
  <2>3. Balanced(doc, Document!Owed)'
    BY <2>1 DEF DocumentInv, Balanced, Document!Owed
  <2> QED BY <2>1, <2>2, <2>3 DEF DocumentInv
<1>2. CASE Document!Next
  BY <1>2, OpenStep, RetryStep, CloseStep, ClaudeAnswersStep, SystemMessageStep,
     ClaudeResultStep, CodexUsageStep, CodexSpeaksStep, TurnCompletedStep, ToolReturnsStep,
     CodexToolStep DEF Document!Next
<1> QED BY <1>1, <1>2

LEMMA DocumentFaithful == DocumentInv => Document!RecordIsFaithful
  BY DEF DocumentInv, Balanced, Document!RecordIsFaithful

-----------------------------------------------------------------------------
(* AuditPipeline: its theorems are about its own behaviours, and those of the system are  *)
(* such.                                                                                  *)

PP == INSTANCE AuditPipelineProofs

LEMMA PipelineBehaves ==
    /\ SysInit => PP!Init
    /\ [SysNext]_SysVars => [PP!Next]_PP!vars
    /\ PP!PipelineAssumption
<1>1. SysInit => PP!Init
  BY DEF SysInit, Pipeline!Init, PP!Init, Pipeline!Fresh, PP!Fresh, Pipeline!Inherited,
     PP!Inherited, Pipeline!Tasks, PP!Tasks, Pipeline!Research, PP!Research,
     Pipeline!Decomposition, PP!Decomposition, Pipeline!Search, PP!Search,
     Pipeline!Evaluation, PP!Evaluation, Pipeline!Reproduction, PP!Reproduction,
     Pipeline!Disclosure, PP!Disclosure, Pipeline!Stages, PP!Stages, Pipeline!Writers,
     PP!Writers, Pipeline!Contents, PP!Contents
<1>2. Pipeline!Next <=> PP!Next
  BY DEF Pipeline!Cardinality, PP!Cardinality, Pipeline!inputs, PP!inputs,
     Pipeline!pocs, PP!pocs, Pipeline!settings, PP!settings, Pipeline!disk, PP!disk,
     Pipeline!vars, PP!vars, Pipeline!Writers, PP!Writers, Pipeline!Contents,
     PP!Contents, Pipeline!Stages, PP!Stages, Pipeline!Earlier, PP!Earlier,
     Pipeline!Research, PP!Research, Pipeline!Decomposition, PP!Decomposition,
     Pipeline!Search, PP!Search, Pipeline!Evaluation, PP!Evaluation,
     Pipeline!Reproduction, PP!Reproduction, Pipeline!Disclosure, PP!Disclosure,
     Pipeline!Tasks, PP!Tasks, Pipeline!Busy, PP!Busy, Pipeline!Over, PP!Over,
     Pipeline!AllOver, PP!AllOver, Pipeline!Begun, PP!Begun, Pipeline!Enter, PP!Enter,
     Pipeline!EndWith, PP!EndWith, Pipeline!ResetState, PP!ResetState, Pipeline!Start,
     PP!Start, Pipeline!SetUp, PP!SetUp, Pipeline!SlotFree, PP!SlotFree,
     Pipeline!Settle, PP!Settle, Pipeline!Made, PP!Made, Pipeline!KeepResearch,
     PP!KeepResearch, Pipeline!DoResearch, PP!DoResearch, Pipeline!KeepUnits,
     PP!KeepUnits, Pipeline!Decompose, PP!Decompose, Pipeline!Decomposed, PP!Decomposed,
     Pipeline!Of, PP!Of, Pipeline!BrokenFiles, PP!BrokenFiles, Pipeline!KeepFindings,
     PP!KeepFindings, Pipeline!SearchUnit, PP!SearchUnit, Pipeline!AgentFinds,
     PP!AgentFinds, Pipeline!Searched, PP!Searched, Pipeline!Candidates, PP!Candidates,
     Pipeline!BeginEvaluation, PP!BeginEvaluation, Pipeline!KeepVerdict, PP!KeepVerdict,
     Pipeline!EvaluateFinding, PP!EvaluateFinding, Pipeline!Evaluated, PP!Evaluated,
     Pipeline!Selected, PP!Selected, Pipeline!BeginReproduction, PP!BeginReproduction,
     Pipeline!OpenWorktree, PP!OpenWorktree, Pipeline!ReportOf, PP!ReportOf,
     Pipeline!ResolveReport, PP!ResolveReport, Pipeline!KeepReproduction,
     PP!KeepReproduction, Pipeline!Reproduce, PP!Reproduce, Pipeline!AgentReproduces,
     PP!AgentReproduces, Pipeline!Reproduced, PP!Reproduced,
     Pipeline!ExportReproduction, PP!ExportReproduction,
     Pipeline!ReproducedInSandbox, PP!ReproducedInSandbox, Pipeline!Reports, PP!Reports,
     Pipeline!Disclosable, PP!Disclosable, Pipeline!BeginDisclosure, PP!BeginDisclosure,
     Pipeline!Blocked, PP!Blocked, Pipeline!Valid, PP!Valid, Pipeline!Enforced,
     PP!Enforced, Pipeline!KeepDisclosure, PP!KeepDisclosure, Pipeline!RefuseDisclosure,
     PP!RefuseDisclosure, Pipeline!Disclose, PP!Disclose, Pipeline!AgentDiscloses,
     PP!AgentDiscloses, Pipeline!Disclosed, PP!Disclosed, Pipeline!ExportDisclosure,
     PP!ExportDisclosure, Pipeline!DisclosedInSandbox, PP!DisclosedInSandbox,
     Pipeline!CompleteDisclosure, PP!CompleteDisclosure, Pipeline!RemoveWorktree,
     PP!RemoveWorktree, Pipeline!FinishAudit, PP!FinishAudit, Pipeline!TaskFails,
     PP!TaskFails, Pipeline!StageFails, PP!StageFails, Pipeline!Stop, PP!Stop,
     Pipeline!Orphaned, PP!Orphaned, Pipeline!StopCleaning, PP!StopCleaning,
     Pipeline!Exporting, PP!Exporting, Pipeline!Crash, PP!Crash, Pipeline!Next, PP!Next
<1>3. [SysNext]_SysVars => [PP!Next]_PP!vars
  BY <1>2 DEF SysNext, SysVars, pipelineVars, PP!vars, PP!inputs, PP!pocs, PP!settings, PP!disk
<1>4. PP!PipelineAssumption
  BY InstancesAreMeant DEF InstancesAreMeant, Pipeline!PipelineAssumption,
     PP!PipelineAssumption
<1> QED BY <1>1, <1>3, <1>4

LEMMA PipelineSpec == SysSpec => PP!Spec
  BY PipelineBehaves, PTL DEF SysSpec, PP!Spec

LEMMA PipelineMeaning ==
    /\ PP!TypeOK => Pipeline!TypeOK
    /\ PP!EvaluatedAsFound => Pipeline!EvaluatedAsFound
    /\ PP!DoneMeansSettled => Pipeline!DoneMeansSettled
    /\ PP!DisclosureHasEvidence => Pipeline!DisclosureHasEvidence
    /\ PP!LastStageIsOfThisAttempt => Pipeline!LastStageIsOfThisAttempt
<1>1. PP!TypeOK => Pipeline!TypeOK
  BY DEF Pipeline!TypeOK, PP!TypeOK, Pipeline!Stages, PP!Stages, Pipeline!Writers, PP!Writers,
     Pipeline!Contents, PP!Contents, Pipeline!Tasks, PP!Tasks, Pipeline!Research, PP!Research,
     Pipeline!Decomposition, PP!Decomposition, Pipeline!Search, PP!Search,
     Pipeline!Evaluation, PP!Evaluation, Pipeline!Reproduction, PP!Reproduction,
     Pipeline!Disclosure, PP!Disclosure, Pipeline!Busy, PP!Busy, Pipeline!Over, PP!Over
<1>2. PP!EvaluatedAsFound => Pipeline!EvaluatedAsFound
  BY DEF Pipeline!EvaluatedAsFound, PP!EvaluatedAsFound, Pipeline!Writers, PP!Writers
<1>3. PP!DoneMeansSettled => Pipeline!DoneMeansSettled
  BY DEF Pipeline!DoneMeansSettled, PP!DoneMeansSettled, Pipeline!Selected, PP!Selected,
     Pipeline!ReportOf, PP!ReportOf, Pipeline!Valid, PP!Valid, Pipeline!Enforced, PP!Enforced,
     Pipeline!Blocked, PP!Blocked
<1>4. PP!DisclosureHasEvidence => Pipeline!DisclosureHasEvidence
  BY DEF Pipeline!DisclosureHasEvidence, PP!DisclosureHasEvidence
<1>5. PP!LastStageIsOfThisAttempt => Pipeline!LastStageIsOfThisAttempt
  BY DEF Pipeline!LastStageIsOfThisAttempt, PP!LastStageIsOfThisAttempt, Pipeline!Stages,
     PP!Stages, Pipeline!AllOver, PP!AllOver, Pipeline!Over, PP!Over, Pipeline!Disclosure,
     PP!Disclosure
<1> QED BY <1>1, <1>2, <1>3, <1>4, <1>5

-----------------------------------------------------------------------------
(* The system: a behaviour is of one of the components, while the others stay as they     *)
(* started, so each invariant holds of every behaviour.                                   *)

PartsInv == ContainerInv /\ IndexInv /\ DocumentInv

LEMMA PartsStart == SysInit => PartsInv
  BY InstancesAreMeant, ContainerStarts, IndexStarts, DocumentStarts
  DEF InstancesAreMeant, SysInit, PartsInv

LEMMA PartsStep == PartsInv /\ [SysNext]_SysVars => PartsInv'
<1> SUFFICES ASSUME PartsInv, [SysNext]_SysVars PROVE PartsInv'
  OBVIOUS
<1>1. [Container!Next]_Container!vars
  BY DEF SysNext, SysVars, sandboxVars, Container!vars, Container!ghost
<1>2. [Index!Next]_Index!vars
  BY DEF SysNext, SysVars, indexVars, Index!vars, Index!own
<1>3. [Document!Next]_Document!vars
  BY DEF SysNext, SysVars, docVars, Document!vars, Document!codex
<1> QED BY <1>1, <1>2, <1>3, InstancesAreMeant, ContainerStep, IndexStep, DocumentStep
        DEF InstancesAreMeant, PartsInv

\* The inductive invariant of the records and the sandbox, whatever their bounds.
THEOREM PartsInvariant == SysSpec => []PartsInv
  BY PartsStart, PartsStep, PTL DEF SysSpec

\* sandbox.py: clean-up takes what it has to and no container in use, whatever supervisors
\* are killed and in whatever order the daemon, the host and retries go on; where host
\* processes were not all cleaned up, or a record could not be written, less is claimed.
THEOREM ContainersCleanedUp == SysSpec => []CleanupIsExact
<1>1. PartsInv => CleanupIsExact
  BY ContainerExact DEF PartsInv, CleanupIsExact
<1> QED BY <1>1, PartsInvariant, PTL

\* _finish_run_trajectory, _backfill_subagent_refs: a run document that was written refers
\* once to the documents of its session within the backfill's limits, and sums the usage of
\* the attempts that wrote it, after any attempts, crashes and repairs; what a purge beside
\* an audit may undo is excepted.
THEOREM RunDocumentComplete == SysSpec => []IndexIsComplete
<1>1. PartsInv => IndexIsComplete
  BY InstancesAreMeant, IndexComplete DEF InstancesAreMeant, PartsInv, IndexIsComplete
<1> QED BY <1>1, PartsInvariant, PTL

\* TrajectoryRecorder: the document is valid and never says that more was charged than was
\* reported, and says exactly that but in the cases RecordIsFaithful names, for documents
\* of any length.
THEOREM DocumentsAreFaithful == SysSpec => []RecordIsFaithful
<1>1. PartsInv => RecordIsFaithful
  BY DocumentFaithful DEF PartsInv, RecordIsFaithful
<1> QED BY <1>1, PartsInvariant, PTL

\* run_stage3, run_stage4: a verdict that stands is of the text there, unless the unit was
\* left unmarked or, marked, was searched again for an invalid file.
THEOREM FindingsAreEvaluated == SysSpec => []EvaluatedAsFound
<1>1. PP!Spec => []PP!EvaluatedAsFound
  BY PipelineBehaves, PP!VerdictsAreOfFindings
<1>2. PP!EvaluatedAsFound => EvaluatedAsFound
  BY PipelineMeaning DEF EvaluatedAsFound
<1> QED BY <1>1, <1>2, PipelineSpec, PTL

\* _run_audit_stages: an audit that is done has settled every task, whichever attempt, and
\* whatever state of the directory, the results it takes over date from.
THEOREM DoneAuditsAreSettled == SysSpec => []DoneMeansSettled
<1>1. PP!Spec => []PP!DoneMeansSettled
  BY PipelineBehaves, PP!DoneIsSettled
<1>2. PP!DoneMeansSettled => DoneMeansSettled
  BY PipelineMeaning DEF DoneMeansSettled
<1> QED BY <1>1, <1>2, PipelineSpec, PTL

\* run_stage5, run_stage6, ensure_poc_worktree: no package is marked without its evidence,
\* and evidence is of the commit under audit but where a git whose audit is gone is still
\* removing the worktree.
THEOREM DisclosuresHaveEvidence == SysSpec => []DisclosureHasEvidence
<1>1. PP!Spec => []PP!DisclosureHasEvidence
  BY PipelineBehaves, PP!PackagesHaveEvidence
<1>2. PP!DisclosureHasEvidence => DisclosureHasEvidence
  BY PipelineMeaning DEF DisclosureHasEvidence
<1> QED BY <1>1, <1>2, PipelineSpec, PTL

\* StageStateStore: Stage 6 is recorded done only by an attempt that went through all its
\* stages, and no later attempt starts with that record; how the removal of the worktree
\* after it ends is left open.
THEOREM StageRecordsAreRecent == SysSpec => []LastStageIsOfThisAttempt
<1>1. PP!Spec => []PP!LastStageIsOfThisAttempt
  BY PipelineBehaves, PP!LastStageIsRecent
<1>2. PP!LastStageIsOfThisAttempt => LastStageIsOfThisAttempt
  BY PipelineMeaning DEF LastStageIsOfThisAttempt
<1> QED BY <1>1, <1>2, PipelineSpec, PTL

\* Every component's state keeps its type in the system.
THEOREM SystemTyped == SysSpec => []AllTyped
<1>1. PP!Spec => []PP!TypeOK
  BY PipelineBehaves, PP!PipelineTyped
<1>2. SysInit => Init
  BY DEF SysInit
<1>3. [SysNext]_SysVars => [Next]_vars
  BY DEF SysNext, SysVars, vars, tree, store, ghost
<1>4. Spec => []TypeOK
  BY InstancesAreMeant, StoreTypeCorrect DEF InstancesAreMeant
<1>5. PP!TypeOK /\ TypeOK /\ PartsInv => AllTyped
  BY PipelineMeaning DEF AllTyped, PartsInv, ContainerInv, IndexInv, DocumentInv
<1> QED BY <1>1, <1>2, <1>3, <1>4, <1>5, PipelineSpec, PartsInvariant, PTL DEF SysSpec, Spec
=============================================================================
