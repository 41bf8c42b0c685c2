------------------------------- MODULE Stage4 -------------------------------
(***************************************************************************)
(* Stage 4 of the audit (stages/stage4.py): candidate findings are         *)
(* evaluated by agents in parallel, each leaving a pending document or     *)
(* none and a completion marker; then, in one thread, the confirmed ones   *)
(* are deduplicated, given identifiers and moved to their final files.     *)
(* Everything the stage knows survives only in files: an audit that is     *)
(* stopped, fails or crashes starts the stage again from them.             *)
(***************************************************************************)
EXTENDS Integers, FiniteSets, FiniteSetsExt

CONSTANTS
    Findings,       \* the candidate files of Stage 3
    SeverityOf,     \* severity of the CVSS score an evaluation arrives at
    KeyOf,          \* build_dedupe_key of its document
    Position,       \* place in the list of candidates
    Inventory,      \* dedupe keys of the known Disclosures
    MaxParallel,    \* max_parallel
    MaxCrashes,     \* bound: how often the stage is cut short
    NoName

Severities == {"Critical", "High", "Medium", "Low"}
Rank == [Critical |-> 1, High |-> 2, Medium |-> 3, Low |-> 4]
Names == Severities \X (Nat \ {0})

ASSUME Stage4Assumption ==
    /\ IsFiniteSet(Findings)
    /\ SeverityOf \in [Findings -> Severities]
    /\ Position \in [Findings -> Nat]
    /\ \A f, g \in Findings : Position[f] = Position[g] => f = g
    /\ MaxParallel \in Nat \ {0}
    /\ MaxCrashes \in Nat
    /\ NoName \notin Names

VARIABLES
    markers,        \* completion markers of the findings (.markers/)
    pending,        \* _pending/<finding>.json
    duplicates,     \* _duplicates/<finding>.json
    final,          \* the documents under identifiers, <severity>-<number>.json
    phase,          \* where run_stage4 is
    at,             \* what the worker of each finding is doing, or its result
    batch,          \* findings still on their way to a final file
    drop,           \* findings judged duplicates, their files not yet put away
    counter,        \* highest number given per severity
    writing,        \* final document moved into place and not yet rewritten
    torn,           \* history: it was cut short between a move and its rewrite
    crashes

vars == <<markers, pending, duplicates, final, phase, at, batch, drop, counter,
          writing, torn, crashes>>

\* A final file holds the document of a finding; its id field is NoName while
\* it still says "TBD", and it is not whole while being rewritten.
Documents == [name : Names, finding : Findings, id : Names \cup {NoName}, whole : BOOLEAN]

NoCounts == [s \in Severities |-> 0]

Outranks(f, g) ==
    \/ Rank[SeverityOf[f]] < Rank[SeverityOf[g]]
    \/ SeverityOf[f] = SeverityOf[g] /\ Position[f] < Position[g]

Init ==
    /\ markers = {} /\ pending = [f \in Findings |-> "none"]
    /\ duplicates = {} /\ final = {}
    /\ phase = "down"
    /\ at = [f \in Findings |-> "waiting"]
    /\ batch = {} /\ drop = {} /\ counter = NoCounts /\ writing = NoName
    /\ torn = FALSE /\ crashes = 0

-----------------------------------------------------------------------------
(* Evaluation *)

\* _backfill_stage4_markers: a pending file of an earlier attempt counts as
\* evaluated, whoever left it.
Start ==
    /\ phase \in {"down", "done"}
    /\ phase' = "evaluate"
    /\ markers' = markers \cup {f \in Findings : pending[f] # "none"}
    /\ at' = [f \in Findings |-> "waiting"]
    /\ UNCHANGED <<pending, duplicates, final, batch, drop, counter, writing, torn, crashes>>

Evaluating(f) == at[f] \in {"agent", "repair"}
SlotFree == Cardinality({f \in Findings : Evaluating(f)}) < MaxParallel

\* Faulty variant: a marker is enough to skip a finding.
SkipMarked(f) ==
    /\ phase = "evaluate" /\ at[f] = "waiting" /\ SlotFree
    /\ f \in markers
    /\ at' = [at EXCEPT ![f] = "none"]
    /\ UNCHANGED <<markers, pending, duplicates, final, phase, batch, drop, counter,
                   writing, torn, crashes>>

\* Marked complete: a valid pending file is the result; without a file there is none.
Skip(f) ==
    /\ phase = "evaluate" /\ at[f] = "waiting" /\ SlotFree
    /\ f \in markers /\ pending[f] # "invalid"
    /\ at' = [at EXCEPT ![f] = IF pending[f] = "valid" THEN "confirmed" ELSE "none"]
    /\ UNCHANGED <<markers, pending, duplicates, final, phase, batch, drop, counter,
                   writing, torn, crashes>>

\* Not evaluated yet, or with an invalid result, which is deleted.
Evaluate(f) ==
    /\ phase = "evaluate" /\ at[f] = "waiting" /\ SlotFree
    /\ f \notin markers \/ pending[f] = "invalid"
    /\ markers' = markers \ {f}
    /\ pending' = [pending EXCEPT ![f] = "none"]
    /\ at' = [at EXCEPT ![f] = "agent"]
    /\ UNCHANGED <<duplicates, final, phase, batch, drop, counter, writing, torn, crashes>>

\* The agent writes, or repairs, its document; its file may be wrong or partial.
AgentWrites(f) ==
    /\ Evaluating(f)
    /\ \E document \in {"valid", "invalid"} : pending' = [pending EXCEPT ![f] = document]
    /\ UNCHANGED <<markers, duplicates, final, phase, at, batch, drop, counter, writing,
                   torn, crashes>>

\* Faulty variant: the result of the one repair is not looked at.
AgentReturnsUnchecked(f) ==
    /\ Evaluating(f)
    /\ IF pending[f] = "invalid" /\ at[f] = "agent"
       THEN /\ at' = [at EXCEPT ![f] = "repair"]
            /\ UNCHANGED <<markers, pending>>
       ELSE /\ at' = [at EXCEPT ![f] = IF pending[f] = "none" THEN "none" ELSE "confirmed"]
            /\ markers' = markers \cup {f}
            /\ UNCHANGED pending
    /\ UNCHANGED <<duplicates, final, phase, batch, drop, counter, writing, torn, crashes>>

\* The agent returns: no file is a rejection, a valid one a confirmation, an
\* invalid one is repaired once and then given up.
AgentReturns(f) ==
    /\ Evaluating(f)
    /\ IF pending[f] # "invalid"
       THEN /\ at' = [at EXCEPT ![f] = IF pending[f] = "valid" THEN "confirmed" ELSE "none"]
            /\ markers' = markers \cup {f}
            /\ UNCHANGED pending
       ELSE IF at[f] = "agent"
       THEN /\ at' = [at EXCEPT ![f] = "repair"]
            /\ UNCHANGED <<markers, pending>>
       ELSE /\ at' = [at EXCEPT ![f] = "none"]
            /\ pending' = [pending EXCEPT ![f] = "none"]
            /\ markers' = markers \ {f}
    /\ UNCHANGED <<duplicates, final, phase, batch, drop, counter, writing, torn, crashes>>

\* The agent raises: a task error is recorded and the other findings go on.
AgentFails(f) ==
    /\ Evaluating(f)
    /\ at' = [at EXCEPT ![f] = "failed"]
    /\ UNCHANGED <<markers, pending, duplicates, final, phase, batch, drop, counter,
                   writing, torn, crashes>>

-----------------------------------------------------------------------------
(* Deduplication *)

(***************************************************************************)
(* filter_semantic_duplicates goes through the candidates in their order.  *)
(* One whose key is known is a duplicate; for any other the agent may      *)
(* decide so, once there is something to compare it with.  A failing agent *)
(* keeps the candidate.                                                    *)
(***************************************************************************)
\* (Faulty variant: a duplicate needs no representative.)
RetainableAny(candidates) ==
    {kept \in SUBSET candidates :
        /\ \A f, g \in kept : f # g => KeyOf[f] # KeyOf[g]
        /\ \A f \in kept : KeyOf[f] \notin Inventory}
Retainable(candidates) ==
    {kept \in SUBSET candidates :
        /\ \A f, g \in kept : f # g => KeyOf[f] # KeyOf[g]
        /\ \A f \in kept : KeyOf[f] \notin Inventory
        /\ \A f \in candidates \ kept :
              Inventory # {} \/ \E g \in kept : Position[g] < Position[f]}

SemanticDedupe ==
    /\ phase = "evaluate"
    /\ \A f \in Findings : at[f] \notin {"waiting", "agent", "repair"}
    /\ LET candidates == {f \in Findings : at[f] = "confirmed"}
       IN  \E kept \in Retainable(candidates) :
             /\ batch' = kept
             /\ drop' = candidates \ kept
    /\ phase' = "divert"
    /\ UNCHANGED <<markers, pending, duplicates, final, at, counter, writing, torn, crashes>>

\* One duplicate is moved to _duplicates/.
Divert(f) ==
    /\ phase = "divert" /\ f \in drop
    /\ drop' = drop \ {f}
    /\ pending' = [pending EXCEPT ![f] = "none"]
    /\ duplicates' = duplicates \cup {f}
    /\ UNCHANGED <<markers, final, phase, at, batch, counter, writing, torn, crashes>>

-----------------------------------------------------------------------------
(* Identifiers *)

\* Existing documents that can be parsed; those still "TBD" have no number.
Readable == {d \in final : d.whole}
\* Faulty variants: numbering does not look at the files of earlier attempts; it
\* starts one too low.
HighestFromOne(s) == 0
HighestFromZero(s) ==
    Max({-1} \cup {d.id[2] : d \in {e \in Readable : e.id # NoName /\ e.id[1] = s}})
Highest(s) ==
    Max({0} \cup {d.id[2] : d \in {e \in Readable : e.id # NoName /\ e.id[1] = s}})

\* Faulty variant: existing final files are not compared with.
ExactDuplicatesInBatch ==
    {f \in batch : \E g \in batch : KeyOf[g] = KeyOf[f] /\ Outranks(g, f)}
\* _dedupe_findings: documents with the key of an existing or a higher ranked one.
ExactDuplicates ==
    {f \in batch : \/ \E d \in Readable : KeyOf[d.finding] = KeyOf[f]
                   \/ \E g \in batch : KeyOf[g] = KeyOf[f] /\ Outranks(g, f)}

\* _assign_ids_and_finalize reads the existing files.
ReadFinal ==
    /\ phase = "divert" /\ drop = {}
    /\ phase' = "assign"
    /\ counter' = [s \in Severities |-> Highest(s)]
    /\ drop' = ExactDuplicates
    /\ batch' = batch \ ExactDuplicates
    /\ UNCHANGED <<markers, pending, duplicates, final, at, writing, torn, crashes>>

\* An exact duplicate's pending file is deleted.
Unlink(f) ==
    /\ phase = "assign" /\ f \in drop
    /\ drop' = drop \ {f}
    /\ pending' = [pending EXCEPT ![f] = "none"]
    /\ UNCHANGED <<markers, duplicates, final, phase, at, batch, counter, writing, torn, crashes>>

\* shutil.move to the next identifier of the severity: what has that name is replaced.
MoveToFinal(f) ==
    /\ phase = "assign" /\ drop = {} /\ writing = NoName
    /\ f \in batch /\ \A g \in batch : Rank[SeverityOf[f]] <= Rank[SeverityOf[g]]
    /\ LET n == <<SeverityOf[f], counter[SeverityOf[f]] + 1>>
       IN  /\ final' = {d \in final : d.name # n}
                         \cup {[name |-> n, finding |-> f, id |-> NoName, whole |-> TRUE]}
           /\ writing' = n
    /\ counter' = [counter EXCEPT ![SeverityOf[f]] = @ + 1]
    /\ pending' = [pending EXCEPT ![f] = "none"]
    /\ batch' = batch \ {f}
    /\ UNCHANGED <<markers, duplicates, phase, at, drop, torn, crashes>>

\* document.write truncates the file, then writes the document with its identity.
Rewrite ==
    /\ writing # NoName
    /\ \E d \in final :
          /\ d.name = writing
          /\ IF d.whole
             THEN /\ final' = (final \ {d}) \cup {[d EXCEPT !.whole = FALSE]}
                  /\ UNCHANGED writing
             ELSE /\ final' = (final \ {d}) \cup {[d EXCEPT !.whole = TRUE, !.id = d.name]}
                  /\ writing' = NoName
    /\ UNCHANGED <<markers, pending, duplicates, phase, at, batch, drop, counter, torn, crashes>>

Finish ==
    /\ phase = "assign" /\ batch = {} /\ drop = {} /\ writing = NoName
    /\ phase' = "done"
    /\ at' = [f \in Findings |-> "waiting"]
    /\ counter' = NoCounts
    /\ UNCHANGED <<markers, pending, duplicates, final, batch, drop, writing, torn, crashes>>

-----------------------------------------------------------------------------
\* The worker dies, the audit is stopped at an await, or a file cannot be written.
Crash ==
    /\ phase \in {"evaluate", "divert", "assign"} /\ crashes < MaxCrashes
    /\ phase' = "down"
    /\ at' = [f \in Findings |-> "waiting"]
    /\ batch' = {} /\ drop' = {} /\ counter' = NoCounts /\ writing' = NoName
    /\ torn' = (torn \/ writing # NoName)
    /\ crashes' = crashes + 1
    /\ UNCHANGED <<markers, pending, duplicates, final>>

EvaluationMoves(f) ==
    \/ Skip(f) \/ Evaluate(f) \/ AgentWrites(f) \/ AgentReturns(f) \/ AgentFails(f)

Next ==
    \/ Start \/ SemanticDedupe \/ ReadFinal \/ Rewrite \/ Finish \/ Crash
    \/ \E f \in Findings : EvaluationMoves(f) \/ Divert(f) \/ Unlink(f) \/ MoveToFinal(f)

(***************************************************************************)
(* Fairness.  The audit is taken up again whenever it was cut short; agent *)
(* calls are bounded in turns and time and return; the rest is code that   *)
(* runs.                                                                   *)
(***************************************************************************)
Fairness ==
    /\ WF_vars(Start) /\ WF_vars(SemanticDedupe) /\ WF_vars(ReadFinal)
    /\ WF_vars(Rewrite) /\ WF_vars(Finish)
    /\ WF_vars(\E f \in Findings : Divert(f) \/ Unlink(f) \/ MoveToFinal(f))
    /\ \A f \in Findings : WF_vars(Skip(f) \/ Evaluate(f)) /\ WF_vars(AgentReturns(f))

Spec == Init /\ [][Next]_vars
FairSpec == Spec /\ Fairness

-----------------------------------------------------------------------------
(* Properties *)

TypeOK ==
    /\ markers \subseteq Findings
    /\ pending \in [Findings -> {"none", "valid", "invalid"}]
    /\ duplicates \subseteq Findings
    /\ final \subseteq Documents
    /\ phase \in {"down", "evaluate", "divert", "assign", "done"}
    /\ at \in [Findings -> {"waiting", "agent", "repair", "none", "confirmed", "failed"}]
    /\ batch \subseteq Findings /\ drop \subseteq Findings
    /\ counter \in [Severities -> Nat]
    /\ writing \in Names \cup {NoName}
    /\ crashes \in 0 .. MaxCrashes

(***************************************************************************)
(* Deduplication works across attempts: no two final documents describe    *)
(* the same vulnerability.                                                 *)
(***************************************************************************)
FinalKeysUnique ==
    \A d, e \in Readable : d # e => KeyOf[d.finding] # KeyOf[e.finding]

(***************************************************************************)
(* An identifier that was given is never given again and its document      *)
(* stays, whatever happens to later attempts: Stage 5, Stage 6 and the     *)
(* Disclosures refer to it.                                                *)
(***************************************************************************)
IdentityStable ==
    [][\A d \in final : d.whole /\ d.id # NoName => d \in final']_vars

(***************************************************************************)
(* When the stage ends, nothing it had confirmed, in this attempt or an    *)
(* earlier one, is left behind among the pending files.                    *)
(***************************************************************************)
ConfirmedAreFinal ==
    phase = "done" => \A f \in markers : pending[f] # "valid"

(***************************************************************************)
(* Only a valid document is ever given an identifier or judged a           *)
(* duplicate: what deduplication and numbering work on is what evaluation  *)
(* accepted, still in its file.                                            *)
(***************************************************************************)
BatchIsValid == \A f \in batch \cup drop : pending[f] = "valid" /\ f \in markers

(***************************************************************************)
(* The refinement mapping: what the files say of a finding.                *)
(***************************************************************************)
Entry(f) ==
    IF \E d \in final : d.finding = f
    THEN [state |-> "reported", name |-> (CHOOSE d \in final : d.finding = f).name]
    ELSE [state |-> IF f \notin markers \/ pending[f] = "invalid" THEN "open"
                    ELSE IF pending[f] = "valid" THEN "confirmed" ELSE "closed",
          name |-> NoName]

Ledger == INSTANCE FindingLedger WITH
    HasInventory <- Inventory # {}, ledger <- [f \in Findings |-> Entry(f)]

(***************************************************************************)
(* Every step keeps the promises of FindingLedger, until the stage is cut  *)
(* short between the move of a document and the end of its rewrite.        *)
(***************************************************************************)
KeepsLedger ==
    Ledger!Init /\ [][torn' \/ Ledger!Next]_[f \in Findings |-> Entry(f)]

(***************************************************************************)
(* A confirmed finding is eventually reported or merged, however often the *)
(* stage is cut short (a bounded number of times).                         *)
(***************************************************************************)
ConfirmedIsSettled ==
    \A f \in Findings :
        (f \in markers /\ pending[f] = "valid") ~> (pending[f] = "none")

(***************************************************************************)
(* README.md:99 says that a later audit of the commit "reuses its output   *)
(* directory and resumes from checkpoints": what an interrupted attempt    *)
(* had moved to a final file is still there after the resumed one.         *)
(***************************************************************************)
FinalFileNotReplaced ==
    [][\A d \in final : \E e \in final' : e.finding = d.finding]_vars
=============================================================================
