------------------------- MODULE AuditPipelineProofs -------------------------
(***************************************************************************)
(* Proofs about AuditPipeline, for any units, findings and commits and any *)
(* number of attempts.  The inductive invariant PipeInv has a part for     *)
(* each stage; each part is preserved given those before it, so that a     *)
(* step lemma needs the type invariant, the parts it reads and its own.    *)
(***************************************************************************)
EXTENDS AuditPipeline, TLAPS

-----------------------------------------------------------------------------
(* The inductive invariant *)

\* Stage 3 is through with a unit, or has passed on what it had of it.
SearchedFor(u) == <<"search", u>> \in markers \/ "unmarked" \in patchy[u]
\* What a task of Stage 5 that did not fail leaves: a marked report, or none at all when a
\* local agent wrote none.
Result(f) == IF ReportOf(f) = "none" THEN ~sandbox ELSE <<"reproduce", f>> \in markers
\* What a package stands on.
Evidence(f) == <<"reproduce", f>> \in markers /\ poc[f] = "reproduced" /\ verdict[f].is = "final"
AsDemanded(f) == Valid(package[f]) /\ Enforced(package[f]) = package[f]

\* Only tasks of the stage under way are at work; results stay until the stage is left.
Placed ==
    \A t \in Tasks :
        /\ at[t] # "idle" => phase \in {t[1], "clean", "ended"}
        /\ at[t] \notin Over => phase = t[1]

\* Stage 4 works on valid files.
CandidatesValid == \A f \in Findings : at[<<"evaluate", f>>] # "idle" => finding[f] \in Writers
TypeInv == TypeOK /\ Placed /\ CandidatesValid

\* A unit under search is unmarked, one that is through is marked or noted as patchy.
SearchInv ==
    \A u \in Units :
        /\ at[<<"search", u>>] \in {"idle", "waiting", "agent", "ok", "rejected"}
        /\ phase = "search" => at[<<"search", u>>] # "idle"
        /\ at[<<"search", u>>] = "agent" => <<"search", u>> \notin markers
        /\ at[<<"search", u>>] = "ok" => SearchedFor(u)

\* A verdict is of the text Stage 3 left, or its unit is noted as patchy; a finding under
\* evaluation has none that counts.
VerdictInv ==
    \A f \in Findings :
        /\ at[<<"evaluate", f>>] # "idle" => SearchedFor(UnitOf[f])
        /\ at[<<"evaluate", f>>] \in Busy => <<"evaluate", f>> \notin markers
        /\ at[<<"evaluate", f>>] = "ok" => verdict[f].is = "pending"
        /\ verdict[f].is # "open" =>
              /\ <<"evaluate", f>> \in markers
              /\ \/ /\ <<"search", UnitOf[f]>> \in markers
                    /\ finding[f] \in Writers => finding[f] = verdict[f].of
                 \/ patchy[UnitOf[f]] # {}

\* Every selected finding has a task; a task at work is unmarked, one that is over has its
\* result in place.
ReportInv ==
    \A f \in Findings :
        /\ phase = "reproduce" /\ f \in Selected => at[<<"reproduce", f>>] # "idle"
        /\ phase = "reproduce" /\ using = "unset" => at[<<"reproduce", f>>] \in {"idle", "waiting"}
        /\ at[<<"reproduce", f>>] # "idle" => verdict[f].is = "final"
        /\ at[<<"reproduce", f>>] \in Busy => <<"reproduce", f>> \notin markers
        /\ at[<<"reproduce", f>>] = "ok" => ReportOf(f) = "report"
        /\ at[<<"reproduce", f>>] \in {"ok", "none"} => Result(f)
        /\ at[<<"reproduce", f>>] = "exported" => ReportOf(f) = "report"
        /\ at[<<"reproduce", f>>] = "refuted" => f \in fp

\* Whatever is marked as disclosed, or on its way, has its evidence.
PackageInv ==
    \A f \in Findings :
        /\ at[<<"disclose", f>>] # "none"
        /\ <<"disclose", f>> \in markers \/ at[<<"disclose", f>>] # "idle" => Evidence(f)
        /\ at[<<"disclose", f>>] = "ok" => <<"disclose", f>> \in markers /\ AsDemanded(f)
        /\ at[<<"disclose", f>>] = "exported" => sandbox /\ (Valid(package[f]) => AsDemanded(f))

\* The stages an attempt has been through.
Passed(p) ==
    CASE p = "research" -> {"setup"}
      [] p = "decompose" -> {"setup", "research"}
      [] p = "search" -> {"setup", "research", "decompose"}
      [] p = "evaluate" -> {"setup", "research", "decompose", "search"}
      [] p = "reproduce" -> {"setup", "research", "decompose", "search", "evaluate"}
      [] p = "disclose" -> Earlier
      [] OTHER -> {}
WalkedInv == \A s \in Passed(phase) : stageState[s] = "done"

\* A failed task is an error for good, so that without errors nothing was skipped.
OutcomeInv ==
    /\ \A t \in Tasks : at[t] = "rejected" => t \in errors
    /\ phase \in Stages \cup {"clean"} => outcome = "none"
    /\ phase = "clean" => stageState["disclose"] = "done"
    /\ outcome = "done" => phase = "ended" /\ errors = {} /\ AllOver(Disclosure(Findings))
    /\ errors = {} /\ (phase \in {"evaluate", "reproduce", "disclose", "clean"} \/ outcome = "done")
          => \A u \in Units : SearchedFor(u)
    /\ errors = {} /\ (phase \in {"disclose", "clean"} \/ outcome = "done")
          => \A f \in Selected : Result(f)
    /\ LastStageIsOfThisAttempt

\* A worktree in use is at the commit under audit, unless an orphaned git is at it; an audit
\* has its worktree removed only after Stage 6.
WorktreeInv ==
    /\ phase \in Stages \ {"reproduce", "disclose"} => using = "unset"
    /\ phase \in {"reproduce", "disclose"} /\ using = "yes" /\ worktree.removal # "orphan"
          => worktree.head = head
    /\ worktree.removal = "running" => phase = "clean"

PipeInv ==
    /\ TypeInv /\ SearchInv /\ VerdictInv /\ ReportInv /\ PackageInv /\ WalkedInv /\ OutcomeInv
    /\ WorktreeInv

-----------------------------------------------------------------------------
(* Tasks and stages *)

LEMMA TaskFacts ==
    /\ \A t \in Tasks : t[1] \in Stages
    /\ Research \in Tasks /\ Decomposition \in Tasks
    /\ Research[1] = "research" /\ Decomposition[1] = "decompose"
    /\ \A u \in Units : <<"search", u>> \in Tasks
    /\ \A f \in Findings : <<"evaluate", f>> \in Tasks /\ <<"reproduce", f>> \in Tasks
                           /\ <<"disclose", f>> \in Tasks
    /\ \A us \in SUBSET Units : Search(us) \subseteq Tasks /\ \A t \in Search(us) : t[1] = "search"
    /\ \A fs \in SUBSET Findings :
          /\ Evaluation(fs) \subseteq Tasks /\ \A t \in Evaluation(fs) : t[1] = "evaluate"
          /\ Reproduction(fs) \subseteq Tasks /\ \A t \in Reproduction(fs) : t[1] = "reproduce"
          /\ Disclosure(fs) \subseteq Tasks /\ \A t \in Disclosure(fs) : t[1] = "disclose"
  BY DEF Tasks, Stages, Research, Decomposition, Search, Evaluation, Reproduction, Disclosure

\* Tasks of two stages are different, and so are tasks of two findings.
LEMMA TasksDiffer ==
    /\ \A u \in Units, f \in Findings :
          /\ <<"search", u>> # <<"evaluate", f>> /\ <<"search", u>> # <<"reproduce", f>>
          /\ <<"search", u>> # <<"disclose", f>>
    /\ \A u \in Units : <<"search", u>> # Research /\ <<"search", u>> # Decomposition
    /\ \A f, h \in Findings :
          /\ <<"evaluate", f>> # <<"reproduce", h>> /\ <<"evaluate", f>> # <<"disclose", h>>
          /\ <<"reproduce", f>> # <<"disclose", h>>
          /\ <<"evaluate", f>> # Decomposition /\ <<"reproduce", f>> # Decomposition
          /\ <<"disclose", f>> # Decomposition
          /\ f # h => /\ <<"evaluate", f>> # <<"evaluate", h>>
                      /\ <<"reproduce", f>> # <<"reproduce", h>>
                      /\ <<"disclose", f>> # <<"disclose", h>>
    /\ \A u, v \in Units : u # v => <<"search", u>> # <<"search", v>>
  BY DEF Research, Decomposition

LEMMA EnterFacts ==
    ASSUME TypeOK, phase \in Stages, NEW s \in Stages, NEW tasks \in SUBSET Tasks,
           \A t \in tasks : t[1] = s, Enter(s, tasks)
    PROVE  /\ phase' = s
           /\ at' \in [Tasks -> Busy \cup Over \cup {"waiting"}]
           /\ \A t \in Tasks : at'[t] = IF t \in tasks THEN "waiting" ELSE "idle"
           /\ stageState' \in [Stages -> {"pending", "running", "done", "failed"}]
           /\ Placed'
<1>1. phase' = s /\ at' = [t \in Tasks |-> IF t \in tasks THEN "waiting" ELSE "idle"]
  BY DEF Enter
<1>2. at' \in [Tasks -> Busy \cup Over \cup {"waiting"}]
  BY <1>1 DEF Busy, Over
<1>3. \A t \in Tasks : at'[t] = IF t \in tasks THEN "waiting" ELSE "idle"
  BY <1>1
<1>4. stageState' \in [Stages -> {"pending", "running", "done", "failed"}]
  BY DEF Enter, Begun, TypeOK
<1>5. Placed'
  BY <1>1, <1>3 DEF Placed, Over
<1> QED BY <1>1, <1>2, <1>3, <1>4, <1>5

LEMMA OneTaskMoves ==
    ASSUME TypeOK, Placed, NEW t \in Tasks, phase = t[1], NEW r \in Busy \cup Over,
           at' = [at EXCEPT ![t] = r], phase' = phase
    PROVE  /\ at' \in [Tasks -> Busy \cup Over \cup {"waiting"}]
           /\ at'[t] = r /\ \A x \in Tasks \ {t} : at'[x] = at[x]
           /\ Placed'
<1>1. at' \in [Tasks -> Busy \cup Over \cup {"waiting"}]
  BY DEF TypeOK
<1>2. at'[t] = r /\ \A x \in Tasks \ {t} : at'[x] = at[x]
  BY DEF TypeOK
<1>3. Placed'
  BY <1>2 DEF Placed
<1> QED BY <1>1, <1>2, <1>3

\* A settled task that failed is an error of the audit; no other error is added.
LEMMA SettleFacts ==
    ASSUME TypeOK, Placed, NEW t \in Tasks, phase = t[1], NEW r \in Busy \cup Over,
           Settle(t, r), phase' = phase
    PROVE  /\ at' \in [Tasks -> Busy \cup Over \cup {"waiting"}]
           /\ at'[t] = r /\ \A x \in Tasks \ {t} : at'[x] = at[x]
           /\ Placed'
           /\ errors' \subseteq Tasks /\ errors \subseteq errors'
           /\ r = "rejected" => t \in errors'
<1>1. at' = [at EXCEPT ![t] = r]
  BY DEF Settle
<1>2. errors' \subseteq Tasks /\ errors \subseteq errors' /\ (r = "rejected" => t \in errors')
  BY DEF Settle, TypeOK
<1> QED BY <1>1, <1>2, OneTaskMoves

\* However an attempt ends early: no task is at work any more.
LEMMA EndFacts ==
    ASSUME TypeOK, phase \in Stages, Placed, NEW result \in {"failed", "cancelled"}, EndWith(result)
    PROVE  /\ at' \in [Tasks -> Busy \cup Over \cup {"waiting"}]
           /\ \A t \in Tasks : at'[t] = IF at[t] \in Over THEN at[t] ELSE "idle"
           /\ Placed' /\ phase' = "ended" /\ outcome' = result
           /\ stageState' \in [Stages -> {"pending", "running", "done", "failed"}]
           /\ \A s \in Stages : stageState'[s] = IF s = phase THEN "failed" ELSE stageState[s]
<1>1. /\ phase' = "ended" /\ outcome' = result
      /\ at' = [t \in Tasks |-> IF at[t] \in Over THEN at[t] ELSE "idle"]
      /\ stageState' = [stageState EXCEPT ![phase] = "failed"]
  BY DEF EndWith
<1>2. \A t \in Tasks : at'[t] = IF at[t] \in Over THEN at[t] ELSE "idle"
  BY <1>1
<1>3. at' \in [Tasks -> Busy \cup Over \cup {"waiting"}]
  BY <1>1 DEF Over
<1>4. Placed'
  BY <1>1, <1>2 DEF Placed, Over
<1>5. /\ stageState' \in [Stages -> {"pending", "running", "done", "failed"}]
      /\ \A s \in Stages : stageState'[s] = IF s = phase THEN "failed" ELSE stageState[s]
  BY <1>1 DEF TypeOK
<1> QED BY <1>1, <1>2, <1>3, <1>4, <1>5

LEMMA InitTypeInv == PipelineAssumption /\ Init => TypeInv
<1> SUFFICES ASSUME PipelineAssumption, Init PROVE TypeInv
  OBVIOUS
<1>1. \A t \in Tasks : at[t] = "idle"
  BY DEF Init
<1>2. 0 \in Writers
  BY DEF PipelineAssumption, Writers
<1>3. TypeOK
  <2>1. CASE Fresh
    BY <2>1 DEF Init, Fresh, TypeOK, PipelineAssumption, Contents, Writers, Over, Stages
  <2>2. CASE Inherited
    BY <2>2, <1>2 DEF Init, Inherited, TypeOK, PipelineAssumption, Contents, Writers, Over, Stages
  <2> QED BY <2>1, <2>2 DEF Init
<1>4. Placed
  BY <1>1 DEF Placed, Over
<1>5. CandidatesValid
  BY <1>1, TaskFacts DEF CandidatesValid
<1> QED BY <1>3, <1>4, <1>5 DEF TypeInv

\* A stage other than Stage 4 begins: no finding is under evaluation.
LEMMA NoCandidates ==
    ASSUME NEW tasks \in SUBSET Tasks, \A t \in tasks : t[1] # "evaluate",
           \A t \in Tasks : at'[t] = IF t \in tasks THEN "waiting" ELSE "idle"
    PROVE  CandidatesValid'
<1>1. ASSUME NEW f \in Findings PROVE at'[<<"evaluate", f>>] = "idle"
  <2>1. <<"evaluate", f>> \in Tasks /\ <<"evaluate", f>>[1] = "evaluate"
    BY TaskFacts
  <2> QED BY <2>1
<1> QED BY <1>1 DEF CandidatesValid

LEMMA SetUpTypes ==
    ASSUME PipelineAssumption, TypeInv, SetUp
    PROVE  TypeInv'
<1>1. PICK tasks \in SUBSET Tasks : /\ \A t \in tasks : t[1] = "research"
                                  /\ Enter("research", tasks)
  BY TaskFacts DEF SetUp
<1>2. phase \in Stages /\ "research" \in Stages
  BY DEF SetUp, Stages
<1>3. /\ phase' = "research" /\ Placed'
      /\ at' \in [Tasks -> Busy \cup Over \cup {"waiting"}]
      /\ \A t \in Tasks : at'[t] = IF t \in tasks THEN "waiting" ELSE "idle"
      /\ stageState' \in [Stages -> {"pending", "running", "done", "failed"}]
  BY <1>1, <1>2, EnterFacts DEF TypeInv
<1>4. TypeOK'
  BY <1>2, <1>3, TaskFacts DEF SetUp, TypeInv, TypeOK, vars, disk, inputs, pocs, settings,
     Contents, PipelineAssumption
<1>5. CandidatesValid'
  <2>1. \A t \in tasks : t[1] # "evaluate"
    BY <1>1
  <2> QED BY <1>3, <2>1, NoCandidates
<1> QED BY <1>3, <1>4, <1>5 DEF TypeInv

LEMMA KeepResearchTypes ==
    ASSUME PipelineAssumption, TypeInv, KeepResearch
    PROVE  TypeInv'
<1>1. PICK tasks \in SUBSET Tasks : /\ \A t \in tasks : t[1] = "decompose"
                                  /\ Enter("decompose", tasks)
  BY TaskFacts DEF KeepResearch
<1>2. phase \in Stages /\ "decompose" \in Stages
  BY DEF KeepResearch, Stages
<1>3. /\ phase' = "decompose" /\ Placed'
      /\ at' \in [Tasks -> Busy \cup Over \cup {"waiting"}]
      /\ \A t \in Tasks : at'[t] = IF t \in tasks THEN "waiting" ELSE "idle"
      /\ stageState' \in [Stages -> {"pending", "running", "done", "failed"}]
  BY <1>1, <1>2, EnterFacts DEF TypeInv
<1>4. TypeOK'
  BY <1>2, <1>3, TaskFacts DEF KeepResearch, TypeInv, TypeOK, vars, disk, inputs, pocs,
     settings, Contents, PipelineAssumption
<1>5. CandidatesValid'
  <2>1. \A t \in tasks : t[1] # "evaluate"
    BY <1>1
  <2> QED BY <1>3, <2>1, NoCandidates
<1> QED BY <1>3, <1>4, <1>5 DEF TypeInv

LEMMA DoResearchTypes ==
    ASSUME PipelineAssumption, TypeInv, DoResearch
    PROVE  TypeInv'
<1>1. PICK tasks \in SUBSET Tasks : /\ \A t \in tasks : t[1] = "decompose"
                                  /\ Enter("decompose", tasks)
  BY TaskFacts DEF DoResearch
<1>2. phase \in Stages /\ "decompose" \in Stages
  BY DEF DoResearch, Stages
<1>3. /\ phase' = "decompose" /\ Placed'
      /\ at' \in [Tasks -> Busy \cup Over \cup {"waiting"}]
      /\ \A t \in Tasks : at'[t] = IF t \in tasks THEN "waiting" ELSE "idle"
      /\ stageState' \in [Stages -> {"pending", "running", "done", "failed"}]
  BY <1>1, <1>2, EnterFacts DEF TypeInv
<1>4. TypeOK'
  BY <1>2, <1>3, TaskFacts DEF DoResearch, TypeInv, TypeOK, vars, disk, inputs, pocs, settings,
     Contents, PipelineAssumption, Made, Writers
<1>5. CandidatesValid'
  <2>1. \A t \in tasks : t[1] # "evaluate"
    BY <1>1
  <2> QED BY <1>3, <2>1, NoCandidates
<1> QED BY <1>3, <1>4, <1>5 DEF TypeInv

LEMMA KeepUnitsTypes ==
    ASSUME PipelineAssumption, TypeInv, KeepUnits
    PROVE  TypeInv'
<1>1. PICK tasks \in SUBSET Tasks : /\ \A t \in tasks : t[1] = "search"
                                  /\ Enter("search", tasks)
  BY TaskFacts DEF KeepUnits
<1>2. phase \in Stages /\ "search" \in Stages
  BY DEF KeepUnits, Stages
<1>3. /\ phase' = "search" /\ Placed'
      /\ at' \in [Tasks -> Busy \cup Over \cup {"waiting"}]
      /\ \A t \in Tasks : at'[t] = IF t \in tasks THEN "waiting" ELSE "idle"
      /\ stageState' \in [Stages -> {"pending", "running", "done", "failed"}]
  BY <1>1, <1>2, EnterFacts DEF TypeInv
<1>4. TypeOK'
  BY <1>2, <1>3, TaskFacts DEF KeepUnits, TypeInv, TypeOK, vars, disk, inputs, pocs, settings,
     Contents, PipelineAssumption
<1>5. CandidatesValid'
  <2>1. \A t \in tasks : t[1] # "evaluate"
    BY <1>1
  <2> QED BY <1>3, <2>1, NoCandidates
<1> QED BY <1>3, <1>4, <1>5 DEF TypeInv

LEMMA BeginEvaluationTypes ==
    ASSUME PipelineAssumption, TypeInv, BeginEvaluation
    PROVE  TypeInv'
<1>1. PICK tasks \in SUBSET Tasks : /\ \A t \in tasks : t[1] = "evaluate"
                                  /\ Enter("evaluate", tasks)
  BY TaskFacts DEF BeginEvaluation, Candidates
<1>2. phase \in Stages /\ "evaluate" \in Stages
  BY DEF BeginEvaluation, Stages
<1>3. /\ phase' = "evaluate" /\ Placed'
      /\ at' \in [Tasks -> Busy \cup Over \cup {"waiting"}]
      /\ \A t \in Tasks : at'[t] = IF t \in tasks THEN "waiting" ELSE "idle"
      /\ stageState' \in [Stages -> {"pending", "running", "done", "failed"}]
  BY <1>1, <1>2, EnterFacts DEF TypeInv
<1>4. TypeOK'
  BY <1>2, <1>3, TaskFacts DEF BeginEvaluation, TypeInv, TypeOK, vars, disk, inputs, pocs,
     settings, Contents, PipelineAssumption
<1>5. CandidatesValid'
  <2> SUFFICES ASSUME NEW f \in Findings, at'[<<"evaluate", f>>] # "idle"
               PROVE  finding'[f] \in Writers'
    BY DEF CandidatesValid
  <2>1. \A t \in Tasks : at'[t] # "idle" => t \in Evaluation(Candidates)
    BY DEF BeginEvaluation, Enter
  <2>2. f \in Candidates
    BY <2>1, TaskFacts DEF Evaluation
  <2> QED BY <2>2 DEF Candidates, BeginEvaluation, disk, Writers
<1> QED BY <1>3, <1>4, <1>5 DEF TypeInv

LEMMA BeginReproductionTypes ==
    ASSUME PipelineAssumption, TypeInv, BeginReproduction
    PROVE  TypeInv'
<1>1. PICK tasks \in SUBSET Tasks : /\ \A t \in tasks : t[1] = "reproduce"
                                  /\ Enter("reproduce", tasks)
  BY TaskFacts DEF BeginReproduction, PipelineAssumption
<1>2. phase \in Stages /\ "reproduce" \in Stages
  BY DEF BeginReproduction, Stages
<1>3. /\ phase' = "reproduce" /\ Placed'
      /\ at' \in [Tasks -> Busy \cup Over \cup {"waiting"}]
      /\ \A t \in Tasks : at'[t] = IF t \in tasks THEN "waiting" ELSE "idle"
      /\ stageState' \in [Stages -> {"pending", "running", "done", "failed"}]
  BY <1>1, <1>2, EnterFacts DEF TypeInv
<1>4. TypeOK'
  <2>1. verdict' \in [Findings -> [of : Writers \cup {None},
                                  is : {"open", "pending", "refused", "final"}]]
    <3>1. verdict \in [Findings -> [of : Writers \cup {None},
                                   is : {"open", "pending", "refused", "final"}]]
      BY DEF TypeInv, TypeOK
    <3>2. verdict' = [f \in Findings |-> IF at[<<"evaluate", f>>] = "ok"
                                        THEN [verdict[f] EXCEPT !.is = "final"] ELSE verdict[f]]
      BY DEF BeginReproduction
    <3> QED BY <3>1, <3>2, SMTT(30)
  <2> QED BY <1>2, <1>3, <2>1
          DEF BeginReproduction, TypeInv, TypeOK, inputs, pocs, settings, Contents
<1>5. CandidatesValid'
  <2>1. \A t \in tasks : t[1] # "evaluate"
    BY <1>1
  <2> QED BY <1>3, <2>1, NoCandidates
<1> QED BY <1>3, <1>4, <1>5 DEF TypeInv

LEMMA BeginDisclosureTypes ==
    ASSUME PipelineAssumption, TypeInv, BeginDisclosure
    PROVE  TypeInv'
<1>1. PICK tasks \in SUBSET Tasks : /\ \A t \in tasks : t[1] = "disclose"
                                  /\ Enter("disclose", tasks)
  BY TaskFacts DEF BeginDisclosure, Disclosable, Reports
<1>2. phase \in Stages /\ "disclose" \in Stages
  BY DEF BeginDisclosure, Stages
<1>3. /\ phase' = "disclose" /\ Placed'
      /\ at' \in [Tasks -> Busy \cup Over \cup {"waiting"}]
      /\ \A t \in Tasks : at'[t] = IF t \in tasks THEN "waiting" ELSE "idle"
      /\ stageState' \in [Stages -> {"pending", "running", "done", "failed"}]
  BY <1>1, <1>2, EnterFacts DEF TypeInv
<1>4. TypeOK'
  BY <1>2, <1>3, TaskFacts DEF BeginDisclosure, TypeInv, TypeOK, vars, disk, inputs, pocs,
     settings, Contents, PipelineAssumption
<1>5. CandidatesValid'
  <2>1. \A t \in tasks : t[1] # "evaluate"
    BY <1>1
  <2> QED BY <1>3, <2>1, NoCandidates
<1> QED BY <1>3, <1>4, <1>5 DEF TypeInv

LEMMA KeepFindingsTypes ==
    ASSUME PipelineAssumption, TypeInv, NEW u \in Units, KeepFindings(u)
    PROVE  TypeInv'
<1>1. <<"search", u>> \in Tasks /\ <<"search", u>>[1] = "search" /\ phase = "search" /\ phase' = phase
  BY TaskFacts DEF KeepFindings
<1>2. PICK r \in Busy \cup Over : Settle(<<"search", u>>, r)
  BY DEF KeepFindings, Busy, Over
<1>3. /\ at' \in [Tasks -> Busy \cup Over \cup {"waiting"}] /\ Placed'
      /\ \A x \in Tasks \ {<<"search", u>>} : at'[x] = at[x]
      /\ errors' \subseteq Tasks
  BY <1>1, <1>2, SettleFacts DEF TypeInv
<1>4. TypeOK'
  BY <1>1, <1>3 DEF KeepFindings, TypeInv, TypeOK, vars, disk, inputs, pocs, settings, Contents,
     PipelineAssumption
<1>5. CandidatesValid'
  BY <1>1, <1>3, TaskFacts, TasksDiffer DEF KeepFindings, TypeInv, CandidatesValid, Placed, disk
<1> QED BY <1>3, <1>4, <1>5 DEF TypeInv

LEMMA SearchUnitTypes ==
    ASSUME PipelineAssumption, TypeInv, NEW u \in Units, SearchUnit(u)
    PROVE  TypeInv'
<1>1. <<"search", u>> \in Tasks /\ <<"search", u>>[1] = "search" /\ phase = "search" /\ phase' = phase
  BY TaskFacts DEF SearchUnit
<1>2. PICK r \in Busy \cup Over : at' = [at EXCEPT ![<<"search", u>>] = r]
  BY DEF SearchUnit, Busy, Over
<1>3. /\ at' \in [Tasks -> Busy \cup Over \cup {"waiting"}] /\ Placed'
      /\ \A x \in Tasks \ {<<"search", u>>} : at'[x] = at[x]
  BY <1>1, <1>2, OneTaskMoves DEF TypeInv
<1>4. TypeOK'
  <2>1. finding' \in [Findings -> Contents] /\ patchy' \in [Units -> SUBSET {"unmarked", "reopened"}]
    BY DEF SearchUnit, TypeInv, TypeOK, Contents
  <2>2. UNCHANGED <<head, research, units, verdict, poc, fp, package, worktree, stageState, phase,
                    errors, using, sandbox, attempts, outcome, madeAt>>
    BY DEF SearchUnit, inputs, pocs, settings
  <2>3. markers' \subseteq Tasks
    BY DEF SearchUnit, TypeInv, TypeOK
  <2> QED BY <1>3, <2>1, <2>2, <2>3 DEF TypeInv, TypeOK, Contents, Writers
<1>5. CandidatesValid'
  <2>1. \A f \in Findings : at[<<"evaluate", f>>] = "idle"
    <3> TAKE f \in Findings
    <3> QED BY <1>1, TaskFacts, <<"evaluate", f>>[1] = "evaluate" DEF TypeInv, Placed
  <2> QED BY <1>3, <2>1, TaskFacts, TasksDiffer DEF CandidatesValid
<1> QED BY <1>3, <1>4, <1>5 DEF TypeInv

LEMMA SearchedTypes ==
    ASSUME PipelineAssumption, TypeInv, NEW u \in Units, Searched(u)
    PROVE  TypeInv'
<1>1. <<"search", u>> \in Tasks /\ <<"search", u>>[1] = "search" /\ phase = "search" /\ phase' = phase
  BY TaskFacts DEF Searched
<1>2. PICK r \in Busy \cup Over : Settle(<<"search", u>>, r)
  BY DEF Searched, Busy, Over
<1>3. /\ at' \in [Tasks -> Busy \cup Over \cup {"waiting"}] /\ Placed'
      /\ \A x \in Tasks \ {<<"search", u>>} : at'[x] = at[x]
      /\ errors' \subseteq Tasks
  BY <1>1, <1>2, SettleFacts DEF TypeInv
<1>4. TypeOK'
  <2>1. finding' \in [Findings -> Contents] /\ patchy' \in [Units -> SUBSET {"unmarked", "reopened"}]
    BY DEF Searched, TypeInv, TypeOK, Contents, Writers
  <2>2. UNCHANGED <<head, research, units, verdict, poc, fp, package, worktree, stageState, phase,
                    using, sandbox, attempts, outcome>>
    BY DEF Searched, inputs, pocs, settings
  <2>3. markers' \subseteq Tasks /\ madeAt' \subseteq Commits
    BY <1>1 DEF Searched, TypeInv, TypeOK, Made
  <2> QED BY <1>3, <2>1, <2>2, <2>3 DEF TypeInv, TypeOK, Contents, Writers
<1>5. CandidatesValid'
  <2>1. \A f \in Findings : at[<<"evaluate", f>>] = "idle"
    <3> TAKE f \in Findings
    <3> QED BY <1>1, TaskFacts, <<"evaluate", f>>[1] = "evaluate" DEF TypeInv, Placed
  <2> QED BY <1>3, <2>1, TaskFacts, TasksDiffer DEF CandidatesValid
<1> QED BY <1>3, <1>4, <1>5 DEF TypeInv

LEMMA KeepVerdictTypes ==
    ASSUME PipelineAssumption, TypeInv, NEW f \in Findings, KeepVerdict(f)
    PROVE  TypeInv'
<1>1. <<"evaluate", f>> \in Tasks /\ <<"evaluate", f>>[1] = "evaluate" /\ phase = "evaluate" /\ phase' = phase
  BY TaskFacts DEF KeepVerdict
<1>2. PICK r \in Busy \cup Over : Settle(<<"evaluate", f>>, r)
  BY DEF KeepVerdict, Busy, Over
<1>3. /\ at' \in [Tasks -> Busy \cup Over \cup {"waiting"}] /\ Placed'
      /\ \A x \in Tasks \ {<<"evaluate", f>>} : at'[x] = at[x]
      /\ errors' \subseteq Tasks
  BY <1>1, <1>2, SettleFacts DEF TypeInv
<1>4. TypeOK'
  BY <1>1, <1>3 DEF KeepVerdict, TypeInv, TypeOK, vars, disk, inputs, pocs, settings, Contents,
     PipelineAssumption
<1>5. CandidatesValid'
  BY <1>1, <1>3, TaskFacts, TasksDiffer DEF KeepVerdict, TypeInv, CandidatesValid, Placed, disk
<1> QED BY <1>3, <1>4, <1>5 DEF TypeInv

LEMMA EvaluateFindingTypes ==
    ASSUME PipelineAssumption, TypeInv, NEW f \in Findings, EvaluateFinding(f)
    PROVE  TypeInv'
<1>1. <<"evaluate", f>> \in Tasks /\ <<"evaluate", f>>[1] = "evaluate" /\ phase = "evaluate" /\ phase' = phase
  BY TaskFacts DEF EvaluateFinding
<1>2. PICK r \in Busy \cup Over : at' = [at EXCEPT ![<<"evaluate", f>>] = r]
  BY DEF EvaluateFinding, Busy, Over
<1>3. /\ at' \in [Tasks -> Busy \cup Over \cup {"waiting"}] /\ Placed'
      /\ \A x \in Tasks \ {<<"evaluate", f>>} : at'[x] = at[x]
  BY <1>1, <1>2, OneTaskMoves DEF TypeInv
<1>4. TypeOK'
  BY <1>1, <1>3 DEF EvaluateFinding, TypeInv, TypeOK, vars, disk, inputs, pocs, settings,
     Contents, PipelineAssumption
<1>5. CandidatesValid'
  BY <1>1, <1>3, TaskFacts, TasksDiffer DEF EvaluateFinding, TypeInv, CandidatesValid, Placed, disk
<1> QED BY <1>3, <1>4, <1>5 DEF TypeInv

LEMMA EvaluatedTypes ==
    ASSUME PipelineAssumption, TypeInv, NEW f \in Findings, Evaluated(f)
    PROVE  TypeInv'
<1>1. <<"evaluate", f>> \in Tasks /\ <<"evaluate", f>>[1] = "evaluate" /\ phase = "evaluate" /\ phase' = phase
  BY TaskFacts DEF Evaluated
<1>2. PICK r \in Busy \cup Over : Settle(<<"evaluate", f>>, r)
  BY DEF Evaluated, Busy, Over
<1>3. /\ at' \in [Tasks -> Busy \cup Over \cup {"waiting"}] /\ Placed'
      /\ \A x \in Tasks \ {<<"evaluate", f>>} : at'[x] = at[x]
      /\ errors' \subseteq Tasks
  BY <1>1, <1>2, SettleFacts DEF TypeInv
<1>4. TypeOK'
  <2>1. finding[f] \in Writers
    BY <1>1 DEF Evaluated, TypeInv, CandidatesValid
  <2>2. verdict' \in [Findings -> [of : Writers \cup {None},
                                  is : {"open", "pending", "refused", "final"}]]
    BY <2>1 DEF Evaluated, TypeInv, TypeOK
  <2>3. markers' \subseteq Tasks
    <3>1. markers' = markers \/ markers' = markers \cup {<<"evaluate", f>>}
      BY DEF Evaluated
    <3>2. markers \subseteq Tasks
      BY DEF TypeInv, TypeOK
    <3> QED BY <1>1, <3>1, <3>2
  <2> QED BY <1>1, <1>3, <2>2, <2>3
          DEF Evaluated, TypeInv, TypeOK, disk, inputs, pocs, settings, Contents, Made, Writers
<1>5. CandidatesValid'
  BY <1>1, <1>3, TaskFacts, TasksDiffer DEF Evaluated, TypeInv, CandidatesValid, Placed, disk
<1> QED BY <1>3, <1>4, <1>5 DEF TypeInv

LEMMA KeepReproductionTypes ==
    ASSUME PipelineAssumption, TypeInv, NEW f \in Findings, KeepReproduction(f)
    PROVE  TypeInv'
<1>1. <<"reproduce", f>> \in Tasks /\ <<"reproduce", f>>[1] = "reproduce" /\ phase = "reproduce" /\ phase' = phase
  BY TaskFacts DEF KeepReproduction
<1>2. PICK r \in Busy \cup Over : Settle(<<"reproduce", f>>, r)
  BY DEF KeepReproduction, Busy, Over
<1>3. /\ at' \in [Tasks -> Busy \cup Over \cup {"waiting"}] /\ Placed'
      /\ \A x \in Tasks \ {<<"reproduce", f>>} : at'[x] = at[x]
      /\ errors' \subseteq Tasks
  BY <1>1, <1>2, SettleFacts DEF TypeInv
<1>4. TypeOK'
  BY <1>1, <1>3 DEF KeepReproduction, TypeInv, TypeOK, vars, disk, inputs, pocs, settings,
     Contents, PipelineAssumption, ResolveReport
<1>5. CandidatesValid'
  BY <1>1, <1>3, TaskFacts, TasksDiffer DEF KeepReproduction, TypeInv, CandidatesValid, Placed, disk
<1> QED BY <1>3, <1>4, <1>5 DEF TypeInv

LEMMA ReproduceTypes ==
    ASSUME PipelineAssumption, TypeInv, NEW f \in Findings, Reproduce(f)
    PROVE  TypeInv'
<1>1. <<"reproduce", f>> \in Tasks /\ <<"reproduce", f>>[1] = "reproduce" /\ phase = "reproduce" /\ phase' = phase
  BY TaskFacts DEF Reproduce
<1>2. PICK r \in Busy \cup Over : at' = [at EXCEPT ![<<"reproduce", f>>] = r]
  BY DEF Reproduce, Busy, Over
<1>3. /\ at' \in [Tasks -> Busy \cup Over \cup {"waiting"}] /\ Placed'
      /\ \A x \in Tasks \ {<<"reproduce", f>>} : at'[x] = at[x]
  BY <1>1, <1>2, OneTaskMoves DEF TypeInv
<1>4. TypeOK'
  BY <1>1, <1>3 DEF Reproduce, TypeInv, TypeOK, vars, disk, inputs, pocs, settings, Contents,
     PipelineAssumption
<1>5. CandidatesValid'
  BY <1>1, <1>3, TaskFacts, TasksDiffer DEF Reproduce, TypeInv, CandidatesValid, Placed, disk
<1> QED BY <1>3, <1>4, <1>5 DEF TypeInv

LEMMA ReproducedTypes ==
    ASSUME PipelineAssumption, TypeInv, NEW f \in Findings, Reproduced(f)
    PROVE  TypeInv'
<1>1. <<"reproduce", f>> \in Tasks /\ <<"reproduce", f>>[1] = "reproduce" /\ phase = "reproduce" /\ phase' = phase
  BY TaskFacts DEF Reproduced
<1>2. PICK r \in Busy \cup Over : Settle(<<"reproduce", f>>, r)
  BY DEF Reproduced, Busy, Over
<1>3. /\ at' \in [Tasks -> Busy \cup Over \cup {"waiting"}] /\ Placed'
      /\ \A x \in Tasks \ {<<"reproduce", f>>} : at'[x] = at[x]
      /\ errors' \subseteq Tasks
  BY <1>1, <1>2, SettleFacts DEF TypeInv
<1>4. TypeOK'
  <2>1. /\ poc' \in [Findings -> {"none", "partial", "failed", "unknown", "reproduced"}]
        /\ fp' \subseteq Findings
    BY DEF Reproduced, ResolveReport, TypeInv, TypeOK
  <2>2. markers' \subseteq Tasks
    <3>1. markers' = markers \/ markers' = markers \cup {<<"reproduce", f>>}
      BY DEF Reproduced
    <3>2. markers \subseteq Tasks
      BY DEF TypeInv, TypeOK
    <3> QED BY <1>1, <3>1, <3>2
  <2> QED BY <1>1, <1>3, <2>1, <2>2
          DEF Reproduced, TypeInv, TypeOK, inputs, settings, Contents, Made, Writers
<1>5. CandidatesValid'
  BY <1>1, <1>3, TaskFacts, TasksDiffer DEF Reproduced, TypeInv, CandidatesValid, Placed, disk
<1> QED BY <1>3, <1>4, <1>5 DEF TypeInv

LEMMA ExportReproductionTypes ==
    ASSUME PipelineAssumption, TypeInv, NEW f \in Findings, ExportReproduction(f)
    PROVE  TypeInv'
<1>1. <<"reproduce", f>> \in Tasks /\ <<"reproduce", f>>[1] = "reproduce" /\ phase = "reproduce" /\ phase' = phase
  BY TaskFacts DEF ExportReproduction
<1>2. PICK r \in Busy \cup Over : at' = [at EXCEPT ![<<"reproduce", f>>] = r]
  BY DEF ExportReproduction, Busy, Over
<1>3. /\ at' \in [Tasks -> Busy \cup Over \cup {"waiting"}] /\ Placed'
      /\ \A x \in Tasks \ {<<"reproduce", f>>} : at'[x] = at[x]
  BY <1>1, <1>2, OneTaskMoves DEF TypeInv
<1>4. TypeOK'
  <2>1. /\ poc' \in [Findings -> {"none", "partial", "failed", "unknown", "reproduced"}]
        /\ fp' \subseteq Findings
    <3>1. /\ poc \in [Findings -> {"none", "partial", "failed", "unknown", "reproduced"}]
          /\ fp \subseteq Findings
      BY DEF TypeInv, TypeOK
    <3>2. \/ poc' = poc /\ fp' = fp \cup {f}
          \/ /\ fp' = fp
             /\ \E report \in {"unknown", "reproduced"} : poc' = [poc EXCEPT ![f] = report]
      BY DEF ExportReproduction
    <3> QED BY <3>1, <3>2
  <2> QED BY <1>1, <1>3, <2>1
          DEF ExportReproduction, TypeInv, TypeOK, inputs, settings, Contents, Made, Writers
<1>5. CandidatesValid'
  BY <1>1, <1>3, TaskFacts, TasksDiffer DEF ExportReproduction, TypeInv, CandidatesValid, Placed, disk
<1> QED BY <1>3, <1>4, <1>5 DEF TypeInv

LEMMA ReproducedInSandboxTypes ==
    ASSUME PipelineAssumption, TypeInv, NEW f \in Findings, ReproducedInSandbox(f)
    PROVE  TypeInv'
<1>1. <<"reproduce", f>> \in Tasks /\ <<"reproduce", f>>[1] = "reproduce" /\ phase = "reproduce" /\ phase' = phase
  BY TaskFacts DEF ReproducedInSandbox
<1>2. PICK r \in Busy \cup Over : Settle(<<"reproduce", f>>, r)
  BY DEF ReproducedInSandbox, Busy, Over
<1>3. /\ at' \in [Tasks -> Busy \cup Over \cup {"waiting"}] /\ Placed'
      /\ \A x \in Tasks \ {<<"reproduce", f>>} : at'[x] = at[x]
      /\ errors' \subseteq Tasks
  BY <1>1, <1>2, SettleFacts DEF TypeInv
<1>4. TypeOK'
  <2>1. /\ poc' \in [Findings -> {"none", "partial", "failed", "unknown", "reproduced"}]
        /\ fp' \subseteq Findings
    BY DEF ReproducedInSandbox, pocs, TypeInv, TypeOK
  <2>2. markers' \subseteq Tasks
    <3>1. markers' = markers \/ markers' = markers \cup {<<"reproduce", f>>}
      BY DEF ReproducedInSandbox
    <3> QED BY <1>1, <3>1 DEF TypeInv, TypeOK
  <2> QED BY <1>1, <1>3, <2>1, <2>2
          DEF ReproducedInSandbox, TypeInv, TypeOK, inputs, settings, Contents, Made, Writers
<1>5. CandidatesValid'
  BY <1>1, <1>3, TaskFacts, TasksDiffer DEF ReproducedInSandbox, TypeInv, CandidatesValid, Placed, disk
<1> QED BY <1>3, <1>4, <1>5 DEF TypeInv

LEMMA KeepDisclosureTypes ==
    ASSUME PipelineAssumption, TypeInv, NEW f \in Findings, KeepDisclosure(f)
    PROVE  TypeInv'
<1>1. <<"disclose", f>> \in Tasks /\ <<"disclose", f>>[1] = "disclose" /\ phase = "disclose" /\ phase' = phase
  BY TaskFacts DEF KeepDisclosure
<1>2. PICK r \in Busy \cup Over : Settle(<<"disclose", f>>, r)
  BY DEF KeepDisclosure, Busy, Over
<1>3. /\ at' \in [Tasks -> Busy \cup Over \cup {"waiting"}] /\ Placed'
      /\ \A x \in Tasks \ {<<"disclose", f>>} : at'[x] = at[x]
      /\ errors' \subseteq Tasks
  BY <1>1, <1>2, SettleFacts DEF TypeInv
<1>4. TypeOK'
  BY <1>1, <1>3 DEF KeepDisclosure, TypeInv, TypeOK, vars, disk, inputs, pocs, settings,
     Contents, PipelineAssumption
<1>5. CandidatesValid'
  BY <1>1, <1>3, TaskFacts, TasksDiffer DEF KeepDisclosure, TypeInv, CandidatesValid, Placed, disk
<1> QED BY <1>3, <1>4, <1>5 DEF TypeInv

LEMMA RefuseDisclosureTypes ==
    ASSUME PipelineAssumption, TypeInv, NEW f \in Findings, RefuseDisclosure(f)
    PROVE  TypeInv'
<1>1. <<"disclose", f>> \in Tasks /\ <<"disclose", f>>[1] = "disclose" /\ phase = "disclose" /\ phase' = phase
  BY TaskFacts DEF RefuseDisclosure
<1>2. PICK r \in Busy \cup Over : Settle(<<"disclose", f>>, r)
  BY DEF RefuseDisclosure, Busy, Over
<1>3. /\ at' \in [Tasks -> Busy \cup Over \cup {"waiting"}] /\ Placed'
      /\ \A x \in Tasks \ {<<"disclose", f>>} : at'[x] = at[x]
      /\ errors' \subseteq Tasks
  BY <1>1, <1>2, SettleFacts DEF TypeInv
<1>4. TypeOK'
  BY <1>1, <1>3 DEF RefuseDisclosure, TypeInv, TypeOK, vars, disk, inputs, pocs, settings,
     Contents, PipelineAssumption
<1>5. CandidatesValid'
  BY <1>1, <1>3, TaskFacts, TasksDiffer DEF RefuseDisclosure, TypeInv, CandidatesValid, Placed, disk
<1> QED BY <1>3, <1>4, <1>5 DEF TypeInv

LEMMA DiscloseTypes ==
    ASSUME PipelineAssumption, TypeInv, NEW f \in Findings, Disclose(f)
    PROVE  TypeInv'
<1>1. <<"disclose", f>> \in Tasks /\ <<"disclose", f>>[1] = "disclose" /\ phase = "disclose" /\ phase' = phase
  BY TaskFacts DEF Disclose
<1>2. PICK r \in Busy \cup Over : at' = [at EXCEPT ![<<"disclose", f>>] = r]
  BY DEF Disclose, Busy, Over
<1>3. /\ at' \in [Tasks -> Busy \cup Over \cup {"waiting"}] /\ Placed'
      /\ \A x \in Tasks \ {<<"disclose", f>>} : at'[x] = at[x]
  BY <1>1, <1>2, OneTaskMoves DEF TypeInv
<1>4. TypeOK'
  BY <1>1, <1>3 DEF Disclose, TypeInv, TypeOK, vars, disk, inputs, pocs, settings, Contents,
     PipelineAssumption
<1>5. CandidatesValid'
  BY <1>1, <1>3, TaskFacts, TasksDiffer DEF Disclose, TypeInv, CandidatesValid, Placed, disk
<1> QED BY <1>3, <1>4, <1>5 DEF TypeInv

LEMMA DisclosedTypes ==
    ASSUME PipelineAssumption, TypeInv, NEW f \in Findings, Disclosed(f)
    PROVE  TypeInv'
<1>1. <<"disclose", f>> \in Tasks /\ <<"disclose", f>>[1] = "disclose" /\ phase = "disclose" /\ phase' = phase
  BY TaskFacts DEF Disclosed
<1>2. PICK r \in Busy \cup Over : Settle(<<"disclose", f>>, r)
  BY DEF Disclosed, Busy, Over
<1>3. /\ at' \in [Tasks -> Busy \cup Over \cup {"waiting"}] /\ Placed'
      /\ \A x \in Tasks \ {<<"disclose", f>>} : at'[x] = at[x]
      /\ errors' \subseteq Tasks
  BY <1>1, <1>2, SettleFacts DEF TypeInv
<1>4. TypeOK'
  <2>1. package' \in [Findings -> {"none", "invalid", "ready", "draft"}]
    BY DEF Disclosed, Enforced, TypeInv, TypeOK
  <2>2. markers' \subseteq Tasks
    <3>1. markers' = markers \/ markers' = markers \cup {<<"disclose", f>>}
      BY DEF Disclosed
    <3>2. markers \subseteq Tasks
      BY DEF TypeInv, TypeOK
    <3> QED BY <1>1, <3>1, <3>2
  <2> QED BY <1>1, <1>3, <2>1, <2>2
          DEF Disclosed, TypeInv, TypeOK, inputs, pocs, settings, Contents, Made, Writers
<1>5. CandidatesValid'
  BY <1>1, <1>3, TaskFacts, TasksDiffer DEF Disclosed, TypeInv, CandidatesValid, Placed, disk
<1> QED BY <1>3, <1>4, <1>5 DEF TypeInv

LEMMA ExportDisclosureTypes ==
    ASSUME PipelineAssumption, TypeInv, NEW f \in Findings, ExportDisclosure(f)
    PROVE  TypeInv'
<1>1. <<"disclose", f>> \in Tasks /\ <<"disclose", f>>[1] = "disclose" /\ phase = "disclose" /\ phase' = phase
  BY TaskFacts DEF ExportDisclosure
<1>2. PICK r \in Busy \cup Over : at' = [at EXCEPT ![<<"disclose", f>>] = r]
  BY DEF ExportDisclosure, Busy, Over
<1>3. /\ at' \in [Tasks -> Busy \cup Over \cup {"waiting"}] /\ Placed'
      /\ \A x \in Tasks \ {<<"disclose", f>>} : at'[x] = at[x]
  BY <1>1, <1>2, OneTaskMoves DEF TypeInv
<1>4. TypeOK'
  <2>1. package' \in [Findings -> {"none", "invalid", "ready", "draft"}]
    BY DEF ExportDisclosure, Enforced, TypeInv, TypeOK
  <2> QED BY <1>1, <1>3, <2>1
          DEF ExportDisclosure, TypeInv, TypeOK, inputs, pocs, settings, Contents, Made, Writers
<1>5. CandidatesValid'
  BY <1>1, <1>3, TaskFacts, TasksDiffer DEF ExportDisclosure, TypeInv, CandidatesValid, Placed, disk
<1> QED BY <1>3, <1>4, <1>5 DEF TypeInv

LEMMA DisclosedInSandboxTypes ==
    ASSUME PipelineAssumption, TypeInv, NEW f \in Findings, DisclosedInSandbox(f)
    PROVE  TypeInv'
<1>1. <<"disclose", f>> \in Tasks /\ <<"disclose", f>>[1] = "disclose" /\ phase = "disclose" /\ phase' = phase
  BY TaskFacts DEF DisclosedInSandbox
<1>2. PICK r \in Busy \cup Over : Settle(<<"disclose", f>>, r)
  BY DEF DisclosedInSandbox, Busy, Over
<1>3. /\ at' \in [Tasks -> Busy \cup Over \cup {"waiting"}] /\ Placed'
      /\ \A x \in Tasks \ {<<"disclose", f>>} : at'[x] = at[x]
      /\ errors' \subseteq Tasks
  BY <1>1, <1>2, SettleFacts DEF TypeInv
<1>4. TypeOK'
  <2>1. markers' \subseteq Tasks
    <3>1. markers' = markers \/ markers' = markers \cup {<<"disclose", f>>}
      BY DEF DisclosedInSandbox
    <3>2. markers \subseteq Tasks
      BY DEF TypeInv, TypeOK
    <3> QED BY <1>1, <3>1, <3>2
  <2> QED BY <1>1, <1>3, <2>1
          DEF DisclosedInSandbox, TypeInv, TypeOK, inputs, pocs, settings, Contents, Made, Writers
<1>5. CandidatesValid'
  BY <1>1, <1>3, TaskFacts, TasksDiffer DEF DisclosedInSandbox, TypeInv, CandidatesValid, Placed, disk
<1> QED BY <1>3, <1>4, <1>5 DEF TypeInv

LEMMA StartTypes ==
    ASSUME PipelineAssumption, TypeInv, Start
    PROVE  TypeInv'
<1>1. \A t \in Tasks : at'[t] = "idle"
  BY DEF Start
<1>2. stageState' \in [Stages -> {"pending", "running", "done", "failed"}]
  BY DEF Start, Begun, ResetState
<1>3. at' \in [Tasks -> Busy \cup Over \cup {"waiting"}]
  BY DEF Start, Over
<1>4. TypeOK'
  BY <1>2, <1>3 DEF Start, TypeInv, TypeOK, disk, inputs, pocs, PipelineAssumption, Stages, Contents,
     Writers
<1>5. Placed'
  BY <1>1 DEF Placed, Over
<1>6. CandidatesValid'
  BY <1>1, TaskFacts DEF CandidatesValid
<1> QED BY <1>4, <1>5, <1>6 DEF TypeInv

LEMMA DecomposeTypes ==
    ASSUME PipelineAssumption, TypeInv, Decompose
    PROVE  TypeInv'
<1>1. PICK r \in Busy : at' = [at EXCEPT ![Decomposition] = r]
  BY DEF Decompose, Busy
<1>2. /\ at' \in [Tasks -> Busy \cup Over \cup {"waiting"}] /\ Placed'
      /\ \A x \in Tasks \ {Decomposition} : at'[x] = at[x]
  BY <1>1, OneTaskMoves, TaskFacts DEF Decompose, TypeInv
<1>3. TypeOK'
  BY <1>2 DEF Decompose, TypeInv, TypeOK, inputs, pocs, settings, Contents
<1>4. CandidatesValid'
  BY <1>2, TaskFacts, TasksDiffer DEF Decompose, TypeInv, CandidatesValid
<1> QED BY <1>2, <1>3, <1>4 DEF TypeInv

LEMMA DecomposedTypes ==
    ASSUME PipelineAssumption, TypeInv, Decomposed
    PROVE  TypeInv'
<1>1. /\ phase = "decompose" /\ phase \in Stages /\ "search" \in Stages
      /\ Decomposition \in Tasks /\ phase = Decomposition[1]
  BY TaskFacts DEF Decomposed, Stages
<1>2. /\ research' = research /\ head' = head /\ finding' = finding /\ verdict' = verdict
      /\ poc' = poc /\ fp' = fp /\ package' = package /\ worktree' = worktree
      /\ errors' = errors /\ using' = using /\ sandbox' = sandbox /\ attempts' = attempts
      /\ patchy' = patchy /\ madeAt' = madeAt \cup {head}
  BY DEF Decomposed, pocs, settings, Made
<1>3. units' \in Contents /\ markers' \subseteq Tasks
  BY <1>1 DEF Decomposed, TypeInv, TypeOK, Contents, Writers
<1>4. CASE Enter("search", Search(Units))
  <2>1. /\ phase' = "search" /\ Placed'
        /\ at' \in [Tasks -> Busy \cup Over \cup {"waiting"}]
        /\ \A t \in Tasks : at'[t] = IF t \in Search(Units) THEN "waiting" ELSE "idle"
        /\ stageState' \in [Stages -> {"pending", "running", "done", "failed"}]
    BY <1>1, <1>4, EnterFacts, TaskFacts DEF TypeInv
  <2>2. outcome' \in {"none", "done", "failed", "cancelled"}
    BY DEF Decomposed, EndWith, TypeInv, TypeOK
  <2>3. TypeOK'
    BY <1>1, <1>2, <1>3, <2>1, <2>2 DEF TypeInv, TypeOK
  <2>4. CandidatesValid'
    BY <2>1, TaskFacts DEF CandidatesValid, Search
  <2> QED BY <2>1, <2>3, <2>4 DEF TypeInv
<1>5. CASE EndWith("failed")
  <2>1. /\ phase' = "ended" /\ Placed' /\ outcome' = "failed"
        /\ at' \in [Tasks -> Busy \cup Over \cup {"waiting"}]
        /\ \A t \in Tasks : at'[t] = IF at[t] \in Over THEN at[t] ELSE "idle"
        /\ stageState' \in [Stages -> {"pending", "running", "done", "failed"}]
    BY <1>1, <1>5, EndFacts DEF TypeInv
  <2>2. TypeOK'
    BY <1>2, <1>3, <2>1 DEF TypeInv, TypeOK
  <2>3. CandidatesValid'
    BY <1>2, <2>1, TaskFacts DEF TypeInv, CandidatesValid, Writers
  <2> QED BY <2>1, <2>2, <2>3 DEF TypeInv
<1>6. CASE \E r \in Busy : /\ at' = [at EXCEPT ![Decomposition] = r]
                           /\ UNCHANGED <<phase, stageState, outcome>>
  <2>1. /\ at' \in [Tasks -> Busy \cup Over \cup {"waiting"}] /\ Placed'
        /\ \A x \in Tasks \ {Decomposition} : at'[x] = at[x]
    BY <1>1, <1>6, OneTaskMoves DEF TypeInv
  <2>2. TypeOK'
    BY <1>2, <1>3, <1>6, <2>1 DEF TypeInv, TypeOK
  <2>3. CandidatesValid'
    BY <1>2, <2>1, TaskFacts, TasksDiffer DEF TypeInv, CandidatesValid, Writers
  <2> QED BY <2>1, <2>2, <2>3 DEF TypeInv
<1> QED BY <1>4, <1>5, <1>6 DEF Decomposed, Busy

LEMMA AgentFindsTypes ==
    ASSUME PipelineAssumption, TypeInv, NEW u \in Units, AgentFinds(u)
    PROVE  TypeInv'
<1>1. finding' \in [Findings -> Contents]
  BY DEF AgentFinds, Of, TypeInv, TypeOK, Contents, Writers
<1>2. TypeOK'
  BY <1>1 DEF AgentFinds, TypeInv, TypeOK, inputs, pocs, settings, Contents, Made, Writers
<1>3. \A f \in Findings : at[<<"evaluate", f>>] = "idle"
  <2> TAKE f \in Findings
  <2> QED BY TaskFacts, <<"evaluate", f>>[1] = "evaluate" DEF AgentFinds, TypeInv, Placed
<1>4. CandidatesValid' /\ Placed'
  BY <1>3 DEF AgentFinds, TypeInv, CandidatesValid, Placed
<1> QED BY <1>2, <1>4 DEF TypeInv

LEMMA OpenWorktreeTypes ==
    ASSUME PipelineAssumption, TypeInv, OpenWorktree
    PROVE  TypeInv'
<1>1. TypeOK'
  BY DEF OpenWorktree, TypeInv, TypeOK, inputs, pocs, Contents
<1>2. Placed' /\ CandidatesValid'
  BY DEF OpenWorktree, TypeInv, Placed, CandidatesValid, Writers
<1> QED BY <1>1, <1>2 DEF TypeInv

LEMMA AgentReproducesTypes ==
    ASSUME PipelineAssumption, TypeInv, NEW f \in Findings, AgentReproduces(f)
    PROVE  TypeInv'
<1>1. poc' \in [Findings -> {"none", "partial", "failed", "unknown", "reproduced"}]
  BY DEF AgentReproduces, TypeInv, TypeOK
<1>2. TypeOK'
  BY <1>1 DEF AgentReproduces, TypeInv, TypeOK, inputs, settings, Contents, Made
<1>3. Placed' /\ CandidatesValid'
  BY DEF AgentReproduces, TypeInv, Placed, CandidatesValid, Writers
<1> QED BY <1>2, <1>3 DEF TypeInv

LEMMA AgentDisclosesTypes ==
    ASSUME PipelineAssumption, TypeInv, NEW f \in Findings, AgentDiscloses(f)
    PROVE  TypeInv'
<1>1. package' \in [Findings -> {"none", "invalid", "ready", "draft"}]
  BY DEF AgentDiscloses, TypeInv, TypeOK
<1>2. TypeOK'
  BY <1>1 DEF AgentDiscloses, TypeInv, TypeOK, inputs, pocs, settings, Contents, Made
<1>3. Placed' /\ CandidatesValid'
  BY DEF AgentDiscloses, TypeInv, Placed, CandidatesValid, Writers
<1> QED BY <1>2, <1>3 DEF TypeInv

\* The end of an audit moves no task: those of Stage 6 are over.
LEMMA CloseTypes ==
    ASSUME PipelineAssumption, TypeInv,
           CompleteDisclosure \/ RemoveWorktree \/ FinishAudit \/ StopCleaning
    PROVE  TypeInv'
<1>1. /\ UNCHANGED <<inputs, finding, verdict, pocs, package, markers, at, errors, settings,
                      madeAt, patchy>>
      /\ worktree' \in [head : Commits \cup {None, Invalid}, removal : {"no", "running", "orphan"}]
      /\ stageState' \in [Stages -> {"pending", "running", "done", "failed"}]
      /\ phase' \in {phase, "clean", "ended"} /\ outcome' \in {outcome, "done", "failed", "cancelled"}
  BY DEF CompleteDisclosure, RemoveWorktree, FinishAudit, StopCleaning, Orphaned, TypeInv, TypeOK
<1>2. TypeOK'
  BY <1>1 DEF TypeInv, TypeOK, inputs, pocs, settings, Contents
<1>3. CASE RemoveWorktree
  BY <1>1, <1>2, <1>3 DEF RemoveWorktree, TypeInv, Placed, CandidatesValid, Writers, inputs, settings
<1>4. CASE CompleteDisclosure
  <2>1. \A t \in Tasks : at[t] \in Over
    <3> SUFFICES ASSUME NEW t \in Tasks, at[t] \notin Over PROVE FALSE
      OBVIOUS
    <3>1. t[1] = "disclose"
      BY <1>4 DEF CompleteDisclosure, TypeInv, Placed
    <3>2. t \in Disclosure(Findings)
      BY <3>1 DEF Tasks, Research, Decomposition, Search, Evaluation, Reproduction, Disclosure
    <3> QED BY <1>4, <3>2 DEF CompleteDisclosure, AllOver
  <2>2. phase' = "clean"
    BY <1>4 DEF CompleteDisclosure
  <2> QED BY <1>1, <1>2, <2>1, <2>2 DEF TypeInv, Placed, CandidatesValid, Writers, inputs, settings
<1>5. CASE FinishAudit \/ StopCleaning
  <2>1. phase = "clean" /\ phase' = "ended"
    BY <1>5 DEF FinishAudit, StopCleaning
  <2>2. \A t \in Tasks : at[t] \in Over
    BY <2>1, TaskFacts DEF TypeInv, Placed, Stages
  <2> QED BY <1>1, <1>2, <2>1, <2>2 DEF TypeInv, Placed, CandidatesValid, Writers, inputs, settings
<1> QED BY <1>3, <1>4, <1>5

LEMMA TaskFailsTypes ==
    ASSUME PipelineAssumption, TypeInv, NEW t \in Tasks, TaskFails(t)
    PROVE  TypeInv'
<1>1. phase = t[1] /\ phase' = phase
  BY DEF TaskFails, TypeInv, Placed, Busy, Over
<1>2. /\ at' \in [Tasks -> Busy \cup Over \cup {"waiting"}] /\ Placed'
      /\ \A x \in Tasks \ {t} : at'[x] = at[x]
      /\ errors' \subseteq Tasks
  BY <1>1, SettleFacts DEF TaskFails, TypeInv, Over
<1>3. TypeOK'
  BY <1>2 DEF TaskFails, TypeInv, TypeOK, disk, inputs, pocs, settings, Contents
<1>4. CandidatesValid'
  BY <1>2, TaskFacts DEF TaskFails, TypeInv, CandidatesValid, disk, Busy
<1> QED BY <1>2, <1>3, <1>4 DEF TypeInv

LEMMA EarlyEndTypes ==
    ASSUME PipelineAssumption, TypeInv, StageFails \/ Stop
    PROVE  TypeInv'
<1>1. PICK result \in {"failed", "cancelled"} : EndWith(result)
  BY DEF StageFails, Stop
<1>2. phase \in Stages
  BY DEF StageFails, Stop, Stages
<1>3. /\ phase' = "ended" /\ Placed' /\ outcome' = result
      /\ at' \in [Tasks -> Busy \cup Over \cup {"waiting"}]
      /\ \A t \in Tasks : at'[t] = IF at[t] \in Over THEN at[t] ELSE "idle"
      /\ stageState' \in [Stages -> {"pending", "running", "done", "failed"}]
  BY <1>1, <1>2, EndFacts DEF TypeInv
<1>4. UNCHANGED <<disk, errors, settings, madeAt, patchy>>
  BY DEF StageFails, Stop
<1>5. TypeOK'
  BY <1>3, <1>4 DEF TypeInv, TypeOK, disk, inputs, pocs, settings, Contents
<1>6. CandidatesValid'
  BY <1>3, <1>4, TaskFacts DEF TypeInv, CandidatesValid, disk, Writers
<1> QED BY <1>3, <1>5, <1>6 DEF TypeInv

LEMMA CrashTypes ==
    ASSUME PipelineAssumption, TypeInv, Crash
    PROVE  TypeInv'
<1>1. \A t \in Tasks : at'[t] = "idle"
  BY DEF Crash
<1>2. at' \in [Tasks -> Busy \cup Over \cup {"waiting"}]
  BY DEF Crash, Over
<1>3. TypeOK'
  <2>1. /\ poc' \in [Findings -> {"none", "partial", "failed", "unknown", "reproduced"}]
        /\ fp' \subseteq Findings
        /\ package' \in [Findings -> {"none", "invalid", "ready", "draft"}]
    BY DEF Crash, TypeInv, TypeOK
  <2>2. worktree' \in [head : Commits \cup {None, Invalid}, removal : {"no", "running", "orphan"}]
    BY DEF Crash, Orphaned, TypeInv, TypeOK
  <2>3. /\ UNCHANGED <<head, research, units, finding, verdict, markers, stageState, sandbox,
                        attempts, outcome, madeAt, patchy>>
        /\ phase' = "down" /\ errors' = {} /\ using' = "unset"
    BY DEF Crash, inputs
  <2> QED BY <1>2, <2>1, <2>2, <2>3 DEF TypeInv, TypeOK, Contents
<1>4. Placed'
  BY <1>1 DEF Placed, Over
<1>5. CandidatesValid'
  BY <1>1, TaskFacts DEF CandidatesValid
<1> QED BY <1>3, <1>4, <1>5 DEF TypeInv

LEMMA TypeStep == PipelineAssumption /\ TypeInv /\ [Next]_vars => TypeInv'
<1> SUFFICES ASSUME PipelineAssumption, TypeInv, [Next]_vars PROVE TypeInv'
  OBVIOUS
<1>1. CASE Start \/ SetUp \/ KeepResearch \/ DoResearch \/ KeepUnits \/ Decompose \/ Decomposed
  BY <1>1, StartTypes, SetUpTypes, KeepResearchTypes, DoResearchTypes, KeepUnitsTypes,
     DecomposeTypes, DecomposedTypes
<1>2. ASSUME NEW u \in Units, KeepFindings(u) \/ SearchUnit(u) \/ AgentFinds(u) \/ Searched(u)
      PROVE  TypeInv'
  BY <1>2, KeepFindingsTypes, SearchUnitTypes, AgentFindsTypes, SearchedTypes
<1>3. CASE \/ BeginEvaluation \/ BeginReproduction \/ OpenWorktree \/ BeginDisclosure
           \/ CompleteDisclosure \/ RemoveWorktree \/ FinishAudit \/ StopCleaning
           \/ StageFails \/ Stop \/ Crash
  BY <1>3, BeginEvaluationTypes, BeginReproductionTypes, OpenWorktreeTypes,
     BeginDisclosureTypes, CloseTypes, EarlyEndTypes, CrashTypes
<1>4. ASSUME NEW f \in Findings,
             \/ KeepVerdict(f) \/ EvaluateFinding(f) \/ Evaluated(f)
             \/ KeepReproduction(f) \/ Reproduce(f) \/ AgentReproduces(f) \/ Reproduced(f)
             \/ ExportReproduction(f) \/ ReproducedInSandbox(f)
      PROVE  TypeInv'
  BY <1>4, KeepVerdictTypes, EvaluateFindingTypes, EvaluatedTypes, KeepReproductionTypes,
     ReproduceTypes, AgentReproducesTypes, ReproducedTypes, ExportReproductionTypes,
     ReproducedInSandboxTypes
<1>5. ASSUME NEW f \in Findings,
             \/ KeepDisclosure(f) \/ RefuseDisclosure(f) \/ Disclose(f) \/ AgentDiscloses(f)
             \/ Disclosed(f) \/ ExportDisclosure(f) \/ DisclosedInSandbox(f)
      PROVE  TypeInv'
  BY <1>5, KeepDisclosureTypes, RefuseDisclosureTypes, DiscloseTypes, AgentDisclosesTypes,
     DisclosedTypes, ExportDisclosureTypes, DisclosedInSandboxTypes
<1>6. ASSUME NEW t \in Tasks, TaskFails(t) PROVE TypeInv'
  BY <1>6, TaskFailsTypes
<1>7. CASE UNCHANGED vars
  BY <1>7 DEF TypeInv, TypeOK, Placed, CandidatesValid, vars, disk, inputs, pocs, settings,
     Contents, Writers
<1> QED BY <1>1, <1>2, <1>3, <1>4, <1>5, <1>6, <1>7 DEF Next

-----------------------------------------------------------------------------
(* What the actions of a stage leave alone *)

\* One task moves; the others keep their place and their marker.
OnlyTask(t) ==
    /\ t \in Tasks /\ phase = t[1] /\ phase' = phase
    /\ \A x \in Tasks \ {t} : at'[x] = at[x] /\ (x \in markers' <=> x \in markers)
    /\ errors \subseteq errors' /\ (at'[t] = "rejected" => t \in errors')
    /\ UNCHANGED <<head, worktree, settings, outcome, stageState>>

LEMMA MoveIsOnly ==
    ASSUME TypeInv, NEW t \in Tasks, phase = t[1], phase' = phase,
           \/ \E r \in Busy \cup Over : Settle(t, r)
           \/ /\ \E r \in Busy : at' = [at EXCEPT ![t] = r]
              /\ UNCHANGED errors,
           markers' \in {markers, markers \cup {t}, markers \ {t}},
           UNCHANGED <<head, worktree, settings, outcome, stageState>>
    PROVE  OnlyTask(t)
<1>1. \A x \in Tasks \ {t} : at'[x] = at[x]
  BY SettleFacts, OneTaskMoves DEF TypeInv
<1>2. errors \subseteq errors' /\ (at'[t] = "rejected" => t \in errors')
  <2>1. CASE \E r \in Busy \cup Over : Settle(t, r)
    BY <2>1, SettleFacts DEF TypeInv
  <2>2. CASE UNCHANGED errors /\ \E r \in Busy : at' = [at EXCEPT ![t] = r]
    BY <2>2 DEF TypeInv, TypeOK, Busy
  <2> QED BY <2>1, <2>2
<1> QED BY <1>1, <1>2 DEF OnlyTask

SearchAct(u) == KeepFindings(u) \/ SearchUnit(u) \/ Searched(u)
EvaluateAct(f) == KeepVerdict(f) \/ EvaluateFinding(f) \/ Evaluated(f)
ReproduceAct(f) ==
    \/ KeepReproduction(f) \/ Reproduce(f) \/ Reproduced(f) \/ ExportReproduction(f)
    \/ ReproducedInSandbox(f)
DiscloseAct(f) ==
    \/ KeepDisclosure(f) \/ RefuseDisclosure(f) \/ Disclose(f) \/ Disclosed(f)
    \/ ExportDisclosure(f) \/ DisclosedInSandbox(f)

LEMMA SearchActs ==
    ASSUME TypeInv, NEW u \in Units, SearchAct(u)
    PROVE  OnlyTask(<<"search", u>>) /\ UNCHANGED <<verdict, pocs, package>>
<1> DEFINE t == <<"search", u>>
<1>1. t \in Tasks /\ phase = t[1] /\ phase' = phase
  BY TaskFacts DEF SearchAct, KeepFindings, SearchUnit, Searched
<1>2. \/ \E r \in Busy \cup Over : Settle(t, r)
      \/ /\ \E r \in Busy : at' = [at EXCEPT ![t] = r]
         /\ UNCHANGED errors
  BY DEF SearchAct, KeepFindings, SearchUnit, Searched, Over, Busy
<1>3. markers' \in {markers, markers \cup {t}, markers \ {t}}
  BY DEF SearchAct, KeepFindings, SearchUnit, Searched, disk
<1>4. UNCHANGED <<head, worktree, settings, outcome, stageState, verdict, pocs, package>>
  BY DEF SearchAct, KeepFindings, SearchUnit, Searched, disk, inputs
<1> HIDE DEF t
<1>5. OnlyTask(t)
  BY <1>1, <1>2, <1>3, <1>4, MoveIsOnly
<1> QED BY <1>4, <1>5 DEF t

LEMMA EvaluateActs ==
    ASSUME TypeInv, NEW f \in Findings, EvaluateAct(f)
    PROVE  /\ OnlyTask(<<"evaluate", f>>) /\ UNCHANGED <<finding, pocs, package, patchy>>
           /\ \A h \in Findings \ {f} : verdict'[h] = verdict[h]
<1> DEFINE t == <<"evaluate", f>>
<1>1. t \in Tasks /\ phase = t[1] /\ phase' = phase
  BY TaskFacts DEF EvaluateAct, KeepVerdict, EvaluateFinding, Evaluated
<1>2. \/ \E r \in Busy \cup Over : Settle(t, r)
      \/ /\ \E r \in Busy : at' = [at EXCEPT ![t] = r]
         /\ UNCHANGED errors
  BY DEF EvaluateAct, KeepVerdict, EvaluateFinding, Evaluated, Over, Busy
<1>3. markers' \in {markers, markers \cup {t}, markers \ {t}}
  BY DEF EvaluateAct, KeepVerdict, EvaluateFinding, Evaluated, disk
<1>4. UNCHANGED <<head, worktree, settings, outcome, stageState, finding, pocs, package, patchy>>
  BY DEF EvaluateAct, KeepVerdict, EvaluateFinding, Evaluated, disk, inputs
<1>5. \A h \in Findings \ {f} : verdict'[h] = verdict[h]
  BY DEF EvaluateAct, KeepVerdict, EvaluateFinding, Evaluated, disk, TypeInv, TypeOK
<1> HIDE DEF t
<1>6. OnlyTask(t)
  BY <1>1, <1>2, <1>3, <1>4, MoveIsOnly
<1> QED BY <1>4, <1>5, <1>6 DEF t

LEMMA ReproduceActs ==
    ASSUME TypeInv, NEW f \in Findings, ReproduceAct(f)
    PROVE  /\ OnlyTask(<<"reproduce", f>>)
           /\ UNCHANGED <<finding, verdict, package, patchy>>
           /\ \A h \in Findings \ {f} : poc'[h] = poc[h] /\ (h \in fp' <=> h \in fp)
<1> DEFINE t == <<"reproduce", f>>
<1>1. t \in Tasks /\ phase = t[1] /\ phase' = phase
  BY TaskFacts DEF ReproduceAct, KeepReproduction, Reproduce, Reproduced, ExportReproduction,
     ReproducedInSandbox
<1>2. \/ \E r \in Busy \cup Over : Settle(t, r)
      \/ /\ \E r \in Busy : at' = [at EXCEPT ![t] = r]
         /\ UNCHANGED errors
  BY DEF ReproduceAct, KeepReproduction, Reproduce, Reproduced, ExportReproduction,
     ReproducedInSandbox, Over, Busy
<1>3. markers' \in {markers, markers \cup {t}, markers \ {t}}
  BY DEF ReproduceAct, KeepReproduction, Reproduce, Reproduced, ExportReproduction,
     ReproducedInSandbox
<1>4. UNCHANGED <<head, worktree, settings, outcome, stageState, finding, verdict, package, patchy>>
  BY DEF ReproduceAct, KeepReproduction, Reproduce, Reproduced, ExportReproduction,
     ReproducedInSandbox, inputs
<1>5. \A h \in Findings \ {f} : poc'[h] = poc[h] /\ (h \in fp' <=> h \in fp)
  BY DEF ReproduceAct, KeepReproduction, Reproduce, Reproduced, ExportReproduction,
     ReproducedInSandbox, pocs,
     ResolveReport, TypeInv, TypeOK
<1> HIDE DEF t
<1>6. OnlyTask(t)
  BY <1>1, <1>2, <1>3, <1>4, MoveIsOnly
<1> QED BY <1>4, <1>5, <1>6 DEF t

LEMMA DiscloseActs ==
    ASSUME TypeInv, NEW f \in Findings, DiscloseAct(f)
    PROVE  /\ OnlyTask(<<"disclose", f>>)
           /\ UNCHANGED <<finding, verdict, pocs, patchy>>
           /\ \A h \in Findings \ {f} : package'[h] = package[h]
<1> DEFINE t == <<"disclose", f>>
<1>1. t \in Tasks /\ phase = t[1] /\ phase' = phase
  BY TaskFacts
     DEF DiscloseAct, KeepDisclosure, RefuseDisclosure, Disclose, Disclosed, ExportDisclosure,
     DisclosedInSandbox
<1>2. \/ \E r \in Busy \cup Over : Settle(t, r)
      \/ /\ \E r \in Busy : at' = [at EXCEPT ![t] = r]
         /\ UNCHANGED errors
  BY DEF DiscloseAct, KeepDisclosure, RefuseDisclosure, Disclose, Disclosed, ExportDisclosure,
     DisclosedInSandbox,
     Over, Busy
<1>3. markers' \in {markers, markers \cup {t}, markers \ {t}}
  BY DEF DiscloseAct, KeepDisclosure, RefuseDisclosure, Disclose, Disclosed, ExportDisclosure,
     DisclosedInSandbox,
     disk
<1>4. UNCHANGED <<head, worktree, settings, outcome, stageState, finding, verdict, pocs, patchy>>
  BY DEF DiscloseAct, KeepDisclosure, RefuseDisclosure, Disclose, Disclosed, ExportDisclosure,
     DisclosedInSandbox,
     disk, inputs
<1>5. \A h \in Findings \ {f} : package'[h] = package[h]
  BY DEF DiscloseAct, KeepDisclosure, RefuseDisclosure, Disclose, Disclosed, ExportDisclosure,
     DisclosedInSandbox,
     disk, TypeInv, TypeOK
<1> HIDE DEF t
<1>6. OnlyTask(t)
  BY <1>1, <1>2, <1>3, <1>4, MoveIsOnly
<1> QED BY <1>4, <1>5, <1>6 DEF t

LEMMA TaskFailsOnly ==
    ASSUME TypeInv, NEW t \in Tasks, TaskFails(t)
    PROVE  /\ OnlyTask(t) /\ at[t] \in Busy /\ at'[t] = "rejected"
           /\ UNCHANGED <<finding, verdict, pocs, package, markers, patchy>>
<1>1. phase = t[1] /\ phase' = phase
  BY DEF TaskFails, TypeInv, Placed, Busy, Over
<1>2. OnlyTask(t)
  BY <1>1, MoveIsOnly DEF TaskFails, disk, inputs, Over
<1> QED BY <1>2 DEF TaskFails, disk, Settle, TypeInv, TypeOK

\* The stages before the search know nothing of findings.
EarlyAct == SetUp \/ KeepResearch \/ DoResearch \/ KeepUnits \/ Decompose \/ Decomposed
\* The rest of an attempt, or the attempt, ends; or the next one begins.
EndAct == Start \/ StageFails \/ Stop \/ Crash
CloseAct == CompleteDisclosure \/ RemoveWorktree \/ FinishAudit \/ StopCleaning
BeginAct == BeginEvaluation \/ BeginReproduction \/ BeginDisclosure
AgentWrites ==
    \/ \E u \in Units : AgentFinds(u)
    \/ \E f \in Findings : AgentReproduces(f) \/ AgentDiscloses(f)

LEMMA EarlyActs ==
    ASSUME TypeInv, EarlyAct
    PROVE  /\ phase \in {"setup", "research", "decompose"}
           /\ phase' \in {"research", "decompose", "search", "ended"}
           /\ \A t \in Tasks \ {Decomposition} : t \in markers' <=> t \in markers
           /\ \A t \in Tasks : t[1] \in {"evaluate", "reproduce", "disclose"} =>
                 at[t] = "idle" /\ at'[t] = "idle"
           /\ \A u \in Units : /\ at[<<"search", u>>] = "idle"
                               /\ at'[<<"search", u>>] =
                                     IF phase' = "search" THEN "waiting" ELSE "idle"
           /\ \A t \in Tasks : at'[t] = "rejected" => at[t] = "rejected"
           /\ UNCHANGED <<finding, verdict, pocs, package, worktree, errors, settings, patchy>>
           /\ phase' = "ended" => outcome' = "failed"
           /\ phase' # "ended" => outcome' = outcome
           /\ stageState'["disclose"] = stageState["disclose"]
<1>1. /\ phase \in {"setup", "research", "decompose"} /\ phase \in Stages
      /\ UNCHANGED <<finding, verdict, pocs, package, worktree, errors, settings, patchy>>
      /\ \A t \in Tasks \ {Decomposition} : t \in markers' <=> t \in markers
  BY DEF EarlyAct, SetUp, KeepResearch, DoResearch, KeepUnits, Decompose, Decomposed, disk, inputs,
     Stages
<1>2. \A t \in Tasks : t[1] \in {"evaluate", "reproduce", "disclose", "search"} => at[t] = "idle"
  BY <1>1 DEF TypeInv, Placed
<1>3. \A u \in Units : <<"search", u>> \in Tasks /\ at[<<"search", u>>] = "idle"
  BY <1>2, TaskFacts
<1>4. CASE \E s \in {"research", "decompose"} : \E t \in {Research, Decomposition} :
              Enter(s, {t}) /\ outcome' = outcome
  <2>1. /\ phase' \in {"research", "decompose"} /\ outcome' = outcome
        /\ \A t \in Tasks : t \notin {Research, Decomposition} => at'[t] = "idle"
        /\ \A t \in Tasks : at'[t] # "rejected"
        /\ stageState'["disclose"] = stageState["disclose"]
    BY <1>1, <1>4 DEF Enter, Begun, TypeInv, TypeOK, Stages
  <2> QED BY <1>1, <1>2, <1>3, <2>1, TaskFacts, TasksDiffer
<1>5. CASE Enter("search", Search(Units)) /\ outcome' = outcome
  <2>1. /\ phase' = "search" /\ outcome' = outcome
        /\ \A t \in Tasks : at'[t] = IF t \in Search(Units) THEN "waiting" ELSE "idle"
        /\ stageState'["disclose"] = stageState["disclose"]
    BY <1>1, <1>5 DEF Enter, Begun, TypeInv, TypeOK, Stages
  <2>2. \A u \in Units : at'[<<"search", u>>] = "waiting"
    BY <2>1, <1>3 DEF Search
  <2>3. \A t \in Tasks : t[1] # "search" => at'[t] = "idle"
    BY <2>1, TaskFacts
  <2> QED BY <1>1, <1>2, <1>3, <2>1, <2>2, <2>3
<1>6. CASE EndWith("failed")
  <2>1. /\ phase' = "ended" /\ outcome' = "failed"
        /\ \A t \in Tasks : at'[t] = IF at[t] \in Over THEN at[t] ELSE "idle"
        /\ stageState'["disclose"] = stageState["disclose"]
    BY <1>1, <1>6 DEF EndWith, TypeInv, TypeOK, Stages
  <2> QED BY <1>1, <1>2, <1>3, <2>1
<1>7. CASE /\ \E r \in Busy : at' = [at EXCEPT ![Decomposition] = r]
           /\ UNCHANGED <<phase, stageState, outcome>>
  <2>1. /\ \A t \in Tasks \ {Decomposition} : at'[t] = at[t]
        /\ \A t \in Tasks : at'[t] = "rejected" => at[t] = "rejected"
    BY <1>7, TaskFacts DEF TypeInv, TypeOK, Busy
  <2>2. phase = "decompose"
    BY <1>1, <1>7, TaskFacts DEF EarlyAct, SetUp, KeepResearch, DoResearch, KeepUnits, Decompose,
       Decomposed, Enter
  <2>3. \A u \in Units : at'[<<"search", u>>] = "idle"
    BY <1>3, <2>1, TasksDiffer
  <2>4. \A t \in Tasks : t[1] \in {"evaluate", "reproduce", "disclose"} => at'[t] = "idle"
    BY <1>2, <2>1, TaskFacts
  <2> QED BY <1>1, <1>2, <1>3, <1>7, <2>1, <2>2, <2>3, <2>4
<1>8. \/ \E s \in {"research", "decompose"} : \E t \in {Research, Decomposition} :
              Enter(s, {t}) /\ outcome' = outcome
      \/ Enter("search", Search(Units)) /\ outcome' = outcome
      \/ EndWith("failed")
      \/ /\ \E r \in Busy : at' = [at EXCEPT ![Decomposition] = r]
         /\ UNCHANGED <<phase, stageState, outcome>>
  BY DEF EarlyAct, SetUp, KeepResearch, DoResearch, KeepUnits, Decompose, Decomposed, Busy
<1> QED BY <1>4, <1>5, <1>6, <1>7, <1>8

LEMMA EndActs ==
    ASSUME TypeInv, EndAct
    PROVE  /\ phase' \in {"ended", "down", "setup"}
           /\ \A t \in Tasks : at'[t] = "idle" \/ (at'[t] = at[t] /\ at[t] \in Over)
           /\ UNCHANGED <<inputs, finding, verdict, markers, sandbox, patchy>>
           /\ ~Crash => UNCHANGED <<pocs, package>>
<1>1. CASE StageFails \/ Stop
  <2>1. PICK result \in {"failed", "cancelled"} : EndWith(result)
    BY <1>1 DEF StageFails, Stop
  <2>2. phase \in Stages
    BY <1>1 DEF StageFails, Stop, Stages
  <2>3. phase' = "ended" /\ \A t \in Tasks : at'[t] = IF at[t] \in Over THEN at[t] ELSE "idle"
    BY <2>1, <2>2, EndFacts DEF TypeInv
  <2>4. UNCHANGED <<disk, sandbox, patchy>>
    BY <1>1 DEF StageFails, Stop, settings
  <2>5. UNCHANGED <<inputs, finding, verdict, markers, pocs, package>>
    BY <2>4 DEF disk
  <2> QED BY <2>3, <2>4, <2>5
<1>2. CASE Start \/ Crash
  <2>1. phase' \in {"down", "setup"} /\ \A t \in Tasks : at'[t] = "idle"
    BY <1>2 DEF Start, Crash
  <2>2. /\ UNCHANGED <<inputs, finding, verdict, markers, sandbox, patchy>>
        /\ Start => UNCHANGED <<pocs, package>>
    BY <1>2 DEF Start, Crash, disk
  <2> QED BY <1>2, <2>1, <2>2
<1> QED BY <1>1, <1>2 DEF EndAct

LEMMA BeginActs ==
    ASSUME PipelineAssumption, TypeInv, BeginAct
    PROVE  /\ \/ phase = "search" /\ phase' = "evaluate"
              \/ phase = "evaluate" /\ phase' = "reproduce"
              \/ phase = "reproduce" /\ phase' = "disclose"
           /\ \A t \in Tasks : t[1] # phase' => at'[t] = "idle"
           /\ \A t \in Tasks : at'[t] \in {"idle", "waiting"}
           /\ UNCHANGED <<finding, pocs, package, markers, errors, outcome, patchy, worktree,
                          settings, head>>
           /\ phase # "evaluate" => verdict' = verdict
<1>1. CASE BeginEvaluation
  <2>1. Enter("evaluate", Evaluation(Candidates)) /\ phase = "search"
    BY <1>1 DEF BeginEvaluation
  <2>2. \A t \in Evaluation(Candidates) : t[1] = "evaluate"
    BY DEF Evaluation
  <2> QED BY <1>1, <2>1, <2>2 DEF BeginEvaluation, Enter, disk, inputs
<1>2. CASE BeginReproduction
  <2>1. PICK fs : Enter("reproduce", Reproduction(fs)) /\ phase = "evaluate"
    BY <1>2 DEF BeginReproduction
  <2>2. \A t \in Reproduction(fs) : t[1] = "reproduce"
    BY DEF Reproduction
  <2> QED BY <1>2, <2>1, <2>2 DEF BeginReproduction, Enter, disk, inputs
<1>3. CASE BeginDisclosure
  <2>1. PICK fs : Enter("disclose", Disclosure(fs)) /\ phase = "reproduce"
    BY <1>3 DEF BeginDisclosure
  <2>2. \A t \in Disclosure(fs) : t[1] = "disclose"
    BY DEF Disclosure
  <2> QED BY <1>3, <2>1, <2>2 DEF BeginDisclosure, Enter, disk, inputs
<1> QED BY <1>1, <1>2, <1>3 DEF BeginAct

LEMMA CloseActs ==
    ASSUME CloseAct
    PROVE  /\ UNCHANGED <<inputs, finding, verdict, pocs, package, markers, at, errors, settings,
                           madeAt, patchy>>
           /\ \/ phase = "disclose" /\ phase' = "clean"
              \/ phase = "clean" /\ phase' = "ended"
              \/ phase' = phase /\ UNCHANGED <<stageState, outcome>>
  BY DEF CloseAct, CompleteDisclosure, RemoveWorktree, FinishAudit, StopCleaning

\* A step is of one of these kinds.
LEMMA Kinds ==
    ASSUME [Next]_vars
    PROVE  \/ EarlyAct \/ EndAct \/ BeginAct \/ AgentWrites \/ OpenWorktree \/ CloseAct
           \/ \E u \in Units : SearchAct(u)
           \/ \E f \in Findings : EvaluateAct(f) \/ ReproduceAct(f) \/ DiscloseAct(f)
           \/ \E t \in Tasks : TaskFails(t)
           \/ UNCHANGED vars
  BY DEF Next, EarlyAct, EndAct, CloseAct, BeginAct, AgentWrites, SearchAct, EvaluateAct,
     ReproduceAct, DiscloseAct

-----------------------------------------------------------------------------
(* Stage 3: a unit that is through is marked, or noted as patchy *)

LEMMA SearchFrame ==
    ASSUME SearchInv, phase' = "search" => phase = "search",
           \A u \in Units :
              /\ \/ at'[<<"search", u>>] = at[<<"search", u>>]
                 \/ at'[<<"search", u>>] = "idle" /\ phase' # "search"
              /\ <<"search", u>> \in markers' <=> <<"search", u>> \in markers,
           patchy' = patchy
    PROVE  SearchInv'
  BY DEF SearchInv, SearchedFor

LEMMA SearchActKeepsSearch ==
    ASSUME PipelineAssumption, TypeInv, SearchInv, NEW u \in Units, SearchAct(u)
    PROVE  SearchInv'
<1> DEFINE t == <<"search", u>>
<1>1. OnlyTask(t)
  BY SearchActs
<1>2. \A v \in Units \ {u} : /\ at'[<<"search", v>>] = at[<<"search", v>>]
                             /\ <<"search", v>> \in markers' <=> <<"search", v>> \in markers
  BY <1>1, TaskFacts, TasksDiffer DEF OnlyTask
<1>3. phase = "search" /\ phase' = "search"
  BY <1>1 DEF OnlyTask
<1>4. \A v \in Units : "unmarked" \in patchy[v] => "unmarked" \in patchy'[v]
  BY DEF SearchAct, KeepFindings, SearchUnit, Searched, TypeInv, TypeOK
<1>5. \A v \in Units \ {u} : SearchedFor(v) => SearchedFor(v)'
  BY <1>2, <1>4 DEF SearchedFor
<1>6. /\ at'[t] \in {"agent", "ok"} /\ (at'[t] = "agent" => t \notin markers')
      /\ at'[t] = "ok" => SearchedFor(u)'
  <2>1. CASE KeepFindings(u)
    BY <2>1, TaskFacts DEF KeepFindings, Settle, TypeInv, TypeOK, disk, SearchedFor
  <2>2. CASE SearchUnit(u)
    BY <2>2, TaskFacts DEF SearchUnit, TypeInv, TypeOK
  <2>3. CASE Searched(u)
    <3>1. at'[t] = "ok"
      BY <2>3, TaskFacts DEF Searched, Settle, TypeInv, TypeOK
    <3>2. t \in markers' \/ "unmarked" \in patchy'[u]
      BY <2>3 DEF Searched, TypeInv, TypeOK
    <3> QED BY <3>1, <3>2 DEF SearchedFor
  <2> QED BY <2>1, <2>2, <2>3 DEF SearchAct
<1> QED BY <1>2, <1>3, <1>5, <1>6 DEF SearchInv

LEMMA SearchStep ==
    ASSUME PipelineAssumption, TypeInv, SearchInv, [Next]_vars
    PROVE  SearchInv'
<1>1. CASE EarlyAct
  <2>1. \A u \in Units : <<"search", u>> \in markers' <=> <<"search", u>> \in markers
    BY <1>1, EarlyActs, TaskFacts, TasksDiffer
  <2>2. \A u \in Units : SearchedFor(u)' <=> SearchedFor(u)
    BY <1>1, <2>1, EarlyActs DEF SearchedFor
  <2> QED BY <1>1, <2>1, <2>2, EarlyActs DEF SearchInv
<1>2. CASE EndAct
  BY <1>2, EndActs, TaskFacts, SearchFrame
<1>3. CASE BeginAct
  BY <1>3, BeginActs, TaskFacts, SearchFrame
<1>4. CASE AgentWrites
  BY <1>4, SearchFrame DEF AgentWrites, AgentFinds, AgentReproduces, AgentDiscloses
<1>5. CASE OpenWorktree \/ CloseAct
  BY <1>5, CloseActs, SearchFrame DEF OpenWorktree
<1>6. ASSUME NEW f \in Findings, EvaluateAct(f) \/ ReproduceAct(f) \/ DiscloseAct(f)
      PROVE  SearchInv'
  <2>1. PICK t \in {<<"evaluate", f>>, <<"reproduce", f>>, <<"disclose", f>>} :
          OnlyTask(t) /\ UNCHANGED <<finding, patchy>>
    BY <1>6, EvaluateActs, ReproduceActs, DiscloseActs
  <2>2. \A u \in Units : <<"search", u>> \in Tasks \ {t}
    BY TaskFacts, TasksDiffer
  <2> QED BY <2>1, <2>2, SearchFrame DEF OnlyTask
<1>7. ASSUME NEW u \in Units, SearchAct(u) PROVE SearchInv'
  BY <1>7, SearchActKeepsSearch
<1>8. ASSUME NEW t \in Tasks, TaskFails(t) PROVE SearchInv'
  <2>1. OnlyTask(t) /\ at'[t] = "rejected" /\ UNCHANGED <<finding, markers, patchy>>
    BY <1>8, TaskFailsOnly
  <2>2. \A u \in Units : at'[<<"search", u>>] \in {at[<<"search", u>>], "rejected"}
    BY <2>1, TaskFacts DEF OnlyTask
  <2> QED BY <2>1, <2>2 DEF OnlyTask, SearchInv, SearchedFor
<1>9. CASE UNCHANGED vars
  BY <1>9, SearchFrame DEF vars, disk
<1> QED BY <1>1, <1>2, <1>3, <1>4, <1>5, <1>6, <1>7, <1>8, <1>9, Kinds

-----------------------------------------------------------------------------
(* Stage 4: a verdict is of what the search left *)

LEMMA VerdictFrame ==
    ASSUME VerdictInv,
           \A f \in Findings :
              /\ at'[<<"evaluate", f>>] \in {at[<<"evaluate", f>>], "idle"}
              /\ <<"evaluate", f>> \in markers' <=> <<"evaluate", f>> \in markers,
           \A u \in Units : <<"search", u>> \in markers' <=> <<"search", u>> \in markers,
           UnitOf \in [Findings -> Units], finding' = finding, verdict' = verdict, patchy' = patchy
    PROVE  VerdictInv'
  BY DEF VerdictInv, SearchedFor, Busy, Writers

LEMMA EvaluateActKeepsVerdict ==
    ASSUME PipelineAssumption, TypeInv, VerdictInv, NEW f \in Findings, EvaluateAct(f)
    PROVE  VerdictInv'
<1> DEFINE t == <<"evaluate", f>>
<1>1. OnlyTask(t) /\ UNCHANGED <<finding, patchy>>
  BY EvaluateActs
<1>2. \A h \in Findings \ {f} : /\ at'[<<"evaluate", h>>] = at[<<"evaluate", h>>]
                                /\ <<"evaluate", h>> \in markers' <=> <<"evaluate", h>> \in markers
                                /\ verdict'[h] = verdict[h]
  BY <1>1, EvaluateActs, TaskFacts, TasksDiffer DEF OnlyTask
<1>3. \A u \in Units : <<"search", u>> \in markers' <=> <<"search", u>> \in markers
  BY <1>1, TaskFacts, TasksDiffer DEF OnlyTask
<1>4. \A u \in Units : SearchedFor(u)' <=> SearchedFor(u)
  BY <1>1, <1>3 DEF SearchedFor
<1>5. UnitOf[f] \in Units /\ at[t] # "idle" /\ SearchedFor(UnitOf[f])
  BY DEF PipelineAssumption, VerdictInv, EvaluateAct, KeepVerdict, EvaluateFinding, Evaluated
<1>t. \A h \in Findings : UnitOf[h] \in Units
  BY DEF PipelineAssumption
<1>6. CASE KeepVerdict(f)
  <2>1. /\ UNCHANGED <<verdict, markers>>
        /\ at'[t] = IF verdict[f].is = "pending" THEN "ok" ELSE "none"
    BY <1>6, TaskFacts DEF KeepVerdict, Settle, TypeInv, TypeOK, disk
  <2> QED BY <1>1, <1>2, <1>3, <1>4, <1>5, <1>t, <2>1 DEF VerdictInv, Busy
<1>7. CASE EvaluateFinding(f)
  <2>1. UNCHANGED <<verdict, markers>> /\ at'[t] = "agent" /\ t \notin markers
    BY <1>7, TaskFacts DEF EvaluateFinding, TypeInv, TypeOK, disk
  <2> QED BY <1>1, <1>2, <1>3, <1>4, <1>5, <1>t, <2>1 DEF VerdictInv
<1>8. CASE Evaluated(f)
  <2>1. CASE UNCHANGED <<verdict, markers>> /\ Settle(t, "none")
    <3>1. at'[t] = "none"
      BY <2>1, TaskFacts DEF Settle, TypeInv, TypeOK
    <3> QED BY <1>1, <1>2, <1>3, <1>4, <1>5, <1>t, <2>1, <3>1 DEF VerdictInv, Busy
  <2>2. ASSUME NEW is \in {"pending", "refused"},
               verdict' = [verdict EXCEPT ![f] = [of |-> finding[f], is |-> is]],
               markers' = markers \cup {t},
               Settle(t, IF is = "pending" THEN "ok" ELSE "none")
        PROVE  VerdictInv'
    <3>1. at'[t] = IF is = "pending" THEN "ok" ELSE "none"
      BY <2>2, TaskFacts DEF Settle, TypeInv, TypeOK
    <3>2. verdict'[f].of = finding[f] /\ verdict'[f].is = is
      BY <2>2 DEF TypeInv, TypeOK
    <3>3. at'[t] \notin Busy /\ at'[t] # "idle" /\ (at'[t] = "ok" => is = "pending")
      BY <3>1 DEF Busy
    <3>4. \/ <<"search", UnitOf[f]>> \in markers' /\ finding'[f] = verdict'[f].of
          \/ patchy'[UnitOf[f]] # {}
      BY <1>1, <1>3, <1>5, <3>2 DEF SearchedFor
    <3>5. t \in markers'
      BY <2>2
    <3>6. ASSUME NEW h \in Findings \ {f}
          PROVE  /\ at'[<<"evaluate", h>>] # "idle" => SearchedFor(UnitOf[h])'
                 /\ at'[<<"evaluate", h>>] \in Busy => <<"evaluate", h>> \notin markers'
                 /\ at'[<<"evaluate", h>>] = "ok" => verdict'[h].is = "pending"
                 /\ verdict'[h].is # "open" =>
                       /\ <<"evaluate", h>> \in markers'
                       /\ \/ /\ <<"search", UnitOf[h]>> \in markers'
                             /\ finding'[h] \in Writers => finding'[h] = verdict'[h].of
                          \/ patchy'[UnitOf[h]] # {}
      BY <1>1, <1>2, <1>3, <1>4, <1>t DEF VerdictInv
    <3> QED BY <1>4, <1>5, <3>2, <3>3, <3>4, <3>5, <3>6 DEF VerdictInv
  <2> QED BY <1>8, <2>1, <2>2 DEF Evaluated
<1> QED BY <1>6, <1>7, <1>8 DEF EvaluateAct

LEMMA SearchActKeepsVerdict ==
    ASSUME PipelineAssumption, TypeInv, SearchInv, VerdictInv, NEW u \in Units, SearchAct(u)
    PROVE  VerdictInv'
<1>1. OnlyTask(<<"search", u>>) /\ verdict' = verdict /\ UnitOf \in [Findings -> Units]
  BY SearchActs DEF PipelineAssumption
<1>2. \A f \in Findings : /\ at'[<<"evaluate", f>>] = at[<<"evaluate", f>>]
                          /\ <<"evaluate", f>> \in markers' <=> <<"evaluate", f>> \in markers
  BY <1>1, TaskFacts, TasksDiffer DEF OnlyTask
<1>3. \A v \in Units \ {u} : <<"search", v>> \in markers' <=> <<"search", v>> \in markers
  BY <1>1, TaskFacts, TasksDiffer DEF OnlyTask
<1>4. CASE KeepFindings(u)
  BY <1>1, <1>2, <1>4, VerdictFrame DEF KeepFindings, disk
<1>5. CASE SearchUnit(u) \/ Searched(u)
  <2>1. /\ \A f \in Findings : UnitOf[f] # u => finding'[f] = finding[f]
        /\ \A v \in Units : patchy[v] \subseteq patchy'[v]
        /\ <<"search", u>> \in markers => patchy'[u] # {}
    <3>1. patchy \in [Units -> SUBSET {"unmarked", "reopened"}]
      BY DEF TypeInv, TypeOK
    <3>2. \A f \in Findings : UnitOf[f] # u => finding'[f] = finding[f]
      BY <1>5 DEF SearchUnit, Searched, BrokenFiles, Of
    <3>3. CASE SearchUnit(u)
      <4>1. \/ patchy' = patchy /\ <<"search", u>> \notin markers
            \/ patchy' = [patchy EXCEPT ![u] = @ \cup {"reopened"}]
        BY <3>3 DEF SearchUnit
      <4> QED BY <3>1, <3>2, <4>1
    <3>4. CASE Searched(u)
      <4>1. patchy' = patchy \/ patchy' = [patchy EXCEPT ![u] = @ \cup {"unmarked"}]
        BY <3>4 DEF Searched
      <4>2. <<"search", u>> \notin markers
        BY <3>4 DEF Searched, SearchInv
      <4> QED BY <3>1, <3>2, <4>1, <4>2
    <3> QED BY <1>5, <3>3, <3>4
  <2>2. \A f \in Findings : at[<<"evaluate", f>>] = "idle"
    <3> TAKE f \in Findings
    <3> QED BY <1>5, TaskFacts, <<"evaluate", f>>[1] = "evaluate" DEF SearchUnit, Searched, TypeInv,
            Placed
  <2>3. ASSUME NEW f \in Findings, verdict[f].is # "open"
        PROVE  \/ /\ <<"search", UnitOf[f]>> \in markers'
                  /\ finding'[f] \in Writers => finding'[f] = verdict'[f].of
               \/ patchy'[UnitOf[f]] # {}
    <3>1. CASE UnitOf[f] = u
      BY <2>1, <2>3, <3>1 DEF VerdictInv
    <3>2. CASE UnitOf[f] # u
      <4>1. UnitOf[f] \in Units \ {u}
        BY <1>1, <3>2
      <4>2. /\ finding'[f] = finding[f] /\ patchy[UnitOf[f]] \subseteq patchy'[UnitOf[f]]
            /\ <<"search", UnitOf[f]>> \in markers' <=> <<"search", UnitOf[f]>> \in markers
        BY <1>3, <2>1, <3>2, <4>1
      <4> QED BY <1>1, <2>3, <4>2 DEF VerdictInv
    <3> QED BY <3>1, <3>2
  <2> QED BY <1>1, <1>2, <2>2, <2>3 DEF VerdictInv, Busy, Writers
<1> QED BY <1>4, <1>5 DEF SearchAct

LEMMA VerdictStep ==
    ASSUME PipelineAssumption, TypeInv, SearchInv, VerdictInv, [Next]_vars
    PROVE  VerdictInv'
<1>a. UnitOf \in [Findings -> Units]
  BY DEF PipelineAssumption
<1>1. CASE EarlyAct
  <2>1. \A f \in Findings : /\ at'[<<"evaluate", f>>] = "idle"
                            /\ <<"evaluate", f>> \in markers' <=> <<"evaluate", f>> \in markers
    <3> TAKE f \in Findings
    <3> QED BY <1>1, EarlyActs, TaskFacts, TasksDiffer, <<"evaluate", f>>[1] = "evaluate"
  <2>2. \A u \in Units : <<"search", u>> \in markers' <=> <<"search", u>> \in markers
    BY <1>1, EarlyActs, TaskFacts, TasksDiffer
  <2> QED BY <1>1, <1>a, <2>1, <2>2, EarlyActs, VerdictFrame
<1>2. CASE EndAct
  BY <1>2, <1>a, EndActs, TaskFacts, VerdictFrame
<1>3. CASE BeginEvaluation
  <2>1. \A f \in Findings : at'[<<"evaluate", f>>] \in {"idle", "waiting"}
    BY <1>3, BeginActs, TaskFacts DEF BeginAct
  <2>2. ASSUME NEW f \in Findings, at'[<<"evaluate", f>>] # "idle"
        PROVE  SearchedFor(UnitOf[f])
    <3>1. <<"evaluate", f>> \in Evaluation(Candidates)
      BY <1>3, <2>2, TaskFacts DEF BeginEvaluation, Enter
    <3>2. at[<<"search", UnitOf[f]>>] = "ok"
      BY <3>1 DEF Evaluation, Candidates
    <3> QED BY <1>a, <3>2 DEF SearchInv
  <2> QED BY <1>3, <2>1, <2>2 DEF BeginEvaluation, disk, VerdictInv, SearchedFor, Busy
<1>4. CASE BeginReproduction
  <2>1. /\ \A f \in Findings : at'[<<"evaluate", f>>] = "idle"
        /\ UNCHANGED <<finding, markers, patchy>>
    <3>1. UNCHANGED <<finding, markers, patchy>> /\ phase' = "reproduce"
      BY <1>4, BeginActs DEF BeginAct, BeginReproduction, Enter
    <3>2. ASSUME NEW f \in Findings PROVE at'[<<"evaluate", f>>] = "idle"
      BY <1>4, <3>1, BeginActs, TaskFacts, <<"evaluate", f>>[1] = "evaluate" DEF BeginAct
    <3> QED BY <3>1, <3>2
  <2>2. \A f \in Findings :
          verdict'[f].of = verdict[f].of /\ (verdict'[f].is # "open" => verdict[f].is # "open")
    <3>1. verdict \in [Findings -> [of : Writers \cup {None},
                                   is : {"open", "pending", "refused", "final"}]]
      BY DEF TypeInv, TypeOK
    <3>2. verdict' = [f \in Findings |-> IF at[<<"evaluate", f>>] = "ok"
                                        THEN [verdict[f] EXCEPT !.is = "final"] ELSE verdict[f]]
      BY <1>4 DEF BeginReproduction
    <3>3. \A f \in Findings : at[<<"evaluate", f>>] = "ok" => verdict[f].is = "pending"
      BY DEF VerdictInv
    <3>4. ASSUME NEW f \in Findings, at[<<"evaluate", f>>] = "ok"
          PROVE  verdict'[f].of = verdict[f].of /\ verdict[f].is = "pending"
      <4>1. verdict'[f] = [verdict[f] EXCEPT !.is = "final"]
        BY <3>2, <3>4
      <4>2. verdict[f] \in [of : Writers \cup {None},
                            is : {"open", "pending", "refused", "final"}]
        BY <3>1, <3>4
      <4> QED BY <3>3, <3>4, <4>1, <4>2
    <3>5. ASSUME NEW f \in Findings, at[<<"evaluate", f>>] # "ok"
          PROVE  verdict'[f] = verdict[f]
      BY <3>2, <3>5
    <3> QED BY <3>4, <3>5
  <2> QED BY <2>1, <2>2 DEF VerdictInv, Busy
<1>5. CASE BeginDisclosure
  <2>1. UNCHANGED <<finding, markers, verdict, patchy>> /\ phase' = "disclose"
    BY <1>5, BeginActs DEF BeginAct, BeginDisclosure, Enter
  <2>2. ASSUME NEW f \in Findings PROVE at'[<<"evaluate", f>>] = "idle"
    BY <1>5, <2>1, BeginActs, TaskFacts, <<"evaluate", f>>[1] = "evaluate" DEF BeginAct
  <2> QED BY <1>a, <2>1, <2>2, VerdictFrame
<1>6. CASE AgentWrites
  <2>1. ASSUME NEW u \in Units, AgentFinds(u) PROVE VerdictInv'
    <3>1. \A f \in Findings : UnitOf[f] # u => finding'[f] = finding[f]
      BY <2>1 DEF AgentFinds, Of, TypeInv, TypeOK
    <3>2. <<"search", u>> \notin markers /\ UNCHANGED <<at, markers, verdict, patchy>>
      BY <2>1 DEF AgentFinds, SearchInv
    <3> QED BY <3>1, <3>2 DEF VerdictInv, SearchedFor
  <2>2. ASSUME NEW f \in Findings, AgentReproduces(f) \/ AgentDiscloses(f) PROVE VerdictInv'
    BY <1>a, <2>2, VerdictFrame DEF AgentReproduces, AgentDiscloses
  <2> QED BY <1>6, <2>1, <2>2 DEF AgentWrites
<1>7. CASE OpenWorktree \/ CloseAct
  BY <1>a, <1>7, CloseActs, VerdictFrame DEF OpenWorktree
<1>8. ASSUME NEW f \in Findings, ReproduceAct(f) \/ DiscloseAct(f) PROVE VerdictInv'
  <2>1. PICK t \in {<<"reproduce", f>>, <<"disclose", f>>} :
          OnlyTask(t) /\ UNCHANGED <<finding, verdict, patchy>>
    BY <1>8, ReproduceActs, DiscloseActs
  <2>2. /\ \A u \in Units : <<"search", u>> \in Tasks \ {t}
        /\ \A h \in Findings : <<"evaluate", h>> \in Tasks \ {t}
    BY TaskFacts, TasksDiffer
  <2> QED BY <1>a, <2>1, <2>2, VerdictFrame DEF OnlyTask
<1>9. ASSUME NEW t \in Tasks, TaskFails(t) PROVE VerdictInv'
  <2>1. /\ OnlyTask(t) /\ at[t] \in Busy /\ at'[t] = "rejected"
        /\ UNCHANGED <<finding, verdict, markers, patchy>>
    BY <1>9, TaskFailsOnly
  <2>2. \A f \in Findings : \/ at'[<<"evaluate", f>>] = at[<<"evaluate", f>>]
                            \/ /\ at'[<<"evaluate", f>>] = "rejected"
                               /\ at[<<"evaluate", f>>] \in Busy
    BY <2>1, TaskFacts DEF OnlyTask
  <2> QED BY <2>1, <2>2 DEF VerdictInv, SearchedFor, Busy
<1>10. CASE UNCHANGED vars
  BY <1>a, <1>10, VerdictFrame DEF vars, disk
<1> QED BY <1>1, <1>2, <1>3, <1>4, <1>5, <1>6, <1>7, <1>8, <1>9, <1>10,
           EvaluateActKeepsVerdict, SearchActKeepsVerdict, Kinds DEF BeginAct

-----------------------------------------------------------------------------
(* Stage 5: a task that came to its end has its result in the directory *)

LEMMA ReportFrame ==
    ASSUME ReportInv,
           \A f \in Findings :
              /\ \/ at'[<<"reproduce", f>>] = at[<<"reproduce", f>>]
                 \/ at'[<<"reproduce", f>>] = "idle" /\ phase' # "reproduce"
              /\ <<"reproduce", f>> \in markers' <=> <<"reproduce", f>> \in markers,
           phase' = "reproduce" => phase = "reproduce" /\ using' = using,
           verdict' = verdict, UNCHANGED pocs, sandbox' = sandbox
    PROVE  ReportInv'
<1>1. \A f \in Findings : /\ ReportOf(f)' = ReportOf(f) /\ (f \in Selected' <=> f \in Selected)
                          /\ (Result(f)' <=> Result(f)) /\ (f \in fp' <=> f \in fp)
  BY DEF Result, ReportOf, Selected, pocs
<1> QED BY <1>1 DEF ReportInv, Busy

LEMMA ReproduceActKeepsReport ==
    ASSUME TypeInv, ReportInv, NEW f \in Findings, ReproduceAct(f)
    PROVE  ReportInv'
<1> DEFINE t == <<"reproduce", f>>
<1>1. OnlyTask(t) /\ verdict' = verdict /\ UNCHANGED <<using, sandbox>>
  BY ReproduceActs DEF OnlyTask, settings
<1>2. \A h \in Findings \ {f} :
         /\ at'[<<"reproduce", h>>] = at[<<"reproduce", h>>]
         /\ <<"reproduce", h>> \in markers' <=> <<"reproduce", h>> \in markers
         /\ ReportOf(h)' = ReportOf(h) /\ (h \in fp' <=> h \in fp)
  BY <1>1, ReproduceActs, TaskFacts, TasksDiffer DEF OnlyTask, ReportOf
<1>3. /\ phase = "reproduce" /\ phase' = "reproduce" /\ t \in Tasks
      /\ at[t] \in {"waiting", "agent", "exported", "refuted"} /\ verdict[f].is = "final"
      /\ using # "unset"
  <2>1. /\ phase = "reproduce" /\ phase' = "reproduce" /\ t \in Tasks
        /\ at[t] \in {"waiting", "agent", "exported", "refuted"}
    BY <1>1 DEF OnlyTask, ReproduceAct, KeepReproduction, Reproduce, Reproduced, ExportReproduction,
       ReproducedInSandbox
  <2>2. verdict[f].is = "final"
    BY <2>1 DEF ReportInv
  <2>3. using # "unset"
    BY <2>1 DEF ReproduceAct, KeepReproduction, Reproduce, Reproduced, ExportReproduction,
     ReproducedInSandbox, ReportInv
  <2> QED BY <2>1, <2>2, <2>3
<1>4. \A r : Settle(t, r) => at'[t] = r
  BY <1>3 DEF Settle, TypeInv, TypeOK
\* A report that was resolved stays what it was, and a failure is kept as one.
<1>5. ResolveReport(f) => ReportOf(f)' = ReportOf(f)
  BY DEF ResolveReport, ReportOf, TypeInv, TypeOK
<1>6. /\ at'[t] \in {"agent", "exported", "refuted", "ok", "none", "rejected"}
      /\ at'[t] \in {"agent", "exported", "refuted"} => t \notin markers'
      /\ at'[t] \in {"ok", "exported"} => ReportOf(f)' = "report"
      /\ at'[t] \in {"ok", "none"} => Result(f)'
      /\ at'[t] = "refuted" => f \in fp'
  <2>1. CASE KeepReproduction(f)
    BY <1>4, <1>5, <2>1 DEF KeepReproduction, Result
  <2>2. CASE Reproduce(f)
    BY <1>3, <2>2 DEF Reproduce, TypeInv, TypeOK
  <2>3. CASE Reproduced(f)
    <3>1. ReportOf(f)' = ReportOf(f) /\ ~sandbox /\ sandbox' = sandbox
      BY <1>1, <1>5, <2>3 DEF Reproduced
    <3>2. CASE ReportOf(f) = "none" /\ Settle(t, "none")
      BY <1>4, <3>1, <3>2 DEF Result
    <3>3. CASE Settle(t, "rejected")
      BY <1>4, <3>3
    <3>4. CASE /\ ReportOf(f) # "none" /\ markers' = markers \cup {t}
               /\ Settle(t, IF ReportOf(f) = "report" THEN "ok" ELSE "none")
      BY <1>4, <3>1, <3>4 DEF Result
    <3> QED BY <2>3, <3>2, <3>3, <3>4 DEF Reproduced
  <2>4. CASE ExportReproduction(f)
    <3>1. t \notin markers'
      BY <2>4 DEF ExportReproduction, ReportInv, Busy
    <3>2. \/ at'[t] = "exported" /\ poc'[f] \in {"unknown", "reproduced"}
          \/ at'[t] = "refuted" /\ f \in fp'
      BY <1>3, <2>4 DEF ExportReproduction, TypeInv, TypeOK
    <3>3. at'[t] = "exported" => ReportOf(f)' = "report"
      BY <3>2 DEF ReportOf
    <3> QED BY <3>1, <3>2, <3>3
  <2>5. CASE ReproducedInSandbox(f)
    <3>1. UNCHANGED <<poc, fp>> /\ t \in markers' /\ ReportOf(f)' = ReportOf(f)
      BY <2>5 DEF ReproducedInSandbox, pocs, ReportOf
    <3>2. CASE at[t] = "exported"
      <4>1. at'[t] = "ok" /\ ReportOf(f) = "report"
        BY <1>4, <2>5, <3>2 DEF ReproducedInSandbox, ReportInv
      <4> QED BY <3>1, <4>1 DEF Result
    <3>3. CASE at[t] = "refuted"
      <4>1. at'[t] = "none" /\ f \in fp
        BY <1>4, <2>5, <3>3 DEF ReproducedInSandbox, ReportInv
      <4>2. ReportOf(f) # "none"
        BY <4>1 DEF ReportOf
      <4> QED BY <3>1, <4>1, <4>2 DEF Result
    <3> QED BY <2>5, <3>2, <3>3 DEF ReproducedInSandbox
  <2> QED BY <2>1, <2>2, <2>3, <2>4, <2>5 DEF ReproduceAct
<1> QED BY <1>1, <1>2, <1>3, <1>6 DEF ReportInv, Result, Selected, Busy

LEMMA ReportStep ==
    ASSUME PipelineAssumption, TypeInv, ReportInv, [Next]_vars
    PROVE  ReportInv'
<1>a. \A f \in Findings : <<"reproduce", f>> \in Tasks /\ <<"reproduce", f>>[1] = "reproduce"
  BY TaskFacts
<1>1. CASE EarlyAct
  <2>1. \A f \in Findings : at'[<<"reproduce", f>>] = "idle"
    BY <1>1, <1>a, EarlyActs
  <2>2. \A f \in Findings : <<"reproduce", f>> \in markers' <=> <<"reproduce", f>> \in markers
    BY <1>1, <1>a, EarlyActs, TasksDiffer
  <2>3. phase' # "reproduce" /\ UNCHANGED <<verdict, pocs, sandbox>>
    BY <1>1, EarlyActs DEF settings
  <2> QED BY <2>1, <2>2, <2>3, ReportFrame
<1>2. CASE EndAct
  <2>1. CASE ~Crash
    <3>1. /\ phase' # "reproduce" /\ UNCHANGED <<verdict, markers, pocs, sandbox>>
          /\ \A t \in Tasks : at'[t] \in {"idle", at[t]}
      BY <1>2, <2>1, EndActs
    <3> QED BY <1>a, <3>1, ReportFrame
  <2>2. CASE Crash
    <3>1. phase' = "down" /\ \A f \in Findings : at'[<<"reproduce", f>>] = "idle"
      BY <1>a, <2>2 DEF Crash
    <3> QED BY <3>1 DEF ReportInv, Busy
  <2> QED BY <2>1, <2>2
<1>3. CASE BeginEvaluation \/ BeginDisclosure
  <2>1. /\ phase' \in {"evaluate", "disclose"} /\ UNCHANGED <<verdict, markers, pocs, sandbox>>
        /\ \A t \in Tasks : t[1] # phase' => at'[t] = "idle"
    BY <1>3, BeginActs DEF BeginAct, BeginEvaluation, BeginDisclosure, Enter, settings
  <2> QED BY <1>a, <2>1, ReportFrame
<1>4. CASE BeginReproduction
  <2>1. \A t \in Tasks : at'[t] = IF t \in Reproduction(Selected') THEN "waiting" ELSE "idle"
    BY <1>4 DEF BeginReproduction, Enter, Selected
  <2>2. \A f \in Findings :
           /\ at'[<<"reproduce", f>>] \in {"idle", "waiting"}
           /\ at'[<<"reproduce", f>>] = "waiting" <=> f \in Selected'
    BY <1>a, <2>1 DEF Reproduction
  <2> QED BY <2>2 DEF ReportInv, Selected, Busy
<1>5. CASE AgentWrites
  <2>1. ASSUME \/ \E u \in Units : AgentFinds(u)
               \/ \E f \in Findings : AgentDiscloses(f)
        PROVE  ReportInv'
    BY <2>1, ReportFrame DEF AgentFinds, AgentDiscloses, settings
  <2>2. ASSUME NEW f \in Findings, AgentReproduces(f) PROVE ReportInv'
    <3>1. /\ at[<<"reproduce", f>>] = "agent"
          /\ UNCHANGED <<at, phase, verdict, markers, using, sandbox>>
      BY <2>2 DEF AgentReproduces, settings
    <3>2. \A h \in Findings \ {f} : ReportOf(h)' = ReportOf(h) /\ (h \in fp' <=> h \in fp)
      BY <2>2 DEF AgentReproduces, ReportOf, TypeInv, TypeOK
    <3> QED BY <3>1, <3>2 DEF ReportInv, Result, Selected
  <2> QED BY <1>5, <2>1, <2>2 DEF AgentWrites
<1>6. CASE OpenWorktree
  BY <1>6 DEF OpenWorktree, ReportInv, Result, ReportOf, Selected, pocs
<1>7. CASE CloseAct
  BY <1>7, CloseActs, ReportFrame DEF settings
<1>8. ASSUME NEW u \in Units, SearchAct(u) PROVE ReportInv'
  <2>1. \A f \in Findings : <<"reproduce", f>> \in Tasks \ {<<"search", u>>}
    BY <1>a, TasksDiffer
  <2> QED BY <1>8, <2>1, SearchActs, ReportFrame DEF OnlyTask, settings
<1>9. ASSUME NEW f \in Findings, EvaluateAct(f) PROVE ReportInv'
  <2>1. OnlyTask(<<"evaluate", f>>) /\ UNCHANGED pocs
    BY <1>9, EvaluateActs
  <2>2. phase = "evaluate" /\ phase' = "evaluate"
    BY <2>1 DEF OnlyTask
  <2>3. \A h \in Findings : at[<<"reproduce", h>>] = "idle"
    BY <1>a, <2>2 DEF TypeInv, Placed
  <2>4. \A h \in Findings : at'[<<"reproduce", h>>] = "idle"
    BY <1>a, <2>1, <2>3, TasksDiffer DEF OnlyTask
  <2> QED BY <2>2, <2>4 DEF ReportInv, Busy
<1>10. ASSUME NEW f \in Findings, DiscloseAct(f) PROVE ReportInv'
  <2>1. \A h \in Findings : <<"reproduce", h>> \in Tasks \ {<<"disclose", f>>}
    BY <1>a, TasksDiffer
  <2> QED BY <1>10, <2>1, DiscloseActs, ReportFrame DEF OnlyTask, settings
<1>11. ASSUME NEW t \in Tasks, TaskFails(t) PROVE ReportInv'
  <2>1. /\ OnlyTask(t) /\ at[t] \in Busy /\ at'[t] = "rejected"
        /\ UNCHANGED <<verdict, pocs, markers>>
    BY <1>11, TaskFailsOnly
  <2>2. \A f \in Findings : \/ at'[<<"reproduce", f>>] = at[<<"reproduce", f>>]
                            \/ /\ at'[<<"reproduce", f>>] = "rejected"
                               /\ at[<<"reproduce", f>>] \in Busy
    BY <1>a, <2>1 DEF OnlyTask
  <2>3. UNCHANGED <<phase, using, sandbox, poc, fp>>
    BY <2>1 DEF OnlyTask, settings, pocs
  <2>4. \A f \in Findings : ReportOf(f)' = ReportOf(f) /\ (f \in Selected' <=> f \in Selected)
                            /\ (Result(f)' <=> Result(f)) /\ (f \in fp' <=> f \in fp)
    BY <2>1, <2>3 DEF Result, ReportOf, Selected, pocs
  <2> QED BY <2>1, <2>2, <2>3, <2>4 DEF ReportInv, Busy
<1>12. CASE UNCHANGED vars
  BY <1>12, ReportFrame DEF vars, disk, settings
<1> QED BY <1>1, <1>2, <1>3, <1>4, <1>5, <1>6, <1>7, <1>8, <1>9, <1>10, <1>11, <1>12,
           ReproduceActKeepsReport, Kinds DEF BeginAct

-----------------------------------------------------------------------------
(* Stage 6: what is disclosed was reproduced *)

LEMMA PackageFrame ==
    ASSUME PackageInv,
           \A f \in Findings :
              /\ \/ at'[<<"disclose", f>>] = at[<<"disclose", f>>]
                 \/ at'[<<"disclose", f>>] = "idle"
              /\ <<"disclose", f>> \in markers' <=> <<"disclose", f>> \in markers
              /\ Evidence(f) => Evidence(f)'
              /\ at'[<<"disclose", f>>] \in {"ok", "exported"} =>
                    /\ AsDemanded(f)' = AsDemanded(f) /\ package'[f] = package[f]
                    /\ sandbox' = sandbox
    PROVE  PackageInv'
<1> SUFFICES ASSUME NEW f \in Findings
             PROVE  /\ at'[<<"disclose", f>>] # "none"
                    /\ <<"disclose", f>> \in markers' \/ at'[<<"disclose", f>>] # "idle" => Evidence(f)'
                    /\ at'[<<"disclose", f>>] = "ok" => <<"disclose", f>> \in markers' /\ AsDemanded(f)'
                    /\ at'[<<"disclose", f>>] = "exported" =>
                          sandbox' /\ (Valid(package'[f]) => AsDemanded(f)')
  BY DEF PackageInv, Valid
<1>1. CASE at'[<<"disclose", f>>] = "idle"
  BY <1>1 DEF PackageInv
<1>2. CASE at'[<<"disclose", f>>] = at[<<"disclose", f>>]
  BY <1>2 DEF PackageInv
<1> QED BY <1>1, <1>2

\* Nothing but the policy of the target and the package decide what is demanded.
LEMMA DemandFrame ==
    ASSUME UNCHANGED <<head, package>>
    PROVE  \A f \in Findings : AsDemanded(f)' = AsDemanded(f)
  BY DEF AsDemanded, Valid, Enforced, Blocked

LEMMA EvidenceFrame ==
    ASSUME UNCHANGED <<verdict, poc>>,
           \A f \in Findings : <<"reproduce", f>> \in markers' <=> <<"reproduce", f>> \in markers
    PROVE  \A f \in Findings : Evidence(f)' = Evidence(f)
  BY DEF Evidence

\* Evidence that supports a package outlives whatever Stage 5 does later.
LEMMA ReproduceActKeepsPackage ==
    ASSUME TypeInv, ReportInv, PackageInv, NEW f \in Findings, ReproduceAct(f)
    PROVE  PackageInv'
<1>1. OnlyTask(<<"reproduce", f>>) /\ UNCHANGED <<verdict, package>>
  BY ReproduceActs
<1>2. \A h \in Findings :
         /\ at'[<<"disclose", h>>] = at[<<"disclose", h>>]
         /\ <<"disclose", h>> \in markers' <=> <<"disclose", h>> \in markers
  BY <1>1, TaskFacts, TasksDiffer DEF OnlyTask
<1>3. \A h \in Findings \ {f} : Evidence(h) => Evidence(h)'
  BY <1>1, ReproduceActs, TaskFacts, TasksDiffer DEF OnlyTask, Evidence
<1>4. Evidence(f) => Evidence(f)'
  <2>1. CASE KeepReproduction(f)
    BY <1>1, <2>1 DEF KeepReproduction, ResolveReport, Evidence
  <2>2. CASE Reproduce(f)
    BY <2>2 DEF Reproduce, Evidence, ReportOf
  <2>3. CASE Reproduced(f) \/ ExportReproduction(f) \/ ReproducedInSandbox(f)
    <3>1. at[<<"reproduce", f>>] \in Busy
      BY <2>3 DEF Reproduced, ExportReproduction, ReproducedInSandbox, Busy
    <3> QED BY <3>1 DEF ReportInv, Evidence
  <2> QED BY <2>1, <2>2, <2>3 DEF ReproduceAct
<1>5. \A h \in Findings : AsDemanded(h)' = AsDemanded(h)
  BY <1>1, DemandFrame DEF OnlyTask
<1> QED BY <1>1, <1>2, <1>3, <1>4, <1>5, PackageFrame DEF OnlyTask, settings

LEMMA DiscloseActKeepsPackage ==
    ASSUME TypeInv, PackageInv, NEW f \in Findings, DiscloseAct(f)
    PROVE  PackageInv'
<1> DEFINE t == <<"disclose", f>>
<1>1. OnlyTask(t) /\ UNCHANGED <<head, verdict, poc, sandbox>>
  BY DiscloseActs DEF OnlyTask, pocs, settings
<1>2. \A h \in Findings \ {f} :
         /\ at'[<<"disclose", h>>] = at[<<"disclose", h>>]
         /\ <<"disclose", h>> \in markers' <=> <<"disclose", h>> \in markers
         /\ AsDemanded(h)' = AsDemanded(h) /\ package'[h] = package[h]
  BY <1>1, DiscloseActs, TaskFacts, TasksDiffer
     DEF OnlyTask, AsDemanded, Valid, Enforced, Blocked
<1>3. \A h \in Findings : Evidence(h)' = Evidence(h)
  BY <1>1, EvidenceFrame, TaskFacts, TasksDiffer DEF OnlyTask
<1>4. at[t] # "idle" /\ t \in Tasks
  BY TaskFacts DEF DiscloseAct, KeepDisclosure, RefuseDisclosure, Disclose, Disclosed, ExportDisclosure,
     DisclosedInSandbox, Busy
<1>5. \A r : Settle(t, r) => at'[t] = r
  BY <1>4 DEF Settle, TypeInv, TypeOK
<1>6. /\ at'[t] # "none" /\ (at'[t] = "ok" => t \in markers' /\ AsDemanded(f)')
      /\ at'[t] = "exported" => sandbox' /\ (Valid(package'[f]) => AsDemanded(f)')
  <2>1. CASE KeepDisclosure(f)
    BY <1>5, <2>1 DEF KeepDisclosure, AsDemanded, Valid, Enforced, Blocked, disk, inputs
  <2>2. CASE RefuseDisclosure(f)
    BY <1>5, <2>2 DEF RefuseDisclosure
  <2>3. CASE Disclose(f)
    BY <1>4, <2>3 DEF Disclose, TypeInv, TypeOK
  <2>4. CASE Disclosed(f)
    <3>1. package'[f] = Enforced(package[f])
      BY <2>4 DEF Disclosed, TypeInv, TypeOK
    <3>2. Valid(package[f]) => AsDemanded(f)'
      BY <1>1, <3>1 DEF AsDemanded, Valid, Enforced, Blocked
    <3> QED BY <1>5, <2>4, <3>2 DEF Disclosed
  <2>5. CASE ExportDisclosure(f)
    <3>1. at'[t] = "exported" /\ sandbox' /\ package'[f] \in {Enforced("ready"), "invalid"}
      BY <1>1, <1>4, <2>5 DEF ExportDisclosure, TypeInv, TypeOK
    <3>2. Valid(package'[f]) => AsDemanded(f)'
      BY <1>1, <3>1 DEF AsDemanded, Valid, Enforced, Blocked
    <3> QED BY <3>1, <3>2
  <2>6. CASE DisclosedInSandbox(f)
    <3>1. /\ at'[t] = "ok" /\ t \in markers' /\ package' = package
          /\ at[t] = "exported" /\ Valid(package[f])
      BY <1>5, <2>6 DEF DisclosedInSandbox
    <3>2. AsDemanded(f)
      BY <3>1 DEF PackageInv
    <3>3. AsDemanded(f)' = AsDemanded(f)
      BY <1>1, <3>1, DemandFrame
    <3> QED BY <3>1, <3>2, <3>3
  <2> QED BY <2>1, <2>2, <2>3, <2>4, <2>5, <2>6 DEF DiscloseAct
<1>7. Evidence(f)
  BY <1>4 DEF PackageInv
<1> QED BY <1>1, <1>2, <1>3, <1>6, <1>7 DEF PackageInv, Valid

LEMMA PackageStep ==
    ASSUME PipelineAssumption, TypeInv, VerdictInv, ReportInv, PackageInv, [Next]_vars
    PROVE  PackageInv'
<1>a. \A f \in Findings :
         /\ <<"reproduce", f>> \in Tasks \ {Decomposition}
         /\ <<"disclose", f>> \in Tasks \ {Decomposition} /\ <<"disclose", f>>[1] = "disclose"
  BY TaskFacts, TasksDiffer
<1>1. CASE EarlyAct
  <2>1. \A f \in Findings :
          at'[<<"disclose", f>>] = "idle" /\ at[<<"disclose", f>>] = "idle"
    BY <1>1, <1>a, EarlyActs
  <2>2. \A f \in Findings :
           /\ <<"disclose", f>> \in markers' <=> <<"disclose", f>> \in markers
           /\ <<"reproduce", f>> \in markers' <=> <<"reproduce", f>> \in markers
    BY <1>1, <1>a, EarlyActs
  <2>3. UNCHANGED <<verdict, poc>>
    BY <1>1, EarlyActs DEF pocs
  <2>4. \A f \in Findings : Evidence(f)' = Evidence(f)
    BY <2>2, <2>3, EvidenceFrame
  <2> QED BY <2>1, <2>2, <2>4, PackageFrame
<1>2. CASE EndAct
  <2>1. CASE ~Crash
    <3>1. /\ UNCHANGED <<head, package, verdict, markers, poc, sandbox>>
          /\ \A t \in Tasks : at'[t] \in {"idle", at[t]}
      BY <1>2, <2>1, EndActs DEF inputs, pocs
    <3> QED BY <1>a, <3>1, DemandFrame, EvidenceFrame, PackageFrame
\* What an export loses is of a finding that is not marked.
  <2>2. CASE Crash
    <3>1. /\ \A f \in Findings : at'[<<"disclose", f>>] = "idle"
          /\ UNCHANGED <<verdict, markers>>
          /\ \A f \in Findings : poc'[f] = poc[f] \/ f \in Exporting("reproduce")
      BY <1>a, <2>2 DEF Crash
    <3>2. ASSUME NEW f \in Findings, Evidence(f) PROVE Evidence(f)'
      <4>1. f \notin Exporting("reproduce")
        BY <3>2 DEF Exporting, ReportInv, Evidence, Busy
      <4> QED BY <3>1, <3>2, <4>1 DEF Evidence
    <3> QED BY <3>1, <3>2, PackageFrame
  <2> QED BY <2>1, <2>2
<1>3. CASE BeginEvaluation
  <2>1. phase' = "evaluate" /\ UNCHANGED <<head, package, verdict, markers, poc>>
    BY <1>3 DEF BeginEvaluation, Enter, disk, inputs, pocs
  <2>2. \A f \in Findings : at'[<<"disclose", f>>] = "idle"
    BY <1>3, <1>a, <2>1, BeginActs DEF BeginAct
  <2> QED BY <2>1, <2>2, DemandFrame, EvidenceFrame, PackageFrame
<1>4. CASE BeginReproduction
  <2>1. phase' = "reproduce" /\ UNCHANGED <<head, package, markers, poc>>
    BY <1>4 DEF BeginReproduction, Enter, inputs, pocs
  <2>2. \A f \in Findings : at'[<<"disclose", f>>] = "idle"
    BY <1>4, <1>a, <2>1, BeginActs DEF BeginAct
  <2>3. \A f \in Findings : verdict[f].is = "final" => verdict'[f].is = "final"
    BY <1>4 DEF BeginReproduction, TypeInv, TypeOK
  <2>4. \A f \in Findings : Evidence(f) => Evidence(f)'
    BY <2>1, <2>3 DEF Evidence
  <2> QED BY <2>1, <2>2, <2>4, DemandFrame, PackageFrame
<1>5. CASE BeginDisclosure
  <2>1. PICK known \in SUBSET Disclosable : Enter("disclose", Disclosure(Disclosable \ known))
    BY <1>5 DEF BeginDisclosure
  <2>2. UNCHANGED <<verdict, markers, poc>>
    BY <1>5 DEF BeginDisclosure, disk, pocs
  <2>3. ASSUME NEW f \in Findings
        PROVE  /\ at'[<<"disclose", f>>] \in {"idle", "waiting"}
               /\ at'[<<"disclose", f>>] # "idle" => f \in Disclosable
    BY <1>a, <2>1 DEF Enter, Disclosure
  <2>4. \A f \in Disclosable : Evidence(f)
    BY DEF Disclosable, Reports, Evidence, ReportInv, Result, ReportOf
  <2>5. \A f \in Findings : Evidence(f)' = Evidence(f)
    BY <2>2, EvidenceFrame
  <2> QED BY <2>2, <2>3, <2>4, <2>5 DEF PackageInv
<1>6. CASE AgentWrites
  <2>1. ASSUME NEW u \in Units, AgentFinds(u) PROVE PackageInv'
    <3>1. UNCHANGED <<at, head, package, verdict, markers, poc, sandbox>>
      BY <2>1 DEF AgentFinds, inputs, pocs, settings
    <3> QED BY <3>1, DemandFrame, EvidenceFrame, PackageFrame
  <2>2. ASSUME NEW f \in Findings, AgentReproduces(f) PROVE PackageInv'
    <3>1. /\ UNCHANGED <<at, head, package, verdict, markers, sandbox>>
          /\ \A h \in Findings \ {f} : poc'[h] = poc[h]
          /\ <<"reproduce", f>> \notin markers
      BY <2>2 DEF AgentReproduces, inputs, settings, ReportInv, Busy, TypeInv, TypeOK
    <3>2. \A h \in Findings : Evidence(h) => Evidence(h)'
      BY <3>1 DEF Evidence
    <3> QED BY <3>1, <3>2, DemandFrame, PackageFrame
  <2>3. ASSUME NEW f \in Findings, AgentDiscloses(f) PROVE PackageInv'
    <3>1. /\ UNCHANGED <<at, head, poc, verdict, markers, sandbox>>
          /\ \A h \in Findings \ {f} : package'[h] = package[h]
          /\ at[<<"disclose", f>>] \notin {"ok", "exported"}
      BY <2>3 DEF AgentDiscloses, inputs, pocs, settings, Busy, PackageInv, TypeInv, TypeOK
    <3>2. \A h \in Findings : Evidence(h)' = Evidence(h)
      BY <3>1, EvidenceFrame
    <3>3. \A h \in Findings \ {f} : AsDemanded(h)' = AsDemanded(h)
      BY <3>1 DEF AsDemanded, Valid, Enforced, Blocked
    <3> QED BY <3>1, <3>2, <3>3, PackageFrame
  <2> QED BY <1>6, <2>1, <2>2, <2>3 DEF AgentWrites
<1>7. CASE OpenWorktree \/ CloseAct
  <2>1. UNCHANGED <<at, head, package, verdict, markers, poc, sandbox>>
    BY <1>7, CloseActs DEF OpenWorktree, inputs, pocs, settings
  <2> QED BY <2>1, DemandFrame, EvidenceFrame, PackageFrame
<1>8. ASSUME NEW u \in Units, SearchAct(u) PROVE PackageInv'
  <2>1. OnlyTask(<<"search", u>>) /\ UNCHANGED <<head, package, verdict, poc, sandbox>>
    BY <1>8, SearchActs DEF OnlyTask, pocs, settings
  <2>2. \A f \in Findings :
           /\ at'[<<"disclose", f>>] = at[<<"disclose", f>>]
           /\ <<"disclose", f>> \in markers' <=> <<"disclose", f>> \in markers
           /\ <<"reproduce", f>> \in markers' <=> <<"reproduce", f>> \in markers
    BY <1>a, <2>1, TasksDiffer DEF OnlyTask
  <2> QED BY <2>1, <2>2, DemandFrame, EvidenceFrame, PackageFrame
\* A finding that is being evaluated has no verdict yet: its evidence is not touched.
<1>9. ASSUME NEW f \in Findings, EvaluateAct(f) PROVE PackageInv'
  <2>1. /\ OnlyTask(<<"evaluate", f>>) /\ UNCHANGED <<head, package, poc, sandbox>>
        /\ \A h \in Findings \ {f} : verdict'[h] = verdict[h]
    BY <1>9, EvaluateActs DEF OnlyTask, pocs, settings
  <2>2. \A h \in Findings :
           /\ at'[<<"disclose", h>>] = at[<<"disclose", h>>]
           /\ <<"disclose", h>> \in markers' <=> <<"disclose", h>> \in markers
           /\ <<"reproduce", h>> \in markers' <=> <<"reproduce", h>> \in markers
    BY <1>a, <2>1, TasksDiffer DEF OnlyTask
  <2>3. verdict[f].is = "final" => verdict' = verdict
    <3>1. CASE KeepVerdict(f) \/ EvaluateFinding(f)
      BY <3>1 DEF KeepVerdict, EvaluateFinding, disk
    <3>2. CASE Evaluated(f)
      BY <3>2 DEF Evaluated, VerdictInv, Busy
    <3> QED BY <1>9, <3>1, <3>2 DEF EvaluateAct
  <2>4. \A h \in Findings : Evidence(h) => Evidence(h)'
    BY <2>1, <2>2, <2>3 DEF Evidence
  <2> QED BY <2>1, <2>2, <2>4, DemandFrame, PackageFrame
<1>10. ASSUME NEW t \in Tasks, TaskFails(t) PROVE PackageInv'
  <2>1. /\ OnlyTask(t) /\ at[t] \in Busy /\ at'[t] = "rejected"
        /\ UNCHANGED <<head, verdict, poc, package, markers, sandbox>>
    BY <1>10, TaskFailsOnly DEF OnlyTask, pocs, settings
  <2>2. \A f \in Findings : \/ at'[<<"disclose", f>>] = at[<<"disclose", f>>]
                            \/ /\ at'[<<"disclose", f>>] = "rejected"
                               /\ at[<<"disclose", f>>] \in Busy
    BY <1>a, <2>1 DEF OnlyTask
  <2> QED BY <2>1, <2>2, DemandFrame, EvidenceFrame DEF PackageInv, Busy, Valid
<1>11. CASE UNCHANGED vars
  <2>1. UNCHANGED <<at, head, package, verdict, markers, poc, sandbox>>
    BY <1>11 DEF vars, disk, inputs, pocs, settings
  <2> QED BY <2>1, DemandFrame, EvidenceFrame, PackageFrame
<1> QED BY <1>1, <1>2, <1>3, <1>4, <1>5, <1>6, <1>7, <1>8, <1>9, <1>10, <1>11,
           ReproduceActKeepsPackage, DiscloseActKeepsPackage, Kinds DEF BeginAct

-----------------------------------------------------------------------------
(* The records of the stages an attempt has been through *)

LEMMA EnterKeepsWalked ==
    ASSUME TypeInv, WalkedInv, phase \in Stages, NEW s \in Stages, NEW tasks, Enter(s, tasks),
           Passed(s) = Passed(phase) \cup {phase}, s \notin Passed(s)
    PROVE  WalkedInv'
<1>1. phase' = s /\ stageState' = Begun([stageState EXCEPT ![phase] = "done"], s)
  BY DEF Enter
<1>2. Passed(phase) \subseteq Stages
  BY DEF Passed, Stages, Earlier
<1>3. \A r \in Passed(s) : stageState'[r] = "done"
  BY <1>1, <1>2 DEF Begun, WalkedInv, TypeInv, TypeOK
<1> QED BY <1>1, <1>3 DEF WalkedInv

LEMMA WalkedFrame ==
    ASSUME WalkedInv, phase' = phase, stageState' = stageState
    PROVE  WalkedInv'
  BY DEF WalkedInv

LEMMA WalkedStep ==
    ASSUME TypeInv, WalkedInv, [Next]_vars
    PROVE  WalkedInv'
<1>1. CASE \E s \in Stages, tasks \in SUBSET Tasks :
              /\ Enter(s, tasks) /\ phase \in Stages
              /\ <<phase, s>> \in {<<"setup", "research">>, <<"research", "decompose">>,
                                   <<"decompose", "search">>, <<"search", "evaluate">>,
                                   <<"evaluate", "reproduce">>, <<"reproduce", "disclose">>}
  <2>1. PICK s \in Stages, tasks \in SUBSET Tasks :
              /\ Enter(s, tasks) /\ phase \in Stages
              /\ <<phase, s>> \in {<<"setup", "research">>, <<"research", "decompose">>,
                                   <<"decompose", "search">>, <<"search", "evaluate">>,
                                   <<"evaluate", "reproduce">>, <<"reproduce", "disclose">>}
    BY <1>1
  <2>2. Passed(s) = Passed(phase) \cup {phase} /\ s \notin Passed(s)
    BY <2>1 DEF Passed, Earlier, Stages
  <2> QED BY <2>1, <2>2, EnterKeepsWalked
<1>2. CASE phase' \in {"ended", "down", "setup", "clean"}
  <2>1. Passed(phase') = {}
    BY <1>2 DEF Passed
  <2> QED BY <2>1 DEF WalkedInv
<1>3. CASE UNCHANGED <<phase, stageState>>
  BY <1>3, WalkedFrame
<1>4. CASE EarlyAct
  <2>1. CASE SetUp
    BY <1>1, <2>1, TaskFacts DEF SetUp, Stages
  <2>2. CASE KeepResearch \/ DoResearch
    BY <1>1, <2>2, TaskFacts DEF KeepResearch, DoResearch, Stages
  <2>3. CASE KeepUnits
    BY <1>1, <2>3, TaskFacts DEF KeepUnits, Stages
  <2>4. CASE Decompose
    BY <1>3, <2>4 DEF Decompose
  <2>5. CASE Decomposed
    <3>1. phase = "decompose"
      BY <2>5 DEF Decomposed
    <3>2. \/ Enter("search", Search(Units))
          \/ UNCHANGED <<phase, stageState>>
          \/ phase' = "ended"
      BY <2>5 DEF Decomposed, EndWith
    <3> QED BY <1>1, <1>2, <1>3, <3>1, <3>2, TaskFacts DEF Stages
  <2> QED BY <1>4, <2>1, <2>2, <2>3, <2>4, <2>5 DEF EarlyAct
<1>5. CASE EndAct
  BY <1>2, <1>5, EndActs
<1>6. CASE BeginEvaluation
  BY <1>1, <1>6, TaskFacts DEF BeginEvaluation, Stages, Candidates
<1>7. CASE BeginReproduction
  <2>1. PICK tasks : Enter("reproduce", tasks) /\ phase = "evaluate"
    BY <1>7 DEF BeginReproduction
  <2>2. Passed("reproduce") = Passed(phase) \cup {phase} /\ "reproduce" \notin Passed("reproduce")
    BY <2>1 DEF Passed, Earlier, Stages
  <2> QED BY <2>1, <2>2, EnterKeepsWalked DEF Stages
<1>8. CASE BeginDisclosure
  <2>1. PICK tasks : Enter("disclose", tasks) /\ phase = "reproduce"
    BY <1>8 DEF BeginDisclosure
  <2>2. Passed("disclose") = Passed(phase) \cup {phase} /\ "disclose" \notin Passed("disclose")
    BY <2>1 DEF Passed, Earlier, Stages
  <2> QED BY <2>1, <2>2, EnterKeepsWalked DEF Stages
<1>9. CASE AgentWrites \/ OpenWorktree
  BY <1>3, <1>9 DEF AgentWrites, AgentFinds, AgentReproduces, AgentDiscloses, OpenWorktree
<1>10. CASE CloseAct
  BY <1>2, <1>3, <1>10, CloseActs
<1>11. ASSUME NEW u \in Units, SearchAct(u) PROVE WalkedInv'
  BY <1>3, <1>11, SearchActs DEF OnlyTask
<1>12. ASSUME NEW f \in Findings, EvaluateAct(f) \/ ReproduceAct(f) \/ DiscloseAct(f)
       PROVE  WalkedInv'
  BY <1>3, <1>12, EvaluateActs, ReproduceActs, DiscloseActs DEF OnlyTask
<1>13. ASSUME NEW t \in Tasks, TaskFails(t) PROVE WalkedInv'
  BY <1>3, <1>13 DEF TaskFails
<1>14. CASE UNCHANGED vars
  BY <1>3, <1>14 DEF vars
<1> QED BY <1>4, <1>5, <1>6, <1>7, <1>8, <1>9, <1>10, <1>11, <1>12, <1>13, <1>14, Kinds
        DEF BeginAct

-----------------------------------------------------------------------------
(* The outcome: an attempt that ends without an error has skipped nothing *)

LEMMA OutcomeFrame ==
    ASSUME PipelineAssumption, OutcomeInv, phase \in Stages, phase' = phase, outcome' = outcome,
           stageState'["disclose"] = stageState["disclose"], errors \subseteq errors',
           \A t \in Tasks : at'[t] = "rejected" => at[t] = "rejected" \/ t \in errors',
           phase \in {"evaluate", "reproduce", "disclose"} =>
              \A u \in Units : SearchedFor(u)' = SearchedFor(u),
           phase = "disclose" => UNCHANGED <<verdict, pocs, sandbox>>
              /\ \A f \in Findings :
                    <<"reproduce", f>> \in markers' <=> <<"reproduce", f>> \in markers
    PROVE  OutcomeInv'
<1>1. outcome = "none" /\ stageState["disclose"] # "done"
  BY DEF OutcomeInv, LastStageIsOfThisAttempt, Stages
<1>2. errors' = {} => errors = {}
  OBVIOUS
<1>3. \A t \in Tasks : at'[t] = "rejected" => t \in errors'
  BY DEF OutcomeInv
<1>4. errors' = {} /\ phase \in {"evaluate", "reproduce", "disclose"}
         => \A u \in Units : SearchedFor(u)'
  BY <1>2 DEF OutcomeInv
<1>5. errors' = {} /\ phase = "disclose" => \A f \in Selected' : Result(f)'
  <2> SUFFICES ASSUME errors' = {}, phase = "disclose", NEW f \in Selected' PROVE Result(f)'
    OBVIOUS
  <2>1. f \in Selected /\ f \in Findings
    BY DEF Selected, PipelineAssumption
  <2>2. Result(f)
    BY <1>2, <2>1 DEF OutcomeInv
  <2>3. ReportOf(f)' = ReportOf(f)
    BY DEF ReportOf, pocs
  <2> QED BY <2>1, <2>2, <2>3 DEF Result
<1> QED BY <1>1, <1>3, <1>4, <1>5 DEF OutcomeInv, LastStageIsOfThisAttempt

LEMMA OnlyTaskKeepsOutcome ==
    ASSUME PipelineAssumption, OutcomeInv, NEW t \in Tasks, OnlyTask(t),
           phase \in {"evaluate", "reproduce", "disclose"} =>
              \A u \in Units : SearchedFor(u)' = SearchedFor(u),
           phase = "disclose" => UNCHANGED <<verdict, pocs>>
              /\ \A f \in Findings :
                    <<"reproduce", f>> \in markers' <=> <<"reproduce", f>> \in markers
    PROVE  OutcomeInv'
<1>1. \A x \in Tasks : at'[x] = "rejected" => at[x] = "rejected" \/ x \in errors'
  BY DEF OnlyTask
<1>2. phase \in Stages
  BY TaskFacts DEF OnlyTask
<1> QED BY <1>1, <1>2, OutcomeFrame DEF OnlyTask, settings

LEMMA OutcomeStep ==
    ASSUME PipelineAssumption, TypeInv, SearchInv, ReportInv, WalkedInv, OutcomeInv, [Next]_vars
    PROVE  OutcomeInv'
<1>n. phase \in Stages => outcome = "none" /\ stageState["disclose"] # "done"
  BY DEF OutcomeInv, LastStageIsOfThisAttempt, Stages
<1>1. CASE EarlyAct
  <2>1. outcome = "none" /\ stageState'["disclose"] # "done"
    BY <1>1, <1>n, EarlyActs DEF Stages
  <2>2. outcome' \in {"none", "failed"} /\ (phase' \in Stages => outcome' = "none")
    BY <1>1, <2>1, EarlyActs DEF Stages
  <2>3. phase' \notin {"evaluate", "reproduce", "disclose", "clean"}
    BY <1>1, EarlyActs
  <2>4. \A t \in Tasks : at'[t] = "rejected" => t \in errors'
    BY <1>1, EarlyActs DEF OutcomeInv
  <2> QED BY <2>1, <2>2, <2>3, <2>4 DEF OutcomeInv, LastStageIsOfThisAttempt
<1>2. CASE StageFails \/ Stop
  <2>1. PICK result \in {"failed", "cancelled"} : EndWith(result)
    BY <1>2 DEF StageFails, Stop
  <2>2. phase \in Stages /\ "disclose" \in Stages /\ errors' = errors
    BY <1>2 DEF StageFails, Stop, Stages
  <2>3. /\ phase' = "ended" /\ outcome' = result /\ stageState'["disclose"] # "done"
        /\ \A t \in Tasks : at'[t] = "rejected" => at[t] = "rejected"
    BY <1>n, <2>1, <2>2, EndFacts DEF TypeInv
  <2> QED BY <2>2, <2>3 DEF OutcomeInv, LastStageIsOfThisAttempt, Stages
<1>3. CASE Start
  <2>1. /\ phase' = "setup" /\ outcome' = "none" /\ \A t \in Tasks : at'[t] = "idle"
    BY <1>3 DEF Start
  <2>2. stageState'["disclose"] = "pending"
    BY <1>3 DEF Start, Begun, ResetState, Stages, Earlier
  <2> QED BY <2>1, <2>2 DEF OutcomeInv, LastStageIsOfThisAttempt
<1>4. CASE Crash
  <2>1. /\ phase' = "down" /\ outcome' = outcome /\ stageState' = stageState
        /\ phase \in Stages \cup {"clean"} /\ \A t \in Tasks : at'[t] = "idle"
    BY <1>4 DEF Crash
  <2>2. outcome = "none"
    BY <2>1 DEF OutcomeInv
  <2>3. AllOver(Disclosure(Findings))'
    BY <2>1, TaskFacts DEF AllOver, Over, Disclosure
  <2>4. LastStageIsOfThisAttempt'
    BY <2>1, <2>3 DEF OutcomeInv, LastStageIsOfThisAttempt, Stages
  <2> QED BY <2>1, <2>2, <2>4 DEF OutcomeInv
<1>5. CASE BeginAct
  <2>1. /\ phase \in Stages /\ phase' \in {"evaluate", "reproduce", "disclose"}
        /\ outcome' = "none" /\ errors' = errors
        /\ \A t \in Tasks : at'[t] # "rejected"
    BY <1>5, <1>n, BeginActs DEF Stages
  <2>2. stageState'["disclose"] # "done"
    <3>1. PICK s \in Stages : stageState' = Begun([stageState EXCEPT ![phase] = "done"], s)
      BY <1>5 DEF BeginAct, BeginEvaluation, BeginReproduction, BeginDisclosure, Enter, Stages
    <3>2. stageState["disclose"] # "done" /\ phase # "disclose" /\ "disclose" \in Stages
      BY <1>5, <1>n, <2>1, BeginActs DEF Stages
    <3> QED BY <3>1, <3>2 DEF Begun, TypeInv, TypeOK
  <2>3. errors = {} => \A u \in Units : SearchedFor(u)'
    <3>1. UNCHANGED <<markers, patchy>>
      BY <1>5, BeginActs
    <3>2. CASE BeginEvaluation
      <4>1. ASSUME errors = {}, NEW u \in Units PROVE SearchedFor(u)
        <5>1. at[<<"search", u>>] \in Over \ {"idle"}
          BY <3>2 DEF BeginEvaluation, AllOver, Search, SearchInv
        <5>2. at[<<"search", u>>] # "rejected"
          BY <4>1, TaskFacts DEF OutcomeInv
        <5> QED BY <5>1, <5>2 DEF SearchInv, Over
      <4> QED BY <3>1, <4>1 DEF SearchedFor
    <3>3. CASE BeginReproduction \/ BeginDisclosure
      BY <3>1, <3>3 DEF BeginReproduction, BeginDisclosure, OutcomeInv, SearchedFor
    <3> QED BY <1>5, <3>2, <3>3 DEF BeginAct
  <2>4. phase' = "disclose" /\ errors = {} => \A f \in Selected' : Result(f)'
    <3> SUFFICES ASSUME phase' = "disclose", errors = {}, NEW f \in Selected' PROVE Result(f)'
      OBVIOUS
    <3>1. BeginDisclosure
      BY <1>5 DEF BeginAct, BeginEvaluation, BeginReproduction, Enter
    <3>2. UNCHANGED <<verdict, pocs, markers, sandbox>>
      BY <3>1 DEF BeginDisclosure, disk, settings
    <3>3. f \in Selected /\ f \in Findings
      BY <3>2 DEF Selected, PipelineAssumption
    <3>4. at[<<"reproduce", f>>] \in {"ok", "none", "rejected"}
      BY <3>1, <3>3 DEF BeginDisclosure, AllOver, Reproduction, Over, ReportInv
    <3>5. at[<<"reproduce", f>>] # "rejected"
      BY <3>3, TaskFacts DEF OutcomeInv
    <3>6. Result(f)
      BY <3>3, <3>4, <3>5 DEF ReportInv
    <3> QED BY <3>2, <3>6 DEF Result, ReportOf, pocs
  <2> QED BY <2>1, <2>2, <2>3, <2>4 DEF OutcomeInv, LastStageIsOfThisAttempt
<1>6. CASE AgentWrites
  <2>1. UNCHANGED <<phase, at, errors, markers, patchy, outcome, stageState, verdict, sandbox>>
    BY <1>6 DEF AgentWrites, AgentFinds, AgentReproduces, AgentDiscloses, settings
  <2>2. phase \in Stages /\ (phase = "disclose" => UNCHANGED pocs)
    BY <1>6 DEF AgentWrites, AgentFinds, AgentReproduces, AgentDiscloses, Stages
  <2> QED BY <2>1, <2>2, OutcomeFrame DEF SearchedFor
<1>7. CASE OpenWorktree
  BY <1>7, OutcomeFrame DEF OpenWorktree, SearchedFor, Stages
<1>8. CASE CloseAct
  <2>1. UNCHANGED <<at, errors, markers, patchy, verdict, poc, fp, sandbox>>
    BY <1>8, CloseActs DEF pocs, settings
  <2>2. /\ AllOver(Disclosure(Findings))' = AllOver(Disclosure(Findings))
        /\ \A u \in Units : SearchedFor(u)' = SearchedFor(u)
        /\ (\A f \in Selected : Result(f))' = (\A f \in Selected : Result(f))
    BY <2>1 DEF AllOver, SearchedFor, Selected, Result, ReportOf
  <2>3. CASE CompleteDisclosure
    <3>1. /\ phase = "disclose" /\ phase' = "clean" /\ AllOver(Disclosure(Findings))
          /\ stageState' = [stageState EXCEPT !["disclose"] = "done"] /\ outcome' = outcome
      BY <2>3 DEF CompleteDisclosure
    <3>2. \A s \in Stages : stageState'[s] = "done"
      BY <3>1 DEF WalkedInv, Passed, Earlier, TypeInv, TypeOK
    <3>3. LastStageIsOfThisAttempt' /\ stageState'["disclose"] = "done"
      BY <2>2, <3>1, <3>2 DEF LastStageIsOfThisAttempt, Stages
    <3>4. outcome' = "none"
      BY <1>n, <3>1 DEF Stages
    <3> QED BY <2>1, <2>2, <3>1, <3>3, <3>4 DEF OutcomeInv, Stages
  <2>4. CASE RemoveWorktree
    <3>1. UNCHANGED <<phase, stageState, outcome>>
      BY <2>4 DEF RemoveWorktree
    <3>2. LastStageIsOfThisAttempt'
      BY <2>2, <3>1 DEF OutcomeInv, LastStageIsOfThisAttempt
    <3> QED BY <2>1, <2>2, <3>1, <3>2 DEF OutcomeInv
  <2>5. CASE FinishAudit \/ StopCleaning
    <3>1. /\ phase = "clean" /\ phase' = "ended" /\ stageState' = stageState
          /\ outcome' \in {"done", "failed", "cancelled"} /\ (outcome' = "done" => errors = {})
      BY <2>5 DEF FinishAudit, StopCleaning
    <3>2. AllOver(Disclosure(Findings)) /\ LastStageIsOfThisAttempt'
      BY <2>2, <3>1 DEF OutcomeInv, LastStageIsOfThisAttempt, Stages
    <3> QED BY <2>1, <2>2, <3>1, <3>2 DEF OutcomeInv, Stages
  <2> QED BY <1>8, <2>3, <2>4, <2>5 DEF CloseAct
<1>9. ASSUME NEW u \in Units, SearchAct(u) PROVE OutcomeInv'
  <2>1. OnlyTask(<<"search", u>>) /\ phase = "search" /\ <<"search", u>> \in Tasks
    BY <1>9, SearchActs DEF OnlyTask
  <2> QED BY <2>1, OnlyTaskKeepsOutcome
<1>10. ASSUME NEW f \in Findings, EvaluateAct(f) \/ ReproduceAct(f) \/ DiscloseAct(f)
       PROVE  OutcomeInv'
  <2>1. PICK t \in {<<"evaluate", f>>, <<"reproduce", f>>, <<"disclose", f>>} :
          /\ OnlyTask(t) /\ patchy' = patchy
          /\ t[1] = "disclose" => t = <<"disclose", f>> /\ UNCHANGED <<verdict, pocs>>
    BY <1>10, EvaluateActs, ReproduceActs, DiscloseActs
  <2>2. \A u \in Units : <<"search", u>> \in markers' <=> <<"search", u>> \in markers
    BY <2>1, TaskFacts, TasksDiffer DEF OnlyTask
  <2>3. phase = "disclose" => UNCHANGED <<verdict, pocs>> /\ \A h \in Findings :
          <<"reproduce", h>> \in markers' <=> <<"reproduce", h>> \in markers
    BY <2>1, TaskFacts, TasksDiffer DEF OnlyTask
  <2> QED BY <2>1, <2>2, <2>3, OnlyTaskKeepsOutcome DEF SearchedFor, OnlyTask
<1>11. ASSUME NEW t \in Tasks, TaskFails(t) PROVE OutcomeInv'
  BY <1>11, TaskFailsOnly, OnlyTaskKeepsOutcome DEF SearchedFor
<1>12. CASE UNCHANGED vars
  BY <1>12 DEF vars, disk, settings, pocs, OutcomeInv, LastStageIsOfThisAttempt, AllOver,
     SearchedFor, Selected, Result, ReportOf, Over
<1> QED BY <1>1, <1>2, <1>3, <1>4, <1>5, <1>6, <1>7, <1>8, <1>9, <1>10, <1>11, <1>12, Kinds
        DEF EndAct

-----------------------------------------------------------------------------
(* The worktree of Stage 5 *)

LEMMA WorktreeFrame ==
    ASSUME WorktreeInv, phase' = phase, UNCHANGED <<head, worktree, using>>
    PROVE  WorktreeInv'
  BY DEF WorktreeInv

LEMMA WorktreeStep ==
    ASSUME PipelineAssumption, TypeInv, WorktreeInv, [Next]_vars
    PROVE  WorktreeInv'
<1>1. CASE EarlyAct
  <2>1. /\ phase \in Stages \ {"reproduce", "disclose"}
        /\ phase' \notin {"reproduce", "disclose"} /\ UNCHANGED <<worktree, using>>
    BY <1>1, EarlyActs DEF Stages, settings
  <2> QED BY <2>1 DEF WorktreeInv, Stages
<1>2. CASE StageFails \/ Stop
  <2>1. phase \in Stages /\ phase' = "ended" /\ worktree' = worktree
    BY <1>2 DEF StageFails, Stop, Stages, EndWith, disk
  <2> QED BY <2>1 DEF WorktreeInv, Stages
<1>3. CASE Start
  BY <1>3 DEF Start, WorktreeInv, disk
<1>4. CASE Crash \/ StopCleaning
  <2>1. phase' \in {"down", "ended"} /\ worktree' = Orphaned
    BY <1>4 DEF Crash, StopCleaning
  <2>2. worktree'.removal # "running"
    BY <2>1 DEF Orphaned, TypeInv, TypeOK
  <2> QED BY <2>1, <2>2 DEF WorktreeInv, Stages
<1>5. CASE BeginEvaluation \/ BeginReproduction
  <2>1. /\ phase \in {"search", "evaluate"} /\ phase' \in {"evaluate", "reproduce"}
        /\ UNCHANGED <<worktree, using>>
    BY <1>5 DEF BeginEvaluation, BeginReproduction, Enter, disk, settings
  <2> QED BY <2>1 DEF WorktreeInv, Stages
<1>6. CASE BeginDisclosure
  <2>1. /\ phase = "reproduce" /\ phase' = "disclose" /\ UNCHANGED <<worktree, using, head>>
    BY <1>6 DEF BeginDisclosure, Enter, disk, inputs, settings
  <2> QED BY <2>1 DEF WorktreeInv, Stages
<1>7. CASE AgentWrites
  BY <1>7, WorktreeFrame DEF AgentWrites, AgentFinds, AgentReproduces, AgentDiscloses, settings,
     inputs
<1>8. CASE OpenWorktree
  <2>1. /\ phase = "reproduce" /\ phase' = phase /\ head' = head
        /\ worktree'.removal = worktree.removal
        /\ using' = "yes" => worktree'.head = head
    BY <1>8 DEF OpenWorktree, inputs, TypeInv, TypeOK
  <2> QED BY <2>1 DEF WorktreeInv, Stages
<1>9. CASE CompleteDisclosure
  BY <1>9 DEF CompleteDisclosure, WorktreeInv, Stages
<1>10. CASE RemoveWorktree
  <2>1. /\ worktree.removal # "no" /\ worktree'.removal = worktree.removal
        /\ UNCHANGED <<phase, head, using>>
    BY <1>10 DEF RemoveWorktree, inputs, settings, TypeInv, TypeOK
  <2>2. worktree.removal = "running" => phase = "clean"
    BY DEF WorktreeInv
  <2> QED BY <2>1, <2>2 DEF WorktreeInv, TypeInv, TypeOK, Stages
<1>11. CASE FinishAudit
  <2>1. phase' = "ended" /\ worktree'.removal # "running"
    BY <1>11 DEF FinishAudit, TypeInv, TypeOK
  <2> QED BY <2>1 DEF WorktreeInv, Stages
<1>12. ASSUME NEW u \in Units, SearchAct(u) PROVE WorktreeInv'
  BY <1>12, SearchActs, WorktreeFrame DEF OnlyTask, settings
<1>13. ASSUME NEW f \in Findings, EvaluateAct(f) \/ ReproduceAct(f) \/ DiscloseAct(f)
       PROVE  WorktreeInv'
  <2>1. phase' = phase /\ UNCHANGED <<head, worktree, using>>
    BY <1>13, EvaluateActs, ReproduceActs, DiscloseActs DEF OnlyTask, settings
  <2> QED BY <2>1, WorktreeFrame
<1>14. ASSUME NEW t \in Tasks, TaskFails(t) PROVE WorktreeInv'
  BY <1>14, TaskFailsOnly, WorktreeFrame DEF OnlyTask, settings
<1>15. CASE UNCHANGED vars
  BY <1>15, WorktreeFrame DEF vars, disk, inputs, settings
<1> QED BY <1>1, <1>2, <1>3, <1>4, <1>5, <1>6, <1>7, <1>8, <1>9, <1>10, <1>11, <1>12, <1>13, <1>14,
           <1>15, Kinds DEF EndAct, BeginAct, CloseAct

-----------------------------------------------------------------------------
(* The theorems *)

LEMMA InitPipeInv == PipelineAssumption /\ Init => PipeInv
<1> SUFFICES ASSUME PipelineAssumption, Init PROVE PipeInv
  OBVIOUS
<1>1. /\ \A t \in Tasks : at[t] = "idle"
      /\ phase = "down" /\ errors = {} /\ worktree.removal = "no"
      /\ stageState["disclose"] = "pending" /\ outcome = "none"
  BY DEF Init, Stages
<1>2. \A f \in Findings :
         /\ verdict[f].is # "open" =>
               /\ <<"evaluate", f>> \in markers
               /\ finding[f] \in Writers => finding[f] = verdict[f].of
               /\ <<"search", UnitOf[f]>> \in markers
         /\ <<"disclose", f>> \in markers => Evidence(f)
  <2>1. CASE Fresh
    BY <2>1 DEF Fresh, PipelineAssumption
  <2>2. CASE Inherited
    <3>1. PICK report \in {"partial", "reproduced"}, left \in {"none", "invalid", "ready"} :
            /\ report = "partial" => left = "none"
            /\ poc = [f \in Findings |-> report]
            /\ markers = Tasks \ ({Research}
                          \cup IF left = "none" THEN Disclosure(Findings) ELSE {})
      BY <2>2 DEF Inherited
    <3>2. ASSUME NEW f \in Findings
          PROVE  /\ <<"evaluate", f>> \in markers /\ <<"reproduce", f>> \in markers
                 /\ \A u \in Units : <<"search", u>> \in markers
                 /\ <<"disclose", f>> \in markers => report = "reproduced"
      <4>1. /\ <<"evaluate", f>> \notin Disclosure(Findings)
            /\ <<"reproduce", f>> \notin Disclosure(Findings)
            /\ \A u \in Units : <<"search", u>> \notin Disclosure(Findings)
            /\ <<"disclose", f>> \in Disclosure(Findings)
        BY DEF Disclosure
      <4>2. /\ <<"evaluate", f>> # Research /\ <<"reproduce", f>> # Research
            /\ \A u \in Units : <<"search", u>> # Research
        BY DEF Research
      <4> QED BY <3>1, <4>1, <4>2, TaskFacts
    <3>3. \A f \in Findings : /\ finding[f] \in {0, Invalid} /\ Invalid \notin Writers
                              /\ verdict[f] = [of |-> 0, is |-> "final"] /\ UnitOf[f] \in Units
      BY <2>2 DEF Inherited, PipelineAssumption, Writers
    <3> TAKE f \in Findings
    <3>4. poc[f] = report /\ verdict[f].of = 0 /\ verdict[f].is = "final"
      BY <3>1, <3>3
    <3>5. <<"disclose", f>> \in markers => Evidence(f)
      BY <3>2, <3>4 DEF Evidence
    <3> QED BY <3>2, <3>3, <3>4, <3>5
  <2> QED BY <2>1, <2>2 DEF Init
<1>3. TypeInv
  BY InitTypeInv
<1>4. SearchInv
  BY <1>1, <1>2, TaskFacts DEF SearchInv
<1>5. VerdictInv /\ PackageInv
  BY <1>1, <1>2, TaskFacts DEF VerdictInv, PackageInv, Busy
<1>6. ReportInv
  BY <1>1, TaskFacts DEF ReportInv, Busy
<1>7. WalkedInv /\ OutcomeInv /\ WorktreeInv
  BY <1>1 DEF WalkedInv, Passed, OutcomeInv, WorktreeInv, LastStageIsOfThisAttempt, Stages
<1> QED BY <1>3, <1>4, <1>5, <1>6, <1>7 DEF PipeInv

LEMMA PipeStep == PipelineAssumption /\ PipeInv /\ [Next]_vars => PipeInv'
<1> SUFFICES ASSUME PipelineAssumption, PipeInv, [Next]_vars PROVE PipeInv'
  OBVIOUS
<1>1. /\ TypeInv /\ SearchInv /\ VerdictInv /\ ReportInv /\ PackageInv /\ WalkedInv /\ OutcomeInv
      /\ WorktreeInv
  BY DEF PipeInv
<1>2. TypeInv'
  BY <1>1, TypeStep
<1>3. SearchInv' /\ VerdictInv'
  BY <1>1, SearchStep, VerdictStep
<1>4. ReportInv' /\ PackageInv'
  BY <1>1, ReportStep, PackageStep
<1>5. WalkedInv' /\ OutcomeInv' /\ WorktreeInv'
  BY <1>1, WalkedStep, OutcomeStep, WorktreeStep
<1> QED BY <1>2, <1>3, <1>4, <1>5 DEF PipeInv

\* The inductive invariant: whatever attempts came before, whatever was damaged in the
\* directory they left, and whatever an orphaned git still removes, what markers, verdicts,
\* reports, packages and stage records promise and what the running audit has concluded
\* from them agree, but where the unit of a finding is noted as patchy.
THEOREM PipelineInvariant ==
    ASSUME PipelineAssumption
    PROVE  Spec => []PipeInv
<1>1. Init => PipeInv
  BY InitPipeInv
<1>2. PipeInv /\ [Next]_vars => PipeInv'
  BY PipeStep
<1> QED BY <1>1, <1>2, PTL DEF Spec

\* Every variable of the audit keeps its type.
THEOREM PipelineTyped ==
    ASSUME PipelineAssumption
    PROVE  Spec => []TypeOK
<1>1. PipeInv => TypeOK
  BY DEF PipeInv, TypeInv
<1> QED BY <1>1, PipelineInvariant, PTL

\* run_stage3 and run_stage4 over any number of attempts, on any directory an earlier version
\* left: a verdict is of the text the search left, but for the findings of units that stayed
\* unmarked while their findings went on, or were marked and searched again.
THEOREM VerdictsAreOfFindings ==
    ASSUME PipelineAssumption
    PROVE  Spec => []EvaluatedAsFound
<1>1. PipeInv => EvaluatedAsFound
  BY DEF PipeInv, VerdictInv, EvaluatedAsFound
<1> QED BY <1>1, PipelineInvariant, PTL

\* _run_audit_stages: an audit that is done without an error has skipped nothing it does
\* not have.
THEOREM DoneIsSettled ==
    ASSUME PipelineAssumption
    PROVE  Spec => []DoneMeansSettled
<1>1. PipeInv => DoneMeansSettled
  <2> SUFFICES ASSUME PipeInv PROVE DoneMeansSettled
    OBVIOUS
  <2>1. ASSUME outcome = "done", phase = "ended"
        PROVE  /\ \A u \in Units : <<"search", u>> \in markers \/ "unmarked" \in patchy[u]
               /\ \A f \in Selected : \/ <<"reproduce", f>> \in markers /\ ReportOf(f) # "none"
                                      \/ ~sandbox /\ ReportOf(f) = "none"
    BY <2>1 DEF PipeInv, OutcomeInv, SearchedFor, Result
  <2>2. ASSUME outcome = "done", NEW f \in Findings, at[<<"disclose", f>>] # "idle"
        PROVE  /\ <<"disclose", f>> \in markers
               /\ Valid(package[f]) /\ Enforced(package[f]) = package[f]
    <3>1. at[<<"disclose", f>>] \in Over /\ at[<<"disclose", f>>] # "rejected"
      BY <2>2, TaskFacts DEF PipeInv, OutcomeInv, AllOver, Disclosure
    <3>2. at[<<"disclose", f>>] = "ok"
      BY <2>2, <3>1 DEF PipeInv, PackageInv, Over
    <3> QED BY <3>2 DEF PipeInv, PackageInv, AsDemanded
  <2> QED BY <2>1, <2>2 DEF DoneMeansSettled
<1> QED BY <1>1, PipelineInvariant, PTL

\* run_stage5 and run_stage6: a package recorded complete keeps its evidence, and evidence is
\* made at the commit under audit unless an orphaned git removes the worktree.
THEOREM PackagesHaveEvidence ==
    ASSUME PipelineAssumption
    PROVE  Spec => []DisclosureHasEvidence
<1>1. PipeInv => DisclosureHasEvidence
  BY DEF PipeInv, PackageInv, Evidence, WorktreeInv, DisclosureHasEvidence
<1> QED BY <1>1, PipelineInvariant, PTL

\* StageStateStore: Stage 6 is recorded done only by an attempt that went through all stages,
\* and until the next one starts.
THEOREM LastStageIsRecent ==
    ASSUME PipelineAssumption
    PROVE  Spec => []LastStageIsOfThisAttempt
<1>1. PipeInv => LastStageIsOfThisAttempt
  BY DEF PipeInv, OutcomeInv
<1> QED BY <1>1, PipelineInvariant, PTL
=============================================================================
