--------------------------- MODULE Stage4Proofs ---------------------------
(***************************************************************************)
(* Proofs about Stage4, for any candidates, severities, dedupe keys, known *)
(* Disclosures and parallelism, however often the stage is cut short.      *)
(***************************************************************************)
EXTENDS Stage4, Sequences, FiniteSetTheorems, WellFoundedInduction, TLAPS

LEMMA LeastNat ==
  ASSUME NEW T \in SUBSET Nat, T # {}
  PROVE  \E m \in T : \A n \in T : m <= n
<1> DEFINE R == {p \in Nat \X Nat : p[1] < p[2]}
<1>1. IsWellFoundedOn(R, Nat)
  BY NatLessThanWellFounded DEF OpToRel
<1>2. \A x, y \in Nat : x < y => <<x, y>> \in R
  OBVIOUS
<1> HIDE DEF R
<1>3. PICK m \in T : \A y \in T : ~(<<y, m>> \in R)
  BY <1>1, WFMin, Zenon
<1>4. ASSUME NEW n \in T PROVE m <= n
  <2>1. ~(n < m)
    BY <1>2, <1>3
  <2> QED
    BY <2>1
<1> QED
  BY <1>4

LEMMA MaxOfFinite ==
  ASSUME NEW S \in SUBSET Nat, IsFiniteSet(S), S # {}
  PROVE  Max(S) \in S /\ \A n \in S : n <= Max(S)
<1>1. PICK seq \in Seq(S) : \A x \in S : \E i \in 1 .. Len(seq) : seq[i] = x
  BY DEF IsFiniteSet
<1> DEFINE Bounds(m, k) == \A i \in 1 .. k : seq[i] <= m
           T == {k \in Nat : k <= Len(seq) /\ ~\E m \in S : Bounds(m, k)}
<1>2. ASSUME NEW k \in T PROVE \E n \in T : n < k
  <2>1. k # 0
    <3>1. \A m \in S : Bounds(m, 0)
      OBVIOUS
    <3> QED
      BY <3>1
  <2>2. k - 1 \in Nat /\ k - 1 <= Len(seq) /\ seq[k] \in S
    BY <2>1
  <2>3. ASSUME NEW m \in S, Bounds(m, k - 1) PROVE FALSE
    <3>1. ASSUME NEW i \in 1 .. k PROVE seq[i] \in Nat /\ (i # k => i \in 1 .. k - 1)
      <4>1. k \in Nat /\ k <= Len(seq) /\ Len(seq) \in Nat
        OBVIOUS
      <4>2. i \in 1 .. Len(seq) /\ (i # k => i \in 1 .. k - 1)
        BY <4>1
      <4>3. seq[i] \in S
        BY <4>2
      <4> QED
        BY <4>2, <4>3
    <3>2. Bounds(m, k) \/ Bounds(seq[k], k)
      BY <2>2, <2>3, <3>1
    <3> HIDE DEF Bounds
    <3> QED
      BY <2>2, <3>2
  <2> HIDE DEF Bounds
  <2>4. k - 1 \in T
    BY <2>2, <2>3
  <2> QED
    BY <2>2, <2>4
<1>3. T = {}
  <2> HIDE DEF T
  <2>1. T \in SUBSET Nat
    BY DEF T
  <2>2. \A m \in T : \E n \in T : ~(m <= n)
    BY <1>2, <2>1
  <2> QED
    BY <2>1, <2>2, LeastNat
<1>4. PICK m \in S : Bounds(m, Len(seq))
  <2>1. Len(seq) \in Nat /\ Len(seq) <= Len(seq)
    OBVIOUS
  <2> HIDE DEF Bounds
  <2> QED
    BY <1>3, <2>1
<1>5. \A n \in S : n <= m
  BY <1>1, <1>4
<1> QED
  BY <1>5 DEF Max
(***************************************************************************)
(* The inductive invariant.                                                *)
(***************************************************************************)
(* A document that a reader sees, or is about to see.                      *)
Kept(d) == d.whole \/ d.name = writing

(* The function's memory belongs to the phases that use it.                *)
PhaseInv ==
  /\ torn \in BOOLEAN
  /\ phase \in {"down", "evaluate", "done"} => batch = {} /\ drop = {} /\ writing = NoName
  /\ phase = "divert" => writing = NoName
  /\ phase # "evaluate" => \A f \in Findings : ~Evaluating(f)
  /\ batch \cap drop = {}

(* What a worker has concluded is what the files say.                      *)
EvaluatedInv ==
  phase = "evaluate" => \A f \in Findings :
    /\ at[f] = "confirmed" => f \in markers /\ pending[f] = "valid"
    /\ at[f] \in {"agent", "repair", "failed"} => f \notin markers
    /\ at[f] = "none" => ~(f \in markers /\ pending[f] = "valid")

(* Nothing confirmed is forgotten between evaluation and the end.          *)
SettledInv ==
  phase \in {"divert", "assign", "done"} =>
    \A f \in markers : pending[f] = "valid" => f \in batch \cup drop

(* Final documents: of settled findings, with names and findings of their  *)
(* own; an identity goes with a whole document that nobody is writing.     *)
FinalInv ==
  /\ IsFiniteSet(final)
  /\ \A d \in final : d.finding \in markers /\ pending[d.finding] = "none"
  /\ \A d, e \in final : d.name = e.name \/ d.finding = e.finding => d = e
  /\ \A d \in final : d.id # NoName => d.id = d.name /\ d.whole /\ d.name # writing
  /\ writing # NoName => drop = {} /\ \E d \in final : d.name = writing

(* Dedupe keys are unique among what is kept and what is to be named.      *)
KeysInv ==
  /\ \A f, g \in batch : f # g => KeyOf[f] # KeyOf[g]
  /\ \A d, e \in final : Kept(d) /\ Kept(e) /\ d # e => KeyOf[d.finding] # KeyOf[e.finding]
  /\ phase = "assign" => \A f \in batch : \A d \in final :
       Kept(d) => KeyOf[d.finding] # KeyOf[f]

(* The counters are past every number that was given.                      *)
CountersInv ==
  phase = "assign" => \A d \in final :
    d.id # NoName \/ d.name = writing => d.name[2] <= counter[d.name[1]]

Inv ==
  /\ TypeOK /\ PhaseInv /\ EvaluatedInv /\ BatchIsValid /\ SettledInv
  /\ FinalInv /\ KeysInv /\ CountersInv

-----------------------------------------------------------------------------
(* Every action keeps the invariant *)

LEMMA NamesFacts == \A n \in Names : n # NoName /\ n[1] \in Severities /\ n[2] \in Nat \ {0}
                                     /\ n = <<n[1], n[2]>>
  BY Stage4Assumption DEF Names

LEMMA InitInv == Init => Inv
<1> SUFFICES ASSUME Init PROVE Inv
  OBVIOUS
<1>1. IsFiniteSet(final)
  BY FS_EmptySet DEF Init
<1>2. NoCounts \in [Severities -> Nat]
  BY DEF NoCounts
<1>3. TypeOK
  BY <1>2, Stage4Assumption DEF Init, TypeOK
<1>4. PhaseInv /\ EvaluatedInv /\ BatchIsValid /\ SettledInv
  BY DEF Init, PhaseInv, EvaluatedInv, BatchIsValid, SettledInv, Evaluating
<1>5. FinalInv /\ KeysInv /\ CountersInv
  BY <1>1 DEF Init, FinalInv, KeysInv, CountersInv
<1> QED
  BY <1>3, <1>4, <1>5 DEF Inv

(* A step of the evaluation: documents, and what the later phases work on, *)
(* stay as they are, and so do the files of the findings reported.         *)
LEMMA EvaluationKeeps ==
  ASSUME Inv, phase = "evaluate", phase' = "evaluate", TypeOK', EvaluatedInv',
         UNCHANGED <<final, batch, drop, counter, writing, torn>>,
         \A d \in final : d.finding \in markers' /\ pending'[d.finding] = "none"
  PROVE  Inv'
  BY DEF Inv, PhaseInv, BatchIsValid, SettledInv, FinalInv, KeysInv, CountersInv, Kept, Evaluating

LEMMA StartInv ==
  ASSUME Inv, Start
  PROVE  Inv'
<1>1. TypeOK' /\ EvaluatedInv'
  BY DEF Start, Inv, TypeOK, EvaluatedInv
<1> QED
  BY <1>1 DEF Start, Inv, TypeOK, PhaseInv, BatchIsValid, SettledInv, FinalInv, KeysInv,
              CountersInv, Kept,
              Evaluating

LEMMA SkipInv ==
  ASSUME Inv, NEW f \in Findings, Skip(f)
  PROVE  Inv'
<1>1. TypeOK' /\ EvaluatedInv'
  BY DEF Skip, Inv, TypeOK, EvaluatedInv
<1> QED
  BY <1>1, EvaluationKeeps DEF Skip, Inv, FinalInv

LEMMA EvaluateInv ==
  ASSUME Inv, NEW f \in Findings, Evaluate(f)
  PROVE  Inv'
<1>1. TypeOK' /\ EvaluatedInv'
  BY DEF Evaluate, Inv, TypeOK, EvaluatedInv
<1>2. \A d \in final : d.finding \in markers' /\ pending'[d.finding] = "none"
  BY DEF Evaluate, Inv, TypeOK, FinalInv
<1> QED
  BY <1>1, <1>2, EvaluationKeeps DEF Evaluate

LEMMA AgentWritesInv ==
  ASSUME Inv, NEW f \in Findings, AgentWrites(f)
  PROVE  Inv'
<1>1. phase = "evaluate" /\ f \notin markers
  BY DEF AgentWrites, Evaluating, Inv, PhaseInv, EvaluatedInv
<1>2. TypeOK' /\ EvaluatedInv'
  BY <1>1 DEF AgentWrites, Evaluating, Inv, TypeOK, EvaluatedInv
<1>3. \A d \in final : d.finding \in markers' /\ pending'[d.finding] = "none"
  BY <1>1 DEF AgentWrites, Inv, TypeOK, FinalInv
<1> QED
  BY <1>1, <1>2, <1>3, EvaluationKeeps DEF AgentWrites

LEMMA AgentReturnsInv ==
  ASSUME Inv, NEW f \in Findings, AgentReturns(f)
  PROVE  Inv'
<1>1. phase = "evaluate" /\ f \notin markers
  BY DEF AgentReturns, Evaluating, Inv, PhaseInv, EvaluatedInv
<1>2. TypeOK' /\ EvaluatedInv'
  BY <1>1 DEF AgentReturns, Evaluating, Inv, TypeOK, EvaluatedInv
<1>3. \A d \in final : d.finding \in markers' /\ pending'[d.finding] = "none"
  BY <1>1 DEF AgentReturns, Inv, TypeOK, FinalInv
<1> QED
  BY <1>1, <1>2, <1>3, EvaluationKeeps DEF AgentReturns

LEMMA AgentFailsInv ==
  ASSUME Inv, NEW f \in Findings, AgentFails(f)
  PROVE  Inv'
<1>1. phase = "evaluate"
  BY DEF AgentFails, Evaluating, Inv, PhaseInv
<1>2. TypeOK' /\ EvaluatedInv'
  BY <1>1 DEF AgentFails, Evaluating, Inv, TypeOK, EvaluatedInv
<1> QED
  BY <1>1, <1>2, EvaluationKeeps DEF AgentFails, Inv, FinalInv

LEMMA SemanticDedupeInv ==
  ASSUME Inv, SemanticDedupe
  PROVE  Inv'
<1> DEFINE candidates == {f \in Findings : at[f] = "confirmed"}
<1>1. PICK kept \in Retainable(candidates) : batch' = kept /\ drop' = candidates \ kept
  BY DEF SemanticDedupe
<1>2. kept \subseteq candidates /\ \A f, g \in kept : f # g => KeyOf[f] # KeyOf[g]
  BY DEF Retainable
<1>3. \A f \in markers : pending[f] = "valid" => f \in candidates
  BY DEF SemanticDedupe, Inv, TypeOK, EvaluatedInv
<1>8. \A f \in candidates : pending[f] = "valid" /\ f \in markers
  BY DEF SemanticDedupe, Inv, EvaluatedInv
<1> HIDE DEF candidates
<1>9. BatchIsValid'
  BY <1>1, <1>2, <1>8 DEF SemanticDedupe, BatchIsValid
<1>4. candidates \subseteq Findings
  BY DEF candidates
<1>5. TypeOK'
  BY <1>1, <1>2, <1>4 DEF SemanticDedupe, Inv, TypeOK
<1>6. PhaseInv' /\ EvaluatedInv' /\ SettledInv'
  BY <1>1, <1>2, <1>3 DEF SemanticDedupe, Inv, PhaseInv, EvaluatedInv, SettledInv, Evaluating
<1>7. FinalInv' /\ KeysInv' /\ CountersInv'
  BY <1>2, <1>1 DEF SemanticDedupe, Inv, PhaseInv, FinalInv, KeysInv, CountersInv, Kept
<1> QED
  BY <1>5, <1>6, <1>7, <1>9 DEF Inv

(* A file that is put away is of no final document.                        *)
LEMMA ClearedInv ==
  ASSUME Inv, NEW f \in drop, phase \in {"divert", "assign"}, phase' = phase,
         drop' = drop \ {f}, pending' = [pending EXCEPT ![f] = "none"],
         duplicates' \subseteq Findings,
         UNCHANGED <<markers, final, at, batch, counter, writing, torn, crashes>>
  PROVE  Inv'
<1>1. TypeOK'
  BY DEF Inv, TypeOK
<1>2. PhaseInv' /\ EvaluatedInv' /\ BatchIsValid' /\ SettledInv'
  BY DEF Inv, TypeOK, PhaseInv, EvaluatedInv, BatchIsValid, SettledInv, Evaluating
<1>3. FinalInv'
  BY DEF Inv, TypeOK, FinalInv
<1>4. KeysInv' /\ CountersInv'
  BY DEF Inv, KeysInv, CountersInv, Kept
<1> QED
  BY <1>1, <1>2, <1>3, <1>4 DEF Inv

LEMMA DivertInv ==
  ASSUME Inv, NEW f \in Findings, Divert(f)
  PROVE  Inv'
  BY ClearedInv DEF Divert, Inv, TypeOK

LEMMA UnlinkInv ==
  ASSUME Inv, NEW f \in Findings, Unlink(f)
  PROVE  Inv'
  BY ClearedInv DEF Unlink, Inv, TypeOK

(* The highest number read from the files is in one and bounds the others. *)
LEMMA HighestBounds ==
  ASSUME TypeOK, IsFiniteSet(final), NEW s \in Severities
  PROVE  /\ Highest(s) \in Nat
         /\ Highest(s) = 0 \/ \E d \in Readable :
              d.id # NoName /\ d.id[1] = s /\ d.id[2] = Highest(s)
         /\ \A d \in Readable : d.id # NoName /\ d.id[1] = s => d.id[2] <= Highest(s)
<1> DEFINE given == {d \in Readable : d.id # NoName /\ d.id[1] = s}
           numbers == {d.id[2] : d \in given}
           number == [d \in given |-> d.id[2]]
<1>1. IsFiniteSet(given)
  BY FS_Subset DEF Readable
<1>2. numbers \subseteq Nat
  BY NamesFacts DEF TypeOK, Documents, Readable
<1>3. number \in Surjection(given, numbers)
  BY DEF Surjection
<1>4. IsFiniteSet(numbers)
  <2> HIDE DEF given, numbers, number
  <2> QED
    BY <1>1, <1>3, FS_Surjection
<1>5. IsFiniteSet({0} \cup numbers)
  <2> HIDE DEF numbers
  <2>1. {0} \cup numbers = numbers \cup {0}
    OBVIOUS
  <2> QED
    BY <1>4, <2>1, FS_AddElement
<1>6. /\ Max({0} \cup numbers) \in {0} \cup numbers
      /\ \A i \in {0} \cup numbers : i <= Max({0} \cup numbers)
  <2> HIDE DEF numbers
  <2> QED
    BY <1>2, <1>5, MaxOfFinite
<1>7. Highest(s) = Max({0} \cup numbers)
  BY DEF Highest
<1>8. \A d \in Readable : d.id # NoName /\ d.id[1] = s => d.id[2] \in numbers
  OBVIOUS
<1>11. \A i \in numbers : \E d \in Readable : d.id # NoName /\ d.id[1] = s /\ d.id[2] = i
  OBVIOUS
<1>9. 0 \in Nat /\ {0} \cup numbers \subseteq Nat
  BY <1>2
<1> HIDE DEF numbers
<1>10. Highest(s) \in Nat
  BY <1>6, <1>7, <1>9
<1> QED
  BY <1>6, <1>7, <1>8, <1>10, <1>11

LEMMA ReadFinalInv ==
  ASSUME Inv, ReadFinal
  PROVE  Inv'
<1>1. writing = NoName /\ TypeOK /\ IsFiniteSet(final)
  BY DEF ReadFinal, Inv, PhaseInv, FinalInv
<1> DEFINE X == ExactDuplicates
<1>2. \A f \in batch \ X : \A d \in Readable : KeyOf[d.finding] # KeyOf[f]
  BY DEF ExactDuplicates
<1>3. X \subseteq batch
  BY DEF ExactDuplicates
<1>4. batch' = batch \ X /\ drop' = X
  BY DEF ReadFinal
<1> HIDE DEF X
<1>5. counter' \in [Severities -> Nat] /\ \A s \in Severities : counter'[s] = Highest(s)
  BY <1>1, HighestBounds DEF ReadFinal
<1>6. TypeOK'
  BY <1>3, <1>4, <1>5 DEF ReadFinal, Inv, TypeOK
<1>7. PhaseInv' /\ EvaluatedInv' /\ BatchIsValid' /\ SettledInv'
  BY <1>3, <1>4 DEF ReadFinal, Inv, PhaseInv, EvaluatedInv, BatchIsValid, SettledInv, Evaluating
<1>8. FinalInv'
  BY <1>1 DEF ReadFinal, Inv, PhaseInv, FinalInv
<1>9. KeysInv'
  <2>1. \A d \in final : ~(d.name = writing)
    BY <1>1, NamesFacts DEF TypeOK, Documents
  <2> QED
    BY <1>1, <1>2, <1>3, <1>4, <2>1 DEF ReadFinal, Inv, KeysInv, Kept, Readable
<1>10. CountersInv'
  <2> SUFFICES ASSUME NEW d \in final, d.id # NoName \/ d.name = writing
               PROVE  d.name[2] <= Highest(d.name[1]) /\ d.name[1] \in Severities
    BY <1>5 DEF ReadFinal, CountersInv
  <2>1. d.name \in Names
    BY <1>1 DEF TypeOK, Documents
  <2>2. d.id # NoName
    BY <1>1, <2>1, NamesFacts
  <2>3. d.id = d.name /\ d \in Readable
    BY <2>2 DEF Inv, FinalInv, Readable
  <2> QED
    BY <1>1, <2>1, <2>2, <2>3, NamesFacts, HighestBounds
<1> QED
  BY <1>6, <1>7, <1>8, <1>9, <1>10 DEF Inv

LEMMA MoveToFinalInv ==
  ASSUME Inv, NEW f \in Findings, MoveToFinal(f)
  PROVE  Inv'
<1> DEFINE s == SeverityOf[f]
           n == <<s, counter[s] + 1>>
           new == [name |-> n, finding |-> f, id |-> NoName, whole |-> TRUE]
           stay == {d \in final : d.name # n}
<1>1. s \in Severities /\ counter[s] \in Nat /\ n \in Names /\ new \in Documents
  BY Stage4Assumption DEF Inv, TypeOK, Names, Documents
<1>2. /\ final' = stay \cup {new} /\ writing' = n /\ writing = NoName
      /\ counter' = [counter EXCEPT ![s] = @ + 1] /\ phase = "assign"
      /\ pending' = [pending EXCEPT ![f] = "none"] /\ batch' = batch \ {f} /\ drop = {}
      /\ f \in batch
      /\ UNCHANGED <<markers, duplicates, phase, at, drop, torn, crashes>>
  BY DEF MoveToFinal
<1>3. pending[f] = "valid" /\ f \in markers
  BY <1>2 DEF Inv, BatchIsValid
<1>4. \A d \in stay : d \in final /\ d.name # n /\ d.finding # f /\ d # new
  BY <1>3 DEF Inv, FinalInv
<1>5. new.name = n /\ new.finding = f /\ new.id = NoName /\ new.whole
  OBVIOUS
<1>6. IsFiniteSet(final')
  <2>1. IsFiniteSet(stay)
    BY FS_Subset DEF Inv, FinalInv
  <2> HIDE DEF stay, new
  <2> QED
    BY <1>2, <2>1, FS_AddElement
<1>7. \A d \in final : d.name # NoName /\ d.name \in Names
  BY NamesFacts DEF Inv, TypeOK, Documents
<1>8. n[1] = s /\ n[2] = counter[s] + 1 /\ n # NoName
  BY <1>1, NamesFacts
<1> HIDE DEF s, n, new, stay
<1>9. TypeOK'
  BY <1>1, <1>2, <1>4 DEF Inv, TypeOK
<1>10. PhaseInv' /\ EvaluatedInv' /\ BatchIsValid' /\ SettledInv'
  BY <1>2 DEF Inv, TypeOK, PhaseInv, EvaluatedInv, BatchIsValid, SettledInv, Evaluating
<1>11. FinalInv'
  <2>1. \A d \in final' : d.finding \in markers' /\ pending'[d.finding] = "none"
    BY <1>2, <1>3, <1>4, <1>5 DEF Inv, TypeOK, FinalInv
  <2>2. \A d, e \in final' : d.name = e.name \/ d.finding = e.finding => d = e
    BY <1>2, <1>4, <1>5 DEF Inv, FinalInv
  <2>3. \A d \in final' : d.id # NoName => d.id = d.name /\ d.whole /\ d.name # writing'
    BY <1>2, <1>4, <1>5 DEF Inv, FinalInv
  <2>4. drop' = {} /\ \E d \in final' : d.name = writing'
    BY <1>2, <1>5
  <2> QED
    BY <1>6, <2>1, <2>2, <2>3, <2>4 DEF FinalInv
<1>12. KeysInv'
  <2>1. \A d \in final' : Kept(d)' => d = new \/ (d \in final /\ d # new /\ Kept(d))
    BY <1>2, <1>4 DEF Kept
  <2>2. \A g \in batch' : g \in batch /\ g # f
    BY <1>2
  <2>3. \A d \in final : Kept(d) => KeyOf[d.finding] # KeyOf[f]
    BY <1>2 DEF Inv, KeysInv
  <2>4. \A d, e \in final' : Kept(d)' /\ Kept(e)' /\ d # e => KeyOf[d.finding] # KeyOf[e.finding]
    BY <1>5, <2>1, <2>3 DEF Inv, KeysInv
  <2>5. \A g \in batch' : \A d \in final' : Kept(d)' => KeyOf[d.finding] # KeyOf[g]
    BY <1>2, <1>5, <2>1, <2>2 DEF Inv, KeysInv
  <2>6. \A g, h \in batch' : g # h => KeyOf[g] # KeyOf[h]
    BY <2>2 DEF Inv, KeysInv
  <2> QED
    BY <2>4, <2>5, <2>6 DEF KeysInv
<1>13. CountersInv'
  <2>1. counter \in [Severities -> Nat]
    BY DEF Inv, TypeOK
  <2>2. \A t \in Severities : counter[t] \in Nat /\ counter[t] <= counter'[t]
    BY <1>1, <1>2, <2>1
  <2>3. counter'[s] = counter[s] + 1 /\ counter[s] \in Nat
    BY <1>1, <1>2, <2>1
  <2>4. \A d \in stay : d.id # NoName => d.name[2] <= counter'[d.name[1]]
    <3> SUFFICES ASSUME NEW d \in stay, d.id # NoName
                 PROVE  d.name[2] <= counter'[d.name[1]]
      OBVIOUS
    <3>1. d.name[1] \in Severities /\ d.name[2] \in Nat
      BY <1>4, <1>7, NamesFacts
    <3>2. d.name[2] <= counter[d.name[1]]
      BY <1>2, <1>4 DEF Inv, CountersInv
    <3>3. counter[d.name[1]] \in Nat /\ counter'[d.name[1]] \in Nat
          /\ counter[d.name[1]] <= counter'[d.name[1]]
      BY <1>9, <2>2, <3>1 DEF TypeOK
    <3> QED
      BY <3>1, <3>2, <3>3
  <2>5. new.name[2] <= counter'[new.name[1]]
    BY <1>5, <1>8, <2>3
  <2> QED
    BY <1>2, <1>4, <2>4, <2>5 DEF CountersInv
<1> QED
  BY <1>9, <1>10, <1>11, <1>12, <1>13 DEF Inv

LEMMA RewriteInv ==
  ASSUME Inv, Rewrite
  PROVE  Inv'
<1>1. PICK d \in final :
        /\ d.name = writing
        /\ IF d.whole
           THEN final' = (final \ {d}) \cup {[d EXCEPT !.whole = FALSE]} /\ writing' = writing
           ELSE /\ final' = (final \ {d}) \cup {[d EXCEPT !.whole = TRUE, !.id = d.name]}
                /\ writing' = NoName
  BY DEF Rewrite
<1> DEFINE d2 == IF d.whole THEN [d EXCEPT !.whole = FALSE]
                 ELSE [d EXCEPT !.whole = TRUE, !.id = d.name]
           rest == final \ {d}
<1>2. d \in Documents /\ d.name \in Names /\ d.id = NoName /\ writing # NoName
  BY <1>1 DEF Rewrite, Inv, TypeOK, Documents, FinalInv
<1>3. /\ d2 \in Documents /\ d2.name = d.name /\ d2.finding = d.finding
      /\ d2.whole = ~d.whole /\ d2.id = IF d.whole THEN NoName ELSE d.name
  BY <1>2 DEF Documents
<1>4. final' = rest \cup {d2} /\ writing' = IF d.whole THEN writing ELSE NoName
  BY <1>1
<1>5. phase = "assign" /\ drop = {}
      /\ UNCHANGED <<markers, pending, duplicates, phase, at, batch, drop, counter, torn, crashes>>
  BY <1>2 DEF Rewrite, Inv, TypeOK, PhaseInv, FinalInv
<1>6. \A e \in rest : e \in final /\ e # d /\ e.name # d.name /\ e.finding # d.finding
                      /\ e.name # NoName
  BY <1>2, NamesFacts DEF Inv, TypeOK, Documents, FinalInv
<1>7. d \in final /\ d.name = writing
  BY <1>1
<1>8. IsFiniteSet(final')
  <2>1. IsFiniteSet(rest)
    BY FS_Subset DEF Inv, FinalInv
  <2> HIDE DEF rest, d2
  <2> QED
    BY <1>4, <2>1, FS_AddElement
<1> HIDE DEF d2, rest
<1>9. TypeOK'
  BY <1>2, <1>3, <1>4, <1>5, <1>6, <1>7 DEF Inv, TypeOK
<1>10. PhaseInv' /\ EvaluatedInv' /\ BatchIsValid' /\ SettledInv'
  BY <1>5 DEF Inv, PhaseInv, EvaluatedInv, BatchIsValid, SettledInv, Evaluating
<1>11. FinalInv'
  <2>1. \A e \in final' : e.finding \in markers' /\ pending'[e.finding] = "none"
    BY <1>3, <1>4, <1>5, <1>6, <1>7 DEF Inv, FinalInv
  <2>2. \A e, g \in final' : e.name = g.name \/ e.finding = g.finding => e = g
    BY <1>3, <1>4, <1>6 DEF Inv, FinalInv
  <2>3. \A e \in final' : e.id # NoName => e.id = e.name /\ e.whole /\ e.name # writing'
    BY <1>2, <1>3, <1>4, <1>6, <1>7 DEF Inv, FinalInv
  <2>4. writing' # NoName => drop' = {} /\ \E e \in final' : e.name = writing'
    BY <1>3, <1>4, <1>5, <1>7
  <2> QED
    BY <1>8, <2>1, <2>2, <2>3, <2>4 DEF FinalInv
<1>12. KeysInv'
  <2>1. \A e \in final' : Kept(e)' => e = d2 \/ (e \in final /\ e # d /\ Kept(e))
    BY <1>4, <1>6, <1>7 DEF Kept
  <2>2. Kept(d)
    BY <1>7 DEF Kept
  <2>3. \A e, g \in final' : Kept(e)' /\ Kept(g)' /\ e # g => KeyOf[e.finding] # KeyOf[g.finding]
    BY <1>3, <1>7, <2>1, <2>2 DEF Inv, KeysInv
  <2>4. \A f \in batch : \A e \in final' : Kept(e)' => KeyOf[e.finding] # KeyOf[f]
    BY <1>3, <1>5, <1>7, <2>1, <2>2 DEF Inv, KeysInv
  <2> QED
    BY <1>5, <2>3, <2>4 DEF Inv, KeysInv
<1>13. CountersInv'
  BY <1>3, <1>4, <1>5, <1>6, <1>7 DEF Inv, CountersInv
<1> QED
  BY <1>9, <1>10, <1>11, <1>12, <1>13 DEF Inv

LEMMA FinishInv ==
  ASSUME Inv, Finish
  PROVE  Inv'
<1>1. NoCounts \in [Severities -> Nat]
  BY DEF NoCounts
<1>2. TypeOK'
  BY <1>1 DEF Finish, Inv, TypeOK
<1>3. PhaseInv' /\ EvaluatedInv' /\ BatchIsValid' /\ SettledInv'
  BY DEF Finish, Inv, PhaseInv, EvaluatedInv, BatchIsValid, SettledInv, Evaluating
<1>4. FinalInv' /\ KeysInv' /\ CountersInv'
  BY DEF Finish, Inv, FinalInv, KeysInv, CountersInv, Kept
<1> QED
  BY <1>2, <1>3, <1>4 DEF Inv

(* What was being rewritten stays, whole or not, without an identity.      *)
LEMMA CrashInv ==
  ASSUME Inv, Crash
  PROVE  Inv'
<1>1. NoCounts \in [Severities -> Nat]
  BY DEF NoCounts
<1>2. TypeOK'
  BY <1>1, Stage4Assumption DEF Crash, Inv, TypeOK
<1>3. PhaseInv' /\ EvaluatedInv' /\ BatchIsValid' /\ SettledInv'
  BY DEF Crash, Inv, PhaseInv, EvaluatedInv, BatchIsValid, SettledInv, Evaluating
<1>4. \A d \in final : d.name # NoName
  BY NamesFacts DEF Inv, TypeOK, Documents
<1>5. FinalInv' /\ KeysInv' /\ CountersInv'
  BY <1>4 DEF Crash, Inv, FinalInv, KeysInv, CountersInv, Kept
<1> QED
  BY <1>2, <1>3, <1>5 DEF Inv

LEMMA InvStep ==
  ASSUME Inv, [Next]_vars
  PROVE  Inv'
<1>1. CASE Start
  BY <1>1, StartInv
<1>2. CASE SemanticDedupe
  BY <1>2, SemanticDedupeInv
<1>3. CASE ReadFinal
  BY <1>3, ReadFinalInv
<1>4. CASE Rewrite
  BY <1>4, RewriteInv
<1>5. CASE Finish
  BY <1>5, FinishInv
<1>6. CASE Crash
  BY <1>6, CrashInv
<1>7. ASSUME NEW f \in Findings, EvaluationMoves(f)
      PROVE  Inv'
  BY <1>7, SkipInv, EvaluateInv, AgentWritesInv, AgentReturnsInv, AgentFailsInv
  DEF EvaluationMoves
<1>8. ASSUME NEW f \in Findings, Divert(f) \/ Unlink(f) \/ MoveToFinal(f)
      PROVE  Inv'
  BY <1>8, DivertInv, UnlinkInv, MoveToFinalInv
<1>9. CASE UNCHANGED vars
  BY <1>9 DEF vars, Inv, TypeOK, PhaseInv, EvaluatedInv, BatchIsValid, SettledInv, FinalInv,
              KeysInv, CountersInv, Kept, Evaluating
<1> QED
  BY <1>1, <1>2, <1>3, <1>4, <1>5, <1>6, <1>7, <1>8, <1>9 DEF Next

THEOREM Stage4Invariant == Spec => []Inv
  BY InitInv, InvStep, PTL DEF Spec

-----------------------------------------------------------------------------
(***************************************************************************)
(* Stage 4 is well typed: in particular a document that is being written   *)
(* is one of its final files, under a name of its severity.                *)
(***************************************************************************)
THEOREM Typed == Spec => []TypeOK
<1>1. Inv => TypeOK
  BY DEF Inv
<1> QED
  BY Stage4Invariant, <1>1, PTL

(***************************************************************************)
(* What deduplication and numbering work on is what evaluation accepted.   *)
(***************************************************************************)
THEOREM BatchStaysValid == Spec => []BatchIsValid
<1>1. Inv => BatchIsValid
  BY DEF Inv
<1> QED
  BY Stage4Invariant, <1>1, PTL

(***************************************************************************)
(* No two final documents that can be read describe the same               *)
(* vulnerability, over any number of attempts.                             *)
(***************************************************************************)
THEOREM KeysStayUnique == Spec => []FinalKeysUnique
<1>1. Inv => FinalKeysUnique
  BY DEF Inv, KeysInv, Kept, FinalKeysUnique, Readable
<1> QED
  BY Stage4Invariant, <1>1, PTL

(***************************************************************************)
(* When the stage ends, nothing confirmed is left among the pending files. *)
(***************************************************************************)
THEOREM NothingLeftBehind == Spec => []ConfirmedAreFinal
<1>1. Inv => ConfirmedAreFinal
  BY DEF Inv, PhaseInv, SettledInv, ConfirmedAreFinal
<1> QED
  BY Stage4Invariant, <1>1, PTL

(***************************************************************************)
(* An identifier that was given is never given again: the counters are     *)
(* past every number in a final document, so MoveToFinal replaces none.    *)
(***************************************************************************)
THEOREM IdentitiesStay == Spec => IdentityStable
<1>1. ASSUME Inv, [Next]_vars, NEW d \in final, d.whole /\ d.id # NoName
      PROVE  d \in final'
  <2>1. ASSUME NEW f \in Findings, MoveToFinal(f)
        PROVE  d \in final'
    <3> DEFINE s == SeverityOf[f]
               n == <<s, counter[s] + 1>>
    <3>1. s \in Severities /\ counter[s] \in Nat
      BY <1>1, Stage4Assumption DEF Inv, TypeOK
    <3>2. d.name[2] <= counter[d.name[1]]
      BY <1>1, <2>1 DEF MoveToFinal, Inv, CountersInv
    <3>3. d.name \in Names
      BY <1>1 DEF Inv, TypeOK, Documents
    <3>4. d.name # n
      BY <3>1, <3>2, <3>3, NamesFacts
    <3> QED
      BY <2>1, <3>4 DEF MoveToFinal
  <2>2. CASE Rewrite
    <3>1. d.name # writing
      BY <1>1 DEF Inv, FinalInv
    <3> QED
      BY <2>2, <3>1 DEF Rewrite
  <2>3. CASE Start \/ SemanticDedupe \/ ReadFinal \/ Finish \/ Crash
    BY <2>3 DEF Start, SemanticDedupe, ReadFinal, Finish, Crash
  <2>4. ASSUME NEW f \in Findings, EvaluationMoves(f) \/ Divert(f) \/ Unlink(f)
        PROVE  d \in final'
    BY <2>4 DEF EvaluationMoves, Skip, Evaluate, AgentWrites, AgentReturns, AgentFails, Divert,
                Unlink
  <2>5. CASE UNCHANGED vars
    BY <2>5 DEF vars
  <2> QED
    BY <1>1, <2>1, <2>2, <2>3, <2>4, <2>5 DEF Next
<1>2. ASSUME Inv, [Next]_vars
      PROVE  [\A d \in final : d.whole /\ d.id # NoName => d \in final']_vars
  BY <1>1, <1>2
<1> QED
  BY Stage4Invariant, <1>2, PTL DEF Spec, IdentityStable

-----------------------------------------------------------------------------
(***************************************************************************)
(* Refinement.  As long as no document was left between its move and its   *)
(* rewrite, final files are numbered without a gap, so the next number is  *)
(* free and no higher than the number of reported findings; and a finding  *)
(* is dropped only when something else stands for it.                      *)
(***************************************************************************)
NumberedInv ==
  ~torn =>
    /\ \A d \in final : d.id # NoName \/ d.name = writing
    /\ \A d \in final : \A i \in 1 .. d.name[2] : \E e \in final : e.name = <<d.name[1], i>>
    /\ phase = "assign" =>
         \A s \in Severities : \A i \in 1 .. counter[s] : \E e \in final : e.name = <<s, i>>

RepresentedInv ==
  /\ phase = "divert" /\ drop # {} => Inventory # {} \/ batch # {}
  /\ phase = "assign" => \A f \in drop : \E d \in final : d.finding # f

LedgerInv == NumberedInv /\ RepresentedInv

LEMMA LedgerInvInit == Init => LedgerInv
  BY DEF Init, LedgerInv, NumberedInv, RepresentedInv

(* A step that leaves the documents and the counters.                      *)
LEMMA NumberedKept ==
  ASSUME NumberedInv, UNCHANGED <<final, torn, counter, writing>>,
         phase' = "assign" => phase = "assign"
  PROVE  NumberedInv'
  BY DEF NumberedInv

LEMMA SemanticDedupeRepresents ==
  ASSUME SemanticDedupe
  PROVE  RepresentedInv'
<1> DEFINE candidates == {f \in Findings : at[f] = "confirmed"}
<1>1. PICK kept \in Retainable(candidates) : batch' = kept /\ drop' = candidates \ kept
  BY DEF SemanticDedupe
<1>2. \A f \in candidates \ kept : Inventory # {} \/ kept # {}
  BY DEF Retainable
<1> HIDE DEF candidates
<1> QED
  BY <1>1, <1>2 DEF SemanticDedupe, RepresentedInv

LEMMA ReadFinalLedgerInv ==
  ASSUME Inv, LedgerInv, ReadFinal
  PROVE  LedgerInv'
<1>1. TypeOK /\ IsFiniteSet(final)
  BY DEF Inv, FinalInv
<1>2. NumberedInv'
  <2> SUFFICES ASSUME ~torn, NEW s \in Severities, NEW i \in 1 .. Highest(s)
               PROVE  \E e \in final : e.name = <<s, i>>
    BY DEF ReadFinal, LedgerInv, NumberedInv
  <2>1. Highest(s) \in Nat /\ Highest(s) # 0
    BY <1>1, HighestBounds
  <2>2. PICK d \in Readable : d.id # NoName /\ d.id[1] = s /\ d.id[2] = Highest(s)
    BY <1>1, <2>1, HighestBounds
  <2>3. d \in final /\ d.name[1] = s /\ d.name[2] = Highest(s)
    BY <2>2 DEF Readable, Inv, FinalInv
  <2> QED
    BY <2>3 DEF LedgerInv, NumberedInv
<1>3. RepresentedInv'
  <2> SUFFICES ASSUME NEW f \in ExactDuplicates PROVE \E d \in final : d.finding # f
    BY DEF ReadFinal, RepresentedInv
  <2>1. f \in batch /\ pending[f] = "valid"
    BY DEF ExactDuplicates, Inv, BatchIsValid
  <2>2. ~\E g \in batch : KeyOf[g] = KeyOf[f] /\ Outranks(g, f)
    <3> SUFFICES ASSUME NEW g \in batch, KeyOf[g] = KeyOf[f], Outranks(g, f) PROVE FALSE
      OBVIOUS
    <3>1. g = f
      BY <2>1 DEF Inv, KeysInv
    <3>2. Position[f] \in Nat /\ Rank[SeverityOf[f]] \in Nat
      BY <2>1, Stage4Assumption DEF Inv, TypeOK, Rank, Severities
    <3> QED
      BY <3>1, <3>2 DEF Outranks
  <2>3. \E d \in final : KeyOf[d.finding] = KeyOf[f]
    BY <2>2 DEF ExactDuplicates, Readable
  <2> QED
    BY <2>1, <2>3 DEF Inv, FinalInv
<1> QED
  BY <1>2, <1>3 DEF LedgerInv

(* The name a document is moved to is that of no other.                    *)
LEMMA NextNameFree ==
  ASSUME Inv, NumberedInv, ~torn, NEW f \in Findings, MoveToFinal(f), NEW d \in final
  PROVE  d.name # <<SeverityOf[f], counter[SeverityOf[f]] + 1>>
<1>1. SeverityOf[f] \in Severities /\ counter[SeverityOf[f]] \in Nat
  BY Stage4Assumption DEF Inv, TypeOK
<1>2. d.name \in Names
  BY DEF Inv, TypeOK, Documents
<1>3. d.id # NoName
  BY <1>2, NamesFacts DEF NumberedInv, MoveToFinal
<1>4. d.name[2] <= counter[d.name[1]]
  BY <1>3 DEF Inv, CountersInv, MoveToFinal
<1> QED
  BY <1>1, <1>2, <1>4, NamesFacts

LEMMA MoveToFinalLedgerInv ==
  ASSUME Inv, LedgerInv, NEW f \in Findings, MoveToFinal(f)
  PROVE  LedgerInv'
<1> DEFINE s == SeverityOf[f]
           n == <<s, counter[s] + 1>>
           new == [name |-> n, finding |-> f, id |-> NoName, whole |-> TRUE]
<1>1. s \in Severities /\ counter[s] \in Nat /\ counter \in [Severities -> Nat]
  BY Stage4Assumption DEF Inv, TypeOK
<1>2. /\ writing' = n /\ counter' = [counter EXCEPT ![s] = @ + 1] /\ phase = "assign"
      /\ drop' = {} /\ phase' = phase /\ torn' = torn /\ writing = NoName
      /\ final' = {d \in final : d.name # n} \cup {new}
  BY DEF MoveToFinal
<1>3. new.name = n /\ n[1] = s /\ n[2] = counter[s] + 1
  OBVIOUS
<1>4. RepresentedInv'
  BY <1>2 DEF RepresentedInv
<1>5. ASSUME ~torn
      PROVE  NumberedInv'
  <2>1. \A d \in final : d.name # n
    BY <1>5, NextNameFree DEF LedgerInv
  <2>2. final' = final \cup {new}
    BY <1>2, <2>1
  <2>3. \A d \in final : d.id # NoName
    <3>1. \A d \in final : d.name # NoName
      BY NamesFacts DEF Inv, TypeOK, Documents
    <3> QED
      BY <1>2, <1>5, <3>1 DEF LedgerInv, NumberedInv
  <2> HIDE DEF new, n, s
  <2>4. \A t \in Severities : \A i \in 1 .. counter'[t] : \E e \in final' : e.name = <<t, i>>
    <3> SUFFICES ASSUME NEW t \in Severities, NEW i \in 1 .. counter'[t]
                 PROVE  \E e \in final' : e.name = <<t, i>>
      OBVIOUS
    <3>1. CASE t = s /\ i = counter[s] + 1
      BY <1>3, <2>2, <3>1 DEF n
    <3>2. CASE ~(t = s /\ i = counter[s] + 1)
      <4>1. i \in 1 .. counter[t]
        BY <1>1, <1>2, <3>2
      <4> QED
        BY <1>2, <1>5, <2>2, <4>1 DEF LedgerInv, NumberedInv
    <3> QED
      BY <3>1, <3>2
  <2>5. \A i \in 1 .. new.name[2] : \E e \in final' : e.name = <<new.name[1], i>>
    <3>1. counter'[s] = counter[s] + 1
      BY <1>1, <1>2
    <3> QED
      BY <1>1, <1>3, <2>4, <3>1
  <2>6. \A d \in final : \A i \in 1 .. d.name[2] : \E e \in final' : e.name = <<d.name[1], i>>
    BY <1>5, <2>2 DEF LedgerInv, NumberedInv
  <2>7. \A d \in final' : d.id # NoName \/ d.name = writing'
    BY <1>2, <1>3, <2>2, <2>3
  <2> QED
    BY <2>2, <2>4, <2>5, <2>6, <2>7 DEF NumberedInv
<1> QED
  BY <1>2, <1>4, <1>5 DEF LedgerInv, NumberedInv

LEMMA RewriteLedgerInv ==
  ASSUME Inv, LedgerInv, Rewrite
  PROVE  LedgerInv'
<1>1. PICK d \in final :
        /\ d.name = writing
        /\ IF d.whole
           THEN final' = (final \ {d}) \cup {[d EXCEPT !.whole = FALSE]} /\ writing' = writing
           ELSE /\ final' = (final \ {d}) \cup {[d EXCEPT !.whole = TRUE, !.id = d.name]}
                /\ writing' = NoName
  BY DEF Rewrite
<1> DEFINE d2 == IF d.whole THEN [d EXCEPT !.whole = FALSE]
                 ELSE [d EXCEPT !.whole = TRUE, !.id = d.name]
<1>2. d \in Documents /\ d.name \in Names /\ d.name # NoName
  BY <1>1, NamesFacts DEF Inv, TypeOK, Documents
<1>3. /\ d2.name = d.name /\ (~d.whole => d2.id # NoName) /\ d2.finding = d.finding
      /\ final' = (final \ {d}) \cup {d2}
      /\ writing' = IF d.whole THEN writing ELSE NoName
  BY <1>1, <1>2 DEF Documents
<1>4. drop = {} /\ UNCHANGED <<phase, drop, counter, torn>>
  BY DEF Rewrite, Inv, FinalInv
<1> HIDE DEF d2
<1>5. \A m : (\E e \in final : e.name = m) => (\E g \in final' : g.name = m)
  BY <1>3
<1>6. \A e \in final' : \E g \in final : g.name = e.name
  BY <1>3
<1>7. RepresentedInv'
  BY <1>4 DEF RepresentedInv
<1>8. ~torn => \A e \in final' : e.id # NoName \/ e.name = writing'
  BY <1>1, <1>3 DEF Inv, FinalInv, LedgerInv, NumberedInv
<1>9. NumberedInv'
  <2> SUFFICES ASSUME ~torn PROVE NumberedInv'
    BY <1>4 DEF NumberedInv
  <2>1. ASSUME NEW e \in final', NEW i \in 1 .. e.name[2]
        PROVE  \E g \in final' : g.name = <<e.name[1], i>>
    <3>1. PICK g \in final : g.name = e.name
      BY <1>6
    <3>2. \E h \in final : h.name = <<e.name[1], i>>
      BY <3>1 DEF LedgerInv, NumberedInv
    <3> QED
      BY <1>5, <3>2
  <2>2. phase = "assign" =>
          \A s \in Severities : \A i \in 1 .. counter[s] : \E e \in final' : e.name = <<s, i>>
    BY <1>5 DEF LedgerInv, NumberedInv
  <2> QED
    BY <1>4, <1>8, <2>1, <2>2 DEF NumberedInv
<1> QED
  BY <1>7, <1>9 DEF LedgerInv

LEMMA LedgerInvStep ==
  ASSUME Inv, LedgerInv, [Next]_vars
  PROVE  LedgerInv'
<1>1. CASE SemanticDedupe
  BY <1>1, SemanticDedupeRepresents, NumberedKept DEF SemanticDedupe, LedgerInv
<1>2. CASE ReadFinal
  BY <1>2, ReadFinalLedgerInv
<1>3. CASE Rewrite
  BY <1>3, RewriteLedgerInv
<1>4. ASSUME NEW f \in Findings, MoveToFinal(f)
      PROVE  LedgerInv'
  BY <1>4, MoveToFinalLedgerInv
<1>5. CASE Crash
  <2>1. \A d \in final : d.name # NoName
    BY NamesFacts DEF Inv, TypeOK, Documents
  <2> QED
    BY <1>5, <2>1 DEF Crash, LedgerInv, NumberedInv, RepresentedInv
<1>6. CASE Start \/ Finish
  BY <1>6 DEF Start, Finish, LedgerInv, NumberedInv, RepresentedInv
<1>7. ASSUME NEW f \in Findings, EvaluationMoves(f)
      PROVE  LedgerInv'
  <2>1. UNCHANGED <<final, torn, counter, writing, phase, batch, drop>>
    BY <1>7 DEF EvaluationMoves, Skip, Evaluate, AgentWrites, AgentReturns, AgentFails
  <2> QED
    BY <2>1 DEF LedgerInv, NumberedInv, RepresentedInv
<1>8. ASSUME NEW f \in Findings, Divert(f) \/ Unlink(f)
      PROVE  LedgerInv'
  <2>1. UNCHANGED <<final, torn, counter, writing, phase, batch>> /\ drop' \subseteq drop
    BY <1>8 DEF Divert, Unlink
  <2> QED
    BY <2>1 DEF LedgerInv, NumberedInv, RepresentedInv
<1>9. CASE UNCHANGED vars
  BY <1>9 DEF vars, LedgerInv, NumberedInv, RepresentedInv
<1> QED
  BY <1>1, <1>2, <1>3, <1>4, <1>5, <1>6, <1>7, <1>8, <1>9 DEF Next, EvaluationMoves

THEOREM Stage4LedgerInvariant == Spec => [](Inv /\ LedgerInv)
<1>1. Inv /\ LedgerInv /\ [Next]_vars => (Inv /\ LedgerInv)'
  BY InvStep, LedgerInvStep
<1> QED
  BY InitInv, LedgerInvInit, <1>1, PTL DEF Spec

(***************************************************************************)
(* What the ledger says of a finding: reported under the name of its only  *)
(* document, or else what its marker and its pending file say.             *)
(***************************************************************************)
EntryIs ==
  \A f \in Findings :
    /\ \A d \in final : d.finding = f => Entry(f) = Ledger!Reported(d.name)
    /\ (\A d \in final : d.finding # f) =>
         /\ f \notin markers \/ pending[f] = "invalid" => Entry(f) = Ledger!Open
         /\ f \in markers /\ pending[f] = "valid" => Entry(f) = Ledger!Confirmed
         /\ f \in markers /\ pending[f] = "none" => Entry(f) = Ledger!Closed

LEMMA EntryFacts == Inv => EntryIs
<1> SUFFICES ASSUME Inv, NEW f \in Findings PROVE
    /\ \A d \in final : d.finding = f => Entry(f) = Ledger!Reported(d.name)
    /\ (\A d \in final : d.finding # f) =>
         /\ f \notin markers \/ pending[f] = "invalid" => Entry(f) = Ledger!Open
         /\ f \in markers /\ pending[f] = "valid" => Entry(f) = Ledger!Confirmed
         /\ f \in markers /\ pending[f] = "none" => Entry(f) = Ledger!Closed
  BY DEF EntryIs
<1>1. ASSUME NEW d \in final, d.finding = f PROVE Entry(f) = Ledger!Reported(d.name)
  <2>1. (CHOOSE e \in final : e.finding = f) = d
    BY <1>1 DEF Inv, FinalInv
  <2> QED
    BY <1>1, <2>1 DEF Entry, Ledger!Reported
<1>2. ASSUME \A d \in final : d.finding # f PROVE
         /\ f \notin markers \/ pending[f] = "invalid" => Entry(f) = Ledger!Open
         /\ f \in markers /\ pending[f] = "valid" => Entry(f) = Ledger!Confirmed
         /\ f \in markers /\ pending[f] = "none" => Entry(f) = Ledger!Closed
  BY <1>2 DEF Entry, Ledger!Open, Ledger!Confirmed, Ledger!Closed
<1> QED
  BY <1>1, <1>2

(* A finding whose files say the same as before has the same entry.        *)
SameFiles(f) ==
  /\ \A n : (\E d \in final : d.finding = f /\ d.name = n)
            <=> (\E d \in final' : d.finding = f /\ d.name = n)
  /\ \/ \E d \in final : d.finding = f
     \/ (f \in markers <=> f \in markers') /\ pending[f] = pending'[f]
     \/ /\ f \notin markers \/ pending[f] = "invalid"
        /\ f \notin markers' \/ pending'[f] = "invalid"

LEMMA EntryKept ==
  ASSUME Inv, Inv', NEW f \in Findings, SameFiles(f)
  PROVE  Entry(f)' = Entry(f)
<1>1. EntryIs /\ EntryIs'
  BY EntryFacts, PTL
<1>2. CASE \E d \in final : d.finding = f
  <2>1. PICK d \in final : d.finding = f
    BY <1>2
  <2>2. PICK e \in final' : e.finding = f /\ e.name = d.name
    BY <2>1 DEF SameFiles
  <2> QED
    BY <1>1, <2>1, <2>2 DEF EntryIs, Ledger!Reported
<1>3. CASE \A d \in final : d.finding # f
  <2>1. \A d \in final' : d.finding # f
    BY <1>3 DEF SameFiles
  <2>2. pending[f] \in {"none", "valid", "invalid"} /\ pending'[f] \in {"none", "valid", "invalid"}
    BY DEF Inv, TypeOK
  <2>3. SUFFICES ASSUME \/ (f \in markers <=> f \in markers') /\ pending[f] = pending'[f]
                        \/ /\ f \notin markers \/ pending[f] = "invalid"
                           /\ f \notin markers' \/ pending'[f] = "invalid"
                 PROVE  Entry(f)' = Entry(f)
    BY <1>3 DEF SameFiles
  <2>4. CASE f \notin markers \/ pending[f] = "invalid"
    <3>1. Entry(f) = Ledger!Open
      BY <1>1, <1>3, <2>4 DEF EntryIs
    <3>2. Entry(f)' = Ledger!Open
      BY <1>1, <2>1, <2>3, <2>4 DEF EntryIs, Ledger!Open
    <3> QED
      BY <3>1, <3>2
  <2>5. CASE f \in markers /\ pending[f] = "valid"
    BY <1>1, <1>3, <2>1, <2>3, <2>5 DEF EntryIs, Ledger!Confirmed
  <2>6. CASE f \in markers /\ pending[f] = "none"
    BY <1>1, <1>3, <2>1, <2>3, <2>6 DEF EntryIs, Ledger!Closed
  <2> QED
    BY <2>2, <2>4, <2>5, <2>6
<1> QED
  BY <1>2, <1>3

LedgerStep ==
  \/ \E F \in SUBSET Findings : Ledger!Confirm(F)
  \/ \E f \in Findings : Ledger!Reject(f) \/ Ledger!Merge(f) \/ Ledger!Report(f)
  \/ \A f \in Findings : Entry(f)' = Entry(f)

LEMMA KeptStep ==
  ASSUME Inv, Inv', \A f \in Findings : SameFiles(f)
  PROVE  LedgerStep
  BY EntryKept DEF LedgerStep

(* Recognising what was confirmed: Start, or one agent's return.           *)
LEMMA ConfirmStep ==
  ASSUME Inv, Inv', NEW F \in SUBSET Findings, F # {}, UNCHANGED <<final, pending>>,
         \A f \in F : f \notin markers /\ f \in markers' /\ pending[f] = "valid",
         \A f \in Findings \ F : SameFiles(f)
  PROVE  Ledger!Confirm(F)
<1>1. EntryIs /\ EntryIs'
  BY EntryFacts, PTL
<1>2. ASSUME NEW f \in F PROVE Entry(f) = Ledger!Open /\ Entry(f)' = Ledger!Confirmed
  <2>1. \A d \in final : d.finding # f
    BY DEF Inv, FinalInv
  <2> QED
    BY <1>1, <2>1 DEF EntryIs, Ledger!Open, Ledger!Confirmed
<1>3. \A f \in Findings \ F : Entry(f)' = Entry(f)
  BY EntryKept
<1> QED
  BY <1>2, <1>3 DEF Ledger!Confirm, Ledger!Confirmed, Ledger!Open

LEMMA StartLedger ==
  ASSUME Inv, Inv', Start
  PROVE  LedgerStep
<1> DEFINE F == {f \in Findings : f \notin markers /\ pending[f] = "valid"}
<1>1. UNCHANGED <<final, pending>> /\ markers' = markers \cup {f \in Findings : pending[f] # "none"}
  BY DEF Start
<1>2. \A f \in Findings \ F : SameFiles(f)
  BY <1>1 DEF SameFiles, Inv, TypeOK
<1>3. CASE F = {}
  BY <1>2, <1>3, KeptStep
<1>4. CASE F # {}
  <2>1. F \in SUBSET Findings
    OBVIOUS
  <2>2. \A f \in F : f \notin markers /\ f \in markers' /\ pending[f] = "valid"
    BY <1>1
  <2> HIDE DEF F
  <2>3. Ledger!Confirm(F)
    BY <1>1, <1>2, <1>4, <2>1, <2>2, ConfirmStep
  <2> QED
    BY <2>1, <2>3 DEF LedgerStep
<1> QED
  BY <1>3, <1>4

LEMMA AgentReturnsLedger ==
  ASSUME Inv, Inv', NEW f \in Findings, AgentReturns(f)
  PROVE  LedgerStep
<1>1. f \notin markers /\ final' = final
  BY DEF AgentReturns, Evaluating, Inv, PhaseInv, EvaluatedInv
<1>2. \A d \in final : d.finding # f
  BY <1>1 DEF Inv, FinalInv
<1>3. CASE pending[f] = "invalid"
  <2>1. \A g \in Findings : SameFiles(g)
    BY <1>1, <1>3 DEF AgentReturns, SameFiles, Inv, TypeOK
  <2> QED
    BY <2>1, KeptStep
<1>4. CASE pending[f] # "invalid"
  <2>1. pending' = pending /\ markers' = markers \cup {f}
    BY <1>4 DEF AgentReturns
  <2>2. \A g \in Findings \ {f} : SameFiles(g)
    BY <1>1, <2>1 DEF SameFiles
  <2>3. CASE pending[f] = "valid"
    <3>1. Ledger!Confirm({f})
      BY <1>1, <2>1, <2>2, <2>3, ConfirmStep
    <3> QED
      BY <3>1 DEF LedgerStep
  <2>4. CASE pending[f] = "none"
    <3>1. EntryIs /\ EntryIs'
      BY EntryFacts, PTL
    <3>2. Entry(f) = Ledger!Open
      BY <1>1, <1>2, <3>1 DEF EntryIs, Ledger!Open
    <3>3. Entry(f)' = Ledger!Closed
      BY <1>1, <1>2, <2>1, <2>4, <3>1 DEF EntryIs, Ledger!Closed
    <3>4. \A g \in Findings \ {f} : Entry(g)' = Entry(g)
      BY <2>2, EntryKept
    <3>5. Ledger!Reject(f)
      BY <3>2, <3>3, <3>4 DEF Ledger!Reject, Ledger!Open, Ledger!Closed
    <3> QED
      BY <3>5 DEF LedgerStep
  <2> QED
    BY <1>4, <2>3, <2>4 DEF Inv, TypeOK
<1> QED
  BY <1>3, <1>4

(* A duplicate is put away while something else stands for it.             *)
LEMMA MergeLedger ==
  ASSUME Inv, RepresentedInv, Inv', NEW f \in Findings, Divert(f) \/ Unlink(f)
  PROVE  LedgerStep
<1>1. /\ f \in drop /\ phase \in {"divert", "assign"} /\ UNCHANGED <<final, markers>>
      /\ pending' = [pending EXCEPT ![f] = "none"]
  BY DEF Divert, Unlink
<1>2. pending[f] = "valid" /\ f \in markers
  BY <1>1 DEF Inv, BatchIsValid
<1>3. \A d \in final : d.finding # f
  BY <1>2 DEF Inv, FinalInv
<1>4. EntryIs /\ EntryIs'
  BY EntryFacts, PTL
<1>5. Entry(f) = Ledger!Confirmed
  BY <1>2, <1>3, <1>4 DEF EntryIs, Ledger!Confirmed
<1>6. Entry(f)' = Ledger!Closed
  <2>1. pending'[f] = "none"
    BY <1>1 DEF Inv, TypeOK
  <2> QED
    BY <1>1, <1>2, <1>3, <1>4, <2>1 DEF EntryIs, Ledger!Closed
<1>7. \A g \in Findings \ {f} : Entry(g)' = Entry(g)
  <2>1. \A g \in Findings \ {f} : SameFiles(g)
    BY <1>1 DEF SameFiles, Inv, TypeOK
  <2> QED
    BY <2>1, EntryKept
<1>8. Inventory # {} \/ \E g \in Findings \ {f} : Entry(g).state \in {"confirmed", "reported"}
  <2>1. CASE phase = "divert" /\ Inventory = {}
    <3>1. PICK g \in batch : g # f
      BY <1>1, <2>1 DEF RepresentedInv, Inv, PhaseInv
    <3>2. g \in Findings /\ pending[g] = "valid" /\ g \in markers
      BY DEF Inv, TypeOK, BatchIsValid
    <3>3. \A d \in final : d.finding # g
      BY <3>2 DEF Inv, FinalInv
    <3>4. Entry(g) = Ledger!Confirmed
      BY <1>4, <3>2, <3>3 DEF EntryIs, Ledger!Confirmed
    <3>5. Entry(g).state = "confirmed"
      BY <3>4 DEF Ledger!Confirmed
    <3> QED
      BY <3>1, <3>2, <3>5
  <2>2. CASE phase = "assign"
    <3>1. PICK d \in final : d.finding # f
      BY <1>1, <2>2 DEF RepresentedInv
    <3>2. d.finding \in Findings
      BY DEF Inv, TypeOK, Documents
    <3>3. Entry(d.finding) = Ledger!Reported(d.name)
      BY <1>4, <3>2 DEF EntryIs, Ledger!Reported
    <3>4. Entry(d.finding).state = "reported"
      BY <3>3 DEF Ledger!Reported
    <3> QED
      BY <3>1, <3>2, <3>4
  <2> QED
    BY <1>1, <2>1, <2>2
<1>9. Ledger!Merge(f)
  BY <1>5, <1>6, <1>7, <1>8 DEF Ledger!Merge, Ledger!Confirmed, Ledger!Closed
<1> QED
  BY <1>9 DEF LedgerStep

(* Every number below the next one is that of another reported finding.    *)
LEMMA NumberWithinReported ==
  ASSUME Inv, NumberedInv, ~torn, phase = "assign", NEW s \in Severities
  PROVE  counter[s] + 1 \in 1 .. 1 + Cardinality({g \in Findings : Entry(g).state = "reported"})
<1> DEFINE R == {g \in Findings : Entry(g).state = "reported"}
           holder == [i \in 1 .. counter[s] |-> (CHOOSE d \in final : d.name = <<s, i>>).finding]
<1>1. counter[s] \in Nat
  BY DEF Inv, TypeOK
<1>2. \A i \in 1 .. counter[s] : \E d \in final : d.name = <<s, i>> /\ holder[i] = d.finding
  BY DEF NumberedInv
<1>3. EntryIs
  BY EntryFacts
<1>4. \A d \in final : d.finding \in R
  <2> SUFFICES ASSUME NEW d \in final PROVE d.finding \in R
    OBVIOUS
  <2>1. d.finding \in Findings
    BY DEF Inv, TypeOK, Documents
  <2>2. Entry(d.finding) = Ledger!Reported(d.name)
    BY <1>3, <2>1 DEF EntryIs, Ledger!Reported
  <2>3. Entry(d.finding).state = "reported"
    BY <2>2 DEF Ledger!Reported
  <2> QED
    BY <2>1, <2>3
<1>5. IsFiniteSet(R)
  BY Stage4Assumption, FS_Subset
<1> HIDE DEF R
<1>6. \A i \in 1 .. counter[s] : holder[i] \in R
  BY <1>2, <1>4
<1>7. \A i, j \in 1 .. counter[s] : holder[i] = holder[j] => i = j
  <2> SUFFICES ASSUME NEW i \in 1 .. counter[s], NEW j \in 1 .. counter[s], holder[i] = holder[j]
               PROVE  i = j
    OBVIOUS
  <2>1. PICK d \in final : d.name = <<s, i>> /\ holder[i] = d.finding
    BY <1>2
  <2>2. PICK e \in final : e.name = <<s, j>> /\ holder[j] = e.finding
    BY <1>2
  <2> HIDE DEF holder
  <2>3. d = e
    BY <2>1, <2>2 DEF Inv, FinalInv
  <2> QED
    BY <2>1, <2>2, <2>3
<1>8. holder \in Injection(1 .. counter[s], R)
  <2>1. holder \in [1 .. counter[s] -> R]
    BY <1>6
  <2> HIDE DEF holder
  <2> QED
    BY <1>7, <2>1 DEF Injection, IsInjective
<1> HIDE DEF holder
<1>9. Cardinality(1 .. counter[s]) <= Cardinality(R) /\ Cardinality(R) \in Nat
  BY <1>5, <1>8, FS_Injection, FS_CardinalityType
<1>10. Cardinality(1 .. counter[s]) = counter[s]
  BY <1>1, FS_Interval
<1>11. counter[s] + 1 \in 1 .. 1 + Cardinality(R)
  BY <1>1, <1>9, <1>10
<1> QED
  BY <1>11 DEF R

LEMMA ReportLedger ==
  ASSUME Inv, NumberedInv, ~torn, Inv', NEW f \in Findings, MoveToFinal(f)
  PROVE  LedgerStep
<1> DEFINE number == counter[SeverityOf[f]] + 1
           n == <<SeverityOf[f], number>>
           new == [name |-> n, finding |-> f, id |-> NoName, whole |-> TRUE]
<1>1. \A d \in final : d.name # n
  BY NextNameFree
<1>2. /\ final' = final \cup {new} /\ markers' = markers /\ phase = "assign" /\ f \in batch
      /\ pending' = [pending EXCEPT ![f] = "none"]
  BY <1>1 DEF MoveToFinal
<1>3. new \in final' /\ new.name = n /\ new.finding = f
  BY <1>2
<1>4. pending[f] = "valid" /\ f \in markers
  BY <1>2 DEF Inv, BatchIsValid
<1>5. \A d \in final : d.finding # f
  BY <1>4 DEF Inv, FinalInv
<1>6. EntryIs /\ EntryIs'
  BY EntryFacts, PTL
<1>7. SeverityOf[f] \in Severities
  BY Stage4Assumption
<1>8. number \in 1 .. 1 + Cardinality({g \in Findings : Entry(g).state = "reported"})
  BY <1>2, <1>7, NumberWithinReported
<1>9. n \in Names
  BY <1>7 DEF Names, Inv, TypeOK
<1> HIDE DEF number, new
<1>10. \A g \in Findings \ {f} : SameFiles(g)
  BY <1>2, <1>3 DEF SameFiles, Inv, TypeOK
<1>11. \A g \in Findings \ {f} : Entry(g)' = Entry(g)
  BY <1>10, EntryKept
<1>12. Entry(f) = Ledger!Confirmed
  BY <1>4, <1>5, <1>6 DEF EntryIs, Ledger!Confirmed
<1>13. Entry(f)' = Ledger!Reported(n)
  BY <1>3, <1>6 DEF EntryIs, Ledger!Reported
<1>14. \A g \in Findings : Entry(g).name # n
  <2> SUFFICES ASSUME NEW g \in Findings PROVE Entry(g).name # n
    OBVIOUS
  <2>1. CASE \E d \in final : d.finding = g
    <3>1. PICK d \in final : d.finding = g
      BY <2>1
    <3>2. Entry(g) = Ledger!Reported(d.name)
      BY <1>6, <3>1 DEF EntryIs
    <3> HIDE DEF n
    <3> QED
      BY <1>1, <3>2 DEF Ledger!Reported
  <2>2. CASE \A d \in final : d.finding # g
    <3>1. Entry(g).name = NoName
      BY <2>2 DEF Entry
    <3> QED
      BY <1>9, <3>1, NamesFacts
  <2> QED
    BY <2>1, <2>2
<1>15. Ledger!Report(f)
  <2> DEFINE L == [g \in Findings |-> Entry(g)]
  <2>1. L[f] = Ledger!Confirmed
    BY <1>12
  <2>2. L' = [L EXCEPT ![f] = Ledger!Reported(n)]
    BY <1>11, <1>13
  <2>3. \A g \in Findings : L[g].name # n
    BY <1>14
  <2>4. number \in 1 .. 1 + Cardinality({g \in Findings : L[g].state = "reported"})
    <3>1. {g \in Findings : L[g].state = "reported"}
            = {g \in Findings : Entry(g).state = "reported"}
      OBVIOUS
    <3> QED
      BY <1>8, <3>1
  <2>5. \A S : Ledger!Cardinality(S) = Cardinality(S)
    BY DEF Cardinality, Ledger!Cardinality
  <2> QED
    BY <2>1, <2>2, <2>3, <2>4, <2>5 DEF Ledger!Report, Ledger!Reported, Ledger!Confirmed
<1> QED
  BY <1>15 DEF LedgerStep

LEMMA LedgerSteps ==
  ASSUME Inv, LedgerInv, Inv', [Next]_vars
  PROVE  torn' \/ LedgerStep
<1>1. CASE Start
  BY <1>1, StartLedger
<1>2. CASE SemanticDedupe \/ ReadFinal \/ Finish \/ Crash
  <2>1. UNCHANGED <<final, markers, pending>>
    BY <1>2 DEF SemanticDedupe, ReadFinal, Finish, Crash
  <2> QED
    BY <2>1, KeptStep DEF SameFiles
<1>3. CASE Rewrite
  <2>1. PICK d \in final : \E d2 :
          /\ d2.name = d.name /\ d2.finding = d.finding
          /\ final' = (final \ {d}) \cup {d2}
    <3>1. PICK d \in final : 
            IF d.whole THEN final' = (final \ {d}) \cup {[d EXCEPT !.whole = FALSE]}
            ELSE final' = (final \ {d}) \cup {[d EXCEPT !.whole = TRUE, !.id = d.name]}
      BY <1>3 DEF Rewrite
    <3>2. d \in Documents
      BY DEF Inv, TypeOK
    <3>3. /\ [d EXCEPT !.whole = FALSE].name = d.name
          /\ [d EXCEPT !.whole = FALSE].finding = d.finding
          /\ [d EXCEPT !.whole = TRUE, !.id = d.name].name = d.name
          /\ [d EXCEPT !.whole = TRUE, !.id = d.name].finding = d.finding
      BY <3>2 DEF Documents
    <3> QED
      BY <3>1, <3>3
  <2>2. UNCHANGED <<markers, pending>>
    BY <1>3 DEF Rewrite
  <2>3. \A f \in Findings : SameFiles(f)
    BY <2>1, <2>2 DEF SameFiles
  <2> QED
    BY <2>3, KeptStep
<1>4. ASSUME NEW f \in Findings, Skip(f) \/ AgentFails(f)
      PROVE  LedgerStep
  <2>1. UNCHANGED <<final, markers, pending>>
    BY <1>4 DEF Skip, AgentFails
  <2> QED
    BY <2>1, KeptStep DEF SameFiles
<1>5. ASSUME NEW f \in Findings, Evaluate(f) \/ AgentWrites(f)
      PROVE  LedgerStep
  <2>1. /\ final' = final /\ (f \notin markers \/ pending[f] = "invalid") /\ f \notin markers'
        /\ markers \ {f} = markers' \ {f} /\ \A g \in Findings \ {f} : pending'[g] = pending[g]
    BY <1>5 DEF Evaluate, AgentWrites, Evaluating, Inv, TypeOK, PhaseInv, EvaluatedInv
  <2>2. \A g \in Findings : SameFiles(g)
    BY <2>1 DEF SameFiles
  <2> QED
    BY <2>2, KeptStep
<1>6. ASSUME NEW f \in Findings, AgentReturns(f)
      PROVE  LedgerStep
  BY <1>6, AgentReturnsLedger
<1>7. ASSUME NEW f \in Findings, Divert(f) \/ Unlink(f)
      PROVE  LedgerStep
  BY <1>7, MergeLedger DEF LedgerInv
<1>8. ASSUME NEW f \in Findings, MoveToFinal(f)
      PROVE  torn' \/ LedgerStep
  <2>1. torn' = torn /\ torn \in BOOLEAN
    BY <1>8 DEF MoveToFinal, Inv, PhaseInv
  <2> QED
    BY <1>8, <2>1, ReportLedger DEF LedgerInv
<1>9. CASE UNCHANGED vars
  <2>1. UNCHANGED <<final, markers, pending>>
    BY <1>9 DEF vars
  <2> QED
    BY <2>1, KeptStep DEF SameFiles
<1> QED
  BY <1>1, <1>2, <1>3, <1>4, <1>5, <1>6, <1>7, <1>8, <1>9 DEF Next, EvaluationMoves

(***************************************************************************)
(* Stage 4 implements FindingLedger until it is cut short between the move *)
(* of a document and the end of its rewrite: nothing confirmed is lost,    *)
(* nothing reported is lost, renamed or reported again, and a number is    *)
(* not skipped.                                                            *)
(***************************************************************************)
THEOREM Stage4KeepsLedger == Spec => KeepsLedger
<1>1. Init => Ledger!Init
  <2> SUFFICES ASSUME Init PROVE Ledger!Init
    OBVIOUS
  <2>1. EntryIs
    BY InitInv, EntryFacts
  <2>2. \A f \in Findings : Entry(f) = Ledger!Open
    BY <2>1 DEF EntryIs, Init, Ledger!Open
  <2> QED
    BY <2>2 DEF Ledger!Init
<1>2. Inv /\ LedgerInv /\ Inv' /\ [Next]_vars =>
        [torn' \/ Ledger!Next]_[f \in Findings |-> Entry(f)]
  <2> SUFFICES ASSUME Inv, LedgerInv, Inv', [Next]_vars
               PROVE  [torn' \/ Ledger!Next]_[f \in Findings |-> Entry(f)]
    OBVIOUS
  <2>1. torn' \/ LedgerStep
    BY LedgerSteps
  <2>2. (\A f \in Findings : Entry(f)' = Entry(f)) => UNCHANGED [f \in Findings |-> Entry(f)]
    OBVIOUS
  <2>3. LedgerStep => Ledger!Next \/ UNCHANGED [f \in Findings |-> Entry(f)]
    BY <2>2 DEF LedgerStep, Ledger!Next
  <2> QED
    BY <2>1, <2>3
<1> QED
  BY <1>1, <1>2, Stage4LedgerInvariant, PTL DEF Spec, KeepsLedger
=============================================================================
