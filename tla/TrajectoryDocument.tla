------------------------ MODULE TrajectoryDocument ------------------------
(***************************************************************************)
(* The record of one agent task (trajectory.py): a recorder turns the      *)
(* messages of the agent into steps and writes them to the document of the *)
(* task when the invocation ends.  A repair or a resumed audit invokes the *)
(* task again and continues the document; within one invocation the agent  *)
(* is called again when a call fails, with the same recorder.  The written *)
(* document must be valid ATIF and say what the provider charged.          *)
(***************************************************************************)
EXTENDS Integers, Sequences

CONSTANTS
    Calls,      \* identifiers of tool calls
    MaxSteps,   \* bound: steps of a document
    MaxTokens,  \* bound: tokens one call of the agent uses
    MaxCharged  \* bound: tokens charged for a document

\* What an instance must satisfy.
DocumentAssumption == MaxSteps \in Nat /\ MaxTokens \in Nat \ {0} /\ MaxCharged \in Nat

VARIABLES
    file,       \* the document on disk: its steps and what they account for
    doc,        \* the document in the recorder
    backend,    \* agent of the running invocation, or "none"
    last,       \* _last_agent_step
    message,    \* _last_codex_message_step
    pending,    \* _pending: step in which a call awaits its result, or 0
    seen,       \* _codex_usage_total
    owed,       \* _pending_codex_usage: tokens not yet put down, -1 for none
    text,       \* _codex_text, _codex_reasoning: something was said
    counter,    \* what the provider has charged for the running call
    answered    \* the running call has produced an agent step

codex == <<message, seen, owed, text>>
vars == <<file, doc, backend, last, codex, pending, counter, answered>>

\* A step: who speaks, the calls it declares, the results of calls it holds, results
\* of calls nobody declared, and the tokens it reports, -1 for none.  "tool" is a step
\* of the agent with llm_call_count = 0.
Step(source, calls) ==
    [source |-> source, calls |-> calls, results |-> {}, orphans |-> 0, metrics |-> -1]
\* A document and, as history, the tokens reported for it; early: usage came in a call
\* that had produced no step; late: usage was lost to what was put down before.
NoDocument == [steps |-> <<>>, reported |-> 0, early |-> FALSE, late |-> FALSE]

\* validate_trajectory, as far as the order of events decides it.
Valid(steps) ==
    /\ steps # <<>>
    /\ \A i \in DOMAIN steps :
          /\ steps[i].metrics # -1 => steps[i].source = "agent"
          /\ steps[i].calls # {} => steps[i].source \in {"agent", "tool"}
          /\ steps[i].results \subseteq steps[i].calls
\* finish: the totals are those of the steps.
Charge(step) == IF step.metrics = -1 THEN 0 ELSE step.metrics
Total(steps) ==
    LET upTo[i \in 0..Len(steps)] == IF i = 0 THEN 0 ELSE upTo[i - 1] + Charge(steps[i])
    IN  upTo[Len(steps)]

Init ==
    /\ file = NoDocument /\ doc = NoDocument /\ backend = "none"
    /\ last = 0 /\ message = 0 /\ pending = [c \in Calls |-> 0]
    /\ seen = 0 /\ owed = -1 /\ text = FALSE /\ counter = 0
    /\ answered = FALSE

-----------------------------------------------------------------------------
(* The recorder *)

Room == Len(doc.steps) < MaxSteps
Appended(d, step) == [d EXCEPT !.steps = Append(@, step)]
Declared == UNION {doc.steps[i].calls : i \in DOMAIN doc.steps}

\* load: an agent step anywhere makes the last step count as the agent's.
Resumed(steps) == IF \E i \in DOMAIN steps : steps[i].source \in {"agent", "tool"}
                  THEN Len(steps) ELSE 0

\* record_step_metrics: at the step, else at the last of the agent; numbers replace
\* those the step has.
Metered(d, i, tokens) ==
    LET live(j) == j # 0 /\ d.steps[j].source # "tool"
        target == IF live(i) THEN i ELSE IF live(last) THEN last ELSE 0
    IN  IF target = 0 THEN d ELSE [d EXCEPT !.steps[target].metrics = tokens]

\* tool_result: to the step that declared the call, or in a step of its own.
WithResult(d, c, at) ==
    IF at # 0 THEN [d EXCEPT !.steps[at].results = @ \cup {c}]
    ELSE Appended(d, [Step("tool", {}) EXCEPT !.orphans = 1])

\* run_agent: the document is continued if there is one, and the prompt recorded.
Open ==
    /\ backend = "none" /\ Len(file.steps) < MaxSteps
    /\ backend' \in {"claude", "codex"}
    /\ doc' = Appended(file, Step("user", {})) /\ last' = Resumed(file.steps)
    /\ pending' = [c \in Calls |-> 0]
    /\ message' = 0 /\ seen' = 0 /\ owed' = -1 /\ text' = FALSE
    /\ counter' = 0 /\ answered' = FALSE
    /\ UNCHANGED file

\* _run_with_retries: the call failed and is made again.
Retry ==
    /\ backend # "none" /\ counter' = 0 /\ answered' = FALSE
    /\ UNCHANGED <<file, doc, backend, last, codex, pending>>

\* _flush_trajectory, write: an invalid document is put aside; tokens still owed are
\* in neither.
Close ==
    /\ backend # "none"
    /\ file' = IF Valid(doc.steps) THEN [doc EXCEPT !.late = @ \/ owed > 0] ELSE file
    /\ backend' = "none"
    /\ doc' = NoDocument /\ last' = 0 /\ pending' = [c \in Calls |-> 0]
    /\ message' = 0 /\ seen' = 0 /\ owed' = -1 /\ text' = FALSE
    /\ counter' = 0 /\ answered' = FALSE

-----------------------------------------------------------------------------
(* on_claude_message *)

\* An assistant message, which may call tools.
ClaudeAnswers ==
    /\ backend = "claude" /\ Room
    /\ \E calls \in SUBSET (Calls \ Declared) :
          /\ doc' = Appended(doc, Step("agent", calls))
          /\ last' = Len(doc.steps) + 1
          /\ pending' = [c \in Calls |-> IF c \in calls THEN Len(doc.steps) + 1 ELSE pending[c]]
    /\ answered' = TRUE
    /\ UNCHANGED <<file, backend, codex, counter>>
\* A tool result; the call may be of an earlier invocation.
ToolReturns(c) ==
    /\ backend = "claude" /\ c \in Declared
    /\ pending[c] # 0 \/ Room
    /\ \A i \in DOMAIN doc.steps : c \notin doc.steps[i].results
    /\ doc' = WithResult(doc, c, pending[c])
    /\ pending' = [pending EXCEPT ![c] = 0]
    /\ UNCHANGED <<file, backend, last, codex, counter, answered>>
SystemMessage ==
    /\ backend = "claude" /\ Room
    /\ doc' = Appended(doc, Step("system", {}))
    /\ UNCHANGED <<file, backend, last, codex, pending, counter, answered>>
\* The one ResultMessage of a call (after which counter is not 0); a rejected request
\* reports no tokens.
ClaudeResult ==
    /\ backend = "claude" /\ counter = 0
    /\ \E tokens \in 0..MaxTokens :
          /\ ~answered => tokens = 0
          /\ doc.reported + tokens <= MaxCharged
          /\ doc' = [Metered(doc, last, tokens) EXCEPT !.reported = @ + tokens,
                                                       !.early = @ \/ ~answered]
          /\ counter' = MaxTokens
    /\ UNCHANGED <<file, backend, last, codex, pending, answered>>

-----------------------------------------------------------------------------
(* on_codex_event *)

\* Faulty variant of Delta: every update is taken for a fresh charge.
DeltaCumulative(current) == current
\* Faulty variant of Delta: a counter that starts again is not recognised.
DeltaUnclamped(current) == current - seen
\* _usage_delta: the provider counts from 0 again in a new thread.
Delta(current) == IF current >= seen THEN current - seen ELSE current
Owed == IF owed = -1 THEN 0 ELSE owed
\* The running call reports what it has used so far; an update may repeat the last one.
Reported ==
    /\ counter' \in counter..MaxTokens /\ doc.reported + counter' - counter <= MaxCharged
    /\ seen' = counter'
\* History: the figures of an earlier turn are replaced, or the first count of a call
\* made again has already reached that of the call before.
Told(current) ==
    [doc EXCEPT !.reported = @ + (current - counter),
                !.late = @ \/ message # 0 \/ (counter < seen /\ seen <= current)]
\* _record_codex_usage_delta: what is new is added to what is owed, which goes to the
\* last message, if there is one.
Due(current) == Owed + Delta(current)
Charged(current) ==
    IF message = 0 THEN Told(current) ELSE Metered(Told(current), message, Due(current))
Kept(current) == IF message = 0 THEN Due(current) ELSE -1
CodexUsage ==
    /\ backend = "codex" /\ Reported
    /\ doc' = Charged(counter') /\ owed' = Kept(counter')
    /\ UNCHANGED <<file, backend, last, message, text, pending, answered>>
\* A message or reasoning is collected until the turn ends.
CodexSpeaks ==
    /\ backend = "codex" /\ ~text /\ text' = TRUE
    /\ UNCHANGED <<file, doc, backend, last, message, seen, owed, pending, counter, answered>>
\* A completed tool item brings its result.
CodexTool(c) ==
    /\ backend = "codex" /\ Room /\ c \notin Declared
    /\ doc' = WithResult(Appended(doc, Step("tool", {c})), c, Len(doc.steps) + 1)
    /\ last' = Len(doc.steps) + 1
    /\ UNCHANGED <<file, backend, codex, pending, counter, answered>>
\* _flush_codex_message: a step for what was said and is owed, if anything is; the turn
\* may bring a usage report of its own.
Flush(d, tokens) ==
    IF ~text /\ tokens = -1 THEN doc' = d /\ owed' = tokens /\ UNCHANGED <<last, message, text>>
    ELSE LET i == Len(d.steps) + 1
         IN  /\ doc' = [Appended(d, Step("agent", {})) EXCEPT !.steps[i].metrics = tokens]
             /\ last' = i /\ message' = i /\ owed' = -1 /\ text' = FALSE
TurnCompleted ==
    /\ backend = "codex" /\ Room
    /\ \/ Flush(doc, owed) /\ UNCHANGED <<seen, counter>>
       \/ Reported /\ Flush(Charged(counter'), Kept(counter'))
    /\ UNCHANGED <<file, backend, pending, answered>>

Next ==
    \/ Open \/ Retry \/ Close
    \/ ClaudeAnswers \/ SystemMessage \/ ClaudeResult
    \/ CodexUsage \/ CodexSpeaks \/ TurnCompleted
    \/ \E c \in Calls : ToolReturns(c) \/ CodexTool(c)

Spec == Init /\ [][Next]_vars

-----------------------------------------------------------------------------
(* Properties *)

Documents == [steps : Seq([source : {"user", "system", "agent", "tool"}, calls : SUBSET Calls,
                           results : SUBSET Calls, orphans : {0, 1}, metrics : Nat \cup {-1}]),
              reported : Nat, early : BOOLEAN, late : BOOLEAN]
TypeOK ==
    /\ file \in Documents /\ doc \in Documents
    /\ backend \in {"none", "claude", "codex"}
    /\ last \in 0..Len(doc.steps) /\ message \in 0..Len(doc.steps)
    /\ pending \in [Calls -> 0..Len(doc.steps)]
    /\ seen \in 0..MaxTokens /\ owed \in Nat \cup {-1} /\ counter \in 0..MaxTokens
    /\ text \in BOOLEAN /\ answered \in BOOLEAN

\* Whatever the agent sends in whatever order, over retries and continued documents:
\* the record is valid ATIF, never says that more was charged than the provider
\* reported, and says exactly that.  The exceptions are the code's.  A usage report in a
\* call that produced no step (a rejected request) overwrites the figures of an earlier
\* step, or lands on a step that may not have any.  Three lose tokens: a report of Codex
\* after the first turn of an invocation replaces the figures of that turn; when a call
\* is made again, a first count that has reached the kept total of the call before is
\* taken for its continuation, and only the difference is put down; and what is still
\* owed when the invocation ends is dropped.
RecordIsFaithful ==
    /\ ~doc.early /\ backend # "none" => Valid(doc.steps)
    /\ Total(doc.steps) + Owed <= doc.reported
    /\ ~doc.early /\ ~doc.late => Total(doc.steps) + Owed = doc.reported
=============================================================================
