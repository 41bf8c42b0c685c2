--------------------------- MODULE FindingLedger ---------------------------
(***************************************************************************)
(* What Stage 4 promises about the candidate findings it is given: each is *)
(* evaluated, a confirmed one is either reported under an identifier of    *)
(* its own or merged into another finding that stays, and a reported one   *)
(* is never lost, renamed or reported again.  Nothing is said of how often *)
(* the audit is interrupted.                                               *)
(***************************************************************************)
EXTENDS Naturals, FiniteSets

CONSTANTS
    Findings,       \* candidate findings of Stage 3
    SeverityOf,     \* the severity the evaluation gives a finding
    HasInventory,   \* are there Disclosures of earlier audits to merge into?
    NoName

VARIABLE ledger

Severities == {"Critical", "High", "Medium", "Low"}
Names == Severities \X (Nat \ {0})

Open == [state |-> "open", name |-> NoName]
Confirmed == [state |-> "confirmed", name |-> NoName]
Closed == [state |-> "closed", name |-> NoName]
Reported(n) == [state |-> "reported", name |-> n]

LedgerType ==
    ledger \in [Findings -> {Open, Confirmed, Closed} \cup {Reported(n) : n \in Names}]

Init == ledger = [f \in Findings |-> Open]

\* Several at once: a resumed audit recognises what it had confirmed before.
Confirm(F) ==
    /\ F # {} /\ \A f \in F : ledger[f] = Open
    /\ ledger' = [f \in Findings |-> IF f \in F THEN Confirmed ELSE ledger[f]]

Reject(f) ==
    /\ ledger[f] = Open
    /\ ledger' = [ledger EXCEPT ![f] = Closed]

\* Some other finding, or a known Disclosure, stands for a merged one.
Merge(f) ==
    /\ ledger[f] = Confirmed
    /\ HasInventory \/ \E g \in Findings \ {f} : ledger[g].state \in {"confirmed", "reported"}
    /\ ledger' = [ledger EXCEPT ![f] = Closed]

Report(f) ==
    /\ ledger[f] = Confirmed
    /\ \E number \in 1 .. 1 + Cardinality({g \in Findings : ledger[g].state = "reported"}) :
          LET n == <<SeverityOf[f], number>>
          IN  /\ \A g \in Findings : ledger[g].name # n
              /\ ledger' = [ledger EXCEPT ![f] = Reported(n)]

Next ==
    \/ \E F \in SUBSET Findings : Confirm(F)
    \/ \E f \in Findings : Reject(f) \/ Merge(f) \/ Report(f)

Spec == Init /\ [][Next]_ledger
=============================================================================
