------------------------------ MODULE MCStage4 ------------------------------
(* Small instances of Stage4: three candidates, two severities. *)
EXTENDS Stage4, TLC

CONSTANTS a, b, c

InOrder == a :> 1 @@ b :> 2 @@ c :> 3
HighCriticalHigh == a :> "High" @@ b :> "Critical" @@ c :> "High"
AllHigh == a :> "High" @@ b :> "High" @@ c :> "High"
\* a and b are the same vulnerability, c is another one.
SharedKey == a :> "k1" @@ b :> "k1" @@ c :> "k2"
OwnKeys == a :> "k1" @@ b :> "k2" @@ c :> "k3"
=============================================================================
