SPECIFICATION FairSpec
CONSTANTS
    a = a
    b = b
    c = c
    Findings = {a, b, c}
    SeverityOf <- HighCriticalHigh
    KeyOf <- SharedKey
    Position <- InOrder
    Inventory = {}
    MaxParallel = 2
    MaxCrashes = 2
    NoName = NoName
INVARIANTS TypeOK FinalKeysUnique ConfirmedAreFinal BatchIsValid
PROPERTIES IdentityStable KeepsLedger ConfirmedIsSettled
