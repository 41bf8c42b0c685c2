SPECIFICATION Spec
CONSTANTS
    a = a
    b = b
    c = c
    Findings = {a, b, c}
    SeverityOf <- AllHigh
    KeyOf <- OwnKeys
    Position <- InOrder
    Inventory = {}
    MaxParallel = 2
    MaxCrashes = 1
    NoName = NoName
PROPERTY FinalFileNotReplaced
