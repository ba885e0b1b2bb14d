SPECIFICATION StoreFairSpec
CONSTANTS
    Values = {v0, v1, v2}
    InitValue = v0
    MaxGen = 4
    NoValue = NoValue
    Missing = Missing
    TornSlot = TornSlot
INVARIANTS AckedIsDurable
PROPERTIES ImplementsRegister ComesBack
CHECK_DEADLOCK FALSE
