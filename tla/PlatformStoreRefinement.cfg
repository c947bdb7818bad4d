SPECIFICATION Spec
CONSTANTS
    f1 = f1
    f2 = f2
    None = None
    Missing = Missing
    Corrupt = Corrupt
    MaxFaults = 3
    Fact <- MCFact
    Volatile <- MCVolatile
    Fallible <- MCIntact
INVARIANTS
    Durability
    NeverForgotten
PROPERTY
    ImplementsAtomicStore
