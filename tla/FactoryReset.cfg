SPECIFICATION Spec
CONSTANTS
    s1 = s1
    s2 = s2
    Snap <- TwoSnaps
    Vm = TRUE
    Fallible <- AllFaults
    MaxGen = 4
    MaxFaults = 3
INVARIANTS
    NothingLeaks
    RunsOnActive
    NoSpinner
PROPERTIES
    ActiveKept
    SpinnerEnds
