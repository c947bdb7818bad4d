SPECIFICATION Spec
CONSTANTS
    s1 = s1
    s2 = s2
    Snap <- OneSnap
    Vm = TRUE
    Fallible <- SaveFaults
    MaxGen = 3
    MaxFaults = 1
PROPERTIES
    NotResetTwice
