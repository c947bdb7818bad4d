SPECIFICATION Spec
CONSTANTS
    i1 = i1
    i2 = i2
    i3 = i3
    NoFile = NoFile
    Partial = Partial
    Secured = TRUE
    MaxFaults = 4
    Image <- MCImage
    Fallible <- MCEverything
INVARIANTS
    RecoveryRestores
    RunsOnItsDisk
    NeverRunsPending
PROPERTIES
    OldDiskKept
    StartupResolves
