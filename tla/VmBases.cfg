SPECIFICATION BasesSpec
CONSTANTS
    Machine <- MCMachine
    MaxEdits <- MCMaxEdits
    MaxStops <- MCMaxStops
INVARIANT InstallersKept
CHECK_DEADLOCK FALSE
