CONSTANTS
    N = 3
    Total <- MCTotal
    CudaPool <- MCCudaPool
    Policies <- MCPolicies
    Fleets <- MCFleets
    Loads = {"low", "high"}
    MaxCommands = 3
    MaxFaults = 1
SPECIFICATION Spec
INVARIANTS TypeOK WithinBudget WithinPolicy NoInversion CacheTruthful RollbackRestores
PROPERTIES LimitsFollow
CHECK_DEADLOCK FALSE
