SPECIFICATION Spec
INVARIANTS
    BackupsHold
    AgentLocks
    ImportsWhole
    StreamsWhole
    ImagesKept
PROPERTIES
    NetworkKept
    ApplianceKept
    EnginesApart
    StartupKeeps
CHECK_DEADLOCK FALSE
