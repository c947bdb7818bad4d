CONSTANTS
    p1 = p1
    p2 = p2
    Poller = {p1, p2}
    Fallible = {"start", "action", "export", "store", "crash"}
SPECIFICATION Spec
INVARIANTS OneHolder StopConfirmed PauseHonest ExportQuiet
PROPERTIES DeadNoticed
