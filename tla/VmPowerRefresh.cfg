CONSTANTS
    p1 = p1
    p2 = p2
    Poller = {p1}
    Fallible = {}
SPECIFICATION Spec
PROPERTIES CleanExitIsShutdown
