--------------------------- MODULE MCPlatformStore ---------------------------
(* Instances of PlatformStore for TLC.                                     *)
EXTENDS PlatformStore

CONSTANTS f1, f2

MCFact     == {f1, f2}
MCVolatile == {f2}

\* Every call and every read may fail, the rename that rolls a failed write back
\* included.
MCAllFallible == Calls \cup {"read", "crash", "damage"}
\* That rename works and no file is damaged: the store is an atomic register.
MCIntact == (Calls \ {"rollback"}) \cup {"read", "crash"}
=============================================================================
