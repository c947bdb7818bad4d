---------------------------- MODULE MCVmRestore ----------------------------
(* Instances of VmRestore for TLC.                                         *)
EXTENDS VmRestore

CONSTANTS i1, i2, i3

MCImage == {i1, i2, i3}
\* Every call may fail, the hostile ones included.
MCEverything == Tolerated \cup Hostile
\* One hostile failure suffices: the old disk cannot be put back at once.
MCReactivate == Tolerated \cup {"reactivate"}
=============================================================================
