---------------------------- MODULE MCFactoryReset ----------------------------
(***************************************************************************)
(* FactoryReset on small instances: one or two snapshots, up to four       *)
(* generations (a creation and three resets) and a few faults.             *)
(***************************************************************************)
EXTENDS FactoryReset

CONSTANTS s1, s2

OneSnap  == {s1}
TwoSnaps == {s1, s2}

AllFaults  == Faults
SaveFaults == {"store"}
=============================================================================
