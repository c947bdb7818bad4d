------------------------------ MODULE MCVmBases ------------------------------
(* Two machines, one edit of one of the user's files, one restart.             *)
EXTENDS VmBases

MCMachine  == {"m", "n"}
MCMaxEdits == 1
MCMaxStops == 1
===============================================================================
