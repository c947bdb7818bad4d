------------------------------ MODULE MCVmPower ------------------------------
EXTENDS VmPower
CONSTANTS p1, p2
=============================================================================
