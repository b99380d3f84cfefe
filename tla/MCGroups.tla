------------------------------ MODULE MCGroups ------------------------------
\* Constants of Groups for TLC.
EXTENDS Groups, TLC

MCSymmetry == Permutations(Files)
=============================================================================
