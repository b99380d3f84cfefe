---------------------------- MODULE MCOpenFiles ----------------------------
(* Model values and bounds for model-checking OpenFiles. *)
EXTENDS OpenFiles, TLC

MCFds == 0 .. 3
Symmetry == Permutations(Files)
=============================================================================
