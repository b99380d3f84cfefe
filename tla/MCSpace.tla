------------------------------ MODULE MCSpace ------------------------------
(* Model values and bounds for model-checking Space. *)
EXTENDS Space, TLC

MCCap == [r \in Kinds |-> IF r = "block" THEN 7 ELSE 5]
MCSlots == {0, 1}
Symmetry == Permutations(Names)
=============================================================================
