---------------------------- MODULE MCRunManager ----------------------------
(* Instances of RunManager: two or three requests for one or two slots.    *)
EXTENDS RunManager_inv, TLC
Symmetry == Permutations(Runs)
=============================================================================
