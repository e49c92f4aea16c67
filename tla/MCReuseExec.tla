---------------------------- MODULE MCReuseExec ----------------------------
(* Instances of ReuseExec: one or two runs, under one or two runs roots,  *)
(* asking for the same or for different container configurations.         *)
EXTENDS ReuseExec_inv, TLC
CONSTANTS r1, r2, p1, p2, nopgid

OneRoot     == [r \in Runs |-> "A"]
SameConfig  == [r \in Runs |-> "c1"]
TwoConfigs  == [r \in Runs |-> IF r = r1 THEN "c1" ELSE "c2"]
TwoRoots    == [r \in Runs |-> IF r = r1 THEN "A" ELSE "B"]

\* Runs and process numbers are interchangeable where all runs ask for the same.
Symmetry == Permutations(Runs) \cup Permutations(PGIDs)
=============================================================================
