---------------------------- MODULE MCDurableRun ----------------------------
(* Model-checking instance of DurableRun: two attempts at one run.         *)
EXTENDS DurableRun, TLC
Symmetry == Permutations(Attempt) \cup Permutations(Content)
=============================================================================
