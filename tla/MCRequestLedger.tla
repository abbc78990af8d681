--------------------------- MODULE MCRequestLedger --------------------------
(* Model-checking instance of RequestLedger.                               *)
EXTENDS RequestLedger, TLC
Symmetry == Permutations(Key) \cup Permutations(Content)
              \cup Permutations(Owner) \cup Permutations(Result)
=============================================================================
