-------------------------- MODULE MCEventProjection -------------------------
(* Model-checking instance of EventProjection.                             *)
EXTENDS EventProjection, TLC
S(state, phase) == [state |-> state, phase |-> phase]
MCStatus == {S("SUBMITTED", None), S("WORKING", None),
             S("WORKING", "capability_gap"),
             S("INPUT_REQUIRED", "awaiting_user_input"),
             S("COMPLETED", None)}
MCArtifact == {[id |-> "a", content |-> 1], [id |-> "a", content |-> 2]}
Symmetry == Permutations(Task)
=============================================================================
