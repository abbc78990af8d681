CONSTANTS
  Run = {r1, r2}
  Turn = {t1, t2}
  Questions <- InputThenPlan
  Answer <- MCAnswers
  Cancel = Cancel
  None = None
SPECIFICATION Spec
INVARIANTS ToldIsApplied
SYMMETRY Symmetry
CHECK_DEADLOCK FALSE
