CONSTANTS
  Run = {r1, r2}
  Turn = {t1, t2}
  Questions <- PlanThenPlan
  Answer <- MCAnswers
  Cancel = Cancel
  None = None
SPECIFICATION Spec
INVARIANTS StaleFailsClosed
SYMMETRY Symmetry
CHECK_DEADLOCK FALSE
