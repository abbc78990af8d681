CONSTANTS
  Attempt = {a1, a2}
  Content = {c1, c2}
  Task = T
  None = None
  Stalls = TRUE
  MaxCrashes = 2
SPECIFICATION Spec
INVARIANTS TaskIsBound
PROPERTIES FinishedIsFinal ReplayAgrees
SYMMETRY Symmetry
