CONSTANTS
  Attempt = {a1, a2}
  Content = {c1, c2}
  Task = T
  None = None
  Stalls = FALSE
  MaxCrashes = 2
SPECIFICATION Spec
INVARIANTS BusyIsNotFinal
SYMMETRY Symmetry
