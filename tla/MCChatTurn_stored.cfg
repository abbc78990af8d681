CONSTANTS
  Turn = {o1, o2}
  Messages = 2
  t1 = t1
  t2 = t2
  Task = {t1, t2}
  Mutation = {"cancel"}
  Ordinal = {}
  Text = {x}
  None = None
  Bound0 <- MCOneBound
  Answered = 0
  Window = 4
  Budget = 4
  Rooms = {2}
  MaxSends = 2
  MaxRefresh = 0
  MaxCrashes = 0
SPECIFICATION Spec
INVARIANT StoredIsSeen
SYMMETRY Symmetry
CHECK_DEADLOCK FALSE
