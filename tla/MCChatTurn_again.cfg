CONSTANTS
  Turn = {o1, o2}
  Messages = 2
  t1 = t1
  t2 = t2
  Task = {t1}
  Mutation = {"followUp", "cancel"}
  Ordinal = {}
  Text = {x}
  None = None
  Bound0 <- MCOneBound
  Answered = 1
  Window = 1
  Budget = 0
  Rooms = {1}
  MaxSends = 4
  MaxRefresh = 0
  MaxCrashes = 0
SPECIFICATION Spec
INVARIANT OneOperation
SYMMETRY Symmetry
CONSTRAINT Unheard
CHECK_DEADLOCK FALSE
