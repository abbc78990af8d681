CONSTANTS
  Turn = {o1, o2}
  Messages = 2
  t1 = t1
  t2 = t2
  Task = {t1, t2}
  Mutation = {"cancel"}
  Ordinal = {}
  Text = {x}
  None = None
  Bound0 <- MCOneBound
  Answered = 1
  Window = 3
  Budget = 2
  Rooms = {1, 2}
  MaxSends = 2
  MaxRefresh = 1
  MaxCrashes = 1
SPECIFICATION Spec
INVARIANTS WholeAnswerIsStored ContextHasNoGap FocusIsHeard
PROPERTIES OperationIsFinal
SYMMETRY Symmetry
CONSTRAINT Apart
CHECK_DEADLOCK FALSE
