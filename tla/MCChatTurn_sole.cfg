CONSTANTS
  Turn = {o1}
  Messages = 1
  t1 = t1
  t2 = t2
  Task = {t1, t2}
  Mutation = {"cancel"}
  Ordinal = {}
  Text = {x}
  None = None
  Bound0 <- MCTwoBound
  Answered = 0
  Window = 4
  Budget = 4
  Rooms = {1, 2}
  MaxSends = 1
  MaxRefresh = 0
  MaxCrashes = 0
SPECIFICATION Spec
INVARIANT ActsOnWhatIsMeant
SYMMETRY Symmetry
CONSTRAINT NoneEnds
CHECK_DEADLOCK FALSE
