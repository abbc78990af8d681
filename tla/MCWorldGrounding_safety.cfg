CONSTANTS
  t1 = t1
  t2 = t2
  Turn = {t1, t2}
  Uses = {t2}
  Attempt = {a1, a2}
  Operation = {op}
  Worker = {w1}
  Outcomes <- MCOutcomes
  Bare <- MCBare
  Empty = Empty
  None = None
  MaxChoices = 1
  MaxFaults = 1
SPECIFICATION Spec
INVARIANTS AnswerIsDurable FocusHasOrigin
PROPERTIES KeepsTheGuard NotAppliedTwice
CONSTRAINT Apart
SYMMETRY Symmetry
CHECK_DEADLOCK FALSE
