CONSTANTS
  Observer = {o1, o2}
  Lifeline <- MCLifeline
  Stamped <- AllStamped
  Kind = {"status", "task"}
  None = None
SPECIFICATION Spec
INVARIANTS OwedStatusIsTold
