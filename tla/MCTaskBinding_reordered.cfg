CONSTANTS
  Observer = {o1, o2}
  Lifeline <- MCLifeline
  Stamped <- SecondStamped
  Kind = {"status", "task"}
  None = None
SPECIFICATION Spec
PROPERTIES NewerWins
