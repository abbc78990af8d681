CONSTANTS
  Observer = {o1, o2}
  Lifeline <- MCLifeline
  Stamped <- FirstTwoStamped
  Kind = {"status", "artifact", "task"}
  None = None
SPECIFICATION Spec
INVARIANTS TypeOK NoLostUpdate PublishedOnce
PROPERTIES TerminalIsFinal StampsAdvance PublishedIsPersisted
SYMMETRY Symmetry
CONSTRAINT SomeEvents
