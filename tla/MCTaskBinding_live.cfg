CONSTANTS
  Observer = {o1, o2}
  Lifeline <- ShortLifeline
  Stamped <- FirstStamped
  Kind = {"task"}
  None = None
SPECIFICATION FairSpec
PROPERTIES TerminalIsRecorded
