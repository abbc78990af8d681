CONSTANTS
  Message = {m1, m2}
  Task = {t1}
  Turn = {o1, o2}
  Op = {"submit", "cancel"}
  Reply = Reply
  None = None
  MaxActive = 1
  Stalls = FALSE
  MaxCrashes = 0
SPECIFICATION Spec
INVARIANTS RetryIsReplayed
