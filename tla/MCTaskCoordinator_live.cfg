CONSTANTS
  Message = {m1}
  Task = {t1}
  Turn = {o1, o2}
  Op = {"submit"}
  Reply = Reply
  None = None
  MaxActive = 1
  Stalls = FALSE
  MaxCrashes = 2
SPECIFICATION FairSpec
PROPERTIES ClaimIsDecided
