CONSTANTS
  Message = {m1, m2}
  Task = {t1, t2}
  Turn = {o1, o2}
  Op = {"submit", "followUp", "cancel"}
  Reply = Reply
  None = None
  MaxActive = 1
  Stalls = FALSE
  MaxCrashes = 1
SPECIFICATION BoundSpec
INVARIANTS TypeOK ActiveLimit CompletedTaskIsBound OneSender OneMutator LeasesAreReturned
PROPERTIES NeverSentAgain
SYMMETRY Symmetry
