CONSTANTS
  Task = {T1, T2}
  Status <- MCStatus
  Message = {m1}
  Artifact <- MCArtifact
  None = None
  MaxSteps = 4
SPECIFICATION Spec
INVARIANTS ShownOnce ViewIsCurrent NothingAfterTheEnd StoredIsHonest
SYMMETRY Symmetry
CHECK_DEADLOCK FALSE
