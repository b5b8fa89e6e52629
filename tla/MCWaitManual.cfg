CONSTANTS
  m1 = m1
  m2 = m2
  r1 = r1
  Call <- MCMixed
  Read <- MCRead
  Policies <- MCControlled
SPECIFICATION FairSpec
CHECK_DEADLOCK FALSE
INVARIANTS
  PauseHasOwner
  SnapshotRunning
PROPERTIES
  HumanPauseStands
  BarrierEnds
  PauseReleased
  WaitEnds
