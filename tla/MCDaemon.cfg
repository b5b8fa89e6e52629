SPECIFICATION FairSpec
CONSTANTS
  s1 = s1
  s2 = s2
  Id = {s1, s2}
  Loads <- MCLoads
INVARIANTS AbsenceProven CapacityHeld CommittedView SettledStatus
PROPERTIES DeletionIntent Reclaims
CHECK_DEADLOCK FALSE
