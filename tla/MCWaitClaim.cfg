CONSTANTS
  m1 = m1
  m2 = m2
  r1 = r1
  Call <- MCMixed
  Read <- MCRead
  Policies <- MCOneShot
SPECIFICATION Spec
CHECK_DEADLOCK FALSE
INVARIANTS
  RunningUnclaimed
