CONSTANTS
  m1 = m1
  m2 = m2
  r1 = r1
  Call <- MCTwo
  Read = {}
  Policies <- MCOverlap
SPECIFICATION Spec
SYMMETRY MCSymmetry
CHECK_DEADLOCK FALSE
INVARIANTS
  DeliveredRunning
  BarrierClear
  SlotKept
PROPERTIES
  NoLatePause
