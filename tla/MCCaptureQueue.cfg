SPECIFICATION FairSpec
CONSTANTS
  Event = {e1, e2}
  Main = main
  Subagent = {sub}
  Limits <- MCLimits
  MaxRejected = 1
  MaxFaults = 1
  MaxBarriers = 2
INVARIANTS BarrierReports
PROPERTIES BarriersEnd
CHECK_DEADLOCK FALSE
