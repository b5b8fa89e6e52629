SPECIFICATION Spec
CONSTANTS
    s1 = s1
    s2 = s2
    d = d
    e = e
    None = None
    Absent = Absent
    Old = Old
    Foreign = Foreign
    Torn <- MCTorn
    Stages <- MCStages
    Paths <- MCPaths
    Change <- MCChange
    MaxTroubles = 2
INVARIANTS AppliesStand
CHECK_DEADLOCK FALSE
