SPECIFICATION Spec
CONSTANTS
    c1 = c1
    c2 = c2
    Control <- MCControl
    Requests = {"pause", "resume", "offload", "checkpoint", "suspend"}
    Setups <- MCFaultless
INVARIANTS
    StatusMatchesVm
SYMMETRY MCSymmetry
CHECK_DEADLOCK FALSE
