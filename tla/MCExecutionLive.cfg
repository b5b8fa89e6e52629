SPECIFICATION FairSpec
CONSTANTS
    c1 = c1
    c2 = c2
    Control <- MCControl
    Requests = {"pause", "checkpoint", "suspend"}
    Setups <- MCFaultless
PROPERTIES
    ControlsEnd
    CancellationCompletes
CHECK_DEADLOCK FALSE
