SPECIFICATION Spec
CONSTANTS
    Backends = {b1, b2}
    Late = {b2}
    Events = {cpu}
    CPU = cpu
    None = None
    Modes = {"tiered"}
    Faults = {"enable"}
    FrozenAfter = 1
    Prompt = TRUE
    MaxClock = 1
    MaxWrites = 0
    MaxDrops = 0
    MaxWindows = 1
CHECK_DEADLOCK FALSE
INVARIANT Accounted
INVARIANT Complete
INVARIANT Sealed
