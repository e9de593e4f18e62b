SPECIFICATION Spec
CONSTANTS
    Backends = {b1, b2}
    Late = {b2}
    Events = {cpu}
    CPU = cpu
    None = None
    Modes = {"tiered"}
    Faults = {"map"}
    FrozenAfter = 1
    Prompt = TRUE
    MaxClock = 1
    MaxWrites = 0
    MaxDrops = 0
    MaxWindows = 2
CHECK_DEADLOCK FALSE
INVARIANT Accounted
INVARIANT Complete
INVARIANT Sealed
