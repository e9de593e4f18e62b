SPECIFICATION Spec
CONSTANTS
    Backends = {b1}
    Late = {}
    Events = {cpu, io}
    CPU = cpu
    None = None
    Modes = {"tiered"}
    Faults = {}
    FrozenAfter = 2
    Prompt = TRUE
    MaxClock = 3
    MaxWrites = 1
    MaxDrops = 0
    MaxWindows = 1
CHECK_DEADLOCK FALSE
INVARIANT NoPhantom
