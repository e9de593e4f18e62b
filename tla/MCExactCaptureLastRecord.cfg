SPECIFICATION Spec
CONSTANTS
    Backends = {b1}
    Late = {}
    Events = {cpu, io}
    CPU = cpu
    None = None
    Modes = {"full"}
    Faults = {}
    FrozenAfter = 2
    Prompt = TRUE
    MaxClock = 3
    MaxWrites = 2
    MaxDrops = 0
    MaxWindows = 0
CHECK_DEADLOCK FALSE
INVARIANT CompleteAtStop
