SPECIFICATION FairSpec
CONSTANTS
    Backends = {b1}
    Late = {}
    Events = {cpu, io}
    CPU = cpu
    None = None
    Modes = {"tiered", "full"}
    Faults = {"open", "enable"}
    FrozenAfter = 1
    Prompt = TRUE
    MaxClock = 2
    MaxWrites = 2
    MaxDrops = 1
    MaxWindows = 1
CHECK_DEADLOCK FALSE
INVARIANT TypeOK
INVARIANT Accounted
INVARIANT Complete
INVARIANT Faithful
INVARIANT Sealed
INVARIANT SweptWasBlind
PROPERTY StaleRepaired
