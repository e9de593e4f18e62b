SPECIFICATION Spec
CONSTANTS
    None = None
    BlockEvents = 2
    MaxFileBlocks = 1
    MaxSuffix = 1
    RetentionHours = 0
    Faults = {"write"}
    MaxHour = 1
    MaxFiles = 2
    MaxRecords = 2
    MaxCkpt = 1
    MaxStarts = 1
INVARIANTS
    ClosureHonest
