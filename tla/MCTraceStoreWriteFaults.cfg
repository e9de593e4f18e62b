SPECIFICATION FairSpec
CONSTANTS
    None = None
    BlockEvents = 2
    MaxFileBlocks = 1
    MaxSuffix = 2
    RetentionHours = 0
    Faults = {"write", "fflush", "index", "renameCkpt"}
    MaxHour = 1
    MaxFiles = 2
    MaxRecords = 2
    MaxCkpt = 1
    MaxStarts = 2
INVARIANTS
    NeverStranded
PROPERTIES
    ArchivesImmutable
    LeftoverArchived
