SPECIFICATION Spec
CONSTANTS
    None = None
    BlockEvents = 2
    MaxFileBlocks = 1
    MaxSuffix = 1
    RetentionHours = 0
    Faults = {}
    MaxHour = 1
    MaxFiles = 2
    MaxRecords = 3
    MaxCkpt = 2
    MaxStarts = 3
INVARIANTS
    TypeOK
    CommittedSurvives
    ClosureHonest
    ArchiveSettled
    NeverStranded
    EvidenceSurvives
