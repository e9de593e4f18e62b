SPECIFICATION Spec
CONSTANTS
    None = None
    BlockEvents = 2
    MaxFileBlocks = 1
    MaxSuffix = 1
    RetentionHours = 0
    Faults = {"fflush"}
    MaxHour = 1
    MaxFiles = 2
    MaxRecords = 5
    MaxCkpt = 1
    MaxStarts = 2
INVARIANTS
    CommittedSurvives
