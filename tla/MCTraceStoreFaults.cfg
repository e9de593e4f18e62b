SPECIFICATION Spec
CONSTANTS
    None = None
    BlockEvents = 2
    MaxFileBlocks = 1
    MaxSuffix = 1
    RetentionHours = 1
    Faults = {"meta", "footer", "flags", "ckpt", "renameTrace", "openRecover", "truncate", "renameAside"}
    MaxHour = 2
    MaxFiles = 2
    MaxRecords = 2
    MaxCkpt = 1
    MaxStarts = 2
INVARIANTS
    CommittedSurvives
    ClosureHonest
    SidecarMatches
