\* Both layouts, two windows, every attach and every status read may fail.
CONSTANTS
    Backends = {b1}
    Queries = {1}
    Layouts = {"validated", "degraded"}
    AttachFaults = {{}, {"activity"}, {"exec", "plan"}}
    MaxWindows = 2
SPECIFICATION Spec
CHECK_DEADLOCK FALSE
INVARIANT TypeOK
INVARIANT Attributed
INVARIANT MarksPaired
INVARIANT BundleSound
INVARIANT NothingOutlives
