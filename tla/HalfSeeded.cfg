\* A status read that fails while a window is being granted.
CONSTANTS
    Backends = {b1}
    Queries = {1}
    Layouts = {"validated"}
    AttachFaults = {{}, {"activity"}, {"exec", "plan"}}
    MaxWindows = 1
SPECIFICATION Spec
CHECK_DEADLOCK FALSE
INVARIANT AttributedWhenGranted
