SPECIFICATION RcpSpec
CONSTANTS
    Tasks = {"t"}
    Commands = {"c", "d"}
    TaskOf <- TaskT
    Stoppable = {"c"}
    Linking = {"c"}
    MaxProgress = 1
    MaxBatch = 2
    MaxFaults = 1
    MaxDeletes = 1
    MaxSends = 0
    None = None
INVARIANTS
    RcpSafe
PROPERTIES
    RcpSteps
CHECK_DEADLOCK FALSE
