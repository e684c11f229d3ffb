SPECIFICATION FairSpec
CONSTANTS
    Sessions = {s1}
    Ops = {o1, o2}
    Workers = {w1}
    CancelIds = {c1}
    Manifests = {m1}
    MaxBatches = 1
    MaxChildren = 1
    MaxAppend = 0
    MaxEvents = 0
    MaxFaults = 1
    Null = Null
    Unbound = Unbound
PROPERTIES
    OperationsResolve
    CancellationCompletes
