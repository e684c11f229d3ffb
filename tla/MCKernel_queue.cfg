SPECIFICATION Spec
CONSTANTS
    Sessions = {s1}
    Ops = {o1, o2}
    Workers = {w1, w2}
    CancelIds = {c1, c2}
    Manifests = {m1}
    MaxBatches = 1
    MaxChildren = 1
    MaxAppend = 2
    MaxEvents = 2
    MaxFaults = 1
    Null = Null
    Unbound = Unbound
SYMMETRY Symmetry
INVARIANTS
    NoStraySignal
    AdmissionOrder
    GaplessHistory
PROPERTIES
    ImplementsContract
