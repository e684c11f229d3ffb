SPECIFICATION Spec
CONSTANTS
    Sessions = {s1, s2}
    Ops = {o1, o2}
    Workers = {w1, w2}
    CancelIds = {c1}
    Manifests = {m1, m2}
    MaxBatches = 1
    MaxChildren = 1
    MaxAppend = 0
    MaxEvents = 0
    MaxFaults = 0
    Null = Null
    Unbound = Unbound
SYMMETRY Symmetry
INVARIANTS
    FrozenRuntime
