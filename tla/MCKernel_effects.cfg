SPECIFICATION Spec
CONSTANTS
    Sessions = {s1}
    Ops = {o1}
    Workers = {w1, w2}
    CancelIds = {c1}
    Manifests = {m1}
    MaxBatches = 2
    MaxChildren = 2
    MaxAppend = 0
    MaxEvents = 0
    MaxFaults = 2
    Null = Null
    Unbound = Unbound
SYMMETRY Symmetry
INVARIANTS
    TypeOK
    NeverCorrupt
    SingleDriver
    DispatchBeforeInvoke
    NeverReplayedTwice
    ReplayBudget
    NoLostSignal
    ReleasedExactly
    UnknownOnlyAbandoned
PROPERTIES
    EffectsAreFinal
    CancellationWins
