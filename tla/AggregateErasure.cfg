SPECIFICATION AggregateSpec
CONSTANTS
    Commands = {c1, c2}
    MaxEmitted = 2
    SnapshotEvery = 1
    Times = 1
    MaxErasures = 1
    NoSnapshot = NoSnapshot
    Adapters = {"sql"}
INVARIANTS
    ErasedContentIsGone
CHECK_DEADLOCK FALSE
