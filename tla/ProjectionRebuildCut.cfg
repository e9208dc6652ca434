SPECIFICATION Spec
CONSTANTS
    MaxEvents = 3
    BatchSize = 2
    Unknown = {2}
    MaxStops = 2
    MaxRebuilds = 1
    RebuildsMayStop = TRUE
INVARIANTS
    CheckpointIsCovered
CHECK_DEADLOCK FALSE
