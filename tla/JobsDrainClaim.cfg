SPECIFICATION JobsSpec
CONSTANTS
    NoSlot = NoSlot
    NoRow = NoRow
    Jobs = {j1}
    Recurring = {}
    Names = {mail}
    Registered = {mail}
    Workers = {w1}
    Concurrency = 1
    JobAttempts = 2
    JobLease = 2
    MaxWait = 1
    MaxFaults = 0
    MaxShutdowns = 1
    MaxOperations = 0
INVARIANTS
    DrainIsComplete
CHECK_DEADLOCK FALSE
