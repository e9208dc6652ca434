\* Bounds: two messages, two relays, two attempts; five deliveries of two messages; four dispatches;
\* six events, three stops and two rebuilds of a projection; two jobs, two workers, one fault, one
\* shutdown, one operation; two runs of each cron expression; three migration runners; two finalizers
\* and two calls of a process.
SPECIFICATION WorkSpec
CONSTANTS
    Jobs = {j1, j2}
    Recurring = {j2}
    Names = {mail, sms}
    Registered = {mail}
    Workers = {w1, w2}
    Concurrency = 1
    NoSlot = NoSlot
    NoRow = NoRow
    JobAttempts = 2
    JobLease = 2
    MaxWait = 1
    MaxFaults = 1
    MaxShutdowns = 1
    MaxOperations = 1
    Entries = {1, 2}
    Relays = {r1, r2}
    NoRelay = NoRelay
    Adapters = {"memory", "postgres", "sqlite"}
    MaxPublishes = 2
    RelayBatch = 2
    RelayLease = 1
    MaxBackoff = 1
    MaxUpsets = 1
    MaxReplays = 1
    Pairs = {k1, k2}
    Deliveries = {d1, d2}
    MaxDeliveries = 5
    Dispatches = {d1, d2, d3, d4}
    Payloads = {red, blue}
    PayloadOf <- LastIsBlue
    NoRecord = NoRecord
    NoResult = NoResult
    Stores = {"memory", "postgres"}
    Ttl = 2
    MaxInterrupts = 1
    Prompt = TRUE
    r1 = r1
    r2 = r2
    r3 = r3
    d1 = d1
    d2 = d2
    d3 = d3
    d4 = d4
    red = red
    blue = blue
    Runners = {r1, r2, r3}
    Build <- Builds
    Mode <- LockModes
    Histories <- FirstOrNone
    Finalizers = {"a", "grpc"}
    Calls = {"c1", "c2"}
    Capacity = 1
    NoSum = NoSum
    Nobody = Nobody
    MaxEvents = 6
    BatchSize = 2
    Unknown <- SecondUnknown
    MaxStops = 3
    MaxRebuilds = 2
    RebuildsMayStop = FALSE
INVARIANTS
    SettledForCause
    EffectivelyOnce
    DispatchesOnce
    CheckpointIsCovered
    ModelIsPrefix
    EveryJobEndsOnce
    FiresAtTheNextDueMinute
    
PROPERTIES
    LeaseIsExclusive
    RunsAreFenced
CHECK_DEADLOCK FALSE
