\* Bounds: one message and two relays; two jobs and a worker; two commands; four events of a
\* projection; three migration runners; two finalizers and one call of a process.
SPECIFICATION LiveSpec
CONSTANTS
    j1 = j1
    j2 = j2
    w1 = w1
    mail = mail
    NoSlot = NoSlot
    NoRow = NoRow
    r1 = r1
    r2 = r2
    r3 = r3
    NoRelay = NoRelay
    c1 = c1
    c2 = c2
    NoSnapshot = NoSnapshot
    NoSum = NoSum
    Nobody = Nobody
    MaxEvents = 4
    BatchSize = 2
    Unknown <- SecondUnknown
    MaxStops = 2
    MaxRebuilds = 1
    RebuildsMayStop = FALSE
PROPERTIES
    EveryMessageSettles
    EveryJobEnds
    EveryCommandEnds
    EveryEventProjected
    DeploymentsEnd
CHECK_DEADLOCK FALSE
