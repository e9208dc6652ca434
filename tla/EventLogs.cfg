\* Bounds: one live writer and two import calls over three imported events; two local writers, four
\* positions; two Nisshi appends, six records; four wire requests of two callers; three commands of
\* one aggregate with one retry each; three stored events and two replicas; four events of a view.
SPECIFICATION LogsSpec
CONSTANTS
    s1 = s1
    s2 = s2
    c1 = c1
    c2 = c2
    c3 = c3
    p1 = p1
    opener = opener
    r1 = r1
    r2 = r2
    Writers = {w1}
    Streams = {s1, s2}
    Readers = {r1}
    Messages = {}
    NoOne = NoOne
    NoSnapshot = NoSnapshot
    Null = Null
    Absent = Absent
    MaxPosition = 5
    MaxEvents = 1
    MaxAppends = 1
    BatchSize = 2
    Importers = {i1, i2}
    History <- SourceHistory
    BatchLen = 2
    RetryWhenLive = FALSE
    Processes = {"w1", "w2"}
    MaxEnd = 4
    MessageIds = {"m"}
    NoMessage = "none"
    Batches <- FrozenBatches
    Appends = {"a", "c"}
    Topics = {"s"}
    Size <- NisshiSizes
    PageSize = 2
    MaxRecords = 6
    Callers = {c1, c2}
    Opener = opener
    BrokerTopics = {p1}
    MaxRequests = 4
    BatchSizes = {2}
    Commands = {c1, c2, c3}
    MaxEmitted = 2
    SnapshotEvery = 2
    Times = 1
    MaxErasures = 1
    Adapters = {"memory", "sql"}
INVARIANTS
    ImportIsExact
    ReadIsGapless
    AnswersAreOwn
    CommandsAreSerial
    
    QueriesFoldTheFeed
PROPERTIES
    LocalStoresAreLogs
CHECK_DEADLOCK FALSE
