SPECIFICATION NisshiSpec
CONSTANTS
    Appends = {"a", "b", "c"}
    Topics = {"s"}
    Size <- OneEventEach
    PageSize = 2
    MaxRecords = 5
INVARIANTS
    NoDoubleReservation
CHECK_DEADLOCK FALSE
