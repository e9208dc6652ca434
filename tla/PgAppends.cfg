SPECIFICATION Spec
CONSTANTS
    Writers = {w1, w2}
    Streams = {s1, s2}
    Readers = {r1}
    Messages = {}
    NoOne = NoOne
    MaxPosition = 2
    MaxEvents = 2
    MaxAppends = 2
    BatchSize = 1
SYMMETRY Interchangeable
INVARIANTS
    TypeOK
    NoSkippedEvent
    
PROPERTIES
    CommitsInPositionOrder
    ImplementsLog
