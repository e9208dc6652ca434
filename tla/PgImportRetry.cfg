SPECIFICATION ImportSpec
CONSTANTS
    Writers = {w1, w2}
    Streams = {s1, s2}
    Readers = {r1}
    Messages = {}
    NoOne = NoOne
    MaxPosition = 3
    MaxEvents = 1
    MaxAppends = 1
    BatchSize = 1
    Importers = {i1}
    History <- OneEvent
    BatchLen = 2
    RetryWhenLive = TRUE
INVARIANTS
    NoSkippedEvent
