SPECIFICATION FairSpec
CONSTANTS
    Writers = {w1, w2}
    Streams = {s1}
    Readers = {}
    Messages = {m1}
    NoOne = NoOne
    MaxPosition = 1
    MaxEvents = 1
    MaxAppends = 1
    BatchSize = 1
PROPERTIES
    EveryCallReturns
