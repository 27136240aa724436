CONSTANTS
    Sources = {"queue", "bus"}
    Messages = {m1, m2}
    Events = {12, 14}
    Writers = {}
    Iterators = {}
    None = None
    BatchSize = 2
    MaxItems = 2
    MaxPipes = 1
SPECIFICATION FairSpec
INVARIANT QueueKept
PROPERTY Drains
CHECK_DEADLOCK FALSE
