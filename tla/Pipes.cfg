CONSTANTS
    Sources = {"stream", "bus"}
    Messages = {}
    Events = {10, 12, 14}
    Writers = {w1, w2}
    Iterators = {11, 13}
    None = None
    BatchSize = 2
    MaxItems = 3
    MaxPipes = 2
SPECIFICATION Spec
INVARIANTS
    TypeOK
    NothingSkipped
    StreamAtMostOnce
SYMMETRY Alike
CHECK_DEADLOCK FALSE
