CONSTANTS
    Mappings = {m1}
    Iterators = {i1, i2, i3, i4, i5}
    None = None
    Writers = {w1, w2}
    Kinds = {"in", "out"}
    Settings <- MCSettings
    Lifetime = 0
    Inline = TRUE
    Faults = {"invoke", "report", "statement", "restart"}
    MaxTime = 1
    MaxRecords = 2
SPECIFICATION FairSpec
INVARIANTS
    TypeOK
    NothingSkipped
    RedeliveredOnlyWhenDisturbed
PROPERTY CatchesUp
CHECK_DEADLOCK FALSE
