CONSTANTS
    Clients = {c1, c2}
    k1 = k1
    k2 = k2
    a1 = a1
    a2 = a2
    Keys = {k1, k2}
    Attrs = {a1, a2}
    NoItem = NoItem
    Tokens = {t1}
    NoToken = NoToken
    Singles <- SingleWrites
    Bodies <- Transactions
    TTL = 1
    MaxTime = 2
    MaxRequests = 3
SYMMETRY symmetry
SPECIFICATION Spec
INVARIANTS
    SequentialTokenOnce
    ReplayOfCommitted
    ChangesAccounted
    StreamReplaysItem
CHECK_DEADLOCK FALSE
