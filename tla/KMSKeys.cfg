CONSTANTS
    Clients = {c1, c2}
    Keys = {k1}
    Aliases = {a1}
    ManagedAliases = {a1}
    Grants = {g1}
    None = None
    PendingWindow = 1
    RotationPeriod = 1
    MaxTime = 2
    MaxMaterials = 2
SYMMETRY ClientSymmetry
SPECIFICATION Spec
INVARIANTS
    DecryptFinds
    ExpiredNeverServed
    ReferencesLive
PROPERTIES
    DeletionOnSchedule
CHECK_DEADLOCK FALSE
