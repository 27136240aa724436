SPECIFICATION Spec
CONSTANTS
    Clients = {c1, c2}
    None = None  Plain = Plain  NullVersion = NullVersion
    MaxWrites = 3
    MaxTime = 1
SYMMETRY ClientSymmetry
INVARIANTS BytesKept LatestIsNewest HeadMatchesGet ReadsWhole
