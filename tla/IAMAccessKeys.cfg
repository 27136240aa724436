SPECIFICATION Spec
CONSTANTS
    c1 = c1  c2 = c2  alice = alice  k1 = k1  k2 = k2
    NoRow = NoRow
    Clients <- TwoClients
    Users <- OneUser
    KeyIds <- TwoKeys
    MaxGen = 2
SYMMETRY ClientSymmetry
INVARIANTS RevokedKeyRefused CacheCurrent
PROPERTY ImplementsRegister
