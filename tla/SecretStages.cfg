CONSTANTS
    Clients = {c1, c2}
    Tokens = {t1}
    CustomLabels = {}
    None = None
    MaxVersion = 3
    MaxRequests = 4
    MaxRacing = 3
SYMMETRY ClientSymmetry
SPECIFICATION SecretSpec
INVARIANTS
    SecretTypeOK
    Readable
    CurrentAfterSolo
CHECK_DEADLOCK FALSE
