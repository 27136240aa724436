CONSTANTS
    NoDocument = NoDocument
    PlainDocuments <- MCPlain
    ResourceDocuments <- MCResource
    Credentials <- MCCredentials
    Situations <- MCSituations
    MaxChanges = 2
SPECIFICATION MCSpec
INVARIANTS
    ExplicitDenyWins
    EveryLayerConsents
    NoTornGrant
    DenyNeverGrants
