SPECIFICATION Spec
SYMMETRY ClientSymmetry
CONSTANTS
    jobs = jobs
    dead = dead
    c1 = c1
    c2 = c2
    g1 = g1
    g2 = g2
    d1 = d1
    body = body
    NoQueue = NoQueue
    NoRedrive = NoRedrive
    NoGroup = NoGroup
    NoDedup = NoDedup
    RedrivenGroup = RedrivenGroup
    Clients <- MCClients
    Queues <- MCQueues
    FifoQueues = {jobs, dead}
    Attributes <- FifoAttributes
    Updates <- FifoUpdates
    Requests <- FifoRequests
    Visibilities = {1}
    MaxReceive = 2
    DedupWindow = 1
    MaxDelay = 1
    MaxTime = 3
    MaxSends = 1
    MaxReceiveCount = 2
INVARIANTS
    HeadOnlyReceived
    OneInFlightPerGroup
    SequenceFollowsAcceptance
    DeduplicatedInWindow
