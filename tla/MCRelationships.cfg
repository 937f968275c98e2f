SPECIFICATION FairSpec
CONSTANTS
    Users <- MCUsers
    Tasks = {t1, t2}
    NoTask = NoTask
    BlocksEnabled = TRUE
INVARIANTS
    TypeOK
    NoTieAcrossBlock
    ApprovalCoherent
    AcceptedEdgeStays
PROPERTIES
    ImplementsSocialGraph
    EveryCallReturns
