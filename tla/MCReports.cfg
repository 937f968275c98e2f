SPECIFICATION FairSpec
CONSTANTS
    Ids = {i1, i2}
    Keys = {k1}
    NoKey = NoKey
    Contents = {a, b}
    Tasks = {t1, t2}
    PoolSize = 2
INVARIANTS
    TypeOK
    CasesMatchReports
PROPERTIES
    ImplementsIdempotentStore
    EveryRequestReturns
