SPECIFICATION Spec
CONSTANTS
    Ids = {i1, i2}
    Keys = {k1}
    NoKey = NoKey
    Contents = {a}
    Tasks = {t1, t2}
    PoolSize = 4
PROPERTIES
    ExactRetryIsAnswered
