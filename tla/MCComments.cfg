SPECIFICATION FairSpec
CONSTANTS
    Comments = {c1, c2, c3}
    NoComment = NoComment
    Tasks = {t1, t2}
INVARIANTS
    TypeOK
PROPERTIES
    ImplementsCommentTree
    EveryCallReturns
