SPECIFICATION Spec
CHECK_DEADLOCK FALSE
CONSTANTS
    Users <- MCUsers
    Contents = {post}
    Subjects = {subject}
    Reasons = {r1}
    Commands = {"account", "role", "clearRole", "content", "restrict", "unrestrict"}
    Tasks = {t1, t2}
    NoTask = NoTask
SYMMETRY TaskSymmetry
INVARIANTS
    TypeOK
    AuditChain
    NoCircularWait
    RecordedRowIsCurrent
PROPERTIES
    AuthorityAtCommit
