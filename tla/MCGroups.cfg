SPECIFICATION Spec
CONSTANTS
    Users = {u1, u2, u3}
    Tasks = {t1, t2}
    NoTask = NoTask
    MaxMembers = 2
SYMMETRY Symmetry
INVARIANTS
    TypeOK
    ChatMirrorsMembers
    MemberCap
PROPERTIES
    OwnerRemovedOnlyByLeaving
    RulesBreakOnlyOnStaleRole
