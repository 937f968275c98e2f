SPECIFICATION Spec
CONSTANTS
    Users = {u1, u2, u3}
    Tasks = {t1, t2}
    NoTask = NoTask
    MaxMembers = 3
INVARIANTS
    SingleOwner
