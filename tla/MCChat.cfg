SPECIFICATION Spec
CONSTANTS
    Users <- MCUsers
    Conversations = {c1}
    Messages = {m1}
    Tasks = {t1, t2}
    NoTask = NoTask
    Ops = {"create", "block", "unblock", "suspend", "reinstate", "send", "pin", "unpin"}
    BlockEdges <- MCBlockEdges
    Suspects <- MCSuspects
    GroupRosters <- MCGroupRosters
SYMMETRY Symmetry
INVARIANTS
    TypeOK
    NoCircularWait
PROPERTIES
    NoBlockedPairInvited
    InvitedWereAvailable
    OnlyLateWritesPass
