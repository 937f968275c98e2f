SPECIFICATION Spec
CONSTANTS
    Users <- MCTwoUsers
    Conversations = {c1}
    Messages = {m1}
    Tasks = {t1, t2}
    NoTask = NoTask
    Ops = {"create", "block", "unblock", "send"}
    BlockEdges <- MCBlockEdges
    Suspects <- MCSuspects
    GroupRosters <- MCTwoRosters
PROPERTIES
    BlockedDirectIsSilent
