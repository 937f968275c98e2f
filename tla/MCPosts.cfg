SPECIFICATION Spec
CONSTANTS
    author = author
    reader = reader
    p1 = p1
    c1 = c1
    m1 = m1
    Nobody = Nobody
    Users = {author, reader}
    Posts = {p1}
    Comments = {c1}
    Media = {m1}
    Tasks = {t1}
    Author <- MCAuthor
    Owner <- MCOwner
    Edges <- MCEdges
    BlockEdges <- MCBlockEdges
    Suspects = {author, reader}
    Deployments <- MCDeployments
    Requests <- MCRequests
INVARIANTS
    TypeOK
    ReadsAgree
    ShownIsReportable
PROPERTIES
    GateRespected
