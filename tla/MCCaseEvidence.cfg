SPECIFICATION Spec
CONSTANTS
    Targets = {x1}
    Tasks = {t1, t2}
    States = {"open", "resolved"}
    MaxVersion = 2
    MaxReports = 2
    MaxAudit = 2
SYMMETRY Symmetry
INVARIANTS
    TypeOK
    ReviewTellsTheLatest
    CaseAuditChain
PROPERTIES
    EvidenceIsAMoment
