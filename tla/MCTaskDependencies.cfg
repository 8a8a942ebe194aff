SPECIFICATION Spec
CONSTANTS
    t1 = t1
    t2 = t2
    Task = {t1, t2}
    Worker = {w1, w2}
    Nobody = Nobody
    Proc = {p1, p2}
    Free = Free
    Orphan = Orphan
    Drafts <- TwoDrafts
    Requests <- TwoRequests
    DepChoices <- TwoDepChoices
    MaxClaims <- TwoMaxClaims
    MaxVersion <- TwoMaxVersion
CHECK_DEADLOCK FALSE
SYMMETRY MCSymmetry
PROPERTIES
    DependenciesDoneAtGrant
