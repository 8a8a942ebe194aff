SPECIFICATION FairSpec
CONSTANTS
    t1 = t1
    t2 = t2
    Task = {t1}
    Worker = {w1, w2}
    Nobody = Nobody
    Proc = {p1, p2}
    Free = Free
    Orphan = Orphan
    Drafts <- OneDrafts
    Requests <- OneRequests
    DepChoices <- OneDepChoices
    MaxClaims <- OneMaxClaims
    MaxVersion <- OneMaxVersion
CHECK_DEADLOCK FALSE
INVARIANTS
    TypeOK
    OneLiveClaim
    EventsMatchOutcome
PROPERTIES
    OutcomeIsFinal
    NoLostWrite
    LeaseProtectsClaim
    BoardSpec
    CallsReturn
