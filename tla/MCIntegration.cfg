SPECIFICATION Spec
CONSTANTS
    Worker = {w1, w2}
    Leader = Leader
    NoCommit = NoCommit
    Kinds = {TRUE, FALSE}
    MaxChanges = 2
    MaxFaults = 1
    Exec = {p1, p2}
    Request = {r1}
    Message = {m1}
    Owner = {o1}
    Nobody = Nobody
    Torn = Torn
    MaxCommands = 4
CHECK_DEADLOCK FALSE
SYMMETRY MCSymmetry
INVARIANTS
    NamedIsLanded
    WorkIsKept
    LogReplays
    FilesAgree
    AnsweredKept
PROPERTIES
    LandedStays
