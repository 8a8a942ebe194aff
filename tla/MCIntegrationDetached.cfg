SPECIFICATION GitSpec
CONSTANTS
    Worker = {w1}
    Leader = Leader
    NoCommit = NoCommit
    Kinds = {TRUE}
    MaxChanges = 1
    MaxFaults = 0
CHECK_DEADLOCK FALSE
INVARIANT IntegratedIsLanded
