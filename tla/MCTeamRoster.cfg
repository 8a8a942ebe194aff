SPECIFICATION Spec
CONSTANTS
    Proc = {s, a, b}
    Starter = s
    Free = Free
    NoPane = NoPane
    Initial = 1
    MaxWorkers = 3
    Batch = 2
    NewTasks = 1
CHECK_DEADLOCK FALSE
INVARIANTS
    TypeOK
    RosterConsistent
    FreshTaskIds
    PanesListed
