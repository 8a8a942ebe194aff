SPECIFICATION Spec
CONSTANTS
    Proc = {s, a}
    Starter = s
    Free = Free
    NoPane = NoPane
    Initial = 1
    MaxWorkers = 1
    Batch = 1
    NewTasks = 1
CHECK_DEADLOCK FALSE
INVARIANT TasksKept
