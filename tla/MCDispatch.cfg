CONSTANTS
    Mail = {w, l}
    Inbox = {x}
    ForLeader = {l}
    Strict = {x}
    Menus = {{w}, {l}, {x}}
    Caller = {p, q}
    Leader = {p}
    Free = Free
    Orphan = Orphan
    Hook = Hook
    Modes = {"hook", "direct"}
    MaxRequests = 2
    MaxCrashes = 1
SPECIFICATION Spec
INVARIANTS TypeOK NotifiedIsTrue
PROPERTIES AnsweredSettled Refinement
