CONSTANTS
    Mail = {w, l}
    Inbox = {x}
    ForLeader = {l}
    Strict = {}
    Menus = {{w, x}, {l}}
    Caller = {p}
    Leader = {p}
    Free = Free
    Orphan = Orphan
    Hook = Hook
    Modes = {"hook", "direct"}
    MaxRequests = 2
    MaxCrashes = 0
SPECIFICATION Spec
PROPERTIES CallsReturn RequestsServed MailShown
