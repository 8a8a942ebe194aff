SPECIFICATION Spec
CONSTANTS
    Task = {t1}
    Worker = {w1}
    Nobody = Nobody
    Monitor = {a}
    Proc = {p}
    Modes = {FALSE}
    MaxClaims = 1
    Mortal = {}
    Many = 2
CHECK_DEADLOCK FALSE
INVARIANT NoDuplicate
