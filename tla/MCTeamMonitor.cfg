SPECIFICATION FairSpec
CONSTANTS
    Task = {t1}
    Worker = {w1}
    Nobody = Nobody
    Monitor = {a}
    Proc = {p}
    Modes = {TRUE, FALSE}
    MaxClaims = 2
    Mortal = {w1}
    Many = 1
CHECK_DEADLOCK FALSE
INVARIANTS
    TypeOK
    CompletionsTrue
    ClaimKnown
PROPERTIES
    OverdueEnds
    CompletionAnnounced
    StopAnnounced
