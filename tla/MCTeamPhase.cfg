SPECIFICATION FairSpec
CONSTANTS
    loop = loop
    another = another
    Task = {t1, t2}
    Monitor = {loop, another}
    Teams <- MCTeams
    MaxFixAttempts = 1
CHECK_DEADLOCK FALSE
INVARIANT TypeOK
PROPERTIES
    PhaseSettles
    LoopEnds
    CompletedIsTrue
    RootSettles
