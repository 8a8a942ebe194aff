SPECIFICATION Spec
CONSTANTS
    loop = loop
    another = another
    Task = {t1, t2}
    Monitor = {another}
    Teams <- StatusTeams
    MaxFixAttempts = 1
PROPERTY FixLoopBounded
