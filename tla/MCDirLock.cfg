SPECIFICATION FairSpec
CONSTANTS
    Proc = {p1, p2, p3}
    NoOwner = NoOwner
    Missing = Missing
    Mortal = {p1, p2}
    SlowHolders = FALSE
INVARIANTS
    OrphanedByCrash
PROPERTIES
    AskersReturn
    LockUnlessRaced
