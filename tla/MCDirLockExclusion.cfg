SPECIFICATION Spec
CONSTANTS
    Proc = {p1, p2, p3}
    NoOwner = NoOwner
    Missing = Missing
    Mortal = {p1}
    SlowHolders = FALSE
INVARIANT MutualExclusion
