SPECIFICATION LockSpec
CONSTANTS
    c1 = c1
    c2 = c2
    c3 = c3
    k1 = k1
    k2 = k2
    Clients <- MCClients
    Keys <- MCKeys
    NoKey = NoKey
    MaxToken = 4
INVARIANTS
    HolderOwnsKey
    MutualExclusion
    LockInv
SYMMETRY Symmetry
\* every token may be used up and every key free
CHECK_DEADLOCK FALSE
