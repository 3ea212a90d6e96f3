SPECIFICATION FairSpec
CONSTANTS
    Nodes = {n1, n2}
    TreeObjects = {t1, t2}
    Claims = {c1}
    NoNode = NoNode
    NoTree = NoTree
    NoClaim = NoClaim
    NoRef = NoRef
    DrainTimeouts = TRUE
    Redelivery = FALSE
    Sessions = TRUE
    Restarts = TRUE
CHECK_DEADLOCK FALSE
INVARIANTS
    ClearedStaysCleared
    StoreIsRestorable
PROPERTIES
    CancellationIsFinal
    EverythingSettles
