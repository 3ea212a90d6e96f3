SPECIFICATION Spec
CONSTANTS
    Nodes = {n1, n2}
    TreeObjects = {t1, t2}
    Claims = {c1, c2}
    NoNode = NoNode
    NoTree = NoTree
    NoClaim = NoClaim
    NoRef = NoRef
    DrainTimeouts = TRUE
    Redelivery = TRUE
    Sessions = FALSE
    Restarts = FALSE
CHECK_DEADLOCK FALSE
VIEW MemoryView
SYMMETRY Symmetry
INVARIANTS
    TurnsAreServed
    IndexMatchesGraphs
PROPERTIES
    SettledIsFinal
