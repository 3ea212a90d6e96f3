SPECIFICATION Spec
CONSTANTS
    Runs = {r1, r2}
    Prompts = {p1}
    None = None
    MaxConnections = 2
    MaxQueued = 1
    Disturbances = {"crash"}
    MaxRestarts = 1
CHECK_DEADLOCK FALSE
SYMMETRY Symmetry
INVARIANTS
    InputIsSentOnce
    ActiveIsOwned
PROPERTIES
    StopPreventsInput
    OutcomeIsFinal
