SPECIFICATION FairSpec
CONSTANTS
    Runs = {r1}
    Prompts = {p1}
    None = None
    MaxConnections = 2
    MaxQueued = 1
    Disturbances = {"delete", "shutdown"}
    MaxRestarts = 0
CHECK_DEADLOCK FALSE
PROPERTIES
    EverythingSettles
