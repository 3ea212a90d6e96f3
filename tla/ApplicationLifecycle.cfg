CONSTANTS
    Requests = {r1}
    MaxGenerations = 2
    MaxUnpublished = 1
SPECIFICATION AppFairSpec
INVARIANTS
    NothingInUseCloses
    EverythingIsReleased
    SavedIsRunning
PROPERTIES
    EverythingCloses
CHECK_DEADLOCK FALSE
