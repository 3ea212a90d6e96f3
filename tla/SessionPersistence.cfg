CONSTANTS
    MaxVersion = 3
    MaxCrashes = 1
    MaxFailures = 1
SPECIFICATION FairSpec
PROPERTIES
    DurabilityIsKept
    ChangesReachDisk
