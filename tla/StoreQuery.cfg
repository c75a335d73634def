CONSTANTS
    MaxFiles = 3
    MaxBatches = 2
    MaxMerge = 2
    Faults = {}
SPECIFICATION Spec
INVARIANT QueryComplete
