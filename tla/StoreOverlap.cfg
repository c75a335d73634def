CONSTANTS
    MaxFiles = 3
    MaxBatches = 2
    MaxMerge = 2
    Faults = {"overlap"}
SPECIFICATION Spec
INVARIANT OffsetsMatchFiles
