CONSTANTS
    MaxFiles = 5
    MaxBatches = 3
    MaxMerge = 2
    Faults = {"abort", "unlink", "sqlite"}
SPECIFICATION Spec
INVARIANTS TypeOK OneCopy OffsetsMatchFiles QueryDistinct
PROPERTY ImplementsSpanTable
