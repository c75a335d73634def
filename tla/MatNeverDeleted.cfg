CONSTANTS
    MaxKey = 2
    MaxRecords = 2
    BatchSize = 1
    Kinds = {"span"}
    Faults = {}
SPECIFICATION CleanedSpec
PROPERTY RotatedDeleted
