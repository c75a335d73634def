CONSTANTS
    MaxKey = 2
    MaxRecords = 2
    BatchSize = 2
    Kinds = {"span"}
    Faults = {"abort"}
SPECIFICATION Spec
PROPERTY NeverDeleteUnmaterialized
