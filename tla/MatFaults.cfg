CONSTANTS
    MaxKey = 3
    MaxRecords = 2
    BatchSize = 2
    Kinds = {"span", "wild"}
    Faults = {"abort", "unlink", "partial", "write"}
SPECIFICATION Spec
INVARIANTS TypeOK RowsOnce OffsetsCommitted PrefixSalvaged
PROPERTIES EventsExact NeverDeleteQuarantined NeverDeleteActive
