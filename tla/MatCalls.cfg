CONSTANTS
    MaxKey = 2
    MaxRecords = 3
    BatchSize = 2
    Kinds = {"span", "void", "zero"}
    Faults = {"unlink", "partial"}
SPECIFICATION FairSpec
INVARIANTS AckedKept DeletionsLogged
PROPERTIES NeverDeleteUnmaterialized EventuallyCommitted
