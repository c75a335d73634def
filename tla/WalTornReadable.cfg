CONSTANTS
    t1 = t1
    t2 = t2
    Threads = {t1, t2}
    NoThread = NoThread
    small = small
    large = large
    huge = huge
    Payloads = {small, large, huge}
    TooLarge = {huge}
    RecordSize <- MCRecordSize
    Torn = Torn
    MaxFileBytes = 4
    MaxKey = 5
    MaxRequests = 3
    MaxCrashes = 0
    Faults = {"write"}
SPECIFICATION Spec
CHECK_DEADLOCK FALSE
INVARIANT AckedReadable
