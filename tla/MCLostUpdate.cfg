SPECIFICATION Spec
CONSTANTS
    p1 = p1
    p2 = p2
    k1 = k1
    k2 = k2
    Procs <- TwoProcs
    Keys <- TwoKeys
    Epoch <- OneEpoch
    OldRows <- MCOldRows
    TTL = 2
    StartTime = 2
    MaxTime = 1
SYMMETRY Symmetry
INVARIANT EntriesLast30Days
\* Once the file is unreadable and no process holds rows, every load is an
\* error: the cache really may stop there.
CHECK_DEADLOCK FALSE
