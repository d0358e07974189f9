SPECIFICATION TableSpec
CONSTANTS
    Labels <- MCLabels
    Family <- MCFamily
    Names <- OneName
    TTL = 2
    Caches <- MCCaches
    WalkStart = 2
    WalkTime = 1
INVARIANT OneLineACard
\* The walk is over when no row is left.
CHECK_DEADLOCK FALSE
