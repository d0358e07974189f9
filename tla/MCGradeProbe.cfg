SPECIFICATION Spec
CONSTANTS
    p1 = p1
    p2 = p2
    p3 = p3
    p4 = p4
    p5 = p5
    p6 = p6
    Pieces <- MCPieces
    MaxPieces <- MCMaxPieces
SYMMETRY Paths
INVARIANTS
    CutRepliesAreNotStoredWeak
    ScoresTellAbility
    FloorIsDistinctPaths
PROPERTIES
    MoreNeverHurts
    FurtherCallsNeverHurt
\* A probe ends with its outcome.
CHECK_DEADLOCK FALSE
