SPECIFICATION Spec
CONSTANTS
    p1 = p1
    p2 = p2
    Procs <- TwoProcs
    Labels <- MCLabels
    Family <- MCFamily
    Names <- OneName
    TTL = 2
    Requests <- MCRequests
    Catalogs <- MCCatalogs
    OldCaches <- MCOldCaches
    StartTime = 2
    MaxTime = 1
    MaxCommands = 3
SYMMETRY Symmetry
INVARIANT TypeOK
INVARIANT CardsAreTrue
INVARIANT RepeatsReuseTheRun
INVARIANT OverlayWindow
\* The commands are over when MaxCommands have been given.
CHECK_DEADLOCK FALSE
