SPECIFICATION Spec
CONSTANTS
    Models <- MCModels
    Values = {1, 2}
    UserFiles <- MCUserFiles
    Links <- MCLinks
    MaxExports = 3
INVARIANTS
    NothingElseTouched
    ExportsLand
\* The exports are bounded.
CHECK_DEADLOCK FALSE
