SPECIFICATION Spec
CONSTANTS
    Wave1 <- MCWave1
    Wave2 <- MCWave2
    Concurrency = 2
    CallAnswers <- MCAnswers
    Misses <- MCMisses
    Suites = {"policy", "full", "all"}
    VisionFlags = {"yes", "unset"}
    Advertised = {0, 2000, 8192}
    MaxRuns = 1
INVARIANT TypeOK
INVARIANT EveryCallAccountedFor
INVARIANT VerdictIgnoresCompletionOrder
INVARIANT StoredRunIsMeasured
INVARIANT WindowFitsPrior
PROPERTY ImplementsVerdict
\* A host may stop using its runner, and after MaxRuns it does.
CHECK_DEADLOCK FALSE
