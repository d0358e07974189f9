SPECIFICATION FairSpec
CONSTANTS
    Wave1 <- Join1
    Wave2 <- Join2
    Concurrency = 1
    CallAnswers <- TwiceAnswers
    Misses <- MCMisses
    Suites = {"policy", "full", "all"}
    VisionFlags = {"yes", "no"}
    Advertised = {0}
    MaxRuns = 2
INVARIANT AskedAsPlanned
INVARIANT LastRunIsWhole
PROPERTY RunEnds
\* A host may stop using its runner, and after MaxRuns it does.
CHECK_DEADLOCK FALSE
