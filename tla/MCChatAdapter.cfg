SPECIFICATION Spec
CONSTANTS
    Kinds <- MCKinds
    JobsOf <- MCJobsOf
INVARIANTS
    ReadAsSent
    BrokenIsNeverScored
    ErrorsAreToldRight
    CatalogKeepsToTheFlags
\* Every job ends.
CHECK_DEADLOCK FALSE
