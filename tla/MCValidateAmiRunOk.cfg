CONSTANTS
    r1 = r1
    r2 = r2
    i1 = i1
    i2 = i2
    pAll = pAll
    pAcct = pAcct
    a1 = a1
    a2 = a2
    Regions <- MCRegions
    Ids <- MCIds
    ExpectedDefs <- MCExpectedDefs
    LiveImages <- MCLiveImages
    None = None
    DistinctIds = TRUE
    Error = Error
SYMMETRY MCSymmetry
SPECIFICATION Spec
\* The subcommand stops once run has returned (phase "Done").
CHECK_DEADLOCK FALSE
INVARIANT FailureReported
