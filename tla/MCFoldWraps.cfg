\* The same programs, optimized by a build that wraps around (a release build).
SPECIFICATION RunSpec
CONSTANTS
    MaxInt = 7
    MaxWide = 7
    MaxUsize = 7
    MaxCells = 6
    Codes <- SomeCodes
    OverflowChecks = FALSE
    Uninit = Uninit
    None = None
    Inputs <- FewInputs
    MaxOutput = 3
    MaxIr = 7
INVARIANTS SameVerdict
CHECK_DEADLOCK FALSE
