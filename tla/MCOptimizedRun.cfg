\* Every program of the family, optimized by a build that panics on overflows.
SPECIFICATION RunSpec
CONSTANTS
    MaxInt = 7
    MaxWide = 8
    MaxUsize = 7
    MaxCells = 6
    Codes <- WideCodes
    OverflowChecks = TRUE
    Uninit = Uninit
    None = None
    Inputs <- FewInputs
    MaxOutput = 3
    MaxIr = 7
INVARIANTS RunTypeOK PassesAreCareful JumpsAreShort NothingIsUnreachable SameVerdict SameOutputSoFar
PROPERTIES OptimizerEnds OptimizedEnds
\* The optimizer may panic, and a machine's process ends; the bound on the outputs stops
\* the programs that print for ever.
CHECK_DEADLOCK FALSE
