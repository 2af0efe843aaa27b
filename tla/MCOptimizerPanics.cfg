\* Programs that run without an error, given to the optimizer.
SPECIFICATION RunSpec
CONSTANTS
    MaxInt = 7
    MaxWide = 7
    MaxUsize = 7
    MaxCells = 6
    Codes <- RunnableCodes
    OverflowChecks = FALSE
    Uninit = Uninit
    None = None
    Inputs <- FewInputs
    MaxOutput = 3
    MaxIr = 7
INVARIANTS OptimizerNeverPanics
CHECK_DEADLOCK FALSE
