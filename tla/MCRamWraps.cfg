\* A build that does not check the overflow of raw_adr + 1.
SPECIFICATION Spec
CONSTANTS
    MaxInt = 3
    MaxUsize = 4
    MaxCells = 3
    OverflowChecks = FALSE
    Uninit = Uninit
    None = None
    Programs <- ShortPrograms
    Inputs <- FewInputs
    MaxOutput = 4
    MaxIr = 4
INVARIANTS LookupsAreInBounds
CHECK_DEADLOCK FALSE
