\* A caller that calls step() once more after Eof.
SPECIFICATION Spec
CONSTANTS
    MaxInt = 3
    MaxUsize = 4
    MaxCells = 3
    OverflowChecks = TRUE
    Uninit = Uninit
    None = None
    Programs <- ShortPrograms
    Inputs <- FewInputs
    MaxOutput = 4
    MaxIr = 4
PROPERTIES EofExecutesNothing
CHECK_DEADLOCK FALSE
