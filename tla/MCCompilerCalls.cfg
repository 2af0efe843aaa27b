\* A program that calls a function with two variables.
SPECIFICATION Spec
CONSTANTS
    MaxInt = 255
    MaxUsize = 255
    MaxCells = 255
    OverflowChecks = FALSE
    Sessions <- CallSessions
    Uninit = Uninit
    None = None
    Inputs <- FewInputs
    MaxOutput = 12
    MaxIr = 500
INVARIANTS FrameIsRestored
CHECK_DEADLOCK FALSE
