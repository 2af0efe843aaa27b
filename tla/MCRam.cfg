\* Every short program, under a caller that mixes step() and run() at will.
SPECIFICATION Spec
CONSTANTS
    MaxInt = 3
    MaxUsize = 4
    MaxCells = 3
    OverflowChecks = TRUE
    Uninit = Uninit
    None = None
    Programs <- ShortPrograms
    Inputs <- FewInputs
    MaxOutput = 4
    MaxIr = 4
INVARIANTS TypeOK InstIsCurrent ReportNeverPanics
PROPERTIES FailedStepHasNoEffect FaultIsPermanent WrittenStaysWritten ImplementsMachine ForwardProgramsEnd
\* The process ends by exit(1); the bounds stop a program that prints or runs on for ever.
CHECK_DEADLOCK FALSE
