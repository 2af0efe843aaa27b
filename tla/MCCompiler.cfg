\* Every text, compiled alone or after another one, and run on every input by a machine of 9 bits.
SPECIFICATION Spec
CONSTANTS
    MaxInt = 255
    MaxUsize = 255
    MaxCells = 255
    OverflowChecks = FALSE
    Sessions <- SomeSessions
    Uninit = Uninit
    None = None
    Inputs <- FewInputs
    MaxOutput = 12
    MaxIr = 500
INVARIANTS CompilerTypeOK  CompiledAsIfAlone DoesAsWritten ReturnIsFound SupportedFrameIsRestored
PROPERTIES ProgramsEnd
\* A machine's process ends.
CHECK_DEADLOCK FALSE
