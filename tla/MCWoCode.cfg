\* Every short code, for a caller that works as the passes do.
SPECIFICATION CarefulSpec
CONSTANTS
    MaxInt = 1
    MaxUsize = 5
    Codes <- ShortCodes
    Edits <- FewEdits
INVARIANTS TypeOK DeltasCountDeletions CombinesWhereNoJumpEnters EmitNeverPanics
PROPERTIES ImplementsRewriting
\* A panic ends the process.
CHECK_DEADLOCK FALSE
