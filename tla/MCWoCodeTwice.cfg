\* A caller that may delete the same ir again.
SPECIFICATION Spec
CONSTANTS
    MaxInt = 1
    MaxUsize = 5
    Codes <- ShortCodes
    Edits <- FewEdits
INVARIANTS DeltasCountDeletions
CHECK_DEADLOCK FALSE
