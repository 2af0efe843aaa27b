\* Two commands, one after the other, with every failure of the operating system.
SPECIFICATION Spec
CONSTANTS
    MaxInt = 15
    MaxUsize = 7
    MaxNarrow = 7
    IndirectJumps = FALSE
    NotANumber = NotANumber
    sum = sum
    fold = fold
    big = big
    wrong = wrong
    ram = ram
    out = out
    t1 = t1
    t2 = t2
    t3 = t3
    FileNames <- FewFiles
    TempNames <- FewTemps
    NoFile = NoFile
    Dot = Dot
    CodeOf <- Compiled
    OptimizedOf <- Optimized
    Jobs <- FewJobs
    MaxJobs = 2
    Directories <- FewDirectories
INVARIANTS TypeOK NoTempIsForgotten UserFilesAreKept CodeIsAsAsked InputIsInOrder VerdictIsRight
PROPERTIES ProcessEnds
\* The last command ends.
CHECK_DEADLOCK FALSE
