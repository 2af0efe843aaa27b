\* The error of a last write is lost in the drop of a BufWriter.
SPECIFICATION Spec
CONSTANTS
    MaxInt = 15
    MaxUsize = 7
    MaxNarrow = 7
    IndirectJumps = FALSE
    NotANumber = NotANumber
    sum = sum
    fold = fold
    big = big
    wrong = wrong
    ram = ram
    out = out
    t1 = t1
    t2 = t2
    t3 = t3
    FileNames <- FewFiles
    TempNames <- FewTemps
    NoFile = NoFile
    Dot = Dot
    CodeOf <- Compiled
    OptimizedOf <- Optimized
    Jobs <- FewJobs
    MaxJobs = 1
    Directories <- FewDirectories
INVARIANTS SuccessIsWritten
\* The last command ends.
CHECK_DEADLOCK FALSE
