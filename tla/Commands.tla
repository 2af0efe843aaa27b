------------------------------ MODULE Commands ------------------------------
(***************************************************************************)
(* The four programs of driver/src/bin, run one after the other in the     *)
(* same directory: rame-cc, rame-opt, rame-run and rame-test.  Each is a   *)
(* process that calls Driver::try_drive and goes on from there.            *)
(***************************************************************************)
EXTENDS Driver

CONSTANTS
    Jobs,       \* the command lines, with what will be typed
    MaxJobs,    \* bound: how many of them are run
    Dot         \* the path of the current directory

ASSUME JobAssumption ==
    /\ MaxJobs \in Nat /\ Dot \notin FileNames \cup TempNames \cup {NoFile}
    /\ \A j \in Jobs : /\ j.cmd \in {"cc", "opt", "run", "test"}
                       /\ {j.infile, j.outfile} \subseteq FileNames \cup {NoFile}
                       /\ {j.compile, j.optimize} \subseteq BOOLEAN
                       /\ j.cmd \in {"cc", "opt"} => j.outfile # NoFile     \* or a.out
                       /\ j.typed \in Seq(TextLine)
                       /\ j.args \in Seq(Int)
                       /\ j.paths \in Seq(FileNames \cup {Dot})

VARIABLES
    job,       \* the command line of the process
    before,    \* the files when it began (history)
    started,   \* the number of processes
    given,     \* what the machine of rame-run has read (history)
    scan,      \* rame-test: where it is
    clean      \* rame-test: the files that passed every test when last tested, and the
               \* directories that could be read when last read (history)

vars == <<drivervars, terminalvars, job, before, started, given, scan, clean>>

\* The header of a test, and one that is none.
TestLine == Line("# TEST:", << >>)
BadTestLine == Line("# TEST: no test", << >>)

NoScan == [paths |-> << >>, inDir |-> FALSE, entries |-> {}, listed |-> {},
           dirOk |-> TRUE, file |-> NoFile, ok |-> TRUE, left |-> 0, opt |-> << >>]

\* struct Driver, as the builder leaves it.
NewDriver(infile, outfile, compile, optimize) ==
    [infile |-> infile, outfile |-> outfile, compile |-> compile, optimize |-> optimize]

DriverOf(j) ==
    CASE j.cmd = "cc"   -> NewDriver(j.infile, j.outfile, TRUE, j.optimize)
      [] j.cmd = "opt"  -> NewDriver(j.infile, j.outfile, FALSE, TRUE)
      [] j.cmd = "run"  -> NewDriver(j.infile, NoFile, j.compile, j.optimize)
      [] j.cmd = "test" -> NewDriver(NoFile, NoFile, TRUE, FALSE)

Ended == status # "running"

\* The shell runs the next command, once the one before it has ended.
StartJob ==
    /\ Ended /\ started < MaxJobs
    /\ \E j \in Jobs :
        /\ job' = j
        /\ driver' = DriverOf(j)
        /\ terminal' = j.typed
        /\ pc' = IF j.cmd = "test" THEN "scan" ELSE "start"
        /\ scan' = [NoScan EXCEPT !.paths = j.paths]
    /\ before' = files
    /\ started' = started + 1
    /\ status' = "running"
    /\ temps' = NoTemps /\ made' = << >> /\ warned' = {} /\ lost' = FALSE
    /\ count' = 0 /\ prompted' = 0 /\ given' = << >> /\ clean' = {}
    /\ UNCHANGED files

End(how) == status' = how /\ UNCHANGED <<files, driver, pc, temps, made, warned, lost>>

\* main() of rame-cc and rame-opt returns.
Return ==
    /\ pc = "Ok" /\ job.cmd \in {"cc", "opt"}
    /\ End("success")
    /\ UNCHANGED <<terminalvars, given, scan, clean>>

\* Driver::drive, of all but rame-test.
DriveFails ==
    /\ pc = "Err" /\ job.cmd # "test"
    /\ End("exit 1")
    /\ UNCHANGED <<terminalvars, given, scan, clean>>

-----------------------------------------------------------------------------
(***************************************************************************)
(* rame-run: poly().  The machine is any program: it may read, and it may  *)
(* end, with or without an error.                                          *)
(***************************************************************************)
Fits(code) == CastFits(code, MaxNarrow)

ArgsFit == \A i \in DOMAIN job.args : job.args[i] \in Narrow

\* cvt() of the arguments comes before the cast of the code.
Poly ==
    /\ pc = "Ok" /\ job.cmd = "run"
    /\ \/ ~ArgsFit /\ End("exit 1")
       \/ ArgsFit /\ ~Fits(made) /\ Panic
       \/ /\ ArgsFit /\ Fits(made)
          /\ GoTo("running")
          /\ UNCHANGED <<files, driver, temps, made, warned, lost>>
    /\ count' = 0
    /\ UNCHANGED <<terminal, prompted, given, scan, clean>>

\* READ: the arguments come first.
ReadArg ==
    /\ pc = "running"
    /\ Len(given) < Len(job.args)
    /\ given' = Append(given, job.args[Len(given) + 1])
    /\ UNCHANGED <<drivervars, terminalvars, scan, clean>>

\* READ, and no argument is left: the terminal is asked.
AskTerminal ==
    /\ pc = "running"
    /\ Len(given) >= Len(job.args)
    /\ GoTo("reading")
    /\ UNCHANGED <<files, driver, temps, made, warned, lost, terminalvars, given, scan, clean>>

\* A bug: the prompt counts the lines of the terminal only.
NoOffset == 0

Offset == Len(job.args)

ReadTerminal ==
    /\ pc = "reading"
    /\ \/ /\ NextNone("number", Offset)    \* ReadEof ends the process
          /\ End("exit 1")
          /\ UNCHANGED given
       \/ /\ NextSome("number", Offset)
          /\ given' = given \o Item("number")
          /\ GoTo("running")
          /\ UNCHANGED <<files, driver, temps, made, warned, lost>>
       \/ /\ NextAgain("number", Offset)
          /\ UNCHANGED <<drivervars, given>>
    /\ UNCHANGED <<scan, clean>>

\* The machine comes to its end, to an error, or to an address out of its memory's reach.
RunEnds ==
    /\ pc = "running"
    /\ End("success") \/ End("exit 1") \/ Panic
    /\ UNCHANGED <<terminalvars, given, scan, clean>>

-----------------------------------------------------------------------------
(***************************************************************************)
(* rame-test: scan_file for each path, and for each entry of a directory.  *)
(***************************************************************************)
LinesOf(f) == IF f \in DOMAIN files THEN files[f] ELSE << >>
Tests(f) == { i \in DOMAIN LinesOf(f) : LinesOf(f)[i] = TestLine }
BadTests(f) == { i \in DOMAIN LinesOf(f) : LinesOf(f)[i] = BadTestLine }

ScanPath ==
    /\ pc = "scan" /\ ~scan.inDir /\ scan.paths # << >>
    /\ Head(scan.paths) # Dot
    /\ scan' = [scan EXCEPT !.paths = Tail(@), !.file = Head(scan.paths)]
    /\ pc' = "headers"
    /\ UNCHANGED <<files, driver, temps, made, status, warned, lost, terminalvars, given, clean>>

\* The result of a path of the command line: all() stops at the first false.
PathResult(ok) == IF ok THEN GoTo("scan") ELSE status' = "failure" /\ UNCHANGED pc

\* metadata() of a directory may fail; so may read_dir(), which is unwrapped.
ScanDir ==
    /\ pc = "scan" /\ ~scan.inDir /\ scan.paths # << >>
    /\ Head(scan.paths) = Dot
    /\ \/ /\ scan' = [scan EXCEPT !.paths = Tail(@), !.inDir = TRUE, !.entries = DOMAIN files,
                                  !.listed = {}, !.dirOk = TRUE]
          /\ UNCHANGED <<drivervars, clean>>
       \/ /\ PathResult(FALSE)
          /\ clean' = clean \ {Dot}
          /\ UNCHANGED <<files, driver, temps, made, warned, lost, scan>>
       \/ Panic /\ UNCHANGED <<scan, clean>>
    /\ UNCHANGED <<terminalvars, given>>

\* An entry is read while the ones before it are tested, so it may be a file that was made in
\* the meantime; reading it may fail, and is unwrapped.
ScanEntry ==
    /\ pc = "scan" /\ scan.inDir
    /\ \/ /\ \E f \in DOMAIN files \ scan.listed :
                scan' = [scan EXCEPT !.entries = @ \ {f}, !.listed = @ \cup {f}, !.file = f]
          /\ GoTo("headers")
          /\ UNCHANGED <<files, driver, temps, made, warned, lost>>
       \/ Panic /\ UNCHANGED scan
    /\ UNCHANGED <<terminalvars, given, clean>>

\* What was there from the beginning has been listed.
ScanDirEnds ==
    /\ pc = "scan" /\ scan.inDir /\ scan.entries = {}
    /\ PathResult(scan.dirOk)
    /\ scan' = [scan EXCEPT !.inDir = FALSE]
    /\ clean' = clean \cup {Dot}
    /\ UNCHANGED <<files, driver, temps, made, warned, lost, terminalvars, given>>

ScanEnds ==
    /\ pc = "scan" /\ ~scan.inDir /\ scan.paths = << >>
    /\ End("success")
    /\ UNCHANGED <<terminalvars, given, scan, clean>>

\* A bug: ok = instead of ok &=.
LastResult(ok) ==
    IF scan.inDir THEN scan' = [scan EXCEPT !.dirOk = ok] /\ GoTo("scan")
    ELSE PathResult(ok) /\ UNCHANGED scan

\* The result of a file.
FileResult(ok) ==
    IF scan.inDir THEN scan' = [scan EXCEPT !.dirOk = @ /\ ok] /\ GoTo("scan")
    ELSE PathResult(ok) /\ UNCHANGED scan

\* metadata() and parse_headers().  A path without metadata, as one that does not exist, counts
\* as a failure, as does a file without tests; a file that cannot be opened or read, or has a
\* bad header, ends the process.
Headers ==
    /\ pc = "headers"
    /\ LET f == scan.file
       IN  \/ /\ FileResult(FALSE)
              /\ UNCHANGED <<files, driver, temps, made, warned, lost>>
           \/ /\ f \in DOMAIN files
              /\ End("exit 1") \/ (BadTests(f) # {} /\ Panic)
              /\ UNCHANGED scan
           \/ /\ Tests(f) # {} /\ BadTests(f) = {}
              /\ driver' = NewDriver(f, NoFile, TRUE, FALSE)
              /\ GoTo("start")
              /\ UNCHANGED <<files, temps, made, warned, lost, scan>>
    /\ clean' = clean \ {scan.file}
    /\ UNCHANGED <<terminalvars, given>>

CompileFailed ==
    /\ pc = "Err" /\ job.cmd = "test"
    /\ FileResult(FALSE)
    /\ UNCHANGED <<files, driver, temps, made, warned, lost, terminalvars, given, clean>>

StartTests ==
    /\ pc = "Ok" /\ job.cmd = "test"
    /\ \/ made \notin DOMAIN OptimizedOf /\ Panic /\ UNCHANGED scan
       \/ /\ made \in DOMAIN OptimizedOf
          /\ scan' = [scan EXCEPT !.opt = OptimizedOf[made], !.ok = TRUE,
                                  !.left = Cardinality(Tests(scan.file))]
          /\ GoTo("testing")
          /\ UNCHANGED <<files, driver, temps, made, warned, lost>>
    /\ clean' = clean \cup {scan.file}
    /\ UNCHANGED <<terminalvars, given>>

\* One test: the code, and unless that failed the optimized code; casts are unwrapped, and an
\* error or a panic of the machine ends the process.
RunTest ==
    /\ pc = "testing" /\ scan.left > 0
    /\ \/ Panic /\ UNCHANGED <<scan, clean>>
       \/ Fits(made) /\ End("exit 1") /\ UNCHANGED <<scan, clean>>
       \/ /\ Fits(made) /\ Fits(scan.opt)
          /\ scan' = [scan EXCEPT !.left = @ - 1]
          /\ UNCHANGED <<drivervars, clean>>
       \/ /\ Fits(made)
          /\ scan' = [scan EXCEPT !.left = @ - 1, !.ok = FALSE]
          /\ clean' = clean \ {scan.file}
          /\ UNCHANGED drivervars
    /\ UNCHANGED <<terminalvars, given>>

TestsEnd ==
    /\ pc = "testing" /\ scan.left = 0
    /\ FileResult(scan.ok)
    /\ UNCHANGED <<files, driver, temps, made, warned, lost, terminalvars, given, clean>>

-----------------------------------------------------------------------------
Continue ==
    /\ ~Ended
    /\ \/ TryDrive /\ UNCHANGED <<given, scan, clean>>
       \/ Return \/ DriveFails
       \/ Poly \/ ReadArg \/ AskTerminal \/ ReadTerminal \/ RunEnds
       \/ ScanPath \/ ScanDir \/ ScanEntry \/ ScanDirEnds \/ ScanEnds \/ Headers
       \/ CompileFailed \/ StartTests \/ RunTest \/ TestsEnd
    /\ UNCHANGED <<job, before, started>>

Next == StartJob \/ Continue

-----------------------------------------------------------------------------
CONSTANT Directories    \* what the directory may hold at first

ASSUME DirectoryAssumption == \A dir \in Directories : DOMAIN dir \subseteq FileNames

NoJob == [cmd |-> "none", infile |-> NoFile, outfile |-> NoFile, compile |-> FALSE,
          optimize |-> FALSE, typed |-> << >>, args |-> << >>, paths |-> << >>]

Init ==
    /\ files \in Directories /\ before = files
    /\ driver = NewDriver(NoFile, NoFile, FALSE, FALSE)
    /\ pc = "start" /\ status = "none"
    /\ temps = NoTemps /\ made = << >> /\ warned = {} /\ lost = FALSE
    /\ terminal = << >> /\ count = 0 /\ prompted = 0
    /\ job = NoJob /\ started = 0 /\ given = << >> /\ scan = NoScan /\ clean = {}

\* The process is in Ram::run, whose program may loop for ever.
Computing == ~Ended /\ (pc = "running" \/ (pc = "testing" /\ scan.left > 0))

\* A process runs straight on, but for its machine, of which nothing is known.
Spec == Init /\ [][Next]_vars /\ WF_vars(Continue /\ ~Computing)

-----------------------------------------------------------------------------
(***************************************************************************)
(* Properties.                                                             *)
(***************************************************************************)

Names == FileNames \cup TempNames

CompilePhase == {"copying", "unoptimized", "compiled", "compiling", "parsing"}
Places == CompilePhase \cup {"start", "typing", "optimizing", "writing", "Ok", "Err", "running",
                             "reading", "scan", "headers", "testing"}

\* Every variable of a process has its type.
TypeOK ==
    /\ DOMAIN files \subseteq Names
    /\ driver.infile \in Names \cup {NoFile} /\ driver.outfile \in FileNames \cup {NoFile}
    /\ {driver.compile, driver.optimize, lost} \subseteq BOOLEAN
    /\ pc \in Places
    /\ temps \in [DOMAIN NoTemps -> TempNames \cup {NoFile}]
    /\ status \in {"none", "running", "success", "failure", "exit 1", "panic"}
    /\ warned \subseteq TempNames
    /\ started \in 0..MaxJobs

\* A temporary file that a process left in the directory is one that it could not remove, or
\* one that it owned when it called exit(1); it owns none outside of the compilation
\* (TempFile, Driver::try_drive).
NoTempIsForgotten ==
    /\ DOMAIN files \cap TempNames \subseteq DOMAIN before \cup Live \cup warned
    /\ Live \subseteq DOMAIN files
    /\ Live # {} => pc \in CompilePhase /\ status \in {"running", "exit 1"}

\* A process changes no file of the user but its outfile, and that one only by what the
\* optimizer made if it was asked to optimize.
UserFilesAreKept ==
    \A f \in FileNames :
        f # driver.outfile \/ (driver.optimize /\ pc \notin {"writing", "Ok"}) =>
            /\ f \in DOMAIN files <=> f \in DOMAIN before
            /\ f \in DOMAIN before => files[f] = before[f]

\* The items that the iterator makes of the lines, up to the one on which it gives up.
Accepted(type, lines) ==
    LET items[n \in 0..Len(lines)] ==      \* those of the last n lines
            LET line == lines[Len(lines) - n + 1]
            IN  IF n = 0 \/ line \in {Blank, NotText} THEN << >>
                ELSE ItemOf(type, line) \o items[n - 1]
    IN  items[Len(lines)]

\* The lines behind that one.
Behind(lines) ==
    LET ends == { k \in 1..Len(lines) : lines[k] \in {Blank, NotText} }
        first == CHOOSE k \in ends : \A j \in ends : k <= j
    IN  IF ends = {} THEN << >> ELSE SubSeq(lines, first + 1, Len(lines))

FromTerminal == driver.infile = NoFile
Source == IF FromTerminal THEN job.typed ELSE before[driver.infile]

\* The code that the source stands for, and the one that the command line asks for.
SourceCode ==
    IF driver.compile THEN CodeOf[Source]
    ELSE IF FromTerminal THEN Accepted("instruction", Source)
    ELSE ParseCode(Source).code
AskedCode == IF driver.optimize THEN OptimizedOf[SourceCode] ELSE SourceCode

Written == status = "success" /\ job.cmd \in {"cc", "opt"} /\ driver.infile # driver.outfile
WrittenAsAsked ==
    driver.outfile \in DOMAIN files /\ ParseCode(files[driver.outfile]).code = AskedCode

\* What rame-run executes, and what rame-cc and rame-opt leave in the outfile for a later
\* RoCode::parse, is the compiled and optimized source, unless a write was cut silently.
CodeIsAsAsked ==
    ~lost => /\ pc = "running" => made = AskedCode
             /\ Written => WrittenAsAsked

\* rame-cc and rame-opt succeed only if the outfile holds the code.
SuccessIsWritten == Written => WrittenAsAsked

\* What is left for the machine to read of the terminal.
TypedInput == IF FromTerminal /\ ~driver.compile THEN Behind(job.typed)
              ELSE IF FromTerminal THEN << >> ELSE job.typed

\* The machine of rame-run reads the arguments and then the numbers typed up to the first
\* line that ends the input, in order; the prompt shows how many it has read so far.
InputIsInOrder ==
    pc \in {"running", "reading"} /\ status = "running" =>
        /\ given \o SubSeq(job.args, Len(given) + 1, Len(job.args)) \o Accepted("number", terminal)
              = job.args \o Accepted("number", TypedInput)
        /\ pc = "running" /\ Len(given) > Len(job.args) => prompted = Len(given) - 1

\* The files that rame-test was asked to test, and the directory, if it was asked to read it.
AskedFiles ==
    UNION { IF job.paths[i] = Dot THEN DOMAIN before \cup {Dot} ELSE {job.paths[i]}
              : i \in DOMAIN job.paths }

\* A directory may hold the temporary files that could not be removed, too.
Leftovers == IF \E i \in DOMAIN job.paths : job.paths[i] = Dot THEN warned ELSE {}

\* rame-test succeeds only if every file it was asked to test has tests, compiles and passes
\* each of them, as compiled and optimized, and the directory could be read; and if it fails,
\* one of them did not, or a file that it left behind itself (unless the process broke off).
VerdictIsRight ==
    job.cmd = "test" =>
        /\ status = "success" => AskedFiles \subseteq clean
        /\ status = "failure" => ~(AskedFiles \cup Leftovers \subseteq clean)

\* Every process ends, if no machine computes for ever: the terminal, the paths and the entries
\* of a directory are used up.
ProcessEnds == []<>~Computing => (~Ended ~> Ended)
=============================================================================
