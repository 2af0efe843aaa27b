------------------------------- MODULE Driver -------------------------------
(***************************************************************************)
(* Driver::try_drive (driver/src/lib.rs): from a source file, or what is   *)
(* typed, to a RoCode, over files that outlive the process, and with       *)
(* temporary files that should not (driver/src/tmp.rs).                    *)
(*                                                                         *)
(* A file holds a sequence of lines.  The compiler and the optimizer are   *)
(* given as functions; each operation of the operating system may fail.    *)
(***************************************************************************)
EXTENDS Stdin

CONSTANTS
    FileNames,      \* the names of the user's files
    TempNames,      \* the names mkstemps() may make up
    NoFile,         \* Option::None
    CodeOf,         \* the code the compiler makes of each text that it accepts
    OptimizedOf     \* what optimize() makes of each code on which it does not panic

\* Both make codes of the instructions of this build.
ASSUME CodeAssumption ==
    /\ \A text \in DOMAIN CodeOf : CodeOf[text] \in Seq(EnabledInstruction)
    /\ \A code \in DOMAIN OptimizedOf : OptimizedOf[code] \in Seq(EnabledInstruction)

ASSUME NameAssumption == FileNames \cap TempNames = {} /\ NoFile \notin FileNames \cup TempNames

VARIABLES
    files,     \* the directory: a function from the names of the files to their lines
    driver,    \* struct Driver: infile, outfile, compile, compiler (is there one), optimize
    pc,        \* where try_drive is; "Ok" and "Err" when it has returned
    temps,     \* the TempFiles alive, by the name of the variable that owns them
    made,      \* the RoCode
    status,    \* of the process: "running", or how it ended
    warned,    \* the temporary files whose removal failed with a warning
    lost       \* some write was cut short and its error dropped

drivervars == <<files, driver, pc, temps, made, status, warned, lost>>

NoTemps == [stdin |-> NoFile, unoptimized |-> NoFile, compiled |-> NoFile]
Live == { temps[owner] : owner \in DOMAIN temps } \ {NoFile}

Store(f, lines) == [g \in DOMAIN files \cup {f} |-> IF g = f THEN lines ELSE files[g]]
Without(removed) == [g \in DOMAIN files \ removed |-> files[g]]

\* What may be left of a text when its writing stops: nothing, or all but the last line.
CutsOf(lines) == { SubSeq(lines, 1, n) : n \in {0, Len(lines) - 1} \cap Nat }

\* exit(1) runs no destructor; the temporary files stay.
Exit == status' = "exit 1" /\ UNCHANGED <<driver, pc, temps, made, warned>>

\* A bug: so do the files of an Option that is None.
DropNone == warned' = warned \cup { temps[owner] : owner \in DOMAIN temps }
            /\ temps' = NoTemps /\ UNCHANGED files

\* A bug: the files are dropped without being removed.
KeepTemps == temps' = NoTemps /\ UNCHANGED <<files, warned>>

\* TempFile::drop, for all that are alive.
DropTemps ==
    \E kept \in SUBSET Live :
        /\ files' = Without(Live \ kept)
        /\ warned' = warned \cup kept
        /\ temps' = NoTemps

\* A panic unwinds main().
Panic == status' = "panic" /\ DropTemps /\ UNCHANGED <<driver, pc, made, lost>>

GoTo(place) == pc' = place /\ UNCHANGED status

-----------------------------------------------------------------------------
(***************************************************************************)
(* A code that is in RAM format already.                                   *)
(***************************************************************************)

\* RoCode::parse(open(f)) leaves result in made; a file that cannot be read is an error too.
Parses(f, result) ==
    /\ f \in DOMAIN files
    /\ made' = ParseCode(files[f]).code
    /\ result = IF ParseCode(files[f]).err = NoError THEN "Ok" ELSE "Err"

ReadFails(result) == result = "Err" /\ made' = << >>

\* A bug: what need not be optimized at once never is.
NeverOptimized(result) == result

AfterCode(result) == IF result = "Ok" /\ driver.optimize THEN "optimizing" ELSE result

Open ==
    /\ pc = "start" /\ ~driver.compile /\ driver.infile # NoFile
    /\ \/ Exit
       \/ \E result \in {"Ok", "Err"} :
            /\ driver.infile \in DOMAIN files
            /\ Parses(driver.infile, result) \/ ReadFails(result)
            /\ GoTo(AfterCode(result))
            /\ UNCHANGED <<driver, temps, warned>>
    /\ UNCHANGED <<files, lost, terminalvars>>

\* RoCode::try_from(Stdin::new(..).fuse().collect()).
StartTyping ==
    /\ pc = "start" /\ ~driver.compile /\ driver.infile = NoFile
    /\ made' = << >>
    /\ count' = 0
    /\ GoTo("typing")
    /\ UNCHANGED <<files, driver, temps, warned, lost, terminal, prompted>>

TypeLine ==
    /\ pc = "typing"
    /\ \/ /\ NextNone("instruction", 0)
          /\ GoTo(AfterCode(IF made = << >> THEN "Err" ELSE "Ok"))
          /\ UNCHANGED made
       \/ /\ NextSome("instruction", 0)
          /\ made' = made \o Item("instruction")
          /\ UNCHANGED <<pc, status>>
       \/ /\ NextAgain("instruction", 0)
          /\ UNCHANGED <<pc, status, made>>
    /\ UNCHANGED <<files, driver, temps, warned, lost>>

-----------------------------------------------------------------------------
(***************************************************************************)
(* A text to compile.                                                      *)
(***************************************************************************)

\* TempFile::new: a new, empty file in the current directory, or a panic.
CreateTemp(owner, place) ==
    \/ LET new == CHOOSE t \in TempNames \ DOMAIN files : TRUE
       IN  /\ TempNames \ DOMAIN files # {}
           /\ files' = Store(new, << >>)
           /\ temps' = [temps EXCEPT ![owner] = new]
           /\ GoTo(place)
           /\ UNCHANGED <<driver, made, warned, lost>>
    \/ Panic

StartCompile ==
    /\ pc = "start" /\ driver.compile
    /\ IF driver.infile = NoFile THEN CreateTemp("stdin", "copying")
       ELSE GoTo("unoptimized") /\ UNCHANGED <<files, driver, temps, made, warned, lost>>
    /\ UNCHANGED terminalvars

\* io::copy of everything that is typed; what the buffered writer holds at the end is
\* written by its drop, which has no error to return.
CopyStdin ==
    /\ pc = "copying"
    /\ terminal' = << >>
    /\ \/ /\ files' = Store(temps.stdin, terminal)
          /\ GoTo("unoptimized")
          /\ UNCHANGED <<driver, temps, made, warned, lost>>
       \/ \E cut \in CutsOf(terminal) :
            /\ files' = Store(temps.stdin, cut)
            /\ lost' = TRUE
            /\ GoTo("unoptimized")
            /\ UNCHANGED <<driver, temps, made, warned>>
       \/ /\ Exit
          /\ UNCHANGED <<files, lost>>
    /\ UNCHANGED <<count, prompted>>

CreateUnoptimized ==
    /\ pc = "unoptimized"
    /\ IF driver.optimize THEN CreateTemp("unoptimized", "compiled")
       ELSE GoTo("compiled") /\ UNCHANGED <<files, driver, temps, made, warned, lost>>
    /\ UNCHANGED terminalvars

In == IF driver.infile = NoFile THEN temps.stdin ELSE driver.infile

\* A bug: the user's outfile comes first.
OutfileFirst ==
    IF driver.outfile # NoFile THEN driver.outfile
    ELSE IF temps.unoptimized # NoFile THEN temps.unoptimized ELSE temps.compiled

Out ==
    IF temps.unoptimized # NoFile THEN temps.unoptimized
    ELSE IF driver.outfile # NoFile THEN driver.outfile ELSE temps.compiled

CreateCompiled ==
    /\ pc = "compiled"
    /\ IF Out = NoFile THEN CreateTemp("compiled", "compiling")
       ELSE GoTo("compiling") /\ UNCHANGED <<files, driver, temps, made, warned, lost>>
    /\ UNCHANGED terminalvars

\* arc_compile_file, in this process or in a child: it truncates its output before it opens
\* its input, exits on an error, and checks none of its writes.
Compile ==
    /\ pc = "compiling"
    /\ LET opened == Store(Out, << >>)
           accepted == In \in DOMAIN opened /\ opened[In] \in DOMAIN CodeOf
           text == ShowCode(CodeOf[opened[In]])
       IN  \/ /\ Exit
              /\ UNCHANGED <<files, lost>>
           \/ /\ ~accepted
              /\ files' = opened
              /\ Exit
              /\ UNCHANGED lost
           \/ /\ accepted
              /\ files' = Store(Out, text)
              /\ GoTo("parsing")
              /\ UNCHANGED <<driver, temps, made, warned, lost>>
           \/ /\ accepted
              /\ \E cut \in CutsOf(text) : files' = Store(Out, cut)
              /\ lost' = TRUE
              /\ GoTo("parsing")
              /\ UNCHANGED <<driver, temps, made, warned>>
    /\ UNCHANGED terminalvars

\* The end of the block that owns the temporary files.
ParseCompiled ==
    /\ pc = "parsing"
    /\ \/ Exit /\ UNCHANGED files
       \/ /\ \E result \in {"Ok", "Err"} :
                /\ Parses(Out, result) \/ ReadFails(result)
                /\ GoTo(AfterCode(result))
          /\ DropTemps
          /\ UNCHANGED driver
    /\ UNCHANGED <<lost, terminalvars>>

-----------------------------------------------------------------------------
(***************************************************************************)
(* Both.                                                                   *)
(***************************************************************************)
Optimize ==
    /\ pc = "optimizing"
    /\ \/ /\ made \notin DOMAIN OptimizedOf
          /\ Panic
       \/ /\ made \in DOMAIN OptimizedOf
          /\ made' = OptimizedOf[made]
          /\ GoTo(IF driver.outfile = NoFile THEN "Ok" ELSE "writing")
          /\ UNCHANGED <<files, driver, temps, warned, lost>>
    /\ UNCHANGED terminalvars

\* write_to_file: an error of the write itself is reported, one of the drop is not.
WriteOutfile ==
    /\ pc = "writing"
    /\ \/ /\ files' = Store(driver.outfile, ShowCode(made))
          /\ GoTo("Ok")
          /\ UNCHANGED <<driver, temps, made, warned, lost>>
       \/ \E cut \in CutsOf(ShowCode(made)) :
            /\ files' = Store(driver.outfile, cut)
            /\ lost' = TRUE
            /\ GoTo("Ok")
            /\ UNCHANGED <<driver, temps, made, warned>>
       \/ /\ \E left \in CutsOf(ShowCode(made)) : files' = Store(driver.outfile, left)
          /\ Exit
          /\ UNCHANGED lost
       \/ /\ Exit
          /\ UNCHANGED <<files, lost>>
    /\ UNCHANGED terminalvars

TryDrive ==
    /\ status = "running"
    /\ \/ Open \/ StartTyping \/ TypeLine \/ StartCompile \/ CopyStdin \/ CreateUnoptimized
       \/ CreateCompiled \/ Compile \/ ParseCompiled \/ Optimize \/ WriteOutfile
=============================================================================
