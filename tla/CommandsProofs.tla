--------------------------- MODULE CommandsProofs ---------------------------
(***************************************************************************)
(* What the commands do, for every directory, all command lines, every     *)
(* compiler and optimizer, and any number of processes: no temporary file  *)
(* is forgotten, no file of the user is touched that should not be, the    *)
(* verdict of rame-test is right, the machine of rame-run reads what it    *)
(* should in order, and the code that is executed or written is the one    *)
(* that is asked for.                                                      *)
(***************************************************************************)
EXTENDS Commands, TextProofs, SequenceTheorems, TLAPS

\* What each place of try_drive knows of the temporary files, while the process runs.
Shape ==
    /\ job.cmd \in {"run", "test"} => driver.outfile = NoFile
    /\ status = "running" =>
        /\ pc \in {"running", "reading", "scan", "headers", "testing"} => job.cmd \in {"run", "test"}
        /\ pc = "copying" => temps.stdin # NoFile
        /\ pc \in {"copying", "unoptimized"} => temps.unoptimized = NoFile
        /\ pc \in {"copying", "unoptimized", "compiled"} => temps.compiled = NoFile
        /\ pc \in {"compiled", "compiling", "parsing"} /\ driver.optimize => temps.unoptimized # NoFile
        /\ pc = "compiling" => Out # NoFile
        /\ pc = "writing" => driver.outfile # NoFile

\* No process removes a file that was there when it began.
NothingIsRemoved == DOMAIN before \subseteq DOMAIN files /\ DOMAIN before \cap Live = {}

IInv == TypeOK /\ NoTempIsForgotten /\ UserFilesAreKept /\ Shape /\ NothingIsRemoved

Statuses == {"none", "running", "success", "failure", "exit 1", "panic"}

-----------------------------------------------------------------------------
(***************************************************************************)
(* The temporary files.                                                    *)
(***************************************************************************)

\* The files alive are those of the three owners (try_drive: stdin, unoptimized, compiled).
LEMMA LiveFiles ==
    ASSUME TypeOK
    PROVE  /\ Live = {temps.stdin, temps.unoptimized, temps.compiled} \ {NoFile}
           /\ Live \subseteq TempNames
           /\ Live = {} => /\ temps.stdin = NoFile
                           /\ temps.unoptimized = NoFile
                           /\ temps.compiled = NoFile
<1>1. DOMAIN temps = {"stdin", "unoptimized", "compiled"}
  BY DEF TypeOK, NoTemps
<1>2. \A owner \in {"stdin", "unoptimized", "compiled"} : temps[owner] \in TempNames \cup {NoFile}
  BY DEF TypeOK, NoTemps
<1>3. Live = {temps.stdin, temps.unoptimized, temps.compiled} \ {NoFile}
  BY <1>1 DEF Live
<1> QED BY <1>2, <1>3

\* After a drop, and in a new process, none is alive.
LEMMA NoneLive == temps' = NoTemps => Live' = {}
BY DEF NoTemps, Live

\* NoTemps has the type of temps.
LEMMA NoTempsType == NoTemps \in [DOMAIN NoTemps -> TempNames \cup {NoFile}]
BY DEF NoTemps

-----------------------------------------------------------------------------
(***************************************************************************)
(* The four ways in which most actions end.                                *)
(***************************************************************************)
Kept == UNCHANGED <<job, before, started>>

\* Nothing happens to a file, outside of the compilation.
MovesOn ==
    /\ UNCHANGED <<files, driver, temps, warned>>
    /\ lost' \in BOOLEAN
    /\ pc \notin CompilePhase /\ pc' \in Places \ CompilePhase
    /\ pc' = "writing" => pc = "writing" \/ driver.outfile # NoFile
    /\ pc \in {"writing", "Ok"} /\ pc' \notin {"writing", "Ok"} => job.cmd \in {"run", "test"}
    /\ pc' \in {"running", "reading", "scan", "headers", "testing"} => job.cmd \in {"run", "test"}
    /\ status = "running" /\ status' \in Statuses

\* exit(1), with the temporary files alive.
Exits ==
    /\ UNCHANGED <<files, driver, temps, warned, pc>>
    /\ lost' \in BOOLEAN
    /\ status = "running" /\ status' = "exit 1"

\* main() unwinds, or the block of the temporary files ends.
Drops ==
    /\ DropTemps
    /\ UNCHANGED <<driver>>
    /\ lost' \in BOOLEAN
    /\ \/ pc' = pc /\ status' = "panic"
       \/ pc \notin {"writing", "Ok"} /\ status' = status /\ status = "running"
          /\ pc' \in {"optimizing", "Ok", "Err"}

\* Moving on keeps the invariant.
LEMMA MovesOnKeeps == ASSUME IInv, MovesOn, Kept PROVE IInv'
<1>1. Live = {} /\ Live' = {}
  BY DEF IInv, NoTempIsForgotten, MovesOn, Live
<1>2. TypeOK'
  BY DEF IInv, TypeOK, MovesOn, Kept, Statuses, Names
<1>3. NoTempIsForgotten'
  BY <1>1 DEF IInv, NoTempIsForgotten, MovesOn, Kept
<1>4. UserFilesAreKept'
  BY NameAssumption DEF IInv, UserFilesAreKept, MovesOn, Kept, Shape
<1>5. Shape'
  BY DEF IInv, Shape, MovesOn, Kept, CompilePhase
<1>6. NothingIsRemoved'
  BY <1>1 DEF IInv, NothingIsRemoved, MovesOn, Kept
<1> QED BY <1>2, <1>3, <1>4, <1>5, <1>6 DEF IInv

\* So does exit(1).
LEMMA ExitsKeeps == ASSUME IInv, Exits, Kept PROVE IInv'
<1>1. Live' = Live
  BY DEF Exits, Live
<1>2. TypeOK'
  BY DEF IInv, TypeOK, Exits, Kept, Names
<1>3. NoTempIsForgotten'
  BY <1>1 DEF IInv, NoTempIsForgotten, Exits, Kept
<1>4. UserFilesAreKept'
  BY DEF IInv, UserFilesAreKept, Exits, Kept
<1>5. Shape'
  BY DEF IInv, Shape, Exits, Kept
<1>6. NothingIsRemoved'
  BY <1>1 DEF IInv, NothingIsRemoved, Exits, Kept
<1> QED BY <1>2, <1>3, <1>4, <1>5, <1>6 DEF IInv

\* What is left of the directory when the temporary files are dropped.
LEMMA DropTempsLeaves ==
    ASSUME TypeOK, DropTemps
    PROVE  /\ temps' = NoTemps
           /\ warned \subseteq warned' /\ warned' \subseteq TempNames
           /\ DOMAIN files' \subseteq DOMAIN files
           /\ DOMAIN files' \cap Live \subseteq warned'
           /\ DOMAIN files \ Live \subseteq DOMAIN files'
           /\ \A f \in FileNames : /\ f \in DOMAIN files <=> f \in DOMAIN files'
                                   /\ f \in DOMAIN files => files'[f] = files[f]
<1>1. Live \subseteq TempNames
  BY LiveFiles
<1>2. PICK kept \in SUBSET Live :
        /\ files' = Without(Live \ kept) /\ warned' = warned \cup kept /\ temps' = NoTemps
  BY DEF DropTemps
<1>3. DOMAIN files' = DOMAIN files \ (Live \ kept)
  BY <1>2 DEF Without
<1>4. \A f \in DOMAIN files' : files'[f] = files[f]
  BY <1>2 DEF Without
<1>5. \A f \in FileNames : f \notin Live
  BY <1>1, NameAssumption
<1> QED BY <1>1, <1>2, <1>3, <1>4, <1>5 DEF TypeOK

\* Dropping the temporary files keeps the invariant.
LEMMA DropsKeeps == ASSUME IInv, Drops, Kept PROVE IInv'
<1>1. TypeOK
  BY DEF IInv
<1>2. Live' = {}
  BY <1>1, DropTempsLeaves, NoneLive DEF Drops
<1>3. TypeOK'
  BY <1>1, DropTempsLeaves, NoTempsType DEF TypeOK, Drops, Kept, Names, Places, CompilePhase
<1>4. NoTempIsForgotten'
  BY <1>1, <1>2, DropTempsLeaves DEF IInv, NoTempIsForgotten, Drops, Kept
<1>5. UserFilesAreKept'
  BY <1>1, DropTempsLeaves DEF IInv, UserFilesAreKept, Drops, Kept
<1>6. Shape'
  BY DEF IInv, Shape, Drops, Kept
<1>7. NothingIsRemoved'
  BY <1>1, <1>2, DropTempsLeaves DEF IInv, NothingIsRemoved, Drops, Kept
<1> QED BY <1>3, <1>4, <1>5, <1>6, <1>7 DEF IInv

\* A process that goes on with the compilation.
Compiles ==
    /\ UNCHANGED <<files, driver, temps, warned>>
    /\ lost' \in BOOLEAN
    /\ pc \notin {"writing", "Ok"} /\ pc' \in CompilePhase
    /\ status = "running" /\ status' = status

\* Going on keeps the invariant, if the place knows what it should.
LEMMA CompilesKeeps == ASSUME IInv, Compiles, Kept, Shape' PROVE IInv'
<1>1. Live' = Live
  BY DEF Compiles, Live
<1>2. TypeOK'
  BY DEF IInv, TypeOK, Compiles, Kept, Names, Places
<1>3. NoTempIsForgotten'
  BY <1>1 DEF IInv, NoTempIsForgotten, Compiles, Kept
<1>4. UserFilesAreKept'
  BY DEF IInv, UserFilesAreKept, Compiles, Kept
<1>5. NothingIsRemoved'
  BY <1>1 DEF IInv, NothingIsRemoved, Compiles, Kept
<1> QED BY <1>2, <1>3, <1>4, <1>5 DEF IInv

\* A file is written: a temporary one that is alive, or the outfile when it may be.
Stores(f) ==
    /\ \E lines : files' = Store(f, lines)
    /\ UNCHANGED <<driver, warned>>
    /\ lost' \in BOOLEAN
    /\ temps' \in [DOMAIN NoTemps -> TempNames \cup {NoFile}]
    /\ Live \subseteq Live' /\ Live' \subseteq Live \cup {f}
    /\ f \in Live \/ f \notin Live' \/ f \notin DOMAIN files
    /\ \/ f \in Live'
       \/ f = driver.outfile /\ f # NoFile /\ (driver.optimize => pc' \in {"writing", "Ok"})
    /\ pc \in {"writing", "Ok"} => pc' \in {"writing", "Ok"}
    /\ pc' \in Places
    /\ Live' # {} => pc' \in CompilePhase
    /\ status = "running" /\ status' \in {"running", "exit 1"}

\* Writing keeps the invariant.
LEMMA StoresKeeps == ASSUME IInv, NEW f, Stores(f), Kept, Shape' PROVE IInv'
<1>1. PICK lines : files' = Store(f, lines)
  BY DEF Stores
<1>2. DOMAIN files' = DOMAIN files \cup {f}
  BY <1>1 DEF Store
<1>3. \A g \in DOMAIN files : g # f => files'[g] = files[g]
  BY <1>1 DEF Store
<1>4. Live' \subseteq TempNames
  <2>1. \A owner \in DOMAIN temps' : temps'[owner] \in TempNames \cup {NoFile}
    BY DEF Stores
  <2> QED BY <2>1 DEF Live
<1>5. f \in TempNames \cup FileNames
  BY <1>4 DEF IInv, TypeOK, Stores
<1>6. TypeOK'
  BY <1>2, <1>5 DEF IInv, TypeOK, Stores, Kept, Names
<1>7. NoTempIsForgotten'
  BY <1>2, <1>4, NameAssumption DEF IInv, TypeOK, NoTempIsForgotten, Stores, Kept
<1>8. UserFilesAreKept'
  BY <1>2, <1>3, <1>4, NameAssumption DEF IInv, UserFilesAreKept, Stores, Kept
<1>9. NothingIsRemoved'
  BY <1>2 DEF IInv, NothingIsRemoved, Stores, Kept
<1> QED BY <1>6, <1>7, <1>8, <1>9 DEF IInv

\* A panic keeps the invariant.
LEMMA PanicKeeps == ASSUME IInv, Panic, Kept PROVE IInv'
<1>1. Drops
  BY DEF Panic, Drops, IInv, TypeOK
<1> QED BY <1>1, DropsKeeps

\* Where an action exits, moves on or drops the files under another name.
LEMMA ExitKeeps == ASSUME IInv, Exit, status = "running", files' = files, lost' \in BOOLEAN, Kept PROVE IInv'
<1>1. Exits
  BY DEF Exit, Exits
<1> QED BY <1>1, ExitsKeeps

-----------------------------------------------------------------------------
(***************************************************************************)
(* try_drive.                                                              *)
(***************************************************************************)

\* TempFile::new makes a file that its owner did not have, or panics.
LEMMA CreateTempMakes ==
    ASSUME IInv, NEW owner \in {"stdin", "unoptimized", "compiled"}, NEW place \in CompilePhase,
           CreateTemp(owner, place), ~Panic,
           temps[owner] = NoFile, status = "running", pc \notin {"writing", "Ok"}
    PROVE  \E new \in TempNames : Stores(new) /\ temps' = [temps EXCEPT ![owner] = new] /\ new # NoFile
<1> DEFINE new == CHOOSE t \in TempNames \ DOMAIN files : TRUE
<1>1. /\ TempNames \ DOMAIN files # {}
      /\ files' = Store(new, << >>)
      /\ temps' = [temps EXCEPT ![owner] = new]
      /\ pc' = place /\ status' = status
      /\ UNCHANGED <<driver, made, warned, lost>>
  BY DEF CreateTemp, GoTo
<1>2. new \in TempNames \ DOMAIN files /\ new # NoFile
  BY <1>1, NameAssumption
<1> HIDE DEF new
<1>3. DOMAIN temps = DOMAIN NoTemps /\ owner \in DOMAIN temps
  BY DEF IInv, TypeOK, NoTemps
<1>4. temps' \in [DOMAIN NoTemps -> TempNames \cup {NoFile}]
  BY <1>1, <1>2 DEF IInv, TypeOK
<1>5. Live' = Live \cup {new}
  <2>1. \A o \in DOMAIN temps : temps'[o] = IF o = owner THEN new ELSE temps[o]
    BY <1>1, <1>3
  <2>2. DOMAIN temps' = DOMAIN temps
    BY <1>1
  <2> QED BY <2>1, <2>2, <1>2, <1>3 DEF Live
<1>6. Stores(new)
  BY <1>1, <1>2, <1>4, <1>5 DEF Stores, IInv, TypeOK, Places
<1> QED BY <1>1, <1>2, <1>6

\* Opening a code in RAM format.
LEMMA OpenKeeps == ASSUME IInv, Open, status = "running", Kept PROVE IInv'
<1>1. CASE Exit
  BY <1>1, ExitKeeps DEF Open, IInv, TypeOK
<1>2. CASE ~Exit
  <2>1. PICK result \in {"Ok", "Err"} : GoTo(AfterCode(result)) /\ UNCHANGED <<driver, temps, warned>>
    BY <1>2 DEF Open
  <2>2. AfterCode(result) \in {"optimizing", "Ok", "Err"}
    BY DEF AfterCode
  <2>3. MovesOn
    BY <2>1, <2>2 DEF Open, MovesOn, GoTo, IInv, TypeOK, Places, CompilePhase, Statuses
  <2> QED BY <2>3, MovesOnKeeps
<1> QED BY <1>1, <1>2

\* Typing one.
LEMMA TypingKeeps == ASSUME IInv, StartTyping \/ TypeLine, status = "running", Kept PROVE IInv'
<1>1. AfterCode("Ok") \in {"optimizing", "Ok"} /\ AfterCode("Err") = "Err"
  BY DEF AfterCode
<1>2. pc' \in {"typing", "optimizing", "Ok", "Err"} /\ pc \in {"start", "typing"} /\ status' = status
  <2>1. CASE StartTyping
    BY <2>1 DEF StartTyping, GoTo
  <2>2. CASE TypeLine
    BY <2>2, <1>1 DEF TypeLine, GoTo
  <2> QED BY <2>1, <2>2
<1>3. UNCHANGED <<files, driver, temps, warned, lost>>
  BY DEF StartTyping, TypeLine
<1>4. MovesOn
  BY <1>2, <1>3 DEF MovesOn, IInv, TypeOK, Places, CompilePhase, Statuses
<1> QED BY <1>4, MovesOnKeeps

\* The file for what is typed.
LEMMA StartCompileKeeps == ASSUME IInv, StartCompile, status = "running", Kept PROVE IInv'
<1>1. Live = {}
  BY DEF IInv, NoTempIsForgotten, StartCompile, CompilePhase
<1>2. temps.stdin = NoFile /\ temps.unoptimized = NoFile /\ temps.compiled = NoFile
  BY <1>1, LiveFiles DEF IInv
<1>3. CASE Panic
  BY <1>3, PanicKeeps
<1>4. CASE driver.infile # NoFile
  <2>1. Compiles
    BY <1>4 DEF StartCompile, Compiles, GoTo, IInv, TypeOK, CompilePhase
  <2>2. Shape'
    BY <1>2, <1>4 DEF StartCompile, GoTo, IInv, Shape, Kept
  <2> QED BY <2>1, <2>2, CompilesKeeps
<1>5. CASE driver.infile = NoFile /\ ~Panic
  <2>1. CreateTemp("stdin", "copying")
    BY <1>5 DEF StartCompile
  <2>2. PICK new \in TempNames : Stores(new) /\ temps' = [temps EXCEPT !.stdin = new] /\ new # NoFile
    BY <1>2, <1>5, <2>1, CreateTempMakes DEF StartCompile, CompilePhase
  <2>3. temps'.stdin # NoFile /\ temps'.unoptimized = NoFile /\ temps'.compiled = NoFile
    BY <1>2, <2>2 DEF IInv, TypeOK, NoTemps
  <2>4. pc' = "copying" /\ UNCHANGED <<status, driver>>
    BY <1>5, <2>1 DEF CreateTemp, GoTo
  <2>5. Shape'
    BY <2>3, <2>4 DEF IInv, Shape, Kept
  <2> QED BY <2>2, <2>5, StoresKeeps
<1> QED BY <1>3, <1>4, <1>5

\* What is typed goes to a temporary file.
LEMMA CopyStdinKeeps == ASSUME IInv, CopyStdin, status = "running", Kept PROVE IInv'
<1>1. CASE Exit
  BY <1>1, ExitKeeps DEF CopyStdin, IInv, TypeOK, Exit, GoTo
<1>2. CASE ~Exit
  <2>1. /\ \E lines : files' = Store(temps.stdin, lines)
        /\ pc' = "unoptimized" /\ status' = status
        /\ UNCHANGED <<driver, temps, warned>> /\ lost' \in BOOLEAN
    BY <1>2 DEF CopyStdin, GoTo, IInv, TypeOK
  <2>2. Live' = Live /\ temps.stdin \in Live
    BY <2>1, LiveFiles DEF IInv, Shape, CopyStdin, Live
  <2>3. Stores(temps.stdin)
    BY <2>1, <2>2 DEF Stores, CopyStdin, IInv, TypeOK, Places, CompilePhase
  <2>4. Shape'
    BY <2>1 DEF IInv, Shape, Kept, CopyStdin
  <2> QED BY <2>3, <2>4, StoresKeeps
<1> QED BY <1>1, <1>2

\* The file for the code before it is optimized.
LEMMA CreateUnoptimizedKeeps == ASSUME IInv, CreateUnoptimized, status = "running", Kept PROVE IInv'
<1>2. temps.unoptimized = NoFile /\ temps.compiled = NoFile
  BY DEF IInv, Shape, CreateUnoptimized
<1>3. CASE Panic
  BY <1>3, PanicKeeps
<1>4. CASE ~driver.optimize
  <2>1. Compiles
    BY <1>4 DEF CreateUnoptimized, Compiles, GoTo, IInv, TypeOK, CompilePhase
  <2>2. Shape'
    BY <1>2, <1>4 DEF CreateUnoptimized, GoTo, IInv, Shape, Kept
  <2> QED BY <2>1, <2>2, CompilesKeeps
<1>5. CASE driver.optimize /\ ~Panic
  <2>1. CreateTemp("unoptimized", "compiled")
    BY <1>5 DEF CreateUnoptimized
  <2>2. PICK new \in TempNames : Stores(new) /\ temps' = [temps EXCEPT !.unoptimized = new] /\ new # NoFile
    BY <1>2, <1>5, <2>1, CreateTempMakes DEF CreateUnoptimized, CompilePhase
  <2>3. temps'.unoptimized # NoFile /\ temps'.compiled = NoFile
    BY <1>2, <2>2 DEF IInv, TypeOK, NoTemps
  <2>4. pc' = "compiled" /\ UNCHANGED <<status, driver>>
    BY <1>5, <2>1 DEF CreateTemp, GoTo
  <2>5. Shape'
    BY <2>3, <2>4 DEF IInv, Shape, Kept
  <2> QED BY <2>2, <2>5, StoresKeeps
<1> QED BY <1>3, <1>4, <1>5

\* The file for the code that nobody keeps.
LEMMA CreateCompiledKeeps == ASSUME IInv, CreateCompiled, status = "running", Kept PROVE IInv'
<1>1. driver.optimize => temps.unoptimized # NoFile
  BY DEF IInv, Shape, CreateCompiled
<1>2. temps.compiled = NoFile
  BY DEF IInv, Shape, CreateCompiled
<1>3. CASE Panic
  BY <1>3, PanicKeeps
<1>4. CASE Out # NoFile
  <2>1. Compiles
    BY <1>4 DEF CreateCompiled, Compiles, GoTo, IInv, TypeOK, CompilePhase
  <2>2. Out' = Out
    BY <2>1 DEF Compiles, Out
  <2>3. pc' = "compiling"
    BY <1>4 DEF CreateCompiled, GoTo
  <2>4. Shape'
    BY <1>1, <1>4, <2>1, <2>2, <2>3 DEF Compiles, IInv, Shape, Kept
  <2> QED BY <2>1, <2>4, CompilesKeeps
<1>5. CASE Out = NoFile /\ ~Panic
  <2>1. CreateTemp("compiled", "compiling")
    BY <1>5 DEF CreateCompiled
  <2>2. PICK new \in TempNames : Stores(new) /\ temps' = [temps EXCEPT !.compiled = new] /\ new # NoFile
    BY <1>2, <1>5, <2>1, CreateTempMakes DEF CreateCompiled, CompilePhase
  <2>3. temps'.compiled # NoFile /\ temps'.unoptimized = temps.unoptimized
    BY <2>2 DEF IInv, TypeOK, NoTemps
  <2>4. pc' = "compiling" /\ UNCHANGED <<status, driver>>
    BY <1>5, <2>1 DEF CreateTemp, GoTo
  <2>5. Out' # NoFile
    BY <1>5, <2>3, <2>4 DEF Out
  <2>6. Shape'
    BY <1>1, <2>3, <2>4, <2>5 DEF IInv, Shape, Kept
  <2> QED BY <2>2, <2>6, StoresKeeps
<1> QED BY <1>3, <1>4, <1>5

\* The output of the compiler is a temporary file, or the outfile if nothing is optimized.
LEMMA CompileKeeps == ASSUME IInv, Compile, status = "running", Kept PROVE IInv'
<1>1. /\ \/ files' = files
         \/ \E lines : files' = Store(Out, lines)
      /\ UNCHANGED <<driver, temps, warned>> /\ lost' \in BOOLEAN
      /\ \/ pc' = "compiling" /\ status' = "exit 1"
         \/ pc' = "parsing" /\ status' = status /\ \E lines : files' = Store(Out, lines)
  BY DEF Compile, Exit, GoTo, IInv, TypeOK
<1>2. Live' = Live
  BY <1>1 DEF Live
<1>3. Out \in Live \/ (Out = driver.outfile /\ ~driver.optimize)
  BY LiveFiles DEF IInv, Shape, Compile, Out
<1>4. Out # NoFile
  BY DEF IInv, Shape, Compile
<1>5. Shape'
  BY <1>1 DEF IInv, Shape, Kept, Compile
<1>6. CASE files' = files /\ pc' = "compiling"
  <2>1. Exits
    BY <1>1, <1>6 DEF Exits, Compile
  <2> QED BY <2>1, ExitsKeeps
<1>7. CASE \E lines : files' = Store(Out, lines)
  <2>1. Stores(Out)
    BY <1>1, <1>2, <1>3, <1>4, <1>7 DEF Stores, Compile, IInv, TypeOK, Places, CompilePhase
  <2> QED BY <2>1, <1>5, StoresKeeps
<1> QED BY <1>1, <1>6, <1>7

\* The block that owns the temporary files ends, but for an exit.
LEMMA ParseCompiledKeeps == ASSUME IInv, ParseCompiled, status = "running", Kept PROVE IInv'
<1>1. CASE Exit
  BY <1>1, ExitKeeps DEF ParseCompiled, IInv, TypeOK, Exit, GoTo
<1>2. CASE ~Exit
  <2>1. PICK result \in {"Ok", "Err"} : GoTo(AfterCode(result))
    BY <1>2 DEF ParseCompiled
  <2>2. DropTemps /\ UNCHANGED <<driver, lost>>
    BY <1>2 DEF ParseCompiled
  <2>3. AfterCode(result) \in {"optimizing", "Ok", "Err"}
    BY DEF AfterCode
  <2>4. Drops
    BY <2>1, <2>2, <2>3 DEF Drops, ParseCompiled, GoTo, IInv, TypeOK
  <2> QED BY <2>4, DropsKeeps
<1> QED BY <1>1, <1>2

\* The optimizer.
LEMMA OptimizeKeeps == ASSUME IInv, Optimize, status = "running", Kept PROVE IInv'
<1>1. CASE Panic
  BY <1>1, PanicKeeps
<1>2. CASE ~Panic
  <2>1. MovesOn
    BY <1>2 DEF Optimize, MovesOn, GoTo, IInv, TypeOK, Places, CompilePhase, Statuses
  <2> QED BY <2>1, MovesOnKeeps
<1> QED BY <1>1, <1>2

\* The outfile is written after the compilation.
LEMMA WriteOutfileKeeps == ASSUME IInv, WriteOutfile, status = "running", Kept PROVE IInv'
<1>1. /\ UNCHANGED <<driver, temps, warned>> /\ lost' \in BOOLEAN
      /\ \/ pc' = "writing" /\ status' = "exit 1"
         \/ pc' = "Ok" /\ status' = status
  BY DEF WriteOutfile, Exit, GoTo, IInv, TypeOK
<1>2. Live' = Live
  BY <1>1 DEF Live
<1>3. Live = {}
  BY DEF IInv, NoTempIsForgotten, WriteOutfile, CompilePhase
<1>4. driver.outfile # NoFile
  BY DEF IInv, Shape, WriteOutfile
<1>5. Shape'
  BY <1>1 DEF IInv, Shape, Kept, WriteOutfile
<1>6. CASE Exit /\ files' = files
  BY <1>1, <1>6, ExitKeeps
<1>7. CASE \E lines : files' = Store(driver.outfile, lines)
  <2>1. Stores(driver.outfile)
    BY <1>1, <1>2, <1>3, <1>4, <1>7 DEF Stores, WriteOutfile, IInv, TypeOK, Places
  <2> QED BY <2>1, <1>5, StoresKeeps
<1>8. \/ Exit /\ files' = files
      \/ \E lines : files' = Store(driver.outfile, lines)
  BY DEF WriteOutfile
<1> QED BY <1>6, <1>7, <1>8

\* Every step of try_drive.
LEMMA TryDriveKeeps == ASSUME IInv, TryDrive, Kept PROVE IInv'
<1>1. status = "running"
  BY DEF TryDrive
<1>2. \/ Open \/ StartTyping \/ TypeLine \/ StartCompile \/ CopyStdin \/ CreateUnoptimized
      \/ CreateCompiled \/ Compile \/ ParseCompiled \/ Optimize \/ WriteOutfile
  BY DEF TryDrive
<1> QED BY <1>1, <1>2, OpenKeeps, TypingKeeps, StartCompileKeeps, CopyStdinKeeps, CreateUnoptimizedKeeps,
           CreateCompiledKeeps, CompileKeeps, ParseCompiledKeeps, OptimizeKeeps, WriteOutfileKeeps

\* Where try_drive is, and how it may end the process; it never changes its Driver.
LEMMA TryDrivePlaces ==
    ASSUME TryDrive
    PROVE  /\ status = "running" /\ status' \in {"running", "exit 1", "panic"}
           /\ warned \subseteq warned' /\ driver' = driver
           /\ pc \in CompilePhase \cup {"start", "typing", "optimizing", "writing"}
           /\ pc' \in CompilePhase \cup {"start", "typing", "optimizing", "writing", "Ok", "Err"}
<1>1. status = "running"
  BY DEF TryDrive
<1>2. \A result \in {"Ok", "Err"} : AfterCode(result) \in {"optimizing", "Ok", "Err"}
  BY DEF AfterCode
<1> DEFINE Fine == /\ status' \in {"running", "exit 1", "panic"}
                   /\ warned \subseteq warned' /\ driver' = driver
                   /\ pc \in CompilePhase \cup {"start", "typing", "optimizing", "writing"}
                   /\ pc' \in CompilePhase \cup {"start", "typing", "optimizing", "writing", "Ok", "Err"}
<1>3. ASSUME Panic PROVE status' = "panic" /\ warned \subseteq warned' /\ pc' = pc /\ driver' = driver
  BY <1>3 DEF Panic, DropTemps
<1>4. ASSUME Open PROVE Fine
  BY <1>1, <1>2, <1>4 DEF Open, Exit, GoTo
<1>5. ASSUME StartTyping \/ TypeLine PROVE Fine
  <2>1. CASE StartTyping
    BY <1>1, <2>1 DEF StartTyping, GoTo
  <2>2. CASE TypeLine
    BY <1>1, <1>2, <2>2 DEF TypeLine, GoTo
  <2> QED BY <1>5, <2>1, <2>2
<1>6. ASSUME StartCompile PROVE Fine
  BY <1>1, <1>3, <1>6 DEF StartCompile, CreateTemp, GoTo, CompilePhase
<1>7. ASSUME CopyStdin PROVE Fine
  BY <1>1, <1>7 DEF CopyStdin, Exit, GoTo, CompilePhase
<1>8. ASSUME CreateUnoptimized PROVE Fine
  BY <1>1, <1>3, <1>8 DEF CreateUnoptimized, CreateTemp, GoTo, CompilePhase
<1>9. ASSUME CreateCompiled PROVE Fine
  BY <1>1, <1>3, <1>9 DEF CreateCompiled, CreateTemp, GoTo, CompilePhase
<1>10. ASSUME Compile PROVE Fine
  BY <1>1, <1>10 DEF Compile, Exit, GoTo, CompilePhase
<1>11. ASSUME ParseCompiled PROVE Fine
  <2>1. CASE Exit
    BY <1>11, <2>1 DEF ParseCompiled, Exit, CompilePhase
  <2>2. CASE ~Exit
    <3>1. PICK result \in {"Ok", "Err"} : GoTo(AfterCode(result))
      BY <1>11, <2>2 DEF ParseCompiled
    <3>2. warned \subseteq warned' /\ pc = "parsing" /\ driver' = driver
      BY <1>11, <2>2 DEF ParseCompiled, DropTemps
    <3> QED BY <1>1, <1>2, <3>1, <3>2 DEF GoTo, CompilePhase
  <2> QED BY <2>1, <2>2
<1>12. ASSUME Optimize PROVE Fine
  BY <1>1, <1>3, <1>12 DEF Optimize, GoTo
<1>13. ASSUME WriteOutfile PROVE Fine
  BY <1>1, <1>13 DEF WriteOutfile, Exit, GoTo
<1>14. Fine
  BY <1>4, <1>5, <1>6, <1>7, <1>8, <1>9, <1>10, <1>11, <1>12, <1>13 DEF TryDrive
<1> HIDE DEF Fine
<1> QED BY <1>1, <1>14 DEF Fine

-----------------------------------------------------------------------------
(***************************************************************************)
(* The commands.                                                           *)
(***************************************************************************)

\* An action that ends the process outside of the compilation.
LEMMA EndKeeps ==
    ASSUME IInv, NEW how \in Statuses, End(how), status = "running", pc \notin CompilePhase, Kept
    PROVE  IInv'
<1>1. MovesOn
  BY DEF End, MovesOn, IInv, TypeOK, Shape
<1> QED BY <1>1, MovesOnKeeps

\* A new process finds the directory as it is and owns no temporary file.
LEMMA StartJobKeeps == ASSUME IInv, StartJob PROVE IInv'
<1>1. PICK j \in Jobs : /\ job' = j
                        /\ driver' = DriverOf(j)
                        /\ pc' = IF j.cmd = "test" THEN "scan" ELSE "start"
  BY DEF StartJob
<1>2. /\ files' = files /\ before' = files /\ status' = "running" /\ lost' = FALSE
      /\ started' = started + 1 /\ started < MaxJobs
      /\ temps' = NoTemps /\ warned' = {}
  BY DEF StartJob
<1>3. /\ j.cmd \in {"cc", "opt", "run", "test"}
      /\ {j.infile, j.outfile} \subseteq FileNames \cup {NoFile}
      /\ {j.compile, j.optimize} \subseteq BOOLEAN
  BY JobAssumption
<1>4. /\ driver'.infile \in FileNames \cup {NoFile} /\ driver'.outfile \in FileNames \cup {NoFile}
      /\ driver'.compile \in BOOLEAN /\ driver'.optimize \in BOOLEAN
      /\ j.cmd \in {"run", "test"} => driver'.outfile = NoFile
  <2>1. CASE j.cmd = "cc"
    BY <1>1, <1>3, <2>1 DEF DriverOf, NewDriver
  <2>2. CASE j.cmd = "opt"
    BY <1>1, <1>3, <2>2 DEF DriverOf, NewDriver
  <2>3. CASE j.cmd = "run"
    BY <1>1, <1>3, <2>3 DEF DriverOf, NewDriver
  <2>4. CASE j.cmd = "test"
    BY <1>1, <1>3, <2>4 DEF DriverOf, NewDriver
  <2> QED BY <1>3, <2>1, <2>2, <2>3, <2>4
<1>5. Live' = {}
  BY <1>2, NoneLive
<1>6. started' \in 0..MaxJobs
  <2>1. MaxJobs \in Nat
    BY JobAssumption
  <2>2. started \in 0..MaxJobs
    BY DEF IInv, TypeOK
  <2> QED BY <1>2, <2>1, <2>2
<1>7. TypeOK'
  BY <1>1, <1>2, <1>4, <1>6, NoTempsType DEF IInv, TypeOK, Names, Places
<1>8. NoTempIsForgotten'
  BY <1>2, <1>5 DEF NoTempIsForgotten
<1>9. UserFilesAreKept'
  BY <1>2 DEF UserFilesAreKept
<1>10. Shape'
  BY <1>1, <1>2, <1>4 DEF Shape
<1>11. NothingIsRemoved'
  BY <1>2, <1>5 DEF NothingIsRemoved
<1> QED BY <1>7, <1>8, <1>9, <1>10, <1>11 DEF IInv

\* rame-run changes no file.
LEMMA RunKeeps ==
    ASSUME IInv, Poly \/ ReadArg \/ AskTerminal \/ ReadTerminal \/ RunEnds, status = "running", Kept
    PROVE  IInv'
<1>1. CASE Panic
  BY <1>1, PanicKeeps
<1>2. pc \notin CompilePhase
  BY DEF Poly, ReadArg, AskTerminal, ReadTerminal, RunEnds, CompilePhase
<1>3. CASE \E how \in Statuses : End(how)
  BY <1>2, <1>3, EndKeeps
<1>4. CASE ~Panic /\ ~\E how \in Statuses : End(how)
  <2>1. /\ UNCHANGED <<files, driver, temps, warned, lost, status>>
        /\ pc \in {"running", "reading", "Ok"} /\ (pc = "Ok" => job.cmd = "run")
        /\ pc' \in {"running", "reading"}
    <3>1. CASE Poly
      BY <1>4, <3>1 DEF Poly, GoTo, Statuses
    <3>2. CASE ReadArg
      BY <1>4, <3>2 DEF ReadArg, drivervars
    <3>3. CASE AskTerminal
      BY <1>4, <3>3 DEF AskTerminal, GoTo
    <3>4. CASE ReadTerminal
      BY <1>4, <3>4 DEF ReadTerminal, GoTo, drivervars, Statuses
    <3>5. CASE RunEnds
      BY <1>4, <3>5 DEF RunEnds, Statuses
    <3> QED BY <3>1, <3>2, <3>3, <3>4, <3>5
  <2>2. MovesOn
    BY <2>1 DEF MovesOn, IInv, TypeOK, Shape, Places, CompilePhase, Statuses
  <2> QED BY <2>2, MovesOnKeeps
<1> QED BY <1>1, <1>3, <1>4

\* rame-test forgets the file that it tests and goes on, or ends.
LEMMA FileResultMoves ==
    ASSUME NEW ok, FileResult(ok)
    PROVE  /\ pc' \in {"scan", pc}
           /\ status' \in {"failure", status}
BY DEF FileResult, PathResult, GoTo

\* The steps of rame-test that change neither a file nor the Driver.
LEMMA ScanKeeps ==
    ASSUME IInv, status = "running", Kept,
           \/ ScanPath \/ ScanDir \/ ScanEntry \/ ScanDirEnds \/ ScanEnds
           \/ CompileFailed \/ StartTests \/ RunTest \/ TestsEnd
    PROVE  IInv'
<1>1. CASE Panic
  BY <1>1, PanicKeeps
<1>2. pc \notin CompilePhase
  BY DEF ScanPath, ScanDir, ScanEntry, ScanDirEnds, ScanEnds, CompileFailed, StartTests, RunTest,
         TestsEnd, CompilePhase
<1>3. CASE \E how \in Statuses : End(how)
  BY <1>2, <1>3, EndKeeps
<1>4. CASE ~Panic /\ ~\E how \in Statuses : End(how)
  <2>1. /\ UNCHANGED <<files, driver, temps, warned, lost>>
        /\ pc \in {"scan", "testing", "Ok", "Err"} /\ (pc \in {"Ok", "Err"} => job.cmd = "test")
        /\ pc' \in {"scan", "headers", "testing", pc}
        /\ status' \in {"running", "failure"}
    <3>1. CASE ScanPath
      BY <3>1 DEF ScanPath
    <3>2. CASE ScanEntry
      BY <1>4, <3>2 DEF ScanEntry, GoTo
    <3>3. CASE ScanDirEnds
      BY <3>3 DEF ScanDirEnds, PathResult, GoTo
    <3>4. CASE ScanEnds
      BY <1>4, <3>4 DEF ScanEnds, Statuses
    <3>5. CASE CompileFailed
      BY <3>5, FileResultMoves DEF CompileFailed
    <3>6. CASE StartTests
      BY <1>4, <3>6 DEF StartTests, GoTo
    <3>7. CASE RunTest
      <4>1. UNCHANGED drivervars
        BY <1>4, <3>7 DEF RunTest, Statuses
      <4>2. pc = "testing"
        BY <3>7 DEF RunTest
      <4>3. UNCHANGED <<files, driver, temps, warned, lost, pc, status>>
        BY <4>1 DEF drivervars
      <4>4. pc' = "testing" /\ status' = "running"
        BY <4>2, <4>3
      <4> QED BY <4>2, <4>3, <4>4
    <3>8. CASE TestsEnd
      BY <3>8, FileResultMoves DEF TestsEnd
    <3>9. CASE ScanDir
      <4>1. \/ UNCHANGED drivervars
            \/ PathResult(FALSE) /\ UNCHANGED <<files, driver, temps, warned, lost>>
        BY <1>4, <3>9 DEF ScanDir
      <4>2. pc = "scan"
        BY <3>9 DEF ScanDir
      <4> QED BY <4>1, <4>2 DEF PathResult, drivervars
    <3> QED BY <3>1, <3>2, <3>3, <3>4, <3>5, <3>6, <3>7, <3>8, <3>9
  <2>2. MovesOn
    BY <2>1 DEF MovesOn, IInv, TypeOK, Shape, Places, CompilePhase, Statuses
  <2> QED BY <2>2, MovesOnKeeps
<1> QED BY <1>1, <1>3, <1>4

\* The file whose headers are right is compiled, without an outfile.
LEMMA HeadersKeeps == ASSUME IInv, Headers, status = "running", Kept PROVE IInv'
<1>1. CASE Panic
  BY <1>1, PanicKeeps
<1>2. pc = "headers" /\ pc \notin CompilePhase
  BY DEF Headers, CompilePhase
<1>3. CASE End("exit 1")
  BY <1>2, <1>3, EndKeeps DEF Statuses
<1>4. CASE FileResult(FALSE) /\ UNCHANGED <<files, driver, temps, warned, lost>>
  <2>1. pc' \in {"scan", "headers"} /\ status' \in {"running", "failure"}
    BY <1>2, <1>4, FileResultMoves
  <2>2. MovesOn
    BY <1>2, <1>4, <2>1 DEF MovesOn, IInv, TypeOK, Shape, Places, CompilePhase, Statuses
  <2> QED BY <2>2, MovesOnKeeps
<1>5. CASE /\ Tests(scan.file) # {}
           /\ driver' = NewDriver(scan.file, NoFile, TRUE, FALSE)
           /\ GoTo("start")
           /\ UNCHANGED <<files, temps, warned, lost>>
  <2>1. scan.file \in DOMAIN files
    BY <1>5 DEF Tests, LinesOf
  <2>2. /\ driver'.infile \in Names /\ driver'.outfile = NoFile
        /\ driver'.compile = TRUE /\ driver'.optimize = FALSE
    BY <1>5, <2>1 DEF NewDriver, IInv, TypeOK
  <2>3. pc' = "start" /\ status' = status
    BY <1>5 DEF GoTo
  <2>4. Live = {} /\ Live' = {}
    BY <1>2, <1>5 DEF IInv, NoTempIsForgotten, Live
  <2>5. driver.outfile = NoFile
    BY <1>2 DEF IInv, Shape
  <2>6. TypeOK'
    BY <1>5, <2>2, <2>3 DEF IInv, TypeOK, Kept, Names, Places
  <2>7. NoTempIsForgotten'
    BY <1>5, <2>4 DEF IInv, NoTempIsForgotten, Kept
  <2>8. UserFilesAreKept'
    BY <1>5, <2>2, <2>5, NameAssumption DEF IInv, UserFilesAreKept, Kept
  <2>9. Shape'
    BY <2>2, <2>3 DEF IInv, Shape, Kept
  <2>10. NothingIsRemoved'
    BY <1>5, <2>4 DEF IInv, NothingIsRemoved, Kept
  <2> QED BY <2>6, <2>7, <2>8, <2>9, <2>10 DEF IInv
<1>6. \/ FileResult(FALSE) /\ UNCHANGED <<files, driver, temps, warned, lost>>
      \/ End("exit 1") \/ Panic
      \/ /\ Tests(scan.file) # {}
         /\ driver' = NewDriver(scan.file, NoFile, TRUE, FALSE)
         /\ GoTo("start")
         /\ UNCHANGED <<files, temps, warned, lost>>
  BY DEF Headers
<1> QED BY <1>1, <1>3, <1>4, <1>5, <1>6

\* Every step keeps the invariant.
LEMMA NextKeeps == IInv /\ [Next]_vars => IInv'
<1> SUFFICES ASSUME IInv, [Next]_vars PROVE IInv'
  OBVIOUS
<1>1. CASE StartJob
  BY <1>1, StartJobKeeps
<1>2. CASE Continue
  <2>1. Kept
    BY <1>2 DEF Continue, Kept
  <2>2. CASE TryDrive
    BY <2>1, <2>2, TryDriveKeeps
  <2>3. CASE ~TryDrive
    <3>1. status = "running"
      BY <1>2, <2>3 DEF Continue, Ended
    <3>2. CASE Return \/ DriveFails
      <4>1. pc \notin CompilePhase /\ \E how \in Statuses : End(how)
        BY <3>2 DEF Return, DriveFails, CompilePhase, Statuses
      <4> QED BY <2>1, <3>1, <4>1, EndKeeps
    <3>3. CASE Poly \/ ReadArg \/ AskTerminal \/ ReadTerminal \/ RunEnds
      BY <2>1, <3>1, <3>3, RunKeeps
    <3>4. CASE Headers
      BY <2>1, <3>1, <3>4, HeadersKeeps
    <3>5. CASE \/ ScanPath \/ ScanDir \/ ScanEntry \/ ScanDirEnds \/ ScanEnds
               \/ CompileFailed \/ StartTests \/ RunTest \/ TestsEnd
      BY <2>1, <3>1, <3>5, ScanKeeps
    <3> QED BY <1>2, <2>3, <3>2, <3>3, <3>4, <3>5 DEF Continue
  <2> QED BY <2>2, <2>3
<1>3. CASE UNCHANGED vars
  <2>1. /\ UNCHANGED <<files, driver, pc, temps, made, status, warned, lost, job, before, started>>
    BY <1>3 DEF vars, drivervars
  <2>2. Live' = Live /\ Out' = Out
    BY <2>1 DEF Live, Out
  <2>3. TypeOK' /\ NoTempIsForgotten'
    BY <2>1, <2>2 DEF IInv, TypeOK, NoTempIsForgotten, Names
  <2>4. UserFilesAreKept' /\ Shape' /\ NothingIsRemoved'
    BY <2>1, <2>2 DEF IInv, UserFilesAreKept, Shape, NothingIsRemoved
  <2> QED BY <2>3, <2>4 DEF IInv
<1> QED BY <1>1, <1>2, <1>3 DEF Next

\* Every directory of the user satisfies it.
LEMMA InitKeeps == Init => IInv
<1> SUFFICES ASSUME Init PROVE IInv
  OBVIOUS
<1>1. Live = {}
  BY DEF Init, Live, NoTemps
<1>2. DOMAIN files \subseteq FileNames
  BY DirectoryAssumption DEF Init
<1>3. TypeOK
  <2>1. driver.infile = NoFile /\ driver.outfile = NoFile
    BY DEF Init, NewDriver
  <2>2. {driver.compile, driver.optimize, lost} \subseteq BOOLEAN
    BY DEF Init, NewDriver
  <2>3. temps \in [DOMAIN NoTemps -> TempNames \cup {NoFile}]
    BY NoTempsType DEF Init
  <2>4. started \in 0..MaxJobs
    BY JobAssumption DEF Init
  <2>5. pc = "start" /\ status = "none" /\ warned = {}
    BY DEF Init
  <2> QED BY <1>2, <2>1, <2>2, <2>3, <2>4, <2>5 DEF TypeOK, Names, Places
<1>4. NoTempIsForgotten
  BY <1>1 DEF Init, NoTempIsForgotten
<1>5. UserFilesAreKept /\ Shape
  BY DEF Init, UserFilesAreKept, Shape, NewDriver
<1>6. NothingIsRemoved
  BY <1>1 DEF Init, NothingIsRemoved
<1> QED BY <1>3, <1>4, <1>5, <1>6 DEF IInv

-----------------------------------------------------------------------------
(***************************************************************************)
(* The verdict of rame-test.                                               *)
(***************************************************************************)

\* What the k-th path asks for, the paths done or begun, and the file that is tested now.
Asked(k) == IF job.paths[k] = Dot THEN DOMAIN before \cup {Dot} ELSE {job.paths[k]}
Begun == Len(job.paths) - Len(scan.paths)
AtWork == IF pc = "scan" THEN {} ELSE {scan.file}
Busy == pc # "scan" \/ scan.inDir

\* The files whose failure makes rame-test fail.
Suspects == AskedFiles \cup Leftovers

\* In a directory, one file is known to have failed.
Broken == scan.inDir /\ ~scan.dirOk

\* What scan remembers is a position in the paths.
Position ==
    /\ pc \notin {"running", "reading"}
    /\ scan = [paths |-> scan.paths, inDir |-> scan.inDir, entries |-> scan.entries, listed |-> scan.listed,
               dirOk |-> scan.dirOk, file |-> scan.file, ok |-> scan.ok, left |-> scan.left,
               opt |-> scan.opt]
    /\ {scan.inDir, scan.dirOk, scan.ok} \subseteq BOOLEAN
    /\ Begun \in 0..Len(job.paths)
    /\ scan.paths = SubSeq(job.paths, Begun + 1, Len(job.paths))
    /\ Begun = 0 => ~Busy
    /\ Busy => (scan.inDir <=> job.paths[Begun] = Dot)
    /\ Busy /\ ~scan.inDir => scan.file = job.paths[Begun]

\* Every file that was tested passed, unless the result of the directory is settled.
Tested ==
    /\ AtWork \subseteq Suspects
    /\ scan.inDir => AtWork \subseteq scan.listed /\ Dot \notin scan.listed
    /\ scan.inDir /\ scan.dirOk => DOMAIN before \subseteq clean \cup scan.entries \cup AtWork
    /\ Broken => \E f \in (Suspects \cap scan.listed) \ clean : f \notin AtWork
    /\ ~Broken => \A k \in 1..Begun : k < Begun \/ ~Busy => Asked(k) \subseteq clean \cup AtWork
    /\ pc = "testing" => (scan.ok <=> scan.file \in clean)
    /\ pc \notin {"scan", "headers", "testing"} => scan.file \notin clean

VInv ==
    /\ job \in Jobs \cup {NoJob}
    /\ VerdictIsRight
    /\ job.cmd = "test" /\ status = "running" => Position /\ Tested

\* The paths of a command line are files and directories.
LEMMA PathsAreNames ==
    ASSUME job \in Jobs \cup {NoJob}, job.cmd = "test"
    PROVE  job.paths \in Seq(FileNames \cup {Dot})
BY JobAssumption DEF NoJob

\* The files of each path are asked for.
LEMMA AskedIsAskedFor ==
    ASSUME NEW k \in DOMAIN job.paths
    PROVE  Asked(k) \subseteq AskedFiles
BY DEF Asked, AskedFiles

\* Who was suspected still is.
LEMMA SuspectsStay ==
    ASSUME Kept, warned \subseteq warned'
    PROVE  Suspects \subseteq Suspects'
BY DEF Suspects, AskedFiles, Leftovers, Kept

\* Nothing but the file at work changed, and the driver works on it.
Works ==
    /\ job.cmd = "test" /\ status = "running" /\ status' \in {"running", "exit 1", "panic"}
    /\ Kept /\ UNCHANGED <<scan, clean>> /\ warned \subseteq warned'
    /\ pc \notin {"scan", "headers", "testing", "running", "reading"}
    /\ pc' \notin {"scan", "headers", "testing", "running", "reading"}

\* What try_drive does is no business of the scan.
LEMMA WorksKeeps == ASSUME VInv, Works PROVE VInv'
<1>1. Suspects \subseteq Suspects'
  BY SuspectsStay DEF Works
<1>2. Begun' = Begun /\ AtWork' = AtWork /\ Busy' = Busy /\ Broken' = Broken
  BY DEF Works, Kept, Begun, AtWork, Busy, Broken
<1>3. \A k : Asked(k)' = Asked(k)
  BY DEF Works, Kept, Asked
<1>4. Position /\ Tested
  BY DEF VInv, Works
<1>5. Begun # 0
  BY <1>4 DEF Position, Busy, Works
<1>6. Position'
  BY <1>2, <1>4, <1>5 DEF Position, Works, Kept
<1>7. Tested'
  BY <1>1, <1>2, <1>3, <1>4 DEF Tested, Works, Kept
<1>8. VerdictIsRight'
  BY DEF VerdictIsRight, Works
<1> QED BY <1>6, <1>7, <1>8 DEF VInv, Works, Kept

\* Every step of try_drive is such work.
LEMMA TryDriveWorks ==
    ASSUME TryDrive, Kept, UNCHANGED <<given, scan, clean>>, job.cmd = "test"
    PROVE  Works
BY TryDrivePlaces DEF Works, CompilePhase

\* The result of a file is noted: clean says whether it is good.
LEMMA ResultKeeps ==
    ASSUME VInv, job.cmd = "test", status = "running", Kept, UNCHANGED warned,
           pc \in {"headers", "testing", "Err"},
           clean' \in {clean, clean \ {scan.file}},
           NEW ok \in BOOLEAN, FileResult(ok), ok <=> scan.file \in clean'
    PROVE  VInv'
<1>1. Suspects = Suspects'
  BY DEF Suspects, AskedFiles, Leftovers, Kept
<1>2. \A k : Asked(k)' = Asked(k)
  BY DEF Kept, Asked
<1>3. Position /\ Tested
  BY DEF VInv
<1>4. AtWork = {scan.file} /\ Busy /\ Begun # 0
  BY <1>3 DEF AtWork, Busy, Position
<1>5. scan.file \in Suspects
  BY <1>3, <1>4 DEF Tested
<1>6. CASE scan.inDir
  <2>1. /\ scan' = [scan EXCEPT !.dirOk = @ /\ ok]
        /\ pc' = "scan" /\ status' = "running"
    BY <1>6 DEF FileResult, GoTo
  <2>2. /\ scan'.paths = scan.paths /\ scan'.inDir = scan.inDir /\ scan'.entries = scan.entries
        /\ scan'.listed = scan.listed
        /\ scan'.dirOk = (scan.dirOk /\ ok) /\ scan'.file = scan.file /\ scan'.ok = scan.ok
        /\ scan' = [paths |-> scan.paths, inDir |-> scan.inDir, entries |-> scan.entries, listed |-> scan.listed,
                    dirOk |-> (scan.dirOk /\ ok), file |-> scan.file, ok |-> scan.ok,
                    left |-> scan.left, opt |-> scan.opt]
    BY <1>3, <2>1 DEF Position
  <2>3. Begun' = Begun /\ AtWork' = {} /\ Busy' /\ Broken' = (Broken \/ ~ok)
    BY <1>3, <1>6, <2>1, <2>2 DEF Begun, AtWork, Busy, Broken, Kept, Position
  <2>4. Position'
    BY <1>3, <1>4, <1>6, <2>1, <2>2, <2>3 DEF Position, Kept
  <2>5. Broken' => \E f \in (Suspects' \cap scan'.listed) \ clean' : f \notin AtWork'
    <3>1. CASE Broken
      BY <1>1, <1>3, <1>4, <2>2, <2>3, <3>1 DEF Tested
    <3>2. CASE ~ok
      BY <1>1, <1>3, <1>4, <1>5, <1>6, <2>2, <2>3, <3>2 DEF Tested
    <3> QED BY <2>3, <3>1, <3>2
  <2>6. scan'.inDir /\ scan'.dirOk => DOMAIN before' \subseteq clean' \cup scan'.entries \cup AtWork'
    BY <1>3, <1>4, <2>2, <2>3 DEF Tested, Kept
  <2>7. ~Broken' => \A k \in 1..Begun' : k < Begun' \/ ~Busy' => Asked(k)' \subseteq clean' \cup AtWork'
    BY <1>2, <1>3, <1>4, <2>3 DEF Tested
  <2>8. Tested'
    BY <1>1, <1>3, <1>6, <2>1, <2>2, <2>3, <2>5, <2>6, <2>7 DEF Tested
  <2> QED BY <2>1, <2>4, <2>8 DEF VInv, Kept, VerdictIsRight
<1>7. CASE ~scan.inDir /\ ~ok
  <2>1. status' = "failure"
    BY <1>7 DEF FileResult, PathResult
  <2>2. ~(Suspects' \subseteq clean')
    BY <1>1, <1>5, <1>7
  <2> QED BY <2>1, <2>2 DEF VInv, Kept, VerdictIsRight, Suspects
<1>8. CASE ~scan.inDir /\ ok
  <2>1. pc' = "scan" /\ status' = "running" /\ scan' = scan
    BY <1>8 DEF FileResult, PathResult, GoTo
  <2>2. Begun' = Begun /\ AtWork' = {} /\ ~Busy' /\ ~Broken /\ ~Broken'
    BY <1>8, <2>1 DEF Begun, AtWork, Busy, Broken, Kept
  <2>3. Position'
    BY <1>3, <1>4, <2>1, <2>2 DEF Position, Kept
  <2>4. Asked(Begun) = {scan.file}
    BY <1>3, <1>4, <1>8 DEF Position, Asked
  <2>5. \A k \in 1..Begun : Asked(k) \subseteq clean'
    BY <1>3, <1>4, <1>8, <2>2, <2>4 DEF Tested, Position
  <2>6. Tested'
    BY <1>1, <1>2, <1>8, <2>1, <2>2, <2>5 DEF Tested
  <2> QED BY <2>1, <2>3, <2>6 DEF VInv, Kept, VerdictIsRight
<1> QED BY <1>6, <1>7, <1>8

\* Of l paths, one more is done.
LEMMA OneMore == ASSUME NEW l \in Nat, NEW n \in Nat PROVE l - (l - (n + 1)) = n + 1
OBVIOUS

\* The rest of the paths after the next.
LEMMA NextPath ==
    ASSUME NEW S, NEW s \in Seq(S), NEW n \in 0..Len(s), SubSeq(s, n + 1, Len(s)) # << >>
    PROVE  /\ n < Len(s)
           /\ Head(SubSeq(s, n + 1, Len(s))) = s[n + 1]
           /\ Tail(SubSeq(s, n + 1, Len(s))) = SubSeq(s, n + 2, Len(s))
           /\ Len(Tail(SubSeq(s, n + 1, Len(s)))) = Len(s) - (n + 1)
<1>1. Len(s) \in Nat /\ n \in Nat /\ n <= Len(s)
  OBVIOUS
<1>2. n < Len(s)
  <2>1. CASE n = Len(s)
    BY <1>1, <2>1, SubSeqEmpty
  <2> QED BY <1>1, <2>1
<1>3. \A i \in 1..Len(s) : s[i] \in S
  OBVIOUS
<1>4. n + 1 \in 1..Len(s) /\ Len(s) \in (n + 1)..Len(s) /\ (n + 1) + 1 = n + 2
  BY <1>1, <1>2
<1>5. /\ Head(SubSeq(s, n + 1, Len(s))) = s[n + 1]
      /\ Tail(SubSeq(s, n + 1, Len(s))) = SubSeq(s, (n + 1) + 1, Len(s))
  BY <1>4, HeadTailOfSubSeq
<1>6. Len(SubSeq(s, n + 2, Len(s))) = IF n + 2 <= Len(s) THEN Len(s) - (n + 2) + 1 ELSE 0
  <2>1. \A i \in (n + 2)..Len(s) : s[i] \in S
    BY <1>1, <1>3
  <2> QED BY <1>1, <2>1, SubSeqProperties
<1> QED BY <1>1, <1>2, <1>4, <1>5, <1>6

\* Outside of the compilation, rame-test finds in the directory what was there and what it
\* could not remove.
LEMMA DirectoryHolds ==
    ASSUME IInv, job.cmd = "test", pc \notin CompilePhase
    PROVE  /\ DOMAIN before \subseteq DOMAIN files
           /\ DOMAIN files \subseteq DOMAIN before \cup warned
<1>1. driver.outfile = NoFile
  BY DEF IInv, Shape
<1>2. Live = {}
  BY DEF IInv, NoTempIsForgotten
<1>3. \A f \in FileNames : f \in DOMAIN files => f \in DOMAIN before
  BY <1>1, NameAssumption DEF IInv, UserFilesAreKept
<1> QED BY <1>2, <1>3 DEF IInv, TypeOK, Names, NoTempIsForgotten, NothingIsRemoved

\* The next path.
LEMMA ScanPathJudges ==
    ASSUME IInv, VInv, job.cmd = "test", status = "running", Kept, ScanPath \/ ScanDir, ~Panic
    PROVE  VInv'
<1>1. Suspects = Suspects' /\ \A k : Asked(k)' = Asked(k)
  <2>1. UNCHANGED <<warned, before, job>>
    BY DEF ScanPath, ScanDir, Kept, drivervars
  <2> QED BY <2>1 DEF Suspects, AskedFiles, Leftovers, Asked
<1>2. Position /\ Tested /\ job.paths \in Seq(FileNames \cup {Dot})
  BY PathsAreNames DEF VInv
<1>3. pc = "scan" /\ ~scan.inDir /\ ~Busy /\ ~Broken /\ AtWork = {}
  BY DEF ScanPath, ScanDir, Busy, Broken, AtWork
<1>4. Begun \in 0..Len(job.paths) /\ scan.paths = SubSeq(job.paths, Begun + 1, Len(job.paths)) /\ scan.paths # << >>
  BY <1>2 DEF Position, ScanPath, ScanDir
<1>5. /\ Begun < Len(job.paths)
      /\ Head(scan.paths) = job.paths[Begun + 1]
      /\ Tail(scan.paths) = SubSeq(job.paths, Begun + 2, Len(job.paths))
      /\ Len(Tail(scan.paths)) = Len(job.paths) - (Begun + 1)
  <2> DEFINE n == Begun
  <2>1. n \in 0..Len(job.paths) /\ SubSeq(job.paths, n + 1, Len(job.paths)) # << >>
    BY <1>4
  <2> HIDE DEF n
  <2>2. /\ n < Len(job.paths)
        /\ Head(SubSeq(job.paths, n + 1, Len(job.paths))) = job.paths[n + 1]
        /\ Tail(SubSeq(job.paths, n + 1, Len(job.paths))) = SubSeq(job.paths, n + 2, Len(job.paths))
        /\ Len(Tail(SubSeq(job.paths, n + 1, Len(job.paths)))) = Len(job.paths) - (n + 1)
    BY <1>2, <2>1, NextPath
  <2> QED BY <1>4, <2>2 DEF n
<1>6. Len(job.paths) \in Nat /\ Begun \in Nat /\ Begun + 1 \in DOMAIN job.paths
  BY <1>2, <1>4, <1>5
<1>7. Asked(Begun + 1) \subseteq Suspects
  BY <1>6, AskedIsAskedFor DEF Suspects
<1>8. \A k \in 1..Begun : Asked(k) \subseteq clean
  BY <1>2, <1>3 DEF Tested
<1>9. job' = job /\ warned' = warned /\ before' = before
  BY DEF ScanPath, ScanDir, Kept, drivervars
<1>10. PICK path, rest : path = Head(scan.paths) /\ rest = Tail(scan.paths)
  OBVIOUS
<1>11. /\ path = job.paths[Begun + 1] /\ rest = SubSeq(job.paths, (Begun + 1) + 1, Len(job.paths))
       /\ Len(job.paths) - Len(rest) = Begun + 1
       /\ Begun + 1 \in 0..Len(job.paths) /\ Begun + 1 # 0
  <2>1. (Begun + 1) + 1 = Begun + 2 /\ Begun + 1 \in 0..Len(job.paths) /\ Begun + 1 # 0
    BY <1>5, <1>6
  <2>2. Len(job.paths) - (Len(job.paths) - (Begun + 1)) = Begun + 1
    BY <1>6, OneMore
  <2> QED BY <1>5, <1>10, <2>1, <2>2
<1>12. CASE path = Dot /\ scan' # scan
  <2>1. /\ scan' = [scan EXCEPT !.paths = rest, !.inDir = TRUE, !.entries = DOMAIN files,
                                !.listed = {}, !.dirOk = TRUE]
        /\ pc' = "scan" /\ status' = "running" /\ clean' = clean
    BY <1>3, <1>10, <1>12 DEF ScanPath, ScanDir, drivervars
  <2>2. scan' = [paths |-> rest, inDir |-> TRUE, entries |-> DOMAIN files, listed |-> {},
                 dirOk |-> TRUE, file |-> scan.file, ok |-> scan.ok, left |-> scan.left,
                 opt |-> scan.opt]
    BY <1>2, <2>1 DEF Position
  <2>3. Begun' = Begun + 1 /\ AtWork' = {} /\ Busy' /\ ~Broken'
    <3>1. Begun' = Len(job.paths) - Len(rest)
      BY <1>9, <2>2 DEF Begun
    <3>2. Begun' = Begun + 1
      BY <1>11, <3>1
    <3> QED BY <2>1, <2>2, <3>2 DEF AtWork, Busy, Broken
  <2>4. Position'
    BY <1>2, <1>9, <1>11, <1>12, <2>1, <2>2, <2>3 DEF Position
  <2>5. DOMAIN before \subseteq DOMAIN files
    BY <1>3, DirectoryHolds DEF CompilePhase
  <2>6. Tested'
    BY <1>1, <1>7, <1>8, <1>9, <2>1, <2>2, <2>3, <2>5, <1>6 DEF Tested
  <2> QED BY <1>9, <2>1, <2>4, <2>6 DEF VInv, VerdictIsRight
<1>13. CASE path = Dot /\ scan' = scan
  <2>1. status' = "failure" /\ clean' = clean \ {Dot}
    <3>1. scan' # [scan EXCEPT !.paths = Tail(@), !.inDir = TRUE, !.entries = DOMAIN files,
                               !.listed = {}, !.dirOk = TRUE]
      <4>1. scan = [paths |-> scan.paths, inDir |-> FALSE, entries |-> scan.entries,
                    listed |-> scan.listed, dirOk |-> scan.dirOk, file |-> scan.file,
                    ok |-> scan.ok, left |-> scan.left, opt |-> scan.opt]
        BY <1>2, <1>3 DEF Position
      <4>2. [scan EXCEPT !.paths = Tail(@), !.inDir = TRUE, !.entries = DOMAIN files,
                         !.listed = {}, !.dirOk = TRUE].inDir = TRUE
        BY <4>1
      <4> QED BY <1>3, <1>13, <4>2
    <3> QED BY <1>10, <1>13, <3>1 DEF ScanPath, ScanDir, PathResult
  <2>2. Dot \in Suspects'
    BY <1>1, <1>7, <1>11, <1>13 DEF Asked
  <2> QED BY <1>9, <2>1, <2>2 DEF VInv, VerdictIsRight, Suspects
<1>14. CASE path # Dot
  <2>1. /\ scan' = [scan EXCEPT !.paths = rest, !.file = path]
        /\ pc' = "headers" /\ status' = "running" /\ clean' = clean
    BY <1>10, <1>14 DEF ScanPath, ScanDir
  <2>2. scan' = [paths |-> rest, inDir |-> FALSE, entries |-> scan.entries, listed |-> scan.listed,
                 dirOk |-> scan.dirOk, file |-> path, ok |-> scan.ok, left |-> scan.left,
                 opt |-> scan.opt]
    BY <1>2, <1>3, <2>1 DEF Position
  <2>3. scan'.file = path /\ scan'.inDir = FALSE /\ scan'.paths = rest
    BY <2>2
  <2>4. Begun' = Begun + 1 /\ AtWork' = {path} /\ Busy' /\ ~Broken'
    <3>1. Begun' = Len(job.paths) - Len(rest)
      BY <1>9, <2>2 DEF Begun
    <3>2. Begun' = Begun + 1
      BY <1>11, <3>1
    <3> QED BY <2>1, <2>3, <3>2 DEF AtWork, Busy, Broken
  <2>5. Position'
    BY <1>2, <1>9, <1>11, <1>14, <2>1, <2>2, <2>4, <2>3 DEF Position
  <2>6. Asked(Begun + 1) = {path}
    BY <1>11, <1>14 DEF Asked
  <2>7. Tested'
    BY <1>1, <1>7, <1>8, <1>9, <2>1, <2>2, <2>4, <2>6, <2>3, <1>6 DEF Tested
  <2> QED BY <1>9, <2>1, <2>5, <2>7 DEF VInv, VerdictIsRight
<1> QED BY <1>12, <1>13, <1>14

\* The next entry of a directory.
LEMMA ScanEntryJudges ==
    ASSUME IInv, VInv, job.cmd = "test", status = "running", Kept, ScanEntry, ~Panic
    PROVE  VInv'
<1>1. Suspects = Suspects' /\ \A k : Asked(k)' = Asked(k)
  BY DEF Suspects, AskedFiles, Leftovers, Kept, Asked, ScanEntry
<1>2. Position /\ Tested
  BY DEF VInv
<1>3. pc = "scan" /\ scan.inDir /\ Busy /\ AtWork = {}
  BY DEF ScanEntry, Busy, AtWork
<1>4. PICK f \in DOMAIN files \ scan.listed :
        scan' = [scan EXCEPT !.entries = @ \ {f}, !.listed = @ \cup {f}, !.file = f]
  BY DEF ScanEntry
<1>5. scan' = [paths |-> scan.paths, inDir |-> scan.inDir, entries |-> scan.entries \ {f},
               listed |-> scan.listed \cup {f}, dirOk |-> scan.dirOk, file |-> f, ok |-> scan.ok,
               left |-> scan.left, opt |-> scan.opt]
  BY <1>2, <1>4 DEF Position
<1>6. status' = "running" /\ pc' = "headers" /\ job' = job /\ clean' = clean /\ warned' = warned /\ before' = before
  BY DEF ScanEntry, Kept, GoTo
<1>7. Begun' = Begun /\ AtWork' = {f} /\ Busy' /\ Broken' = Broken
  BY <1>5, <1>6 DEF Begun, AtWork, Busy, Broken
<1>8. Position'
  BY <1>2, <1>3, <1>5, <1>6, <1>7 DEF Position
<1>9. f \in Suspects /\ f # Dot
  <2>1. f \in DOMAIN before \cup warned /\ f \in Names
    BY <1>3, DirectoryHolds DEF CompilePhase, IInv, TypeOK
  <2>2. Begun \in DOMAIN job.paths /\ job.paths[Begun] = Dot
    <3>1. job.paths \in Seq(FileNames \cup {Dot})
      BY PathsAreNames DEF VInv
    <3> QED BY <1>2, <1>3, <3>1 DEF Position
  <2>3. DOMAIN before \subseteq AskedFiles /\ Leftovers = warned
    BY <2>2, AskedIsAskedFor DEF Asked, Leftovers
  <2> QED BY <2>1, <2>3, JobAssumption DEF Suspects, Names
<1>10. Tested'
  BY <1>1, <1>2, <1>3, <1>4, <1>5, <1>6, <1>7, <1>9 DEF Tested
<1> QED BY <1>6, <1>8, <1>10 DEF VInv, VerdictIsRight

\* The end of a directory.
LEMMA ScanDirEndsJudges ==
    ASSUME VInv, job.cmd = "test", status = "running", Kept, ScanDirEnds
    PROVE  VInv'
<1>1. Suspects = Suspects' /\ \A k : Asked(k)' = Asked(k)
  BY DEF Suspects, AskedFiles, Leftovers, Kept, Asked, ScanDirEnds
<1>2. Position /\ Tested
  BY DEF VInv
<1>3. pc = "scan" /\ scan.inDir /\ scan.entries = {} /\ Busy /\ AtWork = {}
  BY DEF ScanDirEnds, Busy, AtWork
<1>4. job' = job /\ clean' = clean \cup {Dot} /\ warned' = warned /\ before' = before
  BY DEF ScanDirEnds, Kept
<1>5. CASE ~scan.dirOk
  <2>1. status' = "failure"
    BY <1>5 DEF ScanDirEnds, PathResult
  <2>2. ~(Suspects \subseteq clean')
    BY <1>2, <1>3, <1>4, <1>5 DEF Tested, Broken
  <2> QED BY <1>1, <1>4, <2>1, <2>2 DEF VInv, VerdictIsRight, Suspects
<1>6. CASE scan.dirOk
  <2>1. pc' = "scan" /\ status' = "running" /\ scan' = [scan EXCEPT !.inDir = FALSE]
    BY <1>6 DEF ScanDirEnds, PathResult, GoTo
  <2>2. scan' = [paths |-> scan.paths, inDir |-> FALSE, entries |-> scan.entries, listed |-> scan.listed,
                 dirOk |-> scan.dirOk, file |-> scan.file, ok |-> scan.ok, left |-> scan.left,
                 opt |-> scan.opt]
    BY <1>2, <2>1 DEF Position
  <2>3. Begun' = Begun /\ AtWork' = {} /\ ~Busy' /\ ~Broken /\ ~Broken'
    BY <1>4, <1>6, <2>1, <2>2 DEF Begun, AtWork, Busy, Broken
  <2>4. Begun # 0 /\ job.paths[Begun] = Dot
    BY <1>2, <1>3 DEF Position
  <2>5. Asked(Begun) \subseteq clean'
    BY <1>2, <1>3, <1>4, <1>6, <2>4 DEF Tested, Asked
  <2>6. \A k \in 1..Begun : Asked(k) \subseteq clean'
    <3>1. Begun \in Nat
      BY <1>2 DEF Position
    <3>2. \A k \in 1..Begun : k < Begun => Asked(k) \subseteq clean
      BY <1>2, <1>3, <2>3 DEF Tested
    <3> QED BY <1>4, <2>5, <3>1, <3>2
  <2>7. Position'
    BY <1>2, <1>4, <2>1, <2>2, <2>3, <2>4 DEF Position
  <2>8. Tested'
    BY <1>1, <1>4, <2>1, <2>2, <2>3, <2>6 DEF Tested
  <2> QED BY <1>4, <2>1, <2>7, <2>8 DEF VInv, VerdictIsRight
<1> QED BY <1>5, <1>6

\* The end of the paths: every file asked for was found clean.
LEMMA ScanEndsJudges ==
    ASSUME VInv, job.cmd = "test", status = "running", Kept, ScanEnds
    PROVE  VInv'
<1>1. Position /\ Tested /\ job.paths \in Seq(FileNames \cup {Dot})
  BY PathsAreNames DEF VInv
<1>2. ~Busy /\ ~Broken /\ AtWork = {} /\ scan.paths = << >>
  BY DEF ScanEnds, Busy, Broken, AtWork
<1>3. status' = "success" /\ job' = job /\ clean' = clean /\ warned' = warned /\ before' = before
  BY DEF ScanEnds, End, Kept
<1>4. Begun = Len(job.paths)
  BY <1>1, <1>2 DEF Begun
<1>5. \A k \in DOMAIN job.paths : Asked(k) \subseteq clean
  BY <1>1, <1>2, <1>4 DEF Tested
<1>6. AskedFiles \subseteq clean
  BY <1>5 DEF AskedFiles, Asked
<1>7. AskedFiles' = AskedFiles
  BY <1>3 DEF AskedFiles
<1> QED BY <1>3, <1>6, <1>7 DEF VInv, VerdictIsRight

\* The headers of a file: until it passes, it is not clean.
LEMMA HeadersJudges ==
    ASSUME VInv, job.cmd = "test", status = "running", Kept, Headers
    PROVE  VInv'
<1>1. pc = "headers" /\ clean' = clean \ {scan.file} /\ job' = job /\ before' = before
  BY DEF Headers, Kept
<1>2. CASE FileResult(FALSE) /\ UNCHANGED <<files, driver, temps, made, warned, lost>>
  BY <1>1, <1>2, ResultKeeps
<1>3. CASE End("exit 1") \/ Panic
  <2>1. status' \in {"exit 1", "panic"}
    BY <1>3 DEF End, Panic
  <2> QED BY <1>1, <2>1 DEF VInv, VerdictIsRight
<1>4. CASE GoTo("start") /\ UNCHANGED <<warned, scan>>
  <2>1. Suspects = Suspects' /\ \A k : Asked(k)' = Asked(k)
    BY <1>1, <1>4 DEF Suspects, AskedFiles, Leftovers, Asked
  <2>2. Position /\ Tested
    BY DEF VInv
  <2>3. pc' = "start" /\ status' = "running" /\ scan' = scan
    BY <1>4 DEF GoTo
  <2>4. Begun' = Begun /\ AtWork = {scan.file} /\ AtWork' = AtWork /\ Busy /\ Busy' /\ Broken' = Broken
    BY <1>1, <2>3 DEF Begun, AtWork, Busy, Broken
  <2>5. Position'
    BY <1>1, <1>4, <2>2, <2>3, <2>4 DEF Position
  <2>6. Tested'
    BY <1>1, <2>1, <2>2, <2>3, <2>4 DEF Tested
  <2> QED BY <1>1, <2>3, <2>5, <2>6 DEF VInv, VerdictIsRight
<1>5. \/ FileResult(FALSE) /\ UNCHANGED <<files, driver, temps, made, warned, lost>>
      \/ End("exit 1") \/ Panic
      \/ GoTo("start") /\ UNCHANGED <<warned, scan>>
  BY DEF Headers
<1> QED BY <1>2, <1>3, <1>4, <1>5

\* The tests of a file that compiles begin: it is clean until one fails.
LEMMA StartTestsJudges ==
    ASSUME VInv, job.cmd = "test", status = "running", Kept, StartTests
    PROVE  VInv'
<1>1. pc = "Ok" /\ clean' = clean \cup {scan.file} /\ job' = job /\ before' = before
  BY DEF StartTests, Kept
<1>2. CASE Panic
  <2>1. status' = "panic"
    BY <1>2 DEF Panic
  <2> QED BY <1>1, <2>1 DEF VInv, VerdictIsRight
<1>3. CASE ~Panic
  <2>1. /\ scan' = [scan EXCEPT !.opt = OptimizedOf[made], !.ok = TRUE,
                                !.left = Cardinality(Tests(scan.file))]
        /\ pc' = "testing" /\ status' = "running" /\ warned' = warned
    BY <1>3 DEF StartTests, GoTo
  <2>2. Suspects = Suspects' /\ \A k : Asked(k)' = Asked(k)
    BY <1>1, <2>1 DEF Suspects, AskedFiles, Leftovers, Asked
  <2>3. Position /\ Tested
    BY DEF VInv
  <2>4. scan' = [paths |-> scan.paths, inDir |-> scan.inDir, entries |-> scan.entries, listed |-> scan.listed,
                 dirOk |-> scan.dirOk, file |-> scan.file, ok |-> TRUE,
                 left |-> Cardinality(Tests(scan.file)), opt |-> OptimizedOf[made]]
    BY <2>1, <2>3 DEF Position
  <2>5. Begun' = Begun /\ AtWork = {scan.file} /\ AtWork' = AtWork /\ Busy /\ Busy' /\ Broken' = Broken
    BY <1>1, <2>1, <2>4 DEF Begun, AtWork, Busy, Broken
  <2>6. Position'
    BY <1>1, <2>1, <2>3, <2>4, <2>5 DEF Position
  <2>7. Tested'
    BY <1>1, <2>1, <2>2, <2>3, <2>4, <2>5 DEF Tested
  <2> QED BY <1>1, <2>1, <2>6, <2>7 DEF VInv, VerdictIsRight
<1> QED BY <1>2, <1>3

\* One test passes or fails.
LEMMA RunTestJudges ==
    ASSUME VInv, job.cmd = "test", status = "running", Kept, RunTest
    PROVE  VInv'
<1>1. pc = "testing" /\ job' = job /\ before' = before
  BY DEF RunTest, Kept
<1>2. CASE Panic \/ End("exit 1")
  <2>1. status' \in {"exit 1", "panic"}
    BY <1>2 DEF End, Panic
  <2> QED BY <1>1, <2>1 DEF VInv, VerdictIsRight
<1>3. ASSUME NEW ok \in BOOLEAN, ok => scan.ok,
             scan' = [scan EXCEPT !.left = @ - 1, !.ok = ok],
             clean' = IF ok THEN clean ELSE clean \ {scan.file},
             UNCHANGED drivervars,
             ok <=> scan.file \in clean'
      PROVE  VInv'
  <2>1. pc' = "testing" /\ status' = "running" /\ warned' = warned
    BY <1>1, <1>3 DEF drivervars
  <2>2. Suspects = Suspects' /\ \A k : Asked(k)' = Asked(k)
    BY <1>1, <2>1 DEF Suspects, AskedFiles, Leftovers, Asked
  <2>3. Position /\ Tested
    BY DEF VInv
  <2>4. scan' = [paths |-> scan.paths, inDir |-> scan.inDir, entries |-> scan.entries, listed |-> scan.listed,
                 dirOk |-> scan.dirOk, file |-> scan.file, ok |-> ok,
                 left |-> scan.left - 1, opt |-> scan.opt]
    BY <1>3, <2>3 DEF Position
  <2>5. Begun' = Begun /\ AtWork = {scan.file} /\ AtWork' = AtWork /\ Busy /\ Busy' /\ Broken' = Broken
    BY <1>1, <2>1, <2>4 DEF Begun, AtWork, Busy, Broken
  <2>6. Position'
    BY <1>1, <2>1, <2>3, <2>4, <2>5 DEF Position
  <2>7. Tested'
    BY <1>1, <1>3, <2>1, <2>2, <2>3, <2>4, <2>5 DEF Tested
  <2> QED BY <1>1, <2>1, <2>6, <2>7 DEF VInv, VerdictIsRight
<1>4. Position /\ (scan.ok <=> scan.file \in clean)
  BY <1>1 DEF VInv, Tested
<1>5. CASE scan' = [scan EXCEPT !.left = @ - 1] /\ UNCHANGED <<drivervars, clean>>
  <2>1. scan' = [scan EXCEPT !.left = @ - 1, !.ok = scan.ok] /\ scan.ok \in BOOLEAN
    BY <1>4, <1>5 DEF Position
  <2>2. clean' = IF scan.ok THEN clean ELSE clean \ {scan.file}
    BY <1>4, <1>5
  <2>3. UNCHANGED drivervars /\ clean' = clean
    BY <1>5
  <2> QED BY <1>3, <1>4, <2>1, <2>2, <2>3
<1>6. CASE /\ scan' = [scan EXCEPT !.left = @ - 1, !.ok = FALSE]
           /\ clean' = clean \ {scan.file}
           /\ UNCHANGED drivervars
  BY <1>3, <1>6
<1> QED BY <1>2, <1>5, <1>6 DEF RunTest

\* Every step of rame-test keeps the verdict right.
LEMMA TestJudges ==
    ASSUME IInv, VInv, job.cmd = "test", Continue
    PROVE  VInv'
<1>1. Kept
  BY DEF Continue, Kept
<1>2. CASE TryDrive /\ UNCHANGED <<given, scan, clean>>
  BY <1>1, <1>2, TryDriveWorks, WorksKeeps
<1>3. CASE Panic
  <2>1. status' = "panic"
    BY <1>3 DEF Panic
  <2> QED BY <1>1, <2>1 DEF VInv, VerdictIsRight, Kept
<1>4. CASE ~(TryDrive /\ UNCHANGED <<given, scan, clean>>) /\ ~Panic
  <2>1. status = "running" /\ pc \notin {"running", "reading"}
    BY <1>4 DEF Continue, Ended, VInv, Position
  <2>2. /\ ~Return /\ ~DriveFails /\ ~Poly /\ ~ReadArg /\ ~AskTerminal /\ ~ReadTerminal /\ ~RunEnds
    BY <2>1 DEF Return, DriveFails, Poly, ReadArg, AskTerminal, ReadTerminal, RunEnds
  <2>3. CASE CompileFailed
    <3>1. /\ pc = "Err" /\ FileResult(FALSE)
          /\ clean' = clean /\ warned' = warned
      BY <2>3 DEF CompileFailed
    <3>2. scan.file \notin clean
      BY <2>1, <3>1 DEF VInv, Tested
    <3> QED BY <1>1, <2>1, <3>1, <3>2, ResultKeeps
  <2>4. CASE TestsEnd
    <3>1. /\ pc = "testing" /\ FileResult(scan.ok)
          /\ clean' = clean /\ warned' = warned
      BY <2>4 DEF TestsEnd
    <3>2. (scan.ok <=> scan.file \in clean) /\ scan.ok \in BOOLEAN
      BY <2>1, <3>1 DEF VInv, Tested, Position
    <3> QED BY <1>1, <2>1, <3>1, <3>2, ResultKeeps
  <2>5. CASE ScanPath \/ ScanDir \/ ScanEntry \/ ScanDirEnds \/ ScanEnds \/ Headers \/ StartTests \/ RunTest
    BY <1>1, <1>4, <2>1, <2>5, ScanPathJudges, ScanEntryJudges, ScanDirEndsJudges, ScanEndsJudges,
       HeadersJudges, StartTestsJudges, RunTestJudges
  <2> QED BY <1>4, <2>2, <2>3, <2>4, <2>5 DEF Continue
<1> QED BY <1>2, <1>3, <1>4

\* A new process has tested nothing.
LEMMA StartJobJudges == ASSUME StartJob PROVE VInv'
<1>1. PICK j \in Jobs : /\ job' = j
                        /\ pc' = IF j.cmd = "test" THEN "scan" ELSE "start"
                        /\ scan' = [NoScan EXCEPT !.paths = j.paths]
  BY DEF StartJob
<1>2. status' = "running" /\ warned' = {}
  BY DEF StartJob
<1>3. CASE j.cmd # "test"
  BY <1>1, <1>3 DEF VInv, VerdictIsRight
<1>4. CASE j.cmd = "test"
  <2>1. scan' = [paths |-> j.paths, inDir |-> FALSE, entries |-> {}, listed |-> {}, dirOk |-> TRUE,
                 file |-> NoFile, ok |-> TRUE, left |-> 0, opt |-> << >>]
    BY <1>1 DEF NoScan
  <2>2. j.paths \in Seq(FileNames \cup {Dot})
    BY JobAssumption
  <2>3. Len(j.paths) \in Nat /\ Len(j.paths) - Len(j.paths) = 0 /\ 0 + 1 = 1
    BY <2>2
  <2>4. Begun' = 0
    BY <1>1, <2>1, <2>3 DEF Begun
  <2>5. AtWork' = {} /\ ~Busy' /\ ~Broken'
    BY <1>1, <1>4, <2>1 DEF AtWork, Busy, Broken
  <2>6. j.paths = SubSeq(j.paths, 1, Len(j.paths))
    BY <2>2, SubSeqFull
  <2>7. Position'
    <3>1. scan'.paths = SubSeq(job'.paths, Begun' + 1, Len(job'.paths)) /\ Begun' \in 0..Len(job'.paths)
      BY <1>1, <2>1, <2>3, <2>4, <2>6
    <3>2. scan'.inDir = FALSE /\ scan'.dirOk = TRUE /\ scan'.ok = TRUE
      BY <2>1
    <3>3. scan' = [paths |-> scan'.paths, inDir |-> scan'.inDir, entries |-> scan'.entries,
                   listed |-> scan'.listed, dirOk |-> scan'.dirOk, file |-> scan'.file, ok |-> scan'.ok, left |-> scan'.left,
                   opt |-> scan'.opt]
      BY <2>1
    <3>4. pc' = "scan"
      BY <1>1, <1>4
    <3> QED BY <1>2, <2>4, <2>5, <3>1, <3>2, <3>3, <3>4 DEF Position
  <2>8. Tested'
    BY <1>1, <1>4, <2>1, <2>4, <2>5 DEF Tested
  <2> QED BY <1>1, <1>2, <2>7, <2>8 DEF VInv, VerdictIsRight
<1> QED BY <1>3, <1>4

\* What a step of another process than rame-test keeps, and a stutter.
LEMMA NextJudges == IInv /\ VInv /\ [Next]_vars => VInv'
<1> SUFFICES ASSUME IInv, VInv, [Next]_vars PROVE VInv'
  OBVIOUS
<1>1. CASE StartJob
  BY <1>1, StartJobJudges
<1>2. CASE Continue /\ job.cmd = "test"
  BY <1>2, TestJudges
<1>3. CASE Continue /\ job.cmd # "test"
  <2>1. job' = job
    BY <1>3 DEF Continue
  <2> QED BY <1>3, <2>1 DEF VInv, VerdictIsRight
<1>4. CASE UNCHANGED vars
  <2>1. UNCHANGED <<files, pc, status, warned, job, before, scan, clean>>
    BY <1>4 DEF vars, drivervars
  <2>2. UNCHANGED <<Begun, AtWork, Busy, Broken, AskedFiles, Leftovers, Suspects>>
    BY <2>1 DEF Begun, AtWork, Busy, Broken, AskedFiles, Leftovers, Suspects
  <2>3. \A k : Asked(k)' = Asked(k)
    BY <2>1 DEF Asked
  <2>4. Position => Position'
    BY <2>1, <2>2 DEF Position, Begun, Busy
  <2>5. Tested => Tested'
    BY <2>1, <2>2, <2>3 DEF Tested
  <2> QED BY <2>1, <2>2, <2>4, <2>5 DEF VInv, VerdictIsRight
<1> QED BY <1>1, <1>2, <1>3, <1>4 DEF Next

-----------------------------------------------------------------------------
(***************************************************************************)
(* The iterator over the standard input: what it makes of the lines that   *)
(* are still to be typed, one line at a time.                              *)
(***************************************************************************)

\* The items of a type.
Items(type) == IF type = "number" THEN Int ELSE EnabledInstruction

\* A line is at most one item (FromStr of the items).
LEMMA ItemsAreTyped ==
    ASSUME NEW type, NEW line
    PROVE  ItemOf(type, line) \in Seq(Items(type))
<1>1. CASE type = "instruction" /\ FromStr(line).err = NoError
  BY <1>1, ParsedIsEnabled DEF ItemOf, Items
<1>2. CASE ~(type = "instruction" /\ FromStr(line).err = NoError)
  <2>1. \/ ItemOf(type, line) = << >>
        \/ /\ type = "number" /\ line.param[1].n \in Narrow
           /\ ItemOf(type, line) = <<line.param[1].n>>
    BY <1>2 DEF ItemOf
  <2>2. Narrow \subseteq Int
    BY DEF Narrow
  <2>3. CASE ItemOf(type, line) = << >>
    <3>1. \A V : << >> \in Seq(V)
      OBVIOUS
    <3> QED BY <2>3, <3>1
  <2>4. CASE type = "number" /\ line.param[1].n \in Narrow /\ ItemOf(type, line) = <<line.param[1].n>>
    <3>1. Items(type) = Int
      BY <2>4 DEF Items
    <3>2. line.param[1].n \in Int
      BY <2>2, <2>4
    <3>3. \A n \in Int : <<n>> \in Seq(Int)
      OBVIOUS
    <3> QED BY <2>4, <3>1, <3>2, <3>3
  <2> QED BY <2>1, <2>3, <2>4
<1> QED BY <1>1, <1>2

\* The lines on which the iterator gives up.
Ends(line) == line \in {Blank, NotText}

\* What the last n lines make.
ItemsRecursion(f, type, lines) ==
    f = [n \in 0..Len(lines) |->
            LET line == lines[Len(lines) - n + 1]
            IN  IF n = 0 \/ line \in {Blank, NotText} THEN << >>
                ELSE ItemOf(type, line) \o f[n - 1]]

\* That recursion has a solution.
LEMMA ItemsSolution ==
    ASSUME NEW type, NEW lines \in Seq(TextLine)
    PROVE  \E f : ItemsRecursion(f, type, lines)
<1> DEFINE N == Len(lines)
           V == Seq(Items(type))
           none == << >>
           line(n) == lines[N - n + 1]
           step == [n \in 1..N |-> [s \in V |-> IF Ends(line(n)) THEN << >> ELSE ItemOf(type, line(n)) \o s]]
<1>0. N \in Nat
  OBVIOUS
<1>1. \A n \in 1..N, s \in V : step[n][s] = IF Ends(line(n)) THEN << >> ELSE ItemOf(type, line(n)) \o s
  OBVIOUS
<1>2. \A n \in (0 + 1)..N : step[n] \in [V -> V]
  <2>1. ASSUME NEW n \in 1..N, NEW s \in V
        PROVE  (IF Ends(line(n)) THEN << >> ELSE ItemOf(type, line(n)) \o s) \in V
    <3>1. ItemOf(type, line(n)) \in V
      BY ItemsAreTyped
    <3> HIDE DEF line
    <3> QED BY <3>1
  <2> HIDE DEF line, V
  <2> QED BY <2>1
<1>3. none \in V
  OBVIOUS
<1> HIDE DEF step, V, none, line
<1>4. PICK f \in [0..N -> V] : f[0] = none /\ \A n \in 1..N : f[n] = step[n][f[n - 1]]
  <2>1. 0 \in Nat /\ 0 <= N
    BY <1>0
  <2>2. \E f : Lemmas!Recursion(f, 0, N, V, none, step)
    BY <1>0, <1>2, <1>3, <2>1, WidthAssumption, Lemmas!RecursionExists
  <2> QED BY <2>2 DEF Lemmas!Recursion
<1>5. ASSUME NEW n \in 0..N
      PROVE  f[n] = IF n = 0 \/ line(n) \in {Blank, NotText} THEN << >>
                    ELSE ItemOf(type, line(n)) \o f[n - 1]
  <2>1. CASE n = 0
    BY <1>4, <2>1 DEF none
  <2>2. CASE n # 0
    <3>1. n \in 1..N /\ n - 1 \in 0..N
      BY <1>0, <2>2
    <3>2. f[n] = IF Ends(line(n)) THEN << >> ELSE ItemOf(type, line(n)) \o f[n - 1]
      BY <1>1, <1>4, <3>1
    <3> QED BY <2>2, <3>2 DEF Ends
  <2> QED BY <2>1, <2>2
<1>6. f = [n \in 0..N |-> f[n]]
  BY <1>4
<1> QED BY <1>5, <1>6 DEF ItemsRecursion, line

\* The items of the lines are those of the recursion.
LEMMA ItemsAreAccepted ==
    ASSUME NEW type, NEW lines \in Seq(TextLine)
    PROVE  \E f : ItemsRecursion(f, type, lines) /\ Accepted(type, lines) = f[Len(lines)]
<1> DEFINE f == CHOOSE g : ItemsRecursion(g, type, lines)
<1>1. ItemsRecursion(f, type, lines)
  BY ItemsSolution
<1>2. Accepted(type, lines) = f[Len(lines)]
  BY DEF Accepted, ItemsRecursion
<1> QED BY <1>1, <1>2

\* The n-th line from the end, and what the items of the last n lines are, step by step.
LineOf(lines, n) == lines[Len(lines) - n + 1]
ItemsAre(f, type, lines) ==
    /\ f[0] = << >>
    /\ \A n \in 1..Len(lines) :
            f[n] = IF Ends(LineOf(lines, n)) THEN << >> ELSE ItemOf(type, LineOf(lines, n)) \o f[n - 1]

\* One step of the recursion.
LEMMA ItemsStep ==
    ASSUME NEW type, NEW lines \in Seq(TextLine)
    PROVE  \E f : ItemsAre(f, type, lines) /\ Accepted(type, lines) = f[Len(lines)]
<1>1. PICK f : ItemsRecursion(f, type, lines) /\ Accepted(type, lines) = f[Len(lines)]
  BY ItemsAreAccepted
<1>2. ASSUME NEW n \in 0..Len(lines)
      PROVE  f[n] = IF n = 0 \/ Ends(LineOf(lines, n)) THEN << >>
                    ELSE ItemOf(type, LineOf(lines, n)) \o f[n - 1]
  BY <1>1 DEF ItemsRecursion, LineOf, Ends
<1>3. 0 \in 0..Len(lines)
  OBVIOUS
<1>4. ASSUME NEW n \in 1..Len(lines)
      PROVE  n # 0 /\ n \in 0..Len(lines)
  OBVIOUS
<1>5. ItemsAre(f, type, lines)
  BY <1>2, <1>3, <1>4 DEF ItemsAre
<1> QED BY <1>1, <1>5

\* What the iterator makes of no line, and of a line and those behind it.
LEMMA AcceptedUnfolds ==
    ASSUME NEW type, NEW lines \in Seq(TextLine)
    PROVE  /\ GivesUp(lines) => Accepted(type, lines) = << >>
           /\ ~GivesUp(lines) =>
                Accepted(type, lines) = ItemOf(type, Head(lines)) \o Accepted(type, Tail(lines))
<1>1. PICK f : ItemsAre(f, type, lines) /\ Accepted(type, lines) = f[Len(lines)]
  BY ItemsStep
<1>2. CASE lines = << >>
  <2>1. Len(lines) = 0
    BY <1>2
  <2> QED BY <1>1, <1>2, <2>1 DEF GivesUp, ItemsAre
<1>3. CASE lines # << >>
  <2> DEFINE N == Len(lines) - 1
             rest == Tail(lines)
  <2>1. N \in Nat /\ Len(lines) = N + 1 /\ Len(rest) = N /\ rest \in Seq(TextLine)
    BY <1>3
  <2>2. \A n \in 1..N : LineOf(rest, n) = LineOf(lines, n)
    BY <1>3 DEF LineOf
  <2>3. Head(lines) = LineOf(lines, Len(lines)) /\ Len(lines) \in 1..Len(lines)
    BY <1>3 DEF LineOf
  <2> HIDE DEF rest
  <2>4. PICK g : ItemsAre(g, type, rest) /\ Accepted(type, rest) = g[N]
    BY <2>1, ItemsStep
  <2>5. \A n \in 0..N : f[n] = g[n]
    <3> DEFINE same == { n \in 0..N : f[n] = g[n] }
    <3>1. 0 \in same
      BY <1>1, <2>1, <2>4 DEF ItemsAre
    <3>2. ASSUME NEW n \in 0..(N - 1), n \in same
          PROVE  n + 1 \in same
      <4>1. /\ n + 1 \in 1..Len(lines) /\ n + 1 \in 1..Len(rest) /\ n + 1 \in 1..N
            /\ n + 1 \in 0..N /\ (n + 1) - 1 = n
        BY <2>1
      <4>2. f[n + 1] = IF Ends(LineOf(lines, n + 1)) THEN << >>
                       ELSE ItemOf(type, LineOf(lines, n + 1)) \o f[(n + 1) - 1]
        BY <1>1, <4>1 DEF ItemsAre
      <4>3. g[n + 1] = IF Ends(LineOf(rest, n + 1)) THEN << >>
                       ELSE ItemOf(type, LineOf(rest, n + 1)) \o g[(n + 1) - 1]
        BY <2>4, <4>1 DEF ItemsAre
      <4>4. LineOf(rest, n + 1) = LineOf(lines, n + 1)
        BY <2>2, <4>1
      <4> QED BY <3>2, <4>1, <4>2, <4>3, <4>4
    <3> HIDE DEF same
    <3>3. \A n \in 0..N : n \in same
      BY <2>1, <3>1, <3>2, IntervalInduction
    <3> QED BY <3>3 DEF same
  <2>6. f[Len(lines)] = IF Ends(Head(lines)) THEN << >> ELSE ItemOf(type, Head(lines)) \o f[N]
    <3>1. f[Len(lines)] = IF Ends(LineOf(lines, Len(lines))) THEN << >>
                          ELSE ItemOf(type, LineOf(lines, Len(lines))) \o f[Len(lines) - 1]
      BY <1>1, <2>3 DEF ItemsAre
    <3> QED BY <2>3, <3>1
  <2>7. f[N] = Accepted(type, rest)
    BY <2>1, <2>4, <2>5
  <2>8. GivesUp(lines) <=> Ends(Head(lines))
    BY <1>3 DEF GivesUp, Ends
  <2> QED BY <1>1, <2>6, <2>7, <2>8 DEF rest
<1> QED BY <1>2, <1>3

\* What it makes is of the type.
LEMMA AcceptedIsTyped ==
    ASSUME NEW type, NEW lines \in Seq(TextLine)
    PROVE  Accepted(type, lines) \in Seq(Items(type))
<1> DEFINE V == Seq(Items(type))
           N == Len(lines)
<1>1. PICK f : ItemsAre(f, type, lines) /\ Accepted(type, lines) = f[N]
  BY ItemsStep
<1>2. N \in Nat
  OBVIOUS
<1>3. << >> \in V /\ \A s, t \in V : s \o t \in V
  OBVIOUS
<1> DEFINE typed == { n \in 0..N : f[n] \in V }
<1> HIDE DEF V, N
<1>4. 0 \in typed
  BY <1>1, <1>2, <1>3 DEF ItemsAre
<1>5. ASSUME NEW n \in 0..(N - 1), n \in typed
      PROVE  n + 1 \in typed
  <2>1. n + 1 \in 1..N /\ n + 1 \in 0..N /\ (n + 1) - 1 = n
    BY <1>2
  <2>2. f[n + 1] = IF Ends(LineOf(lines, n + 1)) THEN << >>
                   ELSE ItemOf(type, LineOf(lines, n + 1)) \o f[(n + 1) - 1]
    BY <1>1, <2>1 DEF ItemsAre, N
  <2>3. ItemOf(type, LineOf(lines, n + 1)) \in V
    BY ItemsAreTyped DEF V
  <2>4. f[n] \in V
    BY <1>5
  <2>5. f[n + 1] \in V
    BY <1>3, <2>1, <2>2, <2>3, <2>4
  <2> QED BY <2>1, <2>5
<1> HIDE DEF typed
<1>6. \A n \in 0..N : n \in typed
  BY <1>2, <1>4, <1>5, IntervalInduction
<1>7. N \in 0..N
  BY <1>2
<1> QED BY <1>1, <1>6, <1>7 DEF typed, V

\* Where the iterator gives up, it has taken that line; the others are behind the next line
\* where they are behind the first.
LEMMA BehindUnfolds ==
    ASSUME NEW lines \in Seq(TextLine)
    PROVE  /\ lines = << >> => Behind(lines) = << >>
           /\ lines # << >> /\ GivesUp(lines) => Behind(lines) = Tail(lines)
           /\ ~GivesUp(lines) => Behind(lines) = Behind(Tail(lines))
<1> DEFINE EndsOf(s) == { k \in 1..Len(s) : s[k] \in {Blank, NotText} }
           First(s, k) == k \in EndsOf(s) /\ \A j \in EndsOf(s) : k <= j
           rest == Tail(lines)
<1>1. ASSUME NEW s \in Seq(TextLine)
      PROVE  /\ EndsOf(s) = {} => Behind(s) = << >>
             /\ \A k : First(s, k) => Behind(s) = SubSeq(s, k + 1, Len(s))
  <2>1. EndsOf(s) = {} => Behind(s) = << >>
    BY DEF Behind
  <2>2. ASSUME NEW k, First(s, k)
        PROVE  Behind(s) = SubSeq(s, k + 1, Len(s))
    <3>1. \A j : First(s, j) => j = k
      BY <2>2
    <3>2. (CHOOSE j \in EndsOf(s) : \A i \in EndsOf(s) : j <= i) = k
      BY <2>2, <3>1
    <3>3. EndsOf(s) # {}
      BY <2>2
    <3>4. Behind(s) = IF EndsOf(s) = {} THEN << >>
                      ELSE SubSeq(s, (CHOOSE j \in EndsOf(s) : \A i \in EndsOf(s) : j <= i) + 1, Len(s))
      BY DEF Behind
    <3> HIDE DEF EndsOf
    <3> QED BY <3>2, <3>3, <3>4
  <2> QED BY <2>1, <2>2
<1>2. CASE lines = << >>
  <2>1. EndsOf(lines) = {}
    BY <1>2
  <2> QED BY <1>1, <1>2, <2>1 DEF GivesUp
<1>3. CASE lines # << >> /\ GivesUp(lines)
  <2>1. First(lines, 1)
    BY <1>3 DEF GivesUp
  <2>2. SubSeq(lines, 1 + 1, Len(lines)) = Tail(lines)
    BY <1>3
  <2> QED BY <1>1, <1>3, <2>1, <2>2
<1>4. CASE ~GivesUp(lines)
  <2>1. lines # << >> /\ lines[1] \notin {Blank, NotText}
    BY <1>4 DEF GivesUp
  <2>2. rest \in Seq(TextLine) /\ Len(rest) = Len(lines) - 1 /\ Len(rest) \in Nat
        /\ \A k \in 1..Len(rest) : rest[k] = lines[k + 1]
    BY <2>1
  <2>3. \A k : k \in EndsOf(rest) <=> k \in Nat /\ k + 1 \in EndsOf(lines)
    BY <2>1, <2>2
  <2>4. \A k \in EndsOf(lines) : k - 1 \in EndsOf(rest)
    BY <2>1, <2>2
  <2>5. CASE EndsOf(rest) = {}
    <3>1. EndsOf(lines) = {}
      BY <2>4, <2>5
    <3> QED BY <1>1, <1>4, <2>1, <2>2, <2>5, <3>1
  <2>6. CASE EndsOf(rest) # {}
    <3>1. EndsOf(rest) \in SUBSET Nat
      OBVIOUS
    <3>2. PICK k \in EndsOf(rest) : \A j \in EndsOf(rest) : k <= j
      BY <2>6, <3>1, WidthAssumption, Lemmas!LeastExists
    <3>3. First(rest, k)
      BY <3>2
    <3>4. First(lines, k + 1)
      <4>1. k + 1 \in EndsOf(lines)
        BY <2>3, <3>2
      <4>2. ASSUME NEW j \in EndsOf(lines)
            PROVE  k + 1 <= j
        <5>1. k <= j - 1 /\ k \in Nat /\ j \in Nat
          BY <2>4, <3>2
        <5> QED BY <5>1
      <4> QED BY <4>1, <4>2
    <3>5. Behind(rest) = SubSeq(rest, k + 1, Len(rest)) /\ Behind(lines) = SubSeq(lines, (k + 1) + 1, Len(lines))
      BY <1>1, <2>2, <3>3, <3>4
    <3>6. SubSeq(rest, k + 1, Len(rest)) = SubSeq(lines, (k + 1) + 1, Len(lines))
      <4>1. k \in 1..Len(rest)
        OBVIOUS
      <4> HIDE DEF rest
      <4> QED BY <2>1, <2>2, <4>1
    <3> QED BY <1>4, <2>1, <3>5, <3>6
  <2> QED BY <2>5, <2>6
<1> QED BY <1>2, <1>3, <1>4
-----------------------------------------------------------------------------
(***************************************************************************)
(* What rame-run reads.                                                    *)
(***************************************************************************)

\* What is known of a process while it lives: its Driver is that of its command line, it is
\* where that command may be, and what is typed is lines.
Driven ==
    /\ pc \in {"running", "reading"} => job.cmd = "run" /\ status # "none"
    /\ pc \in {"scan", "headers", "testing"} => job.cmd = "test"
    /\ status = "none" \/ job \in Jobs
    /\ status # "none" /\ job.cmd # "test" => driver = DriverOf(job)
    /\ terminal \in Seq(TextLine)
    /\ pc = "typing" => made \in Seq(EnabledInstruction)

\* What one iteration of Stdin::next leaves: the item is the first of those to come, and what
\* is behind the end of the input stays behind it.
LEMMA NextTakes ==
    ASSUME NEW type, NEW offset, terminal \in Seq(TextLine)
    PROVE  /\ NextNone(type, offset) =>
                /\ Accepted(type, terminal) = << >> /\ terminal' = Behind(terminal)
                /\ terminal' \in Seq(TextLine)
           /\ NextSome(type, offset) \/ NextAgain(type, offset) =>
                /\ Accepted(type, terminal) = Item(type) \o Accepted(type, terminal')
                /\ Behind(terminal') = Behind(terminal)
                /\ terminal' \in Seq(TextLine)
           /\ Item(type) \in Seq(Items(type))
<1>1. terminal # << >> => Tail(terminal) \in Seq(TextLine)
  OBVIOUS
<1>2. << >> \in Seq(TextLine) /\ << >> \in Seq(Items(type))
  OBVIOUS
<1>3. Item(type) \in Seq(Items(type))
  BY <1>2, ItemsAreTyped DEF Item
<1>4. ASSUME NextNone(type, offset)
      PROVE  /\ Accepted(type, terminal) = << >> /\ terminal' = Behind(terminal)
             /\ terminal' \in Seq(TextLine)
  <2>1. GivesUp(terminal) /\ terminal' = Typed
    BY <1>4 DEF NextNone, Ask
  <2>2. Accepted(type, terminal) = << >>
    BY <2>1, AcceptedUnfolds
  <2>3. terminal' = Behind(terminal)
    BY <2>1, BehindUnfolds DEF Typed
  <2>4. terminal' \in Seq(TextLine)
    BY <1>1, <1>2, <2>1 DEF Typed
  <2> QED BY <2>2, <2>3, <2>4
<1>5. ASSUME NextSome(type, offset) \/ NextAgain(type, offset)
      PROVE  /\ Accepted(type, terminal) = Item(type) \o Accepted(type, terminal')
             /\ Behind(terminal') = Behind(terminal)
             /\ terminal' \in Seq(TextLine)
  <2>1. ~GivesUp(terminal) /\ terminal' = Typed
    BY <1>5 DEF NextSome, NextAgain, Ask
  <2>2. terminal # << >>
    BY <2>1 DEF GivesUp
  <2>3. terminal' = Tail(terminal) /\ Item(type) = ItemOf(type, Head(terminal))
    BY <2>1, <2>2 DEF Typed, Item
  <2>4. Accepted(type, terminal) = ItemOf(type, Head(terminal)) \o Accepted(type, Tail(terminal))
    BY <2>1, AcceptedUnfolds
  <2>5. Behind(terminal) = Behind(Tail(terminal))
    BY <2>1, BehindUnfolds
  <2> QED BY <1>1, <2>2, <2>3, <2>4, <2>5
<1> QED BY <1>3, <1>4, <1>5

\* The terminal gives lines, and the code that is typed is one.
LEMMA TryDriveReads ==
    ASSUME Driven, TryDrive
    PROVE  terminal' \in Seq(TextLine) /\ (pc' = "typing" => made' \in Seq(EnabledInstruction))
<1>1. << >> \in Seq(TextLine) /\ << >> \in Seq(EnabledInstruction) /\ terminal \in Seq(TextLine)
  BY DEF Driven
<1>2. \A result \in {"Ok", "Err"} : AfterCode(result) \in {"optimizing", "Ok", "Err"}
  BY DEF AfterCode
<1>3. CASE TypeLine
  <2>1. pc = "typing" /\ made \in Seq(EnabledInstruction)
    BY <1>3 DEF TypeLine, Driven
  <2>2. \/ NextNone("instruction", 0) /\ pc' # "typing"
        \/ NextSome("instruction", 0) /\ made' = made \o Item("instruction")
        \/ NextAgain("instruction", 0) /\ made' = made
    <3>1. \A code : AfterCode(IF code = << >> THEN "Err" ELSE "Ok") # "typing"
      BY <1>2
    <3> QED BY <1>3, <3>1 DEF TypeLine, GoTo
  <2>3. Item("instruction") \in Seq(EnabledInstruction)
    BY <1>1, NextTakes DEF Items
  <2>4. terminal' \in Seq(TextLine)
    BY <1>1, <2>2, NextTakes
  <2>5. made \o Item("instruction") \in Seq(EnabledInstruction)
    BY <2>1, <2>3
  <2> QED BY <2>1, <2>2, <2>4, <2>5
<1>4. CASE StartTyping
  BY <1>1, <1>4 DEF StartTyping
<1>5. CASE Open
  <2>1. pc' # "typing" /\ terminal' = terminal
    BY <1>2, <1>5 DEF Open, Exit, GoTo, terminalvars
  <2> QED BY <1>1, <2>1
<1>6. CASE StartCompile \/ CreateUnoptimized \/ CreateCompiled \/ Compile \/ Optimize \/ WriteOutfile
  <2>1. terminal' = terminal
    BY <1>6 DEF StartCompile, CreateUnoptimized, CreateCompiled, Compile, Optimize, WriteOutfile, terminalvars
  <2>2. pc' # "typing"
    <3>1. Panic \/ Exit => pc' = pc
      BY DEF Panic, Exit
    <3>2. CASE StartCompile
      BY <3>1, <3>2 DEF StartCompile, CreateTemp, GoTo
    <3>3. CASE CreateUnoptimized \/ CreateCompiled
      BY <3>1, <3>3 DEF CreateUnoptimized, CreateCompiled, CreateTemp, GoTo
    <3>4. CASE Compile
      BY <3>1, <3>4 DEF Compile, GoTo
    <3>5. CASE Optimize \/ WriteOutfile
      BY <3>1, <3>5 DEF Optimize, WriteOutfile, GoTo
    <3> QED BY <1>6, <3>2, <3>3, <3>4, <3>5
  <2> QED BY <1>1, <2>1, <2>2
<1>7. CASE CopyStdin
  BY <1>1, <1>7 DEF CopyStdin, Exit, GoTo
<1>8. CASE ParseCompiled
  <2>1. pc' # "typing" /\ terminal' = terminal
    BY <1>2, <1>8 DEF ParseCompiled, Exit, GoTo, terminalvars
  <2> QED BY <1>1, <2>1
<1> QED BY <1>3, <1>4, <1>5, <1>6, <1>7, <1>8 DEF TryDrive

\* A process stays where its command may be.
LEMMA NextDrives == Driven /\ [Next]_vars => Driven'
<1> SUFFICES ASSUME Driven, [Next]_vars PROVE Driven'
  OBVIOUS
<1>1. CASE StartJob
  BY <1>1, JobAssumption DEF StartJob, Driven
<1>2. CASE UNCHANGED vars
  BY <1>2 DEF vars, drivervars, terminalvars, Driven
<1>3. CASE Continue
  <2>1. status = "running" /\ job' = job /\ job \in Jobs
    BY <1>3 DEF Continue, Ended, Driven
  <2>2. CASE TryDrive
    BY <2>1, <2>2, TryDrivePlaces, TryDriveReads DEF Driven, CompilePhase
  <2>3. ASSUME UNCHANGED driver \/ job.cmd = "test",
               pc' \in {"running", "reading"} => job.cmd = "run" /\ status' # "none",
               pc' \in {"scan", "headers", "testing"} => job.cmd = "test",
               terminal' \in Seq(TextLine), pc' # "typing"
        PROVE  Driven'
    BY <2>1, <2>3 DEF Driven
  <2>4. terminal \in Seq(TextLine)
    BY DEF Driven
  <2>5. CASE Return \/ DriveFails
    BY <2>1, <2>3, <2>4, <2>5 DEF Return, DriveFails, End, terminalvars
  <2>6. CASE Poly
    BY <2>1, <2>3, <2>4, <2>6 DEF Poly, End, Panic, GoTo
  <2>7. CASE ReadArg \/ AskTerminal \/ RunEnds
    <3>1. pc \in {"running"} /\ job.cmd = "run"
      BY <2>7 DEF ReadArg, AskTerminal, RunEnds, Driven
    <3>2. UNCHANGED driver /\ pc' \in {"running", "reading"} /\ terminal' = terminal /\ status' # "none"
      BY <2>1, <2>7, <3>1 DEF ReadArg, AskTerminal, RunEnds, drivervars, terminalvars, GoTo, End, Panic
    <3> QED BY <2>3, <2>4, <3>1, <3>2
  <2>8. CASE ReadTerminal
    <3>1. pc = "reading" /\ job.cmd = "run"
      BY <2>8 DEF ReadTerminal, Driven
    <3>2. UNCHANGED driver /\ pc' \in {"running", "reading"} /\ status' # "none"
      BY <2>1, <2>8, <3>1 DEF ReadTerminal, drivervars, GoTo, End
    <3>3. terminal' \in Seq(TextLine)
      BY <2>4, <2>8, NextTakes DEF ReadTerminal
    <3> QED BY <2>3, <3>1, <3>2, <3>3
  <2>9. CASE ScanPath \/ ScanDir \/ ScanEntry \/ ScanDirEnds \/ ScanEnds \/ Headers \/ CompileFailed
             \/ StartTests \/ RunTest \/ TestsEnd
    <3>1. job.cmd = "test"
      BY <2>9 DEF ScanPath, ScanDir, ScanEntry, ScanDirEnds, ScanEnds, Headers, CompileFailed, StartTests,
                  RunTest, TestsEnd, Driven
    <3>2. terminal' = terminal
      BY <2>9 DEF ScanPath, ScanDir, ScanEntry, ScanDirEnds, ScanEnds, Headers, CompileFailed, StartTests,
                  RunTest, TestsEnd, terminalvars
    <3>3. pc' \notin {"running", "reading", "typing"}
      <4>1. Panic \/ (\E how : End(how)) => pc' = pc
        BY DEF Panic, End
      <4>2. CASE ScanPath \/ ScanDir \/ ScanEntry
        BY <4>1, <4>2 DEF ScanPath, ScanDir, ScanEntry, PathResult, GoTo, drivervars
      <4>3. CASE ScanDirEnds \/ ScanEnds
        BY <4>1, <4>3 DEF ScanDirEnds, ScanEnds, PathResult, GoTo
      <4>4. CASE Headers
        BY <4>1, <4>4, FileResultMoves DEF Headers, GoTo
      <4>5. CASE CompileFailed \/ TestsEnd
        BY <4>5, FileResultMoves DEF CompileFailed, TestsEnd
      <4>6. CASE StartTests
        BY <4>1, <4>6 DEF StartTests, GoTo
      <4>7. CASE RunTest
        BY <4>1, <4>7 DEF RunTest, drivervars
      <4> QED BY <2>9, <4>2, <4>3, <4>4, <4>5, <4>6, <4>7
    <3> QED BY <2>3, <2>4, <3>1, <3>2, <3>3
  <2> QED BY <1>3, <2>2, <2>5, <2>6, <2>7, <2>8, <2>9 DEF Continue
<1> QED BY <1>1, <1>2, <1>3 DEF Next

\* Where the input that is typed is, before the machine runs: the lines for the iterator of
\* the instructions, those to copy, or those left for the machine.
InputIsAhead ==
    /\ pc \in {"start", "copying"} => terminal = job.typed
    /\ pc = "typing" => Behind(terminal) = Behind(job.typed)
    /\ pc \in {"unoptimized", "compiled", "compiling", "parsing", "optimizing", "writing", "Ok"} =>
            terminal = TypedInput
    /\ pc \notin {"running", "reading"} => given = << >>

\* Which of the two it is.
ComesFrom ==
    /\ pc = "typing" => FromTerminal /\ ~driver.compile
    /\ pc = "copying" => FromTerminal
    /\ pc \in CompilePhase => driver.compile

\* What the machine has read, and how many items of the terminal.
InputIsTaken ==
    pc \in {"running", "reading"} =>
        /\ given \in Seq(Int)
        /\ count = IF Len(given) > Len(job.args) THEN Len(given) - Len(job.args) ELSE 0
        /\ pc = "reading" => Len(given) >= Len(job.args)
        /\ InputIsInOrder

InputInv == status = "running" /\ job.cmd # "test" => InputIsAhead /\ ComesFrom /\ InputIsTaken

\* The arguments of a command line are numbers.
LEMMA ArgsAreNumbers ==
    ASSUME Driven, status = "running"
    PROVE  job \in Jobs /\ job.args \in Seq(Int) /\ job.typed \in Seq(TextLine)
BY JobAssumption DEF Driven

\* A process that has ended leaves nothing to say of its input.
LEMMA EndedInput == status' # "running" => InputInv'
BY DEF InputInv

\* What the source is, and what is left of the terminal, is settled by the command line.
LEMMA InputStays ==
    ASSUME UNCHANGED <<driver, job>>
    PROVE  TypedInput' = TypedInput /\ FromTerminal' = FromTerminal
BY DEF TypedInput, FromTerminal

\* A step of the compilation reads no terminal.
LEMMA InputWaits ==
    ASSUME InputInv, status = "running", job.cmd # "test", UNCHANGED <<driver, job, given>>,
           terminal' = terminal,
           pc \in {"unoptimized", "compiled", "compiling", "parsing", "optimizing", "writing"},
           pc' \in {"unoptimized", "compiled", "compiling", "parsing", "optimizing", "writing", "Ok", "Err"},
           pc' \in CompilePhase => pc \in CompilePhase
    PROVE  InputInv'
<1>1. TypedInput' = TypedInput
  BY InputStays
<1>2. InputIsAhead'
  BY <1>1 DEF InputInv, InputIsAhead
<1>3. ComesFrom'
  BY DEF InputInv, ComesFrom, FromTerminal, CompilePhase
<1>4. InputIsTaken'
  BY DEF InputIsTaken
<1> QED BY <1>2, <1>3, <1>4 DEF InputInv

\* Typing and copying leave what is behind the end of the input, and nothing.
LEMMA TryDriveInput ==
    ASSUME Driven, InputInv, TryDrive, Kept, UNCHANGED given, job.cmd # "test"
    PROVE  InputInv'
<1>1. status = "running" /\ driver' = driver /\ job' = job /\ terminal \in Seq(TextLine)
  BY TryDrivePlaces DEF Kept, Driven
<1>2. TypedInput' = TypedInput /\ FromTerminal' = FromTerminal
  BY <1>1, InputStays
<1>3. \A result \in {"Ok", "Err"} : AfterCode(result) \in {"optimizing", "Ok", "Err"}
  BY DEF AfterCode
<1>4. InputIsAhead /\ ComesFrom
  BY <1>1 DEF InputInv
<1>5. status' # "running" => InputInv'
  BY EndedInput
<1>6. pc' \notin {"running", "reading"} => InputIsTaken'
  BY DEF InputIsTaken
<1>7. Panic \/ Exit => status' # "running"
  BY DEF Panic, Exit
<1>8. CASE Open
  <2>1. CASE Exit
    BY <1>5, <1>7, <2>1
  <2>2. CASE ~Exit
    <3>1. pc = "start" /\ ~driver.compile /\ driver.infile # NoFile /\ UNCHANGED terminal
      BY <1>8 DEF Open, terminalvars
    <3>2. pc' \in {"optimizing", "Ok", "Err"}
      BY <1>3, <1>8, <2>2 DEF Open, GoTo
    <3>3. TypedInput = job.typed
      BY <3>1 DEF TypedInput, FromTerminal
    <3>4. InputIsAhead'
      BY <1>1, <1>2, <1>4, <3>1, <3>2, <3>3 DEF InputIsAhead
    <3>5. ComesFrom'
      BY <3>2 DEF ComesFrom, CompilePhase
    <3> QED BY <1>6, <3>2, <3>4, <3>5 DEF InputInv
  <2> QED BY <2>1, <2>2
<1>9. CASE StartTyping
  <2>1. pc = "start" /\ ~driver.compile /\ driver.infile = NoFile /\ UNCHANGED terminal /\ pc' = "typing"
    BY <1>9 DEF StartTyping, GoTo
  <2>2. InputIsAhead'
    BY <1>1, <1>4, <2>1 DEF InputIsAhead
  <2>3. ComesFrom'
    BY <1>1, <2>1 DEF ComesFrom, FromTerminal, CompilePhase
  <2> QED BY <1>6, <2>1, <2>2, <2>3 DEF InputInv
<1>10. CASE TypeLine
  <2>1. pc = "typing" /\ FromTerminal /\ ~driver.compile /\ Behind(terminal) = Behind(job.typed)
    BY <1>4, <1>10 DEF TypeLine, InputIsAhead, ComesFrom
  <2>2. TypedInput = Behind(job.typed)
    BY <2>1 DEF TypedInput
  <2>3. CASE NextNone("instruction", 0) /\ pc' \in {"optimizing", "Ok", "Err"}
    <3>1. terminal' = TypedInput
      BY <1>1, <2>1, <2>2, <2>3, NextTakes
    <3>2. InputIsAhead'
      BY <1>1, <1>2, <1>4, <2>1, <2>3, <3>1 DEF InputIsAhead
    <3>3. ComesFrom'
      BY <2>3 DEF ComesFrom, CompilePhase
    <3> QED BY <1>6, <2>3, <3>2, <3>3 DEF InputInv
  <2>4. CASE (NextSome("instruction", 0) \/ NextAgain("instruction", 0)) /\ pc' = pc
    <3>1. Behind(terminal') = Behind(job.typed)
      BY <1>1, <2>1, <2>4, NextTakes
    <3>2. InputIsAhead'
      BY <1>1, <1>4, <2>1, <2>4, <3>1 DEF InputIsAhead
    <3>3. ComesFrom'
      BY <1>1, <1>2, <2>1, <2>4 DEF ComesFrom, CompilePhase
    <3> QED BY <1>6, <2>1, <2>4, <3>2, <3>3 DEF InputInv
  <2>5. \/ NextNone("instruction", 0) /\ pc' \in {"optimizing", "Ok", "Err"}
        \/ (NextSome("instruction", 0) \/ NextAgain("instruction", 0)) /\ pc' = pc
    <3>1. \A code : AfterCode(IF code = << >> THEN "Err" ELSE "Ok") \in {"optimizing", "Ok", "Err"}
      BY <1>3
    <3> QED BY <1>10, <3>1 DEF TypeLine, GoTo
  <2> QED BY <2>3, <2>4, <2>5
<1>11. CASE StartCompile
  <2>1. CASE Panic
    BY <1>5, <1>7, <2>1
  <2>2. CASE ~Panic
    <3>1. pc = "start" /\ driver.compile /\ UNCHANGED terminal
      BY <1>11 DEF StartCompile, terminalvars
    <3>2. pc' = IF FromTerminal THEN "copying" ELSE "unoptimized"
      BY <1>11, <2>2 DEF StartCompile, CreateTemp, GoTo, FromTerminal
    <3>3. ~FromTerminal => TypedInput = job.typed
      BY DEF TypedInput
    <3>4. InputIsAhead'
      BY <1>1, <1>2, <1>4, <3>1, <3>2, <3>3 DEF InputIsAhead
    <3>5. ComesFrom'
      BY <1>1, <1>2, <3>1, <3>2 DEF ComesFrom
    <3> QED BY <1>6, <3>2, <3>4, <3>5 DEF InputInv
  <2> QED BY <2>1, <2>2
<1>12. CASE CopyStdin
  <2>1. CASE Exit
    BY <1>5, <1>7, <2>1
  <2>2. CASE ~Exit
    <3>1. pc = "copying" /\ terminal' = << >> /\ pc' = "unoptimized"
      BY <1>12, <2>2 DEF CopyStdin, GoTo
    <3>2. FromTerminal /\ driver.compile
      BY <1>4, <3>1 DEF ComesFrom, CompilePhase
    <3>3. TypedInput = << >>
      BY <3>2 DEF TypedInput
    <3>4. InputIsAhead'
      BY <1>1, <1>2, <1>4, <3>1, <3>3 DEF InputIsAhead
    <3>5. ComesFrom'
      BY <1>1, <3>1, <3>2 DEF ComesFrom
    <3> QED BY <1>6, <3>1, <3>4, <3>5 DEF InputInv
  <2> QED BY <2>1, <2>2
<1>13. CASE CreateUnoptimized \/ CreateCompiled \/ Compile \/ ParseCompiled \/ Optimize \/ WriteOutfile
  <2>1. CASE Panic \/ Exit
    BY <1>5, <1>7, <2>1
  <2>2. CASE ~Panic /\ ~Exit
    <3>1. terminal' = terminal
      BY <1>13 DEF CreateUnoptimized, CreateCompiled, Compile, ParseCompiled, Optimize, WriteOutfile, terminalvars
    <3>2. \/ pc = "unoptimized" /\ pc' = "compiled"
          \/ pc = "compiled" /\ pc' = "compiling"
          \/ pc = "compiling" /\ pc' = "parsing"
          \/ pc = "parsing" /\ pc' \in {"optimizing", "Ok", "Err"}
          \/ pc = "optimizing" /\ pc' \in {"Ok", "writing"}
          \/ pc = "writing" /\ pc' = "Ok"
      <4>1. CASE CreateUnoptimized
        BY <2>2, <4>1 DEF CreateUnoptimized, CreateTemp, GoTo
      <4>2. CASE CreateCompiled
        BY <2>2, <4>2 DEF CreateCompiled, CreateTemp, GoTo
      <4>3. CASE Compile
        BY <2>2, <4>3 DEF Compile, GoTo
      <4>4. CASE ParseCompiled
        BY <1>3, <2>2, <4>4 DEF ParseCompiled, GoTo
      <4>5. CASE Optimize
        BY <2>2, <4>5 DEF Optimize, GoTo
      <4>6. CASE WriteOutfile
        BY <2>2, <4>6 DEF WriteOutfile, GoTo
      <4> QED BY <1>13, <4>1, <4>2, <4>3, <4>4, <4>5, <4>6
    <3> QED BY <1>1, <3>1, <3>2, InputWaits DEF CompilePhase
  <2> QED BY <2>1, <2>2
<1> QED BY <1>8, <1>9, <1>10, <1>11, <1>12, <1>13 DEF TryDrive

-----------------------------------------------------------------------------
\* While the arguments last, the next one is read.
LEMMA TakeArg ==
    ASSUME NEW args \in Seq(Int), NEW read \in Seq(Int), Len(read) < Len(args), NEW rest \in Seq(Int)
    PROVE  /\ Append(read, args[Len(read) + 1]) \in Seq(Int)
           /\ Append(read, args[Len(read) + 1]) \o SubSeq(args, Len(read) + 2, Len(args)) \o rest
                = read \o SubSeq(args, Len(read) + 1, Len(args)) \o rest
<1> DEFINE n == Len(read)
           x == args[n + 1]
           ahead == SubSeq(args, n + 1, Len(args))
           after == SubSeq(args, n + 2, Len(args))
<1>1. n \in Nat /\ Len(args) \in Nat /\ n < Len(args)
  OBVIOUS
<1>2. x \in Int
  BY <1>1
<1>3. after \in Seq(Int) /\ ahead \in Seq(Int)
  BY <1>1
<1>4. ahead = <<x>> \o after
  BY <1>1
<1>5. Append(read, x) = read \o <<x>>
  BY <1>2
<1> HIDE DEF x, ahead, after
<1>6. \A m \in Int : <<m>> \in Seq(Int)
  OBVIOUS
<1>7. <<x>> \in Seq(Int) /\ Append(read, x) \in Seq(Int)
  <2>1. <<x>> \in Seq(Int)
    BY <1>2, <1>6
  <2>2. read \o <<x>> \in Seq(Int)
    BY <2>1, ConcatProperties
  <2> QED BY <1>5, <2>1, <2>2
<1>8. (read \o <<x>>) \o after = read \o (<<x>> \o after)
  BY <1>3, <1>7, ConcatAssociative
<1>9. Append(read, x) \o after = read \o ahead
  BY <1>4, <1>5, <1>8
<1> QED BY <1>7, <1>9 DEF x, ahead, after

\* After the arguments, nothing of them is ahead.
LEMMA NoArgAhead ==
    ASSUME NEW args \in Seq(Int), NEW n \in Nat, n >= Len(args)
    PROVE  SubSeq(args, n + 1, Len(args)) = << >>
OBVIOUS

\* The machine of rame-run begins with all of its input ahead, and takes it item by item.
LEMMA RunInput ==
    ASSUME Driven, InputInv, status = "running", Kept, job.cmd # "test",
           Poly \/ ReadArg \/ AskTerminal \/ ReadTerminal \/ RunEnds
    PROVE  InputInv'
<1>1. job' = job /\ job.args \in Seq(Int) /\ Len(job.args) \in Nat /\ terminal \in Seq(TextLine)
  BY ArgsAreNumbers DEF Kept, Driven
<1>2. status' # "running" => InputInv'
  BY EndedInput
<1>3. InputIsAhead /\ ComesFrom /\ InputIsTaken
  BY DEF InputInv
<1>4. pc' \in {"running", "reading"} => InputIsAhead' /\ ComesFrom'
  BY DEF InputIsAhead, ComesFrom, CompilePhase
<1>5. Accepted("number", terminal) \in Seq(Int)
  BY <1>1, AcceptedIsTyped DEF Items
<1>6. driver' = driver /\ TypedInput' = TypedInput
  <2>1. driver' = driver
    BY DEF Poly, ReadArg, AskTerminal, ReadTerminal, RunEnds, Panic, End, drivervars
  <2> QED BY <1>1, <2>1, InputStays
<1> DEFINE input == job.args \o Accepted("number", TypedInput)
           read(g, lines) == g \o SubSeq(job.args, Len(g) + 1, Len(job.args)) \o Accepted("number", lines)
<1>7. pc \in {"running", "reading"} =>
        /\ given \in Seq(Int) /\ Len(given) \in Nat
        /\ count = IF Len(given) > Len(job.args) THEN Len(given) - Len(job.args) ELSE 0
        /\ pc = "reading" => Len(given) >= Len(job.args)
        /\ read(given, terminal) = input
        /\ pc = "running" /\ Len(given) > Len(job.args) => prompted = Len(given) - 1
  <2>1. \A s \in Seq(Int) : Len(s) \in Nat
    OBVIOUS
  <2> QED BY <1>3, <2>1 DEF InputIsTaken, InputIsInOrder
<1>8. ASSUME /\ pc' \in {"running", "reading"} /\ status' = "running"
             /\ given' \in Seq(Int)
             /\ count' = IF Len(given') > Len(job.args) THEN Len(given') - Len(job.args) ELSE 0
             /\ pc' = "reading" => Len(given') >= Len(job.args)
             /\ read(given', terminal') = input
             /\ pc' = "running" /\ Len(given') > Len(job.args) => prompted' = Len(given') - 1
      PROVE  InputInv'
  <2>1. InputIsInOrder'
    BY <1>1, <1>6, <1>8 DEF InputIsInOrder
  <2>2. InputIsTaken'
    BY <1>1, <1>8, <2>1 DEF InputIsTaken
  <2> QED BY <1>4, <1>8, <2>2 DEF InputInv
<1>9. CASE Poly
  <2>1. CASE status' # "running"
    BY <1>2, <2>1
  <2>2. CASE status' = "running"
    <3>1. pc = "Ok" /\ pc' = "running" /\ count' = 0 /\ UNCHANGED <<terminal, given>>
      BY <1>9, <2>2 DEF Poly, End, Panic, GoTo
    <3>2. given = << >> /\ terminal = TypedInput
      BY <1>3, <3>1 DEF InputIsAhead
    <3>3. SubSeq(job.args, 1, Len(job.args)) = job.args
      BY <1>1, SubSeqFull
    <3>4. Len(given') = 0 /\ given' \in Seq(Int)
      BY <3>1, <3>2
    <3>5. read(given', terminal') = input
      <4>1. given' \o SubSeq(job.args, Len(given') + 1, Len(job.args)) = job.args
        BY <1>1, <3>1, <3>2, <3>3
      <4> QED BY <3>1, <3>2, <4>1
    <3> HIDE DEF read, input
    <3> QED BY <1>1, <1>8, <2>2, <3>1, <3>4, <3>5
  <2> QED BY <2>1, <2>2
<1>10. CASE ReadArg
  <2>1. pc = "running" /\ Len(given) < Len(job.args) /\ given' = Append(given, job.args[Len(given) + 1])
    BY <1>10 DEF ReadArg
  <2>2. UNCHANGED <<pc, status, terminal, count>>
    BY <1>10 DEF ReadArg, drivervars, terminalvars
  <2>3. Len(given') = Len(given) + 1 /\ given' \in Seq(Int) /\ Len(given) + 1 + 1 = Len(given) + 2
    BY <1>1, <1>7, <2>1, TakeArg
  <2>4. read(given', terminal') = input
    <3>1. given' \o SubSeq(job.args, Len(given) + 2, Len(job.args)) \o Accepted("number", terminal)
            = read(given, terminal)
      BY <1>1, <1>5, <1>7, <2>1, TakeArg
    <3> QED BY <1>7, <2>1, <2>2, <2>3, <3>1
  <2> HIDE DEF read, input
  <2>5. count' = 0 /\ ~(Len(given') > Len(job.args))
    BY <1>1, <1>7, <2>1, <2>2, <2>3
  <2> QED BY <1>8, <2>1, <2>2, <2>3, <2>4, <2>5
<1>11. CASE AskTerminal
  <2>1. pc = "running" /\ pc' = "reading" /\ Len(given) >= Len(job.args)
    BY <1>11 DEF AskTerminal, GoTo
  <2>2. UNCHANGED <<status, terminal, count, given>>
    BY <1>11 DEF AskTerminal, GoTo, terminalvars
  <2> HIDE DEF read, input
  <2> QED BY <1>7, <1>8, <2>1, <2>2
<1>12. CASE ReadTerminal
  <2>1. pc = "reading" /\ Len(given) >= Len(job.args) /\ count = Len(given) - Len(job.args)
    <3>1. pc = "reading"
      BY <1>12 DEF ReadTerminal
    <3> HIDE DEF read, input
    <3>2. /\ Len(given) \in Nat /\ Len(given) >= Len(job.args)
          /\ count = IF Len(given) > Len(job.args) THEN Len(given) - Len(job.args) ELSE 0
      BY <1>7, <3>1
    <3>3. \A n, k \in Nat : n >= k => (IF n > k THEN n - k ELSE 0) = n - k
      OBVIOUS
    <3> QED BY <1>1, <3>1, <3>2, <3>3
  <2>2. given \o Accepted("number", terminal) = input
    <3>1. SubSeq(job.args, Len(given) + 1, Len(job.args)) = << >>
      BY <1>1, <1>7, <2>1, NoArgAhead
    <3>2. given \o << >> = given
      BY <1>7, <2>1
    <3> QED BY <1>7, <2>1, <3>1, <3>2
  <2>3. CASE NextNone("number", Offset) /\ End("exit 1")
    BY <1>2, <2>3 DEF End
  <2>4. CASE NextSome("number", Offset) /\ given' = given \o Item("number") /\ pc' = "running" /\ UNCHANGED status
    <3>1. Item("number") \in Seq(Int) /\ Len(Item("number")) = 1
      <4>1. Item("number") \in Seq(Int)
        BY <1>1, NextTakes DEF Items
      <4>2. Item("number") # << >>
        BY <2>4 DEF NextSome
      <4>3. \A line : "number" # "instruction" /\ ItemOf("number", line) # << >> => Len(ItemOf("number", line)) = 1
        BY DEF ItemOf
      <4> QED BY <4>1, <4>2, <4>3 DEF Item
    <3>2. given' \in Seq(Int) /\ Len(given') = Len(given) + 1
      <4>1. \A s, t \in Seq(Int) : s \o t \in Seq(Int) /\ Len(s \o t) = Len(s) + Len(t)
        OBVIOUS
      <4>2. given \in Seq(Int)
        BY <1>7, <2>1
      <4> QED BY <2>4, <3>1, <4>1, <4>2
    <3>3. prompted' = Len(given) /\ count' = count + 1
      <4>1. prompted' = count + Len(job.args) /\ count' = count + 1
        BY <2>4 DEF NextSome, Ask, Offset
      <4>2. Len(given) \in Nat
        BY <1>7, <2>1
      <4> QED BY <1>1, <2>1, <4>1, <4>2
    <3>4. terminal' \in Seq(TextLine) /\ Accepted("number", terminal) = Item("number") \o Accepted("number", terminal')
      BY <1>1, <2>4, NextTakes
    <3>5. Accepted("number", terminal') \in Seq(Int)
      BY <3>4, AcceptedIsTyped DEF Items
    <3>6. given' \o Accepted("number", terminal') = input
      <4>1. \A s, t, u \in Seq(Int) : (s \o t) \o u = s \o (t \o u)
        BY ConcatAssociative
      <4>2. (given \o Item("number")) \o Accepted("number", terminal') = given \o (Item("number") \o Accepted("number", terminal'))
        BY <1>7, <2>1, <3>1, <3>5, <4>1
      <4> QED BY <2>2, <2>4, <3>4, <4>2
    <3>7. read(given', terminal') = input
      <4>1. Len(given') >= Len(job.args) /\ Len(given') \in Nat
        BY <1>1, <1>7, <2>1, <3>2
      <4>2. SubSeq(job.args, Len(given') + 1, Len(job.args)) = << >>
        BY <1>1, <4>1, NoArgAhead
      <4>3. given' \o << >> = given'
        BY <3>2
      <4> QED BY <3>6, <4>2, <4>3
    <3> HIDE DEF read, input
    <3>8. Len(given') > Len(job.args) /\ Len(given') - Len(job.args) = count' /\ prompted' = Len(given') - 1
      BY <1>1, <1>7, <2>1, <3>2, <3>3
    <3> QED BY <1>8, <2>4, <3>2, <3>7, <3>8
  <2>5. CASE NextAgain("number", Offset) /\ UNCHANGED <<drivervars, given>>
    <3>1. UNCHANGED <<pc, status, given, count>>
      BY <2>5 DEF NextAgain, drivervars
    <3>2. terminal' \in Seq(TextLine) /\ Accepted("number", terminal) = Item("number") \o Accepted("number", terminal')
      BY <1>1, <2>5, NextTakes
    <3>3. Item("number") = << >>
      BY <2>5 DEF NextAgain
    <3>4. Accepted("number", terminal') \in Seq(Int)
      BY <3>2, AcceptedIsTyped DEF Items
    <3>5. Accepted("number", terminal') = Accepted("number", terminal)
      BY <3>2, <3>3, <3>4
    <3>6. read(given', terminal') = input
      BY <1>7, <2>1, <3>1, <3>5
    <3> HIDE DEF read, input
    <3> QED BY <1>7, <1>8, <2>1, <3>1, <3>6
  <2>6. \/ NextNone("number", Offset) /\ End("exit 1")
        \/ NextSome("number", Offset) /\ given' = given \o Item("number") /\ pc' = "running" /\ UNCHANGED status
        \/ NextAgain("number", Offset) /\ UNCHANGED <<drivervars, given>>
    BY <1>12 DEF ReadTerminal, GoTo
  <2> QED BY <2>3, <2>4, <2>5, <2>6
<1>13. CASE RunEnds
  BY <1>2, <1>13 DEF RunEnds, End, Panic
<1> QED BY <1>9, <1>10, <1>11, <1>12, <1>13

\* Every step keeps the input in order.
LEMMA NextReads == Driven /\ InputInv /\ [Next]_vars => InputInv'
<1> SUFFICES ASSUME Driven, InputInv, [Next]_vars PROVE InputInv'
  OBVIOUS
<1>1. CASE StartJob
  <2>1. pc' \in {"start", "scan"} /\ terminal' = job'.typed /\ given' = << >> /\ job'.cmd # "test" => pc' = "start"
    BY <1>1 DEF StartJob
  <2>2. pc' = "start" \/ job'.cmd = "test"
    BY <1>1 DEF StartJob
  <2>3. CASE job'.cmd = "test"
    BY <2>3 DEF InputInv
  <2>4. CASE job'.cmd # "test"
    <3>1. pc' = "start" /\ terminal' = job'.typed /\ given' = << >>
      BY <1>1, <2>2, <2>4 DEF StartJob
    <3> QED BY <3>1 DEF InputInv, InputIsAhead, ComesFrom, InputIsTaken, CompilePhase
  <2> QED BY <2>3, <2>4
<1>2. CASE UNCHANGED vars
  <2>1. UNCHANGED <<driver, pc, status, terminal, count, prompted, job, given>>
    BY <1>2 DEF vars, drivervars, terminalvars
  <2>2. TypedInput' = TypedInput /\ FromTerminal' = FromTerminal
    BY <2>1, InputStays
  <2>3. InputIsInOrder' = InputIsInOrder
    BY <2>1, <2>2 DEF InputIsInOrder
  <2> QED BY <2>1, <2>2, <2>3 DEF InputInv, InputIsAhead, ComesFrom, InputIsTaken
<1>3. CASE Continue
  <2>1. status = "running" /\ job' = job /\ Kept
    BY <1>3 DEF Continue, Ended, Kept
  <2>2. CASE job.cmd = "test"
    BY <2>1, <2>2 DEF InputInv
  <2>3. CASE job.cmd # "test"
    <3>1. pc \notin {"scan", "headers", "testing"}
      BY <2>3 DEF Driven
    <3>2. /\ ~ScanPath /\ ~ScanDir /\ ~ScanEntry /\ ~ScanDirEnds /\ ~ScanEnds /\ ~Headers
          /\ ~CompileFailed /\ ~StartTests /\ ~RunTest /\ ~TestsEnd
      BY <2>3, <3>1 DEF ScanPath, ScanDir, ScanEntry, ScanDirEnds, ScanEnds, Headers, CompileFailed,
                        StartTests, RunTest, TestsEnd
    <3>3. CASE TryDrive /\ UNCHANGED <<given, scan, clean>>
      BY <2>1, <2>3, <3>3, TryDriveInput
    <3>4. CASE Return \/ DriveFails
      BY <3>4, EndedInput DEF Return, DriveFails, End
    <3>5. CASE Poly \/ ReadArg \/ AskTerminal \/ ReadTerminal \/ RunEnds
      BY <2>1, <2>3, <3>5, RunInput
    <3> QED BY <1>3, <3>2, <3>3, <3>4, <3>5 DEF Continue
  <2> QED BY <2>2, <2>3
<1> QED BY <1>1, <1>2, <1>3 DEF Next

\* A process has begun nothing yet.
LEMMA InitReads == Init => Driven /\ InputInv
<1> SUFFICES ASSUME Init PROVE Driven /\ InputInv
  OBVIOUS
<1>1. << >> \in Seq(TextLine)
  OBVIOUS
<1> QED BY <1>1 DEF Init, Driven, InputInv
-----------------------------------------------------------------------------
(***************************************************************************)
(* The code that is executed or written is the one that is asked for.      *)
(***************************************************************************)

\* The source is not the outfile: the compiler truncates its output before it reads its input.
Regular == driver.infile # NoFile => driver.infile # driver.outfile

\* While the temporary files live, what was typed is in one of its own.
TypedIsKept ==
    /\ pc \in CompilePhase \ {"copying"} /\ FromTerminal =>
            /\ temps.stdin # NoFile /\ temps.stdin \in DOMAIN files
            /\ files[temps.stdin] = job.typed
    /\ pc \in CompilePhase =>
            /\ ~driver.optimize => temps.unoptimized = NoFile
            /\ temps.stdin # NoFile => temps.stdin \notin {temps.unoptimized, temps.compiled}

\* The compiler wrote the code of the source.
TextIsMade ==
    pc = "parsing" => /\ Source \in DOMAIN CodeOf /\ Out \in DOMAIN files
                      /\ files[Out] = ShowCode(SourceCode)

\* What the code in hand is.
CodeIsMade ==
    /\ pc = "typing" =>
            made \o Accepted("instruction", terminal) = Accepted("instruction", job.typed)
    /\ pc = "optimizing" => driver.optimize /\ made = SourceCode
    /\ pc = "writing" => made = AskedCode /\ made \in Seq(EnabledInstruction)
    /\ pc = "Ok" => made = AskedCode /\ (job.cmd \in {"cc", "opt"} => WrittenAsAsked)

CodeInv ==
    ~lost /\ job.cmd # "test" /\ Regular =>
        /\ status = "running" => TypedIsKept /\ TextIsMade /\ CodeIsMade
        /\ pc \in {"running", "reading"} => made = AskedCode
        /\ Written => WrittenAsAsked

\* The Driver of a command line.
LEMMA DriverIsAsked ==
    ASSUME Driven, status # "none", job.cmd # "test"
    PROVE  /\ job.cmd \in {"cc", "opt", "run"}
           /\ {driver.infile, driver.outfile} \subseteq FileNames \cup {NoFile}
           /\ {driver.compile, driver.optimize} \subseteq BOOLEAN
           /\ job.cmd \in {"cc", "opt"} => driver.outfile # NoFile /\ (driver.compile \/ driver.optimize)
           /\ job.cmd = "cc" => driver.compile
           /\ job.cmd = "run" => driver.outfile = NoFile
<1>1. job \in Jobs /\ driver = DriverOf(job)
  BY DEF Driven
<1>2. /\ job.cmd \in {"cc", "opt", "run"}
      /\ {job.infile, job.outfile} \subseteq FileNames \cup {NoFile}
      /\ {job.compile, job.optimize} \subseteq BOOLEAN
      /\ job.cmd \in {"cc", "opt"} => job.outfile # NoFile
  BY <1>1, JobAssumption
<1>3. CASE job.cmd = "cc"
  BY <1>1, <1>2, <1>3 DEF DriverOf, NewDriver
<1>4. CASE job.cmd = "opt"
  BY <1>1, <1>2, <1>4 DEF DriverOf, NewDriver
<1>5. CASE job.cmd = "run"
  BY <1>1, <1>2, <1>5 DEF DriverOf, NewDriver
<1> QED BY <1>2, <1>3, <1>4, <1>5

\* What the command line asks for is settled by it and by the files that it found.
LEMMA AskedStays ==
    ASSUME UNCHANGED <<driver, job, before>>
    PROVE  /\ FromTerminal' = FromTerminal /\ Source' = Source /\ SourceCode' = SourceCode
           /\ AskedCode' = AskedCode /\ Regular' = Regular
           /\ files' = files => WrittenAsAsked' = WrittenAsAsked
<1>1. FromTerminal' = FromTerminal /\ Regular' = Regular
  BY DEF FromTerminal, Regular
<1>2. Source' = Source
  BY <1>1 DEF Source
<1>3. SourceCode' = SourceCode
  BY <1>1, <1>2 DEF SourceCode
<1>4. AskedCode' = AskedCode
  BY <1>3 DEF AskedCode
<1>5. files' = files => WrittenAsAsked' = WrittenAsAsked
  BY <1>4 DEF WrittenAsAsked
<1> QED BY <1>1, <1>2, <1>3, <1>4, <1>5

\* The file of the source is as the process found it.
LEMMA SourceIsThere ==
    ASSUME IInv, Driven, status = "running", job.cmd # "test", Regular, ~FromTerminal
    PROVE  driver.infile \in DOMAIN files => files[driver.infile] = Source
<1>1. driver.infile \in FileNames /\ driver.infile # driver.outfile
  BY DriverIsAsked DEF FromTerminal, Regular
<1>2. driver.infile \in DOMAIN files => files[driver.infile] = before[driver.infile]
  BY <1>1 DEF IInv, UserFilesAreKept
<1> QED BY <1>2 DEF Source

\* TempFile::new takes a name of no file, and touches no other.
LEMMA CreateTempIsFresh ==
    ASSUME IInv, NEW owner \in {"stdin", "unoptimized", "compiled"}, NEW place,
           CreateTemp(owner, place), ~Panic
    PROVE  /\ \E new \in TempNames \ DOMAIN files :
                /\ temps' = [temps EXCEPT ![owner] = new]
                /\ temps'[owner] = new
           /\ \A f \in DOMAIN files : f \in DOMAIN files' /\ files'[f] = files[f]
           /\ pc' = place
           /\ UNCHANGED <<driver, made, status, lost>>
<1> DEFINE new == CHOOSE t \in TempNames \ DOMAIN files : TRUE
<1>1. /\ TempNames \ DOMAIN files # {}
      /\ files' = Store(new, << >>)
      /\ temps' = [temps EXCEPT ![owner] = new]
      /\ pc' = place
      /\ UNCHANGED <<driver, made, status, lost>>
  BY DEF CreateTemp, GoTo
<1>2. new \in TempNames \ DOMAIN files
  BY <1>1
<1> HIDE DEF new
<1>3. owner \in DOMAIN temps
  BY DEF IInv, TypeOK, NoTemps
<1>4. temps'[owner] = new
  BY <1>1, <1>3
<1>5. \A f \in DOMAIN files : f \in DOMAIN files' /\ files'[f] = files[f]
  BY <1>1, <1>2 DEF Store
<1> QED BY <1>1, <1>2, <1>4, <1>5

\* What the temporary files are when a compilation goes on.
LEMMA TempsAre ==
    ASSUME IInv
    PROVE  /\ temps.stdin \in TempNames \cup {NoFile}
           /\ temps.unoptimized \in TempNames \cup {NoFile}
           /\ temps.compiled \in TempNames \cup {NoFile}
           /\ temps.stdin # NoFile => temps.stdin \in DOMAIN files
           /\ Live = {} => temps.stdin = NoFile /\ temps.unoptimized = NoFile /\ temps.compiled = NoFile
<1>1. TypeOK /\ NoTempIsForgotten
  BY DEF IInv
<1>2. Live = {temps.stdin, temps.unoptimized, temps.compiled} \ {NoFile} /\ Live \subseteq TempNames
  BY <1>1, LiveFiles
<1> QED BY <1>1, <1>2 DEF NoTempIsForgotten

\* A step of try_drive, in the state that its lemmas are about.
Making ==
    /\ IInv /\ Driven /\ InputInv
    /\ TypedIsKept /\ TextIsMade /\ CodeIsMade
    /\ Regular /\ ~lost /\ job.cmd # "test"
    /\ status = "running" /\ status' = "running" /\ ~lost'
    /\ Kept /\ UNCHANGED driver

Made == TypedIsKept' /\ TextIsMade' /\ CodeIsMade'

\* What a code that is the source's leads to: its optimization, or the end.
LEMMA AfterSourceCode ==
    ASSUME Making, NEW result \in {"Ok", "Err"}, pc' = AfterCode(result),
           result = "Ok" => /\ made' = SourceCode
                            /\ ~driver.optimize /\ job.cmd \in {"cc", "opt"} =>
                                   /\ driver.outfile \in DOMAIN files'
                                   /\ ParseCode(files'[driver.outfile]).code = SourceCode
    PROVE  Made
<1>1. UNCHANGED <<driver, job, before>>
  BY DEF Making, Kept
<1>2. SourceCode' = SourceCode /\ AskedCode' = AskedCode
  BY <1>1, AskedStays
<1>3. CASE result = "Err"
  <2>1. pc' = "Err"
    BY <1>3 DEF AfterCode
  <2> QED BY <2>1 DEF Made, TypedIsKept, TextIsMade, CodeIsMade, CompilePhase
<1>4. CASE result = "Ok" /\ driver.optimize
  <2>1. pc' = "optimizing"
    BY <1>4 DEF AfterCode
  <2> QED BY <1>1, <1>2, <1>4, <2>1 DEF Made, TypedIsKept, TextIsMade, CodeIsMade, CompilePhase
<1>5. CASE result = "Ok" /\ ~driver.optimize
  <2>1. pc' = "Ok" /\ AskedCode = SourceCode
    BY <1>5 DEF AfterCode, AskedCode
  <2>2. job'.cmd \in {"cc", "opt"} => WrittenAsAsked'
    BY <1>1, <1>2, <1>5, <2>1 DEF WrittenAsAsked
  <2>3. made' = AskedCode'
    BY <1>2, <1>5, <2>1
  <2> QED BY <2>1, <2>2, <2>3 DEF Made, TypedIsKept, TextIsMade, CodeIsMade, CompilePhase
<1> QED BY <1>3, <1>4, <1>5

\* A file in RAM format is read.
LEMMA OpenMakes == ASSUME Making, Open PROVE Made
<1>1. ~Exit
  BY DEF Exit, Making
<1>2. PICK result \in {"Ok", "Err"} :
        /\ driver.infile \in DOMAIN files
        /\ Parses(driver.infile, result) \/ ReadFails(result)
        /\ GoTo(AfterCode(result))
  BY <1>1 DEF Open
<1>3. ~driver.compile /\ ~FromTerminal
  BY DEF Open, FromTerminal
<1>4. files[driver.infile] = Source
  BY <1>2, <1>3, SourceIsThere DEF Making
<1>5. result = "Ok" => made' = SourceCode
  BY <1>2, <1>3, <1>4 DEF Parses, ReadFails, SourceCode
<1>6. ~(~driver.optimize /\ job.cmd \in {"cc", "opt"})
  BY <1>3, DriverIsAsked DEF Making
<1> QED BY <1>2, <1>5, <1>6, AfterSourceCode DEF GoTo

\* One is typed.
LEMMA TypingMakes == ASSUME Making, StartTyping \/ TypeLine PROVE Made
<1>1. job' = job /\ terminal \in Seq(TextLine) /\ job.typed \in Seq(TextLine)
  BY ArgsAreNumbers DEF Making, Kept, Driven
<1>2. ASSUME NEW lines \in Seq(TextLine)
      PROVE  Accepted("instruction", lines) \in Seq(EnabledInstruction)
  BY AcceptedIsTyped DEF Items
<1>3. InputIsAhead /\ ComesFrom
  BY DEF Making, InputInv
<1>4. CASE StartTyping
  <2>1. made' = << >> /\ pc' = "typing" /\ terminal' = job.typed
    BY <1>3, <1>4 DEF StartTyping, GoTo, InputIsAhead
  <2>2. << >> \o Accepted("instruction", job.typed) = Accepted("instruction", job.typed)
    BY <1>1, <1>2
  <2> QED BY <1>1, <2>1, <2>2 DEF Made, TypedIsKept, TextIsMade, CodeIsMade, CompilePhase
<1>5. CASE TypeLine
  <2>1. /\ pc = "typing" /\ FromTerminal /\ ~driver.compile
        /\ made \in Seq(EnabledInstruction)
        /\ made \o Accepted("instruction", terminal) = Accepted("instruction", job.typed)
    BY <1>3, <1>5 DEF TypeLine, ComesFrom, Making, Driven, CodeIsMade
  <2>2. CASE /\ NextNone("instruction", 0) /\ made' = made
             /\ GoTo(AfterCode(IF made = << >> THEN "Err" ELSE "Ok"))
    <3>1. Accepted("instruction", terminal) = << >>
      BY <1>1, <2>2, NextTakes
    <3>2. made \o << >> = made
      BY <2>1
    <3>3. made' = SourceCode
      BY <2>1, <2>2, <3>1, <3>2 DEF SourceCode, Source
    <3>4. ~(~driver.optimize /\ job.cmd \in {"cc", "opt"})
      BY <2>1, DriverIsAsked DEF Making
    <3>5. (IF made = << >> THEN "Err" ELSE "Ok") \in {"Ok", "Err"}
      OBVIOUS
    <3> QED BY <2>2, <3>3, <3>4, <3>5, AfterSourceCode DEF GoTo
  <2>3. CASE \/ NextSome("instruction", 0) /\ made' = made \o Item("instruction") /\ pc' = pc
             \/ NextAgain("instruction", 0) /\ made' = made /\ pc' = pc
    <3>1. /\ Accepted("instruction", terminal) = Item("instruction") \o Accepted("instruction", terminal')
          /\ terminal' \in Seq(TextLine) /\ Item("instruction") \in Seq(EnabledInstruction)
      BY <1>1, <2>3, NextTakes DEF Items
    <3>2. made' = made \o Item("instruction")
      <4>1. CASE NextAgain("instruction", 0) /\ made' = made
        <5>1. Item("instruction") = << >>
          BY <4>1 DEF NextAgain
        <5>2. made \o << >> = made
          BY <2>1
        <5> QED BY <4>1, <5>1, <5>2
      <4> QED BY <2>3, <4>1
    <3>3. \A s, t, u \in Seq(EnabledInstruction) : (s \o t) \o u = s \o (t \o u)
      BY ConcatAssociative
    <3>4. Accepted("instruction", terminal') \in Seq(EnabledInstruction)
      BY <1>2, <3>1
    <3>5. made' \o Accepted("instruction", terminal') = Accepted("instruction", job.typed)
      <4>1. (made \o Item("instruction")) \o Accepted("instruction", terminal')
               = made \o (Item("instruction") \o Accepted("instruction", terminal'))
        BY <2>1, <3>1, <3>3, <3>4
      <4> QED BY <2>1, <3>1, <3>2, <4>1
    <3>6. pc' = "typing"
      BY <2>1, <2>3
    <3> QED BY <1>1, <3>5, <3>6 DEF Made, TypedIsKept, TextIsMade, CodeIsMade, CompilePhase
  <2> QED BY <1>5, <2>2, <2>3 DEF TypeLine
<1> QED BY <1>4, <1>5

\* While a compilation goes on, what is in hand says nothing.
LEMMA CompilingMakes ==
    ASSUME pc' \in CompilePhase \ {"parsing"}, TypedIsKept'
    PROVE  Made
BY DEF Made, TextIsMade, CodeIsMade, CompilePhase

\* The file for what is typed.
LEMMA StartCompileMakes == ASSUME Making, StartCompile PROVE Made
<1>1. /\ status = "running" /\ status' = "running" /\ IInv /\ UNCHANGED <<driver, job>>
      /\ pc = "start" /\ ~Panic
  BY DEF Making, Kept, StartCompile, Panic
<1>2. Live = {}
  BY <1>1 DEF IInv, NoTempIsForgotten, CompilePhase
<1>3. temps.stdin = NoFile /\ temps.unoptimized = NoFile /\ temps.compiled = NoFile
  BY <1>1, <1>2, TempsAre
<1>4. CASE FromTerminal
  <2>1. CreateTemp("stdin", "copying")
    BY <1>4 DEF StartCompile, FromTerminal
  <2>2. pc' = "copying" /\ temps'.stdin \in TempNames /\ temps'.unoptimized = NoFile /\ temps'.compiled = NoFile
    <3>1. PICK new \in TempNames : temps' = [temps EXCEPT !["stdin"] = new]
      BY <1>1, <2>1, CreateTempIsFresh
    <3>2. pc' = "copying"
      BY <1>1, <2>1, CreateTempIsFresh
    <3>3. DOMAIN temps = {"stdin", "unoptimized", "compiled"}
      BY <1>1 DEF IInv, TypeOK, NoTemps
    <3> QED BY <1>3, <3>1, <3>2, <3>3
  <2>3. TypedIsKept'
    BY <2>2, NameAssumption DEF TypedIsKept
  <2> QED BY <2>2, <2>3, CompilingMakes DEF CompilePhase
<1>5. CASE ~FromTerminal
  <2>1. pc' = "unoptimized" /\ temps' = temps
    BY <1>5 DEF StartCompile, GoTo, FromTerminal
  <2>2. TypedIsKept'
    BY <1>1, <1>3, <1>5, <2>1 DEF TypedIsKept, FromTerminal
  <2> QED BY <2>1, <2>2, CompilingMakes DEF CompilePhase
<1> QED BY <1>4, <1>5

\* All that is typed is copied, or the process knows better.
LEMMA CopyStdinMakes == ASSUME Making, CopyStdin PROVE Made
<1>1. ~Exit /\ lost' # TRUE
  BY DEF Exit, Making
<1>2. pc = "copying" /\ files' = Store(temps.stdin, terminal) /\ pc' = "unoptimized" /\ temps' = temps
  BY <1>1 DEF CopyStdin, GoTo
<1>3. terminal = job.typed /\ UNCHANGED <<driver, job>> /\ temps.stdin # NoFile
  BY <1>2 DEF Making, Kept, InputInv, InputIsAhead, IInv, Shape
<1>4. temps.stdin \in DOMAIN files' /\ files'[temps.stdin] = job.typed
  BY <1>2, <1>3 DEF Store
<1>5. TypedIsKept'
  BY <1>2, <1>3, <1>4 DEF Making, TypedIsKept, CompilePhase
<1> QED BY <1>2, <1>5, CompilingMakes DEF CompilePhase

\* The files for the code.
LEMMA CreateMakes == ASSUME Making, CreateUnoptimized \/ CreateCompiled PROVE Made
<1>1. /\ IInv /\ TypedIsKept /\ UNCHANGED <<driver, job>> /\ ~Panic
      /\ pc \in CompilePhase \ {"copying"}
  BY DEF Making, Kept, Panic, CreateUnoptimized, CreateCompiled, CompilePhase
<1>2. FromTerminal' = FromTerminal
  BY <1>1 DEF FromTerminal
<1>3. ASSUME NEW owner \in {"unoptimized", "compiled"}, NEW place \in {"compiled", "compiling"},
             CreateTemp(owner, place), owner = "unoptimized" => driver.optimize
      PROVE  Made
  <2>1. PICK new \in TempNames \ DOMAIN files : temps' = [temps EXCEPT ![owner] = new]
    BY <1>1, <1>3, CreateTempIsFresh
  <2>2. pc' = place /\ \A f \in DOMAIN files : f \in DOMAIN files' /\ files'[f] = files[f]
    BY <1>1, <1>3, CreateTempIsFresh
  <2>3. DOMAIN temps = {"stdin", "unoptimized", "compiled"}
    BY <1>1 DEF IInv, TypeOK, NoTemps
  <2>4. /\ temps'.stdin = temps.stdin
        /\ temps'.unoptimized = IF owner = "unoptimized" THEN new ELSE temps.unoptimized
        /\ temps'.compiled = IF owner = "compiled" THEN new ELSE temps.compiled
    BY <1>3, <2>1, <2>3
  <2>5. temps.stdin # NoFile => temps.stdin # new
    BY <1>1, <2>1, TempsAre
  <2>6. TypedIsKept'
    BY <1>1, <1>2, <1>3, <2>2, <2>4, <2>5 DEF TypedIsKept
  <2>7. pc' \in CompilePhase \ {"parsing"}
    BY <1>3, <2>2 DEF CompilePhase
  <2> QED BY <2>6, <2>7, CompilingMakes
<1>4. ASSUME UNCHANGED <<files, temps>>, pc' \in {"compiled", "compiling"}
      PROVE  Made
  <2>1. TypedIsKept'
    BY <1>1, <1>2, <1>4 DEF TypedIsKept
  <2> QED BY <1>4, <2>1, CompilingMakes DEF CompilePhase
<1> QED BY <1>3, <1>4 DEF CreateUnoptimized, CreateCompiled, GoTo

\* The compiler, which is not cut short, writes the code of the source, to another file.
LEMMA CompileMakes == ASSUME Making, Compile PROVE Made
<1> DEFINE opened == Store(Out, << >>)
<1>1. /\ IInv /\ TypedIsKept /\ Driven /\ Regular /\ UNCHANGED <<driver, job, before>>
      /\ status = "running" /\ job.cmd # "test" /\ ~Exit /\ lost' # TRUE /\ pc = "compiling"
  BY DEF Making, Kept, Exit, Compile
<1>2. /\ In \in DOMAIN opened /\ opened[In] \in DOMAIN CodeOf
      /\ files' = Store(Out, ShowCode(CodeOf[opened[In]]))
      /\ pc' = "parsing" /\ temps' = temps
  BY <1>1 DEF Compile, GoTo
<1>3. driver.compile
  BY <1>1 DEF Making, InputInv, ComesFrom, CompilePhase
<1>4. In # Out
  <2>1. Out \in {temps.unoptimized, driver.outfile, temps.compiled}
    BY DEF Out
  <2>2. {driver.infile, driver.outfile} \subseteq FileNames \cup {NoFile}
    BY <1>1, DriverIsAsked
  <2>3. Out # NoFile
    BY <1>1 DEF IInv, Shape
  <2>4. CASE FromTerminal
    <3>1. In = temps.stdin /\ temps.stdin # NoFile /\ temps.stdin \notin {temps.unoptimized, temps.compiled}
      BY <1>1, <2>4 DEF In, FromTerminal, TypedIsKept, CompilePhase
    <3>2. temps.stdin # driver.outfile
      BY <1>1, <2>2, <3>1, TempsAre, NameAssumption
    <3> QED BY <2>1, <3>1, <3>2
  <2>5. CASE ~FromTerminal
    <3>1. In = driver.infile /\ In \in FileNames /\ In # driver.outfile
      BY <1>1, <2>2, <2>5 DEF In, FromTerminal, Regular
    <3>2. In \notin {temps.unoptimized, temps.compiled}
      BY <1>1, <3>1, TempsAre, NameAssumption
    <3> QED BY <2>1, <3>1, <3>2
  <2> QED BY <2>4, <2>5
<1>5. In \in DOMAIN files /\ opened[In] = files[In]
  BY <1>2, <1>4 DEF Store
<1>6. files[In] = Source
  <2>1. CASE FromTerminal
    BY <1>1, <2>1 DEF In, FromTerminal, TypedIsKept, CompilePhase, Source
  <2>2. CASE ~FromTerminal
    <3>1. In = driver.infile
      BY <2>2 DEF In, FromTerminal
    <3> QED BY <1>1, <1>5, <2>2, <3>1, SourceIsThere
  <2> QED BY <2>1, <2>2
<1>7. Source \in DOMAIN CodeOf /\ SourceCode = CodeOf[Source]
  BY <1>2, <1>3, <1>5, <1>6 DEF SourceCode
<1>8. Out \in DOMAIN files' /\ files'[Out] = ShowCode(SourceCode)
  BY <1>2, <1>5, <1>6, <1>7 DEF Store
<1>9. Out' = Out /\ Source' = Source /\ SourceCode' = SourceCode /\ FromTerminal' = FromTerminal
  <2>1. Out' = Out
    BY <1>1, <1>2 DEF Out
  <2> QED BY <1>1, <2>1, AskedStays
<1>10. TextIsMade'
  BY <1>7, <1>8, <1>9 DEF TextIsMade
<1>11. TypedIsKept'
  <2>1. FromTerminal => temps.stdin \in DOMAIN files' /\ files'[temps.stdin] = job.typed
    <3>1. FromTerminal => In = temps.stdin
      BY DEF FromTerminal, In
    <3>2. In \in DOMAIN files' /\ files'[In] = files[In]
      BY <1>2, <1>4, <1>5 DEF Store
    <3> QED BY <1>6, <3>1, <3>2 DEF Source
  <2> QED BY <1>1, <1>2, <1>9, <2>1 DEF TypedIsKept, CompilePhase
<1> QED BY <1>2, <1>10, <1>11 DEF Made, CodeIsMade

\* RoCode::parse reads it back; the outfile outlives the temporary files.
LEMMA ParseCompiledMakes == ASSUME Making, ParseCompiled PROVE Made
<1>1. /\ IInv /\ Driven /\ TextIsMade /\ status = "running" /\ job.cmd # "test" /\ ~Exit /\ pc = "parsing"
  BY DEF Making, Exit, ParseCompiled
<1>2. PICK result \in {"Ok", "Err"} :
        (Parses(Out, result) \/ ReadFails(result)) /\ GoTo(AfterCode(result))
  BY <1>1 DEF ParseCompiled
<1>3. DropTemps
  BY <1>1 DEF ParseCompiled
<1>4. driver.compile
  BY <1>1 DEF Making, InputInv, ComesFrom, CompilePhase
<1>5. Source \in DOMAIN CodeOf /\ Out \in DOMAIN files /\ files[Out] = ShowCode(SourceCode)
  BY <1>1 DEF TextIsMade
<1>6. SourceCode \in Seq(EnabledInstruction)
  BY <1>4, <1>5, CodeAssumption DEF SourceCode
<1>7. ParseCode(files[Out]).code = SourceCode
  BY <1>5, <1>6, CodeIsReadBack
<1>8. result = "Ok" => made' = SourceCode
  BY <1>2, <1>7 DEF Parses, ReadFails
<1>9. ASSUME ~driver.optimize, job.cmd \in {"cc", "opt"}
      PROVE  driver.outfile \in DOMAIN files' /\ ParseCode(files'[driver.outfile]).code = SourceCode
  <2>1. driver.outfile \in FileNames /\ driver.outfile # NoFile
    BY <1>1, <1>9, DriverIsAsked
  <2>2. Out = driver.outfile
    BY <1>1, <1>9, <2>1 DEF Out, Making, TypedIsKept, CompilePhase
  <2>3. Out \in DOMAIN files' /\ files'[Out] = files[Out]
    BY <1>1, <1>3, <1>5, <2>1, <2>2, DropTempsLeaves DEF IInv
  <2> QED BY <1>7, <2>2, <2>3
<1> QED BY <1>2, <1>8, <1>9, AfterSourceCode DEF GoTo

\* The optimizer makes what is asked of the source.
LEMMA OptimizeMakes == ASSUME Making, Optimize PROVE Made
<1>1. /\ Driven /\ CodeIsMade /\ status = "running" /\ job.cmd # "test" /\ ~Panic /\ UNCHANGED <<driver, job, before>>
      /\ pc = "optimizing"
  BY DEF Making, Kept, Panic, Optimize
<1>2. /\ made \in DOMAIN OptimizedOf /\ made' = OptimizedOf[made]
      /\ pc' = IF driver.outfile = NoFile THEN "Ok" ELSE "writing"
  BY <1>1 DEF Optimize, GoTo
<1>3. made' = AskedCode' /\ made' \in Seq(EnabledInstruction)
  BY <1>1, <1>2, AskedStays, CodeAssumption DEF CodeIsMade, AskedCode
<1>4. pc' = "Ok" => job'.cmd \notin {"cc", "opt"}
  BY <1>1, <1>2, DriverIsAsked
<1> QED BY <1>2, <1>3, <1>4 DEF Made, TypedIsKept, TextIsMade, CodeIsMade, CompilePhase

\* What is written, if all of it is, is read back as that code.
LEMMA WriteOutfileMakes == ASSUME Making, WriteOutfile PROVE Made
<1>1. /\ CodeIsMade /\ ~Exit /\ lost' # TRUE /\ UNCHANGED <<driver, job, before>> /\ pc = "writing"
  BY DEF Making, Kept, Exit, WriteOutfile
<1>2. files' = Store(driver.outfile, ShowCode(made)) /\ pc' = "Ok" /\ made' = made
  BY <1>1 DEF WriteOutfile, GoTo
<1>3. made = AskedCode /\ made \in Seq(EnabledInstruction) /\ AskedCode' = AskedCode
  BY <1>1, AskedStays DEF CodeIsMade
<1>4. driver.outfile \in DOMAIN files' /\ files'[driver.outfile] = ShowCode(made)
  BY <1>2 DEF Store
<1>5. WrittenAsAsked'
  BY <1>1, <1>3, <1>4, CodeIsReadBack DEF WrittenAsAsked
<1> QED BY <1>2, <1>3, <1>5 DEF Made, TypedIsKept, TextIsMade, CodeIsMade, CompilePhase

\* Every step of try_drive.
LEMMA TryDriveMakes ==
    ASSUME IInv, Driven, InputInv, CodeInv, TryDrive, Kept, job.cmd # "test"
    PROVE  CodeInv'
<1>1. /\ status = "running" /\ driver' = driver /\ job' = job /\ before' = before
      /\ pc' \notin {"running", "reading"} /\ status' # "success"
  BY TryDrivePlaces DEF Kept, CompilePhase
<1>2. Regular' = Regular
  BY <1>1, AskedStays
<1>3. CASE lost' \/ ~Regular \/ status' # "running"
  BY <1>1, <1>2, <1>3 DEF CodeInv, Written
<1>4. CASE ~lost' /\ Regular /\ status' = "running"
  <2>1. ~lost
    BY <1>4 DEF TryDrive, Open, StartTyping, TypeLine, StartCompile, CreateTemp, CopyStdin, CreateUnoptimized,
                CreateCompiled, Compile, ParseCompiled, Optimize, WriteOutfile, Panic
  <2>2. Making
    BY <1>1, <1>4, <2>1 DEF Making, CodeInv
  <2>3. Made
    BY <2>2, OpenMakes, TypingMakes, StartCompileMakes, CopyStdinMakes, CreateMakes, CompileMakes,
       ParseCompiledMakes, OptimizeMakes, WriteOutfileMakes DEF TryDrive
  <2> QED BY <1>1, <2>3 DEF CodeInv, Made, Written
<1> QED BY <1>3, <1>4

\* Every step.
LEMMA NextMakes == IInv /\ Driven /\ InputInv /\ CodeInv /\ [Next]_vars => CodeInv'
<1> SUFFICES ASSUME IInv, Driven, InputInv, CodeInv, [Next]_vars PROVE CodeInv'
  OBVIOUS
<1>1. CASE StartJob
  <2>1. status' = "running" /\ pc' \in {"start", "scan"}
    BY <1>1 DEF StartJob
  <2> QED BY <2>1 DEF CodeInv, TypedIsKept, TextIsMade, CodeIsMade, Written, CompilePhase
<1>2. CASE UNCHANGED vars
  <2>1. UNCHANGED <<files, driver, pc, temps, made, status, lost, terminal, job, before>>
    BY <1>2 DEF vars, drivervars, terminalvars
  <2>2. /\ UNCHANGED <<FromTerminal, Source, SourceCode, AskedCode, Regular, WrittenAsAsked>>
    BY <2>1, AskedStays
  <2>3. UNCHANGED <<Out, Written>>
    BY <2>1 DEF Out, Written
  <2> QED BY <2>1, <2>2, <2>3 DEF CodeInv, TypedIsKept, TextIsMade, CodeIsMade
<1>3. CASE Continue
  <2>1. status = "running" /\ job' = job /\ before' = before /\ Kept
    BY <1>3 DEF Continue, Ended, Kept
  <2>2. CASE job.cmd = "test"
    BY <2>1, <2>2 DEF CodeInv
  <2>3. CASE job.cmd # "test"
    <3>1. pc \notin {"scan", "headers", "testing"}
      BY <2>3 DEF Driven
    <3>2. /\ ~ScanPath /\ ~ScanDir /\ ~ScanEntry /\ ~ScanDirEnds /\ ~ScanEnds /\ ~Headers
          /\ ~CompileFailed /\ ~StartTests /\ ~RunTest /\ ~TestsEnd
      BY <2>3, <3>1 DEF ScanPath, ScanDir, ScanEntry, ScanDirEnds, ScanEnds, Headers, CompileFailed,
                        StartTests, RunTest, TestsEnd
    <3>3. CASE TryDrive
      BY <2>1, <2>3, <3>3, TryDriveMakes
    <3>4. CASE Return \/ DriveFails
      <4>1. /\ UNCHANGED <<files, driver, pc, lost>> /\ pc \in {"Ok", "Err"}
            /\ status' = "success" => pc = "Ok" /\ job.cmd \in {"cc", "opt"}
            /\ status' # "running"
        BY <3>4 DEF Return, DriveFails, End
      <4>2. Regular' = Regular /\ WrittenAsAsked' = WrittenAsAsked
        BY <2>1, <4>1, AskedStays
      <4>3. ~lost /\ job.cmd # "test" /\ Regular /\ pc = "Ok" /\ job.cmd \in {"cc", "opt"} => WrittenAsAsked
        BY <2>1 DEF CodeInv, CodeIsMade
      <4> QED BY <2>1, <4>1, <4>2, <4>3 DEF CodeInv, Written
    <3>5. CASE Poly \/ ReadArg \/ AskTerminal \/ ReadTerminal \/ RunEnds
      <4>1. job.cmd = "run" /\ UNCHANGED <<driver, made, lost>>
        BY <3>5 DEF Poly, ReadArg, AskTerminal, ReadTerminal, RunEnds, Panic, End, drivervars, Driven
      <4>2. pc \in {"Ok", "running", "reading"} /\ (pc' \in {"running", "reading"} \/ (pc' = pc /\ status' # "running"))
        BY <3>5 DEF Poly, ReadArg, AskTerminal, ReadTerminal, RunEnds, Panic, End, GoTo, drivervars
      <4>3. Regular' = Regular /\ AskedCode' = AskedCode
        BY <2>1, <4>1, AskedStays
      <4>4. ~lost /\ Regular => made = AskedCode
        BY <2>1, <2>3, <4>2 DEF CodeInv, CodeIsMade
      <4>5. pc' \in {"running", "reading"} => TypedIsKept' /\ TextIsMade' /\ CodeIsMade'
        BY DEF TypedIsKept, TextIsMade, CodeIsMade, CompilePhase
      <4>6. ~Written'
        BY <2>1, <4>1 DEF Written
      <4> QED BY <2>1, <4>1, <4>2, <4>3, <4>4, <4>5, <4>6 DEF CodeInv
    <3> QED BY <1>3, <3>2, <3>3, <3>4, <3>5 DEF Continue
  <2> QED BY <2>2, <2>3
<1> QED BY <1>1, <1>2, <1>3 DEF Next

-----------------------------------------------------------------------------

\* What the commands keep (driver/src/lib.rs, driver/src/tmp.rs, driver/src/bin).
THEOREM Invariant == Spec => []IInv
BY InitKeeps, NextKeeps, PTL DEF Spec

\* Every variable of a process keeps its type.
THEOREM TypeCorrect == Spec => []TypeOK
<1>1. IInv => TypeOK
  BY DEF IInv
<1> QED BY <1>1, Invariant, PTL

\* A process leaves no temporary file but the one that it could not remove and the ones that
\* it owned when it called exit(1) (TempFile::drop).
THEOREM TempsAreRemoved == Spec => []NoTempIsForgotten
<1>1. IInv => NoTempIsForgotten
  BY DEF IInv
<1> QED BY <1>1, Invariant, PTL

\* No command changes a file but its outfile (Driver::try_drive, write_to_file).
THEOREM FilesAreKept == Spec => []UserFilesAreKept
<1>1. IInv => UserFilesAreKept
  BY DEF IInv
<1> QED BY <1>1, Invariant, PTL

\* rame-test succeeds only if every file it was asked to test passed its tests, and fails only
\* if one did not (scan_file, and main() of driver/src/bin/test.rs).
THEOREM VerdictsAreRight == Spec => []VerdictIsRight
<1>1. Init => VInv
  BY DEF Init, VInv, VerdictIsRight, NoJob
<1>2. VInv => VerdictIsRight
  BY DEF VInv
<1> QED BY <1>1, <1>2, NextJudges, Invariant, PTL DEF Spec

\* The machine of rame-run reads what it should, in order.
THEOREM InputsAreInOrder == Spec => []InputIsInOrder
<1>1. Driven /\ InputInv => InputIsInOrder
  BY DEF Driven, InputInv, InputIsTaken, InputIsInOrder
<1> QED BY <1>1, InitReads, NextDrives, NextReads, PTL DEF Spec

\* The code is what the command line asks for: the machine executes it, and the outfile holds
\* it, unless a write was cut short without an error.
THEOREM CodesAreAsAsked == Spec => []CodeIsAsAsked
<1>1. Init => CodeInv
  BY DEF Init, CodeInv, NewDriver, NoJob, Written
<1>2. IInv /\ Driven /\ InputInv /\ CodeInv => CodeIsAsAsked
  <2> SUFFICES ASSUME IInv, Driven, CodeInv, ~lost
               PROVE  (pc = "running" => made = AskedCode) /\ (Written => WrittenAsAsked)
    BY DEF CodeIsAsAsked
  <2>1. ASSUME pc = "running" PROVE made = AskedCode
    <3>1. job.cmd = "run" /\ status # "none"
      BY <2>1 DEF Driven
    <3>2. Regular
      BY <3>1, DriverIsAsked DEF Regular
    <3> QED BY <2>1, <3>1, <3>2 DEF CodeInv
  <2>2. ASSUME Written PROVE WrittenAsAsked
    <3>1. job.cmd \in {"cc", "opt"} /\ Regular
      BY <2>2 DEF Written, Regular
    <3> QED BY <2>2, <3>1 DEF CodeInv
  <2> QED BY <2>1, <2>2
<1> QED BY <1>1, <1>2, InitReads, NextDrives, NextReads, NextMakes, InitKeeps, NextKeeps, PTL DEF Spec
=============================================================================
