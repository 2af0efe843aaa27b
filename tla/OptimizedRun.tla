---------------------------- MODULE OptimizedRun ----------------------------
(***************************************************************************)
(* A program and its optimized form, run on the same input: what the test  *)
(* harness does for every test program (driver/src/bin/test.rs, scan_file).*)
(* The optimizer runs first, then the two machines, one after the other.   *)
(***************************************************************************)
EXTENDS Passes

CONSTANTS Uninit, None, Inputs, MaxCells, MaxOutput, MaxIr    \* as in Ram

\* What Ram assumes of its constants.  The crate has no optimizer where it has indirect jumps.
ASSUME MarkAssumption == Uninit \notin Number \cup Usize /\ None \notin Number
ASSUME InputAssumption == Inputs \subseteq Seq(Number \cup {None})
ASSUME BoundAssumption == MaxOutput \in Nat /\ MaxIr \in Nat /\ \A c \in Codes : Len(c) <= MaxIr
ASSUME MemoryAssumption == MaxCells \in 1..MaxUsize
ASSUME DirectAssumption == \A c \in Codes : \A k \in DOMAIN c : c[k].mode # "reg"

VARIABLES
    given,                                              \* the input of both machines
    input1, output1, memory1, ir1, inst1, result1, driver1,    \* runs the original
    input2, output2, memory2, ir2, inst2, result2, driver2     \* runs the optimized code

machine1 == <<input1, output1, memory1, ir1, inst1, result1, driver1>>
machine2 == <<input2, output2, memory2, ir2, inst2, result2, driver2>>
allvars == <<vars, given, machine1, machine2>>

Ram1 == INSTANCE Ram WITH
    Programs <- Codes, code <- original, input <- input1, output <- output1,
    memory <- memory1, ir <- ir1, inst <- inst1, result <- result1, driver <- driver1

Ram2 == INSTANCE Ram WITH
    Programs <- Codes, code <- w.inner, input <- input2, output <- output2,
    memory <- memory2, ir <- ir2, inst <- inst2, result <- result2, driver <- driver2

\* Neither machine exists before the optimized code does.
RunInit ==
    /\ Init
    /\ given = << >>
    /\ input1 = << >> /\ output1 = << >> /\ memory1 = [a \in {} |-> Uninit] /\ ir1 = 0
    /\ input2 = << >> /\ output2 = << >> /\ memory2 = [a \in {} |-> Uninit] /\ ir2 = 0
    /\ inst1 = Inst("NOP", "none", 0) /\ result1 = "Ok" /\ driver1 = "none"
    /\ inst2 = Inst("NOP", "none", 0) /\ result2 = "Ok" /\ driver2 = "none"

Optimize == Next /\ UNCHANGED <<given, machine1, machine2>>

\* What becomes of the process when a code is cast to the machine's width, which panics if a
\* constant does not fit, and given to Ram::new, which exits if there is no instruction.
Fits(code) == CastFits(code, MaxInt)
Started(code) == IF ~Fits(code) THEN "panicked" ELSE IF code = << >> THEN "exited" ELSE "running"
FirstOf(code, inst) == IF Started(code) = "running" THEN At(code, 0) ELSE inst

\* The cast and Ram::new for the original, and the call of run().
NewOriginal ==
    /\ pass = "done"
    /\ driver1 = "none"
    /\ given' \in Inputs
    /\ input1' = given'
    /\ inst1' = FirstOf(original, inst1)
    /\ driver1' = Started(original)
    /\ UNCHANGED <<vars, output1, memory1, ir1, result1, machine2>>

RunOriginal == UNCHANGED <<vars, given, machine2>> /\ Ram1!RunIteration

\* The same for the optimized code, of which nothing may be left.
NewOptimized ==
    /\ driver1 \notin {"none", "running", "panicked", "undefined"}
    /\ driver2 = "none"
    /\ input2' = given
    /\ inst2' = FirstOf(w.inner, inst2)
    /\ driver2' = Started(w.inner)
    /\ UNCHANGED <<vars, given, machine1, output2, memory2, ir2, result2>>

RunOptimized == UNCHANGED <<vars, given, machine1>> /\ Ram2!RunIteration

RunNext == Optimize \/ NewOriginal \/ RunOriginal \/ NewOptimized \/ RunOptimized

\* One thread does it all, and waits for nothing.
RunSpec == RunInit /\ [][RunNext]_allvars /\ WF_allvars(RunNext)

-----------------------------------------------------------------------------
(***************************************************************************)
(* Properties.                                                             *)
(***************************************************************************)

RunTypeOK ==
    /\ TypeOK
    /\ output1 \in Seq(Number) /\ output2 \in Seq(Number)
    /\ {driver1, driver2} \subseteq {"none", "running", "idle", "exited", "panicked", "undefined"}

\* The original ended in a way that does not hang on an instruction the optimizer may fold:
\* it stopped, ran out of input or of instructions, or went through a register that holds
\* no address.  (A program that overflows or reads a register it never wrote may lose that
\* error together with the instruction.)
OriginalEnded ==
    /\ driver1 \in {"idle", "exited"}
    /\ result1 \in {"Ok", "ReadEof", "InvalidAddress", "Eof"}

\* The optimized program ends as the original did, and has printed the same.  Only where the
\* original runs off its end, the optimized one may jump there: a jump to the last
\* instructions leads past the end once fold_consts has deleted them.
SameVerdict ==
    OriginalEnded /\ driver2 \in {"idle", "exited"} =>
        /\ driver2 = driver1 /\ output2 = output1
        /\ result2 = result1 \/ (result1 = "Eof" /\ result2 = "InexistentJump")

\* On its way there it prints nothing that the original does not print.
SameOutputSoFar == OriginalEnded => IsPrefix(output2, output1)

\* Where the original comes to an end, so does the optimized program; only a constant that was
\* folded out of the width keeps it from running (scan_file, opt.try_cast().unwrap()).
OptimizedEnds ==
    OriginalEnded ~> driver2 \in {"idle", "exited"} \/ (driver2 = "panicked" /\ ~Fits(w.inner))
=============================================================================
