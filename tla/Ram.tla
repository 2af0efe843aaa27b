-------------------------------- MODULE Ram --------------------------------
(***************************************************************************)
(* A process for a RAM program (rame/src/runner): struct Ram, step(),      *)
(* run() and the error report that ends the process.                       *)
(*                                                                         *)
(* The caller of a Ram may call step() as often as it likes, also after an *)
(* error, and may call run(), whose loop is one action per iteration.      *)
(***************************************************************************)
EXTENDS RamModel

CONSTANTS
    Uninit,      \* Loc::Uninit, a memory cell that was never written
    None,        \* what the input iterator answers when it has nothing
    MaxCells,    \* the most cells a Vec can hold (isize::MAX bytes of them)
    OverflowChecks,  \* whether the build checks the integers' overflow; a release build does not
    Programs,    \* the programs a Ram may be created for
    Inputs,      \* the sequences of answers an input iterator may give
    MaxOutput,   \* bound: no WRITE past this many outputs
    MaxIr        \* bound: the caller does not step at an ir this large, which each
                 \* step past the end of the program increments

ASSUME MarkAssumption == Uninit \notin Number \cup Usize /\ None \notin Number
ASSUME ProgramAssumption ==
    Programs \subseteq { p \in Seq(Instruction) : Len(p) <= MaxIr }
ASSUME InputAssumption == Inputs \subseteq Seq(Number \cup {None})
ASSUME MemoryAssumption == MaxCells \in 1..MaxUsize /\ OverflowChecks \in BOOLEAN
ASSUME BoundAssumption == MaxOutput \in Nat /\ MaxIr \in Nat

VARIABLES
    code,     \* RoCode
    input,    \* the answers that Fuse<I> has left; << >> once it gave None
    output,   \* Vec<T>
    memory,   \* Vec<Cell<Loc<T>>>, indexed from 0, grown on demand
    ir,       \* the index of inst
    inst,     \* the next instruction to run
    result,   \* what the last step() returned
    driver    \* "idle": the caller; "running": run()'s loop; "exited"; "panicked";
              \* "undefined": from here on the code promises nothing

machine == <<code, input, output, memory, ir, inst, result>>
vars == <<code, input, output, memory, ir, inst, result, driver>>

Ok == "Ok"
\* The variants of RunError, a panic of loc() and the undefined behaviour of loc().
Errors == {"Panic", "Undefined", "ReadEof", "ReadUninit", "InvalidAddress", "IntegerOverfow",
           "InexistentJump", "InvalidJump", "Eof"}

Cell == Number \cup {Uninit}
Memory == UNION { [0..(size - 1) -> Cell] : size \in 0..MaxCells }

TypeOK ==
    /\ code \in Programs
    /\ input \in Seq(Number \cup {None})
    /\ output \in Seq(Number)
    /\ memory \in Memory
    /\ ir \in Nat
    /\ inst \in Instruction
    /\ result \in Errors \cup {Ok}
    /\ driver \in {"idle", "running", "exited", "panicked", "undefined"}

\* Ram::new: a program without instructions ends the process at once.
Init ==
    /\ code \in Programs
    /\ input \in Inputs
    /\ output = << >>
    /\ memory = [a \in {} |-> Uninit]
    /\ ir = 0
    /\ inst = IF code = << >> THEN Inst("NOP", "none", 0) ELSE At(code, 0)
    /\ result = Ok
    /\ driver = IF code = << >> THEN "exited" ELSE "idle"

-----------------------------------------------------------------------------
(***************************************************************************)
(* Access to the memory.  Looking a register up makes the memory reach it, *)
(* even if the instruction fails afterwards; the records returned here     *)
(* carry the memory along.                                                 *)
(***************************************************************************)

\* A bug: growing replaces the memory instead of extending it.
GrowAfresh(m, adr) ==
    [a \in DOMAIN m \cup 0..adr |-> IF a \in DOMAIN m /\ adr \in DOMAIN m THEN m[a] ELSE Uninit]

\* Ram::loc of an address that a Vec can reach.
Grow(m, adr) == [a \in DOMAIN m \cup 0..adr |-> IF a \in DOMAIN m THEN m[a] ELSE Uninit]

Failure(e, m) == [err |-> e, adr |-> 0, val |-> 0, mem |-> m]

\* Ram::loc of any other: Vec::resize panics, and so does the + 1 at the largest usize.  Where
\* the + 1 wraps, the memory is resized to nothing, and loc() asserts that the address is in it.
Unreachable(m, adr) ==
    IF adr = MaxUsize /\ ~OverflowChecks
    THEN Failure("Undefined", [a \in {} |-> Uninit]) ELSE Failure("Panic", m)

\* Register::loc.
Locate(m, reg) ==
    LET direct == Grow(m, reg.n)
        pointer == direct[reg.n]
        Found(adr, m1) == [err |-> Ok, adr |-> adr, val |-> 0, mem |-> m1]
    IN  IF reg.n >= MaxCells THEN Unreachable(m, reg.n)
        ELSE IF reg.mode # "ind" THEN Found(reg.n, direct)
        ELSE IF pointer = Uninit THEN Failure("ReadUninit", direct)
        ELSE IF pointer \notin Usize THEN Failure("InvalidAddress", direct)
        ELSE IF pointer >= MaxCells THEN Unreachable(direct, pointer)
        ELSE Found(pointer, Grow(direct, pointer))

\* LocEntry::get and Register::get.
Get(m, reg) ==
    LET loc == Locate(m, reg)
    IN  IF loc.err = Ok /\ loc.mem[loc.adr] = Uninit THEN Failure("ReadUninit", loc.mem)
        ELSE IF loc.err = Ok THEN [loc EXCEPT !.val = loc.mem[loc.adr]]
        ELSE loc

\* Value::get.
Fetch(m, v) ==
    IF v.mode = "const" THEN [err |-> Ok, adr |-> 0, val |-> v.n, mem |-> m] ELSE Get(m, v)

\* ACC is register 0.
ACC == [mode |-> "dir", n |-> 0]
Acc == Get(memory, ACC)

\* LocEntry::set, at a location that was looked up in m.
Set(m, adr, v) == [m EXCEPT ![adr] = v]
SetAcc(m, v) == Set(Grow(m, 0), 0, v)

-----------------------------------------------------------------------------
(***************************************************************************)
(* One action per instruction, each a whole call of step().                *)
(***************************************************************************)

\* return Err, or a panic: the instruction stays the next one.
Fail(e, m) ==
    /\ result' = e
    /\ memory' = m
    /\ UNCHANGED <<output, ir, inst>>

\* The end of step(): the instruction has its effect even if nothing follows it.
Advance(m, out) ==
    /\ memory' = m
    /\ output' = out
    /\ ir' = ir + 1
    /\ inst' = IF Exists(code, ir + 1) THEN At(code, ir + 1) ELSE inst
    /\ result' = IF Exists(code, ir + 1) THEN Ok ELSE "Eof"

\* Fuse::next: the first None drops the iterator.
Answer == IF input = << >> THEN None ELSE Head(input)

\* A bug: an input that is not fused goes on after a None.
RestUnfused == IF input = << >> THEN << >> ELSE Tail(input)

Rest == IF Answer = None THEN << >> ELSE Tail(input)

Read ==
    /\ inst.op = "READ"
    /\ input' = Rest
    /\ \/ Answer = None /\ Fail("ReadEof", memory)
       \/ Answer # None /\ Advance(SetAcc(memory, Answer), output)

Write ==
    /\ inst.op = "WRITE"
    /\ Len(output) < MaxOutput
    /\ UNCHANGED input
    /\ \/ Acc.err # Ok /\ Fail(Acc.err, Acc.mem)
       \/ Acc.err = Ok /\ Advance(Acc.mem, Append(output, Acc.val))

Load ==
    /\ inst.op = "LOAD"
    /\ UNCHANGED input
    /\ LET v == Fetch(memory, inst)
       IN  \/ v.err # Ok /\ Fail(v.err, v.mem)
           \/ v.err = Ok /\ Advance(SetAcc(v.mem, v.val), output)

\* ACC is read before the register is looked up.
Store ==
    /\ inst.op = "STORE"
    /\ UNCHANGED input
    /\ LET loc == Locate(Acc.mem, inst)
       IN  \/ Acc.err # Ok /\ Fail(Acc.err, Acc.mem)
           \/ Acc.err = Ok /\ loc.err # Ok /\ Fail(loc.err, loc.mem)
           \/ Acc.err = Ok /\ loc.err = Ok /\ Advance(Set(loc.mem, loc.adr, Acc.val), output)

\* A bug: the register is written before the overflow is noticed.
UnopWritesFirst ==
    /\ inst.op \in UnaryOps
    /\ UNCHANGED input
    /\ LET v == Get(memory, inst)
           r == Checked(inst.op, v.val, 1)
       IN  \/ v.err # Ok /\ Fail(v.err, v.mem)
           \/ v.err = Ok /\ r = {} /\ Fail("IntegerOverfow", Set(v.mem, v.adr, MinInt))
           \/ v.err = Ok /\ \E n \in r : Advance(Set(v.mem, v.adr, n), output)

\* INC and DEC: Ram::unop.
Unop ==
    /\ inst.op \in UnaryOps
    /\ UNCHANGED input
    /\ LET v == Get(memory, inst)
           r == Checked(inst.op, v.val, 1)
       IN  \/ v.err # Ok /\ Fail(v.err, v.mem)
           \/ v.err = Ok /\ r = {} /\ Fail("IntegerOverfow", v.mem)
           \/ v.err = Ok /\ \E n \in r : Advance(Set(v.mem, v.adr, n), output)

\* ADD, SUB, MUL, DIV and MOD: Ram::binop.
Binop ==
    /\ inst.op \in BinaryOps
    /\ UNCHANGED input
    /\ LET v == Fetch(Acc.mem, inst)
           r == Checked(inst.op, Acc.val, v.val)
       IN  \/ Acc.err # Ok /\ Fail(Acc.err, Acc.mem)
           \/ Acc.err = Ok /\ v.err # Ok /\ Fail(v.err, v.mem)
           \/ Acc.err = Ok /\ v.err = Ok /\ r = {} /\ Fail("IntegerOverfow", v.mem)
           \/ Acc.err = Ok /\ v.err = Ok /\ \E n \in r : Advance(SetAcc(v.mem, n), output)

\* Address::get, with and without the feature indirect_jumps.
Target(m, adr) ==
    LET v == Get(m, [mode |-> "dir", n |-> adr.n])
        to == IF adr.mode = "reg" THEN v.val ELSE adr.n
        m1 == IF adr.mode = "reg" THEN v.mem ELSE m
    IN  IF adr.mode = "reg" /\ v.err # Ok THEN Failure(v.err, m1)
        ELSE IF to \notin Usize THEN Failure("InvalidJump", m1)
        ELSE IF ~Exists(code, to) THEN Failure("InexistentJump", m1)
        ELSE [err |-> Ok, adr |-> to, val |-> 0, mem |-> m1]

\* A bug: a jump that forgets the cached instruction.
JumpKeepsInst(m) ==
    LET to == Target(m, inst)
    IN  \/ to.err # Ok /\ Fail(to.err, to.mem)
        \/ to.err = Ok /\ ir' = to.adr /\ result' = Ok /\ memory' = to.mem /\ UNCHANGED <<inst, output>>

\* Ram::jump.
Jump(m) ==
    LET to == Target(m, inst)
    IN  \/ to.err # Ok /\ Fail(to.err, to.mem)
        \/ /\ to.err = Ok
           /\ ir' = to.adr
           /\ inst' = At(code, to.adr)
           /\ result' = Ok
           /\ memory' = to.mem
           /\ UNCHANGED output

AlwaysJump == inst.op = "JUMP" /\ UNCHANGED input /\ Jump(memory)

\* A bug: JUML taken at zero.
JumpsAtZero(op, acc) ==
    \/ op \in {"JUMZ", "JUML"} /\ acc = 0
    \/ op = "JUML" /\ acc < 0
    \/ op = "JUMG" /\ acc > 0

Jumps(op, acc) ==
    \/ op = "JUMZ" /\ acc = 0
    \/ op = "JUML" /\ acc < 0
    \/ op = "JUMG" /\ acc > 0

MayJump ==
    /\ inst.op \in ConditionalJumps
    /\ UNCHANGED input
    /\ \/ Acc.err # Ok /\ Fail(Acc.err, Acc.mem)
       \/ Acc.err = Ok /\ Jumps(inst.op, Acc.val) /\ Jump(Acc.mem)
       \/ Acc.err = Ok /\ ~Jumps(inst.op, Acc.val) /\ Advance(Acc.mem, output)

Stop ==
    /\ inst.op = "STOP"
    /\ result' = Ok
    /\ UNCHANGED <<input, output, memory, ir, inst>>

Nop == inst.op = "NOP" /\ UNCHANGED input /\ Advance(memory, output)

Step ==
    /\ UNCHANGED code
    /\ \/ Read \/ Write \/ Load \/ Store \/ Unop \/ Binop
       \/ AlwaysJump \/ MayJump \/ Stop \/ Nop

-----------------------------------------------------------------------------
(***************************************************************************)
(* The callers of step().                                                  *)
(***************************************************************************)
\* A panic of loc() unwinds through every caller; nothing can be said of what is undefined.
Broken == [ e \in {"Panic", "Undefined"} |-> IF e = "Panic" THEN "panicked" ELSE "undefined" ]

CallStep ==
    /\ driver = "idle" /\ ir < MaxIr
    /\ Step
    /\ driver' = IF result' \in DOMAIN Broken THEN Broken[result'] ELSE "idle"

CallRun == driver = "idle" /\ driver' = "running" /\ UNCHANGED machine

\* A bug: the report unwraps whatever the error was.
ReportAlwaysUnwraps(e, ir0, m) ==
    /\ Exists(code, ir0)
    /\ ReadsRegister(At(code, ir0))
    /\ Locate(m, At(code, ir0)).err \in {"ReadUninit", "Panic", "Undefined"}

\* Ram::emit_err looks up the register that an instruction reads, and unwraps the cell that
\* @n goes through; it takes the instruction at the ir that step() began with.
ReportPanics(e, ir0, m) ==
    /\ e \notin {"Eof", "ReadUninit"}
    /\ Exists(code, ir0)
    /\ ReadsRegister(At(code, ir0))
    /\ Locate(m, At(code, ir0)).err \in {"ReadUninit", "Panic", "Undefined"}

\* A bug: run() that ignores errors.
RunIgnoresErrors ==
    /\ driver = "running"
    /\ Step
    /\ driver' = IF inst'.op = "STOP" THEN "idle" ELSE "running"

\* One iteration of Ram::run's loop; emit_err never returns.
RunIteration ==
    /\ driver = "running"
    /\ Step
    /\ driver' = IF result' = Ok THEN (IF inst'.op = "STOP" THEN "idle" ELSE "running")
                 ELSE IF result' \in DOMAIN Broken THEN Broken[result']
                 ELSE IF ReportPanics(result', ir, memory') THEN "panicked"
                 ELSE "exited"

Next == CallStep \/ CallRun \/ RunIteration

\* run() loops without waiting for anything but its input iterator, which answers.
Fairness == WF_vars(RunIteration)

Spec == Init /\ [][Next]_vars /\ Fairness

-----------------------------------------------------------------------------
(***************************************************************************)
(* Properties.                                                             *)
(***************************************************************************)

\* The instruction register and the cached instruction agree: inst is the
\* instruction at ir, or, once execution ran off the end, still the last one of
\* the program (the doc comments of the fields inst and ir of struct Ram).
InstIsCurrent ==
    code # << >> => inst = At(code, IF Exists(code, ir) THEN ir ELSE Len(code) - 1)

\* Printing the diagnosis of a failed instruction never fails itself: the unwrap
\* in Ram::emit_err meets an initialized register in every error it is reached by, and
\* the registers it looks up are within the memory.  Only an instruction panics.
ReportNeverPanics == driver = "panicked" => result = "Panic"

\* What the unsafe block of Ram::loc takes for granted: once the memory was resized, the
\* address is in it (the SAFETY comment in front of the block).
LookupsAreInBounds == result # "Undefined"

\* What two memories hold, apart from how far they were grown.
SameContents(m, n) ==
    \A a \in DOMAIN m \cup DOMAIN n :
        (IF a \in DOMAIN m THEN m[a] ELSE Uninit) = (IF a \in DOMAIN n THEN n[a] ELSE Uninit)

\* A step() that returns an error other than Eof has changed no register, printed
\* nothing and stays at its instruction: no instruction is half executed.
FailedStepHasNoEffect ==
    [][result' \notin {Ok, "Eof"} =>
           SameContents(memory, memory') /\ UNCHANGED <<output, ir, inst>>]_vars

\* An error is final: however often step() is called again, it reports the same
\* error, also for a READ whose iterator would have had more to give after a None.
FaultIsPermanent ==
    [][result \notin {Ok, "Eof"} => result' = result]_vars

\* A register that was written once never reads as uninitialized again, at whatever addresses
\* the memory is looked up, also those that no memory reaches.
WrittenStaysWritten ==
    [][\A a \in DOMAIN memory : memory[a] # Uninit =>
           a \in DOMAIN memory' /\ memory'[a] # Uninit]_vars

\* run() comes to an end (an output or an error report) for every program whose
\* jumps all go forward (as far as the bound on the outputs does not interfere).
JumpsForward == \A i \in 0..(Len(code) - 1) :
    /\ At(code, i).mode # "reg"
    /\ \A to \in JumpTargets(At(code, i)) : to > i
ForwardProgramsEnd ==
    driver = "running" /\ JumpsForward /\ Len(output) + Len(code) <= MaxOutput
        ~> driver # "running"

\* Once step() reported that no instruction is left, no further step() executes one
\* (the doc comment of RunError::Eof).
EofExecutesNothing ==
    [][result = "Eof" => UNCHANGED <<input, output, memory>>]_vars

\* What the memory says of every register it can reach, however far it was grown.
Registers == [a \in 0..(MaxCells - 1) |-> IF a \in DOMAIN memory THEN memory[a] ELSE Uninit]

\* A Ram is a random-access machine whose registers are read one at a time through a
\* memory that grows on demand.
Machine == INSTANCE RandomAccessMachine
    WITH prog <- code, pc <- ir, regs <- Registers, in <- input, out <- output,
         faulted <- (result # Ok)

\* Up to the first Eof, step() and run() implement the machine: they execute each
\* instruction whole or not at all, and execute what the instruction says.
ImplementsMachine ==
    Machine!Init /\ [][result # "Eof" => [Machine!Next]_(Machine!avars)]_vars
=============================================================================
