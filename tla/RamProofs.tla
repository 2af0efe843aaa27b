----------------------------- MODULE RamProofs -----------------------------
(***************************************************************************)
(* Theorems about Ram, for every number type, every set of programs and    *)
(* inputs and whatever the bounds.                                         *)
(***************************************************************************)
EXTENDS Ram, TLAPS

-----------------------------------------------------------------------------
(***************************************************************************)
(* The memory.                                                             *)
(***************************************************************************)

\* m1 is m, perhaps grown by cells that were never written.
Extends(m, m1) ==
    /\ DOMAIN m \subseteq DOMAIN m1
    /\ \A a \in DOMAIN m1 : m1[a] = IF a \in DOMAIN m THEN m[a] ELSE Uninit

\* A memory is a function from the first addresses to cells.
LEMMA MemoryIsAFunction ==
    ASSUME NEW m \in Memory
    PROVE  /\ \E size \in 0..MaxCells : DOMAIN m = 0..(size - 1)
           /\ m = [a \in DOMAIN m |-> m[a]]
           /\ \A a \in DOMAIN m : m[a] \in Cell
           /\ DOMAIN m \subseteq 0..(MaxCells - 1)
  BY WidthAssumption, MemoryAssumption DEF Memory

\* The memory that was never looked up, or was resized to nothing.
LEMMA NoCellsAreAMemory == [a \in {} |-> Uninit] \in Memory
<1>1. 0 \in 0..MaxCells /\ 0..(0 - 1) = {}
  BY WidthAssumption, MemoryAssumption
<1>2. [a \in {} |-> Uninit] \in [0..(0 - 1) -> Cell]
  BY <1>1
<1> QED
  BY <1>1, <1>2 DEF Memory

\* Growing twice is growing.
LEMMA ExtendsIsTransitive ==
    ASSUME NEW m, NEW m1, NEW m2, Extends(m, m1), Extends(m1, m2)
    PROVE  Extends(m, m2)
  BY DEF Extends

\* Ram::loc keeps what the memory holds and makes it reach the address.
LEMMA GrowExtends ==
    ASSUME NEW m \in Memory, NEW adr \in 0..(MaxCells - 1)
    PROVE  /\ Grow(m, adr) \in Memory
           /\ adr \in DOMAIN Grow(m, adr)
           /\ Extends(m, Grow(m, adr))
<1> USE WidthAssumption, MemoryAssumption
<1> PICK size \in 0..MaxCells : m \in [0..(size - 1) -> Cell]
  BY DEF Memory
<1> DEFINE grown == IF adr < size THEN size ELSE adr + 1
<1>1. grown \in 0..MaxCells
  OBVIOUS
<1>2. DOMAIN m \cup 0..adr = 0..(grown - 1)
  OBVIOUS
<1>3. \A a \in 0..(grown - 1) : Grow(m, adr)[a] \in Cell
  BY <1>2 DEF Grow, Cell
<1>4. Grow(m, adr) \in [0..(grown - 1) -> Cell]
  BY <1>2, <1>3 DEF Grow
<1>5. Grow(m, adr) \in Memory
  BY <1>1, <1>4 DEF Memory
<1>6. adr \in DOMAIN m \cup 0..adr
  OBVIOUS
<1> QED
  BY <1>5, <1>6 DEF Grow, Extends

\* Ram::loc of an address that no memory reaches panics; only a build without overflow
\* checks gets past the panic, and loses the memory.
LEMMA UnreachableFails ==
    ASSUME NEW m \in Memory, NEW adr
    PROVE  /\ Unreachable(m, adr).err \in {"Panic", "Undefined"}
           /\ Unreachable(m, adr).err = "Undefined" =>
                  ~OverflowChecks /\ Unreachable(m, adr).mem = [a \in {} |-> Uninit]
           /\ Unreachable(m, adr).err = "Panic" => Unreachable(m, adr).mem = m
           /\ Unreachable(m, adr).mem \in Memory
           /\ Unreachable(m, adr) = [err |-> Unreachable(m, adr).err, adr |-> 0, val |-> 0,
                                     mem |-> Unreachable(m, adr).mem]
  BY NoCellsAreAMemory DEF Unreachable, Failure

-----------------------------------------------------------------------------
(***************************************************************************)
(* What an instruction looks up, and what it leaves of the memory.         *)
(***************************************************************************)

\* Every register that was written is still there, and still initialized.
Keeps(m, m1) ==
    \A a \in DOMAIN m : m[a] # Uninit => a \in DOMAIN m1 /\ m1[a] # Uninit

\* A register that can be looked up in m without a panic, and whose pointer is initialized.
Reaches(m, reg) ==
    /\ reg.n < MaxCells
    /\ reg.mode = "ind" => /\ reg.n \in DOMAIN m /\ m[reg.n] # Uninit
                           /\ m[reg.n] \in Usize => m[reg.n] < MaxCells

\* The errors after which the report does not look the register up, or is not made.
Unreported == {"ReadUninit", "Panic", "Undefined"}

\* A lookup in m: it may have grown the memory, and unless it failed for one of these
\* reasons, the register can be looked up again.
Lookup(m, reg, r) ==
    /\ r.mem \in Memory
    /\ r.err # "Undefined" => Extends(m, r.mem)
    /\ r.err = "Undefined" => ~OverflowChecks /\ r.mem = [a \in {} |-> Uninit]
    /\ r.err \in (Errors \ {"Eof"}) \cup {Ok}
    /\ reg.mode # "const" /\ r.err \notin Unreported => Reaches(r.mem, reg)

\* What is kept while the memory grows stays initialized.
LEMMA ExtendsKeeps ==
    ASSUME NEW m, NEW m1, Extends(m, m1)
    PROVE  Keeps(m, m1)
  BY DEF Extends, Keeps

\* The fields of Register::loc's answer.
LEMMA LocateIsARecord ==
    ASSUME NEW m, NEW reg
    PROVE  Locate(m, reg) = [err |-> Locate(m, reg).err, adr |-> Locate(m, reg).adr,
                             val |-> 0, mem |-> Locate(m, reg).mem]
  BY DEF Locate, Failure, Unreachable

\* Register::loc finds a location inside the memory, or fails.
LEMMA LocateFinds ==
    ASSUME NEW m \in Memory, NEW reg, reg.n \in Usize
    PROVE  /\ Lookup(m, reg, Locate(m, reg))
           /\ Locate(m, reg).err = Ok => Locate(m, reg).adr \in DOMAIN Locate(m, reg).mem
<1> DEFINE direct == Grow(m, reg.n)
           pointer == direct[reg.n]
<1> USE DEF Usize
<1>0. CASE reg.n >= MaxCells
  <2>1. Locate(m, reg) = Unreachable(m, reg.n)
    BY <1>0 DEF Locate
  <2>2. Extends(m, m)
    BY MemoryIsAFunction DEF Extends
  <2> QED
    BY <2>1, <2>2, UnreachableFails DEF Lookup, Ok, Errors, Unreported
<1>1. ASSUME reg.n < MaxCells
      PROVE  direct \in Memory /\ reg.n \in DOMAIN direct /\ Extends(m, direct)
  BY <1>1, GrowExtends, MemoryAssumption, WidthAssumption
<1>2. CASE reg.n < MaxCells /\ reg.mode # "ind"
  <2>1. Locate(m, reg) = [err |-> Ok, adr |-> reg.n, val |-> 0, mem |-> direct]
    BY <1>2, MemoryAssumption, WidthAssumption DEF Locate
  <2> QED
    BY <1>1, <1>2, <2>1 DEF Lookup, Reaches, Ok, Errors
<1>3. CASE reg.n < MaxCells /\ reg.mode = "ind" /\ pointer = Uninit
  <2>1. Locate(m, reg) = Failure("ReadUninit", direct)
    BY <1>3, MemoryAssumption, WidthAssumption DEF Locate
  <2> QED
    BY <1>1, <1>3, <2>1 DEF Lookup, Failure, Ok, Errors, Unreported
<1>4. CASE reg.n < MaxCells /\ reg.mode = "ind" /\ pointer # Uninit /\ pointer \notin Usize
  <2>1. Locate(m, reg) = Failure("InvalidAddress", direct)
    BY <1>4, MemoryAssumption, WidthAssumption DEF Locate
  <2> QED
    BY <1>1, <1>4, <2>1 DEF Lookup, Failure, Reaches, Ok, Errors
<1>5. CASE reg.n < MaxCells /\ reg.mode = "ind" /\ pointer \in Usize /\ pointer >= MaxCells
  <2>1. pointer # Uninit
    BY <1>5, MarkAssumption
  <2>2. Locate(m, reg) = Unreachable(direct, pointer)
    BY <1>5, <2>1, MemoryAssumption, WidthAssumption DEF Locate
  <2> HIDE DEF direct, pointer
  <2> QED
    BY <1>1, <1>5, <2>2, UnreachableFails DEF Lookup, Ok, Errors, Unreported
<1>6. CASE reg.n < MaxCells /\ reg.mode = "ind" /\ pointer \in Usize /\ pointer < MaxCells
  <2> DEFINE found == Grow(direct, pointer)
  <2>1. pointer # Uninit
    BY <1>6, MarkAssumption
  <2>2. found \in Memory /\ pointer \in DOMAIN found /\ Extends(direct, found)
    BY <1>1, <1>6, GrowExtends, MemoryAssumption, WidthAssumption
  <2>3. Extends(m, found)
    BY <1>1, <1>6, <2>2, ExtendsIsTransitive
  <2>4. reg.n \in DOMAIN found /\ found[reg.n] = pointer
    BY <1>1, <1>6, <2>2 DEF Extends
  <2>5. Locate(m, reg) = [err |-> Ok, adr |-> pointer, val |-> 0, mem |-> found]
    BY <1>6, <2>1, MemoryAssumption, WidthAssumption DEF Locate
  <2> HIDE DEF direct, pointer, found
  <2> QED
    BY <1>6, <2>1, <2>2, <2>3, <2>4, <2>5 DEF Lookup, Reaches, Ok, Errors
<1>7. reg.n < MaxCells \/ reg.n >= MaxCells
  BY MemoryAssumption, WidthAssumption
<1>8. pointer \in Usize => pointer < MaxCells \/ pointer >= MaxCells
  BY MemoryAssumption, WidthAssumption
<1> QED
  BY <1>0, <1>2, <1>3, <1>4, <1>5, <1>6, <1>7, <1>8

\* Register::get finds a number, at a location inside the memory, or fails.
LEMMA GetFinds ==
    ASSUME NEW m \in Memory, NEW reg, reg.n \in Usize
    PROVE  /\ Lookup(m, reg, Get(m, reg))
           /\ Get(m, reg).err = Ok => /\ Get(m, reg).val \in Number
                                      /\ Get(m, reg).adr \in DOMAIN Get(m, reg).mem
<1> DEFINE loc == Locate(m, reg)
<1>1. /\ Lookup(m, reg, loc)
      /\ loc.err = Ok => loc.adr \in DOMAIN loc.mem
      /\ loc = [err |-> loc.err, adr |-> loc.adr, val |-> 0, mem |-> loc.mem]
  BY LocateFinds, LocateIsARecord
<1>2. CASE loc.err # Ok
  BY <1>1, <1>2 DEF Get
<1>3. CASE loc.err = Ok /\ loc.mem[loc.adr] = Uninit
  <2>1. Get(m, reg) = Failure("ReadUninit", loc.mem)
    BY <1>3 DEF Get
  <2> HIDE DEF loc
  <2> QED
    BY <1>1, <1>3, <2>1 DEF Lookup, Failure, Ok, Errors, Unreported
<1>4. CASE loc.err = Ok /\ loc.mem[loc.adr] # Uninit
  <2>1. loc.mem[loc.adr] \in Number
    BY <1>1, <1>4, MemoryIsAFunction DEF Lookup, Cell
  <2>2. Get(m, reg) = [loc EXCEPT !.val = loc.mem[loc.adr]]
    BY <1>4 DEF Get
  <2> HIDE DEF loc
  <2>3. /\ Get(m, reg).err = Ok
        /\ Get(m, reg).adr = loc.adr
        /\ Get(m, reg).mem = loc.mem
        /\ Get(m, reg).val = loc.mem[loc.adr]
    BY <1>1, <1>4, <2>2
  <2> QED
    BY <1>1, <1>4, <2>1, <2>3 DEF Lookup
<1> QED
  BY <1>2, <1>3, <1>4

\* Value::get finds a number or fails.
LEMMA FetchFinds ==
    ASSUME NEW m \in Memory, NEW v,
           IF v.mode = "const" THEN v.n \in Number ELSE v.n \in Usize
    PROVE  /\ Lookup(m, v, Fetch(m, v))
           /\ Fetch(m, v).err = Ok => Fetch(m, v).val \in Number
<1>1. CASE v.mode = "const"
  <2>1. Extends(m, m)
    BY MemoryIsAFunction DEF Extends
  <2> QED
    BY <1>1, <2>1 DEF Fetch, Lookup, Ok, Errors
<1>2. CASE v.mode # "const"
  BY <1>2, GetFinds DEF Fetch
<1> QED
  BY <1>1, <1>2

\* The accumulator holds a number, or was never written.
LEMMA AccFinds ==
    ASSUME memory \in Memory
    PROVE  /\ Acc.mem \in Memory
           /\ Extends(memory, Acc.mem)
           /\ Acc.err \in {Ok, "ReadUninit"}
           /\ Acc.err = Ok => Acc.val \in Number
<1>1. ACC.n \in Usize /\ ACC.mode = "dir" /\ ~(ACC.n >= MaxCells)
  BY WidthAssumption, MemoryAssumption DEF ACC, Usize
<1>2. Lookup(memory, ACC, Acc) /\ (Acc.err = Ok => Acc.val \in Number)
  BY <1>1, GetFinds DEF Acc
<1>3. Acc.err \in {Ok, "ReadUninit"}
  BY <1>1 DEF Acc, Get, Locate, Failure, Ok
<1> QED
  BY <1>2, <1>3 DEF Lookup, Ok

\* LocEntry::set keeps the memory a memory, and writes a number.
LEMMA SetKeeps ==
    ASSUME NEW m \in Memory, NEW m1 \in Memory, Extends(m, m1),
           NEW adr \in DOMAIN m1, NEW v \in Number
    PROVE  Set(m1, adr, v) \in Memory /\ Keeps(m, Set(m1, adr, v))
<1>1. PICK size \in 0..MaxCells : m1 \in [0..(size - 1) -> Cell]
  BY DEF Memory
<1>2. Set(m1, adr, v) \in [0..(size - 1) -> Cell]
  BY <1>1 DEF Set, Cell
<1>3. Set(m1, adr, v) \in Memory
  BY <1>2 DEF Memory
<1>4. v # Uninit
  BY MarkAssumption
<1> QED
  BY <1>1, <1>3, <1>4 DEF Set, Keeps, Extends

\* Writing the accumulator, after a lookup that grew m to m1.
LEMMA SetAccKeeps ==
    ASSUME NEW m \in Memory, NEW m1 \in Memory, Extends(m, m1), NEW v \in Number
    PROVE  SetAcc(m1, v) \in Memory /\ Keeps(m, SetAcc(m1, v))
<1>1. 0 \in 0..(MaxCells - 1)
  BY WidthAssumption, MemoryAssumption
<1>2. Grow(m1, 0) \in Memory /\ 0 \in DOMAIN Grow(m1, 0) /\ Extends(m1, Grow(m1, 0))
  BY <1>1, GrowExtends
<1>3. Extends(m, Grow(m1, 0))
  BY <1>2, ExtendsIsTransitive
<1> QED
  BY <1>2, <1>3, SetKeeps DEF SetAcc

\* The operands that each operation may have.
LEMMA InstructionShape ==
    ASSUME NEW i \in Instruction
    PROVE  /\ i.op \in {"LOAD"} \cup BinaryOps =>
                  IF i.mode = "const" THEN i.n \in Number ELSE i.n \in Usize
           /\ i.op \in {"STORE"} \cup UnaryOps => i.n \in Usize
           /\ i.op \in JumpOps => i.mode \in {"adr", "reg"} /\ i.n \in Usize
           /\ i.op \in {"READ", "WRITE", "STOP", "NOP"} => i.mode = "none"
  BY DEF Instruction, Value, Register, Address, JumpOps, ConditionalJumps, BinaryOps, UnaryOps

-----------------------------------------------------------------------------
(***************************************************************************)
(* The two ways in which a step() ends.                                    *)
(***************************************************************************)

\* With an error: nothing changed, but that the memory may have grown, and a register
\* that was not itself the culprit can be looked up again.
Failed ==
    /\ result' \in Errors \ {"Eof"}
    /\ memory' \in Memory
    /\ result' # "Undefined" => Extends(memory, memory')
    /\ result' = "Undefined" => ~OverflowChecks
    /\ ReadsRegister(inst) /\ result' \notin Unreported => Reaches(memory', inst)
    /\ UNCHANGED <<output, ir, inst>>

\* With the instruction executed: on to the next one, to a jump's target, or stopped.
Executed ==
    /\ memory' \in Memory
    /\ Keeps(memory, memory')
    /\ output' \in Seq(Number)
    /\ \/ /\ ir' = ir + 1
          /\ inst' = IF Exists(code, ir + 1) THEN At(code, ir + 1) ELSE inst
          /\ result' = IF Exists(code, ir + 1) THEN Ok ELSE "Eof"
       \/ ir' \in Usize /\ Exists(code, ir') /\ inst' = At(code, ir') /\ result' = Ok
       \/ result' = Ok /\ UNCHANGED <<ir, inst>>

\* Ram::jump goes to an instruction of the program or fails.
LEMMA JumpEnds ==
    ASSUME inst.op \in JumpOps, inst \in Instruction, output \in Seq(Number),
           NEW m \in Memory, Extends(memory, m), Jump(m)
    PROVE  Failed \/ Executed
<1> DEFINE to == Target(m, inst)
           reg == [mode |-> "dir", n |-> inst.n]
           v == Get(m, reg)
<1>1. inst.mode \in {"adr", "reg"} /\ inst.n \in Usize
  BY InstructionShape
<1>2. /\ v.mem \in Memory
      /\ v.err # "Undefined" => Extends(memory, v.mem)
      /\ v.err = "Undefined" => ~OverflowChecks
      /\ v.err \in (Errors \ {"Eof"}) \cup {Ok}
      /\ v.err \notin Unreported => inst.n < MaxCells
  <2>1. reg.n \in Usize /\ reg.n = inst.n /\ reg.mode = "dir"
    BY <1>1
  <2>2. Lookup(m, reg, v)
    BY <2>1, GetFinds
  <2> HIDE DEF v, reg
  <2> QED
    BY <2>1, <2>2, ExtendsIsTransitive DEF Lookup, Reaches
<1>3. /\ to.mem \in Memory
      /\ to.err # "Undefined" => Extends(memory, to.mem)
      /\ to.err = "Undefined" => ~OverflowChecks
      /\ to.err \in (Errors \ {"Eof"}) \cup {Ok}
      /\ inst.mode = "reg" /\ to.err \notin Unreported => inst.n < MaxCells
      /\ to.err = Ok => to.adr \in Usize /\ Exists(code, to.adr)
  <2> HIDE DEF v
  <2>1. to = LET x == IF inst.mode = "reg" THEN v.val ELSE inst.n
                 m1 == IF inst.mode = "reg" THEN v.mem ELSE m
             IN  IF inst.mode = "reg" /\ v.err # Ok THEN Failure(v.err, m1)
                 ELSE IF x \notin Usize THEN Failure("InvalidJump", m1)
                 ELSE IF ~Exists(code, x) THEN Failure("InexistentJump", m1)
                 ELSE [err |-> Ok, adr |-> x, val |-> 0, mem |-> m1]
    BY DEF Target, v
  <2> HIDE DEF to
  <2> QED
    BY <1>2, <2>1 DEF Failure, Ok, Errors, Unreported
<1>4. to.err = Ok => Keeps(memory, to.mem)
  BY <1>3, ExtendsKeeps DEF Ok
<1>5. CASE to.err # Ok /\ Fail(to.err, to.mem)
  <2>1. ReadsRegister(inst) => inst.mode = "reg"
    BY <1>1 DEF ReadsRegister, JumpOps, ConditionalJumps, BinaryOps, UnaryOps
  <2> HIDE DEF to
  <2> QED
    BY <1>1, <1>3, <1>5, <2>1 DEF Fail, Failed, Reaches, Ok
<1>6. CASE /\ to.err = Ok /\ ir' = to.adr /\ inst' = At(code, to.adr)
           /\ result' = Ok /\ memory' = to.mem /\ output' = output
  BY <1>3, <1>4, <1>6 DEF Executed
<1> QED
  BY <1>5, <1>6 DEF Jump

\* The end of step().
LEMMA AdvanceEnds ==
    ASSUME NEW m \in Memory, Keeps(memory, m), NEW out \in Seq(Number), Advance(m, out)
    PROVE  Executed
  BY DEF Advance, Executed

\* An operand's get() fails before the instruction has any effect.
LEMMA FailEnds ==
    ASSUME NEW m \in Memory, NEW e \in Errors \ {"Eof"}, Fail(e, m),
           e # "Undefined" => Extends(memory, m),
           e = "Undefined" => ~OverflowChecks,
           ReadsRegister(inst) /\ e \notin Unreported => Reaches(m, inst)
    PROVE  Failed
  BY DEF Fail, Failed

\* Every step() ends in one of the two ways.
LEMMA StepEnds ==
    ASSUME TypeOK, Step
    PROVE  (Failed \/ Executed) /\ input' \in Seq(Number \cup {None})
<1> USE DEF TypeOK
<1>0. /\ memory \in Memory /\ Extends(memory, memory) /\ Keeps(memory, memory)
      /\ inst \in Instruction /\ output \in Seq(Number)
  BY MemoryIsAFunction DEF Extends, Keeps
<1>a. /\ Acc.mem \in Memory /\ Extends(memory, Acc.mem) /\ Keeps(memory, Acc.mem)
      /\ Acc.err \in {Ok, "ReadUninit"}
      /\ Acc.err = Ok => Acc.val \in Number
  BY AccFinds, ExtendsKeeps
<1>b. /\ inst.op \in {"LOAD"} \cup BinaryOps =>
             IF inst.mode = "const" THEN inst.n \in Number ELSE inst.n \in Usize
      /\ inst.op \in {"STORE"} \cup UnaryOps => inst.n \in Usize
      /\ inst.op \in JumpOps => inst.mode \in {"adr", "reg"} /\ inst.n \in Usize
      /\ inst.op \in {"READ", "WRITE", "STOP", "NOP"} => inst.mode = "none"
  BY <1>0, InstructionShape
<1>c. /\ ReadsRegister(inst) => inst.mode # "const"
      /\ inst.op \in {"READ", "WRITE", "STOP", "NOP"} => ~ReadsRegister(inst)
  BY <1>b DEF ReadsRegister, BinaryOps, UnaryOps
<1>1. CASE Read
  <2>1. Answer \in Number \cup {None} /\ Rest \in Seq(Number \cup {None})
    BY DEF Answer, Rest
  <2>2. CASE Answer = None /\ Fail("ReadEof", memory)
    <3>1. Failed
      BY <1>0, <1>1, <1>c, <2>2, FailEnds DEF Read, Errors
    <3> QED
      BY <1>1, <2>1, <3>1 DEF Read
  <2>3. CASE Answer # None /\ Advance(SetAcc(memory, Answer), output)
    <3>1. Answer \in Number
      BY <2>1, <2>3
    <3>2. SetAcc(memory, Answer) \in Memory /\ Keeps(memory, SetAcc(memory, Answer))
      BY <1>0, <3>1, SetAccKeeps
    <3> QED
      BY <1>0, <1>1, <2>1, <2>3, <3>2, AdvanceEnds DEF Read
  <2> QED
    BY <1>1, <2>2, <2>3 DEF Read
<1>2. CASE Write
  <2>1. CASE Acc.err # Ok /\ Fail(Acc.err, Acc.mem)
    <3>1. Failed
      BY <1>2, <1>a, <2>1, FailEnds DEF Write, Errors, Unreported
    <3> QED
      BY <1>2, <3>1 DEF Write
  <2>2. CASE Acc.err = Ok /\ Advance(Acc.mem, Append(output, Acc.val))
    <3>1. Append(output, Acc.val) \in Seq(Number)
      BY <1>0, <1>a, <2>2
    <3> QED
      BY <1>2, <1>a, <2>2, <3>1, AdvanceEnds DEF Write
  <2> QED
    BY <1>2, <2>1, <2>2 DEF Write
<1>3. CASE Load
  <2> DEFINE v == Fetch(memory, inst)
  <2>1. inst.op = "LOAD" /\ input' = input
    BY <1>3 DEF Load
  <2>2. Lookup(memory, inst, v) /\ (v.err = Ok => v.val \in Number)
    BY <1>0, <1>b, <2>1, FetchFinds
  <2>3. CASE v.err # Ok /\ Fail(v.err, v.mem)
    <3> HIDE DEF v
    <3> QED
      BY <1>c, <2>1, <2>2, <2>3, FailEnds DEF Lookup
  <2>4. CASE v.err = Ok /\ Advance(SetAcc(v.mem, v.val), output)
    <3> HIDE DEF v
    <3>1. SetAcc(v.mem, v.val) \in Memory /\ Keeps(memory, SetAcc(v.mem, v.val))
      BY <1>0, <2>2, <2>4, SetAccKeeps DEF Lookup, Ok
    <3> QED
      BY <1>0, <2>1, <2>4, <3>1, AdvanceEnds
  <2> QED
    BY <1>3, <2>3, <2>4 DEF Load
<1>4. CASE Store
  <2> DEFINE loc == Locate(Acc.mem, inst)
  <2>1. inst.op = "STORE" /\ input' = input /\ inst.mode # "reg" /\ ~ReadsRegister(inst)
    BY <1>0, <1>4 DEF Store, ReadsRegister, BinaryOps, UnaryOps, Instruction, Register,
                       Value, Address, JumpOps, ConditionalJumps
  <2>2. Lookup(Acc.mem, inst, loc) /\ (loc.err = Ok => loc.adr \in DOMAIN loc.mem)
    BY <1>a, <1>b, <2>1, LocateFinds
  <2>3. loc.err # "Undefined" => Extends(memory, loc.mem)
    BY <1>a, <2>2, ExtendsIsTransitive DEF Lookup
  <2>4. CASE Acc.err # Ok /\ Fail(Acc.err, Acc.mem)
    BY <1>a, <2>1, <2>4, FailEnds DEF Errors, Unreported
  <2>5. CASE Acc.err = Ok /\ loc.err # Ok /\ Fail(loc.err, loc.mem)
    <3> HIDE DEF loc
    <3> QED
      BY <2>1, <2>2, <2>3, <2>5, FailEnds DEF Lookup
  <2>6. CASE Acc.err = Ok /\ loc.err = Ok /\ Advance(Set(loc.mem, loc.adr, Acc.val), output)
    <3> HIDE DEF loc
    <3>1. /\ Set(loc.mem, loc.adr, Acc.val) \in Memory
          /\ Keeps(memory, Set(loc.mem, loc.adr, Acc.val))
      BY <1>0, <1>a, <2>2, <2>3, <2>6, SetKeeps DEF Lookup, Ok
    <3> QED
      BY <1>0, <2>1, <2>6, <3>1, AdvanceEnds
  <2> QED
    BY <1>4, <2>4, <2>5, <2>6 DEF Store
<1>5. CASE Unop
  <2> DEFINE v == Get(memory, inst)
             r == Checked(inst.op, v.val, 1)
  <2>1. inst.op \in UnaryOps /\ input' = input
    BY <1>5 DEF Unop
  <2>2. /\ Lookup(memory, inst, v)
        /\ v.err = Ok => v.val \in Number /\ v.adr \in DOMAIN v.mem
    BY <1>0, <1>b, <2>1, GetFinds
  <2>3. r \subseteq Number
    BY DEF Checked
  <2>4. CASE v.err # Ok /\ Fail(v.err, v.mem)
    <3> HIDE DEF v
    <3> QED
      BY <1>c, <2>1, <2>2, <2>4, FailEnds DEF Lookup
  <2>5. CASE v.err = Ok /\ r = {} /\ Fail("IntegerOverfow", v.mem)
    <3> HIDE DEF v, r
    <3> QED
      BY <1>c, <2>1, <2>2, <2>5, FailEnds DEF Lookup, Errors, Ok, Unreported
  <2>6. CASE v.err = Ok /\ \E n \in r : Advance(Set(v.mem, v.adr, n), output)
    <3> PICK n \in r : Advance(Set(v.mem, v.adr, n), output)
      BY <2>6
    <3> HIDE DEF v, r
    <3>1. Set(v.mem, v.adr, n) \in Memory /\ Keeps(memory, Set(v.mem, v.adr, n))
      BY <1>0, <2>2, <2>3, <2>6, SetKeeps DEF Lookup, Ok
    <3> QED
      BY <1>0, <2>1, <3>1, AdvanceEnds
  <2> QED
    BY <1>5, <2>4, <2>5, <2>6 DEF Unop
<1>6. CASE Binop
  <2> DEFINE v == Fetch(Acc.mem, inst)
             r == Checked(inst.op, Acc.val, v.val)
  <2>1. inst.op \in BinaryOps /\ input' = input
    BY <1>6 DEF Binop
  <2>2. Lookup(Acc.mem, inst, v) /\ (v.err = Ok => v.val \in Number)
    BY <1>a, <1>b, <2>1, FetchFinds
  <2>3. r \subseteq Number
    BY DEF Checked
  <2>4. v.mem \in Memory /\ (v.err # "Undefined" => Extends(memory, v.mem))
    BY <1>a, <2>2, ExtendsIsTransitive DEF Lookup
  <2>5. CASE Acc.err # Ok /\ Fail(Acc.err, Acc.mem)
    BY <1>a, <2>1, <2>5, FailEnds DEF Errors, Unreported
  <2>6. CASE Acc.err = Ok /\ v.err # Ok /\ Fail(v.err, v.mem)
    <3> HIDE DEF v
    <3> QED
      BY <1>c, <2>1, <2>2, <2>4, <2>6, FailEnds DEF Lookup
  <2>7. CASE Acc.err = Ok /\ v.err = Ok /\ r = {} /\ Fail("IntegerOverfow", v.mem)
    <3> HIDE DEF v, r
    <3> QED
      BY <1>c, <2>1, <2>2, <2>4, <2>7, FailEnds DEF Lookup, Errors, Ok, Unreported
  <2>8. CASE Acc.err = Ok /\ v.err = Ok /\ \E n \in r : Advance(SetAcc(v.mem, n), output)
    <3> PICK n \in r : Advance(SetAcc(v.mem, n), output)
      BY <2>8
    <3> HIDE DEF v, r
    <3>1. SetAcc(v.mem, n) \in Memory /\ Keeps(memory, SetAcc(v.mem, n))
      BY <1>0, <2>3, <2>4, <2>8, SetAccKeeps DEF Ok
    <3> QED
      BY <1>0, <2>1, <3>1, AdvanceEnds
  <2> QED
    BY <1>6, <2>5, <2>6, <2>7, <2>8 DEF Binop
<1>7. CASE AlwaysJump
  BY <1>0, <1>7, JumpEnds DEF AlwaysJump, JumpOps
<1>8. CASE MayJump
  <2>1. inst.op \in JumpOps /\ input' = input
    BY <1>8 DEF MayJump, JumpOps
  <2>2. CASE Acc.err # Ok /\ Fail(Acc.err, Acc.mem)
    BY <1>a, <2>1, <2>2, FailEnds DEF Errors, Unreported
  <2>3. CASE Acc.err = Ok /\ Jump(Acc.mem)
    BY <1>0, <1>a, <2>1, <2>3, JumpEnds
  <2>4. CASE Acc.err = Ok /\ Advance(Acc.mem, output)
    BY <1>0, <1>a, <2>1, <2>4, AdvanceEnds
  <2> QED
    BY <1>8, <2>2, <2>3, <2>4 DEF MayJump
<1>9. CASE Stop
  BY <1>0, <1>9 DEF Stop, Executed
<1>10. CASE Nop
  BY <1>0, <1>10, AdvanceEnds DEF Nop
<1> QED
  BY <1>1, <1>2, <1>3, <1>4, <1>5, <1>6, <1>7, <1>8, <1>9, <1>10 DEF Step

-----------------------------------------------------------------------------
(***************************************************************************)
(* The inductive invariant: the cached instruction is the one at ir, so    *)
(* the diagnosis, which looks it up again, speaks of the instruction that  *)
(* failed.                                                                 *)
(***************************************************************************)
IInv == TypeOK /\ InstIsCurrent /\ ReportNeverPanics

\* A program is a sequence of instructions.
LEMMA CodeIsProgram ==
    ASSUME TypeOK
    PROVE  code \in Seq(Instruction) /\ Len(code) \in Nat
  BY ProgramAssumption DEF TypeOK

\* Ram::new establishes the invariant.
LEMMA InitEstablishesIInv == Init => IInv
<1> SUFFICES ASSUME Init PROVE IInv
  OBVIOUS
<1>1. code \in Seq(Instruction) /\ input \in Seq(Number \cup {None})
  BY ProgramAssumption, InputAssumption DEF Init
<1>2. code # << >> => Len(code) > 0 /\ code[1] \in Instruction
  BY <1>1
<1>3. inst \in Instruction
  <2>1. Inst("NOP", "none", 0) \in Instruction
    BY DEF Inst, Instruction
  <2> QED
    BY <1>2, <2>1 DEF Init, At
<1>4. memory \in Memory
  BY NoCellsAreAMemory DEF Init
<1>5. TypeOK
  BY <1>1, <1>3, <1>4 DEF Init, TypeOK, Errors, Ok
<1>6. InstIsCurrent
  BY <1>2 DEF Init, InstIsCurrent, At, Exists
<1> QED
  BY <1>5, <1>6 DEF Init, IInv, ReportNeverPanics

\* step() keeps the types.
LEMMA StepKeepsTypes ==
    ASSUME TypeOK, Step, driver' \in {"idle", "running", "exited", "panicked", "undefined"}
    PROVE  TypeOK'
<1>1. (Failed \/ Executed) /\ input' \in Seq(Number \cup {None}) /\ code' = code
  BY StepEnds DEF Step
<1>2. CASE Failed
  BY <1>1, <1>2 DEF Failed, TypeOK
<1>3. CASE Executed
  <2>1. \A i \in Nat : Exists(code, i) => At(code, i) \in Instruction
    BY CodeIsProgram DEF Exists, At
  <2>2. ir' \in Nat /\ inst' \in Instruction /\ result' \in Errors \cup {Ok}
    BY <1>3, <2>1 DEF Executed, TypeOK, Usize, Errors, Ok
  <2> QED
    BY <1>1, <1>3, <2>2 DEF Executed, TypeOK
<1> QED
  BY <1>1, <1>2, <1>3

\* step() keeps inst the instruction at ir: it moves both or neither.
LEMMA StepKeepsInstCurrent ==
    ASSUME TypeOK, InstIsCurrent, Step
    PROVE  InstIsCurrent'
<1>1. (Failed \/ Executed) /\ code' = code
  BY StepEnds DEF Step
<1>2. ir \in Nat /\ Len(code) \in Nat
  BY CodeIsProgram DEF TypeOK
<1>3. CASE UNCHANGED <<ir, inst>>
  BY <1>1, <1>3 DEF InstIsCurrent
<1>4. CASE ir' \in Usize /\ Exists(code, ir') /\ inst' = At(code, ir')
  BY <1>1, <1>4 DEF InstIsCurrent
<1>5. CASE ir' = ir + 1 /\ inst' = IF Exists(code, ir + 1) THEN At(code, ir + 1) ELSE inst
  <2>1. CASE Exists(code, ir + 1)
    BY <1>1, <1>5, <2>1 DEF InstIsCurrent
  <2>2. CASE ~Exists(code, ir + 1)
    <3>1. Exists(code, ir) => ir = Len(code) - 1
      BY <1>2, <2>2 DEF Exists
    <3> QED
      BY <1>1, <1>5, <2>2, <3>1 DEF InstIsCurrent
  <2> QED
    BY <2>1, <2>2
<1> QED
  BY <1>1, <1>3, <1>4, <1>5 DEF Failed, Executed

\* A register that can be looked up again is found, or holds no address.
LEMMA LookupsRepeat ==
    ASSUME NEW m \in Memory, NEW reg, reg.n \in Usize, Reaches(m, reg)
    PROVE  Locate(m, reg).err \in {Ok, "InvalidAddress"}
<1>1. ~(reg.n >= MaxCells)
  BY WidthAssumption, MemoryAssumption DEF Reaches, Usize
<1>2. reg.mode = "ind" => /\ Grow(m, reg.n)[reg.n] = m[reg.n]
                          /\ m[reg.n] # Uninit
                          /\ m[reg.n] \in Usize => ~(m[reg.n] >= MaxCells)
  BY WidthAssumption, MemoryAssumption DEF Reaches, Grow, Usize
<1> QED
  BY <1>1, <1>2 DEF Locate, Failure

\* Ram::emit_err finds the pointer of the failed instruction initialized.
LEMMA ReportIsSafe ==
    ASSUME TypeOK, InstIsCurrent, Step, result' \notin {Ok, "Panic", "Undefined"}
    PROVE  ~ReportPanics(result', ir, memory')
<1> SUFFICES ASSUME ReportPanics(result', ir, memory')
             PROVE  FALSE
  OBVIOUS
<1>1. Failed \/ Executed
  BY StepEnds
<1>2. result' \notin {Ok, "Eof", "ReadUninit"}
  BY DEF ReportPanics
<1>3. Failed
  BY <1>1, <1>2 DEF Executed
<1>4. code # << >>
  BY CodeIsProgram DEF ReportPanics, Exists, TypeOK
<1>5. inst = At(code, ir)
  BY <1>4 DEF InstIsCurrent, ReportPanics
<1>6. memory' \in Memory /\ Reaches(memory', inst)
  BY <1>2, <1>3, <1>5 DEF Failed, ReportPanics, Unreported
<1>7. inst.n \in Usize
  <2>1. inst \in Instruction /\ ReadsRegister(inst)
    BY <1>5 DEF TypeOK, ReportPanics
  <2> QED
    BY <2>1, InstructionShape DEF ReadsRegister, Instruction, Address, Register, Value
<1>8. Locate(memory', inst).err \notin {"ReadUninit", "Panic", "Undefined"}
  BY <1>6, <1>7, LookupsRepeat DEF Ok
<1> QED
  BY <1>5, <1>8 DEF ReportPanics

\* Every step of the caller or of run() keeps the invariant.
LEMMA NextKeepsIInv == IInv /\ [Next]_vars => IInv'
<1> SUFFICES ASSUME IInv, [Next]_vars PROVE IInv'
  OBVIOUS
<1> USE DEF IInv
<1>1. CASE CallStep
  <2>1. /\ Step
        /\ driver' \in {"idle", "panicked", "undefined"}
        /\ driver' = "panicked" => result' = "Panic"
    BY <1>1 DEF CallStep, Broken
  <2> QED
    BY <2>1, StepKeepsTypes, StepKeepsInstCurrent DEF ReportNeverPanics
<1>2. CASE CallRun
  BY <1>2 DEF CallRun, machine, TypeOK, InstIsCurrent, ReportNeverPanics
<1>3. CASE RunIteration
  <2>1. Step
    BY <1>3 DEF RunIteration
  <2>2. result' \notin {Ok, "Panic", "Undefined"} => ~ReportPanics(result', ir, memory')
    BY <2>1, ReportIsSafe
  <2>3. /\ driver' \in {"idle", "running", "exited", "panicked", "undefined"}
        /\ driver' = "panicked" => result' = "Panic"
    BY <1>3, <2>2 DEF RunIteration, Broken, Ok
  <2> QED
    BY <2>1, <2>3, StepKeepsTypes, StepKeepsInstCurrent DEF ReportNeverPanics
<1>4. CASE UNCHANGED vars
  BY <1>4 DEF vars, TypeOK, InstIsCurrent, ReportNeverPanics
<1> QED
  BY <1>1, <1>2, <1>3, <1>4 DEF Next

\* The invariant holds of every reachable state of a Ram.
THEOREM Invariance == Spec => []IInv
<1>1. Init => IInv
  BY InitEstablishesIInv
<1>2. IInv /\ [Next]_vars => IInv'
  BY NextKeepsIInv
<1> QED
  BY <1>1, <1>2, PTL DEF Spec

\* The fields of a Ram hold what their types promise, and every register of a grown
\* memory is a number or uninitialized.
THEOREM TypeCorrect == Spec => []TypeOK
<1>1. IInv => TypeOK
  BY DEF IInv
<1> QED
  BY <1>1, Invariance, PTL

\* The cached instruction is always the instruction at ir (the last one after the end).
THEOREM CachedInstruction == Spec => []InstIsCurrent
<1>1. IInv => InstIsCurrent
  BY DEF IInv
<1> QED
  BY <1>1, Invariance, PTL

\* Ram::emit_err never panics: where the process panicked, an instruction did.
THEOREM ReportsAreSafe == Spec => []ReportNeverPanics
<1>1. IInv => ReportNeverPanics
  BY DEF IInv
<1> QED
  BY <1>1, Invariance, PTL

\* In a build that checks for overflows, the unsafe block of Ram::loc is only reached with an
\* address that is in the memory.
THEOREM LookupsInBounds == OverflowChecks => (Spec => []LookupsAreInBounds)
<1> SUFFICES ASSUME OverflowChecks
             PROVE  Spec => []LookupsAreInBounds
  OBVIOUS
<1>1. Init => LookupsAreInBounds
  BY DEF Init, Ok, LookupsAreInBounds
<1>2. IInv /\ LookupsAreInBounds /\ [Next]_vars => LookupsAreInBounds'
  <2> SUFFICES ASSUME IInv, LookupsAreInBounds, [Next]_vars PROVE LookupsAreInBounds'
    OBVIOUS
  <2>1. CASE Step
    BY <2>1, StepEnds DEF IInv, Failed, Executed, Ok, LookupsAreInBounds
  <2>2. CASE result' = result
    BY <2>2 DEF LookupsAreInBounds
  <2> QED
    BY <2>1, <2>2 DEF Next, CallStep, CallRun, RunIteration, machine, vars
<1> QED
  BY <1>1, <1>2, Invariance, PTL DEF Spec

\* No step() makes an initialized register uninitialized, in every build and at every address,
\* as long as no lookup is undefined: a step that panics loses nothing either.
THEOREM RegistersStayWritten == Spec /\ []LookupsAreInBounds => WrittenStaysWritten
<1> DEFINE Kept == \A a \in DOMAIN memory : memory[a] # Uninit =>
                       a \in DOMAIN memory' /\ memory'[a] # Uninit
<1>1. IInv /\ LookupsAreInBounds' /\ [Next]_vars => Kept
  <2> SUFFICES ASSUME IInv, LookupsAreInBounds', [Next]_vars PROVE Kept
    OBVIOUS
  <2>1. CASE Step
    <3>1. Failed \/ Executed
      BY <2>1, StepEnds DEF IInv
    <3>2. Keeps(memory, memory')
      BY <3>1, ExtendsKeeps DEF Failed, Executed, LookupsAreInBounds
    <3> QED
      BY <3>2 DEF Keeps
  <2>2. CASE memory' = memory
    BY <2>2
  <2> QED
    BY <2>1, <2>2 DEF Next, CallStep, CallRun, RunIteration, machine, vars
<1> QED
  BY <1>1, Invariance, PTL DEF Spec, WrittenStaysWritten

\* A step() that fails or panics has changed no register, printed nothing, and stays where it
\* is, as long as no lookup is undefined.
THEOREM FailuresHaveNoEffect == Spec /\ []LookupsAreInBounds => FailedStepHasNoEffect
<1> DEFINE NoEffect == result' \notin {Ok, "Eof"} =>
                          SameContents(memory, memory') /\ UNCHANGED <<output, ir, inst>>
<1>1. IInv /\ LookupsAreInBounds' /\ [Next]_vars => NoEffect
  <2> SUFFICES ASSUME IInv, LookupsAreInBounds', [Next]_vars, result' \notin {Ok, "Eof"}
               PROVE  SameContents(memory, memory') /\ UNCHANGED <<output, ir, inst>>
    OBVIOUS
  <2>1. CASE Step
    <3>1. Failed
      BY <2>1, StepEnds DEF IInv, Executed
    <3>2. SameContents(memory, memory')
      BY <3>1 DEF Failed, Extends, SameContents, LookupsAreInBounds
    <3> QED
      BY <3>1, <3>2 DEF Failed
  <2>2. CASE UNCHANGED <<memory, output, ir, inst>>
    BY <2>2 DEF SameContents
  <2> QED
    BY <2>1, <2>2 DEF Next, CallStep, CallRun, RunIteration, machine, vars
<1> QED
  BY <1>1, Invariance, PTL DEF Spec, FailedStepHasNoEffect
=============================================================================
