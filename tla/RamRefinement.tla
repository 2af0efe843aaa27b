--------------------------- MODULE RamRefinement ---------------------------
(***************************************************************************)
(* A Ram implements the random-access machine: each step() that changes    *)
(* what the machine shows is a step of the machine, whatever the memory    *)
(* has been grown to, and an error repeats itself for ever.                *)
(*                                                                         *)
(* On the way there, step() becomes a function of what is seen of a Ram    *)
(* (After), programs have executions without variables (LeadsTo), and two  *)
(* programs that end alike are compared (Preserves): the optimizer is      *)
(* proved with these.                                                      *)
(***************************************************************************)
EXTENDS RamProofs

-----------------------------------------------------------------------------
(***************************************************************************)
(* What a memory says of every register that a memory may reach.           *)
(***************************************************************************)
File == 0..(MaxCells - 1)
Regs(m) == [a \in File |-> IF a \in DOMAIN m THEN m[a] ELSE Uninit]

\* The addresses that a memory may have.
LEMMA FileIs ==
    /\ 0 \in File /\ File \subseteq Usize
    /\ \A a \in Usize : a \in File <=> ~(a >= MaxCells)
BY WidthAssumption, MemoryAssumption DEF File, Usize

\* Registers is what the memory of a Ram says.
LEMMA RegistersAreRegs == Registers = Regs(memory) /\ Registers' = Regs(memory')
BY DEF Registers, Regs, File

\* Every register holds a number or was never written.
LEMMA RegsAreCells ==
    ASSUME NEW m \in Memory
    PROVE  Regs(m) \in [File -> Cell]
BY MemoryIsAFunction DEF Regs, Cell

\* Growing shows nothing.
LEMMA RegsExtend ==
    ASSUME NEW m \in Memory, NEW m1 \in Memory, Extends(m, m1)
    PROVE  Regs(m1) = Regs(m)
<1>1. \A a \in File : Regs(m1)[a] = Regs(m)[a]
  BY DEF Regs, Extends
<1> QED BY <1>1 DEF Regs

\* Writing a location that was looked up writes that register.
LEMMA RegsSet ==
    ASSUME NEW m \in Memory, NEW adr \in DOMAIN m, NEW v
    PROVE  Regs(Set(m, adr, v)) = [Regs(m) EXCEPT ![adr] = v]
<1>1. adr \in File /\ DOMAIN Set(m, adr, v) = DOMAIN m
  BY MemoryIsAFunction DEF Set, File
<1>2. \A a \in File : Regs(Set(m, adr, v))[a] = IF a = adr THEN v ELSE Regs(m)[a]
  BY <1>1 DEF Regs, Set
<1> QED BY <1>1, <1>2 DEF Regs

\* Writing the accumulator writes register 0.
LEMMA RegsSetAcc ==
    ASSUME NEW m \in Memory, NEW v
    PROVE  Regs(SetAcc(m, v)) = [Regs(m) EXCEPT ![0] = v]
<1>1. Grow(m, 0) \in Memory /\ 0 \in DOMAIN Grow(m, 0) /\ Extends(m, Grow(m, 0))
  BY FileIs, GrowExtends DEF File
<1> QED BY <1>1, RegsExtend, RegsSet DEF SetAcc

\* What an error leaves of the registers r: all of them, unless the memory was resized to
\* nothing.
LeftBy(e, r) == IF e = "Undefined" THEN [a \in File |-> Uninit] ELSE r

\* What a lookup leaves.
LEMMA LookupShows ==
    ASSUME NEW m \in Memory, NEW reg, NEW r, Lookup(m, reg, r)
    PROVE  r.mem \in Memory /\ Regs(r.mem) = LeftBy(r.err, Regs(m))
<1>1. CASE r.err = "Undefined"
  BY <1>1 DEF Lookup, LeftBy, Regs
<1>2. CASE r.err # "Undefined"
  BY <1>2, RegsExtend DEF Lookup, LeftBy
<1> QED BY <1>1, <1>2

-----------------------------------------------------------------------------
(***************************************************************************)
(* What a lookup finds, as a function of the registers r.                  *)
(***************************************************************************)
Place(r, reg) == IF reg.mode = "ind" THEN r[reg.n] ELSE reg.n

\* Where no memory reaches.
BeyondError(adr) == IF adr = MaxUsize /\ ~OverflowChecks THEN "Undefined" ELSE "Panic"

PlaceError(r, reg) ==
    IF reg.n >= MaxCells THEN BeyondError(reg.n)
    ELSE IF reg.mode # "ind" THEN Ok
    ELSE IF r[reg.n] = Uninit THEN "ReadUninit"
    ELSE IF r[reg.n] \notin Usize THEN "InvalidAddress"
    ELSE IF r[reg.n] >= MaxCells THEN BeyondError(r[reg.n])
    ELSE Ok

GetError(r, reg) ==
    IF PlaceError(r, reg) # Ok THEN PlaceError(r, reg)
    ELSE IF r[Place(r, reg)] = Uninit THEN "ReadUninit"
    ELSE Ok

Fetched(r, v) == IF v.mode = "const" THEN v.n ELSE r[Place(r, v)]
FetchError(r, v) == IF v.mode = "const" THEN Ok ELSE GetError(r, v)

AccError(r) == IF r[0] = Uninit THEN "ReadUninit" ELSE Ok

\* Register::loc.
LEMMA LocateIs ==
    ASSUME NEW m \in Memory, NEW reg, reg.n \in Usize
    PROVE  /\ Locate(m, reg).err = PlaceError(Regs(m), reg)
           /\ Locate(m, reg).err = Ok => Locate(m, reg).adr = Place(Regs(m), reg)
<1>1. CASE reg.n >= MaxCells
  BY <1>1 DEF Locate, PlaceError, BeyondError, Unreachable, Failure, Ok
<1>2. CASE ~(reg.n >= MaxCells)
  <2>1. Grow(m, reg.n)[reg.n] = Regs(m)[reg.n]
    BY <1>2, FileIs DEF Grow, Regs, Usize
  <2> QED
    BY <1>2, <2>1 DEF Locate, PlaceError, Place, BeyondError, Unreachable, Failure, Ok
<1> QED BY <1>1, <1>2

\* Register::get.
LEMMA GetIs ==
    ASSUME NEW m \in Memory, NEW reg, reg.n \in Usize
    PROVE  /\ Get(m, reg).err = GetError(Regs(m), reg)
           /\ Get(m, reg).err = Ok => /\ Get(m, reg).adr = Place(Regs(m), reg)
                                      /\ Get(m, reg).val = Regs(m)[Place(Regs(m), reg)]
<1> DEFINE loc == Locate(m, reg)
<1>1. /\ loc.err = PlaceError(Regs(m), reg)
      /\ loc.err = Ok => loc.adr = Place(Regs(m), reg)
      /\ loc = [err |-> loc.err, adr |-> loc.adr, val |-> 0, mem |-> loc.mem]
  BY LocateIs, LocateIsARecord
<1>2. loc.err = Ok => loc.adr \in DOMAIN loc.mem
  BY LocateFinds
<1>3. loc.mem \in Memory /\ (loc.err = Ok => Regs(loc.mem) = Regs(m))
  BY LocateFinds, LookupShows DEF LeftBy, Ok
<1>4. loc.err = Ok => loc.mem[loc.adr] = Regs(m)[loc.adr]
  BY <1>2, <1>3, MemoryIsAFunction DEF Regs, File
<1>5. Get(m, reg) = IF loc.err = Ok /\ loc.mem[loc.adr] = Uninit THEN Failure("ReadUninit", loc.mem)
                    ELSE IF loc.err = Ok THEN [loc EXCEPT !.val = loc.mem[loc.adr]]
                    ELSE loc
  BY DEF Get
<1> HIDE DEF loc
<1>6. CASE loc.err # Ok
  BY <1>1, <1>5, <1>6 DEF GetError
<1>7. CASE loc.err = Ok /\ loc.mem[loc.adr] = Uninit
  BY <1>1, <1>4, <1>5, <1>7 DEF GetError, Failure, Ok
<1>8. CASE loc.err = Ok /\ loc.mem[loc.adr] # Uninit
  <2>1. Get(m, reg) = [err |-> Ok, adr |-> loc.adr, val |-> loc.mem[loc.adr], mem |-> loc.mem]
    BY <1>1, <1>5, <1>8
  <2> QED BY <1>1, <1>4, <1>8, <2>1 DEF GetError
<1> QED BY <1>6, <1>7, <1>8

\* Value::get.
LEMMA FetchIs ==
    ASSUME NEW m \in Memory, NEW v, v.mode # "const" => v.n \in Usize
    PROVE  /\ Fetch(m, v).err = FetchError(Regs(m), v)
           /\ Fetch(m, v).err = Ok => Fetch(m, v).val = Fetched(Regs(m), v)
<1>1. CASE v.mode = "const"
  BY <1>1 DEF Fetch, FetchError, Fetched
<1>2. CASE v.mode # "const"
  BY <1>2, GetIs DEF Fetch, FetchError, Fetched
<1> QED BY <1>1, <1>2

\* The accumulator.
LEMMA AccIs ==
    ASSUME memory \in Memory
    PROVE  /\ Acc.err = AccError(Registers)
           /\ Acc.err = Ok => Acc.val = Registers[0]
           /\ Acc.mem \in Memory
           /\ Regs(Acc.mem) = Registers
           /\ Regs(Acc.mem) = LeftBy(Acc.err, Registers)
<1>1. ACC.n = 0 /\ ACC.mode = "dir" /\ 0 \in Usize /\ ~(0 >= MaxCells)
  BY FileIs DEF ACC
<1>2. /\ Acc.err = GetError(Regs(memory), ACC)
      /\ Acc.err = Ok => Acc.val = Regs(memory)[Place(Regs(memory), ACC)]
  BY <1>1, GetIs DEF Acc
<1>3. Acc.mem \in Memory /\ Regs(Acc.mem) = Regs(memory)
  BY AccFinds, RegsExtend
<1>4. Acc.err # "Undefined"
  BY AccFinds DEF Ok
<1> QED BY <1>1, <1>2, <1>3, <1>4, RegistersAreRegs DEF GetError, PlaceError, Place, AccError, LeftBy
-----------------------------------------------------------------------------
(***************************************************************************)
(* What a step() shows: it fails with the error e, or it has the effect of *)
(* its instruction on the registers and goes on or jumps.                  *)
(***************************************************************************)
Fails(e) == result' = e /\ Registers' = LeftBy(e, Registers) /\ UNCHANGED <<output, ir, inst>>

GoesOn ==
    /\ ir' = ir + 1
    /\ inst' = IF Exists(code, ir + 1) THEN At(code, ir + 1) ELSE inst
    /\ result' = IF Exists(code, ir + 1) THEN Ok ELSE "Eof"

Jumped(to) ==
    /\ to \in Usize /\ Exists(code, to)
    /\ ir' = to /\ inst' = At(code, to) /\ result' = Ok

\* How Fail and Advance show.
LEMMA FailShows ==
    ASSUME NEW m, NEW e, Regs(m) = LeftBy(e, Registers), Fail(e, m)
    PROVE  Fails(e)
BY RegistersAreRegs DEF Fail, Fails

\* Going to the next instruction shows what the instruction wrote.
LEMMA AdvanceShows ==
    ASSUME NEW m, NEW out, Advance(m, out)
    PROVE  GoesOn /\ Registers' = Regs(m) /\ output' = out
BY RegistersAreRegs DEF Advance, GoesOn

\* READ.
LEMMA ReadShows ==
    ASSUME TypeOK, Read
    PROVE  /\ input' = Rest
           /\ Answer = None => Fails("ReadEof")
           /\ Answer # None => GoesOn /\ output' = output /\ Registers' = [Registers EXCEPT ![0] = Answer]
<1>1. CASE Answer = None /\ Fail("ReadEof", memory)
  BY <1>1, FailShows, RegistersAreRegs DEF Read, LeftBy
<1>2. CASE Answer # None /\ Advance(SetAcc(memory, Answer), output)
  <2>1. Registers' = Regs(SetAcc(memory, Answer)) /\ GoesOn /\ output' = output
    BY <1>2, AdvanceShows
  <2>2. Regs(SetAcc(memory, Answer)) = [Regs(memory) EXCEPT ![0] = Answer]
    BY RegsSetAcc DEF TypeOK
  <2> QED BY <1>2, <2>1, <2>2, RegistersAreRegs DEF Read
<1> QED BY <1>1, <1>2 DEF Read

\* WRITE.
LEMMA WriteShows ==
    ASSUME TypeOK, Write
    PROVE  LET e == AccError(Registers)
           IN  /\ input' = input
               /\ e # Ok => Fails(e)
               /\ e = Ok => GoesOn /\ output' = Append(output, Registers[0]) /\ Registers' = Registers
<1>1. /\ Acc.err = AccError(Registers) /\ Regs(Acc.mem) = Registers
      /\ Regs(Acc.mem) = LeftBy(Acc.err, Registers)
      /\ Acc.err = Ok => Acc.val = Registers[0]
  BY AccIs DEF TypeOK
<1>2. CASE Acc.err # Ok /\ Fail(Acc.err, Acc.mem)
  BY <1>1, <1>2, FailShows DEF Write
<1>3. CASE Acc.err = Ok /\ Advance(Acc.mem, Append(output, Acc.val))
  BY <1>1, <1>3, AdvanceShows DEF Write
<1> QED BY <1>2, <1>3 DEF Write

\* LOAD.
LEMMA LoadShows ==
    ASSUME TypeOK, Load
    PROVE  LET e == FetchError(Registers, inst)
           IN  /\ input' = input
               /\ e # Ok => Fails(e)
               /\ e = Ok => /\ GoesOn /\ output' = output
                            /\ Registers' = [Registers EXCEPT ![0] = Fetched(Registers, inst)]
<1> DEFINE v == Fetch(memory, inst)
<1>1. inst.mode # "const" => inst.n \in Usize
  BY InstructionShape DEF TypeOK, Load
<1>2. v.err = FetchError(Registers, inst) /\ (v.err = Ok => v.val = Fetched(Registers, inst))
  BY <1>1, FetchIs, RegistersAreRegs DEF TypeOK
<1>3. v.mem \in Memory /\ Regs(v.mem) = LeftBy(v.err, Registers)
  <2>1. IF inst.mode = "const" THEN inst.n \in Number ELSE inst.n \in Usize
    BY InstructionShape DEF TypeOK, Load
  <2> QED BY <2>1, FetchFinds, LookupShows, RegistersAreRegs DEF TypeOK
<1>4. CASE v.err # Ok /\ Fail(v.err, v.mem)
  BY <1>2, <1>3, <1>4, FailShows DEF Load
<1>5. CASE v.err = Ok /\ Advance(SetAcc(v.mem, v.val), output)
  <2> HIDE DEF v
  <2>1. Registers' = Regs(SetAcc(v.mem, v.val)) /\ GoesOn /\ output' = output
    BY <1>5, AdvanceShows
  <2>2. Regs(v.mem) = Registers
    BY <1>3, <1>5 DEF LeftBy, Ok
  <2> QED BY <1>2, <1>3, <1>5, <2>1, <2>2, RegsSetAcc DEF Load
<1> QED BY <1>4, <1>5 DEF Load

\* The error of STORE: the accumulator is looked at first.
StoreError(r, i) == IF AccError(r) # Ok THEN AccError(r) ELSE PlaceError(r, i)

\* STORE.
LEMMA StoreShows ==
    ASSUME TypeOK, Store
    PROVE  LET e == StoreError(Registers, inst)
           IN  /\ input' = input
               /\ e # Ok => Fails(e)
               /\ e = Ok => /\ GoesOn /\ output' = output
                            /\ Place(Registers, inst) \in File
                            /\ Registers' = [Registers EXCEPT ![Place(Registers, inst)] = Registers[0]]
<1> DEFINE loc == Locate(Acc.mem, inst)
<1>1. inst.n \in Usize
  BY InstructionShape DEF TypeOK, Store
<1>2. /\ Acc.err = AccError(Registers) /\ Acc.mem \in Memory /\ Regs(Acc.mem) = Registers
      /\ Regs(Acc.mem) = LeftBy(Acc.err, Registers)
      /\ Acc.err = Ok => Acc.val = Registers[0]
  BY AccIs DEF TypeOK
<1>3. loc.err = PlaceError(Registers, inst) /\ (loc.err = Ok => loc.adr = Place(Registers, inst))
  BY <1>1, <1>2, LocateIs
<1>4. /\ loc.mem \in Memory /\ Regs(loc.mem) = LeftBy(loc.err, Registers)
      /\ loc.err = Ok => loc.adr \in DOMAIN loc.mem /\ Regs(loc.mem) = Registers
  BY <1>1, <1>2, LocateFinds, LookupShows DEF LeftBy, Ok
<1> HIDE DEF loc
<1>5. CASE Acc.err # Ok /\ Fail(Acc.err, Acc.mem)
  BY <1>2, <1>5, FailShows DEF Store, StoreError
<1>6. CASE Acc.err = Ok /\ loc.err # Ok /\ Fail(loc.err, loc.mem)
  BY <1>2, <1>3, <1>4, <1>6, FailShows DEF Store, StoreError
<1>7. CASE Acc.err = Ok /\ loc.err = Ok /\ Advance(Set(loc.mem, loc.adr, Acc.val), output)
  <2>1. Registers' = Regs(Set(loc.mem, loc.adr, Acc.val)) /\ GoesOn /\ output' = output
    BY <1>7, AdvanceShows
  <2>2. Regs(Set(loc.mem, loc.adr, Acc.val)) = [Registers EXCEPT ![loc.adr] = Acc.val]
    BY <1>4, <1>7, RegsSet
  <2>3. loc.adr \in File
    BY <1>4, <1>7, MemoryIsAFunction DEF File
  <2> QED BY <1>2, <1>3, <1>7, <2>1, <2>2, <2>3 DEF Store, StoreError
<1> QED BY <1>5, <1>6, <1>7 DEF Store, loc

\* The error of INC and DEC.
UnopError(r, i) ==
    IF GetError(r, i) # Ok THEN GetError(r, i)
    ELSE IF Checked(i.op, r[Place(r, i)], 1) = {} THEN "IntegerOverfow"
    ELSE Ok

\* INC and DEC.
LEMMA UnopShows ==
    ASSUME TypeOK, Unop
    PROVE  LET e == UnopError(Registers, inst)
               at == Place(Registers, inst)
           IN  /\ input' = input
               /\ e # Ok => Fails(e)
               /\ e = Ok => /\ GoesOn /\ output' = output
                            /\ \E n \in Checked(inst.op, Registers[at], 1) :
                                   Registers' = [Registers EXCEPT ![at] = n]
<1> DEFINE v == Get(memory, inst)
           r == Checked(inst.op, v.val, 1)
<1>1. inst.n \in Usize
  BY InstructionShape DEF TypeOK, Unop
<1>2. /\ v.err = GetError(Registers, inst)
      /\ v.err = Ok => v.adr = Place(Registers, inst) /\ v.val = Registers[Place(Registers, inst)]
  BY <1>1, GetIs, RegistersAreRegs DEF TypeOK
<1>3. /\ v.mem \in Memory /\ Regs(v.mem) = LeftBy(v.err, Registers)
      /\ v.err = Ok => v.adr \in DOMAIN v.mem /\ Regs(v.mem) = Registers
  BY <1>1, GetFinds, LookupShows, RegistersAreRegs DEF TypeOK, LeftBy, Ok
<1>4. v.err = Ok => r = Checked(inst.op, Registers[Place(Registers, inst)], 1)
  BY <1>2
<1>5. /\ input' = input
      /\ \/ v.err # Ok /\ Fail(v.err, v.mem)
         \/ v.err = Ok /\ r = {} /\ Fail("IntegerOverfow", v.mem)
         \/ v.err = Ok /\ \E n \in r : Advance(Set(v.mem, v.adr, n), output)
  BY DEF Unop
<1> HIDE DEF v, r
<1>6. CASE v.err # Ok /\ Fail(v.err, v.mem)
  BY <1>2, <1>3, <1>5, <1>6, FailShows DEF UnopError
<1>7. CASE v.err = Ok /\ r = {} /\ Fail("IntegerOverfow", v.mem)
  BY <1>2, <1>3, <1>4, <1>5, <1>7, FailShows DEF UnopError, Ok, LeftBy
<1>8. CASE v.err = Ok /\ \E n \in r : Advance(Set(v.mem, v.adr, n), output)
  <2>1. PICK n \in r : Advance(Set(v.mem, v.adr, n), output)
    BY <1>8
  <2>2. Registers' = Regs(Set(v.mem, v.adr, n)) /\ GoesOn /\ output' = output
    BY <2>1, AdvanceShows
  <2>3. Regs(Set(v.mem, v.adr, n)) = [Registers EXCEPT ![v.adr] = n]
    BY <1>3, <1>8, RegsSet
  <2>4. UnopError(Registers, inst) = Ok
    BY <1>2, <1>4, <1>8 DEF UnopError
  <2> QED BY <1>2, <1>4, <1>5, <1>8, <2>2, <2>3, <2>4
<1> QED BY <1>5, <1>6, <1>7, <1>8

\* The error of ADD, SUB, MUL, DIV and MOD.
BinopError(r, i) ==
    IF AccError(r) # Ok THEN AccError(r)
    ELSE IF FetchError(r, i) # Ok THEN FetchError(r, i)
    ELSE IF Checked(i.op, r[0], Fetched(r, i)) = {} THEN "IntegerOverfow"
    ELSE Ok

\* ADD, SUB, MUL, DIV and MOD.
LEMMA BinopShows ==
    ASSUME TypeOK, Binop
    PROVE  LET e == BinopError(Registers, inst)
           IN  /\ input' = input
               /\ e # Ok => Fails(e)
               /\ e = Ok => /\ GoesOn /\ output' = output
                            /\ \E n \in Checked(inst.op, Registers[0], Fetched(Registers, inst)) :
                                   Registers' = [Registers EXCEPT ![0] = n]
<1> DEFINE v == Fetch(Acc.mem, inst)
           r == Checked(inst.op, Acc.val, v.val)
<1>1. IF inst.mode = "const" THEN inst.n \in Number ELSE inst.n \in Usize
  BY InstructionShape DEF TypeOK, Binop
<1>2. /\ Acc.err = AccError(Registers) /\ Acc.mem \in Memory /\ Regs(Acc.mem) = Registers
      /\ Regs(Acc.mem) = LeftBy(Acc.err, Registers)
      /\ Acc.err = Ok => Acc.val = Registers[0]
  BY AccIs DEF TypeOK
<1>3. v.err = FetchError(Registers, inst) /\ (v.err = Ok => v.val = Fetched(Registers, inst))
  BY <1>1, <1>2, FetchIs
<1>4. /\ v.mem \in Memory /\ Regs(v.mem) = LeftBy(v.err, Registers)
      /\ v.err = Ok => Regs(v.mem) = Registers
  BY <1>1, <1>2, FetchFinds, LookupShows DEF LeftBy, Ok
<1>5. Acc.err = Ok /\ v.err = Ok => r = Checked(inst.op, Registers[0], Fetched(Registers, inst))
  BY <1>2, <1>3
<1>6. /\ input' = input
      /\ \/ Acc.err # Ok /\ Fail(Acc.err, Acc.mem)
         \/ Acc.err = Ok /\ v.err # Ok /\ Fail(v.err, v.mem)
         \/ Acc.err = Ok /\ v.err = Ok /\ r = {} /\ Fail("IntegerOverfow", v.mem)
         \/ Acc.err = Ok /\ v.err = Ok /\ \E n \in r : Advance(SetAcc(v.mem, n), output)
  BY DEF Binop
<1> HIDE DEF v, r
<1>7. CASE Acc.err # Ok /\ Fail(Acc.err, Acc.mem)
  BY <1>2, <1>6, <1>7, FailShows DEF BinopError
<1>8. CASE Acc.err = Ok /\ v.err # Ok /\ Fail(v.err, v.mem)
  BY <1>2, <1>3, <1>4, <1>6, <1>8, FailShows DEF BinopError
<1>9. CASE Acc.err = Ok /\ v.err = Ok /\ r = {} /\ Fail("IntegerOverfow", v.mem)
  BY <1>2, <1>3, <1>4, <1>5, <1>6, <1>9, FailShows DEF BinopError, Ok, LeftBy
<1>10. CASE Acc.err = Ok /\ v.err = Ok /\ \E n \in r : Advance(SetAcc(v.mem, n), output)
  <2>1. PICK n \in r : Advance(SetAcc(v.mem, n), output)
    BY <1>10
  <2>2. Registers' = Regs(SetAcc(v.mem, n)) /\ GoesOn /\ output' = output
    BY <2>1, AdvanceShows
  <2>3. Regs(SetAcc(v.mem, n)) = [Registers EXCEPT ![0] = n]
    BY <1>4, <1>10, RegsSetAcc
  <2>4. BinopError(Registers, inst) = Ok
    BY <1>2, <1>3, <1>5, <1>10 DEF BinopError
  <2> QED BY <1>5, <1>6, <1>10, <2>2, <2>3, <2>4
<1> QED BY <1>6, <1>7, <1>8, <1>9, <1>10

\* Where Address::get says to go.
JumpTo(r, i) == IF i.mode = "reg" THEN r[i.n] ELSE i.n

\* The error of a jump.
JumpError(r, i) ==
    IF i.mode = "reg" /\ i.n >= MaxCells THEN BeyondError(i.n)
    ELSE IF i.mode = "reg" /\ r[i.n] = Uninit THEN "ReadUninit"
    ELSE IF JumpTo(r, i) \notin Usize THEN "InvalidJump"
    ELSE IF ~Exists(code, JumpTo(r, i)) THEN "InexistentJump"
    ELSE Ok

\* Ram::jump.
LEMMA JumpShows ==
    ASSUME TypeOK, inst.op \in JumpOps,
           NEW m \in Memory, Regs(m) = Registers, Jump(m)
    PROVE  LET e == JumpError(Registers, inst)
           IN  /\ e # Ok => Fails(e)
               /\ e = Ok => Jumped(JumpTo(Registers, inst)) /\ output' = output /\ Registers' = Registers
<1> DEFINE reg == [mode |-> "dir", n |-> inst.n]
           v == Get(m, reg)
           to == Target(m, inst)
<1>1. inst.n \in Usize /\ reg.n = inst.n /\ reg.mode = "dir"
  BY InstructionShape DEF TypeOK
<1>2. v.err = GetError(Registers, reg) /\ (v.err = Ok => v.val = Registers[Place(Registers, reg)])
  BY <1>1, GetIs
<1>3. v.mem \in Memory /\ Regs(v.mem) = LeftBy(v.err, Registers)
  BY <1>1, GetFinds, LookupShows
<1>4. /\ v.err = IF inst.n >= MaxCells THEN BeyondError(inst.n)
                 ELSE IF Registers[inst.n] = Uninit THEN "ReadUninit" ELSE Ok
      /\ v.err = Ok => v.val = Registers[inst.n]
  BY <1>1, <1>2 DEF GetError, PlaceError, Place, BeyondError, Ok
<1>5. to = LET x == IF inst.mode = "reg" THEN v.val ELSE inst.n
               m1 == IF inst.mode = "reg" THEN v.mem ELSE m
           IN  IF inst.mode = "reg" /\ v.err # Ok THEN Failure(v.err, m1)
               ELSE IF x \notin Usize THEN Failure("InvalidJump", m1)
               ELSE IF ~Exists(code, x) THEN Failure("InexistentJump", m1)
               ELSE [err |-> Ok, adr |-> x, val |-> 0, mem |-> m1]
  BY DEF Target
<1> HIDE DEF v, to
<1>6. /\ to.err = JumpError(Registers, inst)
      /\ to.err = Ok => /\ to.adr = JumpTo(Registers, inst)
                        /\ to.adr \in Usize /\ Exists(code, to.adr)
      /\ Regs(to.mem) = LeftBy(to.err, Registers)
  BY <1>3, <1>4, <1>5 DEF JumpError, JumpTo, BeyondError, Failure, Ok, LeftBy
<1>7. \/ to.err # Ok /\ Fail(to.err, to.mem)
      \/ /\ to.err = Ok /\ ir' = to.adr /\ inst' = At(code, to.adr)
         /\ result' = Ok /\ memory' = to.mem /\ output' = output
  BY DEF Jump, to
<1>8. CASE to.err # Ok /\ Fail(to.err, to.mem)
  BY <1>6, <1>8, FailShows
<1>9. CASE /\ to.err = Ok /\ ir' = to.adr /\ inst' = At(code, to.adr)
           /\ result' = Ok /\ memory' = to.mem /\ output' = output
  BY <1>6, <1>9, RegistersAreRegs DEF Jumped, LeftBy, Ok
<1> QED BY <1>7, <1>8, <1>9

\* JUMP.
LEMMA AlwaysJumpShows ==
    ASSUME TypeOK, AlwaysJump
    PROVE  LET e == JumpError(Registers, inst)
           IN  /\ input' = input
               /\ e # Ok => Fails(e)
               /\ e = Ok => Jumped(JumpTo(Registers, inst)) /\ output' = output /\ Registers' = Registers
BY JumpShows, RegistersAreRegs DEF AlwaysJump, JumpOps, TypeOK

\* The error of JUMZ, JUML and JUMG.
MayJumpError(r, i) ==
    IF AccError(r) # Ok THEN AccError(r)
    ELSE IF Jumps(i.op, r[0]) THEN JumpError(r, i)
    ELSE Ok

\* JUMZ, JUML and JUMG.
LEMMA MayJumpShows ==
    ASSUME TypeOK, MayJump
    PROVE  LET e == MayJumpError(Registers, inst)
           IN  /\ input' = input
               /\ e # Ok => Fails(e)
               /\ e = Ok => /\ output' = output /\ Registers' = Registers
                            /\ IF Jumps(inst.op, Registers[0]) THEN Jumped(JumpTo(Registers, inst)) ELSE GoesOn
<1>1. /\ Acc.err = AccError(Registers) /\ Acc.mem \in Memory /\ Regs(Acc.mem) = Registers
      /\ Regs(Acc.mem) = LeftBy(Acc.err, Registers)
      /\ Acc.err = Ok => Acc.val = Registers[0]
  BY AccIs DEF TypeOK
<1>2. CASE Acc.err # Ok /\ Fail(Acc.err, Acc.mem)
  BY <1>1, <1>2, FailShows DEF MayJump, MayJumpError
<1>3. CASE Acc.err = Ok /\ Jumps(inst.op, Acc.val) /\ Jump(Acc.mem)
  <2>1. inst.op \in JumpOps
    BY DEF MayJump, JumpOps
  <2> QED BY <1>1, <1>3, <2>1, JumpShows DEF MayJump, MayJumpError
<1>4. CASE Acc.err = Ok /\ ~Jumps(inst.op, Acc.val) /\ Advance(Acc.mem, output)
  BY <1>1, <1>4, AdvanceShows DEF MayJump, MayJumpError
<1> QED BY <1>2, <1>3, <1>4 DEF MayJump

-----------------------------------------------------------------------------
(***************************************************************************)
(* An error repeats itself: what step() will fail with is a function of    *)
(* what the failed step() has left as it was.                              *)
(***************************************************************************)
Diagnosis ==
    CASE inst.op = "READ"              -> IF Answer = None THEN "ReadEof" ELSE Ok
      [] inst.op = "WRITE"             -> AccError(Registers)
      [] inst.op = "LOAD"              -> FetchError(Registers, inst)
      [] inst.op = "STORE"             -> StoreError(Registers, inst)
      [] inst.op \in UnaryOps          -> UnopError(Registers, inst)
      [] inst.op \in BinaryOps         -> BinopError(Registers, inst)
      [] inst.op = "JUMP"              -> JumpError(Registers, inst)
      [] inst.op \in ConditionalJumps  -> MayJumpError(Registers, inst)
      [] OTHER                         -> Ok

\* step() fails with its diagnosis, and without one it succeeds.
LEMMA StepIsDiagnosed ==
    ASSUME TypeOK, Step
    PROVE  /\ Diagnosis # Ok => Fails(Diagnosis)
           /\ Diagnosis = Ok =>
                  \/ GoesOn /\ inst.op # "STOP"
                  \/ inst.op = "STOP" /\ result' = Ok /\ UNCHANGED <<ir, inst>>
                  \/ \E to : Jumped(to)
           /\ input' = IF inst.op = "READ" THEN Rest ELSE input
           /\ code' = code
<1> USE DEF UnaryOps, BinaryOps, ConditionalJumps
<1>0. code' = code
  BY DEF Step
<1>1. CASE Read
  BY <1>0, <1>1, ReadShows DEF Read, Diagnosis, Ok
<1>2. CASE Write
  BY <1>0, <1>2, WriteShows DEF Write, Diagnosis
<1>3. CASE Load
  BY <1>0, <1>3, LoadShows DEF Load, Diagnosis
<1>4. CASE Store
  BY <1>0, <1>4, StoreShows DEF Store, Diagnosis
<1>5. CASE Unop
  <2>1. inst.op \in {"INC", "DEC"} /\ Diagnosis = UnopError(Registers, inst)
    BY <1>5 DEF Unop, Diagnosis
  <2> QED BY <1>0, <1>5, <2>1, UnopShows
<1>6. CASE Binop
  <2>1. inst.op \in {"ADD", "SUB", "MUL", "DIV", "MOD"} /\ Diagnosis = BinopError(Registers, inst)
    BY <1>6 DEF Binop, Diagnosis
  <2> QED BY <1>0, <1>6, <2>1, BinopShows
<1>7. CASE AlwaysJump
  <2>1. inst.op = "JUMP" /\ Diagnosis = JumpError(Registers, inst)
    BY <1>7 DEF AlwaysJump, Diagnosis
  <2>2. /\ input' = input
        /\ Diagnosis # Ok => Fails(Diagnosis)
        /\ Diagnosis = Ok => Jumped(JumpTo(Registers, inst))
    BY <1>7, <2>1, AlwaysJumpShows
  <2>3. Diagnosis = Ok => \E to : Jumped(to)
    BY <2>2, Zenon
  <2> QED BY <1>0, <2>1, <2>2, <2>3
<1>8. CASE MayJump
  <2>1. inst.op \in {"JUMZ", "JUML", "JUMG"} /\ Diagnosis = MayJumpError(Registers, inst)
    BY <1>8 DEF MayJump, Diagnosis
  <2>2. /\ input' = input
        /\ Diagnosis # Ok => Fails(Diagnosis)
        /\ Diagnosis = Ok => IF Jumps(inst.op, Registers[0]) THEN Jumped(JumpTo(Registers, inst)) ELSE GoesOn
    BY <1>8, <2>1, MayJumpShows
  <2>3. Diagnosis = Ok => GoesOn \/ \E to : Jumped(to)
    BY <2>2, Zenon
  <2> QED BY <1>0, <2>1, <2>2, <2>3
<1>9. CASE Stop
  BY <1>0, <1>9 DEF Stop, Diagnosis
<1>10. CASE Nop
  <2>1. GoesOn
    BY <1>10, AdvanceShows DEF Nop
  <2> QED BY <1>0, <1>10, <2>1 DEF Nop, Diagnosis
<1> QED
  BY <1>1, <1>2, <1>3, <1>4, <1>5, <1>6, <1>7, <1>8, <1>9, <1>10 DEF Step

\* A diagnosis is none of the two results of a successful step().
LEMMA DiagnosisIsNotEof == Diagnosis # "Eof"
BY DEF Diagnosis, Ok, AccError, FetchError, GetError, PlaceError, StoreError, UnopError, BinopError,
       JumpError, MayJumpError, BeyondError

-----------------------------------------------------------------------------
(***************************************************************************)
(* A step() as a function: for a program without indirect jumps, what is   *)
(* seen of the machine after a step() follows from what is seen before it. *)
(***************************************************************************)

\* What is seen of a machine; an error leaves no next instruction.
Seen == [ir |-> IF result = Ok THEN ir ELSE 0, regs |-> Registers, in |-> input, out |-> output,
         res |-> result]

\* Why the instruction i cannot have its effect, wherever it jumps to.
Trouble(i, s) ==
    CASE i.op = "READ"            -> IF s.in = << >> \/ Head(s.in) = None THEN "ReadEof" ELSE Ok
      [] i.op = "WRITE"           -> AccError(s.regs)
      [] i.op = "LOAD"            -> FetchError(s.regs, i)
      [] i.op = "STORE"           -> StoreError(s.regs, i)
      [] i.op \in UnaryOps        -> UnopError(s.regs, i)
      [] i.op \in BinaryOps       -> BinopError(s.regs, i)
      [] i.op \in ConditionalJumps -> AccError(s.regs)
      [] OTHER                    -> Ok

RegistersAfter(i, s) ==
    LET r == s.regs
    IN  CASE i.op = "READ"       -> [r EXCEPT ![0] = Head(s.in)]
          [] i.op = "LOAD"       -> [r EXCEPT ![0] = Fetched(r, i)]
          [] i.op = "STORE"      -> [r EXCEPT ![Place(r, i)] = r[0]]
          [] i.op \in UnaryOps   -> [r EXCEPT ![Place(r, i)] = Exact(i.op, r[Place(r, i)], 1)]
          [] i.op \in BinaryOps  -> [r EXCEPT ![0] = Exact(i.op, r[0], Fetched(r, i))]
          [] OTHER               -> r

InputAfter(i, s) ==
    IF i.op # "READ" THEN s.in ELSE IF Trouble(i, s) = Ok THEN Tail(s.in) ELSE << >>

OutputAfter(i, s) == IF i.op = "WRITE" THEN Append(s.out, s.regs[0]) ELSE s.out

Leaps(i, s) ==
    \/ i.op = "JUMP"
    \/ i.op \in ConditionalJumps /\ Jumps(i.op, s.regs[0])

After(prog, s) ==
    LET i == At(prog, s.ir)
        to == IF Leaps(i, s) THEN i.n ELSE s.ir + 1
    IN  IF s.res # Ok \/ ~Exists(prog, s.ir) \/ i.op = "STOP" THEN s
        ELSE IF Trouble(i, s) # Ok
        THEN [ir |-> 0, regs |-> LeftBy(Trouble(i, s), s.regs), in |-> InputAfter(i, s),
              out |-> s.out, res |-> Trouble(i, s)]
        ELSE [ir |-> IF Exists(prog, to) THEN to ELSE 0,
              regs |-> RegistersAfter(i, s), in |-> InputAfter(i, s), out |-> OutputAfter(i, s),
              res |-> IF Exists(prog, to) THEN Ok
                      ELSE IF Leaps(i, s) THEN "InexistentJump" ELSE "Eof"]

\* A machine that is about to execute an instruction which jumps directly, if it jumps.
Going ==
    /\ TypeOK
    /\ result = Ok /\ Exists(code, ir) /\ inst = At(code, ir) /\ inst.mode # "reg"

\* How an instruction shows.
Follows ==
    LET e == Trouble(inst, Seen)
    IN  /\ input' = InputAfter(inst, Seen)
        /\ e # Ok => Fails(e)
        /\ e = Ok =>
               /\ Leaps(inst, Seen) /\ ~Exists(code, inst.n) => Fails("InexistentJump")
               /\ Leaps(inst, Seen) /\ Exists(code, inst.n) => Jumped(inst.n)
               /\ ~Leaps(inst, Seen) => GoesOn
               /\ Registers' = RegistersAfter(inst, Seen)
               /\ output' = OutputAfter(inst, Seen)

\* What is seen of a Ram are its registers, input, output and result, and its ir while it is
\* well.
LEMMA SeenIs ==
    /\ Seen.regs = Registers /\ Seen.in = input /\ Seen.out = output /\ Seen.res = result
    /\ result = Ok => Seen.ir = ir
BY DEF Seen

\* A step() that follows the instruction leads to the state that After computes.
LEMMA FollowsIsAfter ==
    ASSUME Going, inst.op # "STOP", Follows, code' = code
    PROVE  Seen' = After(code, Seen)
<1>1. result = Ok /\ Exists(code, ir) /\ inst = At(code, ir)
  BY DEF Going
<1>2. Seen' = [ir |-> IF result' = Ok THEN ir' ELSE 0, regs |-> Registers', in |-> input',
               out |-> output', res |-> result']
  BY DEF Seen
<1> DEFINE e == Trouble(inst, Seen)
           to == IF Leaps(inst, Seen) THEN inst.n ELSE ir + 1
<1>3. After(code, Seen) =
          IF e # Ok
          THEN [ir |-> 0, regs |-> LeftBy(e, Registers), in |-> InputAfter(inst, Seen),
                out |-> output, res |-> e]
          ELSE [ir |-> IF Exists(code, to) THEN to ELSE 0,
                regs |-> RegistersAfter(inst, Seen), in |-> InputAfter(inst, Seen),
                out |-> OutputAfter(inst, Seen),
                res |-> IF Exists(code, to) THEN Ok
                        ELSE IF Leaps(inst, Seen) THEN "InexistentJump" ELSE "Eof"]
  BY <1>1, SeenIs DEF After
<1> HIDE DEF e
<1>4. CASE e # Ok
  BY <1>2, <1>3, <1>4 DEF Follows, Fails, e
<1>5. CASE e = Ok /\ Leaps(inst, Seen)
  <2>1. CASE Exists(code, inst.n)
    BY <1>2, <1>3, <1>5, <2>1 DEF Follows, Jumped, e
  <2>2. CASE ~Exists(code, inst.n)
    BY <1>2, <1>3, <1>5, <2>2 DEF Follows, Fails, Ok, e
  <2> QED BY <2>1, <2>2
<1>6. CASE e = Ok /\ ~Leaps(inst, Seen)
  BY <1>2, <1>3, <1>6 DEF Follows, GoesOn, Ok, e
<1> QED BY <1>4, <1>5, <1>6

\* A step() is that function.
LEMMA StepIsAfter ==
    ASSUME Going, Step
    PROVE  Seen' = After(code, Seen)
<1> USE DEF UnaryOps, BinaryOps, ConditionalJumps
<1>0. code' = code /\ TypeOK /\ inst.mode # "reg" /\ result = Ok
  BY DEF Step, Going
<1>a. Registers = Seen.regs /\ Seen.in = input /\ Seen.out = output
  BY SeenIs
<1>1. CASE Read
  <2>1. inst.op = "READ"
    BY <1>1 DEF Read
  <2>2. /\ input' = Rest
        /\ Answer = None => Fails("ReadEof")
        /\ Answer # None =>
               GoesOn /\ output' = output /\ Registers' = [Registers EXCEPT ![0] = Answer]
    BY <1>0, <1>1, ReadShows
  <2>3. /\ Trouble(inst, Seen) = IF Answer = None THEN "ReadEof" ELSE Ok
        /\ Answer # None => input # << >> /\ Answer = Head(input) /\ Rest = Tail(input)
        /\ Answer = None => Rest = << >>
    BY <1>a, <2>1 DEF Trouble, Answer, Rest
  <2>4. /\ InputAfter(inst, Seen) = Rest /\ ~Leaps(inst, Seen)
        /\ OutputAfter(inst, Seen) = output
        /\ Answer # None => RegistersAfter(inst, Seen) = [Registers EXCEPT ![0] = Answer]
    BY <1>a, <2>1, <2>3 DEF InputAfter, Leaps, OutputAfter, RegistersAfter, Ok
  <2>5. Follows
    BY <2>2, <2>3, <2>4 DEF Follows, Ok
  <2> QED BY <1>0, <2>1, <2>5, FollowsIsAfter
<1>2. CASE Write
  <2>1. inst.op = "WRITE"
    BY <1>2 DEF Write
  <2>2. /\ Trouble(inst, Seen) = AccError(Registers)
        /\ InputAfter(inst, Seen) = input /\ ~Leaps(inst, Seen)
        /\ OutputAfter(inst, Seen) = Append(output, Registers[0])
        /\ RegistersAfter(inst, Seen) = Registers
    BY <1>a, <2>1 DEF Trouble, InputAfter, Leaps, OutputAfter, RegistersAfter
  <2>3. Follows
    BY <1>0, <1>2, <2>2, WriteShows DEF Follows
  <2> QED BY <1>0, <2>1, <2>3, FollowsIsAfter
<1>3. CASE Load
  <2>1. inst.op = "LOAD"
    BY <1>3 DEF Load
  <2>2. /\ Trouble(inst, Seen) = FetchError(Registers, inst)
        /\ InputAfter(inst, Seen) = input /\ ~Leaps(inst, Seen)
        /\ OutputAfter(inst, Seen) = output
        /\ RegistersAfter(inst, Seen) = [Registers EXCEPT ![0] = Fetched(Registers, inst)]
    BY <1>a, <2>1 DEF Trouble, InputAfter, Leaps, OutputAfter, RegistersAfter
  <2>3. Follows
    BY <1>0, <1>3, <2>2, LoadShows DEF Follows
  <2> QED BY <1>0, <2>1, <2>3, FollowsIsAfter
<1>4. CASE Store
  <2>1. inst.op = "STORE"
    BY <1>4 DEF Store
  <2>2. /\ Trouble(inst, Seen) = StoreError(Registers, inst)
        /\ InputAfter(inst, Seen) = input /\ ~Leaps(inst, Seen)
        /\ OutputAfter(inst, Seen) = output
        /\ RegistersAfter(inst, Seen) =
               [Registers EXCEPT ![Place(Registers, inst)] = Registers[0]]
    BY <1>a, <2>1 DEF Trouble, InputAfter, Leaps, OutputAfter, RegistersAfter
  <2>3. Follows
    BY <1>0, <1>4, <2>2, StoreShows DEF Follows
  <2> QED BY <1>0, <2>1, <2>3, FollowsIsAfter
<1>5. CASE Unop
  <2> DEFINE at == Place(Registers, inst)
  <2>1. inst.op \in {"INC", "DEC"}
    BY <1>5 DEF Unop
  <2>2. /\ Trouble(inst, Seen) = UnopError(Registers, inst)
        /\ InputAfter(inst, Seen) = input /\ ~Leaps(inst, Seen)
        /\ OutputAfter(inst, Seen) = output
        /\ RegistersAfter(inst, Seen) =
               [Registers EXCEPT ![at] = Exact(inst.op, Registers[at], 1)]
    BY <1>a, <2>1 DEF Trouble, InputAfter, Leaps, OutputAfter, RegistersAfter
  <2>3. /\ input' = input
        /\ UnopError(Registers, inst) # Ok => Fails(UnopError(Registers, inst))
        /\ UnopError(Registers, inst) = Ok =>
               /\ GoesOn /\ output' = output
               /\ \E n \in Checked(inst.op, Registers[at], 1) :
                      Registers' = [Registers EXCEPT ![at] = n]
    BY <1>0, <1>5, UnopShows
  <2>4. \A n \in Checked(inst.op, Registers[at], 1) : n = Exact(inst.op, Registers[at], 1)
    BY DEF Checked
  <2>5. UnopError(Registers, inst) = Ok => Registers' = RegistersAfter(inst, Seen)
    BY <2>2, <2>3, <2>4
  <2>6. Follows
    BY <2>2, <2>3, <2>5 DEF Follows
  <2> QED BY <1>0, <2>1, <2>6, FollowsIsAfter
<1>6. CASE Binop
  <2> DEFINE v == Fetched(Registers, inst)
  <2>1. inst.op \in {"ADD", "SUB", "MUL", "DIV", "MOD"}
    BY <1>6 DEF Binop
  <2>2. /\ Trouble(inst, Seen) = BinopError(Registers, inst)
        /\ InputAfter(inst, Seen) = input /\ ~Leaps(inst, Seen)
        /\ OutputAfter(inst, Seen) = output
        /\ RegistersAfter(inst, Seen) =
               [Registers EXCEPT ![0] = Exact(inst.op, Registers[0], v)]
    BY <1>a, <2>1 DEF Trouble, InputAfter, Leaps, OutputAfter, RegistersAfter
  <2>3. /\ input' = input
        /\ BinopError(Registers, inst) # Ok => Fails(BinopError(Registers, inst))
        /\ BinopError(Registers, inst) = Ok =>
               /\ GoesOn /\ output' = output
               /\ \E n \in Checked(inst.op, Registers[0], v) :
                      Registers' = [Registers EXCEPT ![0] = n]
    BY <1>0, <1>6, BinopShows
  <2>4. \A n \in Checked(inst.op, Registers[0], v) : n = Exact(inst.op, Registers[0], v)
    BY DEF Checked
  <2>5. BinopError(Registers, inst) = Ok => Registers' = RegistersAfter(inst, Seen)
    BY <2>2, <2>3, <2>4
  <2>6. Follows
    BY <2>2, <2>3, <2>5 DEF Follows
  <2> QED BY <1>0, <2>1, <2>6, FollowsIsAfter
<1>b. ASSUME inst.op \in JumpOps
      PROVE  /\ JumpTo(Registers, inst) = inst.n
             /\ JumpError(Registers, inst) = IF Exists(code, inst.n) THEN Ok ELSE "InexistentJump"
             /\ InputAfter(inst, Seen) = input
             /\ OutputAfter(inst, Seen) = output
             /\ RegistersAfter(inst, Seen) = Registers
  <2>1. inst.op \in {"JUMP", "JUMZ", "JUML", "JUMG"}
    BY <1>b DEF JumpOps
  <2>2. inst.n \in Usize
    BY <1>0, <2>1, InstructionShape DEF TypeOK, JumpOps
  <2> QED
    BY <1>0, <1>a, <2>1, <2>2 DEF JumpTo, JumpError, InputAfter, OutputAfter, RegistersAfter
<1>7. CASE AlwaysJump
  <2>1. inst.op = "JUMP" /\ inst.op \in JumpOps
    BY <1>7 DEF AlwaysJump, JumpOps
  <2>2. Trouble(inst, Seen) = Ok /\ Leaps(inst, Seen)
    BY <2>1 DEF Trouble, Leaps
  <2>3. Follows
    BY <1>0, <1>7, <1>b, <2>1, <2>2, AlwaysJumpShows DEF Follows, Fails, LeftBy, Ok
  <2> QED BY <1>0, <2>1, <2>3, FollowsIsAfter
<1>8. CASE MayJump
  <2>1. inst.op \in {"JUMZ", "JUML", "JUMG"} /\ inst.op \in JumpOps
    BY <1>8 DEF MayJump, JumpOps
  <2>2. /\ Trouble(inst, Seen) = AccError(Registers)
        /\ Leaps(inst, Seen) <=> Jumps(inst.op, Registers[0])
    BY <1>a, <2>1 DEF Trouble, Leaps
  <2>3. LET e == MayJumpError(Registers, inst)
        IN  /\ input' = input
            /\ e # Ok => Fails(e)
            /\ e = Ok => /\ output' = output /\ Registers' = Registers
                         /\ IF Jumps(inst.op, Registers[0])
                            THEN Jumped(JumpTo(Registers, inst)) ELSE GoesOn
    BY <1>0, <1>8, MayJumpShows
  <2>4. Follows
    BY <1>b, <2>1, <2>2, <2>3 DEF Follows, MayJumpError, Fails, LeftBy, Ok
  <2> QED BY <1>0, <2>1, <2>4, FollowsIsAfter
<1>9. CASE Stop
  <2>1. /\ inst.op = "STOP" /\ inst = At(code, ir) /\ Seen.ir = ir
        /\ result' = result /\ ir' = ir /\ input' = input /\ output' = output
        /\ memory' = memory
    BY <1>0, <1>9, SeenIs DEF Stop, Going
  <2>2. Registers' = Registers
    BY <2>1, RegistersAreRegs
  <2>3. Seen' = Seen
    BY <2>1, <2>2 DEF Seen
  <2> QED BY <2>1, <2>3 DEF After
<1>10. CASE Nop
  <2>1. inst.op = "NOP" /\ input' = input
    BY <1>10 DEF Nop
  <2>2. GoesOn /\ output' = output /\ Registers' = Registers
    BY <1>10, AdvanceShows, RegistersAreRegs DEF Nop
  <2>3. /\ Trouble(inst, Seen) = Ok /\ ~Leaps(inst, Seen)
        /\ InputAfter(inst, Seen) = input /\ OutputAfter(inst, Seen) = output
        /\ RegistersAfter(inst, Seen) = Registers
    BY <1>a, <2>1 DEF Trouble, InputAfter, Leaps, OutputAfter, RegistersAfter
  <2>4. Follows
    BY <2>1, <2>2, <2>3 DEF Follows
  <2> QED BY <1>0, <2>1, <2>4, FollowsIsAfter
<1> QED
  BY <1>1, <1>2, <1>3, <1>4, <1>5, <1>6, <1>7, <1>8, <1>9, <1>10 DEF Step

-----------------------------------------------------------------------------
(***************************************************************************)
(* The executions of a program: the states that After leads to.            *)
(***************************************************************************)
States ==
    [ir : Nat, regs : [File -> Cell], in : Seq(Number \cup {None}), out : Seq(Number),
     res : Errors \cup {Ok}]

Begin(x) == [ir |-> 0, regs |-> [a \in File |-> Uninit], in |-> x, out |-> << >>, res |-> Ok]

\* A state from which the program goes on.
Live(prog, s) == s.res = Ok /\ Exists(prog, s.ir) /\ At(prog, s.ir).op # "STOP"

\* What an instruction does to the rest of the state, and where it goes on.
Effect(i, s) == [regs |-> RegistersAfter(i, s), in |-> InputAfter(i, s), out |-> OutputAfter(i, s)]
Goal(i, s) == IF Leaps(i, s) THEN i.n ELSE s.ir + 1
Missing(i, s) == IF Leaps(i, s) THEN "InexistentJump" ELSE "Eof"

Refused(i, s) ==
    [ir |-> 0, regs |-> LeftBy(Trouble(i, s), s.regs), in |-> InputAfter(i, s), out |-> s.out,
     res |-> Trouble(i, s)]

Landed(prog, to, bad, e) ==
    [ir |-> IF Exists(prog, to) THEN to ELSE 0, regs |-> e.regs, in |-> e.in, out |-> e.out,
     res |-> IF Exists(prog, to) THEN Ok ELSE bad]

\* A program that cannot go on stays where it is; another one executes an instruction.
LEMMA AfterIs ==
    ASSUME NEW prog, NEW s
    PROVE  LET i == At(prog, s.ir)
           IN  After(prog, s) =
                   IF ~Live(prog, s) THEN s
                   ELSE IF Trouble(i, s) # Ok THEN Refused(i, s)
                   ELSE Landed(prog, Goal(i, s), Missing(i, s), Effect(i, s))
BY DEF After, Live, Goal, Missing, Refused, Landed, Effect

\* The fields of a state.
LEMMA StateIs ==
    ASSUME NEW s \in States
    PROVE  /\ s.ir \in Nat /\ s.regs \in [File -> Cell] /\ s.in \in Seq(Number \cup {None})
           /\ s.out \in Seq(Number) /\ s.res \in Errors \cup {Ok}
           /\ s = [ir |-> s.ir, regs |-> s.regs, in |-> s.in, out |-> s.out, res |-> s.res]
           /\ 0 \in File /\ s.regs[0] \in Cell /\ (s.regs[0] # Uninit => s.regs[0] \in Number)
BY FileIs DEF States, Cell

\* A register that is found is one that a memory may reach.
LEMMA PlaceIsReached ==
    ASSUME NEW r, NEW reg, reg.n \in Usize, PlaceError(r, reg) = Ok
    PROVE  Place(r, reg) \in File
BY FileIs DEF PlaceError, Place, BeyondError, Ok

\* An operand that is fetched without an error is a number.
LEMMA FetchedIsNumber ==
    ASSUME NEW r \in [File -> Cell], NEW v, FetchError(r, v) = Ok,
           IF v.mode = "const" THEN v.n \in Number ELSE v.n \in Usize
    PROVE  /\ Fetched(r, v) \in Number
           /\ v.mode # "const" => Place(r, v) \in File
<1>1. CASE v.mode = "const"
  BY <1>1 DEF Fetched
<1>2. CASE v.mode # "const"
  <2>1. PlaceError(r, v) = Ok /\ r[Place(r, v)] # Uninit
    BY <1>2 DEF FetchError, GetError, Ok
  <2>2. Place(r, v) \in File
    BY <1>2, <2>1, PlaceIsReached
  <2> QED BY <1>2, <2>1, <2>2 DEF Fetched, Cell
<1> QED BY <1>1, <1>2

\* The cases, one by one.
LEMMA CasesOfInstruction ==
    ASSUME NEW i, NEW s
    PROVE  LET r == s.regs
               at == Place(r, i)
           IN  /\ i.op = "READ" =>
                      /\ Trouble(i, s) = IF s.in = << >> \/ Head(s.in) = None THEN "ReadEof" ELSE Ok
                      /\ RegistersAfter(i, s) = [r EXCEPT ![0] = Head(s.in)]
               /\ i.op \in {"WRITE"} \cup ConditionalJumps =>
                      Trouble(i, s) = AccError(r) /\ RegistersAfter(i, s) = r
               /\ i.op = "LOAD" => /\ Trouble(i, s) = FetchError(r, i)
                                   /\ RegistersAfter(i, s) = [r EXCEPT ![0] = Fetched(r, i)]
               /\ i.op = "STORE" => /\ Trouble(i, s) = StoreError(r, i)
                                    /\ RegistersAfter(i, s) = [r EXCEPT ![at] = r[0]]
               /\ i.op \in UnaryOps =>
                      /\ Trouble(i, s) = UnopError(r, i)
                      /\ RegistersAfter(i, s) = [r EXCEPT ![at] = Exact(i.op, r[at], 1)]
               /\ i.op \in BinaryOps =>
                      /\ Trouble(i, s) = BinopError(r, i)
                      /\ RegistersAfter(i, s) = [r EXCEPT ![0] = Exact(i.op, r[0], Fetched(r, i))]
               /\ i.op \in {"STOP", "NOP", "JUMP"} => Trouble(i, s) = Ok /\ RegistersAfter(i, s) = r
<1> USE DEF UnaryOps, BinaryOps, ConditionalJumps
<1>1. CASE i.op = "READ"
  BY <1>1 DEF Trouble, RegistersAfter
<1>2. CASE i.op \in {"WRITE", "JUMZ", "JUML", "JUMG"}
  BY <1>2 DEF Trouble, RegistersAfter
<1>3. CASE i.op = "LOAD"
  BY <1>3 DEF Trouble, RegistersAfter
<1>4. CASE i.op = "STORE"
  BY <1>4 DEF Trouble, RegistersAfter
<1>5. CASE i.op \in {"INC", "DEC"}
  BY <1>5 DEF Trouble, RegistersAfter
<1>6. CASE i.op \in {"ADD", "SUB", "MUL", "DIV", "MOD"}
  BY <1>6 DEF Trouble, RegistersAfter
<1>7. CASE i.op \in {"STOP", "NOP", "JUMP"}
  BY <1>7 DEF Trouble, RegistersAfter
<1> QED BY <1>1, <1>2, <1>3, <1>4, <1>5, <1>6, <1>7

\* What an instruction does is of the right types.
LEMMA EffectIsState ==
    ASSUME NEW i \in Instruction, NEW s \in States
    PROVE  /\ Trouble(i, s) \in Errors \cup {Ok}
           /\ InputAfter(i, s) \in Seq(Number \cup {None})
           /\ Trouble(i, s) = Ok => /\ RegistersAfter(i, s) \in [File -> Cell]
                                    /\ OutputAfter(i, s) \in Seq(Number)
<1> DEFINE r == s.regs
           ops == {"READ", "WRITE", "STOP", "NOP"} \cup JumpOps \cup {"LOAD", "STORE"}
                      \cup UnaryOps \cup BinaryOps
<1>0. /\ r \in [File -> Cell] /\ s.in \in Seq(Number \cup {None}) /\ s.out \in Seq(Number)
      /\ 0 \in File /\ Number \subseteq Cell
  BY StateIs DEF Cell
<1>1. /\ AccError(r) \in Errors \cup {Ok} /\ (AccError(r) = Ok => r[0] \in Number)
      /\ PlaceError(r, i) \in Errors \cup {Ok} /\ FetchError(r, i) \in Errors \cup {Ok}
      /\ GetError(r, i) \in Errors \cup {Ok}
  BY <1>0 DEF AccError, PlaceError, FetchError, GetError, BeyondError, Errors, Ok, Cell
<1>2. /\ StoreError(r, i) \in Errors \cup {Ok} /\ UnopError(r, i) \in Errors \cup {Ok}
      /\ BinopError(r, i) \in Errors \cup {Ok} /\ "ReadEof" \in Errors
  BY <1>1 DEF StoreError, UnopError, BinopError, Errors, Ok
<1>3. i.op \in ops
  BY DEF Instruction, Value, Register, Address
<1> HIDE DEF r
<1>4. Trouble(i, s) \in Errors \cup {Ok}
  <2>1. Trouble(i, s) \in {"ReadEof", Ok, AccError(r), FetchError(r, i), StoreError(r, i),
                           UnopError(r, i), BinopError(r, i)}
    BY <1>3, CasesOfInstruction DEF r, JumpOps
  <2> QED BY <1>1, <1>2, <2>1
<1>5. i.op = "READ" /\ Trouble(i, s) = Ok => s.in # << >> /\ Head(s.in) \in Number
  BY <1>0, CasesOfInstruction DEF Ok
<1>6. InputAfter(i, s) \in Seq(Number \cup {None})
  BY <1>0, <1>5 DEF InputAfter
<1>7. ASSUME Trouble(i, s) = Ok
      PROVE  OutputAfter(i, s) \in Seq(Number)
  <2>1. i.op = "WRITE" => r[0] \in Number
    BY <1>1, <1>7, CasesOfInstruction DEF r
  <2> QED BY <1>0, <2>1 DEF OutputAfter, r
<1>8. ASSUME Trouble(i, s) = Ok
      PROVE  RegistersAfter(i, s) \in [File -> Cell]
  <2>1. CASE i.op = "READ"
    BY <1>0, <1>5, <1>8, <2>1, CasesOfInstruction DEF r
  <2>2. CASE i.op \in {"WRITE", "STOP", "NOP"} \cup JumpOps
    BY <1>0, <2>2, CasesOfInstruction DEF r, JumpOps
  <2>3. CASE i.op = "LOAD"
    <3>1. FetchError(r, i) = Ok /\ RegistersAfter(i, s) = [r EXCEPT ![0] = Fetched(r, i)]
      BY <1>8, <2>3, CasesOfInstruction DEF r
    <3>2. Fetched(r, i) \in Number
      BY <1>0, <2>3, <3>1, InstructionShape, FetchedIsNumber
    <3> QED BY <1>0, <3>1, <3>2
  <2>4. CASE i.op = "STORE"
    <3>1. /\ AccError(r) = Ok /\ PlaceError(r, i) = Ok
          /\ RegistersAfter(i, s) = [r EXCEPT ![Place(r, i)] = r[0]]
      BY <1>8, <2>4, CasesOfInstruction DEF r, StoreError
    <3>2. Place(r, i) \in File
      BY <2>4, <3>1, InstructionShape, PlaceIsReached
    <3> QED BY <1>0, <3>1, <3>2
  <2>5. CASE i.op \in UnaryOps
    <3>1. /\ UnopError(r, i) = Ok
          /\ RegistersAfter(i, s) = [r EXCEPT ![Place(r, i)] = Exact(i.op, r[Place(r, i)], 1)]
      BY <1>8, <2>5, CasesOfInstruction DEF r
    <3>2. GetError(r, i) = Ok /\ Checked(i.op, r[Place(r, i)], 1) # {}
      BY <3>1 DEF UnopError, Ok
    <3>3. Place(r, i) \in File
      <4>1. PlaceError(r, i) = Ok
        BY <3>2 DEF GetError
      <4> QED BY <2>5, <4>1, InstructionShape, PlaceIsReached
    <3>4. Exact(i.op, r[Place(r, i)], 1) \in Number
      BY <3>2 DEF Checked
    <3> QED BY <1>0, <3>1, <3>3, <3>4
  <2>6. CASE i.op \in BinaryOps
    <3>1. /\ BinopError(r, i) = Ok
          /\ RegistersAfter(i, s) = [r EXCEPT ![0] = Exact(i.op, r[0], Fetched(r, i))]
      BY <1>8, <2>6, CasesOfInstruction DEF r
    <3>2. Checked(i.op, r[0], Fetched(r, i)) # {}
      BY <3>1 DEF BinopError, Ok
    <3>3. Exact(i.op, r[0], Fetched(r, i)) \in Number
      BY <3>2 DEF Checked
    <3> QED BY <1>0, <3>1, <3>3
  <2> QED BY <1>3, <2>1, <2>2, <2>3, <2>4, <2>5, <2>6
<1> QED BY <1>4, <1>6, <1>7, <1>8

\* A step leads from states to states.
LEMMA AfterIsState ==
    ASSUME NEW prog \in Seq(Instruction), NEW s \in States
    PROVE  After(prog, s) \in States
<1> DEFINE i == At(prog, s.ir)
<1>1. CASE ~Live(prog, s)
  BY <1>1, AfterIs
<1>2. CASE Live(prog, s)
  <2>0. s.ir \in Nat /\ Exists(prog, s.ir)
    BY <1>2, StateIs DEF Live
  <2>1. i \in Instruction
    BY <2>0 DEF At, Exists
  <2>2. /\ Trouble(i, s) \in Errors \cup {Ok}
        /\ InputAfter(i, s) \in Seq(Number \cup {None})
        /\ Trouble(i, s) = Ok => /\ RegistersAfter(i, s) \in [File -> Cell]
                                 /\ OutputAfter(i, s) \in Seq(Number)
    BY <2>1, EffectIsState
  <2>3. i.op \in JumpOps => i.n \in Nat
    BY <2>1, InstructionShape, WidthAssumption DEF Usize
  <2>4. Goal(i, s) \in Nat
    BY <2>0, <2>3 DEF Goal, Leaps, JumpOps
  <2>5. Missing(i, s) \in Errors
    BY DEF Missing, Errors
  <2> HIDE DEF i
  <2>6. Refused(i, s) \in States
    <3>1. LeftBy(Trouble(i, s), s.regs) \in [File -> Cell]
      BY StateIs DEF LeftBy, Cell
    <3> QED BY <2>2, <3>1, StateIs DEF Refused, States
  <2>7. Trouble(i, s) = Ok => Landed(prog, Goal(i, s), Missing(i, s), Effect(i, s)) \in States
    BY <2>2, <2>4, <2>5 DEF Landed, Effect, States
  <2>8. After(prog, s) \in {Refused(i, s), Landed(prog, Goal(i, s), Missing(i, s), Effect(i, s))}
        /\ (Trouble(i, s) # Ok => After(prog, s) = Refused(i, s))
    BY <1>2, AfterIs DEF i
  <2> QED BY <2>6, <2>7, <2>8
<1> QED BY <1>1, <1>2

-----------------------------------------------------------------------------
(***************************************************************************)
(* One program does what another does.                                     *)
(***************************************************************************)
Closed(prog, S) == \A s \in S : After(prog, s) \in S

\* An execution of prog from s comes to t: t is in every set that the execution never leaves.
LeadsTo(prog, s, t) == \A S : s \in S /\ Closed(prog, S) => t \in S

\* The program ends in e, and not in an error that an optimizer may lose.
Excused == {"ReadUninit", "IntegerOverfow"}
EndsWell(prog, e) ==
    /\ e.res \notin Excused
    /\ e.res = Ok => Exists(prog, e.ir) /\ At(prog, e.ir).op = "STOP"

\* The same output and the same end, but that one program may jump off its end where the
\* other one runs off it.
OffTheEnd == {"Eof", "InexistentJump"}
Alike(e, f) == e.out = f.out /\ (e.res = f.res \/ {e.res, f.res} \subseteq OffTheEnd)

\* On every input on which prog ends well, opt ends alike.
Preserves(prog, opt) ==
    \A x \in Seq(Number \cup {None}) : \A e :
        LeadsTo(prog, Begin(x), e) /\ EndsWell(prog, e) =>
            \E f : LeadsTo(opt, Begin(x), f) /\ EndsWell(opt, f) /\ Alike(e, f)

\* A program does what it does.
LEMMA PreservesIsReflexive ==
    ASSUME NEW prog
    PROVE  Preserves(prog, prog)
BY DEF Preserves, Alike

\* Passes that preserve a program one after the other preserve it together.
LEMMA PreservesIsTransitive ==
    ASSUME NEW a, NEW b, NEW c, Preserves(a, b), Preserves(b, c)
    PROVE  Preserves(a, c)
<1> SUFFICES ASSUME NEW x \in Seq(Number \cup {None}), NEW e,
                    LeadsTo(a, Begin(x), e), EndsWell(a, e)
             PROVE  \E g : LeadsTo(c, Begin(x), g) /\ EndsWell(c, g) /\ Alike(e, g)
  BY DEF Preserves
<1>1. PICK f : LeadsTo(b, Begin(x), f) /\ EndsWell(b, f) /\ Alike(e, f)
  BY DEF Preserves
<1>2. PICK g : LeadsTo(c, Begin(x), g) /\ EndsWell(c, g) /\ Alike(f, g)
  BY <1>1 DEF Preserves
<1>3. Alike(e, g)
  BY <1>1, <1>2 DEF Alike
<1> QED BY <1>2, <1>3

\* An execution goes on by a step.
LEMMA LeadsToNext ==
    ASSUME NEW prog, NEW s, NEW t, LeadsTo(prog, s, t)
    PROVE  LeadsTo(prog, s, After(prog, t))
BY DEF LeadsTo, Closed

\* An execution may take no step.
LEMMA LeadsToItself ==
    ASSUME NEW prog, NEW s
    PROVE  LeadsTo(prog, s, s)
BY DEF LeadsTo

\* An execution begins in a state.
LEMMA BeginIsState ==
    ASSUME NEW x \in Seq(Number \cup {None})
    PROVE  Begin(x) \in States
BY DEF Begin, States, Cell, Ok

\* Executions stay in the states.
LEMMA StatesAreClosed ==
    ASSUME NEW prog \in Seq(Instruction)
    PROVE  /\ Closed(prog, States)
           /\ \A s \in States : \A t : LeadsTo(prog, s, t) => t \in States
BY AfterIsState DEF Closed, LeadsTo

\* A program that ends well stays there.
LEMMA EndStays ==
    ASSUME NEW prog, NEW e, EndsWell(prog, e)
    PROVE  After(prog, e) = e
BY AfterIs DEF EndsWell, Live

\* What is reached before such an end leads to it.
LEMMA LeadsToTheEnd ==
    ASSUME NEW prog \in Seq(Instruction), NEW s \in States, NEW e, NEW t,
           LeadsTo(prog, s, e), After(prog, e) = e, LeadsTo(prog, s, t)
    PROVE  LeadsTo(prog, t, e)
<1> DEFINE S == { u \in States : LeadsTo(prog, u, e) }
<1>1. ASSUME NEW u \in S
      PROVE  After(prog, u) \in S
  <2>1. After(prog, u) \in States /\ LeadsTo(prog, u, e)
    BY AfterIsState
  <2>2. ASSUME NEW T, After(prog, u) \in T, Closed(prog, T)
        PROVE  e \in T
    <3>1. u \in T \cup {u} /\ Closed(prog, T \cup {u})
      BY <2>2 DEF Closed
    <3>2. e \in T \cup {u}
      BY <2>1, <3>1 DEF LeadsTo
    <3> QED BY <2>2, <3>2
  <2>3. LeadsTo(prog, After(prog, u), e)
    BY <2>2 DEF LeadsTo
  <2> QED BY <2>1, <2>3
<1>2. s \in S /\ Closed(prog, S)
  BY <1>1 DEF Closed
<1>3. t \in S
  BY <1>2 DEF LeadsTo
<1> QED BY <1>3

\* What was printed stays printed.
Starts(out, more) == Len(out) <= Len(more) /\ \A k \in 1..Len(out) : out[k] = more[k]

\* Append adds one element behind the others.
LEMMA AppendIs ==
    ASSUME NEW T, NEW s \in Seq(T), NEW n
    PROVE  /\ Len(Append(s, n)) = Len(s) + 1
           /\ \A k \in 1..Len(s) : Append(s, n)[k] = s[k]
OBVIOUS

\* It does when more is printed.
LEMMA StartsAppended ==
    ASSUME NEW S, NEW T, NEW out \in Seq(S), NEW more \in Seq(T), Starts(out, more), NEW n
    PROVE  Starts(out, Append(more, n))
<1>1. Len(out) \in Nat /\ Len(more) \in Nat /\ Len(out) <= Len(more)
  BY DEF Starts
<1>2. Len(Append(more, n)) = Len(more) + 1 /\ \A k \in 1..Len(more) : Append(more, n)[k] = more[k]
  BY AppendIs
<1>3. ASSUME NEW k \in 1..Len(out)
      PROVE  Append(more, n)[k] = out[k]
  <2>1. k \in 1..Len(more)
    BY <1>1
  <2> QED BY <1>2, <2>1 DEF Starts
<1> QED BY <1>1, <1>2, <1>3 DEF Starts

\* No step takes back what was printed.
LEMMA OutputOnlyGrows ==
    ASSUME NEW prog \in Seq(Instruction), NEW s \in States, NEW t, LeadsTo(prog, s, t)
    PROVE  Starts(s.out, t.out)
<1> DEFINE S == { u \in States : Starts(s.out, u.out) }
<1>1. ASSUME NEW u \in S
      PROVE  After(prog, u) \in S
  <2> DEFINE i == At(prog, u.ir)
  <2>1. u.out \in Seq(Number) /\ s.out \in Seq(Number) /\ Starts(s.out, u.out)
    BY StateIs
  <2>2. After(prog, u).out \in {u.out, Append(u.out, u.regs[0])}
    <3>1. CASE ~Live(prog, u)
      BY <3>1, AfterIs
    <3>2. CASE Live(prog, u)
      <4>1. After(prog, u) \in {Refused(i, u), Landed(prog, Goal(i, u), Missing(i, u), Effect(i, u))}
        BY <3>2, AfterIs
      <4>2. Refused(i, u).out = u.out
        BY DEF Refused
      <4>3. Landed(prog, Goal(i, u), Missing(i, u), Effect(i, u)).out = OutputAfter(i, u)
        BY DEF Landed, Effect
      <4> QED BY <4>1, <4>2, <4>3 DEF OutputAfter
    <3> QED BY <3>1, <3>2
  <2>3. Starts(s.out, After(prog, u).out)
    <3>1. CASE After(prog, u).out = u.out
      BY <2>1, <3>1
    <3>2. CASE After(prog, u).out = Append(u.out, u.regs[0])
      BY <2>1, <3>2, StartsAppended
    <3> QED BY <2>2, <3>1, <3>2
  <2> QED BY <2>3, AfterIsState
<1>2. s \in S
  BY StateIs DEF Starts
<1>3. t \in S
  BY <1>1, <1>2 DEF LeadsTo, Closed
<1> QED BY <1>3

\* If opt ends as prog does, then whatever opt comes to is on its way to that end.
LEMMA OnTheWay ==
    ASSUME NEW prog, NEW opt \in Seq(Instruction), Preserves(prog, opt),
           NEW x \in Seq(Number \cup {None}),
           NEW e, LeadsTo(prog, Begin(x), e), EndsWell(prog, e),
           NEW t, LeadsTo(opt, Begin(x), t)
    PROVE  /\ Starts(t.out, e.out)
           /\ ~Live(opt, t) => EndsWell(opt, t) /\ Alike(e, t)
<1>1. PICK f : LeadsTo(opt, Begin(x), f) /\ EndsWell(opt, f) /\ Alike(e, f)
  BY DEF Preserves
<1>2. LeadsTo(opt, t, f) /\ t \in States
  BY <1>1, BeginIsState, EndStays, LeadsToTheEnd, StatesAreClosed
<1>3. Starts(t.out, f.out)
  BY <1>2, OutputOnlyGrows
<1>4. ~Live(opt, t) => f = t
  <2>1. ~Live(opt, t) => Closed(opt, {t})
    BY AfterIs DEF Closed
  <2> QED BY <1>2, <2>1 DEF LeadsTo
<1> QED BY <1>1, <1>3, <1>4 DEF Alike

\* A simulation: R relates states of prog and of opt; where prog makes a step, opt makes one
\* or none and the new states are related again.
Simulates(prog, opt, R) ==
    /\ R \subseteq States \X States
    /\ \A x \in Seq(Number \cup {None}) : <<Begin(x), Begin(x)>> \in R
    /\ \A s, t \in States : <<s, t>> \in R =>
           /\ Live(prog, s) => \/ After(prog, s).res \in Excused
                               \/ <<After(prog, s), t>> \in R
                               \/ <<After(prog, s), After(opt, t)>> \in R
           /\ EndsWell(prog, s) => EndsWell(opt, t) /\ Alike(s, t)

\* A simulation shows that a program is preserved: an execution that ends well is followed by
\* one of the other program, step by step, which has then printed the same and ended alike;
\* what it prints in the meantime, the first has printed too.
LEMMA SimulationPreserves ==
    ASSUME NEW prog \in Seq(Instruction), NEW opt \in Seq(Instruction), NEW R,
           Simulates(prog, opt, R)
    PROVE  Preserves(prog, opt)
<1> SUFFICES ASSUME NEW x \in Seq(Number \cup {None}), NEW e,
                    LeadsTo(prog, Begin(x), e), EndsWell(prog, e)
             PROVE  \E f : LeadsTo(opt, Begin(x), f) /\ EndsWell(opt, f) /\ Alike(e, f)
  BY DEF Preserves
<1> DEFINE S == { s \in States : s.res \in Excused \/
                      \E t \in States : LeadsTo(opt, Begin(x), t) /\ <<s, t>> \in R }
<1>1. Begin(x) \in S
  BY BeginIsState, LeadsToItself DEF Simulates
<1>2. ASSUME NEW s \in S
      PROVE  After(prog, s) \in S
  <2>1. After(prog, s) \in States
    BY AfterIsState
  <2>2. CASE ~Live(prog, s)
    BY <2>2, AfterIs
  <2>3. CASE Live(prog, s)
    <3>1. s.res \notin Excused
      BY <2>3 DEF Live, Excused, Ok
    <3>2. PICK t \in States : LeadsTo(opt, Begin(x), t) /\ <<s, t>> \in R
      BY <3>1
    <3>3. LeadsTo(opt, Begin(x), After(opt, t)) /\ After(opt, t) \in States
      BY <3>2, LeadsToNext, AfterIsState
    <3>4. \/ After(prog, s).res \in Excused
          \/ <<After(prog, s), t>> \in R
          \/ <<After(prog, s), After(opt, t)>> \in R
      BY <2>3, <3>2 DEF Simulates
    <3> QED BY <2>1, <3>2, <3>3, <3>4
  <2> QED BY <2>2, <2>3
<1>3. e \in S
  BY <1>1, <1>2 DEF LeadsTo, Closed
<1>4. PICK t \in States : LeadsTo(opt, Begin(x), t) /\ <<e, t>> \in R
  BY <1>3 DEF EndsWell
<1>5. EndsWell(opt, t) /\ Alike(e, t)
  BY <1>3, <1>4 DEF Simulates
<1> QED BY <1>4, <1>5

-----------------------------------------------------------------------------
(***************************************************************************)
(* Steps of two programs that have come to the same registers.             *)
(***************************************************************************)
Beside(s, t) ==
    s.res = Ok /\ t.res = Ok /\ s.regs = t.regs /\ s.in = t.in /\ s.out = t.out

\* Both have ended, or only the second has, off its end.
Over(s, t) == s.res # Ok /\ t.res # Ok /\ Alike(s, t)
Behind(s, t) == s.res = Ok /\ t.res \in OffTheEnd /\ s.out = t.out

\* The same instruction, or the same jump to another target.
SameButTarget(i, j) == j.op = i.op /\ (i.op \in JumpOps \/ j = i)

\* s has gone on at a, t at b.
Arrive(prog, opt, s, t, a, b) ==
    /\ Exists(prog, a) /\ Exists(opt, b) => Beside(s, t) /\ s.ir = a /\ t.ir = b
    /\ Exists(prog, a) /\ ~Exists(opt, b) => Behind(s, t) /\ s.ir = a
    /\ ~Exists(prog, a) /\ ~Exists(opt, b) => Over(s, t)

\* Instructions that differ in a jump target at most have the same effect and the same errors.
LEMMA SameEffect ==
    ASSUME NEW i, NEW j, NEW s, NEW t, SameButTarget(i, j), Beside(s, t)
    PROVE  /\ Trouble(j, t) = Trouble(i, s)
           /\ Leaps(j, t) <=> Leaps(i, s)
           /\ Effect(j, t) = Effect(i, s)
           /\ Trouble(i, s) # Ok => Refused(j, t) = Refused(i, s)
<1>0. j.op = i.op /\ s.regs = t.regs /\ s.in = t.in /\ s.out = t.out
  BY DEF SameButTarget, Beside
<1>1. Trouble(j, t) = Trouble(i, s) /\ RegistersAfter(j, t) = RegistersAfter(i, s)
  <2>1. CASE j = i
    BY <1>0, <2>1 DEF Trouble, RegistersAfter
  <2>2. CASE i.op \in JumpOps
    BY <1>0, <2>2, CasesOfInstruction DEF JumpOps
  <2> QED BY <2>1, <2>2 DEF SameButTarget
<1>2. Leaps(j, t) <=> Leaps(i, s)
  BY <1>0 DEF Leaps
<1>3. InputAfter(j, t) = InputAfter(i, s) /\ OutputAfter(j, t) = OutputAfter(i, s)
  BY <1>0, <1>1 DEF InputAfter, OutputAfter
<1> QED BY <1>0, <1>1, <1>2, <1>3 DEF Effect, Refused

\* After the same effect both programs arrive at their addresses, or at errors that are alike.
LEMMA LandedArrive ==
    ASSUME NEW prog, NEW opt, NEW a, NEW b, NEW bad \in OffTheEnd, NEW e
    PROVE  Arrive(prog, opt, Landed(prog, a, bad, e), Landed(opt, b, bad, e), a, b)
BY DEF Arrive, Landed, Beside, Over, Behind, Alike, OffTheEnd, Ok

\* The same instruction fails in both, or goes on in both.
LEMMA StepsBeside ==
    ASSUME NEW prog, NEW opt, NEW s, NEW t, Beside(s, t), Live(prog, s), Live(opt, t),
           SameButTarget(At(prog, s.ir), At(opt, t.ir))
    PROVE  LET i == At(prog, s.ir)
               j == At(opt, t.ir)
           IN  \/ Over(After(prog, s), After(opt, t))
               \/ i.op \in JumpOps /\ Arrive(prog, opt, After(prog, s), After(opt, t), i.n, j.n)
               \/ /\ i.op \notin {"STOP", "JUMP"}
                  /\ Arrive(prog, opt, After(prog, s), After(opt, t), s.ir + 1, t.ir + 1)
<1> DEFINE i == At(prog, s.ir)
           j == At(opt, t.ir)
<1>1. /\ Trouble(j, t) = Trouble(i, s) /\ (Leaps(j, t) <=> Leaps(i, s))
      /\ Effect(j, t) = Effect(i, s)
      /\ Trouble(i, s) # Ok => Refused(j, t) = Refused(i, s)
  BY SameEffect
<1>2. CASE Trouble(i, s) # Ok
  <2>1. After(prog, s) = Refused(i, s) /\ After(opt, t) = Refused(i, s)
    BY <1>1, <1>2, AfterIs
  <2> QED BY <1>2, <2>1 DEF Over, Alike, Refused
<1>3. CASE Trouble(i, s) = Ok
  <2>1. /\ After(prog, s) = Landed(prog, Goal(i, s), Missing(i, s), Effect(i, s))
        /\ After(opt, t) = Landed(opt, Goal(j, t), Missing(i, s), Effect(i, s))
    BY <1>1, <1>3, AfterIs DEF Missing
  <2>2. Missing(i, s) \in OffTheEnd
    BY DEF Missing, OffTheEnd
  <2>3. Arrive(prog, opt, After(prog, s), After(opt, t), Goal(i, s), Goal(j, t))
    BY <2>1, <2>2, LandedArrive
  <2>4. CASE Leaps(i, s)
    <3>1. Goal(i, s) = i.n /\ Goal(j, t) = j.n /\ i.op \in JumpOps
      BY <1>1, <2>4 DEF Goal, Leaps, JumpOps
    <3> QED BY <2>3, <3>1
  <2>5. CASE ~Leaps(i, s)
    <3>1. Goal(i, s) = s.ir + 1 /\ Goal(j, t) = t.ir + 1 /\ i.op \notin {"STOP", "JUMP"}
      BY <1>1, <2>5 DEF Goal, Leaps, Live
    <3> QED BY <2>3, <3>1
  <2> QED BY <2>4, <2>5
<1> QED BY <1>2, <1>3

\* NOP, and the arithmetic of the accumulator with a constant.
Computed(s, n) == [regs |-> [s.regs EXCEPT ![0] = n], in |-> s.in, out |-> s.out]

ConstOps == {"ADD", "SUB", "MUL", "DIV"}

\* A NOP leads to the next instruction.
LEMMA AfterNop ==
    ASSUME NEW prog, NEW s, Live(prog, s), At(prog, s.ir).op = "NOP"
    PROVE  After(prog, s) =
               Landed(prog, s.ir + 1, "Eof", [regs |-> s.regs, in |-> s.in, out |-> s.out])
<1> DEFINE i == At(prog, s.ir)
<1>1. Trouble(i, s) = Ok /\ RegistersAfter(i, s) = s.regs
  BY CasesOfInstruction
<1>2. ~Leaps(i, s) /\ InputAfter(i, s) = s.in /\ OutputAfter(i, s) = s.out
  BY DEF Leaps, InputAfter, OutputAfter, ConditionalJumps
<1> QED BY <1>1, <1>2, AfterIs DEF Goal, Missing, Effect

\* An arithmetic instruction with a constant computes, or makes an excused error.
LEMMA AfterConst ==
    ASSUME NEW prog, NEW s \in States, Live(prog, s), At(prog, s.ir).mode = "const",
           At(prog, s.ir).op \in ConstOps
    PROVE  LET i == At(prog, s.ir)
               acc == s.regs[0]
           IN  IF acc = Uninit \/ Checked(i.op, acc, i.n) = {}
               THEN After(prog, s).res \in Excused
               ELSE /\ acc \in Number /\ Exact(i.op, acc, i.n) \in Number
                    /\ After(prog, s) =
                           Landed(prog, s.ir + 1, "Eof", Computed(s, Exact(i.op, acc, i.n)))
<1> DEFINE i == At(prog, s.ir)
           acc == s.regs[0]
<1>0. i.op \in BinaryOps /\ i.op \notin {"READ", "WRITE", "JUMP"} \cup ConditionalJumps
  BY DEF ConstOps, BinaryOps, ConditionalJumps
<1>1. /\ Trouble(i, s) = BinopError(s.regs, i)
      /\ RegistersAfter(i, s) = [s.regs EXCEPT ![0] = Exact(i.op, acc, i.n)]
  BY <1>0, CasesOfInstruction DEF Fetched
<1>2. ~Leaps(i, s) /\ InputAfter(i, s) = s.in /\ OutputAfter(i, s) = s.out
  BY <1>0 DEF Leaps, InputAfter, OutputAfter
<1>3. BinopError(s.regs, i) =
          IF acc = Uninit THEN "ReadUninit"
          ELSE IF Checked(i.op, acc, i.n) = {} THEN "IntegerOverfow" ELSE Ok
  BY DEF BinopError, AccError, FetchError, Fetched, Ok
<1>4. CASE acc = Uninit \/ Checked(i.op, acc, i.n) = {}
  <2>1. Trouble(i, s) \in Excused /\ Trouble(i, s) # Ok
    BY <1>1, <1>3, <1>4 DEF Excused, Ok
  <2>2. After(prog, s).res = Trouble(i, s)
    BY <2>1, AfterIs DEF Refused
  <2> QED BY <1>4, <2>1, <2>2
<1>5. CASE acc # Uninit /\ Checked(i.op, acc, i.n) # {}
  <2>1. Trouble(i, s) = Ok
    BY <1>1, <1>3, <1>5
  <2>2. Effect(i, s) = Computed(s, Exact(i.op, acc, i.n))
    BY <1>1, <1>2 DEF Effect, Computed
  <2>3. acc \in Number
    BY <1>5, StateIs
  <2>4. Exact(i.op, acc, i.n) \in Number
    BY <1>5 DEF Checked
  <2>5. After(prog, s) = Landed(prog, s.ir + 1, "Eof", Effect(i, s))
    BY <1>2, <2>1, AfterIs DEF Goal, Missing
  <2> QED BY <1>5, <2>2, <2>3, <2>4, <2>5
<1> QED BY <1>4, <1>5

\* LOAD of a constant.
LEMMA AfterLoadConst ==
    ASSUME NEW prog, NEW s, Live(prog, s), At(prog, s.ir).mode = "const",
           At(prog, s.ir).op = "LOAD"
    PROVE  After(prog, s) = Landed(prog, s.ir + 1, "Eof", Computed(s, At(prog, s.ir).n))
<1> DEFINE i == At(prog, s.ir)
<1>1. Trouble(i, s) = Ok /\ RegistersAfter(i, s) = [s.regs EXCEPT ![0] = i.n]
  BY CasesOfInstruction DEF FetchError, Fetched
<1>2. ~Leaps(i, s) /\ InputAfter(i, s) = s.in /\ OutputAfter(i, s) = s.out
  BY DEF Leaps, InputAfter, OutputAfter, ConditionalJumps
<1> QED BY <1>1, <1>2, AfterIs DEF Goal, Missing, Effect, Computed

\* JUMP.
LEMMA AfterJump ==
    ASSUME NEW prog, NEW s, Live(prog, s), At(prog, s.ir).op = "JUMP"
    PROVE  After(prog, s) = Landed(prog, At(prog, s.ir).n, "InexistentJump",
                                   [regs |-> s.regs, in |-> s.in, out |-> s.out])
<1> DEFINE i == At(prog, s.ir)
<1>1. Trouble(i, s) = Ok /\ RegistersAfter(i, s) = s.regs
  BY CasesOfInstruction
<1>2. Leaps(i, s) /\ InputAfter(i, s) = s.in /\ OutputAfter(i, s) = s.out
  BY DEF Leaps, InputAfter, OutputAfter
<1> QED BY <1>1, <1>2, AfterIs DEF Goal, Missing, Effect

\* What has ended in both has ended alike.
LEMMA OverEndsWell ==
    ASSUME NEW prog, NEW opt, NEW s, NEW t, Over(s, t), EndsWell(prog, s)
    PROVE  EndsWell(opt, t) /\ Alike(s, t)
BY DEF Over, EndsWell, Alike, OffTheEnd, Excused

-----------------------------------------------------------------------------
(***************************************************************************)
(* Jumps that lead at once to where unconditional jumps led them.          *)
(***************************************************************************)

\* <<a, f>> is in E where unconditional jumps lead from a to f.
Shortcuts(prog, opt, E) ==
    /\ Len(opt) = Len(prog)
    /\ \A a, f : <<a, f>> \in E =>
           /\ a \in Nat /\ Exists(prog, a) /\ At(prog, a).op = "JUMP"
           /\ At(prog, a).n = f \/ <<At(prog, a).n, f>> \in E
    /\ \A i \in Nat : Exists(prog, i) =>
           /\ SameButTarget(At(prog, i), At(opt, i))
           /\ At(opt, i) = At(prog, i) \/ <<At(prog, i).n, At(opt, i).n>> \in E

Shortened(prog, E, s, t) ==
    \/ Over(s, t)
    \/ Beside(s, t) /\ s.ir = t.ir
    \/ Beside(s, t) /\ <<s.ir, t.ir>> \in E /\ Exists(prog, t.ir)
    \/ Behind(s, t) /\ \E f : <<s.ir, f>> \in E /\ ~Exists(prog, f)

\* A step of the program is followed by a step of the one with the shorter jumps, or by none:
\* then it is a jump on the way of a shortened one.
LEMMA ShortenedStep ==
    ASSUME NEW prog, NEW opt, NEW E, Shortcuts(prog, opt, E),
           NEW s \in States, NEW t \in States, Shortened(prog, E, s, t), Live(prog, s)
    PROVE  \/ Shortened(prog, E, After(prog, s), t)
           \/ Shortened(prog, E, After(prog, s), After(opt, t))
<1> DEFINE i == At(prog, s.ir)
           j == At(opt, t.ir)
           same == [regs |-> s.regs, in |-> s.in, out |-> s.out]
<1>0. s.ir \in Nat /\ s.res = Ok /\ Exists(prog, s.ir)
  BY StateIs DEF Live
<1>1. CASE Beside(s, t) /\ s.ir = t.ir
  <2>1. SameButTarget(i, j) /\ Exists(opt, t.ir) /\ (j = i \/ <<i.n, j.n>> \in E)
    BY <1>0, <1>1 DEF Shortcuts, Exists
  <2>2. Live(opt, t)
    BY <1>1, <2>1 DEF Live, Beside, SameButTarget
  <2>3. CASE Over(After(prog, s), After(opt, t))
    BY <2>3 DEF Shortened
  <2>4. CASE i.op \in JumpOps /\ Arrive(prog, opt, After(prog, s), After(opt, t), i.n, j.n)
    <3>1. Exists(opt, j.n) <=> Exists(prog, j.n)
      BY DEF Shortcuts, Exists
    <3>2. CASE j = i
      BY <2>4, <3>1, <3>2 DEF Arrive, Shortened
    <3>3. CASE <<i.n, j.n>> \in E
      <4>1. Exists(prog, i.n)
        BY <3>3 DEF Shortcuts
      <4> QED BY <2>4, <3>1, <3>3, <4>1 DEF Arrive, Shortened
    <3> QED BY <2>1, <3>2, <3>3
  <2>5. CASE Arrive(prog, opt, After(prog, s), After(opt, t), s.ir + 1, t.ir + 1)
    <3>1. Exists(opt, t.ir + 1) <=> Exists(prog, s.ir + 1)
      BY <1>1 DEF Shortcuts, Exists
    <3> QED BY <1>1, <2>5, <3>1 DEF Arrive, Shortened
  <2> QED BY <1>1, <2>1, <2>2, <2>3, <2>4, <2>5, StepsBeside
<1>2. CASE Beside(s, t) /\ <<s.ir, t.ir>> \in E /\ Exists(prog, t.ir)
  <2>1. i.op = "JUMP" /\ (i.n = t.ir \/ <<i.n, t.ir>> \in E)
    BY <1>2 DEF Shortcuts
  <2>2. Exists(prog, i.n)
    BY <1>2, <2>1 DEF Shortcuts
  <2>3. After(prog, s) = Landed(prog, i.n, "InexistentJump", same)
    BY <2>1, AfterJump
  <2>4. Beside(After(prog, s), t) /\ After(prog, s).ir = i.n
    BY <1>2, <2>2, <2>3 DEF Landed, Beside
  <2> QED BY <1>2, <2>1, <2>4 DEF Shortened
<1>3. CASE Behind(s, t) /\ \E f : <<s.ir, f>> \in E /\ ~Exists(prog, f)
  <2>1. PICK f : <<s.ir, f>> \in E /\ ~Exists(prog, f)
    BY <1>3
  <2>2. i.op = "JUMP" /\ (i.n = f \/ <<i.n, f>> \in E)
    BY <2>1 DEF Shortcuts
  <2>3. After(prog, s) = Landed(prog, i.n, "InexistentJump", same)
    BY <2>2, AfterJump
  <2>4. CASE i.n = f
    <3>1. Over(After(prog, s), t)
      BY <1>3, <2>1, <2>3, <2>4 DEF Landed, Behind, Over, Alike, OffTheEnd, Ok
    <3> QED BY <3>1 DEF Shortened
  <2>5. CASE <<i.n, f>> \in E
    <3>1. Exists(prog, i.n)
      BY <2>5 DEF Shortcuts
    <3>2. Behind(After(prog, s), t) /\ After(prog, s).ir = i.n
      BY <1>3, <2>3, <3>1 DEF Landed, Behind
    <3> QED BY <2>1, <2>5, <3>2 DEF Shortened
  <2> QED BY <2>2, <2>4, <2>5
<1> QED BY <1>0, <1>1, <1>2, <1>3 DEF Shortened, Over

\* A program whose jumps are shortened to where they lead does the same.
LEMMA ShortcutsPreserve ==
    ASSUME NEW prog \in Seq(Instruction), NEW opt \in Seq(Instruction), NEW E,
           Shortcuts(prog, opt, E)
    PROVE  Preserves(prog, opt)
<1> DEFINE R == { p \in States \X States : Shortened(prog, E, p[1], p[2]) }
<1>1. \A s, t \in States : <<s, t>> \in R <=> Shortened(prog, E, s, t)
  OBVIOUS
<1>2. \A x \in Seq(Number \cup {None}) : <<Begin(x), Begin(x)>> \in R
  <2> TAKE x \in Seq(Number \cup {None})
  <2>1. Shortened(prog, E, Begin(x), Begin(x))
    BY DEF Shortened, Beside, Begin
  <2> QED BY <1>1, <2>1, BeginIsState
<1>3. ASSUME NEW s \in States, NEW t \in States, <<s, t>> \in R, Live(prog, s)
      PROVE  <<After(prog, s), t>> \in R \/ <<After(prog, s), After(opt, t)>> \in R
  BY <1>1, <1>3, ShortenedStep, AfterIsState
<1>4. ASSUME NEW s \in States, NEW t \in States, <<s, t>> \in R, EndsWell(prog, s)
      PROVE  EndsWell(opt, t) /\ Alike(s, t)
  <2>0. s.ir \in Nat /\ Shortened(prog, E, s, t)
    BY <1>4, StateIs
  <2>1. CASE Over(s, t)
    BY <1>4, <2>1, OverEndsWell
  <2>2. CASE Beside(s, t) /\ s.ir = t.ir
    BY <1>4, <2>0, <2>2 DEF Beside, EndsWell, Shortcuts, SameButTarget, Alike, Exists
  <2>3. CASE s.res = Ok /\ \E f : <<s.ir, f>> \in E
    BY <1>4, <2>3 DEF EndsWell, Shortcuts
  <2> QED BY <2>0, <2>1, <2>2, <2>3 DEF Shortened, Beside, Behind
<1>5. Simulates(prog, opt, R)
  BY <1>2, <1>3, <1>4 DEF Simulates
<1> QED BY <1>5, SimulationPreserves

-----------------------------------------------------------------------------
(***************************************************************************)
(* Instructions that are deleted, or folded into one: gone are the irs that*)
(* are deleted, moved says where the others are in opt, L are irs that     *)
(* execution does not leave, and Q are runs of constant operations that    *)
(* amount to at most one.                                                  *)
(***************************************************************************)
InRun(q, i) == q.first <= i /\ i < q.end
Interior(q, i) == q.first < i /\ i < q.end

\* Where execution stays, and that no jump leads into a run.
Stays(prog, L, Q) ==
    /\ 0 \in L
    /\ \A i \in L : Exists(prog, i) =>
           /\ At(prog, i).op \notin {"STOP", "JUMP"} /\ Exists(prog, i + 1) => i + 1 \in L
           /\ At(prog, i).op \in JumpOps /\ Exists(prog, At(prog, i).n) =>
                  /\ At(prog, i).n \in L
                  /\ \A q \in Q : ~Interior(q, At(prog, i).n)

\* Where the instructions go.
Moves(prog, opt, gone, moved) ==
    /\ moved \in [Nat -> Nat] /\ moved[0] = 0
    /\ \A i \in Nat : moved[i + 1] = IF i \in gone THEN moved[i] ELSE moved[i] + 1
    /\ \A i \in Nat : Exists(prog, i) /\ i \notin gone => moved[i] < Len(opt)
    /\ \A i \in Nat : i >= Len(prog) => moved[i] >= Len(opt)

\* The constant operation or LOAD j makes b of the accumulator a.
Gives(j, a, b) ==
    /\ j.mode = "const"
    /\ \/ j.op = "LOAD" /\ j.n = b
       \/ j.op \in ConstOps /\ Checked(j.op, a, j.n) # {} /\ Exact(j.op, a, j.n) = b

\* <<a, b>> is in q.at[k] if the run may bring a to b before it comes to k; only its first
\* instruction may be left, and stands for all.
IsRun(prog, opt, gone, moved, q) ==
    /\ q.first \in Nat /\ q.end \in Nat /\ q.first < q.end /\ q.end <= Len(prog)
    /\ \A k \in Nat : Interior(q, k) => k \in gone
    /\ moved[q.end] = moved[q.first + 1]
    /\ \A k \in Nat : InRun(q, k) =>
           /\ At(prog, k).op \in ConstOps /\ At(prog, k).mode = "const"
           /\ \A a, b \in Number : <<a, b>> \in q.at[k] /\ Checked(At(prog, k).op, b, At(prog, k).n) # {} =>
                  <<a, Exact(At(prog, k).op, b, At(prog, k).n)>> \in q.at[k + 1]
    /\ \A a \in Number : <<a, a>> \in q.at[q.first]
    /\ \A a, b \in Number : <<a, b>> \in q.at[q.end] =>
           IF q.first \in gone THEN a = b ELSE Gives(At(opt, moved[q.first]), a, b)

\* What becomes of the instruction at i.
Handled(prog, opt, gone, moved, Q, i) ==
    \/ \E q \in Q : InRun(q, i)
    \/ i \in gone /\ At(prog, i).op = "NOP"
    \/ /\ i \notin gone
       /\ SameButTarget(At(prog, i), At(opt, moved[i]))
       /\ At(prog, i).op \in JumpOps => At(opt, moved[i]).n = moved[At(prog, i).n]

Edits(prog, opt, gone, moved, L, Q) ==
    /\ L \subseteq Nat
    /\ Stays(prog, L, Q)
    /\ Moves(prog, opt, gone, moved)
    /\ \A q \in Q : IsRun(prog, opt, gone, moved, q)
    /\ \A p, q \in Q : p = q \/ p.end <= q.first \/ q.end <= p.first
    /\ \A i \in L : Exists(prog, i) => Handled(prog, opt, gone, moved, Q, i)

\* A function to the natural numbers has natural numbers.
LEMMA NaturalFunction ==
    ASSUME NEW f \in [Nat -> Nat], NEW n \in Nat
    PROVE  f[n] \in Nat /\ n + 1 \in Nat
OBVIOUS

\* Both have come to the same place, not inside a run.
Level(opt, moved, L, Q, s, t) ==
    /\ Beside(s, t) /\ s.ir \in L /\ t.ir = moved[s.ir] /\ Exists(opt, t.ir)
    /\ \A q \in Q : ~Interior(q, s.ir)

\* prog is in a run, and opt where the run began.
Between(opt, moved, L, q, s, t) ==
    /\ s.res = Ok /\ t.res = Ok /\ s.in = t.in /\ s.out = t.out
    /\ s.ir \in L /\ InRun(q, s.ir) /\ t.ir = moved[q.first] /\ Exists(opt, t.ir)
    /\ t.regs[0] \in Number /\ s.regs[0] \in Number
    /\ s.regs = [t.regs EXCEPT ![0] = s.regs[0]]
    /\ <<t.regs[0], s.regs[0]>> \in q.at[s.ir]

\* opt has run or jumped off its end, prog has only deleted instructions before it.
Ahead(opt, moved, L, s, t) == Behind(s, t) /\ s.ir \in L /\ moved[s.ir] >= Len(opt)

Edited(opt, moved, L, Q, s, t) ==
    \/ Over(s, t)
    \/ Level(opt, moved, L, Q, s, t)
    \/ \E q \in Q : Between(opt, moved, L, q, s, t)
    \/ Ahead(opt, moved, L, s, t)

\* Where both go on at the same place, they are level again, or opt is ahead.
LEMMA ArriveEdited ==
    ASSUME NEW prog \in Seq(Instruction), NEW opt \in Seq(Instruction), NEW gone, NEW moved, NEW L, NEW Q,
           Edits(prog, opt, gone, moved, L, Q),
           NEW s, NEW t, NEW a \in Nat,
           Arrive(prog, opt, s, t, a, moved[a]),
           Exists(prog, a) => a \in L /\ \A q \in Q : ~Interior(q, a)
    PROVE  Edited(opt, moved, L, Q, s, t)
<1>1. moved[a] \in Nat /\ (a >= Len(prog) => moved[a] >= Len(opt))
  BY DEF Edits, Moves
<1>2. CASE Exists(prog, a) /\ Exists(opt, moved[a])
  BY <1>2 DEF Arrive, Edited, Level
<1>3. CASE Exists(prog, a) /\ ~Exists(opt, moved[a])
  BY <1>1, <1>3 DEF Arrive, Edited, Ahead, Exists
<1>4. CASE ~Exists(prog, a)
  <2>1. ~Exists(opt, moved[a])
    BY <1>1, <1>4 DEF Exists
  <2> QED BY <1>4, <2>1 DEF Arrive, Edited
<1> QED BY <1>2, <1>3, <1>4

\* A step inside a run.
LEMMA StepBetween ==
    ASSUME NEW prog \in Seq(Instruction), NEW opt \in Seq(Instruction), NEW gone, NEW moved, NEW L, NEW Q,
           Edits(prog, opt, gone, moved, L, Q),
           NEW s \in States, NEW t \in States, Live(prog, s),
           NEW q \in Q, Between(opt, moved, L, q, s, t)
    PROVE  \/ After(prog, s).res \in Excused
           \/ Edited(opt, moved, L, Q, After(prog, s), t)
           \/ Edited(opt, moved, L, Q, After(prog, s), After(opt, t))
<1> DEFINE k == s.ir
           i == At(prog, s.ir)
           j == At(opt, t.ir)
           a == t.regs[0]
           b == s.regs[0]
           b1 == Exact(i.op, b, i.n)
           s1 == After(prog, s)
<1>0. /\ IsRun(prog, opt, gone, moved, q) /\ Stays(prog, L, Q) /\ L \subseteq Nat
      /\ Moves(prog, opt, gone, moved) /\ Len(prog) \in Nat /\ Len(opt) \in Nat
  BY DEF Edits
<1>1. /\ k \in Nat /\ k \in L /\ InRun(q, k) /\ a \in Number /\ b \in Number /\ <<a, b>> \in q.at[k]
      /\ Exists(prog, k) /\ s.in = t.in /\ s.out = t.out /\ t.res = Ok /\ t.ir = moved[q.first]
      /\ Exists(opt, t.ir) /\ s.regs = [t.regs EXCEPT ![0] = b]
  BY <1>0 DEF Between, Live
<1>2. i.op \in ConstOps /\ i.mode = "const"
  BY <1>0, <1>1 DEF IsRun
<1>3. q.first \in Nat /\ q.end \in Nat /\ q.first <= k /\ k < q.end /\ q.end <= Len(prog)
  BY <1>0, <1>1 DEF IsRun, InRun
<1>4. \/ s1.res \in Excused
      \/ /\ Checked(i.op, b, i.n) # {} /\ b1 \in Number
         /\ s1 = Landed(prog, k + 1, "Eof", Computed(s, b1))
  BY <1>2, AfterConst
<1>5. SUFFICES ASSUME Checked(i.op, b, i.n) # {}, b1 \in Number,
                      s1 = Landed(prog, k + 1, "Eof", Computed(s, b1))
               PROVE  \/ Edited(opt, moved, L, Q, s1, t)
                      \/ Edited(opt, moved, L, Q, s1, After(opt, t))
  BY <1>4
<1>6. <<a, b1>> \in q.at[k + 1]
  BY <1>0, <1>1, <1>5 DEF IsRun
<1>7. Exists(prog, k + 1) => k + 1 \in L
  <2>1. i.op \notin {"STOP", "JUMP"}
    BY <1>2 DEF ConstOps
  <2> QED BY <1>0, <1>1, <2>1 DEF Stays
<1>8. t.regs \in [File -> Cell] /\ 0 \in File
  BY StateIs
<1>9. Computed(s, b1) = Computed(t, b1)
  <2>1. [s.regs EXCEPT ![0] = b1] = [t.regs EXCEPT ![0] = b1]
    BY <1>1, <1>8
  <2> QED BY <1>1, <2>1 DEF Computed
<1> HIDE DEF s1, b1, i
<1>10. CASE k + 1 < q.end
  <2>1. Exists(prog, k + 1) /\ InRun(q, k + 1)
    BY <1>0, <1>1, <1>3, <1>10 DEF Exists, InRun
  <2>2. /\ s1.ir = k + 1 /\ s1.res = Ok /\ s1.in = s.in /\ s1.out = s.out
        /\ s1.regs = [t.regs EXCEPT ![0] = b1]
    BY <1>1, <1>5, <1>9, <2>1 DEF Landed, Computed
  <2>3. s1.regs[0] = b1
    BY <1>8, <2>2
  <2>4. Between(opt, moved, L, q, s1, t)
    BY <1>1, <1>5, <1>6, <1>7, <2>1, <2>2, <2>3 DEF Between
  <2> QED BY <2>4 DEF Edited
<1>11. CASE k + 1 = q.end
  <2>1. IF q.first \in gone THEN a = b1 ELSE Gives(At(opt, moved[q.first]), a, b1)
    BY <1>0, <1>1, <1>5, <1>6, <1>11 DEF IsRun
  <2>2. \A p \in Q : ~Interior(p, q.end)
    <3> SUFFICES ASSUME NEW p \in Q, Interior(p, q.end) PROVE FALSE
      OBVIOUS
    <3>1. p = q \/ p.end <= q.first \/ q.end <= p.first
      BY DEF Edits
    <3>2. p.first \in Nat /\ p.end \in Nat
      BY DEF Edits, IsRun
    <3>3. p.first < q.end /\ q.end < p.end /\ q.first < q.end
      BY <1>0 DEF Interior, IsRun
    <3>4. p # q
      BY <1>3, <3>3
    <3> QED BY <1>3, <3>1, <3>2, <3>3, <3>4
  <2>3. moved[q.end] = IF q.first \in gone THEN moved[q.first] ELSE moved[q.first] + 1
    BY <1>0, <1>3 DEF IsRun, Moves
  <2>4. CASE q.first \in gone
    <3>1. Exists(prog, q.end)
      <4>1. q.end >= Len(prog) => moved[q.end] >= Len(opt)
        BY <1>0, <1>3 DEF Moves
      <4>2. moved[q.end] = t.ir /\ t.ir < Len(opt) /\ t.ir \in Nat
        BY <1>1, <2>3, <2>4, StateIs DEF Exists
      <4> QED BY <1>0, <1>3, <4>1, <4>2 DEF Exists
    <3>2. /\ s1.ir = q.end /\ s1.res = Ok /\ s1.in = s.in /\ s1.out = s.out
          /\ s1.regs = [t.regs EXCEPT ![0] = b1]
      BY <1>1, <1>5, <1>9, <1>11, <3>1 DEF Landed, Computed
    <3>3. s1.regs = t.regs
      BY <1>8, <2>1, <2>4, <3>2
    <3>4. Level(opt, moved, L, Q, s1, t)
      BY <1>1, <1>7, <1>11, <2>2, <2>3, <2>4, <3>1, <3>2, <3>3 DEF Level, Beside
    <3> QED BY <3>4 DEF Edited
  <2>5. CASE q.first \notin gone
    <3>1. Gives(j, a, b1)
      BY <1>1, <2>1, <2>5
    <3>2. Live(opt, t)
      BY <1>1, <3>1 DEF Live, Gives, ConstOps
    <3>3. After(opt, t) = Landed(opt, t.ir + 1, "Eof", Computed(t, b1))
      <4>1. CASE j.op = "LOAD" /\ j.n = b1
        BY <3>1, <3>2, <4>1, AfterLoadConst DEF Gives
      <4>2. CASE j.op \in ConstOps /\ Checked(j.op, a, j.n) # {} /\ Exact(j.op, a, j.n) = b1
        <5>1. a # Uninit
          BY <1>1, MarkAssumption
        <5> QED BY <3>1, <3>2, <4>2, <5>1, AfterConst DEF Gives
      <4> QED BY <3>1, <4>1, <4>2 DEF Gives
    <3>4. After(opt, t) = Landed(opt, moved[q.end], "Eof", Computed(s, b1))
      BY <1>1, <1>9, <2>3, <2>5, <3>3
    <3>5. Arrive(prog, opt, s1, After(opt, t), q.end, moved[q.end])
      BY <1>5, <1>11, <3>4, LandedArrive DEF OffTheEnd
    <3> QED BY <1>3, <1>7, <1>11, <2>2, <3>5, ArriveEdited
  <2> QED BY <2>4, <2>5
<1> QED BY <1>1, <1>3, <1>10, <1>11

\* A step outside of the runs, or into one.
LEMMA StepLevel ==
    ASSUME NEW prog \in Seq(Instruction), NEW opt \in Seq(Instruction), NEW gone, NEW moved, NEW L, NEW Q,
           Edits(prog, opt, gone, moved, L, Q),
           NEW s \in States, NEW t \in States, Live(prog, s),
           Level(opt, moved, L, Q, s, t)
    PROVE  \/ After(prog, s).res \in Excused
           \/ Edited(opt, moved, L, Q, After(prog, s), t)
           \/ Edited(opt, moved, L, Q, After(prog, s), After(opt, t))
<1> DEFINE k == s.ir
           i == At(prog, s.ir)
           j == At(opt, t.ir)
<1>0. /\ Stays(prog, L, Q) /\ Moves(prog, opt, gone, moved) /\ L \subseteq Nat
      /\ Len(prog) \in Nat /\ Len(opt) \in Nat
  BY DEF Edits
<1>1. /\ k \in Nat /\ k \in L /\ Exists(prog, k) /\ t.ir = moved[k] /\ Exists(opt, t.ir)
      /\ Beside(s, t) /\ \A q \in Q : ~Interior(q, k)
      /\ i.op # "STOP"
  BY <1>0 DEF Level, Live
<1>2. CASE \E q \in Q : InRun(q, k)
  <2>1. PICK q \in Q : InRun(q, k)
    BY <1>2
  <2>2. IsRun(prog, opt, gone, moved, q)
    BY DEF Edits
  <2>3. k = q.first /\ i.op \in ConstOps /\ i.mode = "const"
    BY <1>1, <2>1, <2>2 DEF IsRun, InRun, Interior
  <2>4. CASE s.regs[0] = Uninit
    BY <2>3, <2>4, AfterConst
  <2>5. CASE s.regs[0] # Uninit
    <3>1. s.regs[0] \in Number /\ s.regs = t.regs /\ s.regs \in [File -> Cell]
      BY <1>1, <2>5, StateIs DEF Beside
    <3>2. s.regs = [t.regs EXCEPT ![0] = s.regs[0]]
      BY <3>1
    <3>3. <<t.regs[0], s.regs[0]>> \in q.at[k]
      BY <2>2, <2>3, <3>1 DEF IsRun
    <3>4. Between(opt, moved, L, q, s, t)
      BY <1>1, <2>1, <2>3, <3>1, <3>2, <3>3 DEF Between, Beside
    <3> QED BY <3>4, StepBetween
  <2> QED BY <2>4, <2>5
<1>3. CASE \A q \in Q : ~InRun(q, k)
  <2>1. \A q \in Q : ~Interior(q, k + 1)
    <3> SUFFICES ASSUME NEW q \in Q, Interior(q, k + 1) PROVE FALSE
      OBVIOUS
    <3>1. q.first \in Nat /\ q.end \in Nat
      BY DEF Edits, IsRun
    <3>2. InRun(q, k)
      BY <1>1, <3>1 DEF Interior, InRun
    <3> QED BY <1>3, <3>2
  <2>2. i.op \notin {"STOP", "JUMP"} /\ Exists(prog, k + 1) => k + 1 \in L
    BY <1>0, <1>1 DEF Stays
  <2>3. /\ moved[k] \in Nat
        /\ moved[k + 1] = IF k \in gone THEN moved[k] ELSE moved[k] + 1
        /\ k + 1 >= Len(prog) => moved[k + 1] >= Len(opt)
    <3>0. moved \in [Nat -> Nat] /\ k \in Nat
      BY <1>0, <1>1 DEF Moves
    <3>1. moved[k] \in Nat /\ k + 1 \in Nat
      BY <3>0, NaturalFunction
    <3>2. moved[k + 1] = IF k \in gone THEN moved[k] ELSE moved[k] + 1
      BY <1>0, <1>1 DEF Moves
    <3>3. k + 1 >= Len(prog) => moved[k + 1] >= Len(opt)
      BY <1>0, <3>1 DEF Moves
    <3> QED BY <3>1, <3>2, <3>3
  <2>4. CASE k \in gone /\ i.op = "NOP"
    <3>1. After(prog, s) = Landed(prog, k + 1, "Eof", [regs |-> s.regs, in |-> s.in, out |-> s.out])
      BY <2>4, AfterNop
    <3>2. Exists(prog, k + 1)
      BY <1>1, <2>3, <2>4 DEF Exists
    <3>3. Level(opt, moved, L, Q, After(prog, s), t)
      BY <1>1, <2>1, <2>2, <2>3, <2>4, <3>1, <3>2 DEF Level, Landed, Beside
    <3> QED BY <3>3 DEF Edited
  <2>5. CASE /\ k \notin gone
             /\ SameButTarget(i, j)
             /\ i.op \in JumpOps => j.n = moved[i.n]
    <3>1. Live(opt, t)
      BY <1>1, <2>5 DEF Live, Beside, SameButTarget
    <3>2. CASE Over(After(prog, s), After(opt, t))
      BY <3>2 DEF Edited
    <3>3. CASE i.op \in JumpOps /\ Arrive(prog, opt, After(prog, s), After(opt, t), i.n, j.n)
      <4>1. i \in Instruction
        BY <1>1 DEF Exists, At
      <4>2. i.n \in Nat
        BY <3>3, <4>1, InstructionShape, WidthAssumption DEF Usize
      <4>3. Exists(prog, i.n) => i.n \in L /\ \A q \in Q : ~Interior(q, i.n)
        BY <1>0, <1>1, <3>3 DEF Stays
      <4> QED BY <2>5, <3>3, <4>2, <4>3, ArriveEdited
    <3>4. CASE /\ i.op \notin {"STOP", "JUMP"}
               /\ Arrive(prog, opt, After(prog, s), After(opt, t), k + 1, t.ir + 1)
      <4>1. t.ir + 1 = moved[k + 1] /\ k + 1 \in Nat
        BY <1>1, <2>3, <2>5
      <4> QED BY <2>1, <2>2, <3>4, <4>1, ArriveEdited
    <3> QED BY <1>1, <2>5, <3>1, <3>2, <3>3, <3>4, StepsBeside
  <2>6. Handled(prog, opt, gone, moved, Q, k)
    BY <1>1 DEF Edits
  <2> QED BY <1>1, <1>3, <2>4, <2>5, <2>6 DEF Handled
<1> QED BY <1>2, <1>3

\* A step of prog alone.
LEMMA StepAhead ==
    ASSUME NEW prog \in Seq(Instruction), NEW opt \in Seq(Instruction), NEW gone, NEW moved, NEW L, NEW Q,
           Edits(prog, opt, gone, moved, L, Q),
           NEW s \in States, NEW t, Live(prog, s),
           Ahead(opt, moved, L, s, t)
    PROVE  \/ After(prog, s).res \in Excused
           \/ Edited(opt, moved, L, Q, After(prog, s), t)
<1> DEFINE k == s.ir
           i == At(prog, s.ir)
<1>0. /\ Stays(prog, L, Q) /\ Moves(prog, opt, gone, moved) /\ L \subseteq Nat
      /\ Len(prog) \in Nat /\ Len(opt) \in Nat
  BY DEF Edits
<1>1. /\ k \in Nat /\ k \in L /\ Exists(prog, k) /\ moved[k] >= Len(opt)
      /\ Behind(s, t) /\ k + 1 \in Nat
  <2>1. k \in L /\ Behind(s, t) /\ moved[k] >= Len(opt)
    BY DEF Ahead
  <2>2. Exists(prog, k)
    BY DEF Live
  <2>3. k \in Nat
    BY <1>0, <2>1
  <2> QED BY <2>1, <2>2, <2>3
<1>2. k \in gone
  <2>1. moved[k] \in Nat
    BY <1>0, <1>1 DEF Moves
  <2>2. k \notin gone => moved[k] < Len(opt)
    BY <1>0, <1>1 DEF Moves
  <2> QED BY <1>0, <1>1, <2>1, <2>2
<1>3. moved[k + 1] = moved[k]
  BY <1>0, <1>1, <1>2 DEF Moves
<1>4. i.op = "NOP" \/ (i.op \in ConstOps /\ i.mode = "const")
  <2>1. Handled(prog, opt, gone, moved, Q, k)
    BY <1>1 DEF Edits
  <2>2. \A q \in Q : InRun(q, k) => i.op \in ConstOps /\ i.mode = "const"
    BY <1>1 DEF Edits, IsRun
  <2> QED BY <1>2, <2>1, <2>2 DEF Handled
<1>5. \/ After(prog, s).res \in Excused
      \/ \E e : e.out = s.out /\ After(prog, s) = Landed(prog, k + 1, "Eof", e)
  <2>1. CASE i.op = "NOP"
    BY <2>1, AfterNop
  <2>2. CASE i.op \in ConstOps /\ i.mode = "const"
    <3>1. \A n : Computed(s, n).out = s.out
      BY DEF Computed
    <3> QED BY <2>2, <3>1, AfterConst
  <2> QED BY <1>4, <2>1, <2>2
<1>6. ASSUME NEW e, e.out = s.out, After(prog, s) = Landed(prog, k + 1, "Eof", e)
      PROVE  Edited(opt, moved, L, Q, After(prog, s), t)
  <2>1. CASE Exists(prog, k + 1)
    <3>1. k + 1 \in L
      BY <1>0, <1>1, <1>4, <2>1 DEF Stays, ConstOps
    <3>2. Ahead(opt, moved, L, After(prog, s), t)
      BY <1>1, <1>3, <1>6, <2>1, <3>1 DEF Ahead, Behind, Landed
    <3> QED BY <3>2 DEF Edited
  <2>2. CASE ~Exists(prog, k + 1)
    <3>1. Over(After(prog, s), t)
      BY <1>1, <1>6, <2>2 DEF Over, Behind, Landed, Alike, OffTheEnd, Ok
    <3> QED BY <3>1 DEF Edited
  <2> QED BY <2>1, <2>2
<1> QED BY <1>5, <1>6

\* Where prog has ended well, so has opt.
LEMMA EditedEndsWell ==
    ASSUME NEW prog \in Seq(Instruction), NEW opt \in Seq(Instruction), NEW gone, NEW moved, NEW L, NEW Q,
           Edits(prog, opt, gone, moved, L, Q),
           NEW s \in States, NEW t, EndsWell(prog, s),
           Edited(opt, moved, L, Q, s, t)
    PROVE  EndsWell(opt, t) /\ Alike(s, t)
<1> DEFINE k == s.ir
           i == At(prog, s.ir)
<1>1. CASE Over(s, t)
  BY <1>1, OverEndsWell
<1>2. CASE s.res = Ok /\ k \in L
  <2>1. i.op = "STOP" /\ Exists(prog, k) /\ k \in Nat
    BY <1>2, StateIs DEF EndsWell
  <2>2. Handled(prog, opt, gone, moved, Q, k)
    BY <1>2, <2>1 DEF Edits
  <2>3. \A q \in Q : InRun(q, k) => i.op \in ConstOps
    BY <2>1 DEF Edits, IsRun
  <2>4. k \notin gone /\ SameButTarget(i, At(opt, moved[k])) /\ \A q \in Q : ~InRun(q, k)
    BY <2>1, <2>2, <2>3 DEF Handled, ConstOps
  <2>5. CASE Level(opt, moved, L, Q, s, t)
    BY <2>1, <2>4, <2>5 DEF Level, Beside, EndsWell, SameButTarget, Alike, Excused, Ok
  <2>6. CASE Ahead(opt, moved, L, s, t)
    <3>1. moved[k] < Len(opt) /\ moved[k] \in Nat
      BY <2>1, <2>4 DEF Edits, Moves
    <3> QED BY <2>6, <3>1 DEF Ahead
  <2> QED BY <1>2, <2>4, <2>5, <2>6 DEF Edited, Between, Over
<1> QED BY <1>1, <1>2 DEF Edited, Level, Between, Ahead, Beside, Behind

\* A program from which instructions are deleted, and whose runs of constants are folded, does
\* the same.
LEMMA EditsPreserve ==
    ASSUME NEW prog \in Seq(Instruction), NEW opt \in Seq(Instruction), opt # << >>,
           NEW gone, NEW moved, NEW L, NEW Q,
           Edits(prog, opt, gone, moved, L, Q)
    PROVE  Preserves(prog, opt)
<1> DEFINE R == { p \in States \X States : Edited(opt, moved, L, Q, p[1], p[2]) }
<1>1. \A s, t \in States : <<s, t>> \in R <=> Edited(opt, moved, L, Q, s, t)
  OBVIOUS
<1>2. \A x \in Seq(Number \cup {None}) : <<Begin(x), Begin(x)>> \in R
  <2> TAKE x \in Seq(Number \cup {None})
  <2>1. 0 \in L /\ moved[0] = 0 /\ \A q \in Q : q.first \in Nat
    BY DEF Edits, Stays, Moves, IsRun
  <2>2. Exists(opt, 0)
    BY DEF Exists
  <2>3. Level(opt, moved, L, Q, Begin(x), Begin(x))
    BY <2>1, <2>2 DEF Level, Beside, Begin, Interior
  <2> QED BY <1>1, <2>3, BeginIsState DEF Edited
<1>3. ASSUME NEW s \in States, NEW t \in States, <<s, t>> \in R, Live(prog, s)
      PROVE  \/ After(prog, s).res \in Excused
             \/ <<After(prog, s), t>> \in R
             \/ <<After(prog, s), After(opt, t)>> \in R
  <2>1. Edited(opt, moved, L, Q, s, t) /\ ~Over(s, t)
    BY <1>1, <1>3 DEF Over, Live
  <2>2. \/ After(prog, s).res \in Excused
        \/ Edited(opt, moved, L, Q, After(prog, s), t)
        \/ Edited(opt, moved, L, Q, After(prog, s), After(opt, t))
    BY <1>3, <2>1, StepLevel, StepBetween, StepAhead DEF Edited
  <2> QED BY <1>1, <2>2, AfterIsState
<1>4. ASSUME NEW s \in States, NEW t \in States, <<s, t>> \in R, EndsWell(prog, s)
      PROVE  EndsWell(opt, t) /\ Alike(s, t)
  BY <1>1, <1>4, EditedEndsWell
<1>5. Simulates(prog, opt, R)
  BY <1>2, <1>3, <1>4 DEF Simulates
<1> QED BY <1>5, SimulationPreserves

\* A program that begins with a constant operation reads a register that was never written.
LEMMA BeginsUninit ==
    ASSUME NEW prog \in Seq(Instruction), prog # << >>, NEW opt,
           At(prog, 0).op \in ConstOps, At(prog, 0).mode = "const"
    PROVE  Preserves(prog, opt)
<1> SUFFICES ASSUME NEW x \in Seq(Number \cup {None}), NEW e,
                    LeadsTo(prog, Begin(x), e), EndsWell(prog, e)
             PROVE  FALSE
  BY DEF Preserves
<1>1. Begin(x) \in States /\ Begin(x).ir = 0 /\ Begin(x).regs[0] = Uninit /\ Begin(x).res = Ok
  BY BeginIsState, StateIs DEF Begin
<1>2. Live(prog, Begin(x))
  BY <1>1 DEF Live, Exists, ConstOps
<1>3. After(prog, Begin(x)).res \in Excused
  BY <1>1, <1>2, AfterConst
<1>4. Closed(prog, {Begin(x), After(prog, Begin(x))})
  BY <1>3, AfterIs DEF Closed, Live, Excused, Ok
<1>5. e \in {Begin(x), After(prog, Begin(x))}
  BY <1>4 DEF LeadsTo
<1> QED BY <1>1, <1>2, <1>3, <1>5 DEF EndsWell, Live

-----------------------------------------------------------------------------
(***************************************************************************)
(* run(), on a Ram that was just made: an execution of the program.        *)
(***************************************************************************)
Direct(prog) == \A k \in DOMAIN prog : prog[k].mode # "reg"

\* A Ram whose run() is on its way, or returned, or reported an error, or broke off.
Launched ==
    /\ TypeOK /\ InstIsCurrent
    /\ driver \in {"running", "idle"} => result = Ok /\ Exists(code, ir)
    /\ driver = "idle" => At(code, ir).op = "STOP"
    /\ driver = "exited" => result \notin {Ok, "Panic", "Undefined"}
    /\ driver = "panicked" => result = "Panic"
    /\ driver = "undefined" => result = "Undefined"

\* Ram::new and the call of run().
LEMMA RunStarts ==
    ASSUME code' \in Programs, code' # << >>, input' \in Seq(Number \cup {None}),
           output' = << >>, memory' = [a \in {} |-> Uninit], ir' = 0, inst' = At(code', 0),
           result' = Ok, driver' = "running"
    PROVE  Launched' /\ Seen' = Begin(input')
<1>1. code' \in Seq(Instruction) /\ Len(code') \in Nat /\ Len(code') # 0
  BY ProgramAssumption
<1>2. inst' \in Instruction /\ Exists(code', 0)
  BY <1>1 DEF At, Exists
<1>3. memory' \in Memory
  BY NoCellsAreAMemory
<1>4. TypeOK'
  BY <1>2, <1>3 DEF TypeOK, Errors, Ok
<1>5. InstIsCurrent'
  BY <1>2 DEF InstIsCurrent
<1>6. Registers' = [a \in File |-> Uninit]
  BY DEF Registers, File
<1>7. Seen' = Begin(input')
  BY <1>6 DEF Seen, Begin
<1> QED BY <1>2, <1>4, <1>5, <1>7 DEF Launched

\* Every iteration of the loop makes the step that After says.
LEMMA RunGoesOn ==
    ASSUME Launched, Direct(code), RunIteration
    PROVE  Launched' /\ Seen' = After(code, Seen)
<1>1. /\ TypeOK /\ InstIsCurrent /\ result = Ok /\ Exists(code, ir)
      /\ driver = "running" /\ Step /\ code' = code
      /\ driver' = IF result' = Ok THEN (IF inst'.op = "STOP" THEN "idle" ELSE "running")
                   ELSE IF result' = "Panic" THEN "panicked"
                   ELSE IF result' = "Undefined" THEN "undefined"
                   ELSE IF ReportPanics(result', ir, memory') THEN "panicked"
                   ELSE "exited"
  BY DEF Launched, RunIteration, Step, Broken
<1>2. code \in Seq(Instruction) /\ Len(code) \in Nat /\ ir \in Nat
  BY <1>1, CodeIsProgram DEF TypeOK
<1>3. code # << >> /\ inst = At(code, ir)
  BY <1>1, <1>2 DEF Exists, InstIsCurrent
<1>4. inst.mode # "reg"
  <2>1. ir + 1 \in DOMAIN code
    BY <1>1, <1>2 DEF Exists
  <2> QED BY <1>3, <2>1 DEF Direct, At
<1>5. Seen' = After(code, Seen)
  BY <1>1, <1>3, <1>4, StepIsAfter DEF Going
<1>6. result' \notin {Ok, "Panic", "Undefined"} => ~ReportPanics(result', ir, memory')
  BY <1>1, ReportIsSafe
<1>7. TypeOK' /\ InstIsCurrent'
  BY <1>1, <1>6, StepKeepsTypes, StepKeepsInstCurrent
<1>8. ASSUME result' = Ok
      PROVE  Exists(code', ir')
  <2>1. Executed
    BY <1>1, <1>8, StepEnds DEF Failed, Errors, Ok
  <2> QED BY <1>1, <1>8, <2>1 DEF Executed, Ok
<1>9. result' = Ok => inst' = At(code', ir')
  BY <1>1, <1>3, <1>7, <1>8 DEF InstIsCurrent
<1> QED BY <1>1, <1>5, <1>6, <1>7, <1>8, <1>9 DEF Launched, Ok

\* Nothing else disturbs it.
LEMMA RunStays ==
    ASSUME UNCHANGED vars
    PROVE  (Launched => Launched') /\ Seen' = Seen
BY DEF vars, Launched, TypeOK, InstIsCurrent, Seen, Registers

\* What is seen of it at its end.
LEMMA RunEnds ==
    ASSUME Launched, driver # "running"
    PROVE  /\ ~Live(code, Seen)
           /\ result \notin Excused => EndsWell(code, Seen)
           /\ driver = "idle" <=> result = Ok
           /\ driver = "panicked" <=> result = "Panic"
           /\ driver = "undefined" <=> result = "Undefined"
BY SeenIs DEF Launched, TypeOK, Live, EndsWell, Ok

-----------------------------------------------------------------------------
(***************************************************************************)
(* The inductive invariant: besides that of RamProofs, an error is still   *)
(* the diagnosis of the instruction that failed, and ir is inside of the   *)
(* program unless the last step() said that it ran off the end.  Nothing is *)
(* known of a step() that was undefined, but that it was the last one.     *)
(***************************************************************************)
Permanent ==
    result \notin {Ok, "Eof", "Undefined"} => Diagnosis = result /\ (inst.op = "READ" => input = << >>)

Placed ==
    /\ code = << >> => driver = "exited"
    /\ result = Ok /\ code # << >> => Exists(code, ir)
    /\ result = "Eof" => inst.op # "STOP"
    /\ result = "Undefined" => driver = "undefined"

TInv == IInv /\ Permanent /\ Placed

\* An input without an answer stays without one.
LEMMA NoAnswerIsFinal == Answer = None => Rest = << >>
BY DEF Rest

\* A failed step() leaves its diagnosis as it was.
LEMMA FailureKeepsDiagnosis ==
    ASSUME TypeOK, Step, Diagnosis \notin {Ok, "Undefined"}
    PROVE  Diagnosis' = Diagnosis /\ (inst'.op = "READ" => input' = << >>)
<1> USE DEF UnaryOps, BinaryOps, ConditionalJumps
<1>1. /\ inst' = inst /\ code' = code /\ Registers' = Registers
      /\ input' = IF inst.op = "READ" THEN Rest ELSE input
  BY StepIsDiagnosed DEF Fails, LeftBy
<1>2. CASE inst.op = "READ"
  <2>1. Answer = None
    BY <1>2 DEF Diagnosis
  <2>2. input' = << >> /\ Answer' = None
    BY <1>1, <1>2, <2>1, NoAnswerIsFinal DEF Answer
  <2> QED BY <1>1, <1>2, <2>1, <2>2 DEF Diagnosis
<1>3. CASE inst.op # "READ"
  <2>1. /\ AccError(Registers)' = AccError(Registers)
        /\ FetchError(Registers, inst)' = FetchError(Registers, inst)
        /\ StoreError(Registers, inst)' = StoreError(Registers, inst)
        /\ UnopError(Registers, inst)' = UnopError(Registers, inst)
        /\ BinopError(Registers, inst)' = BinopError(Registers, inst)
    BY <1>1 DEF AccError, FetchError, StoreError, UnopError, BinopError
  <2>2. JumpError(Registers, inst)' = JumpError(Registers, inst)
    BY <1>1 DEF JumpError
  <2>3. MayJumpError(Registers, inst)' = MayJumpError(Registers, inst)
    BY <1>1, <2>1, <2>2 DEF MayJumpError
  <2> QED BY <1>1, <1>3, <2>1, <2>2, <2>3 DEF Diagnosis
<1> QED BY <1>2, <1>3

\* step() fails with an error just when it has a diagnosis.
LEMMA DiagnosedIsFailed ==
    ASSUME TypeOK, Step
    PROVE  /\ Diagnosis = Ok => result' \in {Ok, "Eof"}
           /\ Diagnosis # Ok => result' = Diagnosis /\ result' \notin {Ok, "Eof"}
<1>1. CASE Diagnosis = Ok
  BY <1>1, StepIsDiagnosed DEF GoesOn, Jumped
<1>2. CASE Diagnosis # Ok
  BY <1>2, StepIsDiagnosed, DiagnosisIsNotEof DEF Fails
<1> QED BY <1>1, <1>2

\* Ram::new establishes the invariant.
LEMMA InitEstablishesTInv == Init => TInv
<1> SUFFICES ASSUME Init PROVE TInv
  OBVIOUS
<1>1. IInv
  BY InitEstablishesIInv
<1>2. Permanent
  BY DEF Init, Permanent
<1>3. code # << >> => Exists(code, ir)
  BY <1>1, CodeIsProgram DEF Init, IInv, Exists
<1>4. Placed
  BY <1>3 DEF Init, Placed, Ok
<1> QED BY <1>1, <1>2, <1>4 DEF TInv

\* step() leaves an error that is its instruction's diagnosis, or no error.
LEMMA StepKeepsPermanent ==
    ASSUME TypeOK, Step
    PROVE  Permanent'
<1>1. CASE Diagnosis = Ok
  BY <1>1, DiagnosedIsFailed DEF Permanent
<1>2. CASE Diagnosis # Ok
  BY <1>2, DiagnosedIsFailed, FailureKeepsDiagnosis DEF Permanent
<1> QED BY <1>1, <1>2

\* step() leaves ir inside of the program, or says that it ran off the end.
LEMMA StepKeepsPlaced ==
    ASSUME TInv, Step, code # << >>, driver \in {"idle", "running"},
           result' = "Undefined" => driver' = "undefined"
    PROVE  Placed'
<1> USE DEF TInv, IInv
<1>0. code' = code /\ ir \in Nat /\ Len(code) \in Nat
  BY CodeIsProgram DEF Step, TypeOK
<1>1. CASE Diagnosis # Ok
  <2>1. result' \notin {Ok, "Eof"}
    BY <1>1, DiagnosedIsFailed
  <2> QED BY <1>0, <2>1 DEF Placed
<1>2. CASE Diagnosis = Ok /\ GoesOn /\ inst.op # "STOP"
  <2>1. result' = Ok => Exists(code, ir')
    BY <1>2 DEF GoesOn, Ok
  <2>2. result' = "Eof" => inst' = inst
    BY <1>2 DEF GoesOn, Ok
  <2> QED BY <1>0, <1>2, <2>1, <2>2 DEF Placed, Exists
<1>3. CASE Diagnosis = Ok /\ \E to : Jumped(to)
  BY <1>0, <1>3 DEF Placed, Jumped, Exists, Ok
<1>4. CASE Diagnosis = Ok /\ inst.op = "STOP" /\ result' = Ok /\ UNCHANGED <<ir, inst>>
  <2>1. result = Ok
    BY <1>4 DEF Permanent, Placed
  <2> QED BY <1>0, <1>4, <2>1 DEF Placed, Exists, Ok
<1> QED BY <1>1, <1>2, <1>3, <1>4, StepIsDiagnosed

\* Every step of the caller or of run() keeps the invariant.
LEMMA NextKeepsTInv == TInv /\ [Next]_vars => TInv'
<1> SUFFICES ASSUME TInv, [Next]_vars PROVE TInv'
  OBVIOUS
<1>1. IInv' /\ TypeOK
  BY NextKeepsIInv DEF TInv, IInv
<1>2. CASE Step /\ driver \in {"idle", "running"}
  <2>1. code # << >>
    BY <1>2 DEF TInv, Placed
  <2>2. result' = "Undefined" => driver' = "undefined"
    BY <1>2 DEF Next, CallStep, CallRun, RunIteration, Broken, vars, machine, TInv, Placed, Ok
  <2> QED BY <1>1, <1>2, <2>1, <2>2, StepKeepsPermanent, StepKeepsPlaced DEF TInv
<1>3. CASE UNCHANGED machine /\ (driver' = driver \/ driver = "idle")
  <2>1. Diagnosis' = Diagnosis
    BY <1>3 DEF machine, Diagnosis, Answer, AccError, FetchError, StoreError, UnopError, BinopError,
                JumpError, MayJumpError, Registers
  <2>2. Permanent'
    BY <1>3, <2>1 DEF TInv, Permanent, machine
  <2>3. Placed'
    BY <1>3 DEF TInv, Placed, Exists, machine
  <2> QED BY <1>1, <2>2, <2>3 DEF TInv
<1> QED BY <1>2, <1>3 DEF Next, CallStep, CallRun, RunIteration, vars, machine

\* The invariant holds of every reachable state of a Ram.
THEOREM Traceable == Spec => []TInv
<1>1. Init => TInv
  BY InitEstablishesTInv
<1>2. TInv /\ [Next]_vars => TInv'
  BY NextKeepsTInv
<1> QED BY <1>1, <1>2, PTL DEF Spec

\* What failed once fails again, with the same error and without any effect.
LEMMA FailureRepeats ==
    ASSUME TInv, Step, result \notin {Ok, "Eof", "Undefined"}
    PROVE  /\ result' = result
           /\ Registers' = Registers
           /\ UNCHANGED <<code, ir, input, output>>
<1>1. TypeOK /\ Diagnosis = result /\ (inst.op = "READ" => input = << >>)
  BY DEF TInv, IInv, Permanent
<1>2. Fails(Diagnosis) /\ code' = code /\ input' = IF inst.op = "READ" THEN Rest ELSE input
  BY <1>1, StepIsDiagnosed
<1>3. input = << >> => Rest = << >>
  BY NoAnswerIsFinal DEF Answer
<1> QED BY <1>1, <1>2, <1>3 DEF Fails, LeftBy

\* A Ram that reported an error other than Eof reports it for ever.
THEOREM FaultsArePermanent == Spec => FaultIsPermanent
<1>1. TInv /\ [Next]_vars => (result \notin {Ok, "Eof"} => result' = result)
  <2> SUFFICES ASSUME TInv, [Next]_vars, result \notin {Ok, "Eof"}
               PROVE  result' = result
    OBVIOUS
  <2>1. CASE Step /\ driver \in {"idle", "running"}
    <3>1. result # "Undefined"
      BY <2>1 DEF TInv, Placed
    <3> QED BY <2>1, <3>1, FailureRepeats
  <2> QED BY <2>1 DEF Next, CallStep, CallRun, RunIteration, machine, vars
<1> QED BY <1>1, Traceable, PTL DEF Spec, FaultIsPermanent

-----------------------------------------------------------------------------
(***************************************************************************)
(* The sets of the machine, which are empty where a Ram has an error.      *)
(***************************************************************************)
\* The machine has the data model of the Ram.
LEMMA SameModel ==
    /\ Machine!Usize = Usize /\ Machine!File = File
    /\ Machine!UnaryOps = UnaryOps /\ Machine!BinaryOps = BinaryOps
    /\ Machine!ConditionalJumps = ConditionalJumps /\ Machine!JumpOps = JumpOps
    /\ \A op, a, b : Machine!Checked(op, a, b) = Checked(op, a, b)
<1>1. Machine!Number = Number /\ Machine!MinInt = MinInt
  BY DEF Machine!Number, Number, Machine!MinInt, MinInt
<1>2. \A op, a, b : Machine!Exact(op, a, b) = Exact(op, a, b)
  BY DEF Machine!Exact, Exact, Machine!Quotient, Quotient, Machine!Magnitude, Magnitude
<1>3. \A op, a, b : Machine!Checked(op, a, b) = Checked(op, a, b)
  BY <1>1, <1>2 DEF Machine!Checked, Checked
<1> QED
  BY <1>3 DEF Machine!Usize, Usize, Machine!File, File, Machine!UnaryOps, UnaryOps, Machine!BinaryOps, BinaryOps,
              Machine!ConditionalJumps, ConditionalJumps, Machine!JumpOps, JumpOps

\* The registers that Register::loc may find.
LEMMA PlacesAre ==
    ASSUME TypeOK, NEW arg, arg.n \in Usize
    PROVE  /\ PlaceError(Registers, arg) = Ok =>
                  Machine!Places(arg) = { Place(Registers, arg) } /\ Place(Registers, arg) \in File
           /\ PlaceError(Registers, arg) # Ok => Machine!Places(arg) = {}
<1>1. Uninit \notin Usize /\ File \subseteq Usize /\ \A a \in Usize : a \in File <=> ~(a >= MaxCells)
  BY MarkAssumption, FileIs
<1>2. Machine!Pointers(arg) = { Registers[a] : a \in { arg.n } \cap File }
  BY SameModel DEF Machine!Pointers
<1>3. Machine!Places(arg) =
          (IF arg.mode = "ind" THEN Machine!Pointers(arg) ELSE { arg.n }) \cap File
  BY SameModel DEF Machine!Places
<1>4. BeyondError(arg.n) # Ok /\ BeyondError(Registers[arg.n]) # Ok
  BY DEF BeyondError, Ok
<1> HIDE DEF Registers
<1>5. CASE arg.n >= MaxCells
  BY <1>1, <1>2, <1>3, <1>4, <1>5 DEF PlaceError
<1>6. CASE arg.n \in File /\ arg.mode # "ind"
  BY <1>1, <1>3, <1>6 DEF PlaceError, Place
<1>7. CASE arg.n \in File /\ arg.mode = "ind"
  <2>1. Machine!Places(arg) = { Registers[arg.n] } \cap File
    BY <1>2, <1>3, <1>7
  <2> QED BY <1>1, <1>4, <1>7, <2>1 DEF PlaceError, Place, Ok
<1> QED BY <1>1, <1>5, <1>6, <1>7

\* The values that Value::get may find.
LEMMA OperandsAre ==
    ASSUME TypeOK, NEW arg,
           IF arg.mode = "const" THEN arg.n \in Number ELSE arg.n \in Usize
    PROVE  /\ FetchError(Registers, arg) = Ok => Machine!Operands(arg) = { Fetched(Registers, arg) }
           /\ FetchError(Registers, arg) # Ok => Machine!Operands(arg) = {}
<1>1. CASE arg.mode = "const"
  BY <1>1 DEF Machine!Operands, FetchError, Fetched, Ok
<1>2. CASE arg.mode # "const"
  <2>1. Machine!Operands(arg) = { Registers[a] : a \in Machine!Places(arg) } \ { Uninit }
    BY <1>2 DEF Machine!Operands
  <2>2. CASE PlaceError(Registers, arg) # Ok
    BY <1>2, <2>1, <2>2, PlacesAre DEF FetchError, GetError
  <2>3. CASE PlaceError(Registers, arg) = Ok
    <3>1. Machine!Places(arg) = { Place(Registers, arg) }
      BY <1>2, <2>3, PlacesAre
    <3>2. Machine!Operands(arg) = { Registers[Place(Registers, arg)] } \ { Uninit }
      BY <2>1, <3>1
    <3> QED BY <1>2, <2>3, <3>2 DEF FetchError, GetError, Fetched, Ok
  <2> QED BY <2>2, <2>3
<1> QED BY <1>1, <1>2

\* What the accumulator holds.
LEMMA AccumulatorIs ==
    /\ AccError(Registers) = Ok => Machine!ACC = { Registers[0] }
    /\ AccError(Registers) # Ok => Machine!ACC = {}
BY DEF Machine!ACC, AccError, Ok

\* Where Ram::jump may go.
LEMMA DestinationsAre ==
    ASSUME TypeOK, NEW arg, arg.n \in Usize
    PROVE  /\ JumpError(Registers, arg) = Ok => Machine!Destinations(arg) = { JumpTo(Registers, arg) }
           /\ JumpError(Registers, arg) # Ok => Machine!Destinations(arg) = {}
<1>1. /\ Len(code) \in Nat /\ Uninit \notin Usize
      /\ arg.n \in File <=> ~(arg.n >= MaxCells)
      /\ BeyondError(arg.n) # Ok
  BY CodeIsProgram, MarkAssumption, FileIs DEF BeyondError, Ok
<1>2. \A to \in Usize : to \in 0..(Len(code) - 1) <=> Exists(code, to)
  BY <1>1 DEF Exists, Usize
<1> DEFINE D == IF arg.mode = "reg" THEN { Registers[a] : a \in { arg.n } \cap File } \cap Usize
                                    ELSE { arg.n }
<1>3. Machine!Destinations(arg) = D \cap 0..(Len(code) - 1)
  BY SameModel DEF Machine!Destinations, Machine!Pointers
<1>5. CASE arg.mode = "reg" /\ arg.n >= MaxCells
  <2>1. D = {}
    BY <1>1, <1>5
  <2> HIDE DEF D
  <2> QED BY <1>1, <1>3, <1>5, <2>1 DEF JumpError
<1>6. CASE ~(arg.mode = "reg" /\ arg.n >= MaxCells)
  <2>1. D = { JumpTo(Registers, arg) } \cap Usize
    BY <1>1, <1>6 DEF JumpTo
  <2> HIDE DEF D
  <2> QED BY <1>1, <1>2, <1>3, <1>6, <2>1 DEF JumpError, JumpTo, Ok
<1> QED BY <1>5, <1>6

\* What the input iterator may answer.
LEMMA ReceivedIs ==
    ASSUME TypeOK
    PROVE  /\ Answer = None => Machine!Received = {}
           /\ Answer # None => Machine!Received = { Answer } /\ Rest = Tail(input)
<1>1. CASE input = << >>
  BY <1>1 DEF Machine!Received, Answer
<1>2. CASE input # << >>
  <2>1. 1 \in DOMAIN input /\ Answer = input[1]
    BY <1>2 DEF TypeOK, Answer
  <2>2. Machine!Received = { input[1] } \ { None }
    BY <2>1 DEF Machine!Received
  <2> QED BY <2>1, <2>2 DEF Rest
<1> QED BY <1>1, <1>2

-----------------------------------------------------------------------------
(***************************************************************************)
(* Every step() after an Ok is a step of the machine.                      *)
(***************************************************************************)

\* A Ram that is about to execute an instruction of its program.
Ready == TInv /\ result = Ok /\ code # << >>

\* Its cached instruction is the machine's.
LEMMA ReadyIs ==
    ASSUME Ready
    PROVE  /\ TypeOK /\ ir \in Nat /\ Len(code) \in Nat /\ Exists(code, ir)
           /\ Machine!inst = inst
<1>1. TypeOK /\ InstIsCurrent /\ Exists(code, ir)
  BY DEF Ready, TInv, IInv, Placed
<1>2. inst = At(code, ir)
  BY <1>1 DEF InstIsCurrent, Ready
<1> QED BY <1>1, <1>2, CodeIsProgram DEF TypeOK, Machine!inst, Machine!At, At

\* Going on to the next instruction, or off the end.
LEMMA GoesOnIsGoTo ==
    ASSUME Ready, GoesOn
    PROVE  Machine!GoTo(ir + 1)
<1>1. (result' # Ok) <=> (ir + 1 = Len(code))
  BY ReadyIs DEF GoesOn, Exists, Ok
<1>2. ir' = ir + 1
  BY DEF GoesOn
<1> QED BY <1>1, <1>2, Zenon DEF Machine!GoTo

\* A jump of the Ram is a jump of the machine.
LEMMA JumpedIsGoTo ==
    ASSUME Ready, NEW to, Jumped(to)
    PROVE  Machine!GoTo(to)
<1>1. (result' # Ok) <=> (to = Len(code))
  BY ReadyIs DEF Jumped, Exists, Usize
<1>2. ir' = to
  BY DEF Jumped
<1> QED BY <1>1, <1>2, Zenon DEF Machine!GoTo

\* A failed step() is a fault of the machine, if the machine is stuck as well.
LEMMA FailsIsFault ==
    ASSUME Ready, NEW e, e # Ok, Fails(e), LookupsAreInBounds', Machine!Stuck,
           input' = IF inst.op = "READ" THEN << >> ELSE input
    PROVE  Machine!Fault
<1>1. Machine!inst = inst
  BY ReadyIs
<1>2. (result' # Ok) = TRUE
  BY DEF Fails
<1>3. Registers' = Registers
  BY DEF Fails, LeftBy, LookupsAreInBounds
<1> QED BY <1>1, <1>2, <1>3 DEF Fails, Machine!Fault

\* New registers, an instruction without an input or an output: Machine!Compute.
LEMMA ComputeIs ==
    ASSUME Ready, GoesOn, UNCHANGED <<input, output>>, Registers' \in Machine!NewRegisters
    PROVE  Machine!Compute
<1>1. Machine!GoTo(ir + 1)
  BY GoesOnIsGoTo
<1> QED BY <1>1 DEF Machine!Compute

\* LOAD.
LEMMA LoadIsCompute ==
    ASSUME Ready, Load, LookupsAreInBounds'
    PROVE  Machine!Effect \/ Machine!Fault
<1>0. TypeOK /\ Machine!inst = inst /\ inst.op = "LOAD"
  BY ReadyIs DEF Load
<1>1. Machine!NewRegisters = { [Registers EXCEPT ![0] = v] : v \in Machine!Operands(inst) }
  BY <1>0, SameModel DEF Machine!NewRegisters, Machine!Write, UnaryOps, BinaryOps
<1>2. IF inst.mode = "const" THEN inst.n \in Number ELSE inst.n \in Usize
  BY <1>0, InstructionShape DEF TypeOK
<1>3. CASE FetchError(Registers, inst) # Ok
  <2>1. Machine!Stuck
    BY <1>0, <1>1, <1>2, <1>3, OperandsAre DEF Machine!Stuck
  <2> QED BY <1>0, <1>3, <2>1, LoadShows, FailsIsFault
<1>4. CASE FetchError(Registers, inst) = Ok
  <2>1. Registers' \in Machine!NewRegisters
    BY <1>0, <1>1, <1>2, <1>4, OperandsAre, LoadShows
  <2> QED BY <1>0, <1>4, <2>1, LoadShows, ComputeIs DEF Machine!Effect
<1> QED BY <1>3, <1>4

\* STORE.
LEMMA StoreIsCompute ==
    ASSUME Ready, Store, LookupsAreInBounds'
    PROVE  Machine!Effect \/ Machine!Fault
<1>0. TypeOK /\ Machine!inst = inst /\ inst.op = "STORE"
  BY ReadyIs DEF Store
<1>1. Machine!NewRegisters =
          { [Registers EXCEPT ![a] = v] : a \in Machine!Places(inst), v \in Machine!ACC }
  BY <1>0, SameModel DEF Machine!NewRegisters, Machine!Write, UnaryOps, BinaryOps
<1>2. inst.n \in Usize
  BY <1>0, InstructionShape DEF TypeOK
<1>3. CASE StoreError(Registers, inst) # Ok
  <2>1. Machine!Places(inst) = {} \/ Machine!ACC = {}
    BY <1>0, <1>2, <1>3, PlacesAre, AccumulatorIs DEF StoreError
  <2>2. Machine!Stuck
    BY <1>0, <1>1, <2>1 DEF Machine!Stuck
  <2> QED BY <1>0, <1>3, <2>2, StoreShows, FailsIsFault
<1>4. CASE StoreError(Registers, inst) = Ok
  <2>1. Machine!Places(inst) = { Place(Registers, inst) } /\ Machine!ACC = { Registers[0] }
    BY <1>0, <1>2, <1>4, PlacesAre, AccumulatorIs DEF StoreError, Ok
  <2>2. Registers' \in Machine!NewRegisters
    BY <1>0, <1>1, <1>4, <2>1, StoreShows
  <2> QED BY <1>0, <1>4, <2>2, StoreShows, ComputeIs DEF Machine!Effect
<1> QED BY <1>3, <1>4

\* INC and DEC.
LEMMA UnopIsCompute ==
    ASSUME Ready, Unop, LookupsAreInBounds'
    PROVE  Machine!Effect \/ Machine!Fault
<1> DEFINE at == Place(Registers, inst)
           S == { p \in Machine!Places(inst) : Registers[p] # Uninit }
<1>0. TypeOK /\ Machine!inst = inst /\ inst.op \in UnaryOps
  BY ReadyIs DEF Unop
<1>1. Machine!NewRegisters =
          UNION { { [Registers EXCEPT ![a] = r] : r \in Checked(inst.op, Registers[a], 1) } : a \in S }
  BY <1>0, SameModel DEF Machine!NewRegisters, Machine!Write, UnaryOps, BinaryOps
<1>2. inst.n \in Usize
  BY <1>0, InstructionShape DEF TypeOK
<1>3. CASE UnopError(Registers, inst) # Ok
  <2>1. S = {} \/ (S = { at } /\ Checked(inst.op, Registers[at], 1) = {})
    BY <1>0, <1>2, <1>3, PlacesAre DEF UnopError, GetError
  <2>2. Machine!NewRegisters = {}
    <3> HIDE DEF S, at
    <3> QED BY <1>1, <2>1
  <2>3. Machine!Stuck
    BY <1>0, <2>2, SameModel DEF Machine!Stuck
  <2>4. inst.op # "READ"
    BY <1>0 DEF UnaryOps
  <2> QED BY <1>0, <1>3, <2>3, <2>4, UnopShows, FailsIsFault
<1>4. CASE UnopError(Registers, inst) = Ok
  <2>1. S = { at }
    BY <1>0, <1>2, <1>4, PlacesAre DEF UnopError, GetError, Ok
  <2>2. PICK n \in Checked(inst.op, Registers[at], 1) : Registers' = [Registers EXCEPT ![at] = n]
    BY <1>0, <1>4, UnopShows
  <2>3. Registers' \in Machine!NewRegisters
    <3>1. Registers' \in { [Registers EXCEPT ![at] = r] : r \in Checked(inst.op, Registers[at], 1) }
      BY <2>2
    <3> HIDE DEF S, at
    <3> QED BY <1>1, <2>1, <3>1
  <2> QED BY <1>0, <1>4, <2>3, UnopShows, ComputeIs DEF Machine!Effect
<1> QED BY <1>3, <1>4

\* ADD, SUB, MUL, DIV and MOD.
LEMMA BinopIsCompute ==
    ASSUME Ready, Binop, LookupsAreInBounds'
    PROVE  Machine!Effect \/ Machine!Fault
<1> DEFINE v == Fetched(Registers, inst)
           Results(acc, w) == Checked(inst.op, acc, w)
           Sums == UNION { Results(acc, w) : acc \in Machine!ACC, w \in Machine!Operands(inst) }
<1>0. TypeOK /\ Machine!inst = inst /\ inst.op \in BinaryOps
  BY ReadyIs DEF Binop
<1>1. Machine!NewRegisters = { [Registers EXCEPT ![0] = r] : r \in Sums }
  BY <1>0, SameModel DEF Machine!NewRegisters, Machine!Write, UnaryOps, BinaryOps
<1>2. IF inst.mode = "const" THEN inst.n \in Number ELSE inst.n \in Usize
  BY <1>0, InstructionShape DEF TypeOK
<1>3. CASE BinopError(Registers, inst) # Ok
  <2>1. \/ Machine!ACC = {} \/ Machine!Operands(inst) = {}
        \/ /\ Machine!ACC = { Registers[0] } /\ Machine!Operands(inst) = { v }
           /\ Results(Registers[0], v) = {}
    BY <1>0, <1>2, <1>3, OperandsAre, AccumulatorIs DEF BinopError
  <2>2. Machine!NewRegisters = {}
    <3> HIDE DEF Results, v
    <3> QED BY <1>1, <2>1
  <2>3. Machine!Stuck
    BY <1>0, <2>2, SameModel DEF Machine!Stuck
  <2>4. inst.op # "READ"
    BY <1>0 DEF BinaryOps
  <2> QED BY <1>0, <1>3, <2>3, <2>4, BinopShows, FailsIsFault
<1>4. CASE BinopError(Registers, inst) = Ok
  <2>1. Machine!ACC = { Registers[0] } /\ Machine!Operands(inst) = { v }
    BY <1>0, <1>2, <1>4, OperandsAre, AccumulatorIs DEF BinopError, Ok
  <2>2. PICK n \in Results(Registers[0], v) : Registers' = [Registers EXCEPT ![0] = n]
    BY <1>0, <1>4, BinopShows
  <2>3. Registers' \in Machine!NewRegisters
    <3>1. n \in Sums
      BY <2>1
    <3> HIDE DEF Sums
    <3>2. [Registers EXCEPT ![0] = n] \in Machine!NewRegisters
      BY <1>1, <3>1
    <3> QED BY <2>2, <3>2
  <2> QED BY <1>0, <1>4, <2>3, BinopShows, ComputeIs DEF Machine!Effect
<1> QED BY <1>3, <1>4

\* READ.
LEMMA ReadIsInput ==
    ASSUME Ready, Read, LookupsAreInBounds'
    PROVE  Machine!Effect \/ Machine!Fault
<1>0. TypeOK /\ Machine!inst = inst /\ inst.op = "READ"
  BY ReadyIs DEF Read
<1>1. CASE Answer = None
  <2>1. Machine!Stuck
    BY <1>0, <1>1, ReceivedIs DEF Machine!Stuck
  <2>2. Fails("ReadEof") /\ input' = << >>
    BY <1>0, <1>1, ReadShows, NoAnswerIsFinal
  <2> QED BY <1>0, <2>1, <2>2, FailsIsFault DEF Ok
<1>2. CASE Answer # None
  <2>1. /\ GoesOn /\ input' = Tail(input) /\ output' = output
        /\ Registers' = Machine!Write(0, Answer) /\ Machine!Received = { Answer }
    BY <1>0, <1>2, ReadShows, ReceivedIs DEF Machine!Write
  <2>2. Machine!GoTo(ir + 1)
    BY <2>1, GoesOnIsGoTo
  <2> QED BY <1>0, <2>1, <2>2 DEF Machine!Effect, Machine!Input
<1> QED BY <1>1, <1>2

\* WRITE.
LEMMA WriteIsOutput ==
    ASSUME Ready, Write, LookupsAreInBounds'
    PROVE  Machine!Effect \/ Machine!Fault
<1>0. TypeOK /\ Machine!inst = inst /\ inst.op = "WRITE"
  BY ReadyIs DEF Write
<1>1. CASE AccError(Registers) # Ok
  <2>1. Machine!Stuck
    BY <1>0, <1>1, AccumulatorIs DEF Machine!Stuck
  <2> QED BY <1>0, <1>1, <2>1, WriteShows, FailsIsFault
<1>2. CASE AccError(Registers) = Ok
  <2>1. /\ GoesOn /\ input' = input /\ Registers' = Registers
        /\ output' = Append(output, Registers[0]) /\ Machine!ACC = { Registers[0] }
    BY <1>0, <1>2, WriteShows, AccumulatorIs
  <2>2. Machine!GoTo(ir + 1)
    BY <2>1, GoesOnIsGoTo
  <2> QED BY <1>0, <2>1, <2>2 DEF Machine!Effect, Machine!Output
<1> QED BY <1>1, <1>2

\* JUMP.
LEMMA AlwaysJumpIsBranch ==
    ASSUME Ready, AlwaysJump, LookupsAreInBounds'
    PROVE  Machine!Effect \/ Machine!Fault
<1>0. TypeOK /\ Machine!inst = inst /\ inst.op = "JUMP"
  BY ReadyIs DEF AlwaysJump
<1>1. inst.n \in Usize
  BY <1>0, InstructionShape DEF TypeOK, JumpOps
<1>2. CASE JumpError(Registers, inst) # Ok
  <2>1. Machine!Stuck
    BY <1>0, <1>1, <1>2, DestinationsAre DEF Machine!Stuck
  <2> QED BY <1>0, <1>2, <2>1, AlwaysJumpShows, FailsIsFault
<1>3. CASE JumpError(Registers, inst) = Ok
  <2>1. /\ Jumped(JumpTo(Registers, inst)) /\ UNCHANGED <<input, output>> /\ Registers' = Registers
        /\ Machine!Destinations(inst) = { JumpTo(Registers, inst) }
    BY <1>0, <1>1, <1>3, AlwaysJumpShows, DestinationsAre
  <2>2. Machine!GoTo(JumpTo(Registers, inst))
    BY <2>1, JumpedIsGoTo
  <2> QED BY <1>0, <2>1, <2>2, SameModel DEF Machine!Effect, Machine!Branch, JumpOps
<1> QED BY <1>2, <1>3

\* JUMZ, JUML and JUMG.
LEMMA MayJumpIsBranch ==
    ASSUME Ready, MayJump, LookupsAreInBounds'
    PROVE  Machine!Effect \/ Machine!Fault
<1>0. TypeOK /\ Machine!inst = inst /\ inst.op \in ConditionalJumps
  BY ReadyIs DEF MayJump
<1>1. inst.n \in Usize /\ inst.op \in JumpOps /\ inst.op \notin {"READ", "JUMP"}
  BY <1>0, InstructionShape DEF TypeOK, JumpOps, ConditionalJumps
<1>2. Jumps(inst.op, Registers[0]) <=> Machine!Taken(inst.op, Registers[0])
  BY <1>1 DEF Jumps, Machine!Taken
<1>3. CASE AccError(Registers) # Ok
  <2>1. Machine!Stuck
    BY <1>0, <1>3, AccumulatorIs, SameModel DEF Machine!Stuck
  <2> QED BY <1>0, <1>1, <1>3, <2>1, MayJumpShows, FailsIsFault DEF MayJumpError
<1>4. CASE AccError(Registers) = Ok /\ ~Jumps(inst.op, Registers[0])
  <2>1. GoesOn /\ UNCHANGED <<input, output>> /\ Registers' = Registers
    BY <1>0, <1>4, MayJumpShows DEF MayJumpError, Ok
  <2>2. Machine!GoTo(ir + 1) /\ Machine!ACC = { Registers[0] }
    BY <1>4, <2>1, GoesOnIsGoTo, AccumulatorIs
  <2> QED BY <1>0, <1>2, <1>4, <2>1, <2>2, SameModel DEF Machine!Effect, Machine!GoOn
<1>5. CASE /\ AccError(Registers) = Ok /\ Jumps(inst.op, Registers[0])
           /\ JumpError(Registers, inst) # Ok
  <2>1. Machine!ACC = { Registers[0] } /\ Machine!Destinations(inst) = {}
    BY <1>0, <1>1, <1>5, AccumulatorIs, DestinationsAre
  <2>2. Machine!Stuck
    BY <1>0, <1>2, <1>5, <2>1, SameModel DEF Machine!Stuck
  <2> QED BY <1>0, <1>1, <1>5, <2>2, MayJumpShows, FailsIsFault DEF MayJumpError
<1>6. CASE /\ AccError(Registers) = Ok /\ Jumps(inst.op, Registers[0])
           /\ JumpError(Registers, inst) = Ok
  <2>1. /\ Jumped(JumpTo(Registers, inst)) /\ UNCHANGED <<input, output>> /\ Registers' = Registers
    BY <1>0, <1>6, MayJumpShows DEF MayJumpError, Ok
  <2>2. /\ Machine!GoTo(JumpTo(Registers, inst)) /\ Machine!ACC = { Registers[0] }
        /\ Machine!Destinations(inst) = { JumpTo(Registers, inst) }
    BY <1>0, <1>1, <1>6, <2>1, JumpedIsGoTo, AccumulatorIs, DestinationsAre
  <2> QED BY <1>0, <1>1, <1>2, <1>6, <2>1, <2>2, SameModel DEF Machine!Effect, Machine!Branch
<1> QED BY <1>3, <1>4, <1>5, <1>6

\* An Ok, the next step(): the machine's step, or at STOP none.
LEMMA ReadyStepIsMachineStep ==
    ASSUME Ready, Step, LookupsAreInBounds'
    PROVE  [Machine!Next]_(Machine!avars)
<1>0. code' = code /\ Machine!inst = inst
  BY ReadyIs DEF Step
<1>1. CASE Stop
  BY <1>0, <1>1 DEF Stop, Ready, Machine!avars, Registers
<1>2. CASE Nop
  <2>1. GoesOn /\ UNCHANGED <<input, output>> /\ Registers' = Registers
    BY <1>2, AdvanceShows, RegistersAreRegs DEF Nop
  <2>2. Machine!GoTo(ir + 1)
    BY <2>1, GoesOnIsGoTo
  <2>3. Machine!Effect
    BY <1>0, <1>2, <2>1, <2>2 DEF Nop, Machine!Effect, Machine!GoOn
  <2> QED BY <1>0, <2>3 DEF Ready, Machine!Next
<1>3. CASE Machine!Effect \/ Machine!Fault
  BY <1>0, <1>3 DEF Ready, Machine!Next
<1> QED
  BY <1>1, <1>2, <1>3, ReadIsInput, WriteIsOutput, LoadIsCompute, StoreIsCompute, UnopIsCompute,
     BinopIsCompute, AlwaysJumpIsBranch, MayJumpIsBranch DEF Step

\* Up to its first Eof a Ram implements the random-access machine, whatever the
\* program, the input, the width of the numbers and the size of the memory, as long as no
\* lookup is undefined: a panic is a fault like any error.
THEOREM RamImplementsMachine == Spec /\ []LookupsAreInBounds => ImplementsMachine
<1>1. Init => Machine!Init
  <2> SUFFICES ASSUME Init PROVE Machine!Init
    OBVIOUS
  <2>1. Registers = [a \in File |-> Uninit]
    BY DEF Init, Registers, File
  <2>2. (result # Ok) = FALSE
    BY DEF Init
  <2> QED BY <2>1, <2>2, SameModel DEF Init, Machine!Init
<1>2. TInv /\ LookupsAreInBounds' /\ [Next]_vars =>
          (result # "Eof" => [Machine!Next]_(Machine!avars))
  <2> SUFFICES ASSUME TInv, LookupsAreInBounds', [Next]_vars, result # "Eof"
               PROVE  [Machine!Next]_(Machine!avars)
    OBVIOUS
  <2>1. CASE Step /\ driver \in {"idle", "running"}
    <3>1. code # << >>
      BY <2>1 DEF TInv, Placed
    <3>2. CASE result = Ok
      BY <2>1, <3>1, <3>2, ReadyStepIsMachineStep DEF Ready
    <3>3. CASE result # Ok
      <4>1. result # "Undefined"
        BY <2>1 DEF TInv, Placed
      <4> QED BY <2>1, <3>3, <4>1, FailureRepeats DEF Machine!avars
    <3> QED BY <3>2, <3>3
  <2>2. CASE UNCHANGED machine
    BY <2>2 DEF machine, Machine!avars, Registers
  <2> QED BY <2>1, <2>2 DEF Next, CallStep, CallRun, RunIteration, vars, machine
<1> QED BY <1>1, <1>2, Traceable, PTL DEF Spec, ImplementsMachine
=============================================================================
