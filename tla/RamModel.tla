------------------------------ MODULE RamModel ------------------------------
(***************************************************************************)
(* The data model of the random-access machine (rame/src/model): integers  *)
(* of a bounded width, instructions, and the questions the machine and the *)
(* optimizer ask of an instruction.                                        *)
(***************************************************************************)
EXTENDS Integers, Sequences

CONSTANTS
    MaxInt,      \* T::max_value() of the number type T
    MaxUsize     \* the largest usize, hence the largest address

ASSUME WidthAssumption == MaxInt \in Nat \ {0} /\ MaxUsize \in Nat

\* T::min_value(), in two's complement.
MinInt == -MaxInt - 1

\* The values of the number type (a signed primitive integer).
Number == MinInt..MaxInt

\* The values of usize, the type of a register's address and of an Ir.
Usize == 0..MaxUsize

-----------------------------------------------------------------------------
(***************************************************************************)
(* Instructions are records with an operation, the mode of the operand and *)
(* the number that the operand holds:                                      *)
(*   "const"  #n    a constant          "adr"   n   a constant jump target *)
(*   "dir"    n     register n          "reg"   @n  a jump to the value of *)
(*   "ind"    @n    the register that               register n (feature    *)
(*                  register n points to            indirect_jumps)        *)
(***************************************************************************)
UnaryOps == {"INC", "DEC"}
BinaryOps == {"ADD", "SUB", "MUL", "DIV", "MOD"}
ConditionalJumps == {"JUMZ", "JUML", "JUMG"}
JumpOps == {"JUMP"} \cup ConditionalJumps

Inst(op, mode, n) == [op |-> op, mode |-> mode, n |-> n]

Register(Ops) == [op : Ops, mode : {"dir", "ind"}, n : Usize]

Value(Ops) == [op : Ops, mode : {"const"}, n : Number] \cup Register(Ops)

Address(Ops) == [op : Ops, mode : {"adr", "reg"}, n : Usize]

\* enum Instruction<T>.
Instruction ==
    [op : {"READ", "WRITE", "STOP", "NOP"}, mode : {"none"}, n : {0}]
        \cup Value({"LOAD"} \cup BinaryOps)
        \cup Register({"STORE"} \cup UnaryOps)
        \cup Address(JumpOps)

\* A RoCode: ir counts from 0, the positions of a sequence from 1.
At(code, ir) == code[ir + 1]

\* RoCode::get returns Some.
Exists(code, ir) == ir < Len(code)

\* Instruction::register: the first register that the instruction reads.
ReadsRegister(inst) ==
    \/ inst.op \in {"LOAD"} \cup BinaryOps \cup UnaryOps /\ inst.mode \in {"dir", "ind"}
    \/ inst.mode = "reg"

\* Instruction::jump: the target, as the set of at most one address (an Ir,
\* which is what Address is without the feature indirect_jumps).
JumpTargets(inst) == IF inst.op \in JumpOps THEN {inst.n} ELSE {}

-----------------------------------------------------------------------------
(***************************************************************************)
(* Arithmetic.  num-traits' checked operations return None when the exact  *)
(* result does not fit; division truncates toward zero.                    *)
(***************************************************************************)
Magnitude(a) == IF a < 0 THEN -a ELSE a

Quotient(a, b) ==
    LET q == Magnitude(a) \div Magnitude(b)
    IN  IF (a < 0) = (b < 0) THEN q ELSE -q

Exact(op, a, b) ==
    CASE op \in {"ADD", "INC"} -> a + b
      [] op \in {"SUB", "DEC"} -> a - b
      [] op = "MUL"            -> a * b
      [] op = "DIV"            -> Quotient(a, b)
      [] op = "MOD"            -> a - b * Quotient(a, b)

\* A bug: arithmetic that lets -MinInt through.
CheckedOffByOne(op, a, b) ==
    { r \in MinInt..(MaxInt + 1) : /\ op \in {"DIV", "MOD"} => b # 0
                                   /\ r = Exact(op, a, b) }

\* checked_add, checked_sub, checked_mul, checked_div, checked_rem: the set
\* holds the result, and is empty where Rust returns None.
Checked(op, a, b) ==
    { r \in Number : /\ op \in {"DIV", "MOD"} => b # 0
                     /\ op = "MOD" => ~(a = MinInt /\ b = -1)
                     /\ r = Exact(op, a, b) }
-----------------------------------------------------------------------------
(***************************************************************************)
(* RoCode::try_cast: a constant that the narrower type cannot hold fails   *)
(* it; registers and addresses are kept as they are.                       *)
(***************************************************************************)
MapsTo(inst, max) == inst.mode = "const" => inst.n \in (-max - 1)..max

CastFits(code, max) == \A i \in DOMAIN code : MapsTo(code[i], max)
=============================================================================
