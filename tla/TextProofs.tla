----------------------------- MODULE TextProofs -----------------------------
(***************************************************************************)
(* What Display writes is read back by FromStr, for every width of the     *)
(* numbers and of usize, with and without the feature indirect_jumps.      *)
(***************************************************************************)
EXTENDS Text, SequenceTheorems, TLAPS

Lemmas == INSTANCE RewriterProofs

\* Induction over an interval of the natural numbers.
LEMMA IntervalInduction ==
    ASSUME NEW b \in Nat, NEW S, 0 \in S, \A n \in 0..(b - 1) : n \in S => n + 1 \in S
    PROVE  \A n \in 0..b : n \in S
BY WidthAssumption, Lemmas!IntervalInduction

\* An instruction is its three fields.
LEMMA Fields ==
    ASSUME NEW inst \in Instruction
    PROVE  inst = Inst(inst.op, inst.mode, inst.n)
BY DEF Instruction, Register, Value, Address, Inst

\* What an instruction without an operand is written as is read back.
LEMMA PlainIsRead ==
    ASSUME NEW inst \in Instruction, inst.mode = "none"
    PROVE  FromStr(Show(inst)) = Parsed(inst.op, inst.mode, inst.n)
<1>1. inst.op \in {"READ", "WRITE", "STOP", "NOP"} /\ inst.n = 0
  BY DEF Instruction, Register, Value, Address
<1>2. Show(inst).word = inst.op /\ Show(inst).param = << >>
  BY DEF Show, Line
<1> QED BY <1>1, <1>2 DEF FromStr

\* The operand that is written.
LEMMA ShownOperand ==
    ASSUME NEW inst \in Instruction, inst.mode # "none"
    PROVE  LET p == [mark |-> MarkOf(inst.mode), n |-> inst.n]
           IN  /\ Show(inst).word = inst.op
               /\ Show(inst).param = <<p>>
               /\ Show(inst).param # << >> /\ Show(inst).param[1] = p
BY DEF Show, Line

\* The operand of an instruction that takes a register is read back.
LEMMA RegisterIsRead ==
    ASSUME NEW inst, NEW n \in Usize, NEW mode \in {"dir", "ind"}
    PROVE  ParseRegister(inst, [mark |-> MarkOf(mode), n |-> n]) = Parsed(inst, mode, n)
BY DEF ParseRegister, MarkOf

\* What an instruction with an operand is written as is read back.
LEMMA OperandIsRead ==
    ASSUME NEW inst \in Instruction, inst \in EnabledInstruction, inst.mode # "none"
    PROVE  FromStr(Show(inst)) = Parsed(inst.op, inst.mode, inst.n)
<1> DEFINE p == [mark |-> MarkOf(inst.mode), n |-> inst.n]
<1>1. /\ Show(inst).word = inst.op
      /\ Show(inst).param # << >>
      /\ Show(inst).param[1] = p
  BY ShownOperand
<1>2. p.mark = MarkOf(inst.mode) /\ p.n = inst.n
  OBVIOUS
<1>3. CASE inst \in Value({"LOAD"} \cup BinaryOps)
  <2>1. inst.op \in {"LOAD"} \cup BinaryOps
    BY <1>3 DEF Value, Register
  <2>2. FromStr(Show(inst)) = ParseValue(inst.op, p)
    BY <1>1, <2>1 DEF FromStr, BinaryOps, UnaryOps, JumpOps, ConditionalJumps
  <2>3. CASE inst.mode = "const"
    <3>1. inst.n \in Number
      BY <1>3, <2>3 DEF Value, Register
    <3> QED BY <1>2, <2>2, <2>3, <3>1 DEF ParseValue, MarkOf
  <2>4. CASE inst.mode # "const"
    <3>1. inst.mode \in {"dir", "ind"} /\ inst.n \in Usize
      BY <1>3, <2>4 DEF Value, Register
    <3>2. p.mark # "#"
      BY <1>2, <3>1 DEF MarkOf
    <3>3. ParseValue(inst.op, p) = ParseRegister(inst.op, p)
      BY <3>2 DEF ParseValue
    <3> QED BY <2>2, <3>1, <3>3, RegisterIsRead
  <2> QED BY <2>3, <2>4
<1>4. CASE inst \in Register({"STORE"} \cup UnaryOps)
  <2>1. inst.op \in {"STORE"} \cup UnaryOps /\ inst.mode \in {"dir", "ind"} /\ inst.n \in Usize
    BY <1>4 DEF Register
  <2>2. FromStr(Show(inst)) = ParseRegister(inst.op, p)
    BY <1>1, <2>1 DEF FromStr, BinaryOps, UnaryOps, JumpOps, ConditionalJumps
  <2> QED BY <2>1, <2>2, RegisterIsRead
<1>5. CASE inst \in Address(JumpOps)
  <2>1. inst.op \in JumpOps /\ inst.mode \in {"adr", "reg"} /\ inst.n \in Usize
    BY <1>5 DEF Address
  <2>2. FromStr(Show(inst)) = ParseAddr(inst.op, p)
    BY <1>1, <2>1 DEF FromStr, BinaryOps, UnaryOps, JumpOps, ConditionalJumps
  <2> QED BY <1>2, <2>1, <2>2 DEF ParseAddr, MarkOf, EnabledInstruction
<1> QED BY <1>3, <1>4, <1>5 DEF Instruction

\* What FromStr accepts is an instruction of this build.
LEMMA ParsedIsEnabled ==
    ASSUME NEW line, FromStr(line).err = NoError
    PROVE  FromStr(line).inst \in EnabledInstruction
<1> DEFINE op == line.word
           p == line.param[1]
<1>1. \A q : /\ ParseRegister(op, q).err = NoError =>
                   \E mode \in {"dir", "ind"}, n \in Usize : ParseRegister(op, q) = Parsed(op, mode, n)
             /\ ParseAddr(op, q).err = NoError =>
                   \E mode \in {"adr", "reg"}, n \in Usize :
                        ParseAddr(op, q) = Parsed(op, mode, n) /\ (mode = "reg" => IndirectJumps)
  BY DEF ParseRegister, ParseAddr, Rejected, NoError
<1>2. CASE op \in {"READ", "WRITE", "STOP", "NOP"} /\ line.param = << >>
  BY <1>2 DEF FromStr, Parsed, Inst, EnabledInstruction, Instruction
<1>3. CASE op \in {"LOAD"} \cup BinaryOps /\ line.param # << >>
  <2>1. FromStr(line) = ParseValue(op, p)
    BY <1>3 DEF FromStr, BinaryOps, UnaryOps, JumpOps, ConditionalJumps
  <2>2. CASE p.mark # "#"
    <3>1. ParseValue(op, p) = ParseRegister(op, p)
      BY <2>2 DEF ParseValue
    <3>2. PICK mode \in {"dir", "ind"}, n \in Usize : FromStr(line) = Parsed(op, mode, n)
      BY <1>1, <2>1, <3>1
    <3> QED BY <1>3, <3>2 DEF Parsed, Inst, EnabledInstruction, Instruction, Value, Register
  <2>3. CASE p.mark = "#"
    <3>1. p.n \in Number /\ FromStr(line) = Parsed(op, "const", p.n)
      BY <2>1, <2>3 DEF ParseValue, Rejected, NoError
    <3> QED BY <1>3, <3>1 DEF Parsed, Inst, EnabledInstruction, Instruction, Value, Register
  <2> QED BY <2>2, <2>3
<1>4. CASE op \in {"STORE"} \cup UnaryOps /\ line.param # << >>
  <2>1. FromStr(line) = ParseRegister(op, p)
    BY <1>4 DEF FromStr, BinaryOps, UnaryOps, JumpOps, ConditionalJumps
  <2>2. PICK mode \in {"dir", "ind"}, n \in Usize : FromStr(line) = Parsed(op, mode, n)
    BY <1>1, <2>1
  <2> QED BY <1>4, <2>2 DEF Parsed, Inst, EnabledInstruction, Instruction, Register
<1>5. CASE op \in JumpOps /\ line.param # << >>
  <2>1. FromStr(line) = ParseAddr(op, p)
    BY <1>5 DEF FromStr, BinaryOps, UnaryOps, JumpOps, ConditionalJumps
  <2>2. PICK mode \in {"adr", "reg"}, n \in Usize :
            FromStr(line) = Parsed(op, mode, n) /\ (mode = "reg" => IndirectJumps)
    BY <1>1, <2>1
  <2> QED BY <1>5, <2>2 DEF Parsed, Inst, EnabledInstruction, Instruction, Address
<1>6. \/ op \in {"READ", "WRITE", "STOP", "NOP"} /\ line.param = << >>
      \/ line.param # << >> /\ op \in {"LOAD"} \cup BinaryOps \cup {"STORE"} \cup UnaryOps \cup JumpOps
  BY DEF FromStr, Rejected, NoError
<1> QED BY <1>2, <1>3, <1>4, <1>5, <1>6

-----------------------------------------------------------------------------

\* FromStr gives back the instruction that Display has written (rame/src/model/inst.rs).
THEOREM InstructionIsRead ==
    ASSUME NEW inst \in EnabledInstruction
    PROVE  FromStr(Show(inst)) = [err |-> NoError, inst |-> inst]
<1>1. inst \in Instruction
  BY DEF EnabledInstruction
<1>2. FromStr(Show(inst)) = Parsed(inst.op, inst.mode, inst.n)
  BY <1>1, PlainIsRead, OperandIsRead
<1> QED BY <1>1, <1>2, Fields DEF Parsed

\* RoCode::parse finds no bad line in what Display writes of a code that is not empty; every
\* line is one of its instructions (rame/src/model/ro.rs).
THEOREM CodeIsRead ==
    ASSUME NEW code \in Seq(EnabledInstruction), code # << >>
    PROVE  /\ BadLines(ShowCode(code)) = {}
           /\ DOMAIN ShowCode(code) = DOMAIN code
           /\ \A i \in DOMAIN code : /\ FromStr(ShowCode(code)[i]).inst = code[i]
                                     /\ ShowCode(code)[i] # Blank
<1>1. ShowCode(code) = [i \in DOMAIN code |-> Show(code[i])]
  BY DEF ShowCode
<1>2. ASSUME NEW i \in DOMAIN code
      PROVE  FromStr(ShowCode(code)[i]) = [err |-> NoError, inst |-> code[i]] /\ ShowCode(code)[i] # Blank
  <2>1. code[i] \in EnabledInstruction /\ ShowCode(code)[i] = Show(code[i])
    BY <1>1
  <2>2. FromStr(Show(code[i])) = [err |-> NoError, inst |-> code[i]]
    BY <2>1, InstructionIsRead
  <2>3. FromStr(Blank).err # NoError
    BY DEF FromStr, Blank, Line, Rejected, NoError, BinaryOps, UnaryOps, JumpOps, ConditionalJumps
  <2> QED BY <2>1, <2>2, <2>3
<1> QED BY <1>1, <1>2 DEF BadLines

\* The one code that is not read back is the empty one: its text is no instruction, so that
\* rame-opt cannot read what it wrote of it (RoCode's Display).
THEOREM EmptyCodeIsNotRead == BadLines(ShowCode(<< >>)) = {1}
<1>1. ShowCode(<< >>) = <<NoCode>>
  BY DEF ShowCode
<1>2. NoCode # Blank
  BY DEF NoCode, Blank, Line
<1>3. FromStr(NoCode).err # NoError
  BY DEF FromStr, NoCode, Line, Rejected, NoError, BinaryOps, UnaryOps, JumpOps, ConditionalJumps
<1> QED BY <1>1, <1>2, <1>3 DEF BadLines

\* What has been pushed after n lines.
PushedRecursion(f, lines) ==
    f = [n \in 0..Len(lines) |->
            IF n = 0 THEN << >>
            ELSE IF lines[n] = Blank THEN f[n - 1]
            ELSE Append(f[n - 1], FromStr(lines[n]).inst)]

\* Of what Display writes of a code, every line pushes its instruction.
LEMMA CodeIsPushed ==
    ASSUME NEW code \in Seq(EnabledInstruction), code # << >>
    PROVE  Pushed(ShowCode(code)) = code
<1> DEFINE lines == ShowCode(code)
           N == Len(code)
           prefixes == [n \in 0..N |-> SubSeq(code, 1, n)]
           f == CHOOSE g : PushedRecursion(g, lines)
<1>1. Len(lines) = N /\ N \in Nat
  BY DEF ShowCode
<1>2. \A n \in 1..N : FromStr(lines[n]).inst = code[n] /\ lines[n] # Blank
  BY CodeIsRead
<1> HIDE DEF lines
<1>3. \A n \in 1..N : SubSeq(code, 1, n) = Append(SubSeq(code, 1, n - 1), code[n])
  OBVIOUS
<1>4. PushedRecursion(prefixes, lines)
  <2>1. ASSUME NEW n \in 0..N
        PROVE  prefixes[n] = IF n = 0 THEN << >>
                             ELSE IF lines[n] = Blank THEN prefixes[n - 1]
                             ELSE Append(prefixes[n - 1], FromStr(lines[n]).inst)
    <3>1. CASE n = 0
      BY <3>1
    <3>2. CASE n # 0
      <4>1. n \in 1..N /\ n - 1 \in 0..N
        BY <1>1, <3>2
      <4>2. prefixes[n] = Append(prefixes[n - 1], code[n])
        BY <1>3, <4>1
      <4> QED BY <1>2, <3>2, <4>1, <4>2
    <3> QED BY <3>1, <3>2
  <2> QED BY <1>1, <2>1 DEF PushedRecursion
<1>5. PushedRecursion(f, lines)
  BY <1>4
<1> HIDE DEF f
<1>6. \A n \in 0..N : f[n] = prefixes[n]
  <2> DEFINE same == { n \in 0..N : f[n] = prefixes[n] }
  <2>1. 0 \in same
    BY <1>1, <1>4, <1>5 DEF PushedRecursion
  <2>2. ASSUME NEW n \in 0..(N - 1), n \in same
        PROVE  n + 1 \in same
    <3>1. n + 1 \in 0..N /\ n + 1 # 0 /\ (n + 1) - 1 = n /\ n + 1 \in 1..N
      BY <1>1
    <3>2. f[n + 1] = Append(f[n], FromStr(lines[n + 1]).inst)
      BY <1>1, <1>2, <1>5, <3>1 DEF PushedRecursion
    <3>3. prefixes[n + 1] = Append(prefixes[n], FromStr(lines[n + 1]).inst)
      BY <1>1, <1>2, <1>4, <3>1 DEF PushedRecursion
    <3> HIDE DEF prefixes
    <3> QED BY <2>2, <3>1, <3>2, <3>3
  <2> HIDE DEF same
  <2>3. \A n \in 0..N : n \in same
    BY <1>1, <2>1, <2>2, IntervalInduction
  <2> QED BY <2>3 DEF same
<1>7. Pushed(lines) = f[N]
  BY <1>1 DEF Pushed, PushedRecursion, f
<1>8. f[N] = SubSeq(code, 1, N)
  BY <1>1, <1>6
<1> QED BY <1>7, <1>8 DEF lines

\* RoCode::parse gives back the code that Display has written, but for the empty one, which
\* it refuses (rame/src/model/ro.rs).
THEOREM CodeIsReadBack ==
    ASSUME NEW code \in Seq(EnabledInstruction)
    PROVE  /\ ParseCode(ShowCode(code)).code = code
           /\ ParseCode(ShowCode(code)).err = NoError <=> code # << >>
<1>1. CASE code # << >>
  <2>1. BadLines(ShowCode(code)) = {} /\ Pushed(ShowCode(code)) = code
    BY <1>1, CodeIsRead, CodeIsPushed
  <2>2. ParseCode(ShowCode(code)) = [err |-> NoError, line |-> 0, code |-> code]
    BY <1>1, <2>1 DEF ParseCode
  <2> QED BY <1>1, <2>2
<1>2. CASE code = << >>
  <2>1. BadLines(ShowCode(code)) = {1} /\ ShowCode(code) = <<NoCode>>
    BY <1>2, EmptyCodeIsNotRead DEF ShowCode
  <2>2. (CHOOSE i \in {1} : \A j \in {1} : i <= j) = 1
    OBVIOUS
  <2>3. ParseCode(ShowCode(code)) = CodeError(FromStr(NoCode).err, 1)
    BY <2>1, <2>2 DEF ParseCode
  <2>4. FromStr(NoCode).err # NoError
    BY DEF FromStr, NoCode, Line, Rejected, NoError, BinaryOps, UnaryOps, JumpOps, ConditionalJumps
  <2> QED BY <1>2, <2>3, <2>4 DEF CodeError
<1> QED BY <1>1, <1>2
=============================================================================
