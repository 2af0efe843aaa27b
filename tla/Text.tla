-------------------------------- MODULE Text --------------------------------
(***************************************************************************)
(* Programs as text (rame/src/model): what FromStr makes of a line, what   *)
(* Display writes, how RoCode::parse reads a file, and the cast of a code  *)
(* to a narrower number type.                                              *)
(*                                                                         *)
(* A line is a word followed by at most one operand, as split_once(' ')    *)
(* leaves them once comments and spaces are gone; an operand is a mark and *)
(* what stands behind it.  The digits of a number are not modelled, only   *)
(* whether they are a number, and which.                                   *)
(***************************************************************************)
EXTENDS RamModel, FiniteSets

CONSTANTS
    IndirectJumps,    \* the feature indirect_jumps
    NotANumber        \* digits that no integer type parses

ASSUME TextAssumption == IndirectJumps \in BOOLEAN /\ NotANumber \notin Int

Operand == [mark : {"", "#", "@"}, n : Int \cup {NotANumber}]

\* The instructions of this build: indirect jumps are a feature.
EnabledInstruction == { inst \in Instruction : inst.mode = "reg" => IndirectJumps }

TextLine == [word : STRING, param : Seq(Operand)]
Line(word, param) == [word |-> word, param |-> param]

\* Nothing, or a comment.
Blank == Line("", << >>)

-----------------------------------------------------------------------------
(***************************************************************************)
(* Instruction::from_str.                                                  *)
(***************************************************************************)
NoError == "none"

Parsed(op, mode, n) == [err |-> NoError, inst |-> Inst(op, mode, n)]
Rejected(e) == [err |-> e, inst |-> Inst("NOP", "none", 0)]

ParseRegister(op, p) ==
    IF p.mark = "#" \/ p.n \notin Usize THEN Rejected("InvalidRegister")
    ELSE Parsed(op, IF p.mark = "@" THEN "ind" ELSE "dir", p.n)

ParseValue(op, p) ==
    IF p.mark # "#" THEN ParseRegister(op, p)
    ELSE IF p.n \in Number THEN Parsed(op, "const", p.n)
    ELSE Rejected("InvalidValue")

ParseAddr(op, p) ==
    IF p.mark = "@" /\ ~IndirectJumps THEN Rejected("DisabledIndirect")
    ELSE IF p.mark = "#" \/ p.n \notin Usize THEN Rejected("InvalidAddress")
    ELSE Parsed(op, IF p.mark = "@" THEN "reg" ELSE "adr", p.n)

FromStr(line) ==
    CASE line.param = << >> /\ line.word \in {"READ", "WRITE", "STOP", "NOP"}
            -> Parsed(line.word, "none", 0)
      [] line.param # << >> /\ line.word \in {"LOAD"} \cup BinaryOps
            -> ParseValue(line.word, line.param[1])
      [] line.param # << >> /\ line.word \in {"STORE"} \cup UnaryOps
            -> ParseRegister(line.word, line.param[1])
      [] line.param # << >> /\ line.word \in JumpOps
            -> ParseAddr(line.word, line.param[1])
      [] OTHER -> Rejected("UnknownInstruction")

-----------------------------------------------------------------------------
(***************************************************************************)
(* Display.                                                                *)
(***************************************************************************)
MarkOf(mode) == CASE mode = "const"        -> "#"
                  [] mode \in {"ind", "reg"} -> "@"
                  [] OTHER                 -> ""

Show(inst) ==
    Line(inst.op, IF inst.mode = "none" THEN << >> ELSE <<[mark |-> MarkOf(inst.mode), n |-> inst.n]>>)

\* A code without instructions is written as the text <no code>.
NoCode == Line("<no code>", << >>)

ShowCode(code) == IF code = << >> THEN <<NoCode>> ELSE [i \in DOMAIN code |-> Show(code[i])]

-----------------------------------------------------------------------------
(***************************************************************************)
(* RoCode::parse: the instructions, or the first line that is none.        *)
(***************************************************************************)
BadLines(lines) == { i \in DOMAIN lines : lines[i] # Blank /\ FromStr(lines[i]).err # NoError }

\* The instructions that are pushed, of lines of which none is bad.
Pushed(lines) ==
    LET insts[n \in 0..Len(lines)] ==
            IF n = 0 THEN << >>
            ELSE IF lines[n] = Blank THEN insts[n - 1]
            ELSE Append(insts[n - 1], FromStr(lines[n]).inst)
    IN  insts[Len(lines)]

CodeError(e, i) == [err |-> e, line |-> i, code |-> << >>]

ParseCode(lines) ==
    LET bad == BadLines(lines)
        first == CHOOSE i \in bad : \A j \in bad : i <= j
    IN  IF bad # {} THEN CodeError(FromStr(lines[first]).err, first)
        ELSE IF Pushed(lines) = << >> THEN CodeError("NoInst", 0)
        ELSE [err |-> NoError, line |-> 0, code |-> Pushed(lines)]

=============================================================================
