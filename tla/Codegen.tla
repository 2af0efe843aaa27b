------------------------------ MODULE Codegen -------------------------------
(***************************************************************************)
(* The code that the compiler generates for a tree                         *)
(* (compiler/src/ram/codegen.c).  At run time, register 1 holds the base   *)
(* of the function's frame, register 2 the first cell after the frame and  *)
(* the temporaries, and register 3 an address to store at.                 *)
(*                                                                         *)
(* out is what was generated: the code, whose length is *ip, the list      *)
(* dyn_jumps of return addresses, and the error that ended the process.    *)
(* g is what the generation of a function reads: its table, the functions  *)
(* with their addresses (fn_locations) and dyn_jump_adr.                   *)
(***************************************************************************)
EXTENDS Asa, RamModel

Dir(op, n) == Inst(op, "dir", n)
Const(op, n) == Inst(op, "const", n)
Ind(op, n) == Inst(op, "ind", n)
Jmp(op, to) == Inst(op, "adr", to)
Plain(op) == Inst(op, "none", 0)

NOP == Plain("NOP")

Output(code) == [code |-> code, dyn_jumps |-> << >>, err |-> "none"]
Emit(out, insts) == [out EXCEPT !.code = @ \o insts]
Ip(out) == Len(out.code)

RECURSIVE Concat(_)
Concat(ss) == IF ss = << >> THEN << >> ELSE Head(ss) \o Concat(Tail(ss))

BaseOf(g, id) == Find(g.st, id).base_adr

\* R3 := the address of id, of id[ACC].
Point(g, id) == <<Dir("LOAD", 1), Const("ADD", BaseOf(g, id)), Dir("STORE", 3)>>
PointAt(g, id) == <<Dir("ADD", 1), Const("ADD", BaseOf(g, id)), Dir("STORE", 3)>>

\* A bug: a temporary that is not taken off the free cells.
PushKeepsTop == <<Ind("STORE", 2), NOP>>

Push == <<Ind("STORE", 2), Dir("INC", 2)>>

\* binop_name.
BinopName(op) ==
    CASE op = "OpAdd" -> "ADD" [] op = "OpMul" -> "MUL" [] op = "OpDiv" -> "DIV"
      [] op = "OpMod" -> "MOD" [] OTHER -> "SUB"

\* The jump after x - y, and what the comparison is where it is taken.
Comparison(op) ==
    CASE op = "OpGe" -> <<"JUML", 0>> [] op = "OpGt" -> <<"JUMG", 1>>
      [] op = "OpLe" -> <<"JUMG", 0>> [] op = "OpLt" -> <<"JUML", 1>>
      [] op = "OpEq" -> <<"JUMZ", 1>> [] op = "OpNe" -> <<"JUMZ", 0>>

\* ACC := v if the jump is taken, 1 - v if it is not.
Decide(out, jump, v) ==
    Emit(out, <<Jmp(jump, Ip(out) + 3), Const("LOAD", 1 - v), Jmp("JUMP", Ip(out) + 4), Const("LOAD", v)>>)

Compare(out, op) ==
    IF op \in Comparative THEN Decide(out, Comparison(op)[1], Comparison(op)[2]) ELSE out

-----------------------------------------------------------------------------
(***************************************************************************)
(* Returns: the addresses that the code jumps back to.                     *)
(***************************************************************************)

\* add_dyn_jump_adr: before the first of those after the head that is larger.
AddDynJump(list, adr) ==
    LET Larger == { i \in 2..Len(list) : list[i] > adr }
        at == IF Larger = {} THEN Len(list) + 1 ELSE CHOOSE i \in Larger : \A j \in Larger : i <= j
    IN  SubSeq(list, 1, at - 1) \o <<adr>> \o SubSeq(list, at, Len(list))

\* A bug: sum is not kept up to date.
DynJumpCodeNoSum(list) ==
    <<NOP>> \o Concat([i \in DOMAIN list |-> <<Const("SUB", list[i]), Jmp("JUMZ", list[i])>>]) \o <<Plain("STOP")>>

\* codegen_dyn_jump.
DynJumpCode(list) ==
    <<NOP>> \o Concat([i \in DOMAIN list |->
                  <<Const("SUB", list[i] - (IF i = 1 THEN 0 ELSE list[i - 1])), Jmp("JUMZ", list[i])>>])
            \o <<Plain("STOP")>>

HasFn(g, id) == \E i \in DOMAIN g.fns : g.fns[i].fn.identifier = id

\* get_fn.
GetFn(g, id) == g.fns[CHOOSE i \in DOMAIN g.fns : g.fns[i].fn.identifier = id]

-----------------------------------------------------------------------------
(***************************************************************************)
(* codegen_nc, the rules that need those of their operands.                *)
(***************************************************************************)
RECURSIVE Gen(_, _, _), GenArgs(_, _, _, _), GenList(_, _, _)

GenBinop(p, out, g) ==
    LET lhs == p.kids[1]
        rhs == p.kids[2]
        pushed == Emit(Gen(rhs, out, g), Push)
    IN  IF rhs.tag = "Int"
        THEN Compare(Emit(Gen(lhs, out, g), <<Const(BinopName(p.op), rhs.n)>>), p.op)
        ELSE Compare(Emit(Gen(lhs, pushed, g), <<Dir("DEC", 2), Ind(BinopName(p.op), 2)>>), p.op)

\* The second operand is not evaluated where the first decides.
GenShort(p, out, g) ==
    LET left == Gen(p.kids[1], Emit(out, <<NOP>>), g)
        over == Ip(left) + p.kids[2].ninst + 2
        test == IF p.op = "OpAnd" THEN <<Jmp("JUMZ", over)>>
                ELSE <<Jmp("JUMZ", Ip(left) + 2), Jmp("JUMP", over + 1)>>
    IN  Gen(p.kids[2], Emit(left, test \o <<NOP>>), g)

GenXor(p, out, g) ==
    LET left == Gen(p.kids[1], Emit(out, <<NOP>>), g)
        right == Gen(p.kids[2], Emit(left, Push \o <<NOP>>), g)
    IN  Emit(right, <<NOP, Dir("DEC", 2), Jmp("JUMZ", Ip(right) + 5), Ind("SUB", 2),
                      Jmp("JUMP", Ip(right) + 6), Ind("LOAD", 2)>>)

GenUnop(p, out, g) ==
    LET expr == Gen(p.kids[1], out, g)
    IN  IF p.op = "OpNeg" THEN Emit(expr, <<Ind("STORE", 2), Const("LOAD", 0), Ind("SUB", 2)>>)
        ELSE Decide(expr, "JUMZ", 1)

GenAssignIndexed(p, out, g) ==
    LET pushed == Emit(Gen(p.kids[2], out, g), Push)
    IN  Emit(Gen(p.kids[1], pushed, g), <<Dir("DEC", 2)>> \o PointAt(g, p.id) \o <<Ind("LOAD", 2), Ind("STORE", 3)>>)

\* Each element of a list is stored as soon as it is known.
GenList(ps, out, g) ==
    IF ps = << >> THEN out
    ELSE GenList(Tail(ps), Emit(Gen(Head(ps), out, g), <<Ind("STORE", 3), Dir("INC", 3)>>), g)

GenTest(p, out, g) ==
    LET then == p.kids[2]
        else == p.kids[3]
        expr == Gen(p.kids[1], out, g)
        taken == Gen(then, Emit(expr, <<Jmp("JUMZ", Ip(expr) + then.ninst + 2 + (IF else = Null THEN 0 ELSE 1)), NOP>>), g)
        other == IF else = Null THEN taken
                 ELSE Gen(else, Emit(taken, <<Jmp("JUMP", Ip(taken) + else.ninst + 2), NOP>>), g)
    IN  Emit(other, <<NOP>>)

\* A bug: the loop is left by jumping to the jump that goes on with it.
GenWhileStays(p, out, g) ==
    LET expr == Gen(p.kids[1], out, g)
        body == Gen(p.kids[2], Emit(expr, <<Jmp("JUMZ", Ip(expr) + p.kids[2].ninst + 1)>>), g)
    IN  Emit(body, <<Jmp("JUMP", Ip(out))>>)

GenWhile(p, out, g) ==
    LET expr == Gen(p.kids[1], out, g)
        body == Gen(p.kids[2], Emit(expr, <<Jmp("JUMZ", Ip(expr) + p.kids[2].ninst + 2)>>), g)
    IN  Emit(body, <<Jmp("JUMP", Ip(out))>>)

\* The arguments from the last to the first, each stored where the callee has its parameter.
GenArgs(args, out, g, k) ==
    IF k = 0 THEN out
    ELSE GenArgs(args, Emit(Gen(args[k], out, g),
                     <<Ind("STORE", 2), Dir("LOAD", 2), Const("ADD", k - 1), Dir("STORE", 3),
                       Ind("LOAD", 2), Ind("STORE", 3)>>), g, k - 1)

\* A bug: R2 is not taken down.
AfterCallKeepsTop ==
    <<Dir("LOAD", 2), Const("SUB", 3), NOP, Ind("LOAD", 0), Dir("STORE", 1),
      Dir("LOAD", 2), NOP, Ind("LOAD", 0)>>

\* R2 is taken down by three, R1 loaded from there, and the value from above.
AfterCall ==
    <<Dir("LOAD", 2), Const("SUB", 3), Dir("STORE", 2), Ind("LOAD", 0), Dir("STORE", 1),
      Dir("LOAD", 2), Const("ADD", 3), Ind("LOAD", 0)>>

\* R1 and the return address are pushed, the arguments follow.
GenCall(p, out, g) ==
    LET callee == GetFn(g, p.id)
        back == Ip(out) + 10 + Total(p.kids) + 6 * Len(p.kids)
        pushed == Emit([out EXCEPT !.dyn_jumps = AddDynJump(@, back)],
                       <<NOP, Dir("LOAD", 1)>> \o Push \o <<Const("LOAD", back)>> \o Push)
        called == GenArgs(p.kids, pushed, g, Len(p.kids))
    IN  IF ~HasFn(g, p.id) \/ Len(callee.fn.params) # Len(p.kids) THEN [out EXCEPT !.err = "exited"]
        ELSE IF called.err = "none" /\ back # Ip(called) + 3 THEN [called EXCEPT !.err = "internal"]
        ELSE Emit(called, <<Dir("LOAD", 2), Dir("STORE", 1), Jmp("JUMP", callee.adr)>> \o AfterCall)

GenReturn(p, out, g) ==
    LET value == IF p.kids = << >> THEN Emit(out, <<Const("LOAD", 0)>>) ELSE Gen(p.kids[1], out, g)
    IN  Emit(value, <<Ind("STORE", 2), Dir("DEC", 1), Ind("LOAD", 1), Jmp("JUMP", g.dyn)>>)

\* The cells of an array, one after the other.
ForEach(g, id, insts) == Concat([i \in 1..Find(g.st, id).size |-> insts])

GenCopy(p, g) ==
    Point(g, p.id) \o Concat([i \in 1..Find(g.st, p.id).size |->
        <<Dir("LOAD", 1), Const("ADD", BaseOf(g, p.op) + i - 1), Ind("LOAD", 0), Ind("STORE", 3), Dir("INC", 3)>>])

\* What the node p adds to out.
Generated(p, out, g) ==
    CASE p.tag = "Int"           -> Emit(out, <<Const("LOAD", p.n)>>)
      [] p.tag = "Var"           -> Emit(out, <<Dir("LOAD", 1), Const("ADD", BaseOf(g, p.id)), Ind("LOAD", 0)>>)
      [] p.tag = "Index"         ->
            IF p.kids[1].tag = "Int"
            THEN Emit(out, <<Dir("LOAD", 1), Const("ADD", BaseOf(g, p.id) + p.kids[1].n), Ind("LOAD", 0)>>)
            ELSE Emit(Gen(p.kids[1], out, g), <<Dir("ADD", 1), Const("ADD", BaseOf(g, p.id)), Ind("LOAD", 0)>>)
      [] p.tag = "BinaryOp"      -> IF p.op \in {"OpAnd", "OpOr"} THEN GenShort(p, out, g)
                                    ELSE IF p.op = "OpXor" THEN GenXor(p, out, g)
                                    ELSE GenBinop(p, out, g)
      [] p.tag = "UnaryOp"       -> GenUnop(p, out, g)
      [] p.tag = "AssignScalar"  -> Emit(Gen(p.kids[1], out, g),
                                         <<Ind("STORE", 2)>> \o Point(g, p.id) \o <<Ind("LOAD", 2), Ind("STORE", 3)>>)
      [] p.tag = "AssignIndexed" -> GenAssignIndexed(p, out, g)
      [] p.tag = "AssignIntList" -> GenList(p.kids, Emit(out, Point(g, p.id)), g)
      [] p.tag = "AssignArray"   -> Emit(out, GenCopy(p, g))
      [] p.tag = "Test"          -> GenTest(p, out, g)
      [] p.tag = "While"         -> GenWhile(p, out, g)
      [] p.tag = "Read"          -> Emit(out, Point(g, p.id) \o <<Plain("READ"), Ind("STORE", 3)>>)
      [] p.tag = "ReadIndexed"   -> Emit(Gen(p.kids[1], out, g), PointAt(g, p.id) \o <<Plain("READ"), Ind("STORE", 3)>>)
      [] p.tag = "ReadArray"     -> Emit(out, Point(g, p.id) \o ForEach(g, p.id, <<Plain("READ"), Ind("STORE", 3), Dir("INC", 3)>>))
      [] p.tag = "PrintArray"    -> Emit(out, Point(g, p.id) \o ForEach(g, p.id, <<Ind("LOAD", 3), Plain("WRITE"), Dir("INC", 3)>>))
      [] p.tag = "Print"         -> Emit(Gen(p.kids[1], out, g), <<Plain("WRITE")>>)
      [] p.tag = "Block"         -> Gen(p.kids[2], Gen(p.kids[1], Emit(out, <<NOP>>), g), g)
      [] p.tag = "FnCall"        -> GenCall(p, out, g)
      [] p.tag = "Return"        -> GenReturn(p, out, g)

\* The variables that p names itself.
Named(p) ==
    CASE p.tag \in {"Var", "Index", "AssignScalar", "AssignIndexed", "AssignIntList",
                    "Read", "ReadIndexed", "ReadArray", "PrintArray"} -> {p.id}
      [] p.tag = "AssignArray" -> {p.id, p.op}
      [] OTHER -> {}

\* codegen_nc: a variable that the table lacks and a count that was wrong end the process.
Gen(p, out, g) ==
    IF p \in {Null, Nop} \/ out.err # "none" THEN out
    ELSE IF \E id \in Named(p) : ~Has(g.st, id) THEN [out EXCEPT !.err = "internal"]
    ELSE LET new == Generated(p, out, g)
         IN  IF new.err = "none" /\ Ip(new) # Ip(out) + p.ninst THEN [new EXCEPT !.err = "internal"] ELSE new

\* A function: the frame, the body, and STOP where the body has not returned.
GenFn(fn, out, g) ==
    LET begun == Emit(out, <<NOP, NOP, NOP, Dir("LOAD", 1), Const("ADD", fn.st.mem_offset), Dir("STORE", 2), NOP>>)
        new == Emit(Gen(fn.body, begun, g), <<Plain("STOP")>>)
    IN  IF new.err = "none" /\ Ip(new) # Ip(out) + fn.ninst THEN [new EXCEPT !.err = "internal"] ELSE new
=============================================================================
