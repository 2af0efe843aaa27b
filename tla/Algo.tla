-------------------------------- MODULE Algo --------------------------------
(***************************************************************************)
(* What a program of the compiler's language means, without addresses, a   *)
(* stack or jumps: the abstract side of the compiler, read off             *)
(* compiler/README.md and tests/.  A program is given as its tree.         *)
(* Operands are evaluated from the right to the left, those of XOR from    *)
(* the left to the right.  "stuck" is what the language leaves open: an    *)
(* overflow, a variable without a value, an index outside of its array, a  *)
(* main that returns.                                                      *)
(***************************************************************************)
EXTENDS Asa, RamModel

CONSTANTS Uninit, None

\* A state: the variables of the function, the input left, the output, the value of the last
\* expression, and whether to "go" on, "return", "quit", or why nothing goes on.
Start(input) == [env |-> << >>, in |-> input, out |-> << >>, val |-> 0, flow |-> "go"]
Halt(s, why) == [s EXCEPT !.flow = why]
Yield(s, v) == IF v = Uninit THEN Halt(s, "stuck") ELSE [s EXCEPT !.val = v]
Truth(b) == IF b THEN 1 ELSE 0

\* The exact result, if it fits.
Result(s, op, a, b) ==
    IF Checked(op, a, b) = {} THEN Halt(s, "stuck") ELSE Yield(s, CHOOSE r \in Checked(op, a, b) : TRUE)

MachineOp(op) ==
    CASE op = "OpAdd" -> "ADD" [] op = "OpSub" -> "SUB" [] op = "OpMul" -> "MUL"
      [] op = "OpDiv" -> "DIV" [] op = "OpMod" -> "MOD"

Relates(op, a, b) ==
    CASE op = "OpGe" -> a >= b [] op = "OpGt" -> a > b [] op = "OpLe" -> a <= b
      [] op = "OpLt" -> a < b  [] op = "OpEq" -> a = b [] op = "OpNe" -> a # b

\* Two numbers whose difference does not fit cannot be compared.
Binary(s, op, a, b) ==
    IF op \in Arithmetic THEN Result(s, MachineOp(op), a, b)
    ELSE IF op = "OpXor" THEN Yield(s, Truth(a # b))
    ELSE IF Checked("SUB", a, b) = {} THEN Halt(s, "stuck")
    ELSE Yield(s, Truth(Relates(op, a, b)))

InBounds(s, id, i) == i \in 0..(Len(s.env[id]) - 1)
Assign(s, id, i, v) == IF InBounds(s, id, i) THEN [s EXCEPT !.env[id][i + 1] = v] ELSE Halt(s, "stuck")

\* READ into a cell.
Input(s, id, i) ==
    IF ~InBounds(s, id, i) THEN Halt(s, "stuck")
    ELSE IF s.in = << >> \/ Head(s.in) = None THEN Halt(s, "eof")
    ELSE Assign([s EXCEPT !.in = Tail(@)], id, i, Head(s.in))

Written(s, v) == IF v = Uninit THEN Halt(s, "stuck") ELSE [s EXCEPT !.out = Append(@, v)]

\* The variables of a function, which have no values yet.
Frame(fn) ==
    [id \in { fn.st.symbols[i].identifier : i \in DOMAIN fn.st.symbols } |->
        [i \in 1..(IF IsScalar(fn.st, id) THEN 1 ELSE SizeOf(fn.st, id)) |-> Uninit]]

\* Functions of the program by name.
Fn(fns, id) == fns[CHOOSE i \in DOMAIN fns : fns[i].fn.identifier = id].fn

RECURSIVE Eval(_, _, _), EvalArgs(_, _, _, _), Exec(_, _, _), Each(_, _, _, _, _)

\* The arguments of a call, from the last to the first; their values in front of vs.
EvalArgs(args, vs, s, fns) ==
    IF args = << >> \/ s.flow # "go" THEN [s |-> s, vs |-> vs]
    ELSE LET last == Eval(args[Len(args)], s, fns)
         IN  EvalArgs(SubSeq(args, 1, Len(args) - 1), <<last.val>> \o vs, last, fns)

\* A call: a function that does not return ends the program.
Call(e, s, fns) ==
    LET fn == Fn(fns, e.id)
        args == EvalArgs(e.kids, << >>, s, fns)
        env == [id \in DOMAIN Frame(fn) |->
                   IF \E i \in DOMAIN fn.params : fn.params[i] = id
                   THEN <<args.vs[CHOOSE i \in DOMAIN fn.params : fn.params[i] = id]>> ELSE Frame(fn)[id]]
        end == Exec(fn.body, [args.s EXCEPT !.env = env], fns)
    IN  IF args.s.flow # "go" THEN args.s
        ELSE [end EXCEPT !.env = args.s.env,
                         !.flow = CASE @ = "return" -> "go" [] @ = "go" -> "quit" [] OTHER -> @]

\* A value of an expression, for an s that goes on.
Eval(e, s, fns) ==
    LET first == Eval(e.kids[1], s, fns)
        second == Eval(e.kids[2], s, fns)
        left == Eval(e.kids[1], second, fns)
        right == Eval(e.kids[2], first, fns)
    IN  IF s.flow # "go" THEN s
        ELSE CASE e.tag = "Int" -> Yield(s, e.n)
               [] e.tag = "Var" -> Yield(s, s.env[e.id][1])
               [] e.tag = "Index" ->
                     IF first.flow # "go" THEN first
                     ELSE IF ~InBounds(s, e.id, first.val) THEN Halt(first, "stuck")
                     ELSE Yield(first, first.env[e.id][first.val + 1])
               [] e.tag = "BinaryOp" /\ e.op \in {"OpAnd", "OpOr"} ->
                     IF first.flow # "go" \/ first.val = Truth(e.op = "OpOr") THEN first
                     ELSE Eval(e.kids[2], first, fns)
               [] e.tag = "BinaryOp" /\ e.op = "OpXor" ->
                     IF right.flow # "go" THEN right ELSE Binary(right, e.op, first.val, right.val)
               [] e.tag = "BinaryOp" /\ e.op \notin Logic ->
                     IF left.flow # "go" THEN left ELSE Binary(left, e.op, left.val, second.val)
               [] e.tag = "UnaryOp" ->
                     IF first.flow # "go" THEN first
                     ELSE IF e.op = "OpNeg" THEN Result(first, "SUB", 0, first.val)
                     ELSE Yield(first, 1 - first.val)
               [] e.tag = "FnCall" -> Call(e, s, fns)

\* Something done for each cell of an array.
Each(what, id, other, i, s) ==
    IF s.flow # "go" \/ i = Len(s.env[id]) THEN s
    ELSE Each(what, id, other, i + 1,
             CASE what = "ReadArray"   -> Input(s, id, i)
               [] what = "PrintArray"  -> Written(s, s.env[id][i + 1])
               [] what = "AssignArray" ->
                     IF s.env[other][i + 1] = Uninit THEN Halt(s, "stuck") ELSE Assign(s, id, i, s.env[other][i + 1]))

\* A list of values, stored from the first on.
RECURSIVE ExecList(_, _, _, _, _)
ExecList(es, id, i, s, fns) ==
    LET v == Eval(Head(es), s, fns)
    IN  IF es = << >> \/ s.flow # "go" THEN s
        ELSE ExecList(Tail(es), id, i + 1, IF v.flow = "go" THEN Assign(v, id, i, v.val) ELSE v, fns)

\* A statement of the tree, and those that follow it.
Exec(p, s, fns) ==
    LET first == Eval(p.kids[1], s, fns)
        second == Eval(p.kids[2], s, fns)
        index == Eval(p.kids[1], second, fns)
    IN  IF p = Null \/ s.flow # "go" THEN s
        ELSE CASE p.tag = "Block"  -> Exec(p.kids[2], Exec(p.kids[1], s, fns), fns)
               [] p.tag = "Test"   -> IF first.flow # "go" THEN first
                                      ELSE Exec(p.kids[IF first.val = 1 THEN 2 ELSE 3], first, fns)
               [] p.tag = "While"  -> IF first.flow # "go" \/ first.val = 0 THEN first
                                      ELSE Exec(p, Exec(p.kids[2], first, fns), fns)
               [] p.tag = "Return" -> IF p.kids = << >> THEN Halt(Yield(s, 0), "return")
                                      ELSE IF first.flow # "go" THEN first ELSE Halt(first, "return")
               [] p.tag = "Print"  -> IF first.flow # "go" THEN first ELSE Written(first, first.val)
               [] p.tag = "Read"   -> Input(s, p.id, 0)
               [] p.tag = "ReadIndexed"   -> IF first.flow # "go" THEN first ELSE Input(first, p.id, first.val)
               [] p.tag = "AssignScalar"  -> IF first.flow # "go" THEN first ELSE Assign(first, p.id, 0, first.val)
               [] p.tag = "AssignIndexed" -> IF index.flow # "go" THEN index ELSE Assign(index, p.id, index.val, second.val)
               [] p.tag = "AssignIntList" -> ExecList(p.kids, p.id, 0, s, fns)
               [] p.tag \in {"ReadArray", "PrintArray", "AssignArray"} -> Each(p.tag, p.id, p.op, 0, s)
               [] OTHER -> Eval(p, s, fns)    \* an expression as a statement

\* What the program prints, and how it ends.
Meaning(fns, input) ==
    LET main == Fn(fns, "main")
        end == Exec(main.body, [Start(input) EXCEPT !.env = Frame(main)], fns)
    IN  [out |-> end.out,
         end |-> CASE end.flow \in {"go", "quit"} -> "stop" [] end.flow = "eof" -> "eof" [] OTHER -> "stuck"]
=============================================================================
