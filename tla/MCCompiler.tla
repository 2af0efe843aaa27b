----------------------------- MODULE MCCompiler -----------------------------
(* Small instances of Compiler for TLC: texts and the inputs of what they compile to. *)
EXTENDS Compiler

Rule(tag, id, op, n, kids) ==
    [Blank EXCEPT !.tag = tag, !.id = id, !.op = op, !.n = n, !.kids = kids]
New(s) == [s EXCEPT !.new = TRUE]

Num(n) == Rule("Int", "", "", n, << >>)
Var(x) == Rule("Var", x, "", 0, << >>)
Cell(t, i) == Rule("Index", t, "", 0, <<i>>)
LenOf(t) == Rule("Len", t, "", 0, << >>)
Bin(op, a, b) == Rule("BinaryOp", "", op, 0, <<a, b>>)
Un(op, a) == Rule("UnaryOp", "", op, 0, <<a>>)
CallOf(f, args) == Rule("FnCall", f, "", 0, args)
Set(x, e) == Rule("AssignScalar", x, "", 0, <<e>>)
SetCell(t, i, e) == Rule("AssignIndexed", t, "", 0, <<i, e>>)
SetList(t, es) == Rule("AssignIntList", t, "", 0, es)
SetArray(t, u) == Rule("AssignArray", t, u, 0, << >>)
Declare(x) == New(Rule("Declare", x, "", ScalarSize, << >>))
DeclareArray(t, n) == New(Rule("Declare", t, "", n, << >>))
ReadVar(x) == Rule("Read", x, "", 0, << >>)
ReadCell(t, i) == Rule("ReadIndexed", t, "", 0, <<i>>)
ReadNew(t, n) == New(Rule("ReadArray", t, "", n, << >>))
ReadAll(t) == Rule("ReadArray", t, "", 0, << >>)
Show(e) == Rule("Print", "", "", 0, <<e>>)
ShowAll(t) == Rule("PrintArray", t, "", 0, << >>)
Ret(es) == Rule("Return", "", "", 0, es)
If(e, then, else) == [Rule("Test", "", "", 0, <<e>>) EXCEPT !.body = then, !.alt = else]
Loop(e, body) == [Rule("While", "", "", 0, <<e>>) EXCEPT !.body = body]

Fun(id, params, body) == [id |-> id, params |-> params, body |-> body]
Program(fns) == [kind |-> "functions", fns |-> fns]
Script(body) == [kind |-> "statements", fns |-> <<Fun("main", << >>, body)>>]

x == Var("x")
y == Var("y")

\* Every operator over operands that need temporaries, and over constants on either side.
Sums == { Bin(op, a, b) : op \in {"OpAdd", "OpSub", "OpMul", "OpDiv", "OpMod"},
                          a \in {x, Num(2)}, b \in {y, Num(3), Bin("OpSub", x, Bin("OpMul", y, Num(2)))} }
Tests == { Bin(op, a, b) : op \in Comparative, a \in {x, Bin("OpSub", x, y)}, b \in {y, Num(0)} }
Both == { Bin(op, Bin("OpLt", x, Num(1)), b) : op \in Logic,
                 b \in {Bin("OpEq", y, x), Un("OpNot", Bin("OpGt", y, Num(0)))} }
Nested == { Bin(op, b, Un("OpNot", Bin("OpNe", y, x))) : op \in Logic, b \in Both }
Expressions == Sums \cup Tests \cup Both \cup Nested \cup { Un("OpNeg", e) : e \in {x, Bin("OpSub", y, x)} }

Formula(e) == Script(<<ReadVar("x"), ReadVar("y"), Show(e)>>)

\* What a condition governs; the last statement is after the jumps.
Branches == { Script(<<ReadVar("x"), ReadVar("y"), If(e, then, else), Show(Num(9))>>) :
    e \in {Bin("OpLt", x, y), Bin("OpAnd", Bin("OpNe", x, Num(0)), Bin("OpGe", y, Num(0)))},
    then \in {<< >>, <<Show(x), Set("x", Num(1))>>}, else \in {<< >>, <<Show(y)>>, <<Ret(<< >>)>>} }

Loops == Script(<<ReadVar("x"), Loop(Bin("OpGt", x, Num(0)),
    <<If(Bin("OpEq", Bin("OpMod", x, Num(2)), Num(0)), <<New(Set("z", x)), Show(Var("z"))>>, << >>),
      Set("x", Bin("OpSub", x, Num(1)))>>)>>)

\* Arrays: read, listed, copied, indexed by an expression, printed.
t(i) == Cell("t", i)
Arrays == Script(<<ReadNew("t", 2), Declare("i"), Set("i", Num(1)), New(SetArray("u", "t")),
    SetCell("t", Bin("OpSub", Var("i"), Num(1)), Bin("OpAdd", t(Var("i")), t(Num(0)))),
    ShowAll("t"), ReadCell("u", Var("i")), ShowAll("u"), Show(Bin("OpSub", LenOf("t"), t(Num(0))))>>)
Lists == Script(<<ReadVar("x"), New(SetList("t", <<x, Bin("OpMul", x, x), Num(4)>>)),
    SetList("t", <<t(Num(1)), t(Num(0)), x>>), ShowAll("t"), DeclareArray("v", 1), ReadAll("v"), ShowAll("v")>>)

\* Arrays without cells make no code of what mentions them.
empty(i) == Cell("e", i)
NoCells == Script(<<DeclareArray("e", 0), Show(empty(Num(0))), New(Set("a", empty(Num(1)))),
    If(Bin("OpLt", empty(Num(0)), Num(1)), <<Show(Num(1))>>, << >>), ShowAll("e"), ReadAll("e"),
    Loop(Bin("OpLt", Num(0), Num(1)), << >>), Show(Bin("OpAdd", LenOf("e"), Num(5))),
    SetCell("e", Num(0), Num(1)), SetList("e", << >>), ReadCell("e", Num(0)), Ret(<<empty(Num(0))>>)>>)

\* Recursion and nested calls, of functions with one variable.
n == Var("n")
fibo == Fun("fibo", <<"n">>, <<If(Bin("OpLe", n, Num(1)), <<Ret(<<n>>)>>,
    <<Ret(<<Bin("OpAdd", CallOf("fibo", <<Bin("OpSub", n, Num(2))>>), CallOf("fibo", <<Bin("OpSub", n, Num(1))>>))>>)>>)>>)
Fibo == Program(<<fibo, Fun("main", << >>, <<ReadVar("x"), Show(CallOf("fibo", <<x>>)), Show(x)>>)>>)
less == Fun("less", <<"n">>, <<Show(n), If(Bin("OpLt", n, Num(0)), << >>, <<Ret(<<Bin("OpSub", n, Num(1))>>)>>)>>)
Nest == Program(<<Fun("main", << >>, <<ReadVar("x"),
    Show(Bin("OpSub", CallOf("less", <<CallOf("less", <<x>>)>>), CallOf("less", <<Num(3)>>))), Show(x)>>), less>>)
zero == Fun("zero", << >>, <<ReadVar("r"), Show(Var("r")), Ret(<< >>)>>)
Ask == Program(<<zero, Fun("main", << >>, <<ReadVar("x"), CallOf("zero", << >>), Show(Bin("OpAdd", CallOf("zero", << >>), x))>>)>>)

\* A function with two variables (tests/sub.algo), and a call in a list.
sub == Fun("sub", <<"x", "y">>, <<Ret(<<Bin("OpSub", x, y)>>)>>)
Sub == Program(<<Fun("main", << >>, <<ReadVar("x"), Show(CallOf("sub", <<Num(1), x>>))>>), sub>>)
CallInList == Program(<<Fun("main", << >>, <<ReadVar("x"), New(SetList("t", <<CallOf("less", <<x>>), x>>)), ShowAll("t")>>), less>>)

\* Texts that the compiler refuses.
Wrong == {
    Script(<<Show(x)>>), Script(<<Declare("x"), New(Set("x", Num(1)))>>), Script(<<Declare("x"), Show(LenOf("x"))>>),
    Script(<<DeclareArray("t", 2), Set("t", Num(1))>>), Script(<<DeclareArray("t", 2), SetList("t", <<Num(1)>>)>>),
    Script(<<ReadVar("x"), Bin("OpEq", x, Num(1))>>), Script(<<DeclareArray("t", 1), ReadVar("t")>>),
    Script(<<ReadVar("x"), New(SetArray("u", "x"))>>), Script(<<ReadVar("x"), Show(Cell("x", Num(0)))>>),
    Script(<<ReadVar("x"), ShowAll("x")>>),
    Program(<<Fun("f", <<"a", "a">>, << >>)>>), Program(<<less>>), Program(<<sub, sub, Fun("main", << >>, << >>)>>),
    Program(<<Fun("main", << >>, <<CallOf("f", << >>)>>)>>), Program(<<less, Fun("main", << >>, <<CallOf("less", << >>)>>)>>),
    \* a NoOp in front of another argument: the list that was freed is used
    Program(<<sub, Fun("main", << >>, <<DeclareArray("e", 0), CallOf("sub", <<empty(Num(0)), Num(1)>>)>>)>>) }

\* A constant wider than the machine.
Wide == Script(<<Show(Num(MaxInt + 1))>>)

Functions == {Fibo, Nest, Ask}
Alone == { Formula(e) : e \in Expressions } \cup Branches \cup {Loops, Arrays, Lists, NoCells, Sub, CallInList, Wide} \cup Functions \cup Wrong
InARow == { <<a, b>> : a \in {Fibo, Sub, Lists, Loops} , b \in {Fibo, Nest, Arrays} }
SomeSessions == { <<a>> : a \in Alone } \cup InARow

\* Calls of a function with one variable, and of one with two.
CallSessions == { <<Nest>>, <<Sub>> }

FewInputs == { <<2, -1, 5>>, <<0, 0>>, <<1, 3>>, <<4, -3>> }
=============================================================================
