----------------------------- MODULE MCCommands -----------------------------
(* A directory with a few programs, and the command lines to run in it. *)
EXTENDS Commands

CONSTANTS sum, fold, big, wrong, ram, out, t1, t2, t3

FewFiles == {sum, fold, big, wrong, ram, out}
FewTemps == {t1, t2, t3}

Plain(op) == Inst(op, "none", 0)
Const(op, n) == Inst(op, "const", n)

\* Algorithmic texts begin with their tests.
Algo(name) == <<TestLine, TestLine, Line(name, << >>)>>
SumText == Algo("sum")
FoldText == Algo("fold")
BigText == Algo("big")

\* A cut of this code is a code as well.
SumCode == <<Plain("NOP"), Plain("READ"), Plain("STOP"), Plain("STOP")>>
FoldCode == <<Plain("READ"), Const("ADD", 5), Const("ADD", 5), Plain("STOP")>>
BigCode == <<Const("LOAD", 9), Plain("STOP")>>
EmptyCode == <<Plain("NOP"), Plain("STOP")>>

\* A text of comments only is a program that does nothing.
Compiled == [text \in {SumText, FoldText, BigText, << >>, <<TestLine>>, <<TestLine, TestLine>>} |->
                CASE text = SumText  -> SumCode
                  [] text = FoldText -> FoldCode
                  [] text = BigText  -> BigCode
                  [] OTHER           -> EmptyCode]

CutSumCode == SubSeq(SumCode, 1, 3)
Optimizable == {SumCode, CutSumCode, FoldCode, BigCode, EmptyCode, <<Plain("STOP")>>}
Optimized == [code \in Optimizable |->
                CASE code \in {SumCode, CutSumCode} -> <<Plain("READ"), Plain("STOP")>>
                  [] code = FoldCode -> <<Plain("READ"), Const("ADD", 10), Plain("STOP")>>
                  [] code = EmptyCode -> <<Plain("STOP")>>
                  [] OTHER -> code]

\* A RAM program written by hand: it is what big is compiled to, with a comment.
RamText == <<Show(BigCode[1]), Blank, Show(BigCode[2])>>
BadText == <<BadTestLine, Line("sum", << >>)>>

FewTexts == [f \in FewFiles \ {out} |->
                CASE f = sum -> SumText [] f = fold -> FoldText [] f = big -> BigText
                  [] f = wrong -> BadText [] f = ram -> RamText]

\* What is typed: a program to compile, or a program for the machine with a line that is
\* none, and numbers after a blank line.
TypedProgram == <<Show(Plain("NOP")), Line("LOAD", << >>), Show(Plain("STOP")), Blank>>
TypedNumbers == { << >>, <<NumberLine(3), NumberLine(9), NumberLine(4), Blank, NumberLine(5)>>,
                  <<NumberLine(3), NotText, NumberLine(5)>> }

Command(cmd, infile, outfile, compile, optimize, typed, args) ==
    [NoJob EXCEPT !.cmd = cmd, !.infile = infile, !.outfile = outfile, !.compile = compile,
                  !.optimize = optimize, !.typed = typed, !.args = args]

FewJobs ==
    { Command("cc", f, out, TRUE, o, << >>, << >>) : f \in {sum, wrong}, o \in BOOLEAN }
    \cup { Command("cc", NoFile, out, TRUE, o, SumText, << >>) : o \in BOOLEAN }
    \cup { Command("cc", sum, sum, TRUE, o, << >>, << >>) : o \in BOOLEAN }
    \cup { Command("opt", f, o, FALSE, TRUE, << >>, << >>) : f \in {ram, sum}, o \in {out, ram} }
    \cup { Command("opt", NoFile, out, FALSE, TRUE, p, << >>) : p \in {<<Blank>>, TypedProgram} }
    \cup { Command("run", f, NoFile, FALSE, FALSE, t, <<1, 2>>) : f \in {ram, out}, t \in TypedNumbers }
    \cup { Command("run", f, NoFile, TRUE, TRUE, << >>, a) : f \in {sum, fold}, a \in {<< >>, <<9>>} }
    \cup { Command("run", NoFile, NoFile, FALSE, FALSE, TypedProgram \o t, <<1>>) : t \in TypedNumbers }
    \cup { Command("run", NoFile, NoFile, TRUE, FALSE, SumText, << >>) }
    \cup { [NoJob EXCEPT !.cmd = "test", !.paths = p] :
                p \in {<<sum>>, <<Dot>>, <<out, sum>>, <<sum, fold>>, <<sum, sum>>} }

\* In one directory the tests pass, in one they break off, and one has a file without tests.
FewDirectories == { [f \in few |-> FewTexts[f]] : few \in {{sum}, {fold, wrong}, {sum, ram}} }
=============================================================================
