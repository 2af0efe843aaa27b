--------------------------- MODULE MCOptimizedRun ---------------------------
(* Small instances of OptimizedRun for TLC. *)
EXTENDS OptimizedRun

Plain(op) == Inst(op, "none", 0)
Const(op, n) == Inst(op, "const", n)
Jump(op, to) == Inst(op, "adr", to)

\* What the folds look at.
Foldable == { Const("ADD", 5), Const("SUB", 2), Const("ADD", 0), Const("MUL", 1),
              Const("MUL", 2), Const("MUL", 0), Const("DIV", 1), Const("DIV", -2) }

\* What moves the folds' and the other passes' borders.
Control == { Plain("NOP"), Plain("WRITE"), Plain("STOP"), Plain("READ"), Jump("JUMP", 1),
             Jump("JUMP", 3), Jump("JUMZ", 2), Jump("JUMG", 3), Jump("JUML", 0),
             Jump("JUMP", 4), Inst("DEC", "dir", 0), Inst("STORE", "ind", 0) }

\* ACC is read, changed by a body of two or three instructions, and printed.
Around(body) == <<Plain("READ")>> \o body \o <<Plain("WRITE"), Plain("STOP")>>
Bodies == [1..2 -> Foldable \cup Control]
    \cup { <<a, b, c>> : a \in Foldable, b \in Foldable, c \in Foldable }
    \cup { <<a, b, c>> : a \in Foldable, b \in Control, c \in {Const("ADD", 5), Jump("JUMP", 1)} }
    \cup { <<a, b, c>> : a \in {Jump("JUMG", 2), Jump("JUMG", 3)}, b \in Foldable, c \in Foldable }
    \cup [1..3 -> {Jump("JUMP", 1), Jump("JUMP", 3), Jump("JUMP", 4), Jump("JUMZ", 2), Plain("NOP")}]
\* 8 is wider than what the machines of the run optimizer hold, and so is 2 * 2 * 2.
WideBodies == { <<Const(op, 8), Const("SUB", 5)>> : op \in {"ADD", "LOAD"} }
\* Programs that run off their end, where a fold or a NOP may be what is jumped to.
Tails == { <<Plain("READ"), a, b, c>> : a \in Foldable \cup {Plain("WRITE")},
               b \in {Jump("JUMP", 3), Jump("JUMG", 3), Jump("JUML", 1), Plain("WRITE")},
               c \in Foldable \cup {Plain("NOP")} }
SomeCodes == { Around(body) : body \in Bodies }
WideCodes == { Around(body) : body \in Bodies \cup WideBodies } \cup Tails

FewInputs == { << >>, <<5>>, <<-8, 1>> }

\* Programs that the machine runs to their end: one whose jump past the end is never taken
\* (the test jumz_inexistent of rame/src/runner/mod.rs), and one that ends by itself.
RunnableCodes == { <<Const("LOAD", -2), Jump("JUMZ", 7), Plain("STOP")>>, <<Plain("STOP")>> }
=============================================================================
