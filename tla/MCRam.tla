------------------------------- MODULE MCRam -------------------------------
(* Small instances of Ram for TLC. *)
EXTENDS Ram

Alphabet == {
    Inst("READ", "none", 0),  Inst("WRITE", "none", 0), Inst("STOP", "none", 0),
    Inst("NOP", "none", 0),   Inst("LOAD", "const", 2), Inst("LOAD", "const", -1),
    Inst("LOAD", "ind", 1),   Inst("STORE", "dir", 1),  Inst("STORE", "ind", 1),
    Inst("INC", "ind", 0),    Inst("INC", "dir", 0),    Inst("DEC", "dir", 1),
    Inst("ADD", "ind", 1),    Inst("SUB", "dir", 0),    Inst("MUL", "dir", 0),
    Inst("DIV", "dir", 1),    Inst("DIV", "const", -1), Inst("MOD", "const", -1),
    Inst("JUMP", "adr", 0),   Inst("JUMP", "adr", 1),   Inst("JUMZ", "adr", 2),
    Inst("JUML", "reg", 0),   Inst("JUMG", "reg", 1),
    Inst("STORE", "dir", 3),  Inst("LOAD", "dir", 4) }

\* Every program of up to two instructions, and every program of three that
\* begins by giving ACC a value.
ShortPrograms ==
    UNION { [1..n -> Alphabet] : n \in 0..2 }
        \cup { <<i>> \o p : i \in { a \in Alphabet : a.op \in {"READ", "LOAD"} },
                            p \in [1..2 -> Alphabet] }

\* An iterator that gives up and resumes (a blank line on the terminal, then a number),
\* one that gives two numbers, the smallest and the largest, and one that gives nothing.
FewInputs == { << >>, <<-4, 3>>, <<None, 1>> }
=============================================================================
