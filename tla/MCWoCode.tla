------------------------------ MODULE MCWoCode ------------------------------
(* Small instances of WoCode for TLC. *)
EXTENDS WoCode

Jump(op, to) == Inst(op, "adr", to)

\* Codes of up to four instructions, with and without a jump past their end.
Alphabet == { Inst("NOP", "none", 0), Jump("JUMP", 0), Jump("JUMZ", 2), Jump("JUMP", 4),
              Jump("JUML", 5) }
ShortCodes == UNION { [1..n -> Alphabet] : n \in 1..3 }
                \cup { <<a, b, Jump("JUMG", 1), Jump("JUML", 3)>> : a, b \in Alphabet }

FewEdits == { Inst("STOP", "none", 0), Jump("JUMZ", 2) }
=============================================================================
