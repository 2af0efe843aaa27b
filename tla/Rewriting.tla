----------------------------- MODULE Rewriting -----------------------------
(***************************************************************************)
(* What a rewriter of jump programs promises: instructions are removed and *)
(* replaced in any order, and the code it gives has the kept instructions  *)
(* in their order, each jump leading to where its target, or the first     *)
(* kept instruction after it, has moved.                                   *)
(***************************************************************************)
EXTENDS RamModel, FiniteSets

CONSTANT Codes

VARIABLES source, removed, edits, given, refused

rvars == <<source, removed, edits, given, refused>>

Positions == 0..(Len(source) - 1)

Init ==
    /\ source \in Codes
    /\ removed = {}
    /\ edits = {}
    /\ given = << >>
    /\ refused = FALSE

\* An instruction is either removed or replaced; the other wish is refused.
Remove(ir) ==
    IF \E e \in edits : e[1] = ir
    THEN refused' = TRUE /\ UNCHANGED removed
    ELSE removed' = removed \cup {ir} /\ UNCHANGED refused

Replace(ir, inst) ==
    IF ir \in removed
    THEN refused' = TRUE /\ UNCHANGED edits
    ELSE edits' = { e \in edits : e[1] # ir } \cup { <<ir, inst>> } /\ UNCHANGED refused

\* Where an address is once the removed instructions before it are gone.
Moved(adr) == adr - Cardinality({ ir \in removed : ir < adr })

Final(ir) ==
    LET inst == IF \E e \in edits : e[1] = ir
                THEN (CHOOSE e \in edits : e[1] = ir)[2]
                ELSE At(source, ir)
    IN  IF inst.op \in JumpOps THEN [inst EXCEPT !.n = Moved(inst.n)] ELSE inst

Result ==
    LET kept == Positions \ removed
    IN  [p \in 1..Cardinality(kept) |-> Final(CHOOSE ir \in kept : Moved(ir) = p - 1)]

Next ==
    /\ ~refused
    /\ UNCHANGED source
    /\ \/ \E ir \in Positions : Remove(ir) /\ given' = << >> /\ UNCHANGED edits
       \/ \E ir \in Positions, inst \in Instruction :
              Replace(ir, inst) /\ given' = << >> /\ UNCHANGED removed
       \/ given' = Result /\ UNCHANGED <<removed, edits, refused>>
       \/ given' = << >> /\ refused' \in BOOLEAN /\ UNCHANGED <<removed, edits>>

Spec == Init /\ [][Next]_rvars
=============================================================================
