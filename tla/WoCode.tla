------------------------------- MODULE WoCode -------------------------------
(***************************************************************************)
(* A WoCode (rame/src/optimizer/rw.rs) between WoCode::from and the drop,  *)
(* under any sequence of calls of its public operations.                   *)
(***************************************************************************)
EXTENDS Rewriter

CONSTANTS
    Codes,      \* the codes that a WoCode may be made for
    Edits       \* the instructions that a caller may set

ASSUME CodesAssumption ==
    Codes \subseteq { c \in Seq(Instruction) : \A ir \in Irs(c) : At(c, ir).mode # "reg" }
ASSUME EditsAssumption == Edits \subseteq { i \in Instruction : i.mode # "reg" }

VARIABLES
    w,          \* the WoCode
    emitted,    \* the RoCode that the last call made, << >> if it made none
    answer,     \* the ir that the last call returned, -1 if it returned none
    panicked    \* an assertion or an index failed

vars == <<w, emitted, answer, panicked>>

Delta == Int

TypeOK ==
    /\ w.inner \in Codes
    /\ w.deltas \in Seq([adr : Nat, delta : Delta])
    /\ w.deleted \subseteq Irs(w.inner)
    /\ DOMAIN w.modified \subseteq Irs(w.inner)
    /\ \A ir \in DOMAIN w.modified : w.modified[ir] \in Edits
    /\ answer \in Nat \cup {-1}
    /\ panicked \in BOOLEAN

Returns(code, ir) == emitted' = code /\ answer' = ir
ReturnsNothing == Returns(<< >>, -1)

Init ==
    /\ \E code \in Codes : w \in NewWoCode(code)
    /\ emitted = << >>
    /\ answer = -1
    /\ panicked = FALSE

Delete(ir) ==
    /\ \/ MayDelete(w, ir) /\ w' = DeleteIr(w, ir) /\ UNCHANGED panicked
       \/ ~MayDelete(w, ir) /\ panicked' = TRUE /\ UNCHANGED w
    /\ ReturnsNothing

Set(ir, inst) ==
    /\ \/ MaySet(w, ir) /\ w' = SetIr(w, ir, inst) /\ UNCHANGED panicked
       \/ ~MaySet(w, ir) /\ panicked' = TRUE /\ UNCHANGED w
    /\ ReturnsNothing

AskNextIr(ir) ==
    /\ UNCHANGED w
    /\ \/ \E next \in NextIr(w, ir) : Returns(<< >>, next) /\ UNCHANGED panicked
       \/ NextIr(w, ir) = {} /\ panicked' = TRUE /\ ReturnsNothing

\* RoCode::from(&WoCode).
Emit ==
    /\ UNCHANGED w
    /\ \/ ~EmitPanics(w) /\ Returns(Emitted(w), -1) /\ UNCHANGED panicked
       \/ EmitPanics(w) /\ panicked' = TRUE /\ ReturnsNothing

Next ==
    /\ ~panicked
    /\ \/ \E ir \in Irs(w.inner) : Delete(ir)
       \/ \E ir \in Irs(w.inner), inst \in Edits : Set(ir, inst)
       \/ \E ir \in Irs(w.inner) : AskNextIr(ir)
       \/ Emit

Spec == Init /\ [][Next]_vars

\* The caller that the passes of the optimizer are: it deletes an ir at most once, and
\* sets only jumps to where the code already jumps to.
CarefulNext ==
    /\ ~panicked
    /\ \/ \E ir \in Irs(w.inner) \ w.deleted : Delete(ir)
       \/ \E ir \in Irs(w.inner), inst \in Edits :
              JumpTargets(inst) \subseteq JumpTargetsOf(w.inner) /\ Set(ir, inst)
       \/ \E ir \in Irs(w.inner) : AskNextIr(ir)
       \/ Emit

CarefulSpec == Init /\ [][CarefulNext]_vars

-----------------------------------------------------------------------------
(***************************************************************************)
(* Properties.                                                             *)
(***************************************************************************)

\* The delta of an entry point counts the instructions deleted before it (the doc
\* comment of the field deltas).
DeltasCountDeletions ==
    \A k \in DOMAIN w.deltas :
        w.deltas[k].delta = -Cardinality({ ir \in w.deleted : ir < w.deltas[k].adr })

\* can_combine says that no jump enters ]ir0, ir1] (its doc comment; that it is careful
\* at the end of the code costs nothing, as no instruction is there), and always finds an
\* entry point that tells (the unreachable! after its loop), even where a jump past the
\* end leaves the entry points unsorted.
CombinesWhereNoJumpEnters ==
    \A ir0 \in Irs(w.inner), ir1 \in 1..Len(w.inner) : ir0 < ir1 =>
        LET entered == JumpTargetsOf(w.inner) \cap (ir0 + 1)..ir1 # {}
        IN  /\ \E k \in DOMAIN w.deltas : w.deltas[k].adr > ir0
            /\ entered => ~CanCombine(w, ir0, ir1)
            /\ ir1 < Len(w.inner) /\ ~entered => CanCombine(w, ir0, ir1)

\* Making the code never fails for the passes' use: every jump has an entry, and no target
\* moves before the first instruction.
EmitNeverPanics == ~EmitPanics(w)

\* For the passes' use of it, WoCode moves every jump to where its target went.
Contract == INSTANCE Rewriting
    WITH source <- w.inner, removed <- w.deleted,
         edits <- { <<ir, w.modified[ir]>> : ir \in DOMAIN w.modified },
         given <- emitted, refused <- panicked

ImplementsRewriting == Contract!Spec
=============================================================================
