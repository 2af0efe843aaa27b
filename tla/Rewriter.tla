------------------------------ MODULE Rewriter ------------------------------
(***************************************************************************)
(* The operations of struct WoCode (rame/src/optimizer/rw.rs), on a record *)
(*   inner     the code that is rewritten; every ir is an index of it      *)
(*   deltas    a sequence of jump entry points, each with the number of    *)
(*             instructions added up to it                                 *)
(*   deleted   the deleted irs.  The code keeps them in a Vec in which it  *)
(*             inserts where binary_search says: a set                     *)
(*   modified  the new instructions, by ir                                 *)
(***************************************************************************)
EXTENDS RamModel, FiniteSets

Irs(code) == 0..(Len(code) - 1)

JumpTargetsOf(code) == UNION { JumpTargets(At(code, ir)) : ir \in Irs(code) }

\* The increasing enumeration of a finite set of integers, as a set of one sequence.
Increasing(S) ==
    { s \in [1..Cardinality(S) -> S] : \A i, j \in 1..Cardinality(S) : i < j => s[i] < s[j] }

Entry(adr, delta) == [adr |-> adr, delta |-> delta]

\* A bug: no entry for the end of the code.
EntryPointsWithoutEnd(code) == Increasing(JumpTargetsOf(code))

\* WoCode::from: the targets in order, then the end of the code; dedup drops the end
\* where it repeats the target before it.
EntryPoints(code) ==
    { IF s # << >> /\ s[Len(s)] = Len(code) THEN s ELSE Append(s, Len(code)) :
          s \in Increasing(JumpTargetsOf(code)) }

NewWoCode(code) ==
    { [inner    |-> code,
       deltas   |-> [k \in DOMAIN s |-> Entry(s[k], 0)],
       deleted  |-> {},
       modified |-> [ir \in {} |-> Inst("NOP", "none", 0)]] : s \in EntryPoints(code) }

-----------------------------------------------------------------------------
\* A bug: the instruction at the deleted ir is shifted too.
ShiftedWithIr(deltas, ir) ==
    [k \in DOMAIN deltas |->
        IF \A j \in k..Len(deltas) : deltas[j].adr >= ir
        THEN Entry(deltas[k].adr, deltas[k].delta - 1) ELSE deltas[k]]

\* The loop of delete_ir goes from the last entry down to the first that is not past ir.
Shifted(deltas, ir) ==
    [k \in DOMAIN deltas |->
        IF \A j \in k..Len(deltas) : deltas[j].adr > ir
        THEN Entry(deltas[k].adr, deltas[k].delta - 1) ELSE deltas[k]]

\* The assertion of delete_ir, and what it does.
MayDelete(w, ir) == ir \notin DOMAIN w.modified

\* A bug: the list of the deleted irs counts from 1.
DeleteFromOne(w, ir) ==
    [w EXCEPT !.deleted = @ \cup {ir + 1}, !.deltas = Shifted(@, ir)]

DeleteIr(w, ir) ==
    [w EXCEPT !.deleted = @ \cup {ir}, !.deltas = Shifted(@, ir)]

\* The assertion of set_ir, and what it does.
MaySet(w, ir) == ir \notin w.deleted

SetIr(w, ir, inst) ==
    [w EXCEPT !.modified = [i \in DOMAIN @ \cup {ir} |-> IF i = ir THEN inst ELSE @[i]]]

\* next_ir: the set is empty where indexing the Vec panics.
NextIr(w, ir0) ==
    LET n == Cardinality(w.deleted)
        p == Cardinality({ i \in w.deleted : i <= ir0 + 1 })
        Stops(d, s) == p + d <= n /\ s[p + d] > ir0 + d
    IN  IF ir0 + 1 \notin w.deleted THEN {ir0 + 1}
        ELSE { ir0 + d : d \in { e \in 2..n : \E s \in Increasing(w.deleted) :
                   Stops(e, s) /\ \A c \in 2..(e - 1) : ~Stops(c, s) } }

\* can_combine: the first entry past ir0 is past ir1.
CanCombine(w, ir0, ir1) ==
    \E k \in DOMAIN w.deltas :
        /\ w.deltas[k].adr > ir1
        /\ \A j \in 1..(k - 1) : w.deltas[j].adr <= ir0

-----------------------------------------------------------------------------
(***************************************************************************)
(* RoCode::from(&WoCode).                                                  *)
(***************************************************************************)
\* update_adr takes the delta of the first entry that is not before the target.
FirstEntry(w, adr) ==
    { k \in DOMAIN w.deltas : /\ w.deltas[k].adr >= adr
                              /\ \A j \in 1..(k - 1) : w.deltas[j].adr < adr }

NewAdr(w, adr) == adr + w.deltas[CHOOSE k \in FirstEntry(w, adr) : TRUE].delta

\* Instruction::map_adr, with the address that the function returns for the target.
MapAdr(inst, adr) == IF inst.op \in JumpOps THEN [inst EXCEPT !.n = adr] ELSE inst

Edited(w, ir) == IF ir \in DOMAIN w.modified THEN w.modified[ir] ELSE At(w.inner, ir)

\* The irs that are left, in order.
Kept(w) ==
    LET kept[n \in 0..Len(w.inner)] ==
            IF n = 0 THEN << >>
            ELSE IF n - 1 \in w.deleted THEN kept[n - 1]
            ELSE Append(kept[n - 1], n - 1)
    IN  kept[Len(w.inner)]

\* A bug: the edits come after the targets are rewritten.
EditedLast(w) ==
    [i \in DOMAIN Kept(w) |->
        LET ir == Kept(w)[i]
        IN  IF ir \in DOMAIN w.modified THEN w.modified[ir]
            ELSE MapAdr(At(w.inner, ir), NewAdr(w, At(w.inner, ir).n))]

Emitted(w) ==
    [i \in DOMAIN Kept(w) |-> LET inst == Edited(w, Kept(w)[i])
                              IN  MapAdr(inst, NewAdr(w, inst.n))]

\* Indexing past deltas, or a negative address, panics.
EmitPanics(w) ==
    \E ir \in Irs(w.inner) \ w.deleted : \E adr \in JumpTargets(Edited(w, ir)) :
        FirstEntry(w, adr) = {} \/ NewAdr(w, adr) < 0
=============================================================================
