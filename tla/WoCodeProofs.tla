---------------------------- MODULE WoCodeProofs ----------------------------
(***************************************************************************)
(* Theorems about WoCode and the callers that work as the passes do, for   *)
(* every set of codes and edits.                                           *)
(***************************************************************************)
EXTENDS WoCode, RewriterProofs

-----------------------------------------------------------------------------
(***************************************************************************)
(* The inductive invariant.                                                *)
(***************************************************************************)

Inductive == TypeOK /\ WellFormed(w)

\* Every code is a program in the sense of RewriterProofs.
LEMMA CodeIsProgram ==
    ASSUME NEW code \in Codes
    PROVE  code \in Seq(Instruction) /\ IsProgram(code)
<1>1. code \in Seq(Instruction)
  BY CodesAssumption
<1>2. \A inst \in Instruction : JumpTargets(inst) \subseteq Nat
  BY InstructionJumps
<1> QED
  BY <1>1, <1>2, CodesArePrograms

\* WoCode::from establishes the invariant.
LEMMA Initially == Init => Inductive
<1> SUFFICES ASSUME Init
             PROVE  Inductive
  OBVIOUS
<1>1. PICK code \in Codes : w \in NewWoCode(code)
  BY DEF Init
<1>2. WellFormed(w) /\ w.inner = code /\ w.deleted = {} /\ DOMAIN w.modified = {}
  BY <1>1, CodeIsProgram, NewIsWellFormed
<1>3. w.deltas \in Seq([adr : Nat, delta : Delta])
  BY <1>2 DEF WellFormed, Deltas, Delta
<1> QED
  BY <1>2, <1>3 DEF Inductive, TypeOK, Init

\* delete_ir of an ir that was not deleted keeps it.
LEMMA DeleteKeeps ==
    ASSUME Inductive, NEW ir \in Irs(w.inner) \ w.deleted, Delete(ir)
    PROVE  Inductive'
<1>1. CASE ~MayDelete(w, ir)
  <2>1. w' = w
    BY <1>1 DEF Delete
  <2>2. TypeOK'
    BY <1>1, <2>1 DEF Delete, ReturnsNothing, Returns, Inductive, TypeOK
  <2> QED
    BY <2>1, <2>2 DEF Inductive
<1>2. CASE MayDelete(w, ir)
  <2>1. w' = DeleteIr(w, ir) /\ ir \notin DOMAIN w.modified
    BY <1>2 DEF Delete, MayDelete
  <2>2. WellFormed(w') /\ w' = [inner |-> w.inner, deltas |-> Shifted(w.deltas, ir),
                                deleted |-> w.deleted \cup {ir}, modified |-> w.modified]
    BY <2>1, DeleteKeepsWellFormed DEF Inductive
  <2>3. TypeOK'
    <3>1. w'.deltas \in Seq([adr : Nat, delta : Delta])
      BY <2>2 DEF WellFormed, Deltas, Delta
    <3> QED
      BY <1>2, <2>2, <3>1 DEF Delete, ReturnsNothing, Returns, Inductive, TypeOK
  <2> QED
    BY <2>2, <2>3 DEF Inductive
<1> QED
  BY <1>1, <1>2

\* set_ir keeps it, when the new instruction jumps only to where the code jumps to.
LEMMA SetKeeps ==
    ASSUME Inductive, NEW ir \in Irs(w.inner), NEW inst \in Edits,
           JumpTargets(inst) \subseteq JumpTargetsOf(w.inner), Set(ir, inst)
    PROVE  Inductive'
<1>1. CASE ~MaySet(w, ir)
  <2>1. w' = w
    BY <1>1 DEF Set
  <2>2. TypeOK'
    BY <1>1, <2>1 DEF Set, ReturnsNothing, Returns, Inductive, TypeOK
  <2> QED
    BY <2>1, <2>2 DEF Inductive
<1>2. CASE MaySet(w, ir)
  <2>1. w' = SetIr(w, ir, inst) /\ ir \in Irs(w.inner) \ w.deleted
    BY <1>2 DEF Set, MaySet
  <2>2. /\ WellFormed(w') /\ w'.inner = w.inner /\ w'.deltas = w.deltas
        /\ w'.deleted = w.deleted /\ DOMAIN w'.modified = DOMAIN w.modified \cup {ir}
        /\ \A i \in DOMAIN w.modified \cup {ir} :
               w'.modified[i] = IF i = ir THEN inst ELSE w.modified[i]
    BY <2>1, SetKeepsWellFormed DEF Inductive
  <2>3. TypeOK'
    BY <1>2, <2>2 DEF Set, ReturnsNothing, Returns, Inductive, TypeOK
  <2> QED
    BY <2>2, <2>3 DEF Inductive
<1> QED
  BY <1>1, <1>2

\* next_ir answers an ir.
LEMMA NextIrIsNat ==
    ASSUME Inductive, NEW ir \in Irs(w.inner)
    PROVE  NextIr(w, ir) \subseteq Nat
<1>1. /\ Len(w.inner) \in Nat /\ Irs(w.inner) = 0..(Len(w.inner) - 1)
      /\ w.deleted \in SUBSET (0..(Len(w.inner) - 1))
  BY DEF Inductive, WellFormed, IsProgram, Irs
<1>2. ir \in Nat
  BY <1>1
<1>3. Cardinality(w.deleted) \in Nat
  <2>1. IsFiniteSet(w.deleted)
    BY <1>1, <1>2, CountsDeleted
  <2> QED
    BY <2>1, FS_CardinalityType
<1>4. \A next \in NextIr(w, ir) :
          next = ir + 1 \/ \E d \in 2..Cardinality(w.deleted) : next = ir + d
  BY ZenonT(30) DEF NextIr
<1> QED
  BY <1>2, <1>3, <1>4

\* Every step of a careful caller keeps the invariant.
LEMMA Invariance == Inductive /\ [CarefulNext]_vars => Inductive'
<1> SUFFICES ASSUME Inductive, [CarefulNext]_vars
             PROVE  Inductive'
  OBVIOUS
<1>1. ASSUME NEW ir \in Irs(w.inner) \ w.deleted, Delete(ir)
      PROVE  Inductive'
  BY <1>1, DeleteKeeps
<1>2. ASSUME NEW ir \in Irs(w.inner), NEW inst \in Edits,
             JumpTargets(inst) \subseteq JumpTargetsOf(w.inner), Set(ir, inst)
      PROVE  Inductive'
  BY <1>2, SetKeeps
<1>3. ASSUME NEW ir \in Irs(w.inner), AskNextIr(ir)
      PROVE  Inductive'
  <2>1. w' = w /\ answer' \in Nat \cup {-1} /\ panicked' \in BOOLEAN
    BY <1>3, NextIrIsNat
       DEF AskNextIr, Returns, ReturnsNothing, Inductive, TypeOK
  <2> QED
    BY <2>1 DEF Inductive, TypeOK
<1>4. CASE Emit
  <2>1. w' = w /\ answer' = -1 /\ panicked' \in BOOLEAN
    BY <1>4 DEF Emit, Returns, ReturnsNothing, Inductive, TypeOK
  <2> QED
    BY <2>1 DEF Inductive, TypeOK
<1>5. CASE UNCHANGED vars
  BY <1>5 DEF vars, Inductive, TypeOK
<1> QED
  BY <1>1, <1>2, <1>3, <1>4, <1>5 DEF CarefulNext

-----------------------------------------------------------------------------
(***************************************************************************)
(* The theorems.                                                           *)
(***************************************************************************)

\* A careful caller always finds a WoCode whose fields have their types (TypeOK).
THEOREM TypeCorrect == CarefulSpec => []TypeOK
<1>1. Inductive => TypeOK
  BY DEF Inductive
<1> QED
  BY <1>1, Initially, Invariance, PTL DEF CarefulSpec

\* The delta of each entry point counts the instructions deleted before it, whatever the
\* code and however many calls: delete_ir shifts as many entries as it must.
THEOREM DeltasAreRight == CarefulSpec => []DeltasCountDeletions
<1>1. Inductive => DeltasCountDeletions
  BY DEF Inductive, WellFormed, DeltasCountDeletions, DeletedBefore
<1> QED
  BY <1>1, Initially, Invariance, PTL DEF CarefulSpec

\* RoCode::from never panics: each jump that is left has an entry point, and a target
\* never moves before the first instruction.
THEOREM EmitIsSafe == CarefulSpec => []EmitNeverPanics
<1>1. Inductive => EmitNeverPanics
  BY EmitNeverPanicsWellFormed DEF Inductive, EmitNeverPanics
<1> QED
  BY <1>1, Initially, Invariance, PTL DEF CarefulSpec

\* can_combine answers yes exactly where no jump enters ]ir0, ir1] (but at the end of the
\* code), and never reaches its unreachable!.
THEOREM CombineIsRight == CarefulSpec => []CombinesWhereNoJumpEnters
<1>1. Inductive => CombinesWhereNoJumpEnters
  BY CombinesRight DEF Inductive, CombinesWhereNoJumpEnters
<1> QED
  BY <1>1, Initially, Invariance, PTL DEF CarefulSpec

-----------------------------------------------------------------------------
(***************************************************************************)
(* WoCode implements Rewriting.                                            *)
(***************************************************************************)

\* The edits of the contract, and what they say of an ir.
EditsOf(modified) == { <<ir, modified[ir]>> : ir \in DOMAIN modified }

\* The edits of a map are its entries.
LEMMA EditsAreModified ==
    ASSUME NEW modified, NEW ir
    PROVE  /\ (\E e \in EditsOf(modified) : e[1] = ir) <=> ir \in DOMAIN modified
           /\ \A e \in EditsOf(modified) : e[1] = ir => e = <<ir, modified[ir]>>
<1>1. ASSUME NEW e \in EditsOf(modified), e[1] = ir
      PROVE  e = <<ir, modified[ir]>> /\ ir \in DOMAIN modified
  BY <1>1 DEF EditsOf
<1>2. ASSUME ir \in DOMAIN modified
      PROVE  <<ir, modified[ir]>> \in EditsOf(modified) /\ <<ir, modified[ir]>>[1] = ir
  BY <1>2 DEF EditsOf
<1> QED
  BY <1>1, <1>2

\* The contract counts as the standard module does.
LEMMA SameCardinality == \A S : Contract!Cardinality(S) = Cardinality(S)
  BY DEF Contract!Cardinality, Cardinality

\* What RoCode::from makes is what the contract promises: positions of kept instructions
\* are counted there, and deltas of entries here.
LEMMA EmittedIsResult ==
    ASSUME Inductive
    PROVE  Emitted(w) = Contract!Result
<1> DEFINE n == Len(w.inner)
           D == w.deleted
           s == Kept(w)
           kept == Contract!Positions \ D
<1>1. /\ n \in Nat /\ D \in SUBSET (0..(n - 1)) /\ Contract!Positions = 0..(n - 1)
      /\ Irs(w.inner) = 0..(n - 1) /\ WellFormed(w)
  BY DEF Inductive, WellFormed, IsProgram, Irs, Contract!Positions
<1>2. KeepsBefore(s, n, D)
  BY <1>1, KeptIsRight
<1>3. /\ s \in Seq(Nat) /\ DOMAIN s = 1..Len(s) /\ Len(s) = MovedBy(D, n)
      /\ \A p \in 1..Len(s) : s[p] \in kept /\ MovedBy(D, s[p]) = p - 1
      /\ \A i \in kept : s[MovedBy(D, i) + 1] = i
  <2>1. kept = (0..(n - 1)) \ D
    BY <1>1
  <2> HIDE DEF n, D, s, kept
  <2>2. s \in Seq(Nat) /\ Len(s) = MovedBy(D, n)
    BY <1>2 DEF KeepsBefore
  <2>3. DOMAIN s = 1..Len(s)
    BY <2>2
  <2> QED
    BY <1>2, <2>1, <2>2, <2>3 DEF KeepsBefore
<1>4. Cardinality(kept) = Len(s)
  BY <1>1, <1>2, <1>3, KeptCount
<1>5. \A adr : Contract!Moved(adr) = MovedBy(D, adr)
  BY SameCardinality DEF Contract!Moved, MovedBy, DeletedBefore
<1>6. ASSUME NEW p \in 1..Len(s)
      PROVE  (CHOOSE ir \in kept : Contract!Moved(ir) = p - 1) = s[p]
  <2>1. s[p] \in kept /\ Contract!Moved(s[p]) = p - 1
    BY <1>3, <1>5
  <2>2. ASSUME NEW ir \in kept, Contract!Moved(ir) = p - 1
        PROVE  ir = s[p]
    <3>1. s[(p - 1) + 1] = ir
      BY <1>3, <1>5, <2>2
    <3>2. p \in Int
      BY <1>3
    <3> QED
      BY <3>1, <3>2
  <2> HIDE DEF kept
  <2> QED
    BY <2>1, <2>2
<1>7. ASSUME NEW ir \in Irs(w.inner)
      PROVE  Contract!Final(ir) = MapAdr(Edited(w, ir), NewAdr(w, Edited(w, ir).n))
  <2> DEFINE edits == EditsOf(w.modified)
             inst == Edited(w, ir)
  <2>1. inst = IF \E e \in edits : e[1] = ir THEN (CHOOSE e \in edits : e[1] = ir)[2]
               ELSE At(w.inner, ir)
    <3>1. CASE ir \in DOMAIN w.modified
      <4>1. \E e \in edits : e[1] = ir
        BY <3>1, EditsAreModified
      <4>2. (CHOOSE e \in edits : e[1] = ir) = <<ir, w.modified[ir]>>
        <5> HIDE DEF edits
        <5>1. \A e \in edits : e[1] = ir => e = <<ir, w.modified[ir]>>
          BY EditsAreModified DEF edits
        <5> QED
          BY <4>1, <5>1
      <4>3. <<ir, w.modified[ir]>>[2] = w.modified[ir]
        OBVIOUS
      <4>4. inst = w.modified[ir]
        BY <3>1 DEF Edited
      <4> HIDE DEF edits, inst
      <4> QED
        BY <4>1, <4>2, <4>3, <4>4
    <3>2. CASE ir \notin DOMAIN w.modified
      BY <3>2, EditsAreModified DEF Edited
    <3> QED
      BY <3>1, <3>2
  <2>2. Contract!Final(ir) = IF inst.op \in JumpOps
                             THEN [inst EXCEPT !.n = Contract!Moved(inst.n)] ELSE inst
    BY <2>1 DEF Contract!Final, EditsOf, Contract!JumpOps, JumpOps, Contract!ConditionalJumps,
                ConditionalJumps, Contract!At, At
  <2>3. inst.op \in JumpOps => NewAdr(w, inst.n) = MovedBy(D, inst.n)
    <3>1. JumpTargets(inst) \subseteq JumpTargetsOf(w.inner)
      BY <1>1, EditedJumps
    <3>2. inst.op \in JumpOps => inst.n \in JumpTargetsOf(w.inner)
      BY <3>1 DEF JumpTargets
    <3> QED
      BY <1>1, <3>2, TargetsAreMoved
  <2> QED
    BY <1>5, <2>2, <2>3 DEF MapAdr
<1>8. Emitted(w) = [p \in 1..Len(s) |-> Contract!Final(s[p])]
  <2>1. \A p \in 1..Len(s) : s[p] \in Irs(w.inner)
    BY <1>1, <1>3
  <2> QED
    BY <1>3, <1>7, <2>1 DEF Emitted
<1>9. Contract!Result = [p \in 1..Len(s) |-> Contract!Final(s[p])]
  <2>1. Contract!Result = [p \in 1..Cardinality(kept) |->
            Contract!Final(CHOOSE ir \in kept : Contract!Moved(ir) = p - 1)]
    BY SameCardinality DEF Contract!Result
  <2> HIDE DEF kept
  <2> QED
    BY <1>4, <1>6, <2>1
<1> QED
  BY <1>8, <1>9

\* The edits of the contract after set_ir.
Replaced(edits, ir, inst) == { e \in edits : e[1] # ir } \cup { <<ir, inst>> }

IsSetIn(after, before, ir, inst) ==
    /\ DOMAIN after = DOMAIN before \cup {ir}
    /\ \A i \in DOMAIN after : after[i] = IF i = ir THEN inst ELSE before[i]

\* Setting an entry replaces the edit of its ir.
LEMMA EditsAfterSet ==
    ASSUME NEW before, NEW after, NEW ir, NEW inst, IsSetIn(after, before, ir, inst)
    PROVE  EditsOf(after) = Replaced(EditsOf(before), ir, inst)
<1>0. /\ DOMAIN after = DOMAIN before \cup {ir}
      /\ \A i \in DOMAIN after : after[i] = IF i = ir THEN inst ELSE before[i]
  BY DEF IsSetIn
<1> DEFINE others == { e \in EditsOf(before) : e[1] # ir }
<1>1. ASSUME NEW e \in EditsOf(after)
      PROVE  e \in others \cup { <<ir, inst>> }
  <2>1. PICK i \in DOMAIN after : e = <<i, after[i]>>
    BY DEF EditsOf
  <2>2. CASE i = ir
    BY <1>0, <2>1, <2>2
  <2>3. CASE i # ir
    BY <1>0, <2>1, <2>3 DEF EditsOf
  <2> QED
    BY <2>2, <2>3
<1>2. ASSUME NEW e \in others
      PROVE  e \in EditsOf(after)
  <2>1. PICK i \in DOMAIN before : e = <<i, before[i]>> /\ i # ir
    BY DEF EditsOf
  <2> QED
    BY <1>0, <2>1 DEF EditsOf
<1>3. <<ir, inst>> \in EditsOf(after)
  BY <1>0 DEF EditsOf
<1> HIDE DEF others
<1>4. EditsOf(after) = others \cup { <<ir, inst>> }
  BY <1>1, <1>2, <1>3
<1> QED
  BY <1>4 DEF others, Replaced

\* A step of a careful caller is a step of the contract.
LEMMA StepIsContractStep ==
    ASSUME Inductive, [CarefulNext]_vars
    PROVE  [Contract!Next]_(Contract!rvars)
<1>0. Contract!Positions = Irs(w.inner)
  BY DEF Contract!Positions, Irs
<1>1. ASSUME NEW ir \in Irs(w.inner) \ w.deleted, Delete(ir), ~panicked
      PROVE  Contract!Next
  <2> DEFINE edits == EditsOf(w.modified)
  <2>1. (\E e \in edits : e[1] = ir) <=> ir \in DOMAIN w.modified
    BY EditsAreModified
  <2>2. CASE MayDelete(w, ir)
    <3>1. w' = DeleteIr(w, ir) /\ panicked' = panicked /\ emitted' = << >>
      BY <1>1, <2>2 DEF Delete, MayDelete, ReturnsNothing, Returns
    <3>2. w' = [inner |-> w.inner, deltas |-> Shifted(w.deltas, ir),
                deleted |-> w.deleted \cup {ir}, modified |-> w.modified]
      BY <2>2, <3>1, DeleteKeepsWellFormed DEF Inductive, MayDelete
    <3>3. w'.inner = w.inner /\ w'.deleted = w.deleted \cup {ir} /\ w'.modified = w.modified
      BY <3>2
    <3>4. Contract!Remove(ir)
      BY <2>1, <2>2, <3>1, <3>3 DEF Contract!Remove, EditsOf, MayDelete
    <3>5. EditsOf(w'.modified) = EditsOf(w.modified)
      BY <3>3
    <3> QED
      BY <1>0, <1>1, <3>1, <3>3, <3>4, <3>5 DEF Contract!Next, EditsOf
  <2>3. CASE ~MayDelete(w, ir)
    <3>1. w' = w /\ panicked' = TRUE /\ emitted' = << >>
      BY <1>1, <2>3 DEF Delete, ReturnsNothing, Returns
    <3>2. Contract!Remove(ir)
      BY <2>1, <2>3, <3>1 DEF Contract!Remove, EditsOf, MayDelete
    <3> QED
      BY <1>0, <1>1, <3>1, <3>2 DEF Contract!Next, EditsOf
  <2> QED
    BY <2>2, <2>3
<1>2. ASSUME NEW ir \in Irs(w.inner), NEW inst \in Edits,
             JumpTargets(inst) \subseteq JumpTargetsOf(w.inner), Set(ir, inst), ~panicked
      PROVE  Contract!Next
  <2>0. inst \in Contract!Instruction
    BY EditsAssumption
       DEF Instruction, Value, Register, Address, JumpOps, ConditionalJumps, BinaryOps, UnaryOps,
           Number, MinInt, Usize, Contract!Instruction, Contract!Value, Contract!Register,
           Contract!Address, Contract!JumpOps, Contract!ConditionalJumps, Contract!BinaryOps,
           Contract!UnaryOps, Contract!Number, Contract!MinInt, Contract!Usize
  <2>1. CASE MaySet(w, ir)
    <3>1. w' = SetIr(w, ir, inst) /\ panicked' = panicked /\ emitted' = << >>
      BY <1>2, <2>1 DEF Set, MaySet, ReturnsNothing, Returns
    <3>2. /\ w'.inner = w.inner /\ w'.deleted = w.deleted
          /\ DOMAIN w'.modified = DOMAIN w.modified \cup {ir}
          /\ \A i \in DOMAIN w'.modified :
                 w'.modified[i] = IF i = ir THEN inst ELSE w.modified[i]
      <4>1. ir \in Irs(w.inner) \ w.deleted /\ WellFormed(w)
        BY <2>1 DEF MaySet, Inductive
      <4> QED
        BY <1>2, <3>1, <4>1, SetKeepsWellFormed
    <3>3. EditsOf(w'.modified) = Replaced(EditsOf(w.modified), ir, inst)
      <4>1. IsSetIn(w'.modified, w.modified, ir, inst)
        BY <3>2 DEF IsSetIn
      <4> QED
        BY <4>1, EditsAfterSet
    <3>4. Contract!Replace(ir, inst)
      BY <2>1, <3>1, <3>3 DEF Contract!Replace, EditsOf, MaySet, Replaced
    <3> QED
      BY <1>0, <1>2, <2>0, <3>1, <3>2, <3>4 DEF Contract!Next
  <2>2. CASE ~MaySet(w, ir)
    <3>1. w' = w /\ panicked' = TRUE /\ emitted' = << >>
      BY <1>2, <2>2 DEF Set, ReturnsNothing, Returns
    <3>2. Contract!Replace(ir, inst)
      BY <2>2, <3>1 DEF Contract!Replace, MaySet
    <3> QED
      BY <1>0, <1>2, <2>0, <3>1, <3>2 DEF Contract!Next
  <2> QED
    BY <2>1, <2>2
<1>3. ASSUME NEW ir \in Irs(w.inner), AskNextIr(ir), ~panicked
      PROVE  Contract!Next
  <2>1. w' = w /\ emitted' = << >> /\ panicked' \in BOOLEAN
    BY <1>3 DEF AskNextIr, Returns, ReturnsNothing, Inductive, TypeOK
  <2> QED
    BY <1>3, <2>1 DEF Contract!Next
<1>4. ASSUME Emit, ~panicked
      PROVE  Contract!Next
  <2>1. ~EmitPanics(w)
    BY EmitNeverPanicsWellFormed DEF Inductive
  <2>2. w' = w /\ emitted' = Emitted(w) /\ panicked' = panicked
    BY <1>4, <2>1 DEF Emit, Returns
  <2>3. emitted' = Contract!Result
    BY <2>2, EmittedIsResult
  <2> QED
    BY <1>4, <2>2, <2>3 DEF Contract!Next
<1>5. CASE UNCHANGED vars
  BY <1>5 DEF vars, Contract!rvars
<1> QED
  BY <1>1, <1>2, <1>3, <1>4, <1>5 DEF CarefulNext

\* For a careful caller the rewriter implements its contract: whatever is deleted and set, in
\* whatever order, the code that it makes has the kept instructions in their order, and each
\* jump leads to where its target has moved.
THEOREM WoCodeImplementsRewriting == CarefulSpec => ImplementsRewriting
<1>1. Init => Contract!Init
  <2> SUFFICES ASSUME Init
               PROVE  Contract!Init
    OBVIOUS
  <2>1. PICK code \in Codes : w \in NewWoCode(code)
    BY DEF Init
  <2>2. w.inner = code /\ w.deleted = {} /\ DOMAIN w.modified = {}
    BY <2>1, CodeIsProgram, NewIsWellFormed
  <2> QED
    BY <2>2 DEF Init, Contract!Init
<1>2. Inductive /\ [CarefulNext]_vars => [Contract!Next]_(Contract!rvars)
  BY StepIsContractStep
<1> QED
  BY <1>1, <1>2, Initially, Invariance, PTL DEF CarefulSpec, ImplementsRewriting, Contract!Spec

=============================================================================
