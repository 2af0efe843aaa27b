------------------------------- MODULE Passes -------------------------------
(***************************************************************************)
(* The optimizer (rame/src/optimizer): run_passes, each pass rewriting the *)
(* code that the one before made.  One action per iteration of a pass's    *)
(* loop, and one for the end of a pass, where the new code is made.        *)
(***************************************************************************)
EXTENDS Rewriter, FiniteSetsExt, SequencesExt

CONSTANTS
    Codes,            \* the codes to optimize; no instruction is "reg" (see rame/src/lib.rs)
    MaxWide,          \* T::max_value() of the number type of the codes, which may be wider
                      \* than the one that they are run with
    OverflowChecks    \* whether the build panics on an overflow or wraps around

ASSUME WideAssumption == MaxWide \in Nat /\ MaxWide >= MaxInt

MinWide == -MaxWide - 1
Wide == MinWide..MaxWide
WideInstruction == Instruction \cup [op : {"LOAD"} \cup BinaryOps, mode : {"const"}, n : Wide]

ASSUME CodesAssumption == \A c \in Codes : c \in Seq(WideInstruction) \ {<< >>}
ASSUME ChecksAssumption == OverflowChecks \in BOOLEAN

VARIABLES
    original,    \* the argument of run_passes
    pass,        \* the pass that runs, or "done", or "panicked"
    w,           \* the WoCode of the running pass; once done, that of the result
    ir,          \* where the loop of the pass is
    reachable    \* the irs that remove_unreachable_code has marked

vars == <<original, pass, w, ir, reachable>>

PassOrder == <<"remove_nops", "simplify_jumps", "mark_reachable",
               "remove_unreachable_code", "fold_consts", "done">>

TypeOK ==
    /\ original \in Codes
    /\ pass \in ToSet(PassOrder) \cup {"panicked"}
    /\ w.inner \in Seq(WideInstruction)
    /\ w.deleted \cup DOMAIN w.modified \cup reachable \subseteq Irs(w.inner)
    /\ \A i \in DOMAIN w.modified : w.modified[i] \in WideInstruction
    /\ ir \in 0..Len(w.inner)

Init ==
    /\ original \in Codes
    /\ pass = "remove_nops"
    /\ w \in NewWoCode(original)
    /\ ir = 0
    /\ reachable = {}

Current == At(w.inner, ir)

InLoop(p) == pass = p /\ ir < Len(w.inner)

Panic == pass' = "panicked" /\ UNCHANGED <<original, w, ir, reachable>>

-----------------------------------------------------------------------------
RemoveNop ==
    /\ InLoop("remove_nops")
    /\ w' = IF Current.op = "NOP" THEN DeleteIr(w, ir) ELSE w
    /\ ir' = ir + 1
    /\ UNCHANGED <<original, pass, reachable>>

\* final_adr: where the unconditional jumps from adr lead, if they end and if elsewhere;
\* more jumps than there are instructions are a loop.
IsJump(code, adr) == Exists(code, adr) /\ At(code, adr).op = "JUMP"

\* A bug: only one jump is followed.
NextAdr(code, adr) == { At(code, a).n : a \in { b \in {adr} : IsJump(code, b) } } \ {adr}

FinalAdr(code, adr) ==
    LET hop[k \in 0..Len(code)] ==
            IF k = 0 THEN adr
            ELSE IF IsJump(code, hop[k - 1]) THEN At(code, hop[k - 1]).n
            ELSE hop[k - 1]
    IN  { a \in {hop[Len(code)]} \ {adr} : ~IsJump(code, a) }

SimplifyJump ==
    /\ InLoop("simplify_jumps")
    /\ LET final == UNION { FinalAdr(w.inner, adr) : adr \in JumpTargets(Current) }
       IN  \/ final = {} /\ UNCHANGED w
           \/ \E adr \in final : w' = SetIr(w, ir, MapAdr(Current, adr))
    /\ ir' = ir + 1
    /\ UNCHANGED <<original, pass, reachable>>

\* A bug: an unconditional jump falls through as well.
SuccessorsOfAll(code, i) == JumpTargets(At(code, i)) \cup ({i + 1} \cap Irs(code))

\* find_reachable_code_ir from the first instruction: what follows an instruction that does
\* not leave, and where a jump leads.
Successors(code, i) ==
    JumpTargets(At(code, i))
        \cup (IF At(code, i).op \in {"STOP", "JUMP"} THEN {} ELSE {i + 1} \cap Irs(code))

Reachable(code) ==
    LET reach[k \in 0..Len(code)] ==
            IF k = 0 THEN {0}
            ELSE reach[k - 1] \cup UNION { Successors(code, i) : i \in reach[k - 1] \cap Irs(code) }
    IN  reach[Len(code)]

\* Indexing the marks with an ir past the end of the code panics.
MarkReachable ==
    /\ pass = "mark_reachable"
    /\ \/ /\ Reachable(w.inner) \subseteq Irs(w.inner)
          /\ reachable' = Reachable(w.inner)
          /\ pass' = "remove_unreachable_code"
          /\ UNCHANGED <<original, w, ir>>
       \/ ~(Reachable(w.inner) \subseteq Irs(w.inner)) /\ Panic

RemoveUnreachable ==
    /\ InLoop("remove_unreachable_code")
    /\ w' = IF ir \in reachable THEN w ELSE DeleteIr(w, ir)
    /\ ir' = ir + 1
    /\ UNCHANGED <<original, pass, reachable>>

-----------------------------------------------------------------------------
(***************************************************************************)
(* Constant folding (pass/fold.rs).  A fold starts at an instruction, takes*)
(* in the ones that follow as long as no jump enters between, and returns  *)
(* the WoCode, where to continue, and whether it got there.                *)
(***************************************************************************)
IsConst(inst, ops) == inst.op \in ops /\ inst.mode = "const"

\* The instructions that a fold starts at, by the fold.
Starts(fold) == IF fold = "ADD" THEN {"ADD", "SUB"} ELSE {fold}

\* The instructions that a fold takes in after its first one.
Takes(fold, first, inst) ==
    /\ fold = "MUL" => first.n # 0
    /\ \/ IsConst(inst, Starts(fold))
       \/ fold = "ADD" /\ IsConst(inst, {"MUL", "DIV"}) /\ inst.n = 1

\* A bug: a fold that jumps may enter.
RunEndAcrossJumps(v, ir0, fold) ==
    Max({ e \in (ir0 + 1)..Len(v.inner) :
            \A k \in (ir0 + 1)..(e - 1) : Takes(fold, At(v.inner, ir0), At(v.inner, k)) })

\* The first ir after ir0 that the fold does not take in.
RunEnd(v, ir0, fold) ==
    Max({ e \in (ir0 + 1)..Len(v.inner) :
            \A k \in (ir0 + 1)..(e - 1) :
                Takes(fold, At(v.inner, ir0), At(v.inner, k)) /\ CanCombine(v, ir0, k) })

\* What an instruction contributes to the folded constant.
Term(fold, inst) ==
    IF fold # "ADD" \/ inst.op = "ADD" THEN inst.n ELSE IF inst.op = "SUB" THEN -inst.n ELSE 0

\* The folded constant after each instruction from ir0 to before end, computed exactly.
Partials(v, ir0, end, fold) ==
    LET Join(a, b) == IF fold = "ADD" THEN a + b ELSE a * b
        partial[k \in ir0..(end - 1)] ==
            IF k = ir0 THEN Term(fold, At(v.inner, k))
            ELSE Join(partial[k - 1], Term(fold, At(v.inner, k)))
    IN  partial

\* An overflow of T's + or * either panics or wraps around.
Wrap(n) == ((n - MinWide) % (MaxWide - MinWide + 1)) + MinWide

Overflows(partial) == OverflowChecks /\ \E k \in DOMAIN partial : partial[k] \notin Wide

\* v once the instructions from first to before end are deleted, one after the other.
DeleteRun(v, first, end) ==
    LET without[k \in first..end] ==
            IF k = first THEN v ELSE DeleteIr(without[k - 1], k - 1)
    IN  without[end]

\* A bug: the first instruction is deleted with the others.
MergedWithFirst(v, ir0, end) == DeleteRun(v, ir0, end)

\* All the instructions taken in are deleted, and the first stands for them.
Merged(v, ir0, end) == DeleteRun(v, ir0 + 1, end)

\* checked_neg().unwrap(), of an operand of SUB and of the result.
Negates(v, ir0, end, folded) ==
    \/ \E k \in ir0..(end - 1) : At(v.inner, k) = Inst("SUB", "const", MinWide)
    \/ CanCombine(v, ir0, ir0 + 1) /\ folded = MinWide

\* What the fold leaves of its instructions, for the constant that they amount to.
FoldAdds(v, ir0, end, folded) ==
    IF folded = 0 THEN DeleteIr(Merged(v, ir0, end), ir0)
    ELSE IF ~CanCombine(v, ir0, ir0 + 1) THEN v
    ELSE IF folded > 0 THEN SetIr(Merged(v, ir0, end), ir0, Inst("ADD", "const", folded))
    ELSE SetIr(Merged(v, ir0, end), ir0, Inst("SUB", "const", -folded))

FoldMuls(v, ir0, end, folded) ==
    IF folded = 0 THEN SetIr(Merged(v, ir0, end), ir0, Inst("LOAD", "const", 0))
    ELSE IF folded = 1 THEN DeleteIr(Merged(v, ir0, end), ir0)
    ELSE IF ~CanCombine(v, ir0, ir0 + 1) THEN v
    ELSE SetIr(Merged(v, ir0, end), ir0, Inst("MUL", "const", folded))

FoldDivs(v, ir0, end, folded) ==
    IF folded = 1 THEN DeleteIr(Merged(v, ir0, end), ir0)
    ELSE IF ~CanCombine(v, ir0, ir0 + 1) THEN v
    ELSE SetIr(Merged(v, ir0, end), ir0, Inst("DIV", "const", folded))

\* One fold, from where the search is.
Folded(from, fold) ==
    LET v == from.w
        ir0 == from.ir
        end == RunEnd(v, ir0, fold)
        partial == Partials(v, ir0, end, fold)
        folded == Wrap(partial[end - 1])
    IN  IF ~(Exists(v.inner, ir0) /\ IsConst(At(v.inner, ir0), Starts(fold))) THEN from
        ELSE [w  |-> CASE fold = "ADD" -> FoldAdds(v, ir0, end, folded)
                       [] fold = "MUL" -> FoldMuls(v, ir0, end, folded)
                       [] fold = "DIV" -> FoldDivs(v, ir0, end, folded),
              ir |-> end,
              ok |-> /\ from.ok
                     /\ ~Overflows(partial)
                     /\ fold = "ADD" => ~Negates(v, ir0, end, folded)]

\* A bug: the search stays where nothing folds.
ContinueAtFold(from, to) == to

\* Where fold_consts goes on.
Continue(from, to) == IF to = from THEN from + 1 ELSE to

FoldConsts ==
    /\ InLoop("fold_consts")
    /\ \E adds \in {Folded([w |-> w, ir |-> ir, ok |-> TRUE], "ADD")} :
       \E muls \in {Folded(adds, "MUL")} :
       \E divs \in {Folded(muls, "DIV")} :
           \/ ~divs.ok /\ Panic
           \/ /\ divs.ok
              /\ w' = divs.w
              /\ ir' = Continue(ir, divs.ir)
              /\ UNCHANGED <<original, pass, reachable>>

-----------------------------------------------------------------------------
\* run_pass returns; the next one starts from the new code.
EndPass ==
    /\ pass \notin {"mark_reachable", "done", "panicked"}
    /\ ir = Len(w.inner)
    /\ ~EmitPanics(w)
    /\ w' \in NewWoCode(Emitted(w))
    /\ \E k \in 1..(Len(PassOrder) - 1) : PassOrder[k] = pass /\ pass' = PassOrder[k + 1]
    /\ ir' = 0
    /\ reachable' = {}
    /\ UNCHANGED original

Next == RemoveNop \/ SimplifyJump \/ MarkReachable \/ RemoveUnreachable \/ FoldConsts \/ EndPass

\* run_passes is one thread's straight run.
Spec == Init /\ [][Next]_vars /\ WF_vars(Next)

-----------------------------------------------------------------------------
(***************************************************************************)
(* Properties.                                                             *)
(***************************************************************************)

\* No pass deletes an instruction twice, sets one that it deleted or deletes one that it set,
\* or sets a jump that the WoCode has no entry for: the deltas count the deletions, the
\* assertions of delete_ir and set_ir hold, and making the code never fails.
PassesAreCareful ==
    /\ w.deleted \cap DOMAIN w.modified = {}
    /\ \A k \in DOMAIN w.deltas :
           w.deltas[k].delta = -Cardinality({ i \in w.deleted : i < w.deltas[k].adr })
    /\ ~EmitPanics(w)

\* What simplify_jumps and remove_unreachable_code leave to the passes after them: a jump
\* leads to an unconditional jump only where those loop, and every instruction can be
\* reached from the first.
JumpsLoop(code, adr) ==
    \E loop \in SUBSET Irs(code) :
        adr \in loop /\ \A a \in loop : IsJump(code, a) /\ At(code, a).n \in loop

JumpsAreShort ==
    pass \in {"mark_reachable", "remove_unreachable_code", "fold_consts"} =>
        \A to \in JumpTargetsOf(w.inner) : IsJump(w.inner, to) => JumpsLoop(w.inner, to)

Leads(code, i, j) ==
    j \in JumpTargets(At(code, i)) \/ (j = i + 1 /\ At(code, i).op \notin {"STOP", "JUMP"})

NothingIsUnreachable ==
    pass \in {"fold_consts", "done"} =>
        \A visited \in SUBSET Irs(w.inner) :
            /\ 0 \in visited
            /\ \A i \in visited, j \in Irs(w.inner) : Leads(w.inner, i, j) => j \in visited
            => visited = Irs(w.inner)

\* The optimizer comes to an end for every code, also where its jumps loop.
OptimizerEnds == <>(pass \in {"done", "panicked"})

\* A program that may run has an optimized form: the optimizer never panics.
OptimizerNeverPanics == pass # "panicked"
=============================================================================
