---------------------------- MODULE PassesProofs ----------------------------
(***************************************************************************)
(* Theorems about the passes of the optimizer, for every set of codes,     *)
(* every width, and both kinds of builds.                                  *)
(***************************************************************************)
EXTENDS Passes, RewriterProofs

-----------------------------------------------------------------------------
(***************************************************************************)
(* The instructions of the optimizer.                                      *)
(***************************************************************************)

\* The numbers of the optimizer are integers, zero among them.
LEMMA WideIsInt ==
    /\ MinWide \in Int /\ MaxWide \in Nat /\ Wide = MinWide..MaxWide /\ MinWide <= 0
    /\ MinWide = -MaxWide - 1 /\ 0 \in Wide /\ \A n \in Wide : n \in Int
  BY WideAssumption DEF MinWide, Wide

\* A constant that fits gives an instruction.
LEMMA ConstIsWide ==
    ASSUME NEW op \in {"LOAD"} \cup BinaryOps, NEW n \in Wide
    PROVE  /\ Inst(op, "const", n) \in WideInstruction
           /\ JumpTargets(Inst(op, "const", n)) = {}
  BY DEF Inst, WideInstruction, JumpTargets, JumpOps, ConditionalJumps, BinaryOps

\* An instruction holds an integer, and if it is a jump an address.
LEMMA WideHolds ==
    ASSUME NEW inst \in WideInstruction
    PROVE  /\ inst.n \in Int
           /\ inst.op \in JumpOps => inst.n \in Usize
           /\ JumpTargets(inst) \subseteq Nat
<1>1. CASE inst \in Instruction
  <2>1. inst.n \in {0} \cup Number \cup Usize
    BY <1>1 DEF Instruction, Value, Register, Address
  <2>2. inst.n \in Int
    BY <2>1, WidthAssumption DEF Number, MinInt, Usize
  <2>3. inst.op \in JumpOps => inst.n \in Usize
    BY <1>1, InstructionJumps DEF JumpTargets
  <2>4. JumpTargets(inst) \subseteq Nat
    BY <1>1, InstructionJumps
  <2> QED
    BY <2>2, <2>3, <2>4
<1>2. CASE inst \in [op : {"LOAD"} \cup BinaryOps, mode : {"const"}, n : Wide]
  BY <1>2, WideIsInt DEF JumpTargets, JumpOps, ConditionalJumps, BinaryOps
<1> QED
  BY <1>1, <1>2 DEF WideInstruction

\* A code of well-formed instructions is a program.
LEMMA WideIsProgram ==
    ASSUME NEW code \in Seq(WideInstruction)
    PROVE  IsProgram(code) /\ Len(code) \in Nat
<1>1. \A inst \in WideInstruction : JumpTargets(inst) \subseteq Nat
  BY WideHolds
<1>2. IsProgram(code)
  BY <1>1, CodesArePrograms
<1> QED
  BY <1>2 DEF IsProgram

\* Every place of a code holds an instruction.
LEMMA WideAt ==
    ASSUME NEW code \in Seq(WideInstruction), NEW i \in Irs(code)
    PROVE  At(code, i) \in WideInstruction
  BY DEF At, Irs

\* Jump targets are addresses.
LEMMA TargetsAreUsize ==
    ASSUME NEW code \in Seq(WideInstruction)
    PROVE  JumpTargetsOf(code) \subseteq Usize
<1> SUFFICES ASSUME NEW i \in Irs(code), NEW a \in JumpTargets(At(code, i))
             PROVE  a \in Usize
  BY DEF JumpTargetsOf
<1>1. At(code, i) \in WideInstruction
  BY WideAt
<1> QED
  BY <1>1, WideHolds DEF JumpTargets

\* map_adr gives an instruction with the same operation.
LEMMA MapAdrIsWide ==
    ASSUME NEW inst \in WideInstruction, NEW adr, inst.op \in JumpOps => adr \in Usize
    PROVE  /\ MapAdr(inst, adr) \in WideInstruction
           /\ MapAdr(inst, adr).op = inst.op
           /\ JumpTargets(MapAdr(inst, adr)) = IF inst.op \in JumpOps THEN {adr} ELSE {}
<1>1. CASE inst.op \notin JumpOps
  BY <1>1 DEF MapAdr, JumpTargets
<1>2. CASE inst.op \in JumpOps
  <2>1. inst \in Address(JumpOps)
    BY <1>2 DEF WideInstruction, Instruction, Value, Register, Address, JumpOps, ConditionalJumps,
                BinaryOps, UnaryOps
  <2>2. MapAdr(inst, adr) = [op |-> inst.op, mode |-> inst.mode, n |-> adr]
    BY <1>2, <2>1 DEF MapAdr, Address
  <2>3. MapAdr(inst, adr) \in Address(JumpOps)
    BY <1>2, <2>1, <2>2 DEF Address
  <2> QED
    BY <1>2, <2>2, <2>3 DEF WideInstruction, Instruction, JumpTargets
<1> QED
  BY <1>1, <1>2

-----------------------------------------------------------------------------
(***************************************************************************)
(* A run of deletions.                                                     *)
(***************************************************************************)

RunRecursion(f, v, first, end) ==
    f = [k \in first..end |-> IF k = first THEN v ELSE DeleteIr(f[k - 1], k - 1)]

RunStep(f, k) == f[k + 1] = DeleteIr(f[k], k)

\* A sequence is a function on its places.
LEMMA SeqIsFunction ==
    ASSUME NEW S, NEW s \in Seq(S)
    PROVE  s \in [DOMAIN s -> S]
  OBVIOUS

\* The recursion of DeleteRun has a solution: the records that delete_ir makes of v are all
\* in one set, whatever their deltas are.
LEMMA RunSolution ==
    ASSUME NEW v, WellFormed(v), NEW first \in Nat, NEW end \in Nat, first <= end
    PROVE  \E f : RunRecursion(f, v, first, end)
<1> DEFINE V == [inner : {v.inner}, deltas : [DOMAIN v.deltas -> [adr : Nat, delta : Int]],
                 deleted : SUBSET Int, modified : {v.modified}]
           step == [k \in (first + 1)..end |-> [u \in V |-> DeleteIr(u, k - 1)]]
<1>1. v \in V
  <2>1. v.deltas \in [DOMAIN v.deltas -> [adr : Nat, delta : Int]]
    <3>1. v.deltas \in Seq([adr : Nat, delta : Int])
      BY DEF WellFormed, Deltas
    <3> HIDE DEF V, step
    <3> QED
      BY <3>1, SeqIsFunction
  <2>2. v.deleted \in SUBSET Int
    BY DEF WellFormed, IsProgram, Irs
  <2>3. v = [inner |-> v.inner, deltas |-> v.deltas, deleted |-> v.deleted,
             modified |-> v.modified]
    BY DEF WellFormed
  <2> QED
    BY <2>1, <2>2, <2>3
<1>2. ASSUME NEW k \in (first + 1)..end, NEW u \in V
      PROVE  DeleteIr(u, k - 1) \in V
  <2>1. u.deltas \in [DOMAIN v.deltas -> [adr : Nat, delta : Int]]
    OBVIOUS
  <2>2. Shifted(u.deltas, k - 1) \in [DOMAIN v.deltas -> [adr : Nat, delta : Int]]
    BY <2>1 DEF Shifted, Entry
  <2>3. u = [inner |-> v.inner, deltas |-> u.deltas, deleted |-> u.deleted,
             modified |-> v.modified]
    OBVIOUS
  <2>4. PICK x : x = DeleteIr(u, k - 1)
    OBVIOUS
  <2>5. x = [inner |-> v.inner, deltas |-> Shifted(u.deltas, k - 1),
             deleted |-> u.deleted \cup {k - 1}, modified |-> v.modified]
    BY <2>3, <2>4 DEF DeleteIr
  <2>6. u.deleted \cup {k - 1} \in SUBSET Int
    OBVIOUS
  <2> QED
    BY <2>2, <2>4, <2>5, <2>6
<1>3. \A k \in (first + 1)..end : step[k] \in [V -> V]
  <2> HIDE DEF V
  <2> QED
    BY <1>2
<1>4. \A k \in (first + 1)..end, u \in V : step[k][u] = DeleteIr(u, k - 1)
  OBVIOUS
<1> HIDE DEF V, step
<1>5. PICK f : Recursion(f, first, end, V, v, step)
  BY <1>1, <1>3, RecursionExists
<1>6. /\ f \in [first..end -> V] /\ f[first] = v
      /\ \A k \in (first + 1)..end : f[k] = step[k][f[k - 1]]
  BY <1>5 DEF Recursion
<1>7. \A k \in (first + 1)..end : f[k] = DeleteIr(f[k - 1], k - 1)
  <2> TAKE k \in (first + 1)..end
  <2>1. k - 1 \in first..end
    OBVIOUS
  <2>2. f[k - 1] \in V
    BY <1>6, <2>1
  <2> QED
    BY <1>4, <1>6, <2>2
<1>8. f = [k \in first..end |-> IF k = first THEN v ELSE DeleteIr(f[k - 1], k - 1)]
  <2>1. ASSUME NEW k \in first..end
        PROVE  f[k] = IF k = first THEN v ELSE DeleteIr(f[k - 1], k - 1)
    <3>1. CASE k = first
      BY <1>6, <3>1
    <3>2. CASE k # first
      <4>1. k \in (first + 1)..end
        BY <3>2
      <4> QED
        BY <1>7, <3>2, <4>1
    <3> QED
      BY <3>1, <3>2
  <2>2. f = [k \in first..end |-> f[k]]
    BY <1>6
  <2> QED
    BY <2>1, <2>2
<1> QED
  BY <1>8 DEF RunRecursion

\* DeleteRun deletes the instructions of a run one after the other.
LEMMA RunIsDefined ==
    ASSUME NEW v, WellFormed(v), NEW first \in Nat, NEW end \in Nat, first <= end
    PROVE  \E f : /\ f[first] = v
                  /\ \A k \in first..(end - 1) : f[k + 1] = DeleteIr(f[k], k)
                  /\ DeleteRun(v, first, end) = f[end]
<1> DEFINE f == CHOOSE g : RunRecursion(g, v, first, end)
<1>1. RunRecursion(f, v, first, end)
  <2>1. \E g : RunRecursion(g, v, first, end)
    BY RunSolution
  <2> QED
    BY <2>1
<1>2. DeleteRun(v, first, end) = f[end]
  BY DEF DeleteRun, RunRecursion
<1> HIDE DEF f
<1>3. ASSUME NEW k \in first..end
      PROVE  f[k] = IF k = first THEN v ELSE DeleteIr(f[k - 1], k - 1)
  BY <1>1 DEF RunRecursion
<1>4. ASSUME NEW k \in first..(end - 1)
      PROVE  f[k + 1] = DeleteIr(f[k], k)
  <2>1. k + 1 \in first..end /\ k + 1 # first /\ (k + 1) - 1 = k
    OBVIOUS
  <2> QED
    BY <1>3, <2>1
<1>5. f[first] = v
  BY <1>3
<1> QED
  BY <1>2, <1>4, <1>5

\* A run of irs that were neither deleted nor modified may be deleted.
LEMMA RunKeepsWellFormed ==
    ASSUME NEW v, WellFormed(v), NEW first \in Nat, NEW end \in Nat, first <= end,
           end <= Len(v.inner),
           \A k \in first..(end - 1) : k \notin v.deleted \cup DOMAIN v.modified
    PROVE  /\ WellFormed(DeleteRun(v, first, end))
           /\ DeleteRun(v, first, end).inner = v.inner
           /\ DeleteRun(v, first, end).modified = v.modified
           /\ DeleteRun(v, first, end).deleted = v.deleted \cup first..(end - 1)
<1>1. PICK f : /\ f[first] = v
               /\ \A k \in first..(end - 1) : f[k + 1] = DeleteIr(f[k], k)
               /\ DeleteRun(v, first, end) = f[end]
  BY RunIsDefined
<1> DEFINE Good(u, k) == /\ WellFormed(u) /\ u.inner = v.inner /\ u.modified = v.modified
                         /\ u.deleted = v.deleted \cup first..(k - 1)
           S == { k \in first..end : Good(f[k], k) }
<1>2. first \in S
  BY <1>1
<1>3. ASSUME NEW k \in first..(end - 1), k \in S
      PROVE  k + 1 \in S
  <2>1. PICK u : u = f[k]
    OBVIOUS
  <2>2. /\ WellFormed(u) /\ u.inner = v.inner /\ u.modified = v.modified
        /\ u.deleted = v.deleted \cup first..(k - 1)
    BY <1>3, <2>1
  <2>3. k \in Irs(u.inner) \ u.deleted /\ k \notin DOMAIN u.modified
    BY <2>2 DEF WellFormed, IsProgram, Irs
  <2>4. /\ WellFormed(DeleteIr(u, k))
        /\ DeleteIr(u, k) = [inner |-> u.inner, deltas |-> Shifted(u.deltas, k),
                             deleted |-> u.deleted \cup {k}, modified |-> u.modified]
    BY <2>2, <2>3, DeleteKeepsWellFormed
  <2>5. f[k + 1] = DeleteIr(u, k)
    BY <1>1, <2>1
  <2>6. f[k + 1].deleted = v.deleted \cup first..((k + 1) - 1)
    <3>1. (first..(k - 1)) \cup {k} = first..((k + 1) - 1)
      OBVIOUS
    <3> QED
      BY <2>2, <2>4, <2>5, <3>1
  <2> QED
    BY <2>2, <2>4, <2>5, <2>6
<1>4. end \in S
  <2> HIDE DEF S
  <2>1. \A n \in first..(end - 1) : n \in S => n + 1 \in S
    BY <1>3
  <2> QED
    BY <1>2, <2>1, IntervalInduction
<1> QED
  BY <1>1, <1>4

-----------------------------------------------------------------------------
(***************************************************************************)
(* A fold.                                                                 *)
(***************************************************************************)

\* The largest element of a set of bounded natural numbers: the bound minus it is least.
LEMMA MaxIsIn ==
    ASSUME NEW n \in Nat, NEW S \in SUBSET (0..n), S # {}
    PROVE  Max(S) \in S /\ \A x \in S : Max(S) >= x
<1> DEFINE gaps == { n - x : x \in S }
<1>1. gaps \in SUBSET Nat /\ gaps # {}
  <2>1. \A x \in S : n - x \in Nat
    OBVIOUS
  <2> QED
    BY <2>1
<1>2. PICK g \in gaps : \A h \in gaps : g <= h
  <2> HIDE DEF gaps
  <2> QED
    BY <1>1, LeastExists
<1>3. PICK m \in S : g = n - m
  OBVIOUS
<1>4. \A x \in S : m >= x
  <2> TAKE x \in S
  <2>1. n - x \in gaps
    OBVIOUS
  <2>2. n - m <= n - x
    BY <1>2, <1>3, <2>1
  <2>3. m \in Int /\ x \in Int
    OBVIOUS
  <2> QED
    BY <2>2, <2>3
<1> QED
  BY <1>4 DEF Max

\* A fold ends past its first instruction, and takes in only what it may.
LEMMA RunEndIsRight ==
    ASSUME NEW v, Len(v.inner) \in Nat, NEW ir0 \in Irs(v.inner), NEW fold
    PROVE  /\ RunEnd(v, ir0, fold) \in (ir0 + 1)..Len(v.inner)
           /\ \A k \in (ir0 + 1)..(RunEnd(v, ir0, fold) - 1) :
                  Takes(fold, At(v.inner, ir0), At(v.inner, k)) /\ CanCombine(v, ir0, k)
<1> DEFINE S == { e \in (ir0 + 1)..Len(v.inner) :
                    \A k \in (ir0 + 1)..(e - 1) :
                        Takes(fold, At(v.inner, ir0), At(v.inner, k)) /\ CanCombine(v, ir0, k) }
<1>1. ir0 \in Nat /\ ir0 + 1 \in (ir0 + 1)..Len(v.inner)
  BY DEF Irs
<1>2. ir0 + 1 \in S
  BY <1>1
<1>3. S \in SUBSET (0..Len(v.inner)) /\ S # {}
  BY <1>1, <1>2
<1>4. Max(S) \in S
  <2> HIDE DEF S
  <2> QED
    BY <1>3, MaxIsIn
<1>5. RunEnd(v, ir0, fold) = Max(S)
  BY DEF RunEnd
<1> QED
  BY <1>4, <1>5

Joined(fold, a, b) == IF fold = "ADD" THEN a + b ELSE a * b

PartialRecursion(f, v, ir0, end, fold) ==
    f = [k \in ir0..(end - 1) |->
            IF k = ir0 THEN Term(fold, At(v.inner, k))
            ELSE Joined(fold, f[k - 1], Term(fold, At(v.inner, k)))]

\* A fold joins integers.
LEMMA TermIsInt ==
    ASSUME NEW inst \in WideInstruction, NEW fold
    PROVE  Term(fold, inst) \in Int
  BY WideHolds DEF Term

\* The constants that a fold goes through are integers.
LEMMA PartialSolution ==
    ASSUME NEW v, v.inner \in Seq(WideInstruction), NEW fold, NEW ir0 \in Irs(v.inner),
           NEW end \in (ir0 + 1)..Len(v.inner)
    PROVE  \E f \in [ir0..(end - 1) -> Int] : PartialRecursion(f, v, ir0, end, fold)
<1> DEFINE last == end - 1
           term == [k \in ir0..last |-> Term(fold, At(v.inner, k))]
           step == [k \in (ir0 + 1)..last |-> [a \in Int |-> Joined(fold, a, term[k])]]
<1>1. ir0 \in Nat /\ last \in Nat /\ ir0 <= last
  BY WideIsProgram DEF Irs
<1>2. \A k \in ir0..last : term[k] \in Int
  <2> TAKE k \in ir0..last
  <2>1. k \in Irs(v.inner)
    BY <1>1, WideIsProgram DEF Irs
  <2>2. At(v.inner, k) \in WideInstruction
    BY <2>1, WideAt
  <2> QED
    BY <2>2, TermIsInt
<1>3. \A k \in (ir0 + 1)..last : step[k] \in [Int -> Int]
  <2>1. ASSUME NEW k \in (ir0 + 1)..last, NEW a \in Int
        PROVE  Joined(fold, a, term[k]) \in Int
    <3>1. term[k] \in Int
      BY <1>1, <1>2
    <3> HIDE DEF term
    <3> QED
      BY <3>1 DEF Joined
  <2> QED
    BY <2>1
<1>4. \A k \in (ir0 + 1)..last, a \in Int : step[k][a] = Joined(fold, a, term[k])
  OBVIOUS
<1>5. ir0 \in ir0..last
  BY <1>1
<1> HIDE DEF step, last
<1>6. PICK f : Recursion(f, ir0, last, Int, term[ir0], step)
  BY <1>1, <1>2, <1>3, <1>5, RecursionExists
<1>7. /\ f \in [ir0..last -> Int] /\ f[ir0] = term[ir0]
      /\ \A k \in (ir0 + 1)..last : f[k] = step[k][f[k - 1]]
  BY <1>6 DEF Recursion
<1>8. ASSUME NEW k \in ir0..last
      PROVE  f[k] = IF k = ir0 THEN term[k] ELSE Joined(fold, f[k - 1], term[k])
  <2>1. CASE k = ir0
    BY <1>7, <2>1
  <2>2. CASE k # ir0
    <3>1. k \in (ir0 + 1)..last /\ k - 1 \in ir0..last
      BY <1>1, <2>2
    <3>2. f[k - 1] \in Int
      BY <1>7, <3>1
    <3> QED
      BY <1>4, <1>7, <2>2, <3>1, <3>2
  <2> QED
    BY <2>1, <2>2
<1>9. f = [k \in ir0..last |-> f[k]]
  BY <1>7
<1>10. PartialRecursion(f, v, ir0, end, fold)
  BY <1>8, <1>9 DEF PartialRecursion, last
<1> QED
  BY <1>7, <1>10 DEF last

\* The partial constants are a sequence of integers.
LEMMA PartialsAreDefined ==
    ASSUME NEW v, v.inner \in Seq(WideInstruction), NEW fold, NEW ir0 \in Irs(v.inner),
           NEW end \in (ir0 + 1)..Len(v.inner)
    PROVE  \E f \in [ir0..(end - 1) -> Int] :
               PartialRecursion(f, v, ir0, end, fold) /\ Partials(v, ir0, end, fold) = f
<1> DEFINE f == CHOOSE g : PartialRecursion(g, v, ir0, end, fold)
           S == { k \in ir0..(end - 1) : f[k] \in Int }
<1>1. PartialRecursion(f, v, ir0, end, fold)
  <2>1. \E g : PartialRecursion(g, v, ir0, end, fold)
    BY PartialSolution
  <2> QED
    BY <2>1
<1>2. Partials(v, ir0, end, fold) = f
  BY DEF Partials, PartialRecursion, Joined
<1> HIDE DEF f
<1>3. ir0 \in Nat /\ end - 1 \in Nat /\ ir0 <= end - 1 /\ ir0 \in ir0..(end - 1)
  BY WideIsProgram DEF Irs
<1>4. ASSUME NEW k \in ir0..(end - 1)
      PROVE  /\ Term(fold, At(v.inner, k)) \in Int
             /\ f[k] = IF k = ir0 THEN Term(fold, At(v.inner, k))
                       ELSE Joined(fold, f[k - 1], Term(fold, At(v.inner, k)))
  <2>1. k \in Irs(v.inner)
    BY <1>3, WideIsProgram DEF Irs
  <2>2. Term(fold, At(v.inner, k)) \in Int
    BY <2>1, WideAt, TermIsInt
  <2> QED
    BY <1>1, <2>2 DEF PartialRecursion
<1>5. ir0 \in S
  BY <1>3, <1>4
<1>6. ASSUME NEW k \in ir0..((end - 1) - 1), k \in S
      PROVE  k + 1 \in S
  <2>1. k + 1 \in ir0..(end - 1) /\ k + 1 # ir0 /\ (k + 1) - 1 = k
    BY <1>3
  <2>2. f[k + 1] = Joined(fold, f[k], Term(fold, At(v.inner, k + 1)))
    BY <1>4, <2>1
  <2>3. Term(fold, At(v.inner, k + 1)) \in Int
    BY <1>4, <2>1
  <2> QED
    BY <1>6, <2>1, <2>2, <2>3 DEF Joined
<1>7. \A k \in ir0..(end - 1) : k \in S
  <2> HIDE DEF S
  <2> QED
    BY <1>3, <1>5, <1>6, IntervalInduction
<1>8. f \in [ir0..(end - 1) -> Int]
  BY <1>1, <1>7 DEF PartialRecursion
<1> QED
  BY <1>1, <1>2, <1>8

\* In particular the last one, which the fold is about.
LEMMA PartialsAreInt ==
    ASSUME NEW v, v.inner \in Seq(WideInstruction), NEW fold, NEW ir0 \in Irs(v.inner),
           NEW end \in (ir0 + 1)..Len(v.inner)
    PROVE  Partials(v, ir0, end, fold)[end - 1] \in Int
<1>1. PICK f \in [ir0..(end - 1) -> Int] : Partials(v, ir0, end, fold) = f
  BY PartialsAreDefined
<1>2. end - 1 \in ir0..(end - 1)
  BY WideIsProgram DEF Irs
<1>3. f[end - 1] \in Int
  BY <1>2
<1> QED
  BY <1>1, <1>3

\* Wrapping around ends inside the width.
LEMMA WrapIsWide ==
    ASSUME NEW n \in Int
    PROVE  Wrap(n) \in Wide
<1>1. MaxWide - MinWide + 1 \in Nat \ {0}
  BY WideIsInt
<1>2. (n - MinWide) % (MaxWide - MinWide + 1) \in 0..(MaxWide - MinWide)
  BY <1>1, WideIsInt
<1> QED
  BY <1>2, WideIsInt DEF Wrap

\* What is inside the width stays as it is.
LEMMA WrapKeepsWide ==
    ASSUME NEW n \in Wide
    PROVE  Wrap(n) = n
<1>1. n \in Int /\ n - MinWide \in 0..(MaxWide - MinWide) /\ MaxWide - MinWide + 1 \in Nat \ {0}
  BY WideIsInt
<1>2. \A d \in Nat \ {0} : \A x \in 0..(d - 1) : x % d = x
  OBVIOUS
<1>3. n - MinWide \in 0..((MaxWide - MinWide + 1) - 1)
  BY <1>1, WideIsInt
<1>4. (n - MinWide) % (MaxWide - MinWide + 1) = n - MinWide
  BY <1>1, <1>2, <1>3
<1>5. (n - MinWide) + MinWide = n
  BY <1>1, WideIsInt
<1> QED
  BY <1>4, <1>5 DEF Wrap

\* Instructions that control just goes past.
Straight(inst) == inst.op \notin JumpOps \cup {"STOP"}

\* What fold_consts has made of a code when it has come to n: it has touched nothing from n
\* on, and has replaced only constant arithmetic, and only by constant arithmetic.
Folding(u, n) ==
    /\ WellFormed(u)
    /\ u.inner \in Seq(WideInstruction)
    /\ u.deleted \cup DOMAIN u.modified \subseteq 0..(n - 1)
    /\ \A i \in DOMAIN u.modified : u.modified[i] \in WideInstruction /\ Straight(u.modified[i])
    /\ \A i \in u.deleted \cup DOMAIN u.modified : Straight(At(u.inner, i))

\* What fold_consts has done before n, it has done before m.
LEMMA FoldingGoesOn ==
    ASSUME NEW u, NEW n \in Nat, NEW m \in Nat, n <= m, Folding(u, n)
    PROVE  Folding(u, m)
<1>1. 0..(n - 1) \subseteq 0..(m - 1)
  OBVIOUS
<1> QED
  BY <1>1 DEF Folding

\* Constant arithmetic neither jumps nor stops.
LEMMA ConstIsStraight ==
    /\ \A inst, ops : IsConst(inst, ops) /\ ops \subseteq BinaryOps => Straight(inst)
    /\ \A op \in {"LOAD"} \cup BinaryOps : \A n : Straight(Inst(op, "const", n))
  BY DEF IsConst, Straight, BinaryOps, JumpOps, ConditionalJumps, Inst

\* What the folds leave behind: the run without all but its first instruction, and that one
\* deleted too, or replaced by constant arithmetic.
LEMMA MergedKeepsFolding ==
    ASSUME NEW v, NEW ir0 \in Irs(v.inner), Folding(v, ir0), NEW end \in (ir0 + 1)..Len(v.inner),
           \A k \in ir0..(end - 1) : Straight(At(v.inner, k))
    PROVE  /\ Folding(DeleteIr(Merged(v, ir0, end), ir0), end)
           /\ DeleteIr(Merged(v, ir0, end), ir0).inner = v.inner
           /\ \A inst \in WideInstruction : Straight(inst) /\ JumpTargets(inst) = {} =>
                  /\ Folding(SetIr(Merged(v, ir0, end), ir0, inst), end)
                  /\ SetIr(Merged(v, ir0, end), ir0, inst).inner = v.inner
           /\ Folding(v, end)
<1>1. ir0 \in Nat /\ end \in Nat /\ ir0 + 1 <= end /\ end <= Len(v.inner) /\ Len(v.inner) \in Nat
  BY WideIsProgram DEF Irs, Folding
<1>2. \A k \in (ir0 + 1)..(end - 1) : k \notin v.deleted \cup DOMAIN v.modified
  BY <1>1 DEF Folding
<1>3. PICK u : u = Merged(v, ir0, end)
  OBVIOUS
<1>4. /\ WellFormed(u) /\ u.inner = v.inner /\ u.modified = v.modified
      /\ u.deleted = v.deleted \cup (ir0 + 1)..(end - 1)
  BY <1>1, <1>2, <1>3, RunKeepsWellFormed DEF Merged, Folding
<1>5. ir0 \in Irs(u.inner) \ u.deleted /\ ir0 \notin DOMAIN u.modified
  BY <1>1, <1>4 DEF Folding
<1>6. /\ v.inner \in Seq(WideInstruction)
      /\ v.deleted \cup DOMAIN v.modified \subseteq 0..(ir0 - 1)
      /\ \A i \in DOMAIN v.modified : v.modified[i] \in WideInstruction /\ Straight(v.modified[i])
      /\ \A i \in v.deleted \cup DOMAIN v.modified : Straight(At(v.inner, i))
  BY DEF Folding
<1>7. /\ u.deleted \cup DOMAIN u.modified \cup {ir0} \subseteq 0..(end - 1)
      /\ \A i \in u.deleted \cup DOMAIN u.modified \cup {ir0} : Straight(At(v.inner, i))
  <2>1. \A i \in (ir0 + 1)..(end - 1) \cup {ir0} : i \in ir0..(end - 1) /\ i \in 0..(end - 1)
    BY <1>1
  <2>2. 0..(ir0 - 1) \subseteq 0..(end - 1)
    BY <1>1
  <2> QED
    BY <1>4, <1>6, <2>1, <2>2
<1>8. Folding(DeleteIr(u, ir0), end) /\ DeleteIr(u, ir0).inner = v.inner
  <2>1. /\ WellFormed(DeleteIr(u, ir0))
        /\ DeleteIr(u, ir0) = [inner |-> u.inner, deltas |-> Shifted(u.deltas, ir0),
                               deleted |-> u.deleted \cup {ir0}, modified |-> u.modified]
    BY <1>4, <1>5, DeleteKeepsWellFormed
  <2> QED
    BY <1>4, <1>6, <1>7, <2>1 DEF Folding
<1>9. ASSUME NEW inst \in WideInstruction, Straight(inst), JumpTargets(inst) = {}
      PROVE  Folding(SetIr(u, ir0, inst), end) /\ SetIr(u, ir0, inst).inner = v.inner
  <2>1. PICK x : x = SetIr(u, ir0, inst)
    OBVIOUS
  <2>2. /\ WellFormed(x) /\ x.inner = u.inner /\ x.deleted = u.deleted
        /\ DOMAIN x.modified = DOMAIN u.modified \cup {ir0}
        /\ \A i \in DOMAIN u.modified \cup {ir0} :
               x.modified[i] = IF i = ir0 THEN inst ELSE u.modified[i]
    BY <1>4, <1>5, <1>9, <2>1, SetKeepsWellFormed
  <2>3. \A i \in DOMAIN x.modified : x.modified[i] \in WideInstruction /\ Straight(x.modified[i])
    BY <1>4, <1>6, <1>9, <2>2
  <2>4. Folding(x, end)
    BY <1>4, <1>6, <1>7, <2>2, <2>3 DEF Folding
  <2> QED
    BY <1>4, <2>1, <2>2, <2>4
<1>10. Folding(v, end)
  BY <1>1, FoldingGoesOn
<1> QED
  BY <1>3, <1>8, <1>9, <1>10

FoldKinds == {"ADD", "MUL", "DIV"}

\* A fold takes nothing that jumps or stops.
LEMMA TakesAreStraight ==
    ASSUME NEW fold \in FoldKinds, NEW first, NEW inst, Takes(fold, first, inst)
    PROVE  Straight(inst)
<1>1. Starts(fold) \subseteq BinaryOps /\ {"MUL", "DIV"} \subseteq BinaryOps
  BY DEF FoldKinds, Starts, BinaryOps
<1> QED
  BY <1>1, ConstIsStraight DEF Takes

\* The end of fold_adds is a step of fold_consts: it deletes a run or writes its sum.
LEMMA FoldAddsKeepsFolding ==
    ASSUME NEW v, NEW ir0 \in Irs(v.inner), Folding(v, ir0), NEW end \in (ir0 + 1)..Len(v.inner),
           \A k \in ir0..(end - 1) : Straight(At(v.inner, k)),
           NEW folded \in Wide, ~Negates(v, ir0, end, folded)
    PROVE  /\ Folding(FoldAdds(v, ir0, end, folded), end)
           /\ FoldAdds(v, ir0, end, folded).inner = v.inner
<1>1. CanCombine(v, ir0, ir0 + 1) => folded # MinWide
  BY DEF Negates
<1>2. CASE folded = 0
  BY <1>2, MergedKeepsFolding DEF FoldAdds
<1>3. CASE folded # 0 /\ ~CanCombine(v, ir0, ir0 + 1)
  BY <1>3, MergedKeepsFolding DEF FoldAdds
<1>4. CASE folded # 0 /\ CanCombine(v, ir0, ir0 + 1) /\ folded > 0
  <2>1. /\ Inst("ADD", "const", folded) \in WideInstruction
        /\ JumpTargets(Inst("ADD", "const", folded)) = {}
        /\ Straight(Inst("ADD", "const", folded))
    BY ConstIsWide, ConstIsStraight DEF BinaryOps
  <2>2. FoldAdds(v, ir0, end, folded) =
            SetIr(Merged(v, ir0, end), ir0, Inst("ADD", "const", folded))
    BY <1>4 DEF FoldAdds
  <2> QED
    BY <2>1, <2>2, MergedKeepsFolding
<1>5. CASE folded # 0 /\ CanCombine(v, ir0, ir0 + 1) /\ ~(folded > 0)
  <2>1. -folded \in Wide
    BY <1>1, <1>5, WideIsInt
  <2>2. /\ Inst("SUB", "const", -folded) \in WideInstruction
        /\ JumpTargets(Inst("SUB", "const", -folded)) = {}
        /\ Straight(Inst("SUB", "const", -folded))
    BY <2>1, ConstIsWide, ConstIsStraight DEF BinaryOps
  <2>3. FoldAdds(v, ir0, end, folded) =
            SetIr(Merged(v, ir0, end), ir0, Inst("SUB", "const", -folded))
    BY <1>5 DEF FoldAdds
  <2> QED
    BY <2>2, <2>3, MergedKeepsFolding
<1> QED
  BY <1>2, <1>3, <1>4, <1>5

\* So are the ends of fold_muls and fold_divs.
LEMMA FoldMulsAndDivsKeepFolding ==
    ASSUME NEW v, NEW ir0 \in Irs(v.inner), Folding(v, ir0), NEW end \in (ir0 + 1)..Len(v.inner),
           \A k \in ir0..(end - 1) : Straight(At(v.inner, k)), NEW folded \in Wide
    PROVE  /\ Folding(FoldMuls(v, ir0, end, folded), end)
           /\ FoldMuls(v, ir0, end, folded).inner = v.inner
           /\ Folding(FoldDivs(v, ir0, end, folded), end)
           /\ FoldDivs(v, ir0, end, folded).inner = v.inner
<1>1. \A op \in {"LOAD", "MUL", "DIV"}, n \in Wide :
          /\ Inst(op, "const", n) \in WideInstruction
          /\ JumpTargets(Inst(op, "const", n)) = {}
          /\ Straight(Inst(op, "const", n))
  BY ConstIsWide, ConstIsStraight DEF BinaryOps
<1>2. \A op \in {"LOAD", "MUL", "DIV"}, n \in Wide :
          /\ Folding(SetIr(Merged(v, ir0, end), ir0, Inst(op, "const", n)), end)
          /\ SetIr(Merged(v, ir0, end), ir0, Inst(op, "const", n)).inner = v.inner
  BY <1>1, MergedKeepsFolding
<1>3. /\ Folding(DeleteIr(Merged(v, ir0, end), ir0), end)
      /\ DeleteIr(Merged(v, ir0, end), ir0).inner = v.inner
      /\ Folding(v, end)
  BY MergedKeepsFolding
<1>4. 0 \in Wide
  BY WideIsInt
<1> QED
  BY <1>2, <1>3, <1>4 DEF FoldMuls, FoldDivs

\* Where the search of fold_consts is.
Searching(from, code) ==
    /\ from.w.inner = code
    /\ from.ir \in 0..Len(code)
    /\ Folding(from.w, from.ir)

\* A fold that does not panic goes on.
LEMMA FoldedKeepsSearching ==
    ASSUME NEW from, NEW fold \in FoldKinds, NEW code \in Seq(WideInstruction),
           from.ok => Searching(from, code), Folded(from, fold).ok
    PROVE  /\ from.ok
           /\ Searching(Folded(from, fold), code)
           /\ Folded(from, fold).ir >= from.ir
<1> DEFINE v == from.w
           ir0 == from.ir
           end == RunEnd(v, ir0, fold)
           partial == Partials(v, ir0, end, fold)
           folded == Wrap(partial[end - 1])
           left == CASE fold = "ADD" -> FoldAdds(v, ir0, end, folded)
                     [] fold = "MUL" -> FoldMuls(v, ir0, end, folded)
                     [] fold = "DIV" -> FoldDivs(v, ir0, end, folded)
<1>1. CASE ~(Exists(v.inner, ir0) /\ IsConst(At(v.inner, ir0), Starts(fold)))
  <2>1. Folded(from, fold) = from
    BY <1>1 DEF Folded
  <2> QED
    BY <2>1, WideIsProgram DEF Searching
<1>2. CASE Exists(v.inner, ir0) /\ IsConst(At(v.inner, ir0), Starts(fold))
  <2>1. Folded(from, fold) = [w |-> left, ir |-> end,
                              ok |-> /\ from.ok
                                     /\ ~Overflows(partial)
                                     /\ fold = "ADD" => ~Negates(v, ir0, end, folded)]
    BY <1>2 DEF Folded
  <2>2. from.ok /\ (fold = "ADD" => ~Negates(v, ir0, end, folded))
    BY <2>1
  <2>3. v.inner = code /\ Folding(v, ir0) /\ ir0 \in Irs(code) /\ Len(code) \in Nat /\ ir0 \in Nat
    BY <1>2, <2>2, WideIsProgram DEF Searching, Exists, Irs
  <2>4. /\ end \in (ir0 + 1)..Len(code)
        /\ \A k \in (ir0 + 1)..(end - 1) : Takes(fold, At(code, ir0), At(code, k))
    BY <2>3, RunEndIsRight
  <2>5. Straight(At(code, ir0))
    BY <1>2, <2>3, ConstIsStraight DEF FoldKinds, Starts, BinaryOps
  <2>6. \A k \in ir0..(end - 1) : Straight(At(code, k))
    <3>1. \A k \in ir0..(end - 1) : k = ir0 \/ k \in (ir0 + 1)..(end - 1)
      BY <2>3, <2>4
    <3> QED
      BY <2>4, <2>5, <3>1, TakesAreStraight
  <2>7. folded \in Wide
    BY <2>3, <2>4, PartialsAreInt, WrapIsWide
  <2> HIDE DEF end, partial, folded
  <2>8. Folding(left, end) /\ left.inner = code
    <3>1. CASE fold = "ADD"
      <4>1. left = FoldAdds(v, ir0, end, folded)
        BY <3>1
      <4> QED
        BY <2>2, <2>3, <2>4, <2>6, <2>7, <3>1, <4>1, FoldAddsKeepsFolding
    <3>2. CASE fold = "MUL"
      <4>1. left = FoldMuls(v, ir0, end, folded)
        BY <3>2
      <4>2. /\ Folding(FoldMuls(v, ir0, end, folded), end)
            /\ FoldMuls(v, ir0, end, folded).inner = code
        <5> HIDE DEF left
        <5> QED
          BY <2>3, <2>4, <2>6, <2>7, FoldMulsAndDivsKeepFolding
      <4> HIDE DEF left
      <4> QED
        BY <4>1, <4>2
    <3>3. CASE fold = "DIV"
      <4>1. left = FoldDivs(v, ir0, end, folded)
        BY <3>3
      <4>2. /\ Folding(FoldDivs(v, ir0, end, folded), end)
            /\ FoldDivs(v, ir0, end, folded).inner = code
        <5> HIDE DEF left
        <5> QED
          BY <2>3, <2>4, <2>6, <2>7, FoldMulsAndDivsKeepFolding
      <4> HIDE DEF left
      <4> QED
        BY <4>1, <4>2
    <3> QED
      BY <3>1, <3>2, <3>3 DEF FoldKinds
  <2> HIDE DEF left
  <2>9. Folded(from, fold).w = left /\ Folded(from, fold).ir = end
    BY <2>1
  <2> QED
    BY <2>2, <2>3, <2>4, <2>8, <2>9 DEF Searching
<1> QED
  BY <1>1, <1>2

-----------------------------------------------------------------------------
(***************************************************************************)
(* The code that a pass makes.                                             *)
(***************************************************************************)

\* What TypeOK says of the WoCode.
Rewrites(v) ==
    /\ WellFormed(v)
    /\ v.inner \in Seq(WideInstruction)
    /\ \A i \in DOMAIN v.modified : v.modified[i] \in WideInstruction

\* What is emitted for an instruction is one.
LEMMA EditedIsWide ==
    ASSUME NEW v, Rewrites(v), NEW i \in Irs(v.inner)
    PROVE  Edited(v, i) \in WideInstruction
  BY WideAt DEF Rewrites, Edited

\* Every instruction that is left has moved by the deletions before it, and so has what it
\* jumps to.
Moves(v, code) ==
    /\ code \in Seq(WideInstruction)
    /\ Len(code) = MovedBy(v.deleted, Len(v.inner))
    /\ \A p \in Irs(code) : \E i \in Irs(v.inner) \ v.deleted : MovedBy(v.deleted, i) = p
    /\ \A i \in Irs(v.inner) \ v.deleted :
           /\ MovedBy(v.deleted, i) \in Irs(code)
           /\ At(code, MovedBy(v.deleted, i)).op = Edited(v, i).op
           /\ JumpTargets(At(code, MovedBy(v.deleted, i))) =
                  { MovedBy(v.deleted, a) : a \in JumpTargets(Edited(v, i)) }

\* The code that is emitted is the one that the deletions moved.
LEMMA EmittedMoves ==
    ASSUME NEW v, Rewrites(v)
    PROVE  Moves(v, Emitted(v))
<1> DEFINE E == Emitted(v)
           D == v.deleted
<1>1. WellFormed(v)
  BY DEF Rewrites
<1>2. /\ E = [p \in 1..Len(E) |-> E[p]]
      /\ Len(E) = MovedBy(D, Len(v.inner))
      /\ Len(E) \in 0..Len(v.inner)
      /\ \A p \in 1..Len(E) : \E ir0 \in Irs(v.inner) \ D : MovedBy(D, ir0) = p - 1
      /\ \A ir0 \in Irs(v.inner) \ D :
             /\ MovedBy(D, ir0) \in Irs(E)
             /\ At(E, MovedBy(D, ir0)) = MapAdr(Edited(v, ir0), NewAdr(v, Edited(v, ir0).n))
  BY <1>1, EmittedIsRight
<1>3. Len(E) \in Nat
  BY <1>1, <1>2 DEF WellFormed, IsProgram
<1>4. ASSUME NEW i \in Irs(v.inner)
      PROVE  LET inst == Edited(v, i)
                 new == MapAdr(inst, NewAdr(v, inst.n))
             IN  /\ new \in WideInstruction
                 /\ new.op = inst.op
                 /\ JumpTargets(new) = { MovedBy(D, a) : a \in JumpTargets(inst) }
  <2>1. PICK inst : inst = Edited(v, i)
    OBVIOUS
  <2>2. inst \in WideInstruction
    BY <2>1, EditedIsWide
  <2>3. CASE inst.op \in JumpOps
    <3>1. JumpTargets(inst) = {inst.n} /\ inst.n \in Usize
      BY <2>2, <2>3, WideHolds DEF JumpTargets
    <3>2. inst.n \in JumpTargetsOf(v.inner)
      BY <1>1, <2>1, <3>1, EditedJumps
    <3>3. NewAdr(v, inst.n) = MovedBy(D, inst.n) /\ NewAdr(v, inst.n) \in 0..inst.n
      BY <1>1, <3>2, TargetsAreMoved
    <3>4. NewAdr(v, inst.n) \in Usize
      BY <3>1, <3>3, WidthAssumption DEF Usize
    <3>5. /\ MapAdr(inst, NewAdr(v, inst.n)) \in WideInstruction
          /\ MapAdr(inst, NewAdr(v, inst.n)).op = inst.op
          /\ JumpTargets(MapAdr(inst, NewAdr(v, inst.n))) = {NewAdr(v, inst.n)}
      BY <2>2, <2>3, <3>4, MapAdrIsWide
    <3> QED
      BY <2>1, <3>1, <3>3, <3>5
  <2>4. CASE inst.op \notin JumpOps
    <3>1. MapAdr(inst, NewAdr(v, inst.n)) = inst /\ JumpTargets(inst) = {}
      BY <2>4 DEF MapAdr, JumpTargets
    <3> QED
      BY <2>1, <2>2, <3>1
  <2> QED
    BY <2>3, <2>4
<1>5. \A i \in Irs(v.inner) \ D :
          /\ MovedBy(D, i) \in Irs(E)
          /\ At(E, MovedBy(D, i)) \in WideInstruction
          /\ At(E, MovedBy(D, i)).op = Edited(v, i).op
          /\ JumpTargets(At(E, MovedBy(D, i))) =
                 { MovedBy(D, a) : a \in JumpTargets(Edited(v, i)) }
  BY <1>2, <1>4
<1>6. \A p \in Irs(E) : \E i \in Irs(v.inner) \ D : MovedBy(D, i) = p
  <2> TAKE p \in Irs(E)
  <2>1. p + 1 \in 1..Len(E) /\ (p + 1) - 1 = p
    BY <1>3 DEF Irs
  <2> QED
    BY <1>2, <2>1
<1>7. E \in Seq(WideInstruction)
  <2>1. ASSUME NEW p \in 1..Len(E)
        PROVE  E[p] \in WideInstruction
    <3>1. p - 1 \in Irs(E) /\ (p - 1) + 1 = p
      BY <1>3 DEF Irs
    <3>2. At(E, p - 1) \in WideInstruction
      BY <1>5, <1>6, <3>1
    <3> QED
      BY <3>1, <3>2 DEF At
  <2>2. E \in [1..Len(E) -> WideInstruction]
    <3> HIDE DEF E
    <3> QED
      BY <1>2, <2>1
  <2> HIDE DEF E
  <2> QED
    BY <1>3, <2>2
<1> QED
  BY <1>2, <1>5, <1>6, <1>7 DEF Moves

-----------------------------------------------------------------------------
(***************************************************************************)
(* final_adr.                                                              *)
(***************************************************************************)

Hop(code, a) == IF IsJump(code, a) THEN At(code, a).n ELSE a

HopRecursion(f, code, adr) ==
    f = [k \in 0..Len(code) |-> IF k = 0 THEN adr
                                ELSE IF IsJump(code, f[k - 1]) THEN At(code, f[k - 1]).n
                                ELSE f[k - 1]]

\* A jump leads to a target, and is in the code.
LEMMA HopIsTarget ==
    ASSUME NEW code, IsProgram(code), NEW a \in Nat
    PROVE  /\ IsJump(code, a) => /\ a \in Irs(code)
                                 /\ JumpTargets(At(code, a)) = {At(code, a).n}
                                 /\ At(code, a).n \in JumpTargetsOf(code)
                                 /\ At(code, a).n \in Nat
           /\ Hop(code, a) \in {a} \cup JumpTargetsOf(code)
           /\ Hop(code, a) \in Nat
<1>1. ASSUME IsJump(code, a)
      PROVE  /\ a \in Irs(code)
             /\ JumpTargets(At(code, a)) = {At(code, a).n}
             /\ At(code, a).n \in JumpTargetsOf(code)
             /\ At(code, a).n \in Nat
  <2>1. a \in Irs(code)
    BY <1>1 DEF IsJump, Exists, Irs, IsProgram
  <2>2. JumpTargets(At(code, a)) = {At(code, a).n}
    BY <1>1 DEF IsJump, JumpTargets, JumpOps
  <2> QED
    BY <2>1, <2>2 DEF JumpTargetsOf, IsProgram
<1> QED
  BY <1>1 DEF Hop

\* The recursion of final_adr has a solution.
LEMMA HopSolution ==
    ASSUME NEW code, IsProgram(code), NEW adr \in Nat
    PROVE  \E f : HopRecursion(f, code, adr)
<1> DEFINE V == {adr} \cup JumpTargetsOf(code)
           step == [k \in 1..Len(code) |-> [a \in V |-> Hop(code, a)]]
<1>1. Len(code) \in Nat /\ adr \in V /\ V \subseteq Nat
  BY DEF IsProgram
<1>2. \A k \in (0 + 1)..Len(code) : step[k] \in [V -> V]
  <2>1. \A a \in V : Hop(code, a) \in V
    BY <1>1, HopIsTarget
  <2>2. \A k \in (0 + 1)..Len(code) : k \in 1..Len(code)
    BY <1>1
  <2>3. [a \in V |-> Hop(code, a)] \in [V -> V]
    <3> HIDE DEF V
    <3> QED
      BY <2>1
  <2> QED
    BY <2>2, <2>3
<1>3. \A k \in 1..Len(code), a \in V : step[k][a] = Hop(code, a)
  OBVIOUS
<1>4. 0 \in Nat /\ 0 <= Len(code) /\ 0 \in 0..Len(code)
  BY <1>1
<1> HIDE DEF V, step
<1>5. PICK f : Recursion(f, 0, Len(code), V, adr, step)
  BY <1>1, <1>2, <1>4, RecursionExists
<1>6. /\ f \in [0..Len(code) -> V] /\ f[0] = adr
      /\ \A k \in (0 + 1)..Len(code) : f[k] = step[k][f[k - 1]]
  BY <1>5 DEF Recursion
<1>7. ASSUME NEW k \in 0..Len(code)
      PROVE  f[k] = IF k = 0 THEN adr
                    ELSE IF IsJump(code, f[k - 1]) THEN At(code, f[k - 1]).n ELSE f[k - 1]
  <2>1. CASE k = 0
    BY <1>6, <2>1
  <2>2. CASE k # 0
    <3>1. k \in 1..Len(code) /\ k \in (0 + 1)..Len(code) /\ k - 1 \in 0..Len(code)
      BY <1>1, <2>2
    <3>2. f[k] = Hop(code, f[k - 1])
      BY <1>3, <1>6, <3>1
    <3> QED
      BY <2>2, <3>2 DEF Hop
  <2> QED
    BY <2>1, <2>2
<1>8. f = [k \in 0..Len(code) |-> f[k]]
  BY <1>6
<1> QED
  BY <1>7, <1>8 DEF HopRecursion

\* The addresses that final_adr goes through.
Hops(f, code, adr) ==
    /\ f[0] = adr
    /\ \A k \in 0..(Len(code) - 1) : f[k + 1] = Hop(code, f[k])
    /\ \A k \in 0..Len(code) : f[k] \in Nat /\ f[k] \in {adr} \cup JumpTargetsOf(code)

\* final_adr hops from jump to jump and keeps an address that is no jump.
LEMMA FinalAdrIsDefined ==
    ASSUME NEW code, IsProgram(code), NEW adr \in Nat
    PROVE  \E f : /\ Hops(f, code, adr)
                  /\ FinalAdr(code, adr) = { a \in {f[Len(code)]} \ {adr} : ~IsJump(code, a) }
<1> DEFINE f == CHOOSE g : HopRecursion(g, code, adr)
           S == { k \in 0..Len(code) : f[k] \in Nat /\ f[k] \in {adr} \cup JumpTargetsOf(code) }
<1>1. HopRecursion(f, code, adr)
  <2>1. \E g : HopRecursion(g, code, adr)
    BY HopSolution
  <2> QED
    BY <2>1
<1>2. FinalAdr(code, adr) = { a \in {f[Len(code)]} \ {adr} : ~IsJump(code, a) }
  BY DEF FinalAdr, HopRecursion
<1> HIDE DEF f
<1>3. Len(code) \in Nat /\ 0 \in 0..Len(code) /\ 0 \in Nat
  BY DEF IsProgram
<1>4. ASSUME NEW k \in 0..Len(code)
      PROVE  f[k] = IF k = 0 THEN adr
                    ELSE IF IsJump(code, f[k - 1]) THEN At(code, f[k - 1]).n ELSE f[k - 1]
  BY <1>1 DEF HopRecursion
<1>5. f[0] = adr
  BY <1>3, <1>4
<1>6. ASSUME NEW k \in 0..(Len(code) - 1)
      PROVE  f[k + 1] = Hop(code, f[k])
  <2>1. k + 1 \in 0..Len(code) /\ k + 1 # 0 /\ (k + 1) - 1 = k
    BY <1>3
  <2> QED
    BY <1>4, <2>1 DEF Hop
<1>7. 0 \in S
  BY <1>3, <1>5
<1>8. ASSUME NEW k \in 0..(Len(code) - 1), k \in S
      PROVE  k + 1 \in S
  <2>1. k + 1 \in 0..Len(code)
    BY <1>3
  <2>2. f[k] \in Nat /\ f[k] \in {adr} \cup JumpTargetsOf(code)
    BY <1>8
  <2>3. /\ Hop(code, f[k]) \in {f[k]} \cup JumpTargetsOf(code)
        /\ Hop(code, f[k]) \in Nat
    BY <2>2, HopIsTarget
  <2> QED
    BY <1>6, <2>1, <2>2, <2>3
<1>9. \A k \in 0..Len(code) : k \in S
  <2> HIDE DEF S
  <2> QED
    BY <1>3, <1>7, <1>8, IntervalInduction
<1> QED
  BY <1>2, <1>5, <1>6, <1>9 DEF Hops

\* final_adr leads to a target, and not to an unconditional jump.
LEMMA FinalAdrIsTarget ==
    ASSUME NEW code, IsProgram(code), NEW adr \in JumpTargetsOf(code), NEW a \in FinalAdr(code, adr)
    PROVE  a \in JumpTargetsOf(code) /\ ~IsJump(code, a)
<1>1. adr \in Nat /\ Len(code) \in Nat /\ Len(code) \in 0..Len(code)
  BY DEF IsProgram
<1>2. PICK f : /\ Hops(f, code, adr)
               /\ FinalAdr(code, adr) = { b \in {f[Len(code)]} \ {adr} : ~IsJump(code, b) }
  BY <1>1, FinalAdrIsDefined
<1> QED
  BY <1>1, <1>2 DEF Hops

\* Where a jump leads to another one but final_adr finds no end, the jumps loop: a walk of
\* more steps than there are instructions comes back.
LEMMA NoEndMeansLoop ==
    ASSUME NEW code, IsProgram(code), NEW adr \in Nat, IsJump(code, adr),
           FinalAdr(code, adr) = {}
    PROVE  JumpsLoop(code, adr)
<1> DEFINE n == Len(code)
<1>1. n \in Nat /\ 0 \in 0..n /\ n \in 0..n
  BY DEF IsProgram
<1>2. PICK f : /\ Hops(f, code, adr)
               /\ FinalAdr(code, adr) = { b \in {f[n]} \ {adr} : ~IsJump(code, b) }
  BY FinalAdrIsDefined
<1>3. /\ f[0] = adr
      /\ \A k \in 0..(n - 1) : f[k + 1] = Hop(code, f[k])
      /\ \A k \in 0..n : f[k] \in Nat
  BY <1>2 DEF Hops
<1>4. IsJump(code, f[n])
  BY <1>2
<1>5. ASSUME NEW k \in 0..n
      PROVE  IsJump(code, f[k])
  <2> DEFINE T == { j \in k..n : ~IsJump(code, f[j]) }
  <2>1. SUFFICES ASSUME ~IsJump(code, f[k])
                 PROVE  FALSE
    OBVIOUS
  <2>2. k \in Nat /\ k <= n /\ k \in T
    BY <1>1, <2>1
  <2>3. ASSUME NEW j \in k..(n - 1), j \in T
        PROVE  j + 1 \in T
    <3>1. j \in 0..(n - 1) /\ j + 1 \in k..n
      BY <1>1
    <3> QED
      BY <1>3, <2>3, <3>1 DEF Hop
  <2>4. n \in T
    <3> HIDE DEF T
    <3> QED
      BY <1>1, <2>2, <2>3, IntervalInduction
  <2> QED
    BY <1>4, <2>4
<1>6. \A k \in 0..n : f[k] \in Irs(code)
  BY <1>3, <1>5, HopIsTarget
<1>7. \A k \in 0..(n - 1) : f[k + 1] = At(code, f[k]).n
  <2>1. \A k \in 0..(n - 1) : k \in 0..n
    BY <1>1
  <2> QED
    BY <1>3, <1>5, <2>1 DEF Hop
<1>8. \E p, q \in 0..n : p < q /\ f[p] = f[q]
  <2>1. IsFiniteSet(0..n) /\ Cardinality(0..n) = n + 1
    BY <1>1, FS_Interval
  <2>2. IsFiniteSet(Irs(code)) /\ Cardinality(Irs(code)) = n
    <3>1. Irs(code) = 0..(n - 1) /\ n - 1 \in Int /\ 0 \in Int
      BY <1>1 DEF Irs
    <3>2. IsFiniteSet(0..(n - 1)) /\
          Cardinality(0..(n - 1)) = IF 0 > n - 1 THEN 0 ELSE (n - 1) - 0 + 1
      BY <3>1, FS_Interval
    <3> QED
      BY <1>1, <3>1, <3>2
  <2>3. [k \in 0..n |-> f[k]] \in [0..n -> Irs(code)]
    BY <1>6
  <2>4. \E p, q \in 0..n : p # q /\ f[p] = f[q]
    <3>1. PICK g : g = [k \in 0..n |-> f[k]]
      OBVIOUS
    <3>2. PICK S : S = 0..n
      OBVIOUS
    <3>3. PICK T : T = Irs(code)
      OBVIOUS
    <3>4. Cardinality(T) < Cardinality(S) /\ IsFiniteSet(S) /\ IsFiniteSet(T) /\ g \in [S -> T]
      BY <1>1, <2>1, <2>2, <2>3, <3>1, <3>2, <3>3
    <3>5. \E x, y \in S : x # y /\ g[x] = g[y]
      BY <3>4, FS_PigeonHole
    <3> QED
      BY <3>1, <3>2, <3>5
  <2>5. PICK p \in 0..n, q \in 0..n : p # q /\ f[p] = f[q]
    BY <2>4
  <2>6. p < q \/ q < p
    BY <2>5
  <2> QED
    BY <2>5, <2>6
<1>9. PICK p \in 0..n, q \in 0..n : p < q /\ f[p] = f[q]
  BY <1>8
<1> DEFINE loop == { f[k] : k \in 0..(q - 1) }
<1>10. loop \in SUBSET Irs(code)
  BY <1>6
<1>11. adr \in loop
  BY <1>3, <1>9
<1>12. ASSUME NEW a \in loop
       PROVE  IsJump(code, a) /\ At(code, a).n \in loop
  <2>1. PICK k \in 0..(q - 1) : a = f[k]
    OBVIOUS
  <2>2. k \in 0..n /\ k \in 0..(n - 1)
    BY <1>1
  <2>3. At(code, a).n = f[k + 1]
    BY <1>7, <2>1, <2>2
  <2>4. CASE k + 1 \in 0..(q - 1)
    BY <1>5, <2>1, <2>2, <2>3, <2>4
  <2>5. CASE k + 1 \notin 0..(q - 1)
    <3>1. k + 1 = q /\ p \in 0..(q - 1)
      BY <1>9, <2>5
    <3> QED
      BY <1>5, <1>9, <2>1, <2>2, <2>3, <3>1
  <2> QED
    BY <2>4, <2>5
<1> HIDE DEF loop
<1> QED
  BY <1>10, <1>11, <1>12 DEF JumpsLoop

\* From a loop of jumps final_adr finds no end.
LEMMA LoopHasNoEnd ==
    ASSUME NEW code, IsProgram(code), NEW adr \in Nat, NEW loop \in SUBSET Irs(code), adr \in loop,
           \A a \in loop : IsJump(code, a) /\ At(code, a).n \in loop
    PROVE  FinalAdr(code, adr) = {}
<1> DEFINE n == Len(code)
<1>1. n \in Nat /\ 0 \in 0..n /\ n \in 0..n /\ 0 \in Nat /\ 0 <= n
  BY DEF IsProgram
<1>2. PICK f : /\ Hops(f, code, adr)
               /\ FinalAdr(code, adr) = { b \in {f[n]} \ {adr} : ~IsJump(code, b) }
  BY FinalAdrIsDefined
<1> DEFINE S == { k \in 0..n : f[k] \in loop }
<1>3. 0 \in S
  BY <1>1, <1>2 DEF Hops
<1>4. ASSUME NEW k \in 0..(n - 1), k \in S
      PROVE  k + 1 \in S
  BY <1>1, <1>2, <1>4 DEF Hops, Hop
<1>5. n \in S
  <2> HIDE DEF S
  <2> QED
    BY <1>1, <1>3, <1>4, IntervalInduction
<1> QED
  BY <1>2, <1>5

-----------------------------------------------------------------------------
(***************************************************************************)
(* find_reachable_code_ir.                                                 *)
(***************************************************************************)

ReachStep(code, S) == S \cup UNION { Successors(code, i) : i \in S \cap Irs(code) }

ReachRecursion(f, code) ==
    f = [k \in 0..Len(code) |->
            IF k = 0 THEN {0}
            ELSE f[k - 1] \cup UNION { Successors(code, i) : i \in f[k - 1] \cap Irs(code) }]

\* Everything that can be reached is an instruction or a jump target.
Reached(code) == {0} \cup Irs(code) \cup JumpTargetsOf(code)

\* Only finitely many addresses can be reached.
LEMMA ReachedIsFinite ==
    ASSUME NEW code, IsProgram(code)
    PROVE  IsFiniteSet(Reached(code))
<1>1. Len(code) \in Nat
  BY DEF IsProgram
<1>2. IsFiniteSet(Irs(code))
  <2>1. Irs(code) = 0..(Len(code) - 1) /\ Len(code) - 1 \in Int /\ 0 \in Int
    BY <1>1 DEF Irs
  <2> QED
    BY <2>1, FS_Interval
<1>3. IsFiniteSet(JumpTargetsOf(code))
  BY <1>1, TargetsAreFinite
<1>4. IsFiniteSet({0})
  BY FS_Singleton
<1>5. IsFiniteSet({0} \cup Irs(code))
  BY <1>2, <1>4, FS_Union
<1> QED
  BY <1>3, <1>5, FS_Union DEF Reached

\* A round of the marking reaches addresses of the code.
LEMMA ReachStepStays ==
    ASSUME NEW code, NEW S \in SUBSET Reached(code)
    PROVE  ReachStep(code, S) \in SUBSET Reached(code)
<1>1. \A i \in Irs(code) : Successors(code, i) \subseteq Reached(code)
  BY DEF Successors, Reached, JumpTargetsOf
<1> QED
  BY <1>1 DEF ReachStep

\* The recursion of the marking has a solution.
LEMMA ReachSolution ==
    ASSUME NEW code, IsProgram(code)
    PROVE  \E f : ReachRecursion(f, code)
<1> DEFINE V == SUBSET Reached(code)
           step == [k \in 1..Len(code) |-> [S \in V |-> ReachStep(code, S)]]
           base == {0}
<1>1. Len(code) \in Nat
  BY DEF IsProgram
<1>2. \A k \in (0 + 1)..Len(code) : step[k] \in [V -> V]
  <2>1. \A S \in V : ReachStep(code, S) \in V
    BY ReachStepStays
  <2>2. \A k \in (0 + 1)..Len(code) : k \in 1..Len(code)
    BY <1>1
  <2>3. [S \in V |-> ReachStep(code, S)] \in [V -> V]
    <3> HIDE DEF V
    <3> QED
      BY <2>1
  <2> HIDE DEF V
  <2> QED
    BY <2>2, <2>3
<1>3. \A k \in 1..Len(code), S \in V : step[k][S] = ReachStep(code, S)
  OBVIOUS
<1>4. 0 \in Nat /\ 0 <= Len(code) /\ 0 \in 0..Len(code)
  BY <1>1
<1>5. base \in V
  BY DEF Reached
<1>6. base = {0}
  OBVIOUS
<1> HIDE DEF V, step, base
<1>7. PICK f : Recursion(f, 0, Len(code), V, base, step)
  BY <1>1, <1>2, <1>4, <1>5, RecursionExists
<1>8. /\ f \in [0..Len(code) -> V] /\ f[0] = base
      /\ \A k \in (0 + 1)..Len(code) : f[k] = step[k][f[k - 1]]
  BY <1>7 DEF Recursion
<1>9. ASSUME NEW k \in 0..Len(code)
      PROVE  f[k] = IF k = 0 THEN {0}
                    ELSE f[k - 1]
                             \cup UNION { Successors(code, i) : i \in f[k - 1] \cap Irs(code) }
  <2>1. CASE k = 0
    BY <1>6, <1>8, <2>1
  <2>2. CASE k # 0
    <3>1. k \in 1..Len(code) /\ k \in (0 + 1)..Len(code) /\ k - 1 \in 0..Len(code)
      BY <1>1, <2>2
    <3>2. f[k - 1] \in V
      BY <1>8, <3>1
    <3>3. f[k] = ReachStep(code, f[k - 1])
      BY <1>3, <1>8, <3>1, <3>2
    <3> QED
      BY <2>2, <3>3 DEF ReachStep
  <2> QED
    BY <2>1, <2>2
<1>10. f = [k \in 0..Len(code) |-> f[k]]
  BY <1>8
<1> QED
  BY <1>9, <1>10 DEF ReachRecursion

\* The marking begins with the first instruction and goes on by rounds.
LEMMA ReachableIsDefined ==
    ASSUME NEW code, IsProgram(code)
    PROVE  \E f : /\ f[0] = {0}
                  /\ \A k \in 0..(Len(code) - 1) : f[k + 1] = ReachStep(code, f[k])
                  /\ \A k \in 0..Len(code) : f[k] \in SUBSET Reached(code)
                  /\ Reachable(code) = f[Len(code)]
<1> DEFINE f == CHOOSE g : ReachRecursion(g, code)
           T == { k \in 0..Len(code) : f[k] \in SUBSET Reached(code) }
<1>1. ReachRecursion(f, code)
  <2>1. \E g : ReachRecursion(g, code)
    BY ReachSolution
  <2> QED
    BY <2>1
<1>2. Reachable(code) = f[Len(code)]
  BY DEF Reachable, ReachRecursion
<1> HIDE DEF f
<1>3. Len(code) \in Nat /\ 0 \in 0..Len(code) /\ 0 \in Nat
  BY DEF IsProgram
<1>4. ASSUME NEW k \in 0..Len(code)
      PROVE  f[k] = IF k = 0 THEN {0}
                    ELSE f[k - 1]
                             \cup UNION { Successors(code, i) : i \in f[k - 1] \cap Irs(code) }
  BY <1>1 DEF ReachRecursion
<1>5. f[0] = {0}
  BY <1>3, <1>4
<1>6. ASSUME NEW k \in 0..(Len(code) - 1)
      PROVE  f[k + 1] = ReachStep(code, f[k])
  <2>1. k + 1 \in 0..Len(code) /\ k + 1 # 0 /\ (k + 1) - 1 = k
    BY <1>3
  <2> QED
    BY <1>4, <2>1 DEF ReachStep
<1>7. 0 \in T
  BY <1>3, <1>5 DEF Reached
<1>8. ASSUME NEW k \in 0..(Len(code) - 1), k \in T
      PROVE  k + 1 \in T
  <2>1. k + 1 \in 0..Len(code)
    BY <1>3
  <2>2. ReachStep(code, f[k]) \in SUBSET Reached(code)
    BY <1>8, ReachStepStays
  <2> QED
    BY <1>6, <2>1, <2>2
<1>9. \A k \in 0..Len(code) : k \in T
  <2> HIDE DEF T
  <2> QED
    BY <1>3, <1>7, <1>8, IntervalInduction
<1> QED
  BY <1>2, <1>5, <1>6, <1>9

\* What is marked includes the first instruction, and when all of it is in the code also what
\* follows or is jumped to: a round that marks nothing new is the last to change anything,
\* and there are more rounds than instructions.
LEMMA ReachableIsClosed ==
    ASSUME NEW code, IsProgram(code), Reachable(code) \subseteq Irs(code)
    PROVE  /\ 0 \in Reachable(code)
           /\ \A i \in Reachable(code) : Successors(code, i) \subseteq Reachable(code)
<1> DEFINE n == Len(code)
<1>1. n \in Nat /\ 0 \in 0..n /\ n \in 0..n /\ 0 \in Nat /\ 0 <= n
  BY DEF IsProgram
<1>2. PICK f : /\ f[0] = {0}
               /\ \A k \in 0..(n - 1) : f[k + 1] = ReachStep(code, f[k])
               /\ \A k \in 0..n : f[k] \in SUBSET Reached(code)
               /\ Reachable(code) = f[n]
  BY ReachableIsDefined
<1> DEFINE T == { k \in 0..n : 0 \in f[k] /\ (ReachStep(code, f[k]) = f[k]
                                              \/ Cardinality(f[k]) >= k + 1) }
<1>3. 0 \in T
  <2>1. Cardinality({0}) = 1
    BY FS_Singleton
  <2>2. f[0] = {0}
    BY <1>2
  <2>3. 0 \in f[0] /\ Cardinality(f[0]) >= 0 + 1
    BY <2>1, <2>2
  <2> QED
    BY <1>1, <2>3
<1>4. ASSUME NEW k \in 0..(n - 1), k \in T
      PROVE  k + 1 \in T
  <2>1. k \in 0..n /\ k + 1 \in 0..n
    BY <1>1
  <2>2. f[k + 1] = ReachStep(code, f[k]) /\ f[k] \subseteq f[k + 1] /\ 0 \in f[k + 1]
    BY <1>2, <1>4 DEF ReachStep
  <2>3. CASE ReachStep(code, f[k]) = f[k]
    BY <2>1, <2>2, <2>3
  <2>4. CASE ReachStep(code, f[k]) # f[k] /\ Cardinality(f[k]) >= k + 1
    <3>1. IsFiniteSet(f[k + 1])
      BY <1>2, <2>1, ReachedIsFinite, FS_Subset
    <3>2. f[k] # f[k + 1]
      BY <2>2, <2>4
    <3>3. /\ Cardinality(f[k]) < Cardinality(f[k + 1])
          /\ Cardinality(f[k]) \in Nat /\ Cardinality(f[k + 1]) \in Nat
      <4>1. IsFiniteSet(f[k]) /\ Cardinality(f[k]) <= Cardinality(f[k + 1])
        BY <2>2, <3>1, FS_Subset
      <4>2. Cardinality(f[k]) # Cardinality(f[k + 1])
        BY <2>2, <3>1, <3>2, FS_Subset
      <4>3. Cardinality(f[k]) \in Nat /\ Cardinality(f[k + 1]) \in Nat
        BY <3>1, <4>1, FS_CardinalityType
      <4> QED
        BY <4>1, <4>2, <4>3
    <3> QED
      BY <2>1, <2>2, <2>4, <3>3
  <2> QED
    BY <1>4, <2>3, <2>4
<1>5. n \in T
  <2> HIDE DEF T
  <2> QED
    BY <1>1, <1>3, <1>4, IntervalInduction
<1>6. ReachStep(code, f[n]) = f[n]
  <2>1. Irs(code) = 0..(n - 1) /\ n - 1 \in Int /\ 0 \in Int
    BY <1>1 DEF Irs
  <2>2. IsFiniteSet(0..(n - 1)) /\
        Cardinality(0..(n - 1)) = IF 0 > n - 1 THEN 0 ELSE (n - 1) - 0 + 1
    BY <2>1, FS_Interval
  <2>3. IsFiniteSet(Irs(code)) /\ Cardinality(Irs(code)) = n
    BY <1>1, <2>1, <2>2
  <2>4. IsFiniteSet(f[n]) /\ Cardinality(f[n]) <= n
    BY <1>2, <2>3, FS_Subset
  <2>5. Cardinality(f[n]) \in Nat
    BY <2>4, FS_CardinalityType
  <2>6. ~(Cardinality(f[n]) >= n + 1)
    BY <1>1, <2>4, <2>5
  <2> QED
    BY <1>5, <2>6
<1>7. ASSUME NEW i \in f[n]
      PROVE  Successors(code, i) \subseteq f[n]
  BY <1>2, <1>6 DEF ReachStep
<1> QED
  BY <1>2, <1>5, <1>7

\* What is marked can be reached.
LEMMA ReachableIsLeast ==
    ASSUME NEW code, IsProgram(code), NEW V, 0 \in V,
           \A i \in V \cap Irs(code) : Successors(code, i) \subseteq V
    PROVE  Reachable(code) \subseteq V
<1> DEFINE n == Len(code)
<1>1. n \in Nat /\ 0 \in 0..n /\ n \in 0..n /\ 0 \in Nat /\ 0 <= n
  BY DEF IsProgram
<1>2. PICK f : /\ f[0] = {0}
               /\ \A k \in 0..(n - 1) : f[k + 1] = ReachStep(code, f[k])
               /\ \A k \in 0..n : f[k] \in SUBSET Reached(code)
               /\ Reachable(code) = f[n]
  BY ReachableIsDefined
<1> DEFINE T == { k \in 0..n : f[k] \subseteq V }
<1>3. 0 \in T
  BY <1>1, <1>2
<1>4. ASSUME NEW k \in 0..(n - 1), k \in T
      PROVE  k + 1 \in T
  <2>1. k + 1 \in 0..n
    BY <1>1
  <2>2. ReachStep(code, f[k]) \subseteq V
    BY <1>4 DEF ReachStep
  <2> QED
    BY <1>2, <2>1, <2>2
<1>5. n \in T
  <2> HIDE DEF T
  <2> QED
    BY <1>1, <1>3, <1>4, IntervalInduction
<1> QED
  BY <1>2, <1>5

-----------------------------------------------------------------------------
(***************************************************************************)
(* What the passes leave to each other.                                    *)
(***************************************************************************)

\* Every instruction of Z can be reached from the first, through Z.
ReachesAll(code, Z) ==
    \A visited \in SUBSET Z :
        /\ 0 \in visited
        /\ \A i \in visited, j \in Z : Leads(code, i, j) => j \in visited
        => visited = Z

\* The mark of remove_unreachable_code.
LEMMA ReachesReachable ==
    ASSUME NEW code, IsProgram(code), Reachable(code) \subseteq Irs(code)
    PROVE  ReachesAll(code, Reachable(code))
<1> DEFINE R == Reachable(code)
<1>1. SUFFICES ASSUME NEW visited \in SUBSET R, 0 \in visited,
                      \A i \in visited, j \in R : Leads(code, i, j) => j \in visited
               PROVE  visited = R
  BY DEF ReachesAll
<1>2. ASSUME NEW i \in visited, NEW j \in Successors(code, i)
      PROVE  j \in visited
  <2>1. j \in R
    BY ReachableIsClosed
  <2>2. Leads(code, i, j)
    BY DEF Successors, Leads
  <2> QED
    BY <1>1, <2>1, <2>2
<1>3. R \subseteq visited
  <2> HIDE DEF R
  <2>1. \A i \in visited \cap Irs(code) : Successors(code, i) \subseteq visited
    BY <1>2
  <2>2. Reachable(code) \subseteq visited
    BY <1>1, <2>1, ReachableIsLeast
  <2> QED
    BY <2>2 DEF R
<1> QED
  BY <1>1, <1>3

\* An address moves by the deletions before it.
LEMMA MovedByNext ==
    ASSUME NEW v, WellFormed(v), NEW i \in Nat
    PROVE  /\ MovedBy(v.deleted, i) \in Nat
           /\ MovedBy(v.deleted, 0) = 0
           /\ MovedBy(v.deleted, i + 1) = IF i \in v.deleted THEN MovedBy(v.deleted, i)
                                          ELSE MovedBy(v.deleted, i) + 1
<1>1. Len(v.inner) \in Nat /\ v.deleted \in SUBSET (0..(Len(v.inner) - 1))
  BY DEF WellFormed, IsProgram, Irs
<1>2. MovedBy(v.deleted, i) \in 0..i /\ MovedBy(v.deleted, 0) \in 0..0
  BY <1>1, CountsDeleted
<1>3. /\ DeletedBefore(v.deleted, i) \in 0..i
      /\ DeletedBefore(v.deleted, i + 1) = IF i \in v.deleted THEN DeletedBefore(v.deleted, i) + 1
                                           ELSE DeletedBefore(v.deleted, i)
  BY <1>1, CountsDeleted
<1> QED
  BY <1>2, <1>3 DEF MovedBy

\* A rewriting that deletes or replaces, of the instructions that can be reached, only ones
\* that control goes past leaves all that is left reachable.
LEMMA StraightEditsKeepReaching ==
    ASSUME NEW v, Rewrites(v), NEW code, Moves(v, code), NEW Z \in SUBSET Irs(v.inner),
           Irs(v.inner) \ v.deleted \subseteq Z, 0 \in Irs(v.inner) => 0 \in Z,
           ReachesAll(v.inner, Z),
           \A i \in Z : i \in v.deleted \cup DOMAIN v.modified =>
               Straight(At(v.inner, i)) /\ Straight(Edited(v, i))
    PROVE  ReachesAll(code, Irs(code))
<1> DEFINE D == v.deleted
           moved(i) == MovedBy(D, i)
<1>1. SUFFICES ASSUME NEW visited \in SUBSET Irs(code), 0 \in visited,
                      \A i \in visited, j \in Irs(code) : Leads(code, i, j) => j \in visited
               PROVE  visited = Irs(code)
  BY DEF ReachesAll
<1>2. /\ \A p \in Irs(code) : \E i \in Irs(v.inner) \ D : moved(i) = p
      /\ Len(code) \in Nat
      /\ \A i \in Irs(v.inner) \ D :
             /\ moved(i) \in Irs(code)
             /\ At(code, moved(i)).op = Edited(v, i).op
             /\ JumpTargets(At(code, moved(i))) = { moved(a) : a \in JumpTargets(Edited(v, i)) }
  BY DEF Moves
<1>3. /\ \A i \in Irs(v.inner) : i \in Nat /\ moved(i) \in Nat
      /\ \A i \in Irs(v.inner) : moved(i + 1) = IF i \in D THEN moved(i) ELSE moved(i) + 1
      /\ moved(0) = 0
      /\ Len(v.inner) \in Nat
  <2>1. WellFormed(v) /\ Len(v.inner) \in Nat
    BY DEF Rewrites, WellFormed, IsProgram
  <2>2. \A i \in Irs(v.inner) : i \in Nat
    BY <2>1 DEF Irs
  <2>3. 0 \in Nat
    OBVIOUS
  <2> QED
    BY <2>1, <2>2, <2>3, MovedByNext
<1> DEFINE V == { i \in Z : moved(i) \in visited \/ moved(i) >= Len(code) }
<1> HIDE DEF moved
<1>4. 0 \in V
  <2>1. 0 \in Irs(code)
    BY <1>1
  <2>2. PICK i \in Irs(v.inner) : TRUE
    BY <1>2, <2>1
  <2>3. 0 \in Irs(v.inner)
    BY <1>3, <2>2 DEF Irs
  <2> QED
    BY <1>1, <1>3, <2>3
<1>5. ASSUME NEW i \in V, NEW j \in Z, Leads(v.inner, i, j)
      PROVE  j \in V
  <2>1. i \in Irs(v.inner) /\ j \in Irs(v.inner) /\ moved(j) \in Nat /\ moved(i) \in Nat
    BY <1>3
  <2>2. SUFFICES ASSUME moved(j) < Len(code)
                 PROVE  moved(j) \in visited
    BY <1>2, <2>1
  <2>3. moved(j) \in Irs(code)
    BY <1>2, <2>1, <2>2 DEF Irs
  <2>4. Straight(At(v.inner, i)) => j = i + 1
    BY <1>5 DEF Leads, Straight, JumpTargets, JumpOps
  <2>5. CASE i \in D
    <3>1. j = i + 1
      BY <2>4, <2>5
    <3>2. moved(j) = moved(i)
      BY <1>3, <2>1, <2>5, <3>1
    <3> QED
      BY <1>2, <2>1, <2>2, <3>2
  <2>6. CASE i \notin D
    <3>1. moved(i) \in Irs(code) /\ moved(i) \in visited
      BY <1>2, <2>1, <2>6 DEF Irs
    <3>2. /\ At(code, moved(i)).op = Edited(v, i).op
          /\ JumpTargets(At(code, moved(i))) = { moved(a) : a \in JumpTargets(Edited(v, i)) }
          /\ moved(i + 1) = moved(i) + 1
      BY <1>2, <1>3, <2>1, <2>6
    <3>3. CASE i \in DOMAIN v.modified
      <4>1. j = i + 1 /\ Straight(Edited(v, i))
        BY <2>4, <3>3
      <4>2. Leads(code, moved(i), moved(j))
        BY <3>2, <4>1 DEF Leads, Straight, JumpOps
      <4> QED
        BY <1>1, <2>3, <3>1, <4>2
    <3>4. CASE i \notin DOMAIN v.modified
      <4>1. Edited(v, i) = At(v.inner, i)
        BY <3>4 DEF Edited
      <4>2. Leads(code, moved(i), moved(j))
        BY <1>5, <3>2, <4>1 DEF Leads
      <4> QED
        BY <1>1, <2>3, <3>1, <4>2
    <3> QED
      BY <3>3, <3>4
  <2> QED
    BY <2>5, <2>6
<1>6. V = Z
  <2>1. V \in SUBSET Z
    OBVIOUS
  <2> HIDE DEF V
  <2> QED
    BY <1>4, <1>5, <2>1 DEF ReachesAll
<1>7. ASSUME NEW p \in Irs(code)
      PROVE  p \in visited
  <2>1. PICK i \in Irs(v.inner) \ D : moved(i) = p
    BY <1>2
  <2>2. i \in V
    BY <1>6
  <2> QED
    BY <1>2, <2>1, <2>2 DEF Irs
<1> QED
  BY <1>7

\* A jump leads to another one only where those loop.
ShortJumps(code) ==
    \A to \in JumpTargetsOf(code) : IsJump(code, to) => JumpsLoop(code, to)

\* What simplify_jumps makes of an instruction.
Simplified(code, i, inst) ==
    \/ /\ \A adr \in JumpTargets(At(code, i)) : FinalAdr(code, adr) = {}
       /\ inst = At(code, i)
    \/ \E adr \in JumpTargets(At(code, i)) : \E a \in FinalAdr(code, adr) :
           inst = MapAdr(At(code, i), a)

\* What simplify_jumps writes is the same jump, to something that is no jump or a loop.
LEMMA SimplifiedIsRight ==
    ASSUME NEW code \in Seq(WideInstruction), NEW i \in Irs(code), NEW inst,
           Simplified(code, i, inst)
    PROVE  /\ inst.op = At(code, i).op
           /\ \A to \in JumpTargets(inst) : IsJump(code, to) =>
                  /\ to \in JumpTargets(At(code, i))
                  /\ FinalAdr(code, to) = {}
           /\ (\A adr \in JumpTargets(At(code, i)) : FinalAdr(code, adr) = {}) =>
                  inst = At(code, i)
<1>1. IsProgram(code) /\ At(code, i) \in WideInstruction
  BY WideIsProgram, WideAt
<1>2. CASE /\ \A adr \in JumpTargets(At(code, i)) : FinalAdr(code, adr) = {}
           /\ inst = At(code, i)
  BY <1>2
<1>3. CASE \E adr \in JumpTargets(At(code, i)) : \E a \in FinalAdr(code, adr) :
               inst = MapAdr(At(code, i), a)
  <2>1. PICK adr \in JumpTargets(At(code, i)) :
                 \E a \in FinalAdr(code, adr) : inst = MapAdr(At(code, i), a)
    BY <1>3
  <2> PICK a \in FinalAdr(code, adr) : inst = MapAdr(At(code, i), a)
    BY <2>1
  <2>2. adr \in JumpTargetsOf(code)
    BY DEF JumpTargetsOf
  <2>3. a \in JumpTargetsOf(code) /\ ~IsJump(code, a)
    BY <1>1, <2>2, FinalAdrIsTarget
  <2>4. a \in Usize
    BY <2>3, TargetsAreUsize
  <2>5. inst.op = At(code, i).op /\ JumpTargets(inst) \subseteq {a}
    BY <1>1, <2>4, MapAdrIsWide
  <2> QED
    BY <2>3, <2>5
<1> QED
  BY <1>2, <1>3 DEF Simplified

\* Without deletions nothing moves.
LEMMA NothingMoves ==
    ASSUME NEW n \in Nat
    PROVE  MovedBy({}, n) = n
<1>1. { i \in {} : i < n } = {}
  OBVIOUS
<1>2. Cardinality({}) = 0
  BY FS_EmptySet
<1>3. DeletedBefore({}, n) = 0
  BY <1>1, <1>2 DEF DeletedBefore
<1> QED
  BY <1>3 DEF MovedBy

\* Once all its instructions are simplified, the jumps of a code are short: final_adr is not
\* an unconditional jump, and the loops are as they were.
LEMMA SimplifyingShortens ==
    ASSUME NEW v, Rewrites(v), v.deleted = {}, NEW code, Moves(v, code),
           \A i \in Irs(v.inner) : Simplified(v.inner, i, Edited(v, i))
    PROVE  ShortJumps(code)
<1> DEFINE C == v.inner
<1>1. /\ C \in Seq(WideInstruction) /\ IsProgram(C) /\ Len(C) \in Nat
      /\ IsProgram(code) /\ code \in Seq(WideInstruction)
  BY WideIsProgram DEF Rewrites, Moves
<1>2. Len(code) = Len(C) /\ Irs(code) = Irs(C)
  BY <1>1, NothingMoves DEF Moves, Irs
<1>3. ASSUME NEW i \in Irs(C)
      PROVE  /\ At(code, i).op = At(C, i).op
             /\ JumpTargets(At(code, i)) = JumpTargets(Edited(v, i))
  <2>1. i \in Nat /\ MovedBy(v.deleted, i) = i
    BY <1>1, NothingMoves DEF Irs
  <2>2. /\ At(code, i).op = Edited(v, i).op
        /\ JumpTargets(At(code, i)) = { MovedBy(v.deleted, a) : a \in JumpTargets(Edited(v, i)) }
    BY <2>1 DEF Moves
  <2>3. JumpTargets(Edited(v, i)) \subseteq Nat
    BY EditedIsWide, WideHolds
  <2>4. \A a \in JumpTargets(Edited(v, i)) : MovedBy(v.deleted, a) = a
    BY <2>3, NothingMoves
  <2>5. JumpTargets(At(code, i)) = JumpTargets(Edited(v, i))
    BY <2>2, <2>4
  <2>6. Edited(v, i).op = At(C, i).op
    BY <1>1, SimplifiedIsRight
  <2> QED
    BY <2>2, <2>5, <2>6
<1>4. \A a \in Nat : IsJump(code, a) <=> IsJump(C, a)
  BY <1>1, <1>2, <1>3 DEF IsJump, Exists, Irs
<1>5. SUFFICES ASSUME NEW to \in JumpTargetsOf(code), IsJump(code, to)
               PROVE  JumpsLoop(code, to)
  BY DEF ShortJumps
<1>6. to \in Nat /\ IsJump(C, to)
  BY <1>1, <1>4, <1>5 DEF IsProgram
<1>7. FinalAdr(C, to) = {}
  <2>1. PICK i \in Irs(C) : to \in JumpTargets(At(code, i))
    BY <1>2 DEF JumpTargetsOf
  <2> QED
    BY <1>1, <1>3, <1>6, <2>1, SimplifiedIsRight
<1>8. PICK loop \in SUBSET Irs(C) : /\ to \in loop
                                    /\ \A a \in loop : IsJump(C, a) /\ At(C, a).n \in loop
  BY <1>1, <1>6, <1>7, NoEndMeansLoop DEF JumpsLoop
<1>9. ASSUME NEW a \in loop
      PROVE  IsJump(code, a) /\ At(code, a).n \in loop
  <2>1. a \in Irs(C) /\ a \in Nat
    BY <1>1 DEF Irs
  <2>2. IsJump(C, a) /\ At(C, a).n \in loop /\ JumpTargets(At(C, a)) = {At(C, a).n}
    BY <1>1, <1>8, <2>1, HopIsTarget
  <2>3. At(C, a).n \in Nat
    BY <1>1, <2>2 DEF Irs
  <2>4. FinalAdr(C, At(C, a).n) = {}
    BY <1>1, <1>8, <2>2, <2>3, LoopHasNoEnd
  <2>5. Edited(v, a) = At(C, a)
    BY <1>1, <2>1, <2>2, <2>4, SimplifiedIsRight
  <2>6. JumpTargets(At(code, a)) = {At(C, a).n}
    BY <1>3, <2>1, <2>2, <2>5
  <2>7. IsJump(code, a)
    BY <1>4, <2>1, <2>2
  <2>8. JumpTargets(At(code, a)) = {At(code, a).n}
    BY <1>1, <2>1, <2>7, HopIsTarget
  <2> QED
    BY <2>2, <2>6, <2>7, <2>8
<1> QED
  BY <1>2, <1>8, <1>9 DEF JumpsLoop

\* Deleting what cannot be reached keeps the jumps short: a loop of jumps that can be reached
\* can be reached as a whole.
LEMMA DeletingUnreachableKeepsShort ==
    ASSUME NEW v, Rewrites(v), DOMAIN v.modified = {}, NEW code, Moves(v, code),
           NEW R \in SUBSET Irs(v.inner), v.deleted = Irs(v.inner) \ R,
           \A i \in R : Successors(v.inner, i) \subseteq R, ShortJumps(v.inner)
    PROVE  ShortJumps(code)
<1> DEFINE C == v.inner
           moved(i) == MovedBy(v.deleted, i)
<1>1. IsProgram(C) /\ IsProgram(code)
  BY WideIsProgram DEF Rewrites, Moves
<1>2. \A i \in Irs(C) : Edited(v, i) = At(C, i) /\ i \in Nat
  BY <1>1 DEF Edited, Irs, IsProgram
<1>3. ASSUME NEW i \in R
      PROVE  /\ moved(i) \in Irs(code)
             /\ At(code, moved(i)).op = At(C, i).op
             /\ JumpTargets(At(code, moved(i))) = { moved(a) : a \in JumpTargets(At(C, i)) }
             /\ JumpTargets(At(C, i)) \subseteq R
  BY <1>2 DEF Moves, Successors
<1>4. \A p \in Irs(code) : \E i \in R : moved(i) = p
  BY DEF Moves
<1> HIDE DEF moved
<1>5. SUFFICES ASSUME NEW to \in JumpTargetsOf(code), IsJump(code, to)
               PROVE  JumpsLoop(code, to)
  BY DEF ShortJumps
<1>6. PICK p \in Irs(code) : to \in JumpTargets(At(code, p))
  BY DEF JumpTargetsOf
<1>7. PICK i \in R : moved(i) = p
  BY <1>4
<1>8. PICK t \in JumpTargets(At(C, i)) : to = moved(t)
  BY <1>3, <1>6, <1>7
<1>9. t \in R /\ t \in Irs(C) /\ t \in JumpTargetsOf(C)
  BY <1>3 DEF JumpTargetsOf
<1>10. IsJump(C, t)
  <2>1. At(C, t).op = "JUMP"
    BY <1>3, <1>5, <1>8, <1>9 DEF IsJump
  <2>2. Exists(C, t)
    BY <1>1, <1>9 DEF Exists, Irs, IsProgram
  <2> QED
    BY <2>1, <2>2 DEF IsJump
<1>11. PICK loop \in SUBSET Irs(C) : /\ t \in loop
                                     /\ \A a \in loop : IsJump(C, a) /\ At(C, a).n \in loop
  BY <1>9, <1>10 DEF ShortJumps, JumpsLoop
<1> DEFINE left == { moved(a) : a \in loop \cap R }
<1>12. left \in SUBSET Irs(code) /\ to \in left
  BY <1>3, <1>8, <1>9, <1>11
<1>13. ASSUME NEW b \in left
       PROVE  IsJump(code, b) /\ At(code, b).n \in left
  <2>1. PICK a \in loop \cap R : b = moved(a)
    OBVIOUS
  <2>2. /\ b \in Irs(code) /\ At(code, b).op = At(C, a).op
        /\ JumpTargets(At(code, b)) = { moved(x) : x \in JumpTargets(At(C, a)) }
        /\ JumpTargets(At(C, a)) \subseteq R
    BY <1>3, <2>1
  <2>3. /\ IsJump(C, a) /\ At(C, a).n \in loop
        /\ JumpTargets(At(C, a)) = {At(C, a).n}
    BY <1>1, <1>2, <1>11, HopIsTarget
  <2>4. b \in Nat /\ IsJump(code, b)
    BY <1>1, <2>2, <2>3 DEF IsJump, Exists, Irs, IsProgram
  <2>5. JumpTargets(At(code, b)) = {At(code, b).n}
    BY <1>1, <2>4, HopIsTarget
  <2>6. At(code, b).n = moved(At(C, a).n) /\ At(C, a).n \in loop \cap R
    BY <2>2, <2>3, <2>5
  <2> QED
    BY <2>4, <2>6
<1> HIDE DEF left
<1> QED
  BY <1>12, <1>13 DEF JumpsLoop

-----------------------------------------------------------------------------
(***************************************************************************)
(* The inductive invariant: what the WoCode v of a pass is like when its   *)
(* loop is at n, and what the passes before have made of the code.         *)
(***************************************************************************)

Placed(p, v, n, marked) ==
    /\ Rewrites(v)
    /\ n \in 0..Len(v.inner)
    /\ marked \subseteq Irs(v.inner)
    /\ p = "remove_nops" => v.deleted \subseteq 0..(n - 1) /\ DOMAIN v.modified = {}
    /\ p = "simplify_jumps" =>
           /\ v.deleted = {}
           /\ DOMAIN v.modified \subseteq 0..(n - 1)
           /\ \A i \in 0..(n - 1) : Simplified(v.inner, i, Edited(v, i))
    /\ p = "mark_reachable" => v.deleted = {} /\ DOMAIN v.modified = {} /\ n = 0
    /\ p = "remove_unreachable_code" =>
           /\ v.deleted = (0..(n - 1)) \ marked
           /\ DOMAIN v.modified = {}
           /\ marked = Reachable(v.inner)
    /\ p = "fold_consts" => Folding(v, n)
    /\ p \in {"mark_reachable", "remove_unreachable_code", "fold_consts"} => ShortJumps(v.inner)
    /\ p \in {"fold_consts", "done"} => ReachesAll(v.inner, Irs(v.inner))

\* Deleting what was neither deleted nor edited keeps a WoCode as the passes need it.
LEMMA DeleteKeepsRewrites ==
    ASSUME NEW v, Rewrites(v), NEW n \in Irs(v.inner) \ v.deleted, n \notin DOMAIN v.modified
    PROVE  /\ Rewrites(DeleteIr(v, n))
           /\ DeleteIr(v, n).inner = v.inner
           /\ DeleteIr(v, n).modified = v.modified
           /\ DeleteIr(v, n).deleted = v.deleted \cup {n}
<1>1. WellFormed(v)
  BY DEF Rewrites
<1>2. /\ WellFormed(DeleteIr(v, n))
      /\ DeleteIr(v, n) = [inner |-> v.inner, deltas |-> Shifted(v.deltas, n),
                           deleted |-> v.deleted \cup {n}, modified |-> v.modified]
  BY <1>1, DeleteKeepsWellFormed
<1>3. PICK x : x = DeleteIr(v, n)
  OBVIOUS
<1>4. x.inner = v.inner /\ x.modified = v.modified /\ x.deleted = v.deleted \cup {n}
  BY <1>2, <1>3
<1> QED
  BY <1>2, <1>3, <1>4 DEF Rewrites

\* An iteration of remove_nops.
LEMMA RemoveNopPlaced ==
    ASSUME NEW v, NEW n, NEW marked, Placed("remove_nops", v, n, marked), n < Len(v.inner)
    PROVE  /\ Placed("remove_nops", DeleteIr(v, n), n + 1, marked)
           /\ Placed("remove_nops", v, n + 1, marked)
<1>1. /\ Rewrites(v) /\ n \in 0..Len(v.inner) /\ marked \subseteq Irs(v.inner)
      /\ v.deleted \subseteq 0..(n - 1) /\ DOMAIN v.modified = {}
  BY DEF Placed
<1>2. Len(v.inner) \in Nat
  BY <1>1, WideIsProgram DEF Rewrites
<1>3. n \in Irs(v.inner) \ v.deleted /\ n + 1 \in 0..Len(v.inner)
  BY <1>1, <1>2 DEF Irs
<1>4. 0..(n - 1) \cup {n} \subseteq 0..((n + 1) - 1)
  BY <1>1, <1>2
<1>5. Placed("remove_nops", v, n + 1, marked)
  BY <1>1, <1>3, <1>4 DEF Placed
<1>6. PICK x : x = DeleteIr(v, n)
  OBVIOUS
<1>7. Rewrites(x) /\ x.inner = v.inner /\ x.modified = v.modified /\ x.deleted = v.deleted \cup {n}
  BY <1>1, <1>3, <1>6, DeleteKeepsRewrites
<1>8. Placed("remove_nops", x, n + 1, marked)
  BY <1>1, <1>3, <1>4, <1>7 DEF Placed
<1> QED
  BY <1>5, <1>6, <1>8

\* An iteration of simplify_jumps.
LEMMA SimplifyJumpPlaced ==
    ASSUME NEW v, NEW n, NEW marked, Placed("simplify_jumps", v, n, marked), n < Len(v.inner)
    PROVE  LET inst == At(v.inner, n)
               final == UNION { FinalAdr(v.inner, adr) : adr \in JumpTargets(inst) }
           IN  /\ final = {} => Placed("simplify_jumps", v, n + 1, marked)
               /\ \A adr \in final :
                      Placed("simplify_jumps", SetIr(v, n, MapAdr(inst, adr)), n + 1, marked)
<1> DEFINE C == v.inner
           inst == At(C, n)
           final == UNION { FinalAdr(C, adr) : adr \in JumpTargets(inst) }
<1>1. /\ Rewrites(v) /\ n \in 0..Len(C) /\ marked \subseteq Irs(C)
      /\ v.deleted = {} /\ DOMAIN v.modified \subseteq 0..(n - 1)
      /\ \A i \in 0..(n - 1) : Simplified(C, i, Edited(v, i))
  BY DEF Placed
<1>2. Len(C) \in Nat /\ C \in Seq(WideInstruction) /\ IsProgram(C)
  BY <1>1, WideIsProgram DEF Rewrites
<1>3. n \in Irs(C) /\ n \notin v.deleted /\ n + 1 \in 0..Len(C) /\ n \notin DOMAIN v.modified
  BY <1>1, <1>2 DEF Irs
<1>4. /\ 0..(n - 1) \cup {n} \subseteq 0..((n + 1) - 1)
      /\ \A i \in 0..((n + 1) - 1) : i = n \/ i \in 0..(n - 1)
  BY <1>1, <1>2
<1>5. ASSUME final = {}
      PROVE  Placed("simplify_jumps", v, n + 1, marked)
  <2>1. Edited(v, n) = inst
    BY <1>3 DEF Edited
  <2>2. Simplified(C, n, Edited(v, n))
    BY <1>5, <2>1 DEF Simplified
  <2>3. \A i \in 0..((n + 1) - 1) : Simplified(C, i, Edited(v, i))
    BY <1>1, <1>4, <2>2
  <2> QED
    BY <1>1, <1>3, <1>4, <2>3 DEF Placed
<1>6. ASSUME NEW adr \in final
      PROVE  Placed("simplify_jumps", SetIr(v, n, MapAdr(inst, adr)), n + 1, marked)
  <2>1. PICK to \in JumpTargets(inst) : adr \in FinalAdr(C, to)
    OBVIOUS
  <2>2. to \in JumpTargetsOf(C)
    BY <1>3 DEF JumpTargetsOf
  <2>3. adr \in JumpTargetsOf(C) /\ adr \in Usize
    BY <1>2, <2>1, <2>2, FinalAdrIsTarget, TargetsAreUsize
  <2>4. PICK new : new = MapAdr(inst, adr)
    OBVIOUS
  <2>5. new \in WideInstruction /\ JumpTargets(new) \subseteq {adr}
    BY <1>2, <1>3, <2>3, <2>4, WideAt, MapAdrIsWide
  <2>6. Simplified(C, n, new)
    BY <2>1, <2>4 DEF Simplified
  <2>7. PICK x : x = SetIr(v, n, new)
    OBVIOUS
  <2>8. /\ WellFormed(x) /\ x.inner = C /\ x.deleted = {}
        /\ DOMAIN x.modified = DOMAIN v.modified \cup {n}
        /\ \A i \in DOMAIN v.modified \cup {n} :
               x.modified[i] = IF i = n THEN new ELSE v.modified[i]
    <3>1. /\ JumpTargets(new) \subseteq JumpTargetsOf(v.inner) /\ WellFormed(v)
          /\ n \in Irs(v.inner) \ v.deleted
      BY <1>1, <1>3, <2>3, <2>5 DEF Rewrites
    <3>2. /\ WellFormed(x) /\ x.inner = v.inner /\ x.deleted = v.deleted
          /\ DOMAIN x.modified = DOMAIN v.modified \cup {n}
          /\ \A i \in DOMAIN v.modified \cup {n} :
                 x.modified[i] = IF i = n THEN new ELSE v.modified[i]
      <4> HIDE DEF C, inst, final
      <4> QED
        BY <2>7, <3>1, SetKeepsWellFormed
    <3> QED
      BY <1>1, <3>2
  <2>9. Rewrites(x)
    BY <1>1, <1>2, <2>5, <2>8 DEF Rewrites
  <2>10. \A i \in 0..((n + 1) - 1) : Simplified(C, i, Edited(x, i))
    <3> TAKE i \in 0..((n + 1) - 1)
    <3>1. CASE i = n
      BY <2>6, <2>8, <3>1 DEF Edited
    <3>2. CASE i # n
      <4>1. Edited(x, i) = Edited(v, i)
        BY <2>8, <3>2 DEF Edited
      <4> QED
        BY <1>1, <1>4, <3>2, <4>1
    <3> QED
      BY <3>1, <3>2
  <2>11. Placed("simplify_jumps", x, n + 1, marked)
    BY <1>1, <1>3, <1>4, <2>8, <2>9, <2>10 DEF Placed
  <2> QED
    BY <2>4, <2>7, <2>11
<1> QED
  BY <1>5, <1>6

\* The marking of remove_unreachable_code.
LEMMA MarkPlaced ==
    ASSUME NEW v, NEW n, NEW marked, Placed("mark_reachable", v, n, marked),
           Reachable(v.inner) \subseteq Irs(v.inner)
    PROVE  Placed("remove_unreachable_code", v, n, Reachable(v.inner))
<1>1. n = 0
  BY DEF Placed
<1>2. 0..(n - 1) = {}
  BY <1>1
<1> QED
  BY <1>2 DEF Placed

\* An iteration of remove_unreachable_code.
LEMMA RemoveUnreachablePlaced ==
    ASSUME NEW v, NEW n, NEW marked, Placed("remove_unreachable_code", v, n, marked),
           n < Len(v.inner)
    PROVE  /\ n \in marked => Placed("remove_unreachable_code", v, n + 1, marked)
           /\ n \notin marked => Placed("remove_unreachable_code", DeleteIr(v, n), n + 1, marked)
<1>1. /\ Rewrites(v) /\ n \in 0..Len(v.inner) /\ marked \subseteq Irs(v.inner)
      /\ v.deleted = (0..(n - 1)) \ marked /\ DOMAIN v.modified = {}
      /\ marked = Reachable(v.inner) /\ ShortJumps(v.inner)
  BY DEF Placed
<1>2. Len(v.inner) \in Nat
  BY <1>1, WideIsProgram DEF Rewrites
<1>3. n \in Irs(v.inner) \ v.deleted /\ n + 1 \in 0..Len(v.inner)
  BY <1>1, <1>2 DEF Irs
<1>4. 0..((n + 1) - 1) = 0..(n - 1) \cup {n}
  BY <1>1, <1>2
<1>5. ASSUME n \in marked
      PROVE  Placed("remove_unreachable_code", v, n + 1, marked)
  <2>1. v.deleted = (0..((n + 1) - 1)) \ marked
    BY <1>1, <1>4, <1>5
  <2> QED
    BY <1>1, <1>3, <2>1 DEF Placed
<1>6. ASSUME n \notin marked
      PROVE  Placed("remove_unreachable_code", DeleteIr(v, n), n + 1, marked)
  <2>1. PICK x : x = DeleteIr(v, n)
    OBVIOUS
  <2>2. /\ Rewrites(x) /\ x.inner = v.inner /\ x.modified = v.modified
        /\ x.deleted = v.deleted \cup {n}
    BY <1>1, <1>3, <2>1, DeleteKeepsRewrites
  <2>3. x.deleted = (0..((n + 1) - 1)) \ marked
    BY <1>1, <1>4, <1>6, <2>2
  <2>4. Placed("remove_unreachable_code", x, n + 1, marked)
    BY <1>1, <1>3, <2>2, <2>3 DEF Placed
  <2> QED
    BY <2>1, <2>4
<1> QED
  BY <1>5, <1>6

\* fold_consts uses its WoCode as the passes do.
LEMMA FoldingRewrites ==
    ASSUME NEW v, NEW n, Folding(v, n)
    PROVE  Rewrites(v)
  BY DEF Folding, Rewrites

\* An iteration of fold_consts.
LEMMA FoldConstsPlaced ==
    ASSUME NEW v, NEW n, NEW marked, Placed("fold_consts", v, n, marked), n < Len(v.inner),
           NEW adds, adds = Folded([w |-> v, ir |-> n, ok |-> TRUE], "ADD"),
           NEW muls, muls = Folded(adds, "MUL"),
           NEW divs, divs = Folded(muls, "DIV"), divs.ok
    PROVE  Placed("fold_consts", divs.w, Continue(n, divs.ir), marked)
<1> DEFINE C == v.inner
<1>1. /\ n \in 0..Len(C) /\ marked \subseteq Irs(C) /\ Folding(v, n)
      /\ ShortJumps(C) /\ ReachesAll(C, Irs(C))
  BY DEF Placed
<1>2. C \in Seq(WideInstruction) /\ Len(C) \in Nat
  BY <1>1, WideIsProgram DEF Folding
<1>3. PICK from : from = [w |-> v, ir |-> n, ok |-> TRUE]
  OBVIOUS
<1>4. Searching(from, C) /\ from.ir = n
  BY <1>1, <1>3 DEF Searching
<1>5. adds.ok => Searching(adds, C) /\ adds.ir >= n
  BY <1>2, <1>3, <1>4, FoldedKeepsSearching DEF FoldKinds
<1>6. muls.ok => adds.ok /\ Searching(muls, C) /\ muls.ir >= adds.ir
  BY <1>2, <1>5, FoldedKeepsSearching DEF FoldKinds
<1>7. muls.ok /\ Searching(divs, C) /\ divs.ir >= muls.ir
  BY <1>2, <1>6, FoldedKeepsSearching DEF FoldKinds
<1>8. divs.w.inner = C /\ divs.ir \in 0..Len(C) /\ Folding(divs.w, divs.ir) /\ divs.ir >= n
  <2>1. adds.ir \in 0..Len(C) /\ muls.ir \in 0..Len(C)
    BY <1>5, <1>6, <1>7 DEF Searching
  <2> QED
    BY <1>1, <1>2, <1>5, <1>6, <1>7, <2>1 DEF Searching
<1>9. Continue(n, divs.ir) \in 0..Len(C) /\ Folding(divs.w, Continue(n, divs.ir))
  <2>1. CASE divs.ir = n
    <3>1. Continue(n, divs.ir) = n + 1 /\ n + 1 \in 0..Len(C) /\ n \in Nat /\ n + 1 \in Nat
      BY <1>1, <1>2, <2>1 DEF Continue
    <3>2. Folding(divs.w, n)
      BY <1>8, <2>1
    <3>3. Folding(divs.w, n + 1)
      BY <3>1, <3>2, FoldingGoesOn
    <3> QED
      BY <3>1, <3>3
  <2>2. CASE divs.ir # n
    BY <1>8, <2>2 DEF Continue
  <2> QED
    BY <2>1, <2>2
<1>10. Rewrites(divs.w)
  BY <1>8, FoldingRewrites
<1> QED
  BY <1>1, <1>8, <1>9, <1>10 DEF Placed

\* A pass that has come to the end of the code leaves the next one what it needs.
LEMMA NewPlaced ==
    ASSUME NEW v, Rewrites(v), NEW u \in NewWoCode(Emitted(v))
    PROVE  /\ Moves(v, u.inner) /\ Rewrites(u) /\ u.deleted = {} /\ DOMAIN u.modified = {}
           /\ 0 \in 0..Len(u.inner)
<1>1. Moves(v, Emitted(v))
  BY EmittedMoves
<1>2. Emitted(v) \in Seq(WideInstruction)
  BY <1>1 DEF Moves
<1>3. IsProgram(Emitted(v)) /\ Len(Emitted(v)) \in Nat
  BY <1>2, WideIsProgram
<1>4. WellFormed(u) /\ u.inner = Emitted(v) /\ u.deleted = {} /\ DOMAIN u.modified = {}
  BY <1>3, NewIsWellFormed
<1> QED
  BY <1>1, <1>2, <1>3, <1>4 DEF Rewrites

\* The end of a pass leaves what the next one needs.
LEMMA EndPlaced ==
    ASSUME NEW v, NEW marked, NEW u \in NewWoCode(Emitted(v)), NEW p,
           Placed(p, v, Len(v.inner), marked)
    PROVE  /\ p = "remove_nops" => Placed("simplify_jumps", u, 0, {})
           /\ p = "simplify_jumps" => Placed("mark_reachable", u, 0, {})
           /\ p = "remove_unreachable_code" => Placed("fold_consts", u, 0, {})
           /\ p = "fold_consts" => Placed("done", u, 0, {})
<1> DEFINE C == v.inner
           n == Len(C)
<1>1. Rewrites(v)
  BY DEF Placed
<1>2. C \in Seq(WideInstruction) /\ IsProgram(C) /\ n \in Nat /\ Irs(C) = 0..(n - 1)
  BY <1>1, WideIsProgram DEF Rewrites, Irs
<1>3. /\ Moves(v, u.inner) /\ Rewrites(u) /\ u.deleted = {} /\ DOMAIN u.modified = {}
      /\ 0 \in 0..Len(u.inner) /\ 0..(0 - 1) = {}
  BY <1>1, NewPlaced
<1>4. ASSUME p = "remove_nops"
      PROVE  Placed("simplify_jumps", u, 0, {})
  BY <1>3 DEF Placed
<1>5. ASSUME p = "simplify_jumps"
      PROVE  Placed("mark_reachable", u, 0, {})
  <2>1. v.deleted = {} /\ \A i \in Irs(C) : Simplified(C, i, Edited(v, i))
    BY <1>2, <1>5 DEF Placed
  <2>2. ShortJumps(u.inner)
    BY <1>1, <1>3, <2>1, SimplifyingShortens
  <2> QED
    BY <1>3, <2>2 DEF Placed
<1>6. ASSUME p = "remove_unreachable_code"
      PROVE  Placed("fold_consts", u, 0, {})
  <2>1. /\ v.deleted = Irs(C) \ marked /\ DOMAIN v.modified = {}
        /\ marked = Reachable(C) /\ marked \subseteq Irs(C) /\ ShortJumps(C)
    BY <1>2, <1>6 DEF Placed
  <2>2. 0 \in marked /\ \A i \in marked : Successors(C, i) \subseteq marked
    BY <1>2, <2>1, ReachableIsClosed
  <2>3. ShortJumps(u.inner)
    BY <1>1, <1>3, <2>1, <2>2, DeletingUnreachableKeepsShort
  <2>4. ReachesAll(C, marked)
    BY <1>2, <2>1, ReachesReachable
  <2>5. ReachesAll(u.inner, Irs(u.inner))
    <3>1. \A i \in marked : ~(i \in v.deleted \cup DOMAIN v.modified)
      BY <2>1
    <3>2. Irs(v.inner) \ v.deleted \subseteq marked
      BY <2>1
    <3> QED
      BY <1>1, <1>3, <2>1, <2>2, <2>4, <3>1, <3>2, StraightEditsKeepReaching
  <2>6. Folding(u, 0)
    BY <1>3 DEF Folding, Rewrites
  <2> QED
    BY <1>3, <2>3, <2>5, <2>6 DEF Placed
<1>7. ASSUME p = "fold_consts"
      PROVE  Placed("done", u, 0, {})
  <2>1. Folding(v, n) /\ ReachesAll(C, Irs(C))
    BY <1>7 DEF Placed
  <2>2. \A i \in Irs(C) : i \in v.deleted \cup DOMAIN v.modified =>
            Straight(At(C, i)) /\ Straight(Edited(v, i))
    BY <2>1 DEF Folding, Edited
  <2>3. ReachesAll(u.inner, Irs(u.inner))
    <3> HIDE DEF n
    <3>1. Irs(v.inner) \ v.deleted \subseteq Irs(v.inner) /\ Irs(v.inner) \in SUBSET Irs(v.inner)
      OBVIOUS
    <3> QED
      BY <1>1, <1>3, <2>1, <2>2, <3>1, StraightEditsKeepReaching
  <2> QED
    BY <1>3, <2>3 DEF Placed
<1> QED
  BY <1>4, <1>5, <1>6, <1>7

-----------------------------------------------------------------------------
(***************************************************************************)
(* The theorems.                                                           *)
(***************************************************************************)

Passing == {"remove_nops", "simplify_jumps", "mark_reachable", "remove_unreachable_code",
            "fold_consts", "done"}

\* The passes and their order.
LEMMA PassesInOrder ==
    /\ ToSet(PassOrder) = Passing
    /\ Len(PassOrder) = 6
    /\ PassOrder[1] = "remove_nops" /\ PassOrder[2] = "simplify_jumps"
    /\ PassOrder[3] = "mark_reachable" /\ PassOrder[4] = "remove_unreachable_code"
    /\ PassOrder[5] = "fold_consts" /\ PassOrder[6] = "done"
<1>1. /\ Len(PassOrder) = 6 /\ DOMAIN PassOrder = 1..6
      /\ PassOrder[1] = "remove_nops" /\ PassOrder[2] = "simplify_jumps"
      /\ PassOrder[3] = "mark_reachable" /\ PassOrder[4] = "remove_unreachable_code"
      /\ PassOrder[5] = "fold_consts" /\ PassOrder[6] = "done"
  BY DEF PassOrder
<1>2. 1..6 = {1, 2, 3, 4, 5, 6}
  OBVIOUS
<1>3. ToSet(PassOrder) = { PassOrder[i] : i \in 1..6 }
  BY <1>1 DEF ToSet
<1>4. { PassOrder[i] : i \in 1..6 } = Passing
  BY <1>1, <1>2 DEF Passing
<1> QED
  BY <1>1, <1>3, <1>4

Inductive ==
    /\ original \in Codes
    /\ pass \in Passing \cup {"panicked"}
    /\ Placed(pass, w, ir, reachable)

\* The optimizer begins with nothing deleted.
LEMMA InitIsInductive == Init => Inductive
<1> SUFFICES ASSUME Init
             PROVE  Inductive
  OBVIOUS
<1>1. original \in Seq(WideInstruction)
  BY CodesAssumption DEF Init
<1>2. IsProgram(original)
  BY <1>1, WideIsProgram
<1>3. WellFormed(w) /\ w.inner = original /\ w.deleted = {} /\ DOMAIN w.modified = {}
  BY <1>2, NewIsWellFormed DEF Init
<1>4. Rewrites(w) /\ 0 \in 0..Len(w.inner)
  BY <1>1, <1>2, <1>3 DEF Rewrites, IsProgram
<1>5. Placed("remove_nops", w, 0, {})
  BY <1>3, <1>4 DEF Placed
<1> QED
  BY <1>5 DEF Init, Inductive, Passing

\* A panic leaves the WoCode as it is.
LEMMA PanickedPlaced ==
    ASSUME NEW p, NEW v, NEW n, NEW marked, Placed(p, v, n, marked)
    PROVE  Placed("panicked", v, n, marked)
  BY DEF Placed

\* Every iteration of every pass keeps the invariant.
LEMMA NextIsInductive == Inductive /\ [Next]_vars => Inductive'
<1> SUFFICES ASSUME Inductive, [Next]_vars
             PROVE  Inductive'
  OBVIOUS
<1>1. /\ original \in Codes /\ pass \in Passing \cup {"panicked"}
      /\ Placed(pass, w, ir, reachable)
  BY DEF Inductive
<1>2. ASSUME Panic
      PROVE  Inductive'
  BY <1>1, <1>2, PanickedPlaced DEF Panic, Inductive
<1>3. CASE RemoveNop
  <2>1. pass = "remove_nops" /\ ir < Len(w.inner)
    BY <1>3 DEF RemoveNop, InLoop
  <2>2. Placed("remove_nops", w', ir + 1, reachable)
    BY <1>1, <1>3, <2>1, RemoveNopPlaced DEF RemoveNop
  <2> QED
    BY <1>1, <1>3, <2>1, <2>2 DEF RemoveNop, Inductive
<1>4. CASE SimplifyJump
  <2>1. pass = "simplify_jumps" /\ ir < Len(w.inner)
    BY <1>4 DEF SimplifyJump, InLoop
  <2>2. Placed("simplify_jumps", w', ir + 1, reachable)
    BY <1>1, <1>4, <2>1, SimplifyJumpPlaced DEF SimplifyJump, Current
  <2> QED
    BY <1>1, <1>4, <2>1, <2>2 DEF SimplifyJump, Inductive
<1>5. CASE MarkReachable
  <2>1. CASE Panic
    BY <1>2, <2>1
  <2>2. CASE ~Panic
    <3>1. /\ pass = "mark_reachable" /\ Reachable(w.inner) \subseteq Irs(w.inner)
          /\ reachable' = Reachable(w.inner) /\ pass' = "remove_unreachable_code"
          /\ original' = original /\ w' = w /\ ir' = ir
      BY <1>5, <2>2 DEF MarkReachable
    <3>2. Placed("remove_unreachable_code", w, ir, Reachable(w.inner))
      BY <1>1, <3>1, MarkPlaced
    <3> QED
      BY <1>1, <3>1, <3>2 DEF Inductive, Passing
  <2> QED
    BY <2>1, <2>2
<1>6. CASE RemoveUnreachable
  <2>1. pass = "remove_unreachable_code" /\ ir < Len(w.inner)
    BY <1>6 DEF RemoveUnreachable, InLoop
  <2>2. Placed("remove_unreachable_code", w', ir + 1, reachable)
    BY <1>1, <1>6, <2>1, RemoveUnreachablePlaced DEF RemoveUnreachable
  <2> QED
    BY <1>1, <1>6, <2>1, <2>2 DEF RemoveUnreachable, Inductive
<1>7. CASE FoldConsts
  <2>1. pass = "fold_consts" /\ ir < Len(w.inner)
    BY <1>7 DEF FoldConsts, InLoop
  <2>2. PICK adds, muls, divs :
            /\ adds = Folded([w |-> w, ir |-> ir, ok |-> TRUE], "ADD")
            /\ muls = Folded(adds, "MUL")
            /\ divs = Folded(muls, "DIV")
            /\ \/ Panic
               \/ /\ divs.ok /\ w' = divs.w /\ ir' = Continue(ir, divs.ir)
                  /\ UNCHANGED <<original, pass, reachable>>
    BY <1>7 DEF FoldConsts
  <2>3. CASE Panic
    BY <1>2, <2>3
  <2>4. CASE ~Panic
    <3>1. /\ divs.ok /\ w' = divs.w /\ ir' = Continue(ir, divs.ir)
          /\ original' = original /\ pass' = pass /\ reachable' = reachable
      BY <2>2, <2>4
    <3>2. Placed("fold_consts", divs.w, Continue(ir, divs.ir), reachable)
      BY <1>1, <2>1, <2>2, <3>1, FoldConstsPlaced
    <3> QED
      BY <1>1, <2>1, <3>1, <3>2 DEF Inductive
  <2> QED
    BY <2>3, <2>4
<1>8. CASE EndPass
  <2>1. /\ pass \notin {"mark_reachable", "done", "panicked"} /\ ir = Len(w.inner)
        /\ w' \in NewWoCode(Emitted(w)) /\ ir' = 0 /\ reachable' = {} /\ original' = original
        /\ \E k \in 1..(Len(PassOrder) - 1) : PassOrder[k] = pass /\ pass' = PassOrder[k + 1]
    BY <1>8 DEF EndPass
  <2>2. /\ pass = "remove_nops" => Placed("simplify_jumps", w', 0, {})
        /\ pass = "simplify_jumps" => Placed("mark_reachable", w', 0, {})
        /\ pass = "remove_unreachable_code" => Placed("fold_consts", w', 0, {})
        /\ pass = "fold_consts" => Placed("done", w', 0, {})
    BY <1>1, <2>1, EndPlaced
  <2>3. PICK k \in {1, 2, 3, 4, 5} : PassOrder[k] = pass /\ pass' = PassOrder[k + 1]
    <3>1. 1..(Len(PassOrder) - 1) = {1, 2, 3, 4, 5}
      BY PassesInOrder
    <3> QED
      BY <2>1, <3>1
  <2>4. \/ pass = "remove_nops" /\ pass' = "simplify_jumps"
        \/ pass = "simplify_jumps" /\ pass' = "mark_reachable"
        \/ pass = "remove_unreachable_code" /\ pass' = "fold_consts"
        \/ pass = "fold_consts" /\ pass' = "done"
    BY <2>1, <2>3, PassesInOrder
  <2> QED
    BY <1>1, <2>1, <2>2, <2>4 DEF Inductive, Passing
<1>9. CASE UNCHANGED vars
  BY <1>1, <1>9 DEF vars, Inductive
<1> QED
  BY <1>3, <1>4, <1>5, <1>6, <1>7, <1>8, <1>9 DEF Next

\* The invariant holds throughout.
LEMMA InductiveAlways == Spec => []Inductive
  BY InitIsInductive, NextIsInductive, PTL DEF Spec

\* The optimizer's variables keep to their types: in particular every instruction that it
\* writes is one, with a constant that fits its number type and targets that fit an address.
THEOREM PassesTypeCorrect == Spec => []TypeOK
<1>1. Inductive => TypeOK
  BY PassesInOrder DEF Inductive, Placed, TypeOK, Rewrites, WellFormed, Passing
<1> QED
  BY <1>1, InductiveAlways, PTL

\* No pass, on any code, fails an assertion of delete_ir or set_ir or deletes twice; the
\* deltas always count the deletions, and making the code of a pass never panics.
THEOREM PassesStayCareful == Spec => []PassesAreCareful
<1>1. Inductive => PassesAreCareful
  BY EmitNeverPanicsWellFormed
     DEF Inductive, Placed, Rewrites, WellFormed, PassesAreCareful, DeletedBefore
<1> QED
  BY <1>1, InductiveAlways, PTL

\* What simplify_jumps leaves, and remove_unreachable_code keeps: a jump leads to an
\* unconditional jump only where those loop.
THEOREM JumpsStayShort == Spec => []JumpsAreShort
<1>1. Inductive => JumpsAreShort
  BY DEF Inductive, Placed, JumpsAreShort, ShortJumps
<1> QED
  BY <1>1, InductiveAlways, PTL

\* What remove_unreachable_code leaves, and fold_consts keeps: every instruction can be
\* reached from the first.
THEOREM EverythingIsReachable == Spec => []NothingIsUnreachable
<1>1. Inductive => NothingIsUnreachable
  BY DEF Inductive, Placed, NothingIsUnreachable, ReachesAll
<1> QED
  BY <1>1, InductiveAlways, PTL

=============================================================================
