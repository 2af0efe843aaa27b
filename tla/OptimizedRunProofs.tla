------------------------- MODULE OptimizedRunProofs -------------------------
(***************************************************************************)
(* Theorems about a program and its optimized form, for every code.        *)
(*                                                                         *)
(* RamRefinement speaks of executions, without variables: P1!Preserves(p,  *)
(* q) says that q ends alike wherever p ends well.  Each pass hands a code *)
(* that preserves its own to the next one (NopsPreserve, JumpsPreserve,    *)
(* UnreachablePreserve, FoldsPreserve), so the invariant Optimizing keeps  *)
(* that the optimizer's code preserves the original.  RunInv adds that     *)
(* each machine is somewhere in the execution of its program, and the      *)
(* verdicts agree because an execution has one end.                        *)
(***************************************************************************)
EXTENDS OptimizedRun, PassesProofs

\* The programs that a machine of this width can run.
Runnable == { p \in Seq(Instruction) : Len(p) <= MaxIr }

P1 == INSTANCE RamRefinement WITH
    Programs <- Runnable, code <- original, input <- input1, output <- output1,
    memory <- memory1, ir <- ir1, inst <- inst1, result <- result1, driver <- driver1

P2 == INSTANCE RamRefinement WITH
    Programs <- Runnable, code <- w.inner, input <- input2, output <- output2,
    memory <- memory2, ir <- ir2, inst <- inst2, result <- result2, driver <- driver2

-----------------------------------------------------------------------------
(***************************************************************************)
(* Both machines of the harness are Rams.                                  *)
(***************************************************************************)

\* The machine that runs the original is a Ram.
LEMMA SameAccess1 ==
    /\ Ram1!Ok = "Ok" /\ P1!Ok = "Ok" /\ Ram1!Usize = Usize /\ P1!Usize = Usize
    /\ \A code, i : Ram1!Exists(code, i) <=> P1!Exists(code, i)
    /\ \A code, i : Ram1!At(code, i) = P1!At(code, i)
    /\ \A m, adr : Ram1!Grow(m, adr) = P1!Grow(m, adr)
    /\ \A m, adr : Ram1!Unreachable(m, adr) = P1!Unreachable(m, adr)
    /\ \A e, m : Ram1!Failure(e, m) = P1!Failure(e, m)
    /\ \A m, adr, v : Ram1!Set(m, adr, v) = P1!Set(m, adr, v)
BY DEF Ram1!Ok, P1!Ok, Ram1!Usize, P1!Usize, Ram1!Exists, P1!Exists, Ram1!At, P1!At, Ram1!Grow, P1!Grow, Ram1!Failure, P1!Failure, Ram1!Unreachable, P1!Unreachable,
       Ram1!Set, P1!Set, Usize

\* It looks registers up the same way.
LEMMA SameLookup1 ==
    /\ \A m, reg : Ram1!Locate(m, reg) = P1!Locate(m, reg)
    /\ \A m, reg : Ram1!Get(m, reg) = P1!Get(m, reg)
    /\ \A m, v : Ram1!Fetch(m, v) = P1!Fetch(m, v)
    /\ \A m, v : Ram1!SetAcc(m, v) = P1!SetAcc(m, v)
    /\ Ram1!Acc = P1!Acc
<1>1. ASSUME NEW m, NEW reg
      PROVE  Ram1!Locate(m, reg) = P1!Locate(m, reg)
  BY SameAccess1 DEF Ram1!Locate, P1!Locate
<1>2. ASSUME NEW m, NEW reg
      PROVE  Ram1!Get(m, reg) = P1!Get(m, reg)
  BY <1>1, SameAccess1 DEF Ram1!Get, P1!Get
<1>3. ASSUME NEW m, NEW v
      PROVE  Ram1!Fetch(m, v) = P1!Fetch(m, v)
  BY <1>2, SameAccess1 DEF Ram1!Fetch, P1!Fetch
<1>4. ASSUME NEW m, NEW v
      PROVE  Ram1!SetAcc(m, v) = P1!SetAcc(m, v)
  BY SameAccess1 DEF Ram1!SetAcc, P1!SetAcc
<1>5. Ram1!Acc = P1!Acc
  BY <1>2 DEF Ram1!Acc, P1!Acc, Ram1!ACC, P1!ACC
<1> QED BY <1>1, <1>2, <1>3, <1>4, <1>5

\* It computes the same numbers.
LEMMA SameArithmetic1 ==
    \A op, a, b : Ram1!Checked(op, a, b) = P1!Checked(op, a, b)
<1>1. \A op, a, b : Ram1!Exact(op, a, b) = P1!Exact(op, a, b)
  BY DEF Ram1!Exact, P1!Exact, Ram1!Quotient, P1!Quotient, Ram1!Magnitude, P1!Magnitude
<1>2. Ram1!Number = P1!Number /\ Ram1!MinInt = P1!MinInt
  BY DEF Ram1!Number, P1!Number, Ram1!MinInt, P1!MinInt
<1> QED BY <1>1, <1>2 DEF Ram1!Checked, P1!Checked

\* It fails, goes on and jumps the same way.
LEMMA SameMoves1 ==
    /\ \A e, m : Ram1!Fail(e, m) <=> P1!Fail(e, m)
    /\ \A m, out : Ram1!Advance(m, out) <=> P1!Advance(m, out)
    /\ \A m : Ram1!Jump(m) <=> P1!Jump(m)
<1>1. ASSUME NEW e, NEW m
      PROVE  Ram1!Fail(e, m) <=> P1!Fail(e, m)
  BY DEF Ram1!Fail, P1!Fail
<1>2. ASSUME NEW m, NEW out
      PROVE  Ram1!Advance(m, out) <=> P1!Advance(m, out)
  BY SameAccess1 DEF Ram1!Advance, P1!Advance
<1>3. ASSUME NEW m
      PROVE  Ram1!Jump(m) <=> P1!Jump(m)
  <2>1. \A adr : Ram1!Target(m, adr) = P1!Target(m, adr)
    BY SameAccess1, SameLookup1 DEF Ram1!Target, P1!Target
  <2> QED BY <1>1, <2>1, SameAccess1 DEF Ram1!Jump, P1!Jump
<1> QED BY <1>1, <1>2, <1>3

\* Its step() is that of a Ram, so the theorems about Ram hold of it.
LEMMA SameStep1 == Ram1!Step <=> P1!Step
<1>1. Ram1!Read <=> P1!Read
  BY SameLookup1, SameMoves1 DEF Ram1!Read, P1!Read, Ram1!Answer, P1!Answer, Ram1!Rest, P1!Rest
<1>2. Ram1!Write <=> P1!Write
  BY SameAccess1, SameLookup1, SameMoves1 DEF Ram1!Write, P1!Write
<1>3. Ram1!Load <=> P1!Load
  BY SameAccess1, SameLookup1, SameMoves1 DEF Ram1!Load, P1!Load
<1>4. Ram1!Store <=> P1!Store
  BY SameAccess1, SameLookup1, SameMoves1 DEF Ram1!Store, P1!Store
<1>5. Ram1!Unop <=> P1!Unop
  BY SameAccess1, SameLookup1, SameMoves1, SameArithmetic1 DEF Ram1!Unop, P1!Unop, Ram1!UnaryOps, P1!UnaryOps
<1>6. Ram1!Binop <=> P1!Binop
  BY SameAccess1, SameLookup1, SameMoves1, SameArithmetic1 DEF Ram1!Binop, P1!Binop, Ram1!BinaryOps, P1!BinaryOps
<1>7. Ram1!AlwaysJump <=> P1!AlwaysJump
  BY SameMoves1 DEF Ram1!AlwaysJump, P1!AlwaysJump
<1>8. Ram1!MayJump <=> P1!MayJump
  BY SameAccess1, SameLookup1, SameMoves1 DEF Ram1!MayJump, P1!MayJump, Ram1!ConditionalJumps, P1!ConditionalJumps, Ram1!Jumps, P1!Jumps
<1>9. Ram1!Stop <=> P1!Stop
  BY SameAccess1 DEF Ram1!Stop, P1!Stop
<1>10. Ram1!Nop <=> P1!Nop
  BY SameMoves1 DEF Ram1!Nop, P1!Nop
<1> QED
  BY <1>1, <1>2, <1>3, <1>4, <1>5, <1>6, <1>7, <1>8, <1>9, <1>10 DEF Ram1!Step, P1!Step

\* The machine that runs the optimized code is a Ram.
LEMMA SameAccess2 ==
    /\ Ram2!Ok = "Ok" /\ P2!Ok = "Ok" /\ Ram2!Usize = Usize /\ P2!Usize = Usize
    /\ \A code, i : Ram2!Exists(code, i) <=> P2!Exists(code, i)
    /\ \A code, i : Ram2!At(code, i) = P2!At(code, i)
    /\ \A m, adr : Ram2!Grow(m, adr) = P2!Grow(m, adr)
    /\ \A m, adr : Ram2!Unreachable(m, adr) = P2!Unreachable(m, adr)
    /\ \A e, m : Ram2!Failure(e, m) = P2!Failure(e, m)
    /\ \A m, adr, v : Ram2!Set(m, adr, v) = P2!Set(m, adr, v)
BY DEF Ram2!Ok, P2!Ok, Ram2!Usize, P2!Usize, Ram2!Exists, P2!Exists, Ram2!At, P2!At, Ram2!Grow, P2!Grow, Ram2!Failure, P2!Failure, Ram2!Unreachable, P2!Unreachable,
       Ram2!Set, P2!Set, Usize

\* It looks registers up the same way.
LEMMA SameLookup2 ==
    /\ \A m, reg : Ram2!Locate(m, reg) = P2!Locate(m, reg)
    /\ \A m, reg : Ram2!Get(m, reg) = P2!Get(m, reg)
    /\ \A m, v : Ram2!Fetch(m, v) = P2!Fetch(m, v)
    /\ \A m, v : Ram2!SetAcc(m, v) = P2!SetAcc(m, v)
    /\ Ram2!Acc = P2!Acc
<1>1. ASSUME NEW m, NEW reg
      PROVE  Ram2!Locate(m, reg) = P2!Locate(m, reg)
  BY SameAccess2 DEF Ram2!Locate, P2!Locate
<1>2. ASSUME NEW m, NEW reg
      PROVE  Ram2!Get(m, reg) = P2!Get(m, reg)
  BY <1>1, SameAccess2 DEF Ram2!Get, P2!Get
<1>3. ASSUME NEW m, NEW v
      PROVE  Ram2!Fetch(m, v) = P2!Fetch(m, v)
  BY <1>2, SameAccess2 DEF Ram2!Fetch, P2!Fetch
<1>4. ASSUME NEW m, NEW v
      PROVE  Ram2!SetAcc(m, v) = P2!SetAcc(m, v)
  BY SameAccess2 DEF Ram2!SetAcc, P2!SetAcc
<1>5. Ram2!Acc = P2!Acc
  BY <1>2 DEF Ram2!Acc, P2!Acc, Ram2!ACC, P2!ACC
<1> QED BY <1>1, <1>2, <1>3, <1>4, <1>5

\* It computes the same numbers.
LEMMA SameArithmetic2 ==
    \A op, a, b : Ram2!Checked(op, a, b) = P2!Checked(op, a, b)
<1>1. \A op, a, b : Ram2!Exact(op, a, b) = P2!Exact(op, a, b)
  BY DEF Ram2!Exact, P2!Exact, Ram2!Quotient, P2!Quotient, Ram2!Magnitude, P2!Magnitude
<1>2. Ram2!Number = P2!Number /\ Ram2!MinInt = P2!MinInt
  BY DEF Ram2!Number, P2!Number, Ram2!MinInt, P2!MinInt
<1> QED BY <1>1, <1>2 DEF Ram2!Checked, P2!Checked

\* It fails, goes on and jumps the same way.
LEMMA SameMoves2 ==
    /\ \A e, m : Ram2!Fail(e, m) <=> P2!Fail(e, m)
    /\ \A m, out : Ram2!Advance(m, out) <=> P2!Advance(m, out)
    /\ \A m : Ram2!Jump(m) <=> P2!Jump(m)
<1>1. ASSUME NEW e, NEW m
      PROVE  Ram2!Fail(e, m) <=> P2!Fail(e, m)
  BY DEF Ram2!Fail, P2!Fail
<1>2. ASSUME NEW m, NEW out
      PROVE  Ram2!Advance(m, out) <=> P2!Advance(m, out)
  BY SameAccess2 DEF Ram2!Advance, P2!Advance
<1>3. ASSUME NEW m
      PROVE  Ram2!Jump(m) <=> P2!Jump(m)
  <2>1. \A adr : Ram2!Target(m, adr) = P2!Target(m, adr)
    BY SameAccess2, SameLookup2 DEF Ram2!Target, P2!Target
  <2> QED BY <1>1, <2>1, SameAccess2 DEF Ram2!Jump, P2!Jump
<1> QED BY <1>1, <1>2, <1>3

\* Its step() is that of a Ram, so the theorems about Ram hold of it.
LEMMA SameStep2 == Ram2!Step <=> P2!Step
<1>1. Ram2!Read <=> P2!Read
  BY SameLookup2, SameMoves2 DEF Ram2!Read, P2!Read, Ram2!Answer, P2!Answer, Ram2!Rest, P2!Rest
<1>2. Ram2!Write <=> P2!Write
  BY SameAccess2, SameLookup2, SameMoves2 DEF Ram2!Write, P2!Write
<1>3. Ram2!Load <=> P2!Load
  BY SameAccess2, SameLookup2, SameMoves2 DEF Ram2!Load, P2!Load
<1>4. Ram2!Store <=> P2!Store
  BY SameAccess2, SameLookup2, SameMoves2 DEF Ram2!Store, P2!Store
<1>5. Ram2!Unop <=> P2!Unop
  BY SameAccess2, SameLookup2, SameMoves2, SameArithmetic2 DEF Ram2!Unop, P2!Unop, Ram2!UnaryOps, P2!UnaryOps
<1>6. Ram2!Binop <=> P2!Binop
  BY SameAccess2, SameLookup2, SameMoves2, SameArithmetic2 DEF Ram2!Binop, P2!Binop, Ram2!BinaryOps, P2!BinaryOps
<1>7. Ram2!AlwaysJump <=> P2!AlwaysJump
  BY SameMoves2 DEF Ram2!AlwaysJump, P2!AlwaysJump
<1>8. Ram2!MayJump <=> P2!MayJump
  BY SameAccess2, SameLookup2, SameMoves2 DEF Ram2!MayJump, P2!MayJump, Ram2!ConditionalJumps, P2!ConditionalJumps, Ram2!Jumps, P2!Jumps
<1>9. Ram2!Stop <=> P2!Stop
  BY SameAccess2 DEF Ram2!Stop, P2!Stop
<1>10. Ram2!Nop <=> P2!Nop
  BY SameMoves2 DEF Ram2!Nop, P2!Nop
<1> QED
  BY <1>1, <1>2, <1>3, <1>4, <1>5, <1>6, <1>7, <1>8, <1>9, <1>10 DEF Ram2!Step, P2!Step

-----------------------------------------------------------------------------
(***************************************************************************)
(* The data of the machines is the data of the optimizer.                  *)
(***************************************************************************)
LEMMA SameSets ==
    /\ P1!Number = Number /\ P1!Usize = Usize /\ P1!Instruction = Instruction
    /\ P1!JumpOps = JumpOps
    /\ \A c, i : P1!At(c, i) = At(c, i)
    /\ \A c, i : P1!Exists(c, i) <=> Exists(c, i)
    /\ \A op, a, b : P1!Exact(op, a, b) = Exact(op, a, b)
    /\ \A op, a, b : P1!Checked(op, a, b) = Checked(op, a, b)
<1>1. /\ P1!Number = Number /\ P1!Usize = Usize /\ P1!JumpOps = JumpOps
      /\ P1!BinaryOps = BinaryOps /\ P1!UnaryOps = UnaryOps
  BY DEF P1!Number, Number, P1!MinInt, MinInt, P1!Usize, Usize, P1!JumpOps, JumpOps,
         P1!ConditionalJumps, ConditionalJumps, P1!BinaryOps, BinaryOps, P1!UnaryOps, UnaryOps
<1>2. P1!Instruction = Instruction
  BY <1>1 DEF P1!Instruction, Instruction, P1!Value, Value, P1!Register, Register, P1!Address, Address
<1>3. /\ \A c, i : P1!At(c, i) = At(c, i)
      /\ \A c, i : P1!Exists(c, i) <=> Exists(c, i)
  BY DEF P1!At, At, P1!Exists, Exists
<1>4. \A op, a, b : P1!Exact(op, a, b) = Exact(op, a, b)
  BY DEF P1!Exact, Exact, P1!Quotient, Quotient, P1!Magnitude, Magnitude
<1>5. \A op, a, b : P1!Checked(op, a, b) = Checked(op, a, b)
  BY <1>1, <1>4 DEF P1!Checked, Checked, P1!MinInt, MinInt
<1> QED BY <1>1, <1>2, <1>3, <1>4, <1>5

\* Their assumptions hold of the constants.
LEMMA SameAssumptions ==
    /\ MaxInt \in Nat \ {0} /\ MaxUsize \in Nat
    /\ MaxCells \in 1..MaxUsize /\ OverflowChecks \in BOOLEAN
    /\ Uninit \notin P1!Number \cup P1!Usize /\ None \notin P1!Number
    /\ Inputs \subseteq Seq(P1!Number \cup {None})
    /\ MaxOutput \in Nat /\ MaxIr \in Nat
    /\ Runnable \subseteq { p \in Seq(P1!Instruction) : Len(p) <= MaxIr }
BY WidthAssumption, MarkAssumption, InputAssumption, BoundAssumption, MemoryAssumption,
   ChecksAssumption, SameSets DEF Runnable

\* A code that fits the machines is a program for them.
LEMMA FittingIsRunnable ==
    ASSUME NEW code \in Seq(WideInstruction), Fits(code)
    PROVE  code \in Seq(Instruction)
<1>1. ASSUME NEW k \in DOMAIN code
      PROVE  code[k] \in Instruction
  <2>1. code[k] \in WideInstruction /\ MapsTo(code[k], MaxInt)
    BY DEF Fits, CastFits
  <2>2. CASE code[k] \in [op : {"LOAD"} \cup BinaryOps, mode : {"const"}, n : Wide]
    <3>1. code[k].n \in Number
      BY <2>1, <2>2 DEF MapsTo, Number, MinInt
    <3> QED BY <2>2, <3>1 DEF Instruction, Value
  <2> QED BY <2>1, <2>2 DEF WideInstruction
<1> QED BY <1>1

-----------------------------------------------------------------------------
(***************************************************************************)
(* Division, which truncates: a fold of DIVs multiplies their constants.   *)
(***************************************************************************)

\* A multiple is at least as large.
LEMMA TimesAtLeast ==
    ASSUME NEW d \in Nat, NEW k \in Nat \ {0}
    PROVE  d * k \in Nat /\ d * k >= d
<1>1. d * k = d + d * (k - 1)
  OBVIOUS
<1>2. d * (k - 1) \in Nat
  OBVIOUS
<1> QED BY <1>1, <1>2

\* Quotient and remainder make up the dividend.
LEMMA DivisionIs ==
    ASSUME NEW x \in Nat, NEW d \in Nat \ {0}
    PROVE  /\ x \div d \in Nat /\ x % d \in 0..(d - 1)
           /\ x = d * (x \div d) + (x % d)
OBVIOUS

\* Only one quotient has a remainder below the divisor.
LEMMA DivisionIsUnique ==
    ASSUME NEW x \in Nat, NEW d \in Nat \ {0}, NEW q \in Nat, NEW r \in 0..(d - 1),
           x = d * q + r
    PROVE  x \div d = q
<1> DEFINE p == x \div d
           s == x % d
<1>1. p \in Nat /\ s \in 0..(d - 1) /\ x = d * p + s
  BY DivisionIs
<1> HIDE DEF p, s
<1>2. d * (q - p) = s - r /\ d * (p - q) = r - s
  BY <1>1
<1>3. ~(q > p)
  <2>1. q > p => d * (q - p) >= d
    <3>1. q > p => q - p \in Nat \ {0}
      BY <1>1
    <3> QED BY <3>1, TimesAtLeast
  <2> QED BY <1>1, <1>2, <2>1
<1>4. ~(p > q)
  <2>1. p > q => d * (p - q) >= d
    <3>1. p > q => p - q \in Nat \ {0}
      BY <1>1
    <3> QED BY <3>1, TimesAtLeast
  <2> QED BY <1>1, <1>2, <2>1
<1>5. p = q
  BY <1>1, <1>3, <1>4
<1> QED BY <1>5 DEF p

\* Dividing by m and then by n is dividing by m * n, which is what a fold of DIVs relies on.
LEMMA DivisionTwice ==
    ASSUME NEW x \in Nat, NEW m \in Nat \ {0}, NEW n \in Nat \ {0}
    PROVE  (x \div m) \div n = x \div (m * n)
<1> DEFINE p == x \div m
           r == x % m
           q == p \div n
           s == p % n
           t == m * s + r
<1>1. p \in Nat /\ r \in 0..(m - 1) /\ x = m * p + r
  BY DivisionIs
<1> HIDE DEF p, r
<1>2. q \in Nat /\ s \in 0..(n - 1) /\ p = n * q + s
  BY <1>1, DivisionIs
<1> HIDE DEF q, s
<1>3. m * n \in Nat \ {0}
  <2>1. m * n >= m
    BY TimesAtLeast
  <2> QED BY <2>1
<1>4. x = (m * n) * q + t
  <2>1. m * (n * q + s) = m * (n * q) + m * s
    BY <1>2
  <2>2. m * (n * q) = (m * n) * q
    BY <1>2
  <2>3. m * p = m * (n * q) + m * s
    BY <1>2, <2>1
  <2>4. m * s \in Int /\ m * (n * q) \in Int /\ r \in Int
    BY <1>1, <1>2
  <2>5. x = m * (n * q) + (m * s + r)
    BY <1>1, <2>3, <2>4
  <2> QED BY <2>2, <2>5
<1>5. t \in 0..(m * n - 1)
  <2>1. m * s \in Nat
    BY <1>2
  <2>2. m * n = m * s + m * (n - s)
    BY <1>2
  <2>3. m * (n - s) >= m
    <3>1. n - s \in Nat \ {0}
      BY <1>2
    <3> QED BY <3>1, TimesAtLeast
  <2>4. m * (n - s) \in Int
    BY <1>2
  <2> QED BY <1>1, <1>3, <2>1, <2>2, <2>3, <2>4
<1> HIDE DEF t
<1>6. x \div (m * n) = q
  BY <1>2, <1>3, <1>4, <1>5, DivisionIsUnique
<1> QED BY <1>6 DEF p, q

\* A number is its magnitude with its sign.
LEMMA MagnitudeIs ==
    ASSUME NEW a \in Int
    PROVE  /\ Magnitude(a) \in Nat
           /\ a # 0 => Magnitude(a) # 0
           /\ a = IF a < 0 THEN -Magnitude(a) ELSE Magnitude(a)
BY DEF Magnitude

\* The magnitude of a product is the product of the magnitudes.
LEMMA MagnitudeOfProduct ==
    ASSUME NEW m \in Int, NEW n \in Int
    PROVE  Magnitude(m * n) = Magnitude(m) * Magnitude(n)
<1>1. CASE m >= 0 /\ n >= 0
  <2>1. m * n >= 0
    BY <1>1
  <2> QED BY <1>1, <2>1 DEF Magnitude
<1>2. CASE m >= 0 /\ n < 0
  <2>1. m * n = -(m * (-n)) /\ m * (-n) >= 0
    BY <1>2
  <2> QED BY <1>2, <2>1 DEF Magnitude
<1>3. CASE m < 0 /\ n >= 0
  <2>1. m * n = -((-m) * n) /\ (-m) * n >= 0
    BY <1>3
  <2> QED BY <1>3, <2>1 DEF Magnitude
<1>4. CASE m < 0 /\ n < 0
  <2>1. m * n = (-m) * (-n) /\ (-m) * (-n) >= 0
    BY <1>4
  <2> QED BY <1>4, <2>1 DEF Magnitude
<1> QED BY <1>1, <1>2, <1>3, <1>4

\* The sign of a product.
LEMMA ProductIsNegative ==
    ASSUME NEW m \in Int, NEW n \in Int, m # 0, n # 0
    PROVE  m * n \in Int /\ m * n # 0 /\ (m * n < 0 <=> (m < 0) # (n < 0))
<1>1. CASE m > 0 /\ n > 0
  <2>1. m * n > 0
    BY <1>1
  <2> QED BY <1>1, <2>1
<1>2. CASE m > 0 /\ n < 0
  <2>1. m * n = -(m * (-n)) /\ m * (-n) > 0
    BY <1>2
  <2> QED BY <1>2, <2>1
<1>3. CASE m < 0 /\ n > 0
  <2>1. m * n = -((-m) * n) /\ (-m) * n > 0
    BY <1>3
  <2> QED BY <1>3, <2>1
<1>4. CASE m < 0 /\ n < 0
  <2>1. m * n = (-m) * (-n) /\ (-m) * (-n) > 0
    BY <1>4
  <2> QED BY <1>4, <2>1
<1> QED BY <1>1, <1>2, <1>3, <1>4

\* Division by one constant and then another is division by their product.
LEMMA QuotientTwice ==
    ASSUME NEW a \in Int, NEW m \in Int, NEW n \in Int, m # 0, n # 0
    PROVE  Quotient(Quotient(a, m), n) = Quotient(a, m * n)
<1> DEFINE A == Magnitude(a)
           M == Magnitude(m)
           N == Magnitude(n)
           p == A \div M
           q == p \div N
           b == Quotient(a, m)
<1>1. A \in Nat /\ M \in Nat \ {0} /\ N \in Nat \ {0}
  BY MagnitudeIs
<1>2. Magnitude(m * n) = M * N
  BY MagnitudeOfProduct
<1>3. p \in Nat /\ q \in Nat /\ q = A \div (M * N)
  <2> HIDE DEF A, M, N
  <2>1. p \in Nat
    BY <1>1, DivisionIs
  <2>2. q = A \div (M * N)
    <3> HIDE DEF p, q
    <3>1. (A \div M) \div N = A \div (M * N)
      BY <1>1, DivisionTwice
    <3>2. q = (A \div M) \div N
      BY DEF p, q
    <3> QED BY <3>1, <3>2
  <2>3. q \in Nat
    BY <1>1, <2>1, DivisionIs
  <2> QED BY <2>1, <2>2, <2>3
<1>4. (m * n < 0) = ((m < 0) # (n < 0))
  BY ProductIsNegative
<1>5. b = IF (a < 0) = (m < 0) THEN p ELSE -p
  BY DEF Quotient
<1>6. Quotient(a, m * n) = IF (a < 0) = (m * n < 0) THEN q ELSE -q
  BY <1>2, <1>3 DEF Quotient
<1>7. Magnitude(b) = p
  BY <1>3, <1>5 DEF Magnitude
<1>8. Quotient(b, n) = IF (b < 0) = (n < 0) THEN q ELSE -q
  BY <1>7 DEF Quotient
<1>9. p = 0 => q = 0
  BY <1>1 DEF q
<1>10. p # 0 => ((b < 0) = ((a < 0) # (m < 0)))
  BY <1>3, <1>5
<1> HIDE DEF p, q, b
<1>11. p = 0 => Quotient(b, n) = Quotient(a, m * n)
  BY <1>6, <1>8, <1>9
<1>12. p # 0 => Quotient(b, n) = Quotient(a, m * n)
  BY <1>3, <1>4, <1>6, <1>8, <1>10
<1> QED BY <1>11, <1>12 DEF b

\* DIV #1 changes nothing, so fold_consts may delete it.
LEMMA QuotientByOne ==
    ASSUME NEW a \in Int
    PROVE  Quotient(a, 1) = a
BY DEF Quotient, Magnitude

-----------------------------------------------------------------------------
(***************************************************************************)
(* A fold brings the accumulator from a to b by the constant p.            *)
(***************************************************************************)
Brings(fold, p, a, b) ==
    \/ fold = "ADD" /\ b = a + p
    \/ fold = "MUL" /\ b = a * p
    \/ fold = "DIV" /\ p # 0 /\ b = Quotient(a, p)

\* What a checked operation says of its operands.
LEMMA CheckedDivides ==
    ASSUME NEW op, NEW a, NEW b, Checked(op, a, b) # {}
    PROVE  op = "DIV" => b # 0
BY DEF Checked

\* The first instruction of a fold brings a to its result.
LEMMA BringsFirst ==
    ASSUME NEW fold \in FoldKinds, NEW inst, IsConst(inst, Starts(fold)), inst.n \in Int,
           NEW a \in Int, Checked(inst.op, a, inst.n) # {}
    PROVE  Brings(fold, Term(fold, inst), a, Exact(inst.op, a, inst.n))
<1>1. CASE fold = "ADD"
  <2>1. inst.op \in {"ADD", "SUB"}
    BY <1>1 DEF IsConst, Starts
  <2> QED BY <1>1, <2>1 DEF Brings, Term, Exact
<1>2. CASE fold # "ADD"
  <2>1. inst.op = fold
    BY <1>2 DEF IsConst, Starts
  <2> QED BY <1>2, <2>1, CheckedDivides DEF Brings, Term, Exact, FoldKinds
<1> QED BY <1>1, <1>2

\* Every further one goes on from there.
LEMMA BringsNext ==
    ASSUME NEW fold \in FoldKinds, NEW first, NEW inst, Takes(fold, first, inst), inst.n \in Int,
           NEW p \in Int, NEW a \in Int, NEW b \in Int, Brings(fold, p, a, b),
           Checked(inst.op, b, inst.n) # {}
    PROVE  Brings(fold, Joined(fold, p, Term(fold, inst)), a, Exact(inst.op, b, inst.n))
<1>1. CASE fold = "ADD"
  <2>1. b = a + p
    BY <1>1 DEF Brings
  <2>2. CASE inst.op \in {"ADD", "SUB"}
    BY <1>1, <2>1, <2>2 DEF Brings, Joined, Term, Exact
  <2>3. CASE inst.op \in {"MUL", "DIV"} /\ inst.n = 1
    <3>1. Exact(inst.op, b, inst.n) = b
      BY <2>3, QuotientByOne DEF Exact
    <3>2. Term(fold, inst) = 0
      BY <1>1, <2>3 DEF Term
    <3> QED BY <1>1, <2>1, <3>1, <3>2 DEF Brings, Joined
  <2> QED BY <1>1, <2>2, <2>3 DEF Takes, IsConst, Starts
<1>2. CASE fold = "MUL"
  <2>1. b = a * p /\ inst.op = "MUL"
    BY <1>2 DEF Brings, Takes, IsConst, Starts
  <2>2. (a * p) * inst.n = a * (p * inst.n)
    OBVIOUS
  <2> QED BY <1>2, <2>1, <2>2 DEF Brings, Joined, Term, Exact
<1>3. CASE fold = "DIV"
  <2>1. b = Quotient(a, p) /\ p # 0 /\ inst.op = "DIV"
    BY <1>3 DEF Brings, Takes, IsConst, Starts
  <2>2. inst.n # 0
    BY <2>1, CheckedDivides
  <2>3. Quotient(b, inst.n) = Quotient(a, p * inst.n)
    BY <2>1, <2>2, QuotientTwice
  <2>4. p * inst.n # 0
    BY <2>1, <2>2, ProductIsNegative
  <2> QED BY <1>3, <2>1, <2>3, <2>4 DEF Brings, Joined, Term, Exact
<1> QED BY <1>1, <1>2, <1>3 DEF FoldKinds

\* The instructions that a fold takes in are constant operations.
LEMMA TakesAreConst ==
    ASSUME NEW fold \in FoldKinds, NEW inst,
           IsConst(inst, Starts(fold)) \/ \E first : Takes(fold, first, inst)
    PROVE  inst.op \in P1!ConstOps /\ inst.mode = "const"
BY DEF FoldKinds, IsConst, Starts, Takes, P1!ConstOps

\* Where nothing is left of the run, it brings nothing about.
LEMMA BringsNothing ==
    ASSUME NEW fold \in FoldKinds, NEW a \in Int, NEW b \in Int, NEW p,
           Brings(fold, p, a, b), p = IF fold = "ADD" THEN 0 ELSE 1
    PROVE  a = b
BY QuotientByOne DEF Brings, FoldKinds

\* What is left of it gives the same.
LEMMA BringsGives ==
    ASSUME NEW fold \in FoldKinds, NEW a \in Int, NEW b \in Number, NEW p \in Int,
           Brings(fold, p, a, b)
    PROVE  /\ fold = "ADD" => /\ P1!Gives(Inst("ADD", "const", p), a, b)
                              /\ P1!Gives(Inst("SUB", "const", -p), a, b)
           /\ fold = "MUL" => P1!Gives(Inst("MUL", "const", p), a, b)
           /\ fold = "MUL" /\ p = 0 => P1!Gives(Inst("LOAD", "const", 0), a, b)
           /\ fold = "DIV" => P1!Gives(Inst("DIV", "const", p), a, b)
<1>1. ASSUME NEW op \in P1!ConstOps, NEW n, Exact(op, a, n) = b, op = "DIV" => n # 0
      PROVE  P1!Gives(Inst(op, "const", n), a, b)
  <2>1. b \in Checked(op, a, n)
    BY <1>1 DEF Checked, P1!ConstOps
  <2> QED BY <1>1, <2>1, SameSets DEF P1!Gives, Inst
<1>2. fold = "ADD" => Exact("ADD", a, p) = b /\ Exact("SUB", a, -p) = b
  BY DEF Brings, Exact
<1>3. fold = "MUL" => Exact("MUL", a, p) = b
  BY DEF Brings, Exact
<1>4. fold = "DIV" => Exact("DIV", a, p) = b /\ p # 0
  BY DEF Brings, Exact
<1>5. fold = "MUL" /\ p = 0 => P1!Gives(Inst("LOAD", "const", 0), a, b)
  BY DEF Brings, P1!Gives, Inst
<1> QED BY <1>1, <1>2, <1>3, <1>4, <1>5 DEF P1!ConstOps

-----------------------------------------------------------------------------
(***************************************************************************)
(* The runs that fold_consts has folded, before the ir where it is.        *)
(***************************************************************************)

\* q is a run of constant operations that no jump enters: what is left of it does the same.
FoldRun(v, q) ==
    /\ q.first \in Nat /\ q.end \in Nat /\ q.first < q.end /\ q.end <= Len(v.inner)
    /\ \A k \in Nat : P1!Interior(q, k) => k \in v.deleted
    /\ \A k \in JumpTargetsOf(v.inner) : ~P1!Interior(q, k)
    /\ \A k \in Nat : P1!InRun(q, k) =>
           /\ At(v.inner, k).op \in P1!ConstOps /\ At(v.inner, k).mode = "const"
           /\ \A a, b \in Number :
                  /\ <<a, b>> \in q.at[k]
                  /\ Checked(At(v.inner, k).op, b, At(v.inner, k).n) # {}
                  => <<a, Exact(At(v.inner, k).op, b, At(v.inner, k).n)>> \in q.at[k + 1]
    /\ \A a \in Number : <<a, a>> \in q.at[q.first]
    /\ \A a, b \in Number : <<a, b>> \in q.at[q.end] =>
           IF q.first \in v.deleted THEN a = b ELSE P1!Gives(Edited(v, q.first), a, b)

Runs(v, n, Q) ==
    /\ \A q \in Q : FoldRun(v, q) /\ q.end <= n
    /\ \A p, q \in Q : p = q \/ p.end <= q.first \/ q.end <= p.first
    /\ \A i \in v.deleted \cup DOMAIN v.modified : \E q \in Q : P1!InRun(q, i)

HasRuns(v, n) == \E Q : Runs(v, n, Q)

\* The run of the fold that starts at ir0, with f for its partial constants.
RunOf(fold, ir0, end, f) ==
    [first |-> ir0, end |-> end,
     at |-> [k \in Nat |-> { ab \in Number \X Number :
                 IF k = ir0 THEN ab[1] = ab[2] ELSE Brings(fold, f[k - 1], ab[1], ab[2]) }]]

\* Moving on disturbs no run.
LEMMA RunsGoOn ==
    ASSUME NEW v, NEW n \in Nat, NEW m \in Nat, n <= m, HasRuns(v, n)
    PROVE  HasRuns(v, m)
<1>1. PICK Q : Runs(v, n, Q)
  BY DEF HasRuns
<1>2. Runs(v, m, Q)
  <2>1. \A q \in Q : q.end \in Nat
    BY <1>1 DEF Runs, FoldRun
  <2> QED BY <1>1, <2>1 DEF Runs
<1> QED BY <1>2 DEF HasRuns

\* u is v after an edit of the irs from n to before m.
EditsBetween(v, u, n, m) ==
    /\ u.inner = v.inner
    /\ v.deleted \subseteq u.deleted
    /\ u.deleted \subseteq v.deleted \cup n..(m - 1)
    /\ DOMAIN u.modified \subseteq DOMAIN v.modified \cup n..(m - 1)
    /\ \A i \in 0..(n - 1) : Edited(u, i) = Edited(v, i)

\* Such an edit disturbs no run before it.
LEMMA EditsKeepRun ==
    ASSUME NEW v, NEW u, NEW n \in Nat, NEW m \in Nat, EditsBetween(v, u, n, m),
           NEW q, FoldRun(v, q), q.end <= n
    PROVE  FoldRun(u, q)
<1>1. /\ q.first \in Nat /\ q.end \in Nat /\ q.first < q.end /\ q.end <= Len(u.inner)
      /\ \A k \in Nat : P1!Interior(q, k) => k \in u.deleted
      /\ \A k \in JumpTargetsOf(u.inner) : ~P1!Interior(q, k)
  BY DEF FoldRun, EditsBetween
<1>2. \A k \in Nat : P1!InRun(q, k) =>
           /\ At(u.inner, k).op \in P1!ConstOps /\ At(u.inner, k).mode = "const"
           /\ \A a, b \in Number :
                  /\ <<a, b>> \in q.at[k]
                  /\ Checked(At(u.inner, k).op, b, At(u.inner, k).n) # {}
                  => <<a, Exact(At(u.inner, k).op, b, At(u.inner, k).n)>> \in q.at[k + 1]
  BY DEF FoldRun, EditsBetween
<1>3. \A a \in Number : <<a, a>> \in q.at[q.first]
  BY DEF FoldRun
<1>4. /\ Edited(u, q.first) = Edited(v, q.first)
      /\ q.first \in u.deleted <=> q.first \in v.deleted
  <2>1. q.first \in 0..(n - 1) /\ q.first \notin n..(m - 1)
    BY <1>1
  <2> QED BY <2>1 DEF EditsBetween
<1>5. \A a, b \in Number : <<a, b>> \in q.at[q.end] =>
           IF q.first \in u.deleted THEN a = b ELSE P1!Gives(Edited(u, q.first), a, b)
  BY <1>4 DEF FoldRun
<1> QED BY <1>1, <1>2, <1>3, <1>5 DEF FoldRun

\* A run is added behind the others.
LEMMA RunsGrow ==
    ASSUME NEW v, NEW u, NEW n \in Nat, NEW m \in Nat, EditsBetween(v, u, n, m), HasRuns(v, n),
           NEW q, FoldRun(u, q), q.first = n, q.end = m
    PROVE  HasRuns(u, m)
<1>1. PICK Q : Runs(v, n, Q)
  BY DEF HasRuns
<1>2. n < m
  BY DEF FoldRun
<1>3. ASSUME NEW p \in Q
      PROVE  FoldRun(u, p) /\ p.end <= n /\ p.first < n /\ p.end \in Nat /\ p.first \in Nat
  <2>1. FoldRun(v, p) /\ p.end <= n
    BY <1>1 DEF Runs
  <2>2. p.first < p.end /\ p.end \in Nat /\ p.first \in Nat
    BY <2>1 DEF FoldRun
  <2>3. FoldRun(u, p)
    BY <2>1, EditsKeepRun
  <2> QED BY <2>1, <2>2, <2>3
<1>4. \A p \in Q \cup {q} : FoldRun(u, p) /\ p.end <= m
  BY <1>2, <1>3
<1>5. \A p, r \in Q \cup {q} : p = r \/ p.end <= r.first \/ r.end <= p.first
  BY <1>1, <1>3 DEF Runs
<1>6. ASSUME NEW i \in u.deleted \cup DOMAIN u.modified
      PROVE  \E p \in Q \cup {q} : P1!InRun(p, i)
  <2>1. i \in v.deleted \cup DOMAIN v.modified \/ i \in n..(m - 1)
    BY DEF EditsBetween
  <2>2. CASE i \in v.deleted \cup DOMAIN v.modified
    BY <1>1, <2>2 DEF Runs
  <2>3. CASE i \in n..(m - 1)
    BY <2>3 DEF P1!InRun
  <2> QED BY <2>1, <2>2, <2>3
<1>7. Runs(u, m, Q \cup {q})
  BY <1>4, <1>5, <1>6 DEF Runs
<1> QED BY <1>7 DEF HasRuns

\* What a fold takes in is a run, if what it leaves does the same.
LEMMA RunOfIsRun ==
    ASSUME NEW v, WellFormed(v), v.inner \in Seq(WideInstruction), NEW ir0 \in Irs(v.inner),
           NEW fold \in FoldKinds, IsConst(At(v.inner, ir0), Starts(fold)),
           NEW end, end = RunEnd(v, ir0, fold),
           NEW f \in [ir0..(end - 1) -> Int], PartialRecursion(f, v, ir0, end, fold),
           NEW u, u.inner = v.inner, (ir0 + 1)..(end - 1) \subseteq u.deleted,
           ir0 \in u.deleted => f[end - 1] = IF fold = "ADD" THEN 0 ELSE 1,
           ir0 \notin u.deleted => \A a, b \in Number :
               Brings(fold, f[end - 1], a, b) => P1!Gives(Edited(u, ir0), a, b)
    PROVE  FoldRun(u, RunOf(fold, ir0, end, f))
<1> DEFINE q == RunOf(fold, ir0, end, f)
           inst(k) == At(v.inner, k)
<1>0. Len(v.inner) \in Nat /\ ir0 \in Nat /\ Number \subseteq Int
  BY WidthAssumption DEF Irs, Number, MinInt
<1>1. /\ end \in (ir0 + 1)..Len(v.inner)
      /\ \A k \in (ir0 + 1)..(end - 1) : Takes(fold, inst(ir0), inst(k)) /\ CanCombine(v, ir0, k)
  BY <1>0, RunEndIsRight
<1>2. q.first = ir0 /\ q.end = end
  BY DEF RunOf
<1>3. \A k \in Nat : \A a, b \in Number : <<a, b>> \in q.at[k] <=>
          IF k = ir0 THEN a = b ELSE Brings(fold, f[k - 1], a, b)
  BY DEF RunOf
<1>4. \A k \in Nat : P1!Interior(q, k) <=> k \in (ir0 + 1)..(end - 1)
  BY <1>0, <1>1, <1>2 DEF P1!Interior
<1>5. \A k \in Nat : P1!InRun(q, k) <=> k \in ir0..(end - 1)
  BY <1>0, <1>1, <1>2 DEF P1!InRun
<1> HIDE DEF q
<1>6. \A k \in JumpTargetsOf(v.inner) : ~P1!Interior(q, k)
  <2> TAKE k \in JumpTargetsOf(v.inner)
  <2>1. k \in Nat
    BY DEF WellFormed, IsProgram
  <2>2. ASSUME k \in (ir0 + 1)..(end - 1)
        PROVE  FALSE
    <3>1. CanCombine(v, ir0, k)
      BY <1>1, <2>2
    <3>2. k \in 1..Len(v.inner) /\ ir0 < k
      BY <1>0, <1>1, <2>2
    <3>3. k \in JumpTargetsOf(v.inner) \cap (ir0 + 1)..k
      BY <1>0, <2>2
    <3> QED BY <3>1, <3>2, <3>3, CombinesRight
  <2> QED BY <1>4, <2>1, <2>2
<1>7. ASSUME NEW k \in ir0..(end - 1)
      PROVE  /\ k \in Nat /\ k \in Irs(v.inner) /\ inst(k).n \in Int
             /\ inst(k).op \in P1!ConstOps /\ inst(k).mode = "const"
  <2>1. k \in Nat /\ k \in Irs(v.inner)
    BY <1>0, <1>1 DEF Irs
  <2>2. inst(k).n \in Int
    BY <2>1, WideAt, WideHolds
  <2>3. k = ir0 \/ k \in (ir0 + 1)..(end - 1)
    BY <1>0, <1>1
  <2>4. IsConst(inst(k), Starts(fold)) \/ Takes(fold, inst(ir0), inst(k))
    BY <1>1, <2>3
  <2> QED BY <2>1, <2>2, <2>4, TakesAreConst
<1>8. ASSUME NEW k \in ir0..(end - 1), NEW a \in Number, NEW b \in Number, <<a, b>> \in q.at[k],
             Checked(inst(k).op, b, inst(k).n) # {}
      PROVE  <<a, Exact(inst(k).op, b, inst(k).n)>> \in q.at[k + 1]
  <2> DEFINE c == Exact(inst(k).op, b, inst(k).n)
  <2>1. k \in Nat /\ k + 1 \in Nat /\ k + 1 # ir0 /\ (k + 1) - 1 = k /\ a \in Int /\ b \in Int
        /\ inst(k).n \in Int
    BY <1>0, <1>7
  <2>2. c \in Number
    BY <1>8 DEF Checked
  <2>3. Brings(fold, f[k], a, c)
    <3>1. CASE k = ir0
      <4>1. a = b
        BY <1>3, <1>8, <2>1, <3>1
      <4>2. f[k] = Term(fold, inst(k))
        BY <3>1 DEF PartialRecursion
      <4> QED BY <1>8, <2>1, <3>1, <4>1, <4>2, BringsFirst
    <3>2. CASE k # ir0
      <4>1. k \in (ir0 + 1)..(end - 1) /\ k - 1 \in ir0..(end - 1)
        BY <1>0, <1>1, <3>2
      <4>2. Brings(fold, f[k - 1], a, b) /\ f[k - 1] \in Int
        BY <1>3, <1>8, <2>1, <3>2, <4>1
      <4>3. f[k] = Joined(fold, f[k - 1], Term(fold, inst(k)))
        BY <3>2 DEF PartialRecursion
      <4>4. Takes(fold, inst(ir0), inst(k))
        BY <1>1, <4>1
      <4> QED BY <1>8, <2>1, <4>2, <4>3, <4>4, BringsNext
    <3> QED BY <3>1, <3>2
  <2> HIDE DEF c
  <2>4. <<a, c>> \in q.at[k + 1]
    BY <1>3, <2>1, <2>2, <2>3
  <2> QED BY <2>4 DEF c
<1>9. ASSUME NEW a \in Number, NEW b \in Number, <<a, b>> \in q.at[end]
      PROVE  IF ir0 \in u.deleted THEN a = b ELSE P1!Gives(Edited(u, ir0), a, b)
  <2>1. end \in Nat /\ end # ir0 /\ end - 1 \in ir0..(end - 1) /\ a \in Int /\ b \in Int
    BY <1>0, <1>1
  <2>2. Brings(fold, f[end - 1], a, b)
    BY <1>3, <1>9, <2>1
  <2>3. ir0 \in u.deleted => a = b
    BY <2>1, <2>2, BringsNothing
  <2> QED BY <2>2, <2>3
<1>10. /\ q.first \in Nat /\ q.end \in Nat /\ q.first < q.end /\ q.end <= Len(u.inner)
       /\ \A k \in Nat : P1!Interior(q, k) => k \in u.deleted
       /\ \A k \in JumpTargetsOf(u.inner) : ~P1!Interior(q, k)
       /\ \A a \in Number : <<a, a>> \in q.at[q.first]
       /\ \A a, b \in Number : <<a, b>> \in q.at[q.end] =>
              IF q.first \in u.deleted THEN a = b ELSE P1!Gives(Edited(u, q.first), a, b)
  <2>1. \A a \in Number : <<a, a>> \in q.at[q.first]
    BY <1>0, <1>2, <1>3
  <2> QED BY <1>0, <1>1, <1>2, <1>4, <1>6, <1>9, <2>1
<1>11. \A k \in Nat : P1!InRun(q, k) =>
           /\ At(u.inner, k).op \in P1!ConstOps /\ At(u.inner, k).mode = "const"
           /\ \A a, b \in Number :
                  /\ <<a, b>> \in q.at[k]
                  /\ Checked(At(u.inner, k).op, b, At(u.inner, k).n) # {}
                  => <<a, Exact(At(u.inner, k).op, b, At(u.inner, k).n)>> \in q.at[k + 1]
  BY <1>5, <1>7, <1>8
<1>12. FoldRun(u, q)
  BY <1>10, <1>11 DEF FoldRun
<1> QED BY <1>12 DEF q

\* What deleting the rest of a run, and editing its first instruction, comes to.
LEMMA MergedEdits ==
    ASSUME NEW v, NEW ir0 \in Irs(v.inner), Folding(v, ir0), NEW end \in (ir0 + 1)..Len(v.inner)
    PROVE  /\ LET u == DeleteIr(Merged(v, ir0, end), ir0)
              IN  /\ EditsBetween(v, u, ir0, end) /\ (ir0 + 1)..(end - 1) \subseteq u.deleted
                  /\ ir0 \in u.deleted
           /\ \A inst : LET u == SetIr(Merged(v, ir0, end), ir0, inst)
              IN  /\ EditsBetween(v, u, ir0, end) /\ (ir0 + 1)..(end - 1) \subseteq u.deleted
                  /\ ir0 \notin u.deleted /\ Edited(u, ir0) = inst
<1>1. ir0 \in Nat /\ end \in Nat /\ ir0 + 1 <= end /\ end <= Len(v.inner) /\ Len(v.inner) \in Nat
  BY WideIsProgram DEF Irs, Folding
<1>2. \A k \in (ir0 + 1)..(end - 1) : k \notin v.deleted \cup DOMAIN v.modified
  BY <1>1 DEF Folding
<1>3. PICK m : m = Merged(v, ir0, end)
  OBVIOUS
<1>4. /\ WellFormed(m) /\ m.inner = v.inner /\ m.modified = v.modified
      /\ m.deleted = v.deleted \cup (ir0 + 1)..(end - 1)
  <2>1. WellFormed(v) /\ ir0 + 1 \in Nat
    BY <1>1 DEF Folding
  <2>2. m = DeleteRun(v, ir0 + 1, end)
    BY <1>3 DEF Merged
  <2> QED BY <1>1, <1>2, <2>1, <2>2, RunKeepsWellFormed
<1>5. v.deleted \cup DOMAIN v.modified \subseteq 0..(ir0 - 1)
  BY DEF Folding
<1>6. ir0 \in ir0..(end - 1) /\ (ir0 + 1)..(end - 1) \subseteq ir0..(end - 1)
  BY <1>1
<1>7. /\ DeleteIr(m, ir0).inner = v.inner
      /\ DeleteIr(m, ir0).modified = v.modified
      /\ DeleteIr(m, ir0).deleted = v.deleted \cup (ir0 + 1)..(end - 1) \cup {ir0}
  BY <1>4 DEF DeleteIr, WellFormed
<1>8. /\ EditsBetween(v, DeleteIr(m, ir0), ir0, end)
      /\ (ir0 + 1)..(end - 1) \subseteq DeleteIr(m, ir0).deleted
      /\ ir0 \in DeleteIr(m, ir0).deleted
  <2>1. \A i : Edited(DeleteIr(m, ir0), i) = Edited(v, i)
    BY <1>7 DEF Edited
  <2> QED BY <1>6, <1>7, <2>1 DEF EditsBetween
<1>9. ASSUME NEW inst, NEW u, u = SetIr(m, ir0, inst)
      PROVE  /\ EditsBetween(v, u, ir0, end) /\ (ir0 + 1)..(end - 1) \subseteq u.deleted
             /\ ir0 \notin u.deleted /\ Edited(u, ir0) = inst
  <2>1. /\ u.inner = v.inner /\ u.deleted = m.deleted
        /\ u.modified = [i \in DOMAIN v.modified \cup {ir0} |->
                             IF i = ir0 THEN inst ELSE v.modified[i]]
    BY <1>4, <1>9 DEF SetIr, WellFormed
  <2>2. Edited(u, ir0) = inst
    BY <2>1 DEF Edited
  <2>3. \A i \in 0..(ir0 - 1) : Edited(u, i) = Edited(v, i)
    BY <1>1, <2>1 DEF Edited
  <2>4. ir0 \notin u.deleted
    BY <1>1, <1>4, <1>5, <2>1
  <2> QED BY <1>4, <1>6, <2>1, <2>2, <2>3, <2>4 DEF EditsBetween
<1> QED BY <1>3, <1>8, <1>9

\* A fold that neither panics nor overflows leaves a run.
LEMMA FoldLeavesRun ==
    ASSUME NEW v, NEW ir0 \in Irs(v.inner), Folding(v, ir0), HasRuns(v, ir0),
           NEW fold \in FoldKinds, IsConst(At(v.inner, ir0), Starts(fold)),
           NEW end, end = RunEnd(v, ir0, fold),
           NEW p, p = Partials(v, ir0, end, fold)[end - 1],
           NEW u, \/ fold = "ADD" /\ u = FoldAdds(v, ir0, end, p)
                  \/ fold = "MUL" /\ u = FoldMuls(v, ir0, end, p)
                  \/ fold = "DIV" /\ u = FoldDivs(v, ir0, end, p)
    PROVE  HasRuns(u, end)
<1>1. ir0 \in Nat /\ Len(v.inner) \in Nat /\ WellFormed(v) /\ v.inner \in Seq(WideInstruction)
  BY WideIsProgram DEF Irs, Folding
<1>2. end \in (ir0 + 1)..Len(v.inner) /\ end \in Nat /\ ir0 <= end
  <2>1. end \in (ir0 + 1)..Len(v.inner)
    BY <1>1, RunEndIsRight
  <2> QED BY <1>1, <2>1
<1>3. PICK f \in [ir0..(end - 1) -> Int] :
          PartialRecursion(f, v, ir0, end, fold) /\ Partials(v, ir0, end, fold) = f
  BY <1>1, <1>2, PartialsAreDefined
<1>4. p = f[end - 1] /\ p \in Int
  BY <1>1, <1>2, <1>3
<1> DEFINE q == RunOf(fold, ir0, end, f)
           gone == DeleteIr(Merged(v, ir0, end), ir0)
           stands(inst) == SetIr(Merged(v, ir0, end), ir0, inst)
<1>5. q.first = ir0 /\ q.end = end
  BY DEF RunOf
<1>a. /\ EditsBetween(v, gone, ir0, end) /\ (ir0 + 1)..(end - 1) \subseteq gone.deleted
      /\ ir0 \in gone.deleted
  BY <1>2, MergedEdits
<1>b. \A inst : /\ EditsBetween(v, stands(inst), ir0, end)
                /\ (ir0 + 1)..(end - 1) \subseteq stands(inst).deleted
                /\ ir0 \notin stands(inst).deleted /\ Edited(stands(inst), ir0) = inst
  BY <1>2, MergedEdits
<1> HIDE DEF q, gone, stands
<1>6. ASSUME u = gone, p = IF fold = "ADD" THEN 0 ELSE 1
      PROVE  HasRuns(u, end)
  <2>1. /\ EditsBetween(v, u, ir0, end) /\ (ir0 + 1)..(end - 1) \subseteq u.deleted
        /\ ir0 \in u.deleted
    BY <1>6, <1>a
  <2>2. u.inner = v.inner
    BY <2>1 DEF EditsBetween
  <2>3. FoldRun(u, q)
    BY <1>1, <1>3, <1>4, <1>6, <2>1, <2>2, RunOfIsRun DEF q
  <2> QED BY <1>1, <1>2, <1>5, <2>1, <2>3, RunsGrow
<1>7. ASSUME NEW inst, u = stands(inst),
             \A a, b \in Number : Brings(fold, p, a, b) => P1!Gives(inst, a, b)
      PROVE  HasRuns(u, end)
  <2>1. /\ EditsBetween(v, u, ir0, end) /\ (ir0 + 1)..(end - 1) \subseteq u.deleted
        /\ ir0 \notin u.deleted /\ Edited(u, ir0) = inst
    BY <1>7, <1>b
  <2>2. u.inner = v.inner
    BY <2>1 DEF EditsBetween
  <2>3. FoldRun(u, RunOf(fold, ir0, end, f))
    <3>1. \A a, b \in Number : Brings(fold, f[end - 1], a, b) => P1!Gives(Edited(u, ir0), a, b)
      BY <1>4, <1>7, <2>1
    <3> QED BY <1>1, <1>3, <2>1, <2>2, <3>1, RunOfIsRun
  <2>4. FoldRun(u, q)
    BY <2>3 DEF q
  <2> QED BY <1>1, <1>2, <1>5, <2>1, <2>4, RunsGrow
<1>8. u = v => HasRuns(u, end)
  BY <1>1, <1>2, RunsGoOn
<1>9. \A a, b \in Number : a \in Int /\ b \in Int
  BY WidthAssumption DEF Number, MinInt
<1>10. CASE fold = "ADD"
  <2>1. u = FoldAdds(v, ir0, end, p)
    BY <1>10
  <2>2. \/ u = gone /\ p = 0
        \/ u = v
        \/ u = stands(Inst("ADD", "const", p))
        \/ u = stands(Inst("SUB", "const", -p))
    BY <2>1 DEF FoldAdds, gone, stands
  <2>3. \A a, b \in Number : Brings(fold, p, a, b) =>
            /\ P1!Gives(Inst("ADD", "const", p), a, b)
            /\ P1!Gives(Inst("SUB", "const", -p), a, b)
    BY <1>4, <1>9, <1>10, BringsGives
  <2> QED BY <1>6, <1>7, <1>8, <1>10, <2>2, <2>3
<1>11. CASE fold = "MUL"
  <2>1. u = FoldMuls(v, ir0, end, p)
    BY <1>11
  <2>2. \/ u = gone /\ p = 1
        \/ u = v
        \/ u = stands(Inst("LOAD", "const", 0)) /\ p = 0
        \/ u = stands(Inst("MUL", "const", p))
    BY <2>1 DEF FoldMuls, gone, stands
  <2>3. \A a, b \in Number : Brings(fold, p, a, b) =>
            /\ P1!Gives(Inst("MUL", "const", p), a, b)
            /\ p = 0 => P1!Gives(Inst("LOAD", "const", 0), a, b)
    BY <1>4, <1>9, <1>11, BringsGives
  <2> QED BY <1>6, <1>7, <1>8, <1>11, <2>2, <2>3
<1>12. CASE fold = "DIV"
  <2>1. u = FoldDivs(v, ir0, end, p)
    BY <1>12
  <2>2. \/ u = gone /\ p = 1
        \/ u = v
        \/ u = stands(Inst("DIV", "const", p))
    BY <2>1 DEF FoldDivs, gone, stands
  <2>3. \A a, b \in Number : Brings(fold, p, a, b) => P1!Gives(Inst("DIV", "const", p), a, b)
    BY <1>4, <1>9, <1>12, BringsGives
  <2> QED BY <1>6, <1>7, <1>8, <1>12, <2>2, <2>3
<1> QED BY <1>10, <1>11, <1>12 DEF FoldKinds

\* One fold, where overflows panic, goes on with the runs that it has.
LEMMA FoldedHasRuns ==
    ASSUME OverflowChecks, NEW from, NEW fold \in FoldKinds, NEW code \in Seq(WideInstruction),
           from.ok => Searching(from, code) /\ HasRuns(from.w, from.ir),
           Folded(from, fold).ok
    PROVE  HasRuns(Folded(from, fold).w, Folded(from, fold).ir)
<1> DEFINE v == from.w
           ir0 == from.ir
           end == RunEnd(v, ir0, fold)
           partial == Partials(v, ir0, end, fold)
           folded == Wrap(partial[end - 1])
           left == CASE fold = "ADD" -> FoldAdds(v, ir0, end, folded)
                     [] fold = "MUL" -> FoldMuls(v, ir0, end, folded)
                     [] fold = "DIV" -> FoldDivs(v, ir0, end, folded)
<1>1. from.ok
  BY FoldedKeepsSearching
<1>2. CASE ~(Exists(v.inner, ir0) /\ IsConst(At(v.inner, ir0), Starts(fold)))
  <2>1. Folded(from, fold) = from
    BY <1>2 DEF Folded
  <2> QED BY <1>1, <2>1
<1>3. CASE Exists(v.inner, ir0) /\ IsConst(At(v.inner, ir0), Starts(fold))
  <2>1. Folded(from, fold) = [w |-> left, ir |-> end,
                              ok |-> /\ from.ok
                                     /\ ~Overflows(partial)
                                     /\ fold = "ADD" => ~Negates(v, ir0, end, folded)]
    BY <1>3 DEF Folded
  <2>2. ~Overflows(partial)
    BY <2>1
  <2>3. /\ v.inner = code /\ Folding(v, ir0) /\ ir0 \in Irs(code) /\ Len(code) \in Nat /\ ir0 \in Nat
        /\ HasRuns(v, ir0)
    BY <1>1, <1>3, WideIsProgram DEF Searching, Exists, Irs
  <2>4. end \in (ir0 + 1)..Len(code)
    BY <2>3, RunEndIsRight
  <2>5. PICK f \in [ir0..(end - 1) -> Int] : partial = f
    BY <2>3, <2>4, PartialsAreDefined
  <2>6. partial[end - 1] \in Wide
    <3>1. end - 1 \in DOMAIN partial
      BY <2>3, <2>4, <2>5
    <3> QED BY <2>2, <3>1 DEF Overflows
  <2>7. folded = partial[end - 1]
    <3> HIDE DEF partial
    <3> QED BY <2>6, WrapKeepsWide
  <2>8. \/ fold = "ADD" /\ left = FoldAdds(v, ir0, end, folded)
        \/ fold = "MUL" /\ left = FoldMuls(v, ir0, end, folded)
        \/ fold = "DIV" /\ left = FoldDivs(v, ir0, end, folded)
    <3> HIDE DEF folded, partial, end
    <3> QED BY DEF FoldKinds
  <2>9. HasRuns(left, end)
    <3>1. \A u, p : /\ p = partial[end - 1]
                    /\ \/ fold = "ADD" /\ u = FoldAdds(v, ir0, end, p)
                       \/ fold = "MUL" /\ u = FoldMuls(v, ir0, end, p)
                       \/ fold = "DIV" /\ u = FoldDivs(v, ir0, end, p)
                    => HasRuns(u, end)
      BY <1>3, <2>3, FoldLeavesRun
    <3> HIDE DEF left, folded, partial, end
    <3> QED BY <2>7, <2>8, <3>1
  <2> HIDE DEF left, end
  <2>10. Folded(from, fold).w = left /\ Folded(from, fold).ir = end
    BY <2>1
  <2> QED BY <2>9, <2>10
<1> QED BY <1>2, <1>3

\* So does an iteration of fold_consts, of three of them.
LEMMA FoldConstsHasRuns ==
    ASSUME OverflowChecks, NEW v, NEW n, Folding(v, n), n \in 0..(Len(v.inner) - 1), HasRuns(v, n),
           NEW adds, adds = Folded([w |-> v, ir |-> n, ok |-> TRUE], "ADD"),
           NEW muls, muls = Folded(adds, "MUL"),
           NEW divs, divs = Folded(muls, "DIV"), divs.ok
    PROVE  HasRuns(divs.w, Continue(n, divs.ir))
<1> DEFINE code == v.inner
           from == [w |-> v, ir |-> n, ok |-> TRUE]
<1>1. code \in Seq(WideInstruction) /\ Len(code) \in Nat /\ n \in Nat
  BY WideIsProgram DEF Folding
<1>2. Searching(from, code) /\ HasRuns(from.w, from.ir)
  BY <1>1 DEF Searching
<1> HIDE DEF from
<1>3. adds.ok => Searching(adds, code) /\ HasRuns(adds.w, adds.ir)
  BY <1>1, <1>2, FoldedKeepsSearching, FoldedHasRuns DEF FoldKinds, from
<1>4. muls.ok => Searching(muls, code) /\ HasRuns(muls.w, muls.ir)
  BY <1>1, <1>3, FoldedKeepsSearching, FoldedHasRuns DEF FoldKinds
<1>5. Searching(divs, code) /\ HasRuns(divs.w, divs.ir)
  BY <1>1, <1>4, FoldedKeepsSearching, FoldedHasRuns DEF FoldKinds
<1>6. divs.ir \in Nat
  BY <1>1, <1>5 DEF Searching
<1>7. divs.ir = n => HasRuns(divs.w, n + 1)
  BY <1>1, <1>5, RunsGoOn
<1> QED BY <1>5, <1>7 DEF Continue

-----------------------------------------------------------------------------
(***************************************************************************)
(* The code that a WoCode makes does what the code that it was made for    *)
(* does.                                                                   *)
(***************************************************************************)
MovedTo(v) == [i \in Nat |-> MovedBy(v.deleted, i)]

\* What a WoCode that the passes rewrite is known to be.
LEMMA RewritesIs ==
    ASSUME NEW v, Rewrites(v)
    PROVE  /\ WellFormed(v) /\ Len(v.inner) \in Nat /\ IsProgram(v.inner)
           /\ v.inner \in Seq(WideInstruction) /\ v.deleted \subseteq Irs(v.inner)
BY WideIsProgram DEF Rewrites, WellFormed

\* The deletions say where the instructions go.
LEMMA EmittedIsMoved ==
    ASSUME NEW v, Rewrites(v)
    PROVE  P1!Moves(v.inner, Emitted(v), v.deleted, MovedTo(v))
<1> DEFINE moved == MovedTo(v)
           n == Len(v.inner)
<1>1. WellFormed(v) /\ n \in Nat /\ v.deleted \in SUBSET (0..(n - 1))
  BY RewritesIs DEF Irs
<1>2. \A i \in Nat : moved[i] = MovedBy(v.deleted, i) /\ moved[i] \in Nat
  BY <1>1, MovedByNext DEF MovedTo
<1>3. moved \in [Nat -> Nat]
  BY <1>2 DEF MovedTo
<1>4. moved[0] = 0
  BY <1>1, <1>2, MovedByNext
<1>5. ASSUME NEW i \in Nat
      PROVE  moved[i + 1] = IF i \in v.deleted THEN moved[i] ELSE moved[i] + 1
  <2>1. MovedBy(v.deleted, i + 1) = IF i \in v.deleted THEN MovedBy(v.deleted, i)
                                    ELSE MovedBy(v.deleted, i) + 1
    BY <1>1, MovedByNext
  <2>2. i + 1 \in Nat
    OBVIOUS
  <2> HIDE DEF moved
  <2> QED BY <1>2, <2>1, <2>2
<1>6. \A i \in Nat : P1!Exists(v.inner, i) /\ i \notin v.deleted => moved[i] < Len(Emitted(v))
  <2>1. ASSUME NEW i \in Nat, Exists(v.inner, i), i \notin v.deleted
        PROVE  moved[i] < Len(Emitted(v))
    <3>1. i \in Irs(v.inner) \ v.deleted
      BY <1>1, <2>1 DEF Exists, Irs
    <3>2. MovedBy(v.deleted, i) \in Irs(Emitted(v))
      BY <1>1, <3>1, EmittedIsRight
    <3>3. Len(Emitted(v)) \in Nat
      BY <1>1, EmittedIsRight
    <3> QED BY <1>2, <3>2, <3>3 DEF Irs
  <2> QED BY <2>1, SameSets
<1>7. ASSUME NEW i \in Nat, i >= n
      PROVE  moved[i] >= Len(Emitted(v))
  <2>1. Len(Emitted(v)) = MovedBy(v.deleted, n)
    BY <1>1, EmittedIsRight
  <2>2. { k \in v.deleted : k < i } = { k \in v.deleted : k < n }
    BY <1>1, <1>7
  <2>3. DeletedBefore(v.deleted, i) = DeletedBefore(v.deleted, n)
    BY <2>2 DEF DeletedBefore
  <2>4. DeletedBefore(v.deleted, n) \in 0..n
    BY <1>1, CountsDeleted
  <2> QED BY <1>1, <1>2, <1>7, <2>1, <2>3, <2>4 DEF MovedBy
<1> QED BY <1>3, <1>4, <1>5, <1>6, <1>7 DEF P1!Moves

\* An instruction that is neither deleted nor modified stays as it is, but that its jump
\* leads to where the target went.
LEMMA UneditedStays ==
    ASSUME NEW v, Rewrites(v), NEW i \in Irs(v.inner), i \notin v.deleted \cup DOMAIN v.modified
    PROVE  LET j == At(Emitted(v), MovedTo(v)[i])
           IN  /\ P1!SameButTarget(At(v.inner, i), j)
               /\ At(v.inner, i).op \in JumpOps => j.n = MovedTo(v)[At(v.inner, i).n]
<1> DEFINE inst == At(v.inner, i)
<1>1. WellFormed(v) /\ i \in Nat /\ MovedTo(v)[i] = MovedBy(v.deleted, i)
  BY RewritesIs DEF Irs, MovedTo
<1>2. At(Emitted(v), MovedBy(v.deleted, i)) = MapAdr(inst, NewAdr(v, inst.n))
  BY <1>1, EmittedIsRight DEF Edited
<1>3. inst \in WideInstruction
  BY WideAt, RewritesIs
<1>4. CASE inst.op \in JumpOps
  <2>1. inst.n \in JumpTargetsOf(v.inner)
    BY <1>4 DEF JumpTargetsOf, JumpTargets
  <2>2. NewAdr(v, inst.n) = MovedBy(v.deleted, inst.n) /\ inst.n \in Nat
    BY <1>1, <2>1, TargetsAreMoved
  <2>3. inst \in Instruction
    BY <1>3, <1>4 DEF WideInstruction, JumpOps, ConditionalJumps, BinaryOps
  <2>4. inst = [op |-> inst.op, mode |-> inst.mode, n |-> inst.n]
    BY <2>3 DEF Instruction, Value, Register, Address
  <2>5. /\ MapAdr(inst, NewAdr(v, inst.n)).op = inst.op
        /\ MapAdr(inst, NewAdr(v, inst.n)).n = NewAdr(v, inst.n)
    <3> HIDE DEF inst
    <3> QED BY <1>4, <2>4 DEF MapAdr
  <2> QED BY <1>1, <1>2, <1>4, <2>2, <2>5, SameSets DEF MovedTo, P1!SameButTarget
<1>5. CASE inst.op \notin JumpOps
  BY <1>1, <1>2, <1>5 DEF MapAdr, P1!SameButTarget
<1> QED BY <1>4, <1>5

\* With runs in which nothing is deleted but what amounts to nothing.
LEMMA EmittedEdits ==
    ASSUME NEW v, Rewrites(v), NEW L \in SUBSET Nat, NEW Q, P1!Stays(v.inner, L, Q),
           \A q \in Q : P1!IsRun(v.inner, Emitted(v), v.deleted, MovedTo(v), q),
           \A p, q \in Q : p = q \/ p.end <= q.first \/ q.end <= p.first,
           \A i \in L : Exists(v.inner, i) =>
               \/ \E q \in Q : P1!InRun(q, i)
               \/ i \in v.deleted /\ At(v.inner, i).op = "NOP"
               \/ i \notin v.deleted \cup DOMAIN v.modified
    PROVE  P1!Edits(v.inner, Emitted(v), v.deleted, MovedTo(v), L, Q)
<1>1. P1!Moves(v.inner, Emitted(v), v.deleted, MovedTo(v))
  BY EmittedIsMoved
<1>2. ASSUME NEW i \in L, P1!Exists(v.inner, i)
      PROVE  P1!Handled(v.inner, Emitted(v), v.deleted, MovedTo(v), Q, i)
  <2>0. i \in Nat /\ Exists(v.inner, i)
    BY <1>2, SameSets
  <2>1. Exists(v.inner, i) /\ i \in Irs(v.inner)
    BY <2>0, RewritesIs DEF Exists, Irs
  <2>2. CASE i \notin v.deleted \cup DOMAIN v.modified
    BY <2>1, <2>2, UneditedStays, SameSets DEF P1!Handled
  <2>3. CASE (\E q \in Q : P1!InRun(q, i)) \/ (i \in v.deleted /\ At(v.inner, i).op = "NOP")
    BY <2>3, SameSets DEF P1!Handled
  <2> QED BY <2>1, <2>2, <2>3
<1> QED BY <1>1, <1>2 DEF P1!Edits

\* What the theory of executions says of it.
LEMMA EmittedPreserves ==
    ASSUME NEW v, NEW code, NEW L, NEW Q, code # << >>,
           v.inner \in Seq(Instruction), code \in Seq(Instruction),
           P1!Edits(v.inner, code, v.deleted, MovedTo(v), L, Q)
    PROVE  P1!Preserves(v.inner, code)
BY P1!EditsPreserve, SameSets, SameAssumptions

\* Instructions of a program, and where its jumps lead.
LEMMA ProgramAt ==
    ASSUME NEW code \in Seq(Instruction), NEW i \in Nat, Exists(code, i)
    PROVE  /\ i \in Irs(code) /\ At(code, i) \in Instruction
           /\ At(code, i).op \in JumpOps => /\ At(code, i).n \in Nat
                                            /\ At(code, i).n \in JumpTargetsOf(code)
<1>1. i \in Irs(code) /\ At(code, i) \in Instruction
  BY DEF Exists, Irs, At
<1>2. At(code, i).op \in JumpOps => At(code, i).n \in JumpTargets(At(code, i))
  BY DEF JumpTargets
<1>3. JumpTargets(At(code, i)) \subseteq Nat
  BY <1>1, InstructionJumps
<1> QED BY <1>1, <1>2, <1>3 DEF JumpTargetsOf

\* Every ir, where no jump leads into a run.
LEMMA EverythingStays ==
    ASSUME NEW code \in Seq(Instruction), NEW Q,
           \A q \in Q : \A a \in JumpTargetsOf(code) : ~P1!Interior(q, a)
    PROVE  P1!Stays(code, Nat, Q)
<1>1. ASSUME NEW i \in Nat, Exists(code, i), At(code, i).op \in JumpOps
      PROVE  At(code, i).n \in Nat /\ \A q \in Q : ~P1!Interior(q, At(code, i).n)
  BY <1>1, ProgramAt
<1> QED BY <1>1, SameSets DEF P1!Stays

\* remove_nops.
LEMMA NopsPreserve ==
    ASSUME NEW v, Rewrites(v), v.inner \in Seq(Instruction), Emitted(v) \in Seq(Instruction),
           Emitted(v) # << >>, DOMAIN v.modified = {}, \A i \in v.deleted : At(v.inner, i).op = "NOP"
    PROVE  P1!Preserves(v.inner, Emitted(v))
<1>1. P1!Stays(v.inner, Nat, {})
  BY EverythingStays
<1>2. P1!Edits(v.inner, Emitted(v), v.deleted, MovedTo(v), Nat, {})
  BY <1>1, EmittedEdits
<1> QED BY <1>2, EmittedPreserves

\* remove_unreachable_code.
LEMMA UnreachablePreserve ==
    ASSUME NEW v, Rewrites(v), v.inner \in Seq(Instruction), Emitted(v) \in Seq(Instruction),
           DOMAIN v.modified = {}, Reachable(v.inner) \subseteq Irs(v.inner),
           v.deleted = Irs(v.inner) \ Reachable(v.inner)
    PROVE  Emitted(v) # << >> /\ P1!Preserves(v.inner, Emitted(v))
<1> DEFINE L == Reachable(v.inner)
<1>1. /\ 0 \in L /\ \A i \in L : Successors(v.inner, i) \subseteq L
      /\ L \in SUBSET Nat
  BY ReachableIsClosed, RewritesIs DEF Irs
<1> HIDE DEF L
<1>2. Emitted(v) # << >>
  <2>1. 0 \in Irs(v.inner) \ v.deleted
    BY <1>1 DEF L
  <2>2. MovedBy(v.deleted, 0) \in Irs(Emitted(v))
    BY <2>1, EmittedIsRight, RewritesIs
  <2> QED BY <2>2 DEF Irs
<1>3. P1!Stays(v.inner, L, {})
  <2>1. ASSUME NEW i \in L, Exists(v.inner, i), At(v.inner, i).op \notin {"STOP", "JUMP"},
               Exists(v.inner, i + 1)
        PROVE  i + 1 \in L
    <3>1. i + 1 \in Irs(v.inner)
      BY <1>1, <2>1, RewritesIs DEF Exists, Irs
    <3> QED BY <1>1, <2>1, <3>1 DEF Successors
  <2>2. ASSUME NEW i \in L, At(v.inner, i).op \in JumpOps
        PROVE  At(v.inner, i).n \in L
    BY <1>1, <2>2 DEF Successors, JumpTargets
  <2> QED BY <1>1, <2>1, <2>2, SameSets DEF P1!Stays
<1>4. \A i \in L : i \notin v.deleted \cup DOMAIN v.modified
  BY DEF L
<1>5. P1!Edits(v.inner, Emitted(v), v.deleted, MovedTo(v), L, {})
  BY <1>1, <1>3, <1>4, EmittedEdits
<1> QED BY <1>2, <1>5, EmittedPreserves

\* fold_consts: all of a run but its first instruction is deleted, so that what follows it
\* goes where what follows the first instruction would.
LEMMA FoldRunIsRun ==
    ASSUME NEW v, Rewrites(v), NEW q, FoldRun(v, q),
           \A i \in v.deleted \cup DOMAIN v.modified : Straight(At(v.inner, i)),
           \A i \in DOMAIN v.modified : Straight(v.modified[i])
    PROVE  P1!IsRun(v.inner, Emitted(v), v.deleted, MovedTo(v), q)
<1> DEFINE moved == MovedTo(v)
           S == { k \in Nat : moved[k] = moved[q.first + 1] }
<1>1. q.first \in Nat /\ q.end \in Nat /\ q.first < q.end /\ q.end <= Len(v.inner)
  BY DEF FoldRun
<1>2. \A i \in Nat : moved[i + 1] = IF i \in v.deleted THEN moved[i] ELSE moved[i] + 1
  BY EmittedIsMoved DEF P1!Moves
<1>3. moved[q.end] = moved[q.first + 1]
  <2>1. q.first + 1 \in S
    BY <1>1
  <2>2. ASSUME NEW k \in (q.first + 1)..(q.end - 1), k \in S
        PROVE  k + 1 \in S
    <3>1. k \in Nat /\ k + 1 \in Nat /\ P1!Interior(q, k)
      BY <1>1, <2>2 DEF P1!Interior
    <3>2. k \in v.deleted
      BY <3>1 DEF FoldRun
    <3>3. moved[k + 1] = moved[k]
      BY <1>2, <3>1, <3>2
    <3> QED BY <2>2, <3>1, <3>3
  <2>3. q.end \in S
    <3> HIDE DEF S
    <3>1. q.first + 1 \in Nat /\ q.first + 1 <= q.end
      BY <1>1
    <3> QED BY <1>1, <2>1, <2>2, <3>1, IntervalInduction
  <2> QED BY <2>3
<1>4. q.first \notin v.deleted => At(Emitted(v), moved[q.first]) = Edited(v, q.first)
  <2> SUFFICES ASSUME q.first \notin v.deleted
               PROVE  At(Emitted(v), moved[q.first]) = Edited(v, q.first)
    OBVIOUS
  <2>1. q.first \in Irs(v.inner) \ v.deleted
    BY <1>1, RewritesIs DEF Irs
  <2>2. At(Emitted(v), moved[q.first]) = MapAdr(Edited(v, q.first), NewAdr(v, Edited(v, q.first).n))
    BY <1>1, <2>1, EmittedIsRight, RewritesIs DEF MovedTo
  <2>3. At(v.inner, q.first).op \in P1!ConstOps
    <3>1. P1!InRun(q, q.first)
      BY <1>1 DEF P1!InRun
    <3> QED BY <1>1, <3>1 DEF FoldRun
  <2>4. Edited(v, q.first).op \notin JumpOps
    <3>1. At(v.inner, q.first).op \notin JumpOps
      BY <2>3 DEF P1!ConstOps, JumpOps, ConditionalJumps
    <3> QED BY <3>1 DEF Edited, Straight
  <2> QED BY <2>2, <2>4 DEF MapAdr
<1> HIDE DEF moved
<1>5. \A a, b \in Number : <<a, b>> \in q.at[q.end] =>
           IF q.first \in v.deleted THEN a = b ELSE P1!Gives(At(Emitted(v), moved[q.first]), a, b)
  BY <1>4 DEF FoldRun
<1>6. \A k \in Nat : P1!InRun(q, k) =>
           /\ At(v.inner, k).op \in P1!ConstOps /\ At(v.inner, k).mode = "const"
           /\ \A a, b \in Number :
                  /\ <<a, b>> \in q.at[k]
                  /\ Checked(At(v.inner, k).op, b, At(v.inner, k).n) # {}
                  => <<a, Exact(At(v.inner, k).op, b, At(v.inner, k).n)>> \in q.at[k + 1]
  BY DEF FoldRun
<1>7. /\ \A k \in Nat : P1!Interior(q, k) => k \in v.deleted
      /\ \A a \in Number : <<a, a>> \in q.at[q.first]
  BY DEF FoldRun
<1>8. P1!IsRun(v.inner, Emitted(v), v.deleted, moved, q)
  BY <1>1, <1>3, <1>5, <1>6, <1>7, SameSets DEF P1!IsRun
<1> QED BY <1>8 DEF moved

\* fold_consts.  Where it deletes everything, the first instruction found nothing in ACC.
LEMMA FoldsPreserve ==
    ASSUME NEW v, NEW n, Folding(v, n), HasRuns(v, n), v.inner # << >>,
           v.inner \in Seq(Instruction), Emitted(v) \in Seq(Instruction)
    PROVE  P1!Preserves(v.inner, Emitted(v))
<1>1. PICK Q : Runs(v, n, Q)
  BY DEF HasRuns
<1>2. Rewrites(v)
  BY FoldingRewrites
<1>3. \A q \in Q : P1!IsRun(v.inner, Emitted(v), v.deleted, MovedTo(v), q)
  BY <1>1, <1>2, FoldRunIsRun DEF Runs, Folding
<1>4. P1!Stays(v.inner, Nat, Q)
  BY <1>1, EverythingStays DEF Runs, FoldRun
<1>5. P1!Edits(v.inner, Emitted(v), v.deleted, MovedTo(v), Nat, Q)
  BY <1>1, <1>2, <1>3, <1>4, EmittedEdits DEF Runs
<1>6. CASE Emitted(v) # << >>
  BY <1>5, <1>6, EmittedPreserves
<1>7. CASE Emitted(v) = << >>
  <2>1. 0 \in Irs(v.inner) /\ 0 \in Nat
    BY DEF Irs
  <2>2. 0 \in v.deleted
    <3>1. 0 \notin v.deleted => MovedBy(v.deleted, 0) \in Irs(Emitted(v))
      BY <1>2, <2>1, EmittedIsRight, RewritesIs
    <3>2. Irs(Emitted(v)) = {}
      BY <1>7 DEF Irs
    <3> QED BY <3>1, <3>2
  <2>3. PICK q \in Q : P1!InRun(q, 0)
    BY <1>1, <2>2 DEF Runs
  <2>4. At(v.inner, 0).op \in P1!ConstOps /\ At(v.inner, 0).mode = "const"
    BY <1>1, <2>1, <2>3 DEF Runs, FoldRun
  <2> QED BY <2>4, P1!BeginsUninit, SameSets, SameAssumptions
<1> QED BY <1>6, <1>7

\* Unconditional jumps lead from a to f: the first of them leads there, or they do from where
\* it leads.
LEMMA FinalAdrGoesOn ==
    ASSUME NEW code, IsProgram(code), NEW a \in Nat, NEW f \in FinalAdr(code, a)
    PROVE  /\ IsJump(code, a) /\ f \in Nat
           /\ At(code, a).n = f \/ f \in FinalAdr(code, At(code, a).n)
<1> DEFINE N == Len(code)
           b == At(code, a).n
<1>1. PICK h : /\ Hops(h, code, a)
               /\ FinalAdr(code, a) = { x \in {h[N]} \ {a} : ~IsJump(code, x) }
  BY FinalAdrIsDefined
<1>2. f = h[N] /\ f # a /\ ~IsJump(code, f) /\ N \in Nat
  BY <1>1 DEF IsProgram
<1>3. /\ h[0] = a /\ f \in Nat
      /\ \A k \in 0..(N - 1) : h[k + 1] = Hop(code, h[k])
  BY <1>1, <1>2 DEF Hops
<1>4. IsJump(code, a)
  <2> SUFFICES ASSUME ~IsJump(code, a)
               PROVE  FALSE
    OBVIOUS
  <2> DEFINE S == { k \in Nat : h[k] = a }
  <2>1. 0 \in S
    BY <1>3
  <2>2. ASSUME NEW k \in 0..(N - 1), k \in S
        PROVE  k + 1 \in S
    BY <1>2, <1>3, <2>2 DEF Hop
  <2>3. N \in S
    <3> HIDE DEF S, N
    <3> QED BY <1>2, <2>1, <2>2, IntervalInduction
  <2> QED BY <1>2, <2>3
<1>5. b \in Nat /\ a \in Irs(code) /\ Hop(code, a) = b
  BY <1>4, HopIsTarget DEF Hop
<1>6. N # 0
  BY <1>5 DEF Irs
<1>7. PICK g : /\ Hops(g, code, b)
               /\ FinalAdr(code, b) = { x \in {g[N]} \ {b} : ~IsJump(code, x) }
  BY <1>5, FinalAdrIsDefined
<1>8. g[0] = b /\ \A k \in 0..(N - 1) : g[k + 1] = Hop(code, g[k])
  BY <1>7 DEF Hops
<1> DEFINE T == { k \in Nat : g[k] = h[k + 1] }
<1>9. 0 \in T
  BY <1>2, <1>3, <1>5, <1>6, <1>8
<1>10. ASSUME NEW k \in 0..((N - 1) - 1), k \in T
       PROVE  k + 1 \in T
  <2>1. k \in 0..(N - 1) /\ k + 1 \in 0..(N - 1) /\ k + 1 \in Nat
    BY <1>2, <1>6
  <2>2. g[k + 1] = Hop(code, g[k]) /\ h[(k + 1) + 1] = Hop(code, h[k + 1])
    BY <1>3, <1>8, <2>1
  <2> QED BY <1>10, <2>1, <2>2
<1>11. N - 1 \in T
  <2> HIDE DEF T, N
  <2>1. N - 1 \in Nat /\ 0 <= N - 1
    BY <1>2, <1>6
  <2> QED BY <1>9, <1>10, <2>1, IntervalInduction
<1>12. g[N - 1] = h[N]
  BY <1>2, <1>11
<1>13. g[N] = Hop(code, g[N - 1])
  <2>1. N - 1 \in 0..(N - 1) /\ (N - 1) + 1 = N
    BY <1>2, <1>6
  <2> QED BY <1>8, <2>1
<1>14. g[N] = f
  BY <1>2, <1>12, <1>13 DEF Hop
<1> QED BY <1>2, <1>3, <1>4, <1>7, <1>14

\* An instruction is the record of its three fields.
LEMMA InstructionIs ==
    ASSUME NEW i \in Instruction
    PROVE  \E op, mode, n : i = [op |-> op, mode |-> mode, n |-> n]
<1>1. i = [op |-> i.op, mode |-> i.mode, n |-> i.n]
  BY DEF Instruction, Value, Register, Address
<1> QED BY <1>1

\* map_adr changes the target of a jump and nothing of another instruction.
LEMMA MapAdrIs ==
    ASSUME NEW i \in Instruction, NEW a
    PROVE  /\ MapAdr(i, a).op = i.op
           /\ i.op \in JumpOps => MapAdr(i, a).n = a /\ MapAdr(MapAdr(i, a), a) = MapAdr(i, a)
           /\ i.op \notin JumpOps => MapAdr(i, a) = i
           /\ MapAdr(i, i.n) = i
<1>1. PICK op, mode, n : i = [op |-> op, mode |-> mode, n |-> n]
  BY InstructionIs
<1> QED BY <1>1 DEF MapAdr

\* simplify_jumps leaves an instruction as it was, or gives a jump the final address of its
\* target.
LEMMA SimplifiedStays ==
    ASSUME NEW v, Rewrites(v), v.inner \in Seq(Instruction), v.deleted = {},
           NEW i \in Irs(v.inner), Simplified(v.inner, i, Edited(v, i))
    PROVE  \E a \in Nat :
               \/ At(Emitted(v), i) = At(v.inner, i)
               \/ /\ At(v.inner, i).op \in JumpOps
                  /\ a \in FinalAdr(v.inner, At(v.inner, i).n)
                  /\ At(Emitted(v), i) = [At(v.inner, i) EXCEPT !.n = a]
<1>1. WellFormed(v) /\ IsProgram(v.inner) /\ i \in Nat /\ Exists(v.inner, i)
      /\ Len(v.inner) \in Nat
  BY RewritesIs DEF Irs, Exists
<1>2. MovedBy(v.deleted, i) = i
  BY <1>1, NothingMoves
<1>3. At(Emitted(v), i) = MapAdr(Edited(v, i), NewAdr(v, Edited(v, i).n))
  BY <1>1, <1>2, EmittedIsRight
<1>4. Edited(v, i).op \in JumpOps => NewAdr(v, Edited(v, i).n) = Edited(v, i).n
  <2>1. Edited(v, i).op \in JumpOps => Edited(v, i).n \in JumpTargetsOf(v.inner)
    BY <1>1, EditedJumps DEF JumpTargets
  <2> QED BY <1>1, <2>1, TargetsAreMoved, NothingMoves
<1>5. PICK inst : inst = At(v.inner, i)
  OBVIOUS
<1>6. inst \in Instruction /\ (inst.op \in JumpOps => inst.n \in Nat)
  BY <1>1, <1>5, ProgramAt
<1>7. CASE Edited(v, i) = inst
  <2>1. At(Emitted(v), i) = inst
    BY <1>3, <1>4, <1>6, <1>7, MapAdrIs
  <2> QED BY <1>5, <2>1
<1>8. CASE \E adr \in JumpTargets(inst) : \E a \in FinalAdr(v.inner, adr) :
               Edited(v, i) = MapAdr(inst, a)
  <2>1. PICK adr \in JumpTargets(inst) : \E a \in FinalAdr(v.inner, adr) :
                 Edited(v, i) = MapAdr(inst, a)
    BY <1>8
  <2>2. PICK a \in FinalAdr(v.inner, adr) : Edited(v, i) = MapAdr(inst, a)
    BY <2>1
  <2>3. inst.op \in JumpOps /\ adr = inst.n /\ inst.n \in Nat
    BY <1>6, <2>1 DEF JumpTargets
  <2>4. a \in Nat
    BY <1>1, <2>2, <2>3, FinalAdrGoesOn
  <2>5. At(Emitted(v), i) = MapAdr(inst, a)
    BY <1>3, <1>4, <1>6, <2>2, <2>3, MapAdrIs
  <2>6. MapAdr(inst, a) = [inst EXCEPT !.n = a]
    BY <2>3 DEF MapAdr
  <2> QED BY <1>5, <2>2, <2>3, <2>4, <2>5, <2>6
<1> QED BY <1>5, <1>7, <1>8 DEF Simplified


\* simplify_jumps.
LEMMA JumpsPreserve ==
    ASSUME NEW v, Rewrites(v), v.inner \in Seq(Instruction), Emitted(v) \in Seq(Instruction),
           v.deleted = {}, \A i \in Irs(v.inner) : Simplified(v.inner, i, Edited(v, i))
    PROVE  Len(Emitted(v)) = Len(v.inner) /\ P1!Preserves(v.inner, Emitted(v))
<1> DEFINE code == v.inner
           opt == Emitted(v)
           E == { af \in Nat \X Nat : af[2] \in FinalAdr(code, af[1]) }
<1>1. WellFormed(v) /\ Len(code) \in Nat /\ IsProgram(code)
  BY RewritesIs
<1>2. Len(opt) = Len(code)
  BY <1>1, EmittedIsRight, NothingMoves
<1>3. \A a, f : <<a, f>> \in E <=> a \in Nat /\ f \in Nat /\ f \in FinalAdr(code, a)
  OBVIOUS
<1> HIDE DEF E
<1>4. ASSUME NEW a, NEW f, <<a, f>> \in E
      PROVE  /\ a \in Nat /\ Exists(code, a) /\ At(code, a).op = "JUMP"
             /\ At(code, a).n = f \/ <<At(code, a).n, f>> \in E
  <2>1. a \in Nat /\ f \in Nat /\ f \in FinalAdr(code, a)
    BY <1>3, <1>4
  <2>2. IsJump(code, a) /\ (At(code, a).n = f \/ f \in FinalAdr(code, At(code, a).n))
    BY <1>1, <2>1, FinalAdrGoesOn
  <2>3. At(code, a).n \in Nat
    BY <1>1, <2>1, <2>2, HopIsTarget
  <2> QED BY <1>3, <2>1, <2>2, <2>3 DEF IsJump
<1>5. ASSUME NEW i \in Nat, Exists(code, i)
      PROVE  /\ P1!SameButTarget(At(code, i), At(opt, i))
             /\ At(opt, i) = At(code, i) \/ <<At(code, i).n, At(opt, i).n>> \in E
  <2>1. i \in Irs(code)
    BY <1>5, ProgramAt
  <2>2. PICK a \in Nat :
                         \/ At(opt, i) = At(code, i)
                         \/ /\ At(code, i).op \in JumpOps
                            /\ a \in FinalAdr(code, At(code, i).n)
                            /\ At(opt, i) = [At(code, i) EXCEPT !.n = a]
    BY <2>1, SimplifiedStays
  <2>3. CASE At(opt, i) = At(code, i)
    BY <2>3 DEF P1!SameButTarget
  <2>4. CASE /\ At(code, i).op \in JumpOps
             /\ a \in FinalAdr(code, At(code, i).n)
             /\ At(opt, i) = [At(code, i) EXCEPT !.n = a]
    <3>1. At(code, i) \in Instruction /\ At(code, i).n \in Nat
      BY <1>5, <2>4, ProgramAt
    <3>2. PICK op, mode, n : At(code, i) = [op |-> op, mode |-> mode, n |-> n]
      BY <3>1, InstructionIs
    <3>3. At(opt, i) = [op |-> op, mode |-> mode, n |-> a]
      BY <2>4, <3>2
    <3>4. <<At(code, i).n, At(opt, i).n>> \in E
      BY <1>3, <2>4, <3>1, <3>3
    <3>5. P1!SameButTarget(At(code, i), At(opt, i))
      BY <2>4, <3>2, <3>3, SameSets DEF P1!SameButTarget
    <3> QED BY <3>4, <3>5
  <2> QED BY <2>2, <2>3, <2>4
<1>6. P1!Shortcuts(code, opt, E)
  BY <1>2, <1>4, <1>5, SameSets DEF P1!Shortcuts
<1> QED BY <1>2, <1>6, P1!ShortcutsPreserve, SameSets, SameAssumptions

-----------------------------------------------------------------------------
(***************************************************************************)
(* The optimizer, pass after pass.                                         *)
(***************************************************************************)
Direct(code) == \A k \in DOMAIN code : code[k].mode # "reg"

\* An instruction of the new code is one of the old code or of the modified ones, but for
\* where it jumps.
LEMMA EmittedFrom ==
    ASSUME NEW v, Rewrites(v), NEW k \in DOMAIN Emitted(v)
    PROVE  \E i \in Irs(v.inner) \ v.deleted :
               /\ Edited(v, i) \in WideInstruction
               /\ Emitted(v)[k].mode = Edited(v, i).mode
               /\ Emitted(v)[k].mode = "const" => Emitted(v)[k] = Edited(v, i)
<1>1. WellFormed(v)
  BY RewritesIs
<1>2. Len(Emitted(v)) \in Nat /\ DOMAIN Emitted(v) = 1..Len(Emitted(v))
  <2>1. Len(Emitted(v)) \in 0..Len(v.inner) /\ Len(v.inner) \in Nat
    BY <1>1, RewritesIs, EmittedIsRight
  <2>2. Emitted(v) = [p \in 1..Len(Emitted(v)) |-> Emitted(v)[p]]
    BY <1>1, EmittedIsRight
  <2> QED BY <2>1, <2>2
<1>3. PICK i \in Irs(v.inner) \ v.deleted : MovedBy(v.deleted, i) = k - 1
  BY <1>1, <1>2, EmittedIsRight
<1>4. At(Emitted(v), k - 1) = MapAdr(Edited(v, i), NewAdr(v, Edited(v, i).n))
  BY <1>1, <1>3, EmittedIsRight
<1>5. At(Emitted(v), k - 1) = Emitted(v)[k]
  <2>1. k \in Nat /\ (k - 1) + 1 = k
    BY <1>2
  <2> QED BY <2>1 DEF At
<1>6. PICK e : e = Edited(v, i)
  OBVIOUS
<1>7. e \in WideInstruction
  BY <1>6, EditedIsWide
<1>8. CASE e.op \notin JumpOps
  BY <1>4, <1>5, <1>6, <1>7, <1>8 DEF MapAdr
<1>9. CASE e.op \in JumpOps
  <2>1. e \in Address(JumpOps)
    BY <1>7, <1>9 DEF WideInstruction, Instruction, Value, Register, Address, JumpOps,
       ConditionalJumps, BinaryOps, UnaryOps
  <2>2. e = [op |-> e.op, mode |-> e.mode, n |-> e.n] /\ e.mode \in {"adr", "reg"}
    BY <2>1 DEF Address
  <2>3. Emitted(v)[k].mode = e.mode
    BY <1>4, <1>5, <1>6, <1>9, <2>2 DEF MapAdr
  <2> QED BY <1>6, <1>7, <2>2, <2>3
<1> QED BY <1>8, <1>9

\* So the new code fits where they do, and has no indirect jump where they are none.
LEMMA EmittedFits ==
    ASSUME NEW v, Rewrites(v)
    PROVE  /\ (\A i \in Irs(v.inner) \ v.deleted : MapsTo(Edited(v, i), MaxInt)) => Fits(Emitted(v))
           /\ (\A i \in Irs(v.inner) \ v.deleted : Edited(v, i).mode # "reg") => Direct(Emitted(v))
<1>1. ASSUME \A i \in Irs(v.inner) \ v.deleted : MapsTo(Edited(v, i), MaxInt),
             NEW k \in DOMAIN Emitted(v)
      PROVE  MapsTo(Emitted(v)[k], MaxInt)
  <2>1. PICK i \in Irs(v.inner) \ v.deleted :
                 Emitted(v)[k].mode = "const" => Emitted(v)[k] = Edited(v, i)
    BY EmittedFrom
  <2> QED BY <1>1, <2>1 DEF MapsTo
<1>2. ASSUME \A i \in Irs(v.inner) \ v.deleted : Edited(v, i).mode # "reg",
             NEW k \in DOMAIN Emitted(v)
      PROVE  Emitted(v)[k].mode # "reg"
  <2>1. PICK i \in Irs(v.inner) \ v.deleted : Emitted(v)[k].mode = Edited(v, i).mode
    BY EmittedFrom
  <2> QED BY <1>2, <2>1
<1> QED BY <1>1, <1>2 DEF Fits, CastFits, Direct

\* An instruction of a code that fits, or that has no indirect jump.
LEMMA FitsAt ==
    ASSUME NEW code, Len(code) \in Nat, DOMAIN code = 1..Len(code), NEW i \in Irs(code)
    PROVE  /\ Fits(code) => MapsTo(At(code, i), MaxInt)
           /\ Direct(code) => At(code, i).mode # "reg"
<1>1. i + 1 \in DOMAIN code
  BY DEF Irs
<1> QED BY <1>1 DEF Fits, CastFits, Direct, At

\* What simplify_jumps changes of an instruction is where it jumps.
LEMMA SimplifiedMode ==
    ASSUME NEW code \in Seq(WideInstruction), NEW i \in Irs(code), NEW inst,
           Simplified(code, i, inst)
    PROVE  inst.mode = At(code, i).mode /\ (inst.mode = "const" => inst = At(code, i))
<1>1. PICK e : e = At(code, i)
  OBVIOUS
<1>2. e \in WideInstruction
  BY <1>1, WideAt
<1>3. \A a : MapAdr(e, a).mode = e.mode /\ (e.mode = "const" => MapAdr(e, a) = e)
  <2>1. CASE e.op \notin JumpOps
    BY <2>1 DEF MapAdr
  <2>2. CASE e.op \in JumpOps
    <3>1. e \in Address(JumpOps)
      BY <1>2, <2>2 DEF WideInstruction, Instruction, Value, Register, Address, JumpOps,
         ConditionalJumps, BinaryOps, UnaryOps
    <3>2. e = [op |-> e.op, mode |-> e.mode, n |-> e.n] /\ e.mode \in {"adr", "reg"}
      BY <3>1 DEF Address
    <3> QED BY <2>2, <3>2 DEF MapAdr
  <2> QED BY <2>1, <2>2
<1> QED BY <1>1, <1>3 DEF Simplified

\* What is straight is no indirect jump.
LEMMA StraightIsDirect ==
    ASSUME NEW i \in WideInstruction, Straight(i)
    PROVE  i.mode # "reg"
BY DEF WideInstruction, Straight, Instruction, Value, Register, Address

\* What the optimizer has made of a code that fits, until fold_consts is done with it: it
\* still fits, and does what the argument of run_passes does.
Faithful(orig, p, v, n) ==
    /\ Len(v.inner) <= Len(orig)
    /\ Direct(v.inner)
    /\ p = "remove_nops" => \A i \in v.deleted : At(v.inner, i).op = "NOP"
    /\ p = "fold_consts" /\ OverflowChecks => HasRuns(v, n)
    /\ Fits(orig) =>
           /\ p # "done" => Fits(v.inner)
           /\ p = "fold_consts" => v.inner # << >>
           /\ /\ p = "done" => OverflowChecks
              /\ p # "done" => v.inner # << >>
              /\ Fits(v.inner)
              => P1!Preserves(orig, v.inner)

\* The new code of a pass.
LEMMA NewCode ==
    ASSUME NEW v, Rewrites(v), NEW u \in NewWoCode(Emitted(v))
    PROVE  /\ u.inner = Emitted(v) /\ u.deleted = {} /\ DOMAIN u.modified = {}
           /\ Emitted(v) \in Seq(WideInstruction)
           /\ Len(u.inner) <= Len(v.inner) /\ Len(u.inner) \in Nat /\ Len(v.inner) \in Nat
<1>1. Emitted(v) \in Seq(WideInstruction)
  BY EmittedMoves DEF Moves
<1>2. u.inner = Emitted(v) /\ u.deleted = {} /\ DOMAIN u.modified = {}
  BY <1>1, WideIsProgram, NewIsWellFormed
<1>3. WellFormed(v) /\ Len(v.inner) \in Nat
  BY RewritesIs
<1>4. Len(Emitted(v)) \in 0..Len(v.inner)
  BY <1>3, EmittedIsRight
<1> QED BY <1>1, <1>2, <1>3, <1>4

\* A pass that edits nothing but where to jump makes code that fits and has no indirect jump.
LEMMA NewFits ==
    ASSUME NEW v, Rewrites(v), NEW u \in NewWoCode(Emitted(v)),
           DOMAIN v.modified = {} \/ \A i \in Irs(v.inner) : Simplified(v.inner, i, Edited(v, i))
    PROVE  /\ Fits(v.inner) => Fits(u.inner)
           /\ Direct(v.inner) => Direct(u.inner)
<1>1. v.inner \in Seq(WideInstruction) /\ Len(v.inner) \in Nat /\ DOMAIN v.inner = 1..Len(v.inner)
  BY RewritesIs
<1>2. ASSUME NEW i \in Irs(v.inner)
      PROVE  /\ Edited(v, i).mode = At(v.inner, i).mode
             /\ Edited(v, i).mode = "const" => Edited(v, i) = At(v.inner, i)
  <2>1. CASE DOMAIN v.modified = {}
    BY <2>1 DEF Edited
  <2>2. CASE \A k \in Irs(v.inner) : Simplified(v.inner, k, Edited(v, k))
    BY <1>1, <2>2, SimplifiedMode
  <2> QED BY <2>1, <2>2
<1>3. ASSUME Fits(v.inner)
      PROVE  Fits(u.inner)
  <2>1. \A i \in Irs(v.inner) : MapsTo(Edited(v, i), MaxInt)
    BY <1>1, <1>2, <1>3, FitsAt DEF MapsTo
  <2> QED BY <2>1, EmittedFits, NewCode
<1>4. ASSUME Direct(v.inner)
      PROVE  Direct(u.inner)
  <2>1. \A i \in Irs(v.inner) : Edited(v, i).mode # "reg"
    BY <1>1, <1>2, <1>4, FitsAt
  <2> QED BY <2>1, EmittedFits, NewCode
<1> QED BY <1>3, <1>4

\* The end of remove_nops: the code without its NOPs does what the code with them did.
LEMMA NopsFaithful ==
    ASSUME NEW orig \in Seq(WideInstruction), NEW v, NEW marked, NEW u \in NewWoCode(Emitted(v)),
           Placed("remove_nops", v, Len(v.inner), marked),
           Faithful(orig, "remove_nops", v, Len(v.inner))
    PROVE  Faithful(orig, "simplify_jumps", u, 0)
<1>1. Rewrites(v) /\ DOMAIN v.modified = {} /\ v.inner \in Seq(WideInstruction)
  BY RewritesIs DEF Placed
<1>2. /\ u.inner = Emitted(v) /\ Emitted(v) \in Seq(WideInstruction)
      /\ Len(u.inner) <= Len(v.inner) /\ Len(u.inner) \in Nat /\ Len(v.inner) \in Nat
  BY <1>1, NewCode
<1>3. /\ Len(v.inner) <= Len(orig) /\ Direct(v.inner)
      /\ \A i \in v.deleted : At(v.inner, i).op = "NOP"
      /\ Fits(orig) => Fits(v.inner)
      /\ Fits(orig) /\ v.inner # << >> => P1!Preserves(orig, v.inner)
  BY DEF Faithful
<1>4. Len(u.inner) <= Len(orig) /\ Direct(u.inner) /\ (Fits(orig) => Fits(u.inner))
  BY <1>1, <1>2, <1>3, NewFits
<1>5. ASSUME Fits(orig), u.inner # << >>
      PROVE  P1!Preserves(orig, u.inner)
  <2>1. v.inner \in Seq(Instruction) /\ u.inner \in Seq(Instruction)
    BY <1>1, <1>2, <1>3, <1>4, <1>5, FittingIsRunnable
  <2>2. P1!Preserves(v.inner, u.inner)
    BY <1>1, <1>2, <1>3, <1>5, <2>1, NopsPreserve
  <2>3. v.inner # << >>
    <3>1. Len(u.inner) # 0
      BY <1>2, <1>5
    <3> QED BY <1>2, <3>1
  <2> QED BY <1>3, <1>5, <2>2, <2>3, P1!PreservesIsTransitive, SameSets, SameAssumptions
<1> QED BY <1>4, <1>5 DEF Faithful

\* The end of simplify_jumps: the code with the shorter jumps does what the code did.
LEMMA JumpsFaithful ==
    ASSUME NEW orig \in Seq(WideInstruction), NEW v, NEW marked, NEW u \in NewWoCode(Emitted(v)),
           Placed("simplify_jumps", v, Len(v.inner), marked),
           Faithful(orig, "simplify_jumps", v, Len(v.inner))
    PROVE  Faithful(orig, "mark_reachable", u, 0)
<1>1. /\ Rewrites(v) /\ v.deleted = {} /\ v.inner \in Seq(WideInstruction)
      /\ \A i \in Irs(v.inner) : Simplified(v.inner, i, Edited(v, i))
  BY RewritesIs DEF Placed, Irs
<1>2. /\ u.inner = Emitted(v) /\ Emitted(v) \in Seq(WideInstruction)
      /\ Len(u.inner) <= Len(v.inner) /\ Len(u.inner) \in Nat /\ Len(v.inner) \in Nat
  BY <1>1, NewCode
<1>3. /\ Len(v.inner) <= Len(orig) /\ Direct(v.inner)
      /\ Fits(orig) => Fits(v.inner)
      /\ Fits(orig) /\ v.inner # << >> => P1!Preserves(orig, v.inner)
  BY DEF Faithful
<1>4. Len(u.inner) <= Len(orig) /\ Direct(u.inner) /\ (Fits(orig) => Fits(u.inner))
  BY <1>1, <1>2, <1>3, NewFits
<1>5. ASSUME Fits(orig), u.inner # << >>
      PROVE  P1!Preserves(orig, u.inner)
  <2>1. v.inner \in Seq(Instruction) /\ u.inner \in Seq(Instruction)
    BY <1>1, <1>2, <1>3, <1>4, <1>5, FittingIsRunnable
  <2>2. P1!Preserves(v.inner, u.inner)
    BY <1>1, <1>2, <1>3, <1>5, <2>1, JumpsPreserve
  <2>3. v.inner # << >>
    <3>1. Len(u.inner) # 0
      BY <1>2, <1>5
    <3> QED BY <1>2, <3>1
  <2> QED BY <1>3, <1>5, <2>2, <2>3, P1!PreservesIsTransitive, SameSets, SameAssumptions
<1> QED BY <1>4, <1>5 DEF Faithful

\* The end of remove_unreachable_code: what is left does what the code did.
LEMMA UnreachableFaithful ==
    ASSUME NEW orig \in Seq(WideInstruction), NEW v, NEW marked, NEW u \in NewWoCode(Emitted(v)),
           Placed("remove_unreachable_code", v, Len(v.inner), marked),
           Faithful(orig, "remove_unreachable_code", v, Len(v.inner))
    PROVE  Faithful(orig, "fold_consts", u, 0)
<1>1. /\ Rewrites(v) /\ DOMAIN v.modified = {} /\ v.inner \in Seq(WideInstruction)
      /\ marked = Reachable(v.inner) /\ marked \subseteq Irs(v.inner)
      /\ v.deleted = Irs(v.inner) \ marked
  BY RewritesIs DEF Placed, Irs
<1>2. /\ u.inner = Emitted(v) /\ Emitted(v) \in Seq(WideInstruction)
      /\ u.deleted = {} /\ DOMAIN u.modified = {}
      /\ Len(u.inner) <= Len(v.inner) /\ Len(u.inner) \in Nat /\ Len(v.inner) \in Nat
  BY <1>1, NewCode
<1>3. /\ Len(v.inner) <= Len(orig) /\ Direct(v.inner)
      /\ Fits(orig) => Fits(v.inner)
      /\ Fits(orig) /\ v.inner # << >> => P1!Preserves(orig, v.inner)
  BY DEF Faithful
<1>4. Len(u.inner) <= Len(orig) /\ Direct(u.inner) /\ (Fits(orig) => Fits(u.inner))
  BY <1>1, <1>2, <1>3, NewFits
<1>5. ASSUME Fits(orig)
      PROVE  u.inner # << >> /\ P1!Preserves(orig, u.inner)
  <2>1. v.inner \in Seq(Instruction) /\ u.inner \in Seq(Instruction)
    BY <1>1, <1>2, <1>3, <1>4, <1>5, FittingIsRunnable
  <2>2. u.inner # << >> /\ P1!Preserves(v.inner, u.inner)
    BY <1>1, <1>2, <1>5, <2>1, UnreachablePreserve
  <2>3. v.inner # << >>
    <3>1. Len(u.inner) # 0
      BY <1>2, <2>2
    <3> QED BY <1>2, <3>1
  <2> QED BY <1>3, <1>5, <2>2, <2>3, P1!PreservesIsTransitive, SameSets, SameAssumptions
<1>6. HasRuns(u, 0)
  <2>1. Runs(u, 0, {})
    BY <1>2 DEF Runs
  <2> QED BY <2>1 DEF HasRuns
<1> QED BY <1>4, <1>5, <1>6 DEF Faithful

\* The end of fold_consts: the folded code does what the code did, if folding an overflow
\* would have panicked.
LEMMA FoldsFaithful ==
    ASSUME NEW orig \in Seq(WideInstruction), NEW v, NEW marked, NEW u \in NewWoCode(Emitted(v)),
           Placed("fold_consts", v, Len(v.inner), marked),
           Faithful(orig, "fold_consts", v, Len(v.inner))
    PROVE  Faithful(orig, "done", u, 0)
<1>1. Rewrites(v) /\ Folding(v, Len(v.inner)) /\ v.inner \in Seq(WideInstruction)
  BY RewritesIs DEF Placed
<1>2. /\ u.inner = Emitted(v) /\ Emitted(v) \in Seq(WideInstruction)
      /\ Len(u.inner) <= Len(v.inner) /\ Len(u.inner) \in Nat /\ Len(v.inner) \in Nat
  BY <1>1, NewCode
<1>3. /\ Len(v.inner) <= Len(orig) /\ Direct(v.inner)
      /\ OverflowChecks => HasRuns(v, Len(v.inner))
      /\ Fits(orig) => Fits(v.inner) /\ v.inner # << >> /\ P1!Preserves(orig, v.inner)
  BY DEF Faithful
<1>4. Direct(u.inner)
  <2>1. ASSUME NEW i \in Irs(v.inner)
        PROVE  Edited(v, i).mode # "reg"
    <3>1. CASE i \in DOMAIN v.modified
      BY <1>1, <3>1, StraightIsDirect DEF Folding, Edited
    <3>2. CASE i \notin DOMAIN v.modified
      <4>1. DOMAIN v.inner = 1..Len(v.inner)
        BY <1>1
      <4> QED BY <1>2, <1>3, <3>2, <4>1, FitsAt DEF Edited
    <3> QED BY <3>1, <3>2
  <2> QED BY <1>1, <1>2, <2>1, EmittedFits
<1>5. ASSUME Fits(orig), Fits(u.inner), OverflowChecks
      PROVE  P1!Preserves(orig, u.inner)
  <2>1. v.inner \in Seq(Instruction) /\ u.inner \in Seq(Instruction)
    BY <1>1, <1>2, <1>3, <1>5, FittingIsRunnable
  <2>2. P1!Preserves(v.inner, u.inner)
    BY <1>1, <1>2, <1>3, <1>5, <2>1, FoldsPreserve
  <2> QED BY <1>3, <1>5, <2>2, P1!PreservesIsTransitive, SameSets, SameAssumptions
<1>6. Len(u.inner) <= Len(orig)
  BY <1>2, <1>3
<1> QED BY <1>4, <1>5, <1>6 DEF Faithful

\* The inductive invariant of the optimizer.
Optimizing == Inductive /\ (pass # "panicked" => Faithful(original, pass, w, ir))

\* The optimizer begins with the original itself.
LEMMA InitIsOptimizing == Init => Optimizing
<1> SUFFICES ASSUME Init
             PROVE  Optimizing
  OBVIOUS
<1>1. Inductive /\ pass = "remove_nops"
  BY InitIsInductive DEF Init
<1>2. original \in Codes /\ original \in Seq(WideInstruction)
  BY CodesAssumption DEF Init
<1>3. w.inner = original /\ w.deleted = {}
  BY <1>2, WideIsProgram, NewIsWellFormed DEF Init
<1>4. Direct(original)
  BY <1>2, DirectAssumption DEF Direct
<1>5. P1!Preserves(original, original)
  BY P1!PreservesIsReflexive, SameAssumptions
<1>6. Len(original) <= Len(original)
  BY <1>2
<1> HIDE DEF Init
<1>7. Faithful(original, "remove_nops", w, ir)
  BY <1>3, <1>4, <1>5, <1>6 DEF Faithful
<1> QED BY <1>1, <1>7 DEF Optimizing

\* The loop of remove_nops deletes what does nothing.
LEMMA RemoveNopFaithful ==
    ASSUME NEW orig, NEW v, NEW n, NEW marked, Placed("remove_nops", v, n, marked),
           n < Len(v.inner), Faithful(orig, "remove_nops", v, n)
    PROVE  /\ Faithful(orig, "remove_nops", v, n + 1)
           /\ At(v.inner, n).op = "NOP" => Faithful(orig, "remove_nops", DeleteIr(v, n), n + 1)
<1>1. Faithful(orig, "remove_nops", v, n + 1)
  BY DEF Faithful
<1>2. /\ Rewrites(v) /\ n \in 0..Len(v.inner) /\ Len(v.inner) \in Nat
      /\ v.deleted \subseteq 0..(n - 1) /\ DOMAIN v.modified = {}
  BY RewritesIs DEF Placed
<1>3. n \in Irs(v.inner) \ v.deleted
  BY <1>2 DEF Irs
<1>4. PICK x : x = DeleteIr(v, n)
  OBVIOUS
<1>5. x.inner = v.inner /\ x.deleted = v.deleted \cup {n}
  BY <1>2, <1>3, <1>4, DeleteKeepsRewrites
<1>6. At(v.inner, n).op = "NOP" => Faithful(orig, "remove_nops", x, n + 1)
  BY <1>5 DEF Faithful
<1> QED BY <1>1, <1>4, <1>6

\* So does that of simplify_jumps, and that of remove_unreachable_code.
LEMMA InnerFaithful ==
    ASSUME NEW orig, NEW p, NEW q, NEW v, NEW u, NEW n, NEW m, u.inner = v.inner,
           p \notin {"remove_nops", "fold_consts", "done"},
           q \notin {"remove_nops", "fold_consts", "done"},
           Faithful(orig, p, v, n)
    PROVE  Faithful(orig, q, u, m)
BY DEF Faithful

\* An iteration of fold_consts rewrites the same code.
LEMMA FoldConstsInner ==
    ASSUME NEW v, NEW n, Folding(v, n), n \in 0..(Len(v.inner) - 1),
           NEW adds, adds = Folded([w |-> v, ir |-> n, ok |-> TRUE], "ADD"),
           NEW muls, muls = Folded(adds, "MUL"),
           NEW divs, divs = Folded(muls, "DIV"), divs.ok
    PROVE  divs.w.inner = v.inner
<1> DEFINE code == v.inner
           from == [w |-> v, ir |-> n, ok |-> TRUE]
<1>1. code \in Seq(WideInstruction) /\ Len(code) \in Nat /\ n \in Nat
  BY WideIsProgram DEF Folding
<1>2. Searching(from, code)
  BY <1>1 DEF Searching
<1> HIDE DEF from
<1>3. adds.ok => Searching(adds, code)
  BY <1>1, <1>2, FoldedKeepsSearching DEF FoldKinds, from
<1>4. muls.ok => Searching(muls, code)
  BY <1>1, <1>3, FoldedKeepsSearching DEF FoldKinds
<1>5. Searching(divs, code)
  BY <1>1, <1>4, FoldedKeepsSearching DEF FoldKinds
<1> QED BY <1>5 DEF Searching

\* An iteration of fold_consts leaves runs.
LEMMA FoldConstsFaithful ==
    ASSUME NEW orig, NEW v, NEW n, NEW marked, Placed("fold_consts", v, n, marked),
           n < Len(v.inner), Faithful(orig, "fold_consts", v, n),
           NEW adds, adds = Folded([w |-> v, ir |-> n, ok |-> TRUE], "ADD"),
           NEW muls, muls = Folded(adds, "MUL"),
           NEW divs, divs = Folded(muls, "DIV"), divs.ok
    PROVE  Faithful(orig, "fold_consts", divs.w, Continue(n, divs.ir))
<1>1. Folding(v, n) /\ n \in 0..(Len(v.inner) - 1)
  BY RewritesIs DEF Placed
<1>2. OverflowChecks => HasRuns(divs.w, Continue(n, divs.ir))
  BY <1>1, FoldConstsHasRuns DEF Faithful
<1>3. divs.w.inner = v.inner
  BY <1>1, FoldConstsInner
<1> QED BY <1>2, <1>3 DEF Faithful

\* Whichever pass ends, its code does what the original did.
LEMMA EndFaithful ==
    ASSUME NEW orig \in Seq(WideInstruction), NEW v, NEW marked, NEW u \in NewWoCode(Emitted(v)),
           NEW p, NEW q, Placed(p, v, Len(v.inner), marked), Faithful(orig, p, v, Len(v.inner)),
           \/ p = "remove_nops" /\ q = "simplify_jumps"
           \/ p = "simplify_jumps" /\ q = "mark_reachable"
           \/ p = "remove_unreachable_code" /\ q = "fold_consts"
           \/ p = "fold_consts" /\ q = "done"
    PROVE  Faithful(orig, q, u, 0)
BY NopsFaithful, JumpsFaithful, UnreachableFaithful, FoldsFaithful

\* Every iteration of every pass keeps the invariant of the optimizer.
LEMMA NextIsOptimizing == Optimizing /\ [Next]_vars => Optimizing'
<1> SUFFICES ASSUME Optimizing, [Next]_vars
             PROVE  Optimizing'
  OBVIOUS
<1>1. Inductive' /\ Inductive
  BY NextIsInductive DEF Optimizing
<1>2. /\ original \in Codes /\ Placed(pass, w, ir, reachable) /\ original \in Seq(WideInstruction)
      /\ pass # "panicked" => Faithful(original, pass, w, ir)
  BY <1>1, CodesAssumption DEF Inductive, Optimizing
<1>3. ASSUME pass' # "panicked"
      PROVE  Faithful(original', pass', w', ir')
  <2>1. CASE RemoveNop
    <3>1. /\ pass = "remove_nops" /\ ir < Len(w.inner) /\ ir' = ir + 1
          /\ original' = original /\ pass' = pass
          /\ w' = IF At(w.inner, ir).op = "NOP" THEN DeleteIr(w, ir) ELSE w
      BY <2>1 DEF RemoveNop, InLoop, Current
    <3> QED BY <1>2, <3>1, RemoveNopFaithful
  <2>2. CASE SimplifyJump
    <3>1. /\ pass = "simplify_jumps" /\ original' = original /\ pass' = pass
          /\ w' = w \/ \E i : w' = SetIr(w, ir, i)
      BY <2>2 DEF SimplifyJump, InLoop
    <3>2. w'.inner = w.inner
      <4>1. Rewrites(w) /\ WellFormed(w)
        BY <1>2, RewritesIs DEF Placed
      <4> QED BY <3>1, <4>1 DEF SetIr, WellFormed
    <3> QED BY <1>2, <3>1, <3>2, InnerFaithful
  <2>3. CASE MarkReachable
    <3>1. /\ pass = "mark_reachable" /\ pass' = "remove_unreachable_code"
          /\ original' = original /\ w' = w
      BY <1>3, <2>3 DEF MarkReachable, Panic
    <3> QED BY <1>2, <3>1, InnerFaithful
  <2>4. CASE RemoveUnreachable
    <3>1. /\ pass = "remove_unreachable_code" /\ original' = original /\ pass' = pass
          /\ w' = w \/ w' = DeleteIr(w, ir)
      BY <2>4 DEF RemoveUnreachable, InLoop
    <3>2. w'.inner = w.inner
      <4>1. Rewrites(w) /\ WellFormed(w)
        BY <1>2, RewritesIs DEF Placed
      <4> QED BY <3>1, <4>1 DEF DeleteIr, WellFormed
    <3> QED BY <1>2, <3>1, <3>2, InnerFaithful
  <2>5. CASE FoldConsts
    <3>1. pass = "fold_consts" /\ ir < Len(w.inner)
      BY <2>5 DEF FoldConsts, InLoop
    <3>2. PICK adds, muls, divs :
              /\ adds = Folded([w |-> w, ir |-> ir, ok |-> TRUE], "ADD")
              /\ muls = Folded(adds, "MUL")
              /\ divs = Folded(muls, "DIV")
              /\ \/ Panic
                 \/ /\ divs.ok /\ w' = divs.w /\ ir' = Continue(ir, divs.ir)
                    /\ UNCHANGED <<original, pass, reachable>>
      BY <2>5 DEF FoldConsts
    <3>3. /\ divs.ok /\ w' = divs.w /\ ir' = Continue(ir, divs.ir)
          /\ original' = original /\ pass' = pass
      BY <1>3, <3>2 DEF Panic
    <3>4. Faithful(original, "fold_consts", divs.w, Continue(ir, divs.ir))
      BY <1>2, <3>1, <3>2, <3>3, FoldConstsFaithful
    <3> QED BY <3>1, <3>3, <3>4
  <2>6. CASE EndPass
    <3>1. /\ pass \notin {"mark_reachable", "done", "panicked"} /\ ir = Len(w.inner)
          /\ w' \in NewWoCode(Emitted(w)) /\ ir' = 0 /\ original' = original
          /\ \E k \in 1..(Len(PassOrder) - 1) : PassOrder[k] = pass /\ pass' = PassOrder[k + 1]
      BY <2>6 DEF EndPass
    <3>2. PICK k \in {1, 2, 3, 4, 5} : PassOrder[k] = pass /\ pass' = PassOrder[k + 1]
      <4>1. 1..(Len(PassOrder) - 1) = {1, 2, 3, 4, 5}
        BY PassesInOrder
      <4> QED BY <3>1, <4>1
    <3>3. \/ pass = "remove_nops" /\ pass' = "simplify_jumps"
          \/ pass = "simplify_jumps" /\ pass' = "mark_reachable"
          \/ pass = "remove_unreachable_code" /\ pass' = "fold_consts"
          \/ pass = "fold_consts" /\ pass' = "done"
      BY <3>1, <3>2, PassesInOrder
    <3>4. Faithful(original, pass', w', 0)
      BY <1>2, <3>1, <3>3, EndFaithful
    <3> QED BY <3>1, <3>4
  <2>7. CASE UNCHANGED vars
    BY <1>2, <1>3, <2>7 DEF vars
  <2> QED BY <2>1, <2>2, <2>3, <2>4, <2>5, <2>6, <2>7 DEF Next
<1> QED BY <1>1, <1>3 DEF Optimizing

-----------------------------------------------------------------------------
(***************************************************************************)
(* Both machines execute programs alike.                                   *)
(***************************************************************************)
LEMMA SameRun1 == Ram1!RunIteration <=> P1!RunIteration
<1>1. \A e, i, m : Ram1!ReportPanics(e, i, m) <=> P1!ReportPanics(e, i, m)
  BY SameAccess1, SameLookup1 DEF Ram1!ReportPanics, P1!ReportPanics, Ram1!ReadsRegister, P1!ReadsRegister,
     Ram1!BinaryOps, P1!BinaryOps, Ram1!UnaryOps, P1!UnaryOps
<1> QED BY <1>1, SameStep1, SameAccess1 DEF Ram1!RunIteration, P1!RunIteration, Ram1!Broken, P1!Broken

\* An iteration of run() of the second machine is that of a Ram.
LEMMA SameRun2 == Ram2!RunIteration <=> P2!RunIteration
<1>1. \A e, i, m : Ram2!ReportPanics(e, i, m) <=> P2!ReportPanics(e, i, m)
  BY SameAccess2, SameLookup2 DEF Ram2!ReportPanics, P2!ReportPanics, Ram2!ReadsRegister, P2!ReadsRegister,
     Ram2!BinaryOps, P2!BinaryOps, Ram2!UnaryOps, P2!UnaryOps
<1> QED BY <1>1, SameStep2, SameAccess2 DEF Ram2!RunIteration, P2!RunIteration, Ram2!Broken, P2!Broken

\* The same values and errors.
LEMMA SameValues ==
    /\ P2!Ok = P1!Ok /\ P2!Usize = P1!Usize /\ P2!Number = P1!Number
    /\ P2!UnaryOps = P1!UnaryOps /\ P2!BinaryOps = P1!BinaryOps
    /\ P2!ConditionalJumps = P1!ConditionalJumps
    /\ \A c, i : P2!At(c, i) = P1!At(c, i)
    /\ \A c, i : P2!Exists(c, i) <=> P1!Exists(c, i)
    /\ \A op, a, b : P2!Exact(op, a, b) = P1!Exact(op, a, b)
    /\ \A op, a, b : P2!Checked(op, a, b) = P1!Checked(op, a, b)
    /\ \A e, r : P2!LeftBy(e, r) = P1!LeftBy(e, r)
    /\ P2!File = P1!File
<1>1. /\ P2!Ok = P1!Ok /\ P2!Usize = P1!Usize /\ P2!Number = P1!Number
      /\ P2!UnaryOps = P1!UnaryOps /\ P2!BinaryOps = P1!BinaryOps
      /\ P2!ConditionalJumps = P1!ConditionalJumps
      /\ \A c, i : P2!At(c, i) = P1!At(c, i)
      /\ \A c, i : P2!Exists(c, i) <=> P1!Exists(c, i)
  BY DEF P1!Ok, P2!Ok, P1!Usize, P2!Usize, P1!Number, P2!Number, P1!MinInt, P2!MinInt,
     P1!UnaryOps, P2!UnaryOps, P1!BinaryOps, P2!BinaryOps, P1!ConditionalJumps,
     P2!ConditionalJumps, P1!At, P2!At, P1!Exists, P2!Exists
<1>2. \A op, a, b : P2!Exact(op, a, b) = P1!Exact(op, a, b)
  BY DEF P1!Exact, P2!Exact, P1!Quotient, P2!Quotient, P1!Magnitude, P2!Magnitude
<1>3. \A op, a, b : P2!Checked(op, a, b) = P1!Checked(op, a, b)
  BY <1>1, <1>2 DEF P1!Checked, P2!Checked, P1!MinInt, P2!MinInt
<1>4. P2!File = P1!File /\ \A e, r : P2!LeftBy(e, r) = P1!LeftBy(e, r)
  BY DEF P1!File, P2!File, P1!LeftBy, P2!LeftBy
<1> QED BY <1>1, <1>2, <1>3, <1>4

\* Both machines speak of the same errors.
LEMMA SameErrors ==
    /\ \A r, i : P2!Place(r, i) = P1!Place(r, i)
    /\ \A r : P2!AccError(r) = P1!AccError(r)
    /\ \A r, i : P2!Fetched(r, i) = P1!Fetched(r, i)
    /\ \A r, i : P2!FetchError(r, i) = P1!FetchError(r, i)
    /\ \A r, i : P2!StoreError(r, i) = P1!StoreError(r, i)
    /\ \A r, i : P2!UnopError(r, i) = P1!UnopError(r, i)
    /\ \A r, i : P2!BinopError(r, i) = P1!BinopError(r, i)
<1>1. /\ \A r, i : P2!Place(r, i) = P1!Place(r, i)
      /\ \A r : P2!AccError(r) = P1!AccError(r)
      /\ \A r, i : P2!PlaceError(r, i) = P1!PlaceError(r, i)
  BY SameValues DEF P1!Place, P2!Place, P1!AccError, P2!AccError, P1!PlaceError, P2!PlaceError,
     P1!BeyondError, P2!BeyondError
<1>2. \A r, i : P2!GetError(r, i) = P1!GetError(r, i)
  BY <1>1, SameValues DEF P1!GetError, P2!GetError
<1>3. /\ \A r, i : P2!Fetched(r, i) = P1!Fetched(r, i)
      /\ \A r, i : P2!FetchError(r, i) = P1!FetchError(r, i)
  BY <1>1, <1>2, SameValues DEF P1!Fetched, P2!Fetched, P1!FetchError, P2!FetchError
<1>4. \A r, i : P2!StoreError(r, i) = P1!StoreError(r, i)
  BY <1>1, SameValues DEF P1!StoreError, P2!StoreError
<1>5. \A r, i : P2!UnopError(r, i) = P1!UnopError(r, i)
  BY <1>1, <1>2, SameValues DEF P1!UnopError, P2!UnopError
<1>6. \A r, i : P2!BinopError(r, i) = P1!BinopError(r, i)
  BY <1>1, <1>3, SameValues DEF P1!BinopError, P2!BinopError
<1> QED BY <1>1, <1>3, <1>4, <1>5, <1>6

\* The same steps.
LEMMA SameAfter ==
    \A c, s : P2!After(c, s) = P1!After(c, s)
<1>1. ASSUME NEW i, NEW s
      PROVE  P2!Trouble(i, s) = P1!Trouble(i, s)
  BY SameValues, SameErrors DEF P1!Trouble, P2!Trouble
<1>2. ASSUME NEW i, NEW s
      PROVE  P2!RegistersAfter(i, s) = P1!RegistersAfter(i, s)
  BY SameValues, SameErrors DEF P1!RegistersAfter, P2!RegistersAfter
<1>3. ASSUME NEW i, NEW s
      PROVE  /\ P2!InputAfter(i, s) = P1!InputAfter(i, s)
             /\ P2!OutputAfter(i, s) = P1!OutputAfter(i, s)
             /\ P2!Leaps(i, s) <=> P1!Leaps(i, s)
  BY <1>1, SameValues DEF P1!InputAfter, P2!InputAfter, P1!OutputAfter, P2!OutputAfter,
     P1!Leaps, P2!Leaps, P1!Jumps, P2!Jumps
<1>4. ASSUME NEW c, NEW s
      PROVE  P2!After(c, s) = P1!After(c, s)
  BY <1>1, <1>2, <1>3, SameValues DEF P1!After, P2!After
<1> QED BY <1>4

\* And what follows from them.
LEMMA SameEnds ==
    /\ \A x : P2!Begin(x) = P1!Begin(x)
    /\ \A c, s : P2!Live(c, s) <=> P1!Live(c, s)
    /\ P2!Excused = P1!Excused
BY SameValues DEF P1!Begin, P2!Begin, P1!Live, P2!Live, P1!Excused, P2!Excused

-----------------------------------------------------------------------------
(***************************************************************************)
(* The process of the test harness: where its two machines are.            *)
(***************************************************************************)
Made == {"running", "idle", "exited", "panicked", "undefined"}

\* Of an original that does not fit no machine is made.
Machine1 ==
    /\ driver1 \in Made \cup {"none"}
    /\ driver1 # "none" => pass = "done" /\ given \in Seq(Number \cup {None})
    /\ driver1 = "none" =>
           memory1 = [a \in {} |-> Uninit] /\ ir1 = 0 /\ result1 = "Ok" /\ driver2 = "none"
    /\ driver1 = "none" \/ ~Fits(original) => output1 = << >>
    /\ driver1 # "none" /\ ~Fits(original) => driver1 = "panicked"
    /\ driver1 # "none" /\ Fits(original) =>
           P1!Launched /\ P1!LeadsTo(original, P1!Begin(given), P1!Seen)

\* Nor of an optimized code that does not fit or has no instructions.
Machine2 ==
    /\ driver2 \in Made \cup {"none"}
    /\ driver2 # "none" => driver1 \in {"idle", "exited"}
    /\ driver2 = "none" => memory2 = [a \in {} |-> Uninit] /\ ir2 = 0 /\ result2 = "Ok"
    /\ driver2 = "none" \/ ~Fits(w.inner) \/ w.inner = << >> => output2 = << >>
    /\ driver2 # "none" /\ ~Fits(w.inner) => driver2 = "panicked"
    /\ driver2 # "none" /\ Fits(w.inner) /\ w.inner = << >> => driver2 = "exited"
    /\ driver2 # "none" /\ Fits(w.inner) /\ w.inner # << >> =>
           P2!Launched /\ P1!LeadsTo(w.inner, P1!Begin(given), P2!Seen)

RunInv == Optimizing /\ Machine1 /\ Machine2

\* The optimizer does nothing once it is done.
LEMMA DoneIsDone == pass = "done" => ~Next
BY DEF Next, RemoveNop, SimplifyJump, MarkReachable, RemoveUnreachable, FoldConsts, EndPass, InLoop

\* Both programs, where they fit, are programs of the machines without indirect jumps.
LEMMA BothAreRunnable ==
    ASSUME Optimizing
    PROVE  /\ original \in Seq(WideInstruction) /\ original # << >>
           /\ w.inner \in Seq(WideInstruction)
           /\ Fits(original) => original \in Runnable /\ P1!Direct(original)
           /\ Fits(w.inner) /\ pass = "done" => w.inner \in Runnable /\ P2!Direct(w.inner)
<1>1. /\ original \in Codes /\ original \in Seq(WideInstruction) /\ original # << >>
      /\ Len(original) <= MaxIr
  BY CodesAssumption, BoundAssumption DEF Optimizing, Inductive
<1>2. w.inner \in Seq(WideInstruction)
  BY RewritesIs DEF Optimizing, Inductive, Placed
<1>3. P1!Direct(original)
  BY <1>1, DirectAssumption DEF P1!Direct
<1>4. pass = "done" => Len(w.inner) <= Len(original) /\ P2!Direct(w.inner)
  BY DEF Optimizing, Faithful, Direct, P2!Direct
<1>5. pass = "done" => Len(w.inner) <= MaxIr
  <2>1. Len(w.inner) \in Nat /\ Len(original) \in Nat /\ MaxIr \in Nat
    BY <1>1, <1>2, BoundAssumption
  <2> QED BY <1>1, <1>4, <2>1
<1> QED BY <1>1, <1>2, <1>3, <1>4, <1>5, FittingIsRunnable DEF Runnable

\* The assumptions of the second machine hold of the constants, too.
LEMMA SameAssumptions2 ==
    /\ MaxInt \in Nat \ {0} /\ MaxUsize \in Nat
    /\ MaxCells \in 1..MaxUsize /\ OverflowChecks \in BOOLEAN
    /\ Uninit \notin P2!Number \cup P2!Usize /\ None \notin P2!Number
    /\ Inputs \subseteq Seq(P2!Number \cup {None})
    /\ MaxOutput \in Nat /\ MaxIr \in Nat
    /\ Runnable \subseteq { p \in Seq(P2!Instruction) : Len(p) <= MaxIr }
<1>1. /\ P2!Number = Number /\ P2!Usize = Usize /\ P2!JumpOps = JumpOps
      /\ P2!BinaryOps = BinaryOps /\ P2!UnaryOps = UnaryOps
  BY DEF P2!Number, Number, P2!MinInt, MinInt, P2!Usize, Usize, P2!JumpOps, JumpOps,
         P2!ConditionalJumps, ConditionalJumps, P2!BinaryOps, BinaryOps, P2!UnaryOps, UnaryOps
<1>2. P2!Instruction = Instruction
  BY <1>1 DEF P2!Instruction, Instruction, P2!Value, Value, P2!Register, Register, P2!Address, Address
<1> QED
  BY <1>1, <1>2, WidthAssumption, MarkAssumption, InputAssumption, BoundAssumption,
     MemoryAssumption, ChecksAssumption DEF Runnable

\* No machine runs before the optimizer.
LEMMA InitIsRunInv == RunInit => RunInv
<1> SUFFICES ASSUME RunInit
             PROVE  RunInv
  OBVIOUS
<1>1. Optimizing
  BY InitIsOptimizing DEF RunInit
<1> QED BY <1>1 DEF RunInit, RunInv, Machine1, Machine2, Made

\* What leaves a machine alone.
LEMMA MachineStays ==
    /\ UNCHANGED <<vars, given, machine1>> =>
           /\ P1!Launched => P1!Launched'
           /\ P1!Seen' = P1!Seen
    /\ UNCHANGED <<vars, given, machine2>> =>
           /\ P2!Launched => P2!Launched'
           /\ P2!Seen' = P2!Seen
<1>1. /\ UNCHANGED <<vars, given, machine1>> => UNCHANGED P1!vars
      /\ UNCHANGED <<vars, given, machine2>> => UNCHANGED P2!vars
  BY DEF vars, machine1, machine2, P1!vars, P2!vars
<1> QED BY <1>1, P1!RunStays, P2!RunStays, SameAssumptions, SameAssumptions2

\* The optimizer runs before both machines.
LEMMA OptimizeKeepsRunInv ==
    ASSUME RunInv, Optimize
    PROVE  RunInv'
<1>1. Next /\ UNCHANGED <<given, machine1, machine2>>
  BY DEF Optimize
<1>2. driver1 = "none" /\ driver2 = "none"
  BY <1>1, DoneIsDone DEF RunInv, Machine1
<1>3. Optimizing'
  BY <1>1, NextIsOptimizing DEF RunInv
<1>4. Machine1' /\ Machine2'
  BY <1>1, <1>2 DEF RunInv, Machine1, Machine2, Made, machine1, machine2
<1> QED BY <1>3, <1>4 DEF RunInv

\* Ram::new of the original begins an execution of it.
LEMMA NewOriginalKeepsRunInv ==
    ASSUME RunInv, NewOriginal
    PROVE  RunInv'
<1>1. /\ pass = "done" /\ driver1 = "none" /\ given' \in Inputs /\ input1' = given'
      /\ inst1' = FirstOf(original, inst1) /\ driver1' = Started(original)
      /\ UNCHANGED <<vars, output1, memory1, ir1, result1, machine2>>
      /\ Optimizing
  BY DEF NewOriginal, RunInv
<1>2. UNCHANGED vars
  BY <1>1
<1>3. /\ output1' = << >> /\ memory1' = [a \in {} |-> Uninit] /\ ir1' = 0 /\ result1' = "Ok"
      /\ driver2' = "none"
  BY <1>1 DEF RunInv, Machine1, machine2
<1>4. given' \in Seq(Number \cup {None}) /\ input1' \in Seq(P1!Number \cup {None})
  BY <1>1, InputAssumption, SameSets
<1>5. original' = original /\ original # << >> /\ pass' = pass
  BY <1>2, <1>1, BothAreRunnable DEF vars
<1>6. Optimizing'
  BY <1>1, <1>2, NextIsOptimizing
<1>7. CASE ~Fits(original)
  <2>1. driver1' = "panicked"
    BY <1>1, <1>7 DEF Started
  <2>2. Machine1'
    BY <1>1, <1>3, <1>4, <1>5, <1>7, <2>1 DEF Machine1, Made
  <2>3. Machine2'
    BY <1>1, <1>3, <1>5, <2>1 DEF RunInv, Machine1, Machine2, Made, vars, machine2
  <2> QED BY <1>6, <2>2, <2>3 DEF RunInv
<1>8. CASE Fits(original)
  <2>1. driver1' = "running" /\ inst1' = P1!At(original', 0)
    BY <1>1, <1>5, <1>8, SameSets DEF Started, FirstOf
  <2>2. original' \in Runnable
    BY <1>1, <1>5, <1>8, BothAreRunnable
  <2>3. result1' = P1!Ok
    BY <1>3 DEF P1!Ok
  <2>4. P1!Launched' /\ P1!Seen' = P1!Begin(input1')
    BY <1>3, <1>4, <1>5, <2>1, <2>2, <2>3, P1!RunStarts, SameAssumptions
  <2>5. P1!LeadsTo(original', P1!Begin(given'), P1!Seen')
    BY <1>1, <2>4, P1!LeadsToItself, SameAssumptions
  <2>6. Machine1'
    BY <1>1, <1>4, <1>5, <1>8, <2>1, <2>4, <2>5 DEF Machine1, Made
  <2>7. Machine2'
    BY <1>1, <1>3, <1>5, <2>1 DEF RunInv, Machine1, Machine2, Made, vars, machine2
  <2> QED BY <1>6, <2>6, <2>7 DEF RunInv
<1> QED BY <1>7, <1>8

\* The first machine goes on with the execution of the original.
LEMMA RunOriginalKeepsRunInv ==
    ASSUME RunInv, RunOriginal
    PROVE  RunInv'
<1>1. /\ UNCHANGED <<vars, given, machine2>> /\ P1!RunIteration /\ UNCHANGED vars
      /\ Optimizing /\ Machine1 /\ Machine2
  BY SameRun1 DEF RunOriginal, RunInv
<1>2. driver1 = "running"
  BY <1>1 DEF P1!RunIteration
<1>3. Optimizing'
  BY <1>1, NextIsOptimizing
<1>4. /\ Fits(original) /\ P1!Launched /\ P1!LeadsTo(original, P1!Begin(given), P1!Seen)
      /\ pass = "done" /\ given \in Seq(Number \cup {None}) /\ driver2 = "none"
  BY <1>1, <1>2 DEF Machine1, Machine2, Made
<1>5. original' = original /\ given' = given /\ pass' = pass /\ driver2' = driver2
  BY <1>1 DEF vars, machine2
<1>6. P1!Launched' /\ P1!Seen' = P1!After(original, P1!Seen)
  BY <1>1, <1>4, BothAreRunnable, P1!RunGoesOn, SameAssumptions
<1>7. P1!LeadsTo(original, P1!Begin(given), P1!Seen')
  BY <1>4, <1>6, P1!LeadsToNext, SameAssumptions
<1>8. driver1' \in Made
  BY <1>6 DEF P1!Launched, P1!TypeOK, Made
<1>9. Machine1'
  BY <1>4, <1>5, <1>6, <1>7, <1>8 DEF Machine1, Made
<1>10. Machine2'
  BY <1>1, <1>4, <1>5 DEF Machine2, Made, vars, machine2
<1> QED BY <1>3, <1>9, <1>10 DEF RunInv

\* Ram::new of the optimized code begins an execution of it on the same input.
LEMMA NewOptimizedKeepsRunInv ==
    ASSUME RunInv, NewOptimized
    PROVE  RunInv'
<1>1. /\ driver1 \notin {"none", "running", "panicked", "undefined"} /\ driver2 = "none" /\ input2' = given
      /\ inst2' = FirstOf(w.inner, inst2) /\ driver2' = Started(w.inner)
      /\ UNCHANGED <<vars, given, machine1, output2, memory2, ir2, result2>>
      /\ Optimizing /\ Machine1 /\ Machine2
  BY DEF NewOptimized, RunInv
<1>2. UNCHANGED vars /\ UNCHANGED <<vars, given, machine1>>
  BY <1>1
<1>3. /\ output2' = << >> /\ memory2' = [a \in {} |-> Uninit] /\ ir2' = 0 /\ result2' = "Ok"
  BY <1>1 DEF Machine2
<1>4. /\ driver1 \in {"idle", "exited"} /\ driver1' = driver1 /\ output1' = output1
      /\ pass = "done" /\ pass' = pass /\ given \in Seq(Number \cup {None}) /\ given' = given
      /\ original' = original /\ w' = w
      /\ Fits(original) /\ P1!Launched /\ P1!LeadsTo(original, P1!Begin(given), P1!Seen)
  BY <1>1, <1>2 DEF Machine1, Made, vars, machine1
<1>5. Optimizing'
  BY <1>1, <1>2, NextIsOptimizing
<1>6. Machine1'
  BY <1>2, <1>4, MachineStays DEF Machine1, Made
<1>7. CASE ~Fits(w.inner)
  <2>1. driver2' = "panicked"
    BY <1>1, <1>7 DEF Started
  <2>2. Machine2'
    BY <1>3, <1>4, <1>7, <2>1 DEF Machine2, Made
  <2> QED BY <1>5, <1>6, <2>2 DEF RunInv
<1>8. CASE Fits(w.inner) /\ w.inner = << >>
  <2>1. driver2' = "exited"
    BY <1>1, <1>8 DEF Started
  <2>2. Machine2'
    BY <1>3, <1>4, <1>8, <2>1 DEF Machine2, Made
  <2> QED BY <1>5, <1>6, <2>2 DEF RunInv
<1>9. CASE Fits(w.inner) /\ w.inner # << >>
  <2>1. driver2' = "running" /\ inst2' = P2!At(w'.inner, 0)
    BY <1>1, <1>4, <1>9, SameSets, SameValues DEF Started, FirstOf
  <2>2. w'.inner \in Runnable /\ w'.inner # << >>
    BY <1>1, <1>4, <1>9, BothAreRunnable
  <2>3. result2' = P2!Ok /\ input2' \in Seq(P2!Number \cup {None}) /\ input2' = given'
    BY <1>1, <1>3, <1>4, SameSets, SameValues DEF P2!Ok
  <2>4. P2!Launched' /\ P2!Seen' = P2!Begin(input2')
    BY <1>3, <2>1, <2>2, <2>3, P2!RunStarts, SameAssumptions2
  <2>5. P1!LeadsTo(w'.inner, P1!Begin(given'), P2!Seen')
    BY <2>3, <2>4, P1!LeadsToItself, SameAssumptions, SameEnds
  <2>6. Machine2'
    BY <1>3, <1>4, <1>9, <2>1, <2>4, <2>5 DEF Machine2, Made
  <2> QED BY <1>5, <1>6, <2>6 DEF RunInv
<1> QED BY <1>7, <1>8, <1>9

\* The second machine goes on with the execution of the optimized code.
LEMMA RunOptimizedKeepsRunInv ==
    ASSUME RunInv, RunOptimized
    PROVE  RunInv'
<1>1. /\ UNCHANGED <<vars, given, machine1>> /\ P2!RunIteration /\ UNCHANGED vars
      /\ Optimizing /\ Machine1 /\ Machine2
  BY SameRun2 DEF RunOptimized, RunInv
<1>2. driver2 = "running"
  BY <1>1 DEF P2!RunIteration
<1>3. Optimizing'
  BY <1>1, NextIsOptimizing
<1>4. /\ Fits(w.inner) /\ w.inner # << >> /\ P2!Launched
      /\ P1!LeadsTo(w.inner, P1!Begin(given), P2!Seen)
      /\ driver1 \in {"idle", "exited"}
  BY <1>1, <1>2 DEF Machine2, Made
<1>5. /\ pass = "done" /\ given \in Seq(Number \cup {None})
      /\ Fits(original) /\ P1!Launched /\ P1!LeadsTo(original, P1!Begin(given), P1!Seen)
  BY <1>1, <1>4 DEF Machine1, Made
<1>6. /\ original' = original /\ w' = w /\ given' = given /\ pass' = pass
      /\ driver1' = driver1 /\ output1' = output1
  BY <1>1 DEF vars, machine1
<1>7. P2!Launched' /\ P2!Seen' = P2!After(w.inner, P2!Seen)
  BY <1>1, <1>4, <1>5, BothAreRunnable, P2!RunGoesOn, SameAssumptions2
<1>8. P1!LeadsTo(w.inner, P1!Begin(given), P2!Seen')
  BY <1>4, <1>7, P1!LeadsToNext, SameAssumptions, SameAfter
<1>9. driver2' \in Made
  BY <1>7 DEF P2!Launched, P2!TypeOK, Made
<1>10. Machine1'
  BY <1>1, <1>4, <1>5, <1>6, MachineStays DEF Machine1, Made
<1>11. Machine2'
  BY <1>4, <1>6, <1>7, <1>8, <1>9 DEF Machine2, Made
<1> QED BY <1>3, <1>10, <1>11 DEF RunInv

\* Every step of the composition keeps the invariant.
LEMMA NextIsRunInv == RunInv /\ [RunNext]_allvars => RunInv'
<1> SUFFICES ASSUME RunInv, [RunNext]_allvars
             PROVE  RunInv'
  OBVIOUS
<1>1. CASE UNCHANGED allvars
  <2>1. UNCHANGED vars /\ UNCHANGED <<vars, given, machine1>> /\ UNCHANGED <<vars, given, machine2>>
    BY <1>1 DEF allvars
  <2>2. Optimizing'
    BY <2>1, NextIsOptimizing DEF RunInv
  <2>3. Machine1'
    BY <2>1, MachineStays DEF RunInv, Machine1, Made, vars, machine1, machine2
  <2>4. Machine2'
    BY <2>1, MachineStays DEF RunInv, Machine2, Made, vars, machine1, machine2
  <2> QED BY <2>2, <2>3, <2>4 DEF RunInv
<1> QED
  BY <1>1, OptimizeKeepsRunInv, NewOriginalKeepsRunInv, RunOriginalKeepsRunInv,
     NewOptimizedKeepsRunInv, RunOptimizedKeepsRunInv DEF RunNext

\* The optimizer does its work, and both machines execute what they were given.
LEMMA RunInvAlways == RunSpec => []RunInv
BY InitIsRunInv, NextIsRunInv, PTL DEF RunSpec

-----------------------------------------------------------------------------
(***************************************************************************)
(* The theorems.                                                           *)
(***************************************************************************)

\* The types of the harness.
LEMMA RunInvIsTyped == RunInv => RunTypeOK
<1> SUFFICES ASSUME RunInv
             PROVE  RunTypeOK
  OBVIOUS
<1>1. TypeOK
  BY PassesInOrder DEF RunInv, Optimizing, Inductive, Placed, TypeOK, Rewrites, WellFormed, Passing
<1>2. output1 \in Seq(Number)
  <2>1. P1!Launched => output1 \in Seq(Number)
    BY SameSets DEF P1!Launched, P1!TypeOK
  <2>2. P1!Launched \/ output1 = << >>
    BY DEF RunInv, Machine1, Made
  <2>3. << >> \in Seq(Number)
    OBVIOUS
  <2> QED BY <2>1, <2>2, <2>3
<1>3. output2 \in Seq(Number)
  <2>1. P2!Launched => output2 \in Seq(Number)
    BY SameSets, SameValues DEF P2!Launched, P2!TypeOK
  <2>2. P2!Launched \/ output2 = << >>
    BY DEF RunInv, Machine2, Made
  <2>3. << >> \in Seq(Number)
    OBVIOUS
  <2> QED BY <2>1, <2>2, <2>3
<1> QED BY <1>1, <1>2, <1>3 DEF RunInv, Machine1, Machine2, Made, RunTypeOK

\* Where the original has ended and the optimized code was started, there is a machine for it,
\* which is on the way to the same end.
LEMMA OptimizedIsOnTheWay ==
    ASSUME OverflowChecks, RunInv, OriginalEnded, driver2 # "none", Fits(w.inner)
    PROVE  /\ w.inner # << >> /\ P2!Launched
           /\ P1!Starts(output2, output1)
           /\ driver2 # "running" => /\ P1!Alike(P1!Seen, P2!Seen)
                                     /\ P1!EndsWell(w.inner, P2!Seen)
<1>1. /\ Optimizing /\ driver1 \in {"idle", "exited"} /\ driver1 \in Made
      /\ result1 \in {"Ok", "ReadEof", "InvalidAddress", "Eof"}
  BY DEF RunInv, OriginalEnded, Made
<1>2. /\ Fits(original) /\ P1!Launched /\ P1!LeadsTo(original, P1!Begin(given), P1!Seen)
      /\ pass = "done" /\ given \in Seq(Number \cup {None})
  BY <1>1 DEF RunInv, Machine1
<1>3. Fits(w.inner)
  OBVIOUS
<1>4. P1!Preserves(original, w.inner)
  BY <1>1, <1>2, <1>3 DEF Optimizing, Faithful
<1>5. P1!EndsWell(original, P1!Seen)
  <2>1. result1 \notin P1!Excused /\ driver1 # "running"
    BY <1>1 DEF P1!Excused
  <2> QED BY <1>2, <2>1, P1!RunEnds, SameAssumptions
<1>6. w.inner \in Runnable /\ w.inner \in Seq(P1!Instruction)
  BY <1>1, <1>2, <1>3, BothAreRunnable, SameSets DEF Runnable
<1>7. w.inner # << >>
  <2> SUFFICES ASSUME w.inner = << >>
               PROVE  FALSE
    OBVIOUS
  <2>1. ~P1!Live(w.inner, P1!Begin(given)) /\ ~P1!EndsWell(w.inner, P1!Begin(given))
    BY SameSets DEF P1!Live, P1!EndsWell, P1!Begin, Exists
  <2>2. P1!LeadsTo(w.inner, P1!Begin(given), P1!Begin(given))
    BY P1!LeadsToItself, SameAssumptions
  <2> QED
    BY <1>2, <1>4, <1>5, <1>6, <2>1, <2>2, P1!OnTheWay, SameSets, SameAssumptions
<1>8. P2!Launched /\ P1!LeadsTo(w.inner, P1!Begin(given), P2!Seen)
  BY <1>3, <1>7 DEF RunInv, Machine2
<1>9. /\ P1!Starts(P2!Seen.out, P1!Seen.out)
      /\ ~P1!Live(w.inner, P2!Seen) =>
             P1!EndsWell(w.inner, P2!Seen) /\ P1!Alike(P1!Seen, P2!Seen)
  BY <1>2, <1>4, <1>5, <1>6, <1>8, P1!OnTheWay, SameSets, SameAssumptions
<1>10. P1!Seen.out = output1 /\ P2!Seen.out = output2
  BY DEF P1!Seen, P2!Seen
<1>11. driver2 # "running" => ~P1!Live(w.inner, P2!Seen)
  BY <1>8, P2!RunEnds, SameAssumptions2, SameEnds
<1> QED BY <1>7, <1>8, <1>9, <1>10, <1>11

\* Two executions that are over have ended alike, as the optimizer preserves the original.
LEMMA RunInvIsVerdict ==
    ASSUME OverflowChecks, RunInv
    PROVE  SameVerdict
<1> SUFFICES ASSUME OriginalEnded, driver2 \in {"idle", "exited"}
             PROVE  /\ driver2 = driver1 /\ output2 = output1
                    /\ result2 = result1 \/ (result1 = "Eof" /\ result2 = "InexistentJump")
  BY DEF SameVerdict
<1>1. /\ driver2 # "none" /\ driver2 # "running" /\ driver1 # "running"
      /\ Fits(w.inner) /\ P1!Launched
  BY DEF OriginalEnded, RunInv, Machine1, Machine2
<1>2. P1!Alike(P1!Seen, P2!Seen) /\ P2!Launched
  BY <1>1, OptimizedIsOnTheWay
<1>3. /\ P1!Seen.out = output1 /\ P2!Seen.out = output2
      /\ P1!Seen.res = result1 /\ P2!Seen.res = result2
  BY DEF P1!Seen, P2!Seen
<1>4. /\ output1 = output2
      /\ result1 = result2 \/ {result1, result2} \subseteq {"Eof", "InexistentJump"}
  BY <1>2, <1>3 DEF P1!Alike, P1!OffTheEnd
<1>5. result1 \in {"Ok", "ReadEof", "InvalidAddress", "Eof"}
  BY DEF OriginalEnded
<1>6. /\ driver1 = "idle" <=> result1 = "Ok"
      /\ driver2 = "idle" <=> result2 = "Ok"
  BY <1>1, <1>2, P1!RunEnds, P2!RunEnds, SameAssumptions, SameAssumptions2 DEF P1!Ok, P2!Ok
<1>7. driver1 \in {"idle", "exited"}
  BY DEF OriginalEnded
<1> QED BY <1>4, <1>5, <1>6, <1>7

\* Whatever the first machine has printed when it ended, the second prints nothing else.
LEMMA RunInvIsPrefix ==
    ASSUME OverflowChecks, RunInv
    PROVE  SameOutputSoFar
<1> SUFFICES ASSUME OriginalEnded
             PROVE  IsPrefix(output2, output1)
  BY DEF SameOutputSoFar
<1>1. output1 \in Seq(Number) /\ output2 \in Seq(Number)
  BY RunInvIsTyped DEF RunTypeOK
<1>2. P1!Starts(output2, output1)
  <2>1. CASE driver2 # "none" /\ Fits(w.inner)
    BY <2>1, OptimizedIsOnTheWay
  <2>2. CASE ~(driver2 # "none" /\ Fits(w.inner))
    <3>1. output2 = << >>
      BY <2>2 DEF RunInv, Machine2
    <3> QED BY <1>1, <3>1 DEF P1!Starts
  <2> QED BY <2>1, <2>2
<1>3. Len(output2) <= Len(output1) /\ \A k \in 1..Len(output2) : output2[k] = output1[k]
  BY <1>2 DEF P1!Starts
<1> QED BY <1>1, <1>3 DEF IsPrefix

\* The optimizer and the two machines keep to their types.
THEOREM RunsAreTyped == RunSpec => []RunTypeOK
BY RunInvAlways, RunInvIsTyped, PTL

\* Where overflows panic, the result of run_passes does, on every input on which its argument
\* comes to an end that is not the error of an instruction it may fold, what its argument does.
THEOREM OptimizerPreserves ==
    OverflowChecks =>
        (Spec => [](pass = "done" /\ Fits(original) /\ Fits(w.inner) =>
                        P1!Preserves(original, w.inner)))
<1> SUFFICES ASSUME OverflowChecks
             PROVE  Spec => [](pass = "done" /\ Fits(original) /\ Fits(w.inner) =>
                                   P1!Preserves(original, w.inner))
  OBVIOUS
<1>1. Optimizing => (pass = "done" /\ Fits(original) /\ Fits(w.inner) =>
                         P1!Preserves(original, w.inner))
  BY DEF Optimizing, Faithful
<1> QED BY <1>1, InitIsOptimizing, NextIsOptimizing, PTL DEF Spec

\* The optimized program ends as the original does, and has printed the same.
THEOREM VerdictsAgree == OverflowChecks => (RunSpec => []SameVerdict)
<1> SUFFICES ASSUME OverflowChecks
             PROVE  RunSpec => []SameVerdict
  OBVIOUS
<1>1. RunInv => SameVerdict
  BY RunInvIsVerdict
<1> QED BY <1>1, RunInvAlways, PTL

\* On its way there it prints nothing that the original does not print.
THEOREM OutputsAgree == OverflowChecks => (RunSpec => []SameOutputSoFar)
<1> SUFFICES ASSUME OverflowChecks
             PROVE  RunSpec => []SameOutputSoFar
  OBVIOUS
<1>1. RunInv => SameOutputSoFar
  BY RunInvIsPrefix
<1> QED BY <1>1, RunInvAlways, PTL
====
