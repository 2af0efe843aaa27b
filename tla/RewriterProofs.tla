--------------------------- MODULE RewriterProofs ---------------------------
(***************************************************************************)
(* Lemmas about the operations of Rewriter, for every program whose jumps  *)
(* lead to natural numbers, and the inductions that they need: over an     *)
(* interval of the natural numbers, by sets instead of by predicates.      *)
(***************************************************************************)
EXTENDS Rewriter, FiniteSetTheorems, FunctionTheorems, WellFoundedInduction, TLAPS

-----------------------------------------------------------------------------
(***************************************************************************)
(* Induction and recursion.                                                *)
(***************************************************************************)

\* A set of natural numbers has a least element: the one whose interval is the smallest.
LEMMA LeastExists ==
    ASSUME NEW S \in SUBSET Nat, S # {}
    PROVE  \E m \in S : \A x \in S : m <= x
<1> DEFINE T == { 0..x : x \in S }
<1>1. T \subseteq FiniteSubsetsOf(Nat) /\ T # {}
  <2>1. ASSUME NEW x \in S
        PROVE  0..x \in FiniteSubsetsOf(Nat)
    <3>1. 0 \in Int /\ x \in Int
      OBVIOUS
    <3> QED
      BY <3>1, FS_Interval DEF FiniteSubsetsOf
  <2> QED
    BY <2>1
<1>2. PICK t \in T : \A u \in T : <<u, t>> \notin StrictSubsetOrdering(Nat)
  BY <1>1, FS_StrictSubsetOrderingWellFounded, WFMin
<1>3. PICK m \in S : t = 0..m
  OBVIOUS
<1>4. ASSUME NEW x \in S
      PROVE  m <= x
  <2> SUFFICES ASSUME x < m
               PROVE  FALSE
    OBVIOUS
  <2>1. 0..x \subseteq 0..m /\ m \in 0..m /\ m \notin 0..x
    OBVIOUS
  <2>2. 0..x \in SUBSET Nat /\ 0..m \in SUBSET Nat /\ 0..x # 0..m
    BY <2>1
  <2>3. <<0..x, 0..m>> \in StrictSubsetOrdering(Nat)
    BY <2>1, <2>2 DEF StrictSubsetOrdering
  <2> QED
    BY <1>2, <1>3, <2>3
<1> QED
  BY <1>4

\* A set that holds the first number of an interval, and with each number the next one,
\* holds the interval.
LEMMA IntervalInduction ==
    ASSUME NEW a \in Nat, NEW b \in Nat, NEW S, a <= b => a \in S,
           \A n \in a..(b - 1) : n \in S => n + 1 \in S
    PROVE  (\A n \in a..b : n \in S) /\ (a <= b => b \in S)
<1> SUFFICES ASSUME NEW n0 \in a..b, n0 \notin S
             PROVE  FALSE
  OBVIOUS
<1> DEFINE missing == { n \in a..b : n \notin S }
<1>1. missing \in SUBSET Nat /\ missing # {}
  OBVIOUS
<1>2. PICK m \in missing : \A x \in missing : m <= x
  BY <1>1, LeastExists
<1>3. m \in Nat /\ m # a /\ a <= m /\ m <= b
  OBVIOUS
<1>4. m - 1 \in a..(b - 1) /\ m - 1 \notin missing
  BY <1>2, <1>3
<1> QED
  BY <1>2, <1>3, <1>4

\* A recursion from base, whose steps are the functions step[n], over an interval.
Recursion(f, a, b, V, base, step) ==
    /\ f \in [a..b -> V]
    /\ f[a] = base
    /\ \A n \in (a + 1)..b : f[n] = step[n][f[n - 1]]

\* It defines a function.
LEMMA RecursionExists ==
    ASSUME NEW a \in Nat, NEW b \in Nat, a <= b, NEW V, NEW base \in V, NEW step,
           \A n \in (a + 1)..b : step[n] \in [V -> V]
    PROVE  \E f : Recursion(f, a, b, V, base, step)
<1> DEFINE Solves(f, n) == f[a] = base /\ \A k \in (a + 1)..n : f[k] = step[k][f[k - 1]]
           S == { n \in a..b : \E f \in [a..n -> V] : Solves(f, n) }
<1>1. a \in S
  <2>1. [k \in a..a |-> base] \in [a..a -> V] /\ Solves([k \in a..a |-> base], a)
    OBVIOUS
  <2>2. a \in a..b
    OBVIOUS
  <2> HIDE DEF Solves
  <2> QED
    BY <2>1, <2>2
<1>2. ASSUME NEW n \in a..(b - 1), n \in S
      PROVE  n + 1 \in S
  <2>1. PICK f \in [a..n -> V] : Solves(f, n)
    BY <1>2
  <2> DEFINE g == [k \in a..(n + 1) |-> IF k = n + 1 THEN step[n + 1][f[n]] ELSE f[k]]
  <2>2. n \in Nat /\ n + 1 \in (a + 1)..b /\ n \in a..n
    OBVIOUS
  <2>3. step[n + 1][f[n]] \in V
    BY <2>1, <2>2
  <2>4. g \in [a..(n + 1) -> V]
    BY <2>1, <2>2, <2>3
  <2>5. \A k \in a..n : g[k] = f[k]
    BY <2>2
  <2>6. g[n + 1] = step[n + 1][f[n]]
    BY <2>2
  <2> HIDE DEF g
  <2>7. Solves(g, n + 1)
    <3>1. g[a] = base
      BY <2>1, <2>2, <2>5
    <3>2. ASSUME NEW k \in (a + 1)..(n + 1)
          PROVE  g[k] = step[k][g[k - 1]]
      <4>1. CASE k = n + 1
        BY <2>2, <2>5, <2>6, <4>1
      <4>2. CASE k # n + 1
        <5>1. k \in (a + 1)..n /\ k \in a..n /\ k - 1 \in a..n
          BY <2>2, <4>2
        <5> QED
          BY <2>1, <2>5, <5>1
      <4> QED
        BY <4>1, <4>2
    <3> QED
      BY <3>1, <3>2
  <2> QED
    BY <2>2, <2>4, <2>7
<1>3. \A n \in a..b : n \in S
  <2> HIDE DEF S
  <2> QED
    BY <1>1, <1>2, IntervalInduction
<1>4. b \in S
  <2> HIDE DEF S
  <2> QED
    BY <1>3
<1> QED
  BY <1>4 DEF Recursion

-----------------------------------------------------------------------------
(***************************************************************************)
(* The irs that are left.                                                  *)
(***************************************************************************)

\* Where an ir or an address is once the deleted instructions before it are gone.
DeletedBefore(deleted, adr) == Cardinality({ i \in deleted : i < adr })

MovedBy(deleted, adr) == adr - DeletedBefore(deleted, adr)

\* A deleted ir is one of those before adr only if it is smaller: there are at most adr.
LEMMA CountsDeleted ==
    ASSUME NEW n \in Nat, NEW D \in SUBSET (0..(n - 1)), NEW adr \in Nat
    PROVE  /\ IsFiniteSet(D) /\ IsFiniteSet({ i \in D : i < adr })
           /\ DeletedBefore(D, adr) \in 0..adr
           /\ DeletedBefore(D, adr + 1) =
                  IF adr \in D THEN DeletedBefore(D, adr) + 1 ELSE DeletedBefore(D, adr)
           /\ MovedBy(D, adr) \in 0..adr
<1> DEFINE before == { i \in D : i < adr }
           upTo == { i \in D : i < adr + 1 }
<1>0. \A i \in D : i \in Nat
  OBVIOUS
<1>1. IsFiniteSet(D) /\ IsFiniteSet(before)
  <2>1. 0 \in Int /\ n - 1 \in Int
    OBVIOUS
  <2>2. IsFiniteSet(0..(n - 1))
    BY <2>1, FS_Interval
  <2>3. before \in SUBSET D
    OBVIOUS
  <2>4. IsFiniteSet(D)
    BY <2>2, FS_Subset
  <2> QED
    BY <2>3, <2>4, FS_Subset
<1>2. Cardinality(before) \in 0..adr
  <2>1. before \in SUBSET (0..(adr - 1))
    <3>1. \A i \in before : i \in Nat /\ i < adr
      BY <1>0
    <3> HIDE DEF before
    <3> QED
      BY <3>1
  <2>2. 0 \in Int /\ adr - 1 \in Int
    OBVIOUS
  <2>3. IsFiniteSet(0..(adr - 1)) /\ Cardinality(0..(adr - 1)) = adr
    <3>1. Cardinality(0..(adr - 1)) = IF 0 > adr - 1 THEN 0 ELSE (adr - 1) - 0 + 1
      BY <2>2, FS_Interval
    <3> QED
      BY <2>2, <3>1, FS_Interval
  <2>4. Cardinality(before) \in Nat /\ Cardinality(before) <= Cardinality(0..(adr - 1))
    BY <1>1, <2>1, <2>3, FS_Subset, FS_CardinalityType
  <2> HIDE DEF before
  <2> QED
    BY <2>3, <2>4
<1>3. Cardinality(upTo) = IF adr \in D THEN Cardinality(before) + 1 ELSE Cardinality(before)
  <2>1. ASSUME NEW i
        PROVE  i \in upTo <=> i \in before \/ (i \in D /\ i = adr)
    <3>1. CASE i \in D
      <4>1. i \in Nat
        BY <1>0, <3>1
      <4>2. i < adr + 1 <=> i < adr \/ i = adr
        BY <4>1
      <4> QED
        BY <3>1, <4>2
    <3>2. CASE i \notin D
      BY <3>2
    <3> QED
      BY <3>1, <3>2
  <2>2. CASE adr \in D
    <3>1. adr \notin before
      OBVIOUS
    <3>2. upTo = before \cup {adr}
      <4> HIDE DEF upTo, before
      <4> QED
        BY <2>1, <2>2
    <3>3. Cardinality(before \cup {adr}) = Cardinality(before) + 1
      BY <1>1, <3>1, FS_AddElement
    <3> QED
      BY <2>2, <3>2, <3>3
  <2>3. CASE adr \notin D
    <3>1. upTo = before
      <4> HIDE DEF upTo, before
      <4> QED
        BY <2>1, <2>3
    <3> QED
      BY <2>3, <3>1
  <2> QED
    BY <2>2, <2>3
<1>4. DeletedBefore(D, adr) = Cardinality(before) /\ DeletedBefore(D, adr + 1) = Cardinality(upTo)
  BY DEF DeletedBefore
<1> HIDE DEF before, upTo
<1>5. MovedBy(D, adr) = adr - Cardinality(before)
  BY <1>4 DEF MovedBy
<1> QED
  BY <1>1, <1>2, <1>3, <1>4, <1>5 DEF before

\* What the recursion of Kept adds for an ir.
KeptStep(D, k, kept) == IF k - 1 \in D THEN kept ELSE Append(kept, k - 1)

KeptRecursion(f, n, D) ==
    f = [k \in 0..n |-> IF k = 0 THEN << >>
                        ELSE IF k - 1 \in D THEN f[k - 1] ELSE Append(f[k - 1], k - 1)]

\* That recursion has a solution.
LEMMA KeptSolution ==
    ASSUME NEW n \in Nat, NEW D
    PROVE  \E f : KeptRecursion(f, n, D)
<1> DEFINE V == Seq(Nat)
           none == << >>
           step == [k \in 1..n |-> [s \in V |-> KeptStep(D, k, s)]]
<1>1. \A k \in (0 + 1)..n : step[k] \in [V -> V]
  <2>1. \A k \in 1..n, s \in V : KeptStep(D, k, s) \in V
    BY DEF KeptStep
  <2> QED
    BY <2>1
<1>2. \A k \in 1..n, s \in V : step[k][s] = KeptStep(D, k, s)
  OBVIOUS
<1>3. none \in V
  OBVIOUS
<1> HIDE DEF step, V, none
<1>4. PICK f \in [0..n -> V] : f[0] = none /\ \A k \in 1..n : f[k] = step[k][f[k - 1]]
  <2>1. 0 \in Nat /\ 0 <= n
    OBVIOUS
  <2>2. \E f : Recursion(f, 0, n, V, none, step)
    BY <1>1, <1>3, <2>1, RecursionExists
  <2> QED
    BY <2>2 DEF Recursion
<1>5. \A k \in 1..n : f[k] = KeptStep(D, k, f[k - 1])
  <2> TAKE k \in 1..n
  <2>1. k - 1 \in 0..n /\ f[k - 1] \in V
    BY <1>4
  <2> QED
    BY <1>2, <1>4, <2>1
<1>6. KeptRecursion(f, n, D)
  <2>1. f = [k \in 0..n |-> f[k]]
    BY <1>4
  <2>2. ASSUME NEW k \in 0..n
        PROVE  f[k] = IF k = 0 THEN << >>
                      ELSE IF k - 1 \in D THEN f[k - 1] ELSE Append(f[k - 1], k - 1)
    <3>1. CASE k = 0
      BY <1>4, <3>1 DEF none
    <3>2. CASE k # 0
      <4>1. k \in 1..n
        BY <3>2
      <4> QED
        BY <1>5, <3>2, <4>1 DEF KeptStep
    <3> QED
      BY <3>1, <3>2
  <2> QED
    BY <2>1, <2>2 DEF KeptRecursion
<1> QED
  BY <1>6

\* The recursion of Kept has a solution.
LEMMA KeptIsDefined ==
    ASSUME NEW v, Len(v.inner) \in Nat
    PROVE  \E f : KeptRecursion(f, Len(v.inner), v.deleted) /\ Kept(v) = f[Len(v.inner)]
<1> DEFINE n == Len(v.inner)
           f == CHOOSE g : KeptRecursion(g, n, v.deleted)
<1>1. KeptRecursion(f, n, v.deleted)
  <2>1. \E g : KeptRecursion(g, n, v.deleted)
    BY KeptSolution
  <2> QED
    BY <2>1
<1>2. Kept(v) = f[n]
  BY DEF Kept, KeptRecursion
<1> QED
  BY <1>1, <1>2

\* An instruction is kept unless it is deleted.
LEMMA KeptSteps ==
    ASSUME NEW n \in Nat, NEW D, NEW f, KeptRecursion(f, n, D)
    PROVE  /\ f[0] = << >>
           /\ \A k \in 0..(n - 1) : f[k + 1] = IF k \in D THEN f[k] ELSE Append(f[k], k)
<1>1. ASSUME NEW k \in 0..n
      PROVE  f[k] = IF k = 0 THEN << >>
                    ELSE IF k - 1 \in D THEN f[k - 1] ELSE Append(f[k - 1], k - 1)
  BY DEF KeptRecursion
<1>2. ASSUME NEW k \in 0..(n - 1)
      PROVE  f[k + 1] = IF k \in D THEN f[k] ELSE Append(f[k], k)
  <2>1. k + 1 \in 0..n /\ k + 1 # 0 /\ (k + 1) - 1 = k
    OBVIOUS
  <2> QED
    BY <1>1, <2>1
<1> QED
  BY <1>1, <1>2

\* The sequence s holds the irs before k that are not deleted, each where the deletions
\* have moved it.
KeepsBefore(s, k, D) ==
    /\ s \in Seq(Nat)
    /\ Len(s) = MovedBy(D, k)
    /\ \A p \in DOMAIN s : s[p] \in (0..(k - 1)) \ D /\ MovedBy(D, s[p]) = p - 1
    /\ \A i \in (0..(k - 1)) \ D : MovedBy(D, i) + 1 \in DOMAIN s /\ s[MovedBy(D, i) + 1] = i

\* Kept holds the irs that are not deleted.
LEMMA KeptIsRight ==
    ASSUME NEW v, Len(v.inner) \in Nat, v.deleted \subseteq Irs(v.inner)
    PROVE  KeepsBefore(Kept(v), Len(v.inner), v.deleted)
<1> DEFINE n == Len(v.inner)
           D == v.deleted
<1>1. n \in Nat /\ D \in SUBSET (0..(n - 1))
  BY DEF Irs
<1>2. PICK f : KeptRecursion(f, n, D) /\ Kept(v) = f[n]
  BY KeptIsDefined
<1> HIDE DEF n, D
<1> DEFINE S == { k \in 0..n : KeepsBefore(f[k], k, D) }
<1>3. 0 \in S
  <2>1. MovedBy(D, 0) = 0
    <3>1. MovedBy(D, 0) \in 0..0
      BY <1>1, CountsDeleted
    <3> QED
      BY <3>1
  <2>2. f[0] = << >>
    BY <1>1, <1>2, KeptSteps
  <2>3. 0..(0 - 1) = {} /\ 0 \in 0..n
    BY <1>1
  <2>4. KeepsBefore(<< >>, 0, D)
    BY <2>1, <2>3 DEF KeepsBefore
  <2> QED
    BY <2>2, <2>3, <2>4
<1>4. ASSUME NEW k \in 0..(n - 1), k \in S
      PROVE  k + 1 \in S
  <2>1. k \in Nat /\ k + 1 \in 0..n
    BY <1>1
  <2> DEFINE s == f[k]
             t == f[k + 1]
  <2>2. t = IF k \in D THEN s ELSE Append(s, k)
    BY <1>1, <1>2, KeptSteps
  <2>3. /\ s \in Seq(Nat) /\ Len(s) = MovedBy(D, k)
        /\ \A p \in DOMAIN s : s[p] \in (0..(k - 1)) \ D /\ MovedBy(D, s[p]) = p - 1
        /\ \A i \in (0..(k - 1)) \ D : MovedBy(D, i) + 1 \in DOMAIN s /\ s[MovedBy(D, i) + 1] = i
    BY <1>4 DEF KeepsBefore
  <2>4. /\ MovedBy(D, k) \in Nat
        /\ MovedBy(D, k + 1) = IF k \in D THEN MovedBy(D, k) ELSE MovedBy(D, k) + 1
    <3>1. /\ DeletedBefore(D, k) \in 0..k
          /\ DeletedBefore(D, k + 1) = IF k \in D THEN DeletedBefore(D, k) + 1
                                       ELSE DeletedBefore(D, k)
      BY <1>1, <2>1, CountsDeleted
    <3> QED
      BY <2>1, <3>1 DEF MovedBy
  <2>5. ASSUME NEW i
        PROVE  i \in (0..((k + 1) - 1)) \ D <=>
                   i \in (0..(k - 1)) \ D \/ (i = k /\ k \notin D)
    BY <2>1
  <2>6. CASE k \in D
    <3>1. t = s /\ MovedBy(D, k + 1) = MovedBy(D, k)
      BY <2>2, <2>4, <2>6
    <3>2. KeepsBefore(t, k + 1, D)
      BY <2>3, <2>5, <2>6, <3>1 DEF KeepsBefore
    <3> QED
      BY <2>1, <3>2
  <2>7. CASE k \notin D
    <3>1. t = Append(s, k) /\ MovedBy(D, k + 1) = Len(s) + 1
      BY <2>2, <2>3, <2>4, <2>7
    <3> HIDE DEF s, t
    <3>2. /\ t \in Seq(Nat) /\ Len(t) = Len(s) + 1 /\ Len(s) \in Nat
          /\ DOMAIN t = DOMAIN s \cup {Len(s) + 1} /\ DOMAIN s = 1..Len(s)
          /\ t[Len(s) + 1] = k /\ \A p \in DOMAIN s : t[p] = s[p]
      BY <2>1, <2>3, <3>1
    <3>3. \A p \in DOMAIN t : t[p] \in (0..((k + 1) - 1)) \ D /\ MovedBy(D, t[p]) = p - 1
      <4> TAKE p \in DOMAIN t
      <4>1. CASE p \in DOMAIN s
        BY <2>3, <2>5, <3>2, <4>1
      <4>2. CASE p = Len(s) + 1
        BY <2>3, <2>5, <2>7, <3>2, <4>2
      <4> QED
        BY <3>2, <4>1, <4>2
    <3>4. ASSUME NEW i \in (0..((k + 1) - 1)) \ D
          PROVE  MovedBy(D, i) + 1 \in DOMAIN t /\ t[MovedBy(D, i) + 1] = i
      <4>1. CASE i \in (0..(k - 1)) \ D
        BY <2>3, <3>2, <4>1
      <4>2. CASE i = k
        BY <2>3, <3>2, <4>2
      <4> QED
        BY <2>5, <4>1, <4>2
    <3>5. KeepsBefore(t, k + 1, D)
      BY <3>1, <3>2, <3>3, <3>4 DEF KeepsBefore
    <3> QED
      BY <2>1, <3>5 DEF t
  <2> QED
    BY <2>6, <2>7
<1>5. n \in S
  <2>1. \A k \in 0..n : k \in S
    <3> HIDE DEF S
    <3> QED
      BY <1>1, <1>3, <1>4, IntervalInduction
  <2>2. n \in 0..n
    BY <1>1
  <2> HIDE DEF S
  <2> QED
    BY <2>1, <2>2
<1>6. KeepsBefore(Kept(v), n, D)
  BY <1>2, <1>5
<1> QED
  BY <1>6 DEF n, D

\* There are as many as that.
LEMMA KeptCount ==
    ASSUME NEW n \in Nat, NEW D, NEW s, KeepsBefore(s, n, D)
    PROVE  Cardinality((0..(n - 1)) \ D) = MovedBy(D, n)
<1> DEFINE kept == (0..(n - 1)) \ D
<1>1. /\ DOMAIN s = 1..Len(s) /\ Len(s) \in Nat /\ Len(s) = MovedBy(D, n)
      /\ \A p \in 1..Len(s) : s[p] \in kept /\ MovedBy(D, s[p]) = p - 1
      /\ \A i \in kept : MovedBy(D, i) + 1 \in 1..Len(s) /\ s[MovedBy(D, i) + 1] = i
  <2>1. s \in Seq(Nat)
    BY DEF KeepsBefore
  <2>2. DOMAIN s = 1..Len(s) /\ Len(s) \in Nat
    BY <2>1
  <2> QED
    BY <2>2 DEF KeepsBefore
<1> DEFINE f == [p \in 1..Len(s) |-> s[p]]
<1> HIDE DEF kept
<1>2. f \in [1..Len(s) -> kept] /\ \A p \in 1..Len(s) : f[p] = s[p]
  BY <1>1
<1> HIDE DEF f
<1>3. \A p, q \in 1..Len(s) : f[p] = f[q] => p = q
  <2> TAKE p, q \in 1..Len(s)
  <2> HAVE f[p] = f[q]
  <2>1. p - 1 = q - 1 /\ p \in Int /\ q \in Int
    BY <1>1, <1>2
  <2> QED
    BY <2>1
<1>4. \A i \in kept : \E p \in 1..Len(s) : f[p] = i
  BY <1>1, <1>2
<1>5. f \in Bijection(1..Len(s), kept)
  BY <1>2, <1>3, <1>4 DEF Bijection, Injection, Surjection, IsInjective
<1>6. IsFiniteSet(1..Len(s)) /\ Cardinality(1..Len(s)) = Len(s)
  <2>1. 1 \in Int /\ Len(s) \in Int
    BY <1>1
  <2> QED
    BY <1>1, <2>1, FS_Interval
<1>7. ExistsBijection(1..Len(s), kept)
  BY <1>5 DEF ExistsBijection
<1>8. Cardinality(kept) = Cardinality(1..Len(s))
  BY <1>6, <1>7, FS_Bijection
<1> QED
  BY <1>1, <1>6, <1>8 DEF kept

-----------------------------------------------------------------------------
(***************************************************************************)
(* The entry points.                                                       *)
(***************************************************************************)

\* What a sequence over a set is made of.
LEMMA SeqElements ==
    ASSUME NEW S, NEW s \in Seq(S)
    PROVE  /\ DOMAIN s = 1..Len(s) /\ Len(s) \in Nat
           /\ \A k \in DOMAIN s : s[k] \in S
  OBVIOUS

\* The entry points of a code, in order but for the end of the code, which is last: in
\* front of every jump target's entry there are only entries of smaller addresses.
Entries(code, s) ==
    /\ s \in Seq(Nat)
    /\ s # << >>
    /\ s[Len(s)] = Len(code)
    /\ \A k \in DOMAIN s : s[k] \in JumpTargetsOf(code) \cup {Len(code)}
    /\ \A j, k \in DOMAIN s : j < k => s[j] < s[k] \/ k = Len(s)
    /\ \A adr \in JumpTargetsOf(code) :
           \E k \in DOMAIN s : s[k] = adr /\ \A j \in 1..(k - 1) : s[j] < adr

\* What the rewriter needs of a code: a length, and jumps that lead to natural numbers.
IsProgram(code) == Len(code) \in Nat /\ JumpTargetsOf(code) \subseteq Nat

\* A code is one whose instructions jump to natural numbers.
LEMMA CodesArePrograms ==
    ASSUME NEW I, \A inst \in I : JumpTargets(inst) \subseteq Nat, NEW code \in Seq(I)
    PROVE  IsProgram(code)
<1>1. Len(code) \in Nat
  OBVIOUS
<1>2. \A i \in Irs(code) : At(code, i) \in I
  BY DEF Irs, At
<1> QED
  BY <1>1, <1>2 DEF IsProgram, JumpTargetsOf

\* A code has finitely many jump targets.
LEMMA TargetsAreFinite ==
    ASSUME NEW code, Len(code) \in Nat
    PROVE  IsFiniteSet(JumpTargetsOf(code))
<1> DEFINE jumps == { i \in Irs(code) : At(code, i).op \in JumpOps }
           to == [i \in jumps |-> At(code, i).n]
<1>1. IsFiniteSet(jumps)
  <2>1. 0 \in Int /\ Len(code) - 1 \in Int
    OBVIOUS
  <2>2. IsFiniteSet(Irs(code))
    BY <2>1, FS_Interval DEF Irs
  <2> QED
    BY <2>2, FS_Subset
<1>2. \A adr : adr \in JumpTargetsOf(code) <=> \E i \in jumps : adr = to[i]
  BY DEF JumpTargetsOf, JumpTargets
<1>3. to \in Surjection(jumps, JumpTargetsOf(code))
  BY <1>2 DEF Surjection
<1> QED
  BY <1>1, <1>3, FS_Surjection

\* An increasing enumeration of a finite set meets every element of it.
LEMMA IncreasingIsOnto ==
    ASSUME NEW S \in SUBSET Nat, IsFiniteSet(S), NEW s \in Increasing(S)
    PROVE  /\ Cardinality(S) \in Nat
           /\ s \in [1..Cardinality(S) -> S]
           /\ \A i, j \in 1..Cardinality(S) : i < j => s[i] < s[j]
           /\ \A x \in S : \E i \in 1..Cardinality(S) : s[i] = x
<1> DEFINE n == Cardinality(S)
<1>1. n \in Nat
  BY FS_CardinalityType
<1>2. s \in [1..n -> S] /\ \A i, j \in 1..n : i < j => s[i] < s[j]
  BY DEF Increasing
<1>3. \A i, j \in 1..n : s[i] = s[j] => i = j
  <2> SUFFICES ASSUME NEW i \in 1..n, NEW j \in 1..n, s[i] = s[j], i # j
               PROVE  FALSE
    OBVIOUS
  <2>1. s[i] \in Nat /\ s[j] \in Nat
    BY <1>2
  <2>2. i < j \/ j < i
    BY <1>1
  <2> HIDE DEF n
  <2> QED
    BY <1>2, <2>1, <2>2
<1>4. s \in Injection(1..n, S)
  BY <1>2, <1>3 DEF Injection, IsInjective
<1>5. Cardinality(1..n) = n
  BY <1>1, FS_Interval
<1>6. s \in Surjection(1..n, S)
  BY <1>4, <1>5, FS_Injection
<1> QED
  BY <1>1, <1>2, <1>6 DEF Surjection

\* WoCode::from makes the entry points of its code.
LEMMA EntryPointsAreEntries ==
    ASSUME NEW code, IsProgram(code), NEW s \in EntryPoints(code)
    PROVE  Entries(code, s)
<1> DEFINE J == JumpTargetsOf(code)
           n == Cardinality(J)
<1>1. PICK t \in Increasing(J) :
          s = IF t # << >> /\ t[Len(t)] = Len(code) THEN t ELSE Append(t, Len(code))
  BY DEF EntryPoints
<1>2. J \subseteq Nat /\ IsFiniteSet(J)
  BY TargetsAreFinite DEF IsProgram
<1>3. /\ n \in Nat
      /\ t \in [1..n -> J]
      /\ \A i, j \in 1..n : i < j => t[i] < t[j]
      /\ \A x \in J : \E i \in 1..n : t[i] = x
  BY <1>2, IncreasingIsOnto
<1> HIDE DEF J, n
<1>4. t \in Seq(Nat) /\ Len(t) = n /\ DOMAIN t = 1..n /\ Len(code) \in Nat
  <2>1. t \in [1..n -> Nat]
    BY <1>2, <1>3
  <2>2. t \in Seq(Nat)
    BY <1>3, <2>1
  <2>3. DOMAIN t = 1..n /\ DOMAIN t = 1..Len(t) /\ Len(t) \in Nat
    BY <2>1, <2>2
  <2>4. Len(t) = n
    BY <1>3, <2>3
  <2> QED
    BY <2>2, <2>3, <2>4 DEF IsProgram
<1>5. \A x \in J : \E k \in 1..n : t[k] = x /\ \A j \in 1..(k - 1) : t[j] < x
  BY <1>3
<1>6. CASE t # << >> /\ t[Len(t)] = Len(code)
  BY <1>1, <1>3, <1>4, <1>5, <1>6 DEF Entries, J
<1>7. CASE s = Append(t, Len(code))
  <2>1. /\ s \in Seq(Nat) /\ Len(s) = n + 1 /\ DOMAIN s = 1..(n + 1)
        /\ s[n + 1] = Len(code) /\ \A k \in 1..n : s[k] = t[k]
    BY <1>3, <1>4, <1>7
  <2>2. \A j, k \in DOMAIN s : j < k => s[j] < s[k] \/ k = Len(s)
    BY <1>3, <2>1
  <2>3. \A x \in J : \E k \in DOMAIN s : s[k] = x /\ \A j \in 1..(k - 1) : s[j] < x
    <3> TAKE x \in J
    <3>1. PICK k \in 1..n : t[k] = x /\ \A j \in 1..(k - 1) : t[j] < x
      BY <1>5
    <3>2. k \in DOMAIN s /\ s[k] = x /\ \A j \in 1..(k - 1) : s[j] < x
      BY <1>3, <2>1, <3>1
    <3> QED
      BY <3>2
  <2>4. s # << >> /\ s[Len(s)] = Len(code)
    BY <1>3, <2>1
  <2>5. \A k \in DOMAIN s : s[k] \in J \cup {Len(code)}
    BY <1>3, <2>1
  <2> QED
    BY <2>1, <2>2, <2>3, <2>4, <2>5 DEF Entries, J
<1> QED
  BY <1>1, <1>6, <1>7

-----------------------------------------------------------------------------
(***************************************************************************)
(* Shifting the entry points.                                              *)
(***************************************************************************)

Addresses(deltas) == [k \in DOMAIN deltas |-> deltas[k].adr]

Deltas == Seq([adr : Nat, delta : Int])

\* The loop of delete_ir, which stops at the first entry not past ir, shifts every entry
\* past ir: those in front of that entry are not past ir either.
LEMMA ShiftedShiftsAllPast ==
    ASSUME NEW code, Len(code) \in Nat, NEW deltas \in Deltas, NEW ir \in Irs(code),
           Entries(code, Addresses(deltas))
    PROVE  /\ Shifted(deltas, ir) \in Deltas
           /\ DOMAIN Shifted(deltas, ir) = DOMAIN deltas
           /\ Addresses(Shifted(deltas, ir)) = Addresses(deltas)
           /\ \A k \in DOMAIN deltas : Shifted(deltas, ir)[k].delta =
                  IF deltas[k].adr > ir THEN deltas[k].delta - 1 ELSE deltas[k].delta
<1> DEFINE s == Addresses(deltas)
           past(k) == \A j \in k..Len(deltas) : deltas[j].adr > ir
<1>1. /\ DOMAIN deltas = 1..Len(deltas) /\ Len(deltas) \in Nat
      /\ \A k \in DOMAIN deltas : deltas[k] \in [adr : Nat, delta : Int]
  BY SeqElements DEF Deltas
<1>2. DOMAIN s = 1..Len(deltas) /\ s \in Seq(Nat) /\ Len(s) = Len(deltas)
  <2>1. DOMAIN s = 1..Len(deltas)
    BY <1>1 DEF Addresses
  <2>2. s \in Seq(Nat)
    BY DEF Entries
  <2>3. DOMAIN s = 1..Len(s) /\ Len(s) \in Nat
    BY <2>2
  <2> QED
    BY <1>1, <2>1, <2>2, <2>3
<1>3. ir \in Nat /\ Len(code) \in Nat /\ ir < Len(code)
  BY DEF Irs
<1>4. ASSUME NEW k \in DOMAIN deltas
      PROVE  past(k) <=> deltas[k].adr > ir
  <2>1. past(k) => deltas[k].adr > ir
    BY <1>1
  <2>2. ASSUME deltas[k].adr > ir, NEW j \in k..Len(deltas)
        PROVE  deltas[j].adr > ir
    <3>1. j \in DOMAIN deltas /\ deltas[j].adr = s[j] /\ deltas[k].adr = s[k]
      BY <1>1 DEF Addresses
    <3>2. s[j] \in Nat /\ s[k] \in Nat
      BY <1>1, <3>1
    <3>3. CASE j = Len(s)
      BY <1>3, <3>1, <3>3 DEF Entries
    <3>4. CASE j # Len(s)
      <4>1. k < j => s[k] < s[j]
        BY <1>1, <1>2, <3>1, <3>4 DEF Entries
      <4> QED
        BY <1>1, <1>3, <2>2, <3>1, <3>2, <4>1
    <3> QED
      BY <3>3, <3>4
  <2> QED
    BY <2>1, <2>2
<1>5. Shifted(deltas, ir) = [k \in DOMAIN deltas |->
          IF deltas[k].adr > ir THEN Entry(deltas[k].adr, deltas[k].delta - 1) ELSE deltas[k]]
  BY <1>4 DEF Shifted
<1>6. \A k \in DOMAIN deltas :
          /\ Shifted(deltas, ir)[k] \in [adr : Nat, delta : Int]
          /\ Shifted(deltas, ir)[k].adr = deltas[k].adr
          /\ Shifted(deltas, ir)[k].delta =
                 IF deltas[k].adr > ir THEN deltas[k].delta - 1 ELSE deltas[k].delta
  BY <1>1, <1>5 DEF Entry
<1>7. Shifted(deltas, ir) \in Deltas
  <2>1. Shifted(deltas, ir) \in [1..Len(deltas) -> [adr : Nat, delta : Int]]
    BY <1>1, <1>5, <1>6
  <2> QED
    BY <1>1, <2>1 DEF Deltas
<1> QED
  BY <1>5, <1>6, <1>7 DEF Addresses

-----------------------------------------------------------------------------
(***************************************************************************)
(* The operations of a WoCode.                                             *)
(***************************************************************************)

\* A WoCode whose callers were careful: the entries stay those of its code, the new
\* instructions jump only to where the code jumps to, no instruction is both deleted and
\* modified, and the delta of an entry counts the deletions before it.
WellFormed(v) ==
    /\ v = [inner |-> v.inner, deltas |-> v.deltas, deleted |-> v.deleted,
            modified |-> v.modified]
    /\ IsProgram(v.inner)
    /\ v.deltas \in Deltas
    /\ Entries(v.inner, Addresses(v.deltas))
    /\ v.deleted \subseteq Irs(v.inner)
    /\ DOMAIN v.modified \subseteq Irs(v.inner)
    /\ v.deleted \cap DOMAIN v.modified = {}
    /\ \A i \in DOMAIN v.modified : JumpTargets(v.modified[i]) \subseteq JumpTargetsOf(v.inner)
    /\ \A k \in DOMAIN v.deltas : v.deltas[k].delta = -DeletedBefore(v.deleted, v.deltas[k].adr)

\* WoCode::from makes one.
LEMMA NewIsWellFormed ==
    ASSUME NEW code, IsProgram(code), NEW v \in NewWoCode(code)
    PROVE  WellFormed(v) /\ v.inner = code /\ v.deleted = {} /\ DOMAIN v.modified = {}
<1>1. PICK s \in EntryPoints(code) :
          v = [inner    |-> code,
               deltas   |-> [k \in DOMAIN s |-> Entry(s[k], 0)],
               deleted  |-> {},
               modified |-> [ir \in {} |-> Inst("NOP", "none", 0)]]
  BY DEF NewWoCode
<1>2. Entries(code, s) /\ s \in Seq(Nat)
  BY EntryPointsAreEntries DEF Entries
<1>3. DOMAIN s = 1..Len(s) /\ Len(s) \in Nat /\ \A k \in DOMAIN s : s[k] \in Nat
  BY <1>2, SeqElements
<1>4. v.deltas \in Deltas /\ DOMAIN v.deltas = DOMAIN s
  <2>1. \A k \in 1..Len(s) : Entry(s[k], 0) \in [adr : Nat, delta : Int]
    BY <1>3 DEF Entry
  <2>2. v.deltas = [k \in 1..Len(s) |-> Entry(s[k], 0)]
    BY <1>1, <1>3
  <2>3. v.deltas \in [1..Len(s) -> [adr : Nat, delta : Int]]
    BY <2>1, <2>2
  <2> QED
    BY <1>3, <2>2, <2>3 DEF Deltas
<1>5. Addresses(v.deltas) = s
  <2>1. Addresses(v.deltas) = [k \in DOMAIN s |-> s[k]]
    BY <1>1 DEF Addresses, Entry
  <2>2. s = [k \in DOMAIN s |-> s[k]]
    BY <1>2
  <2> QED
    BY <2>1, <2>2
<1>6. ASSUME NEW k \in DOMAIN v.deltas
      PROVE  v.deltas[k].delta = -DeletedBefore(v.deleted, v.deltas[k].adr)
  <2>1. { ir \in v.deleted : ir < v.deltas[k].adr } = {}
    BY <1>1
  <2>2. v.deltas[k].delta = 0
    BY <1>1, <1>4 DEF Entry
  <2> QED
    BY <2>1, <2>2, FS_EmptySet DEF DeletedBefore
<1>7. v.inner = code /\ v.deleted = {} /\ DOMAIN v.modified = {}
  BY <1>1
<1>8. v = [inner |-> v.inner, deltas |-> v.deltas, deleted |-> v.deleted,
           modified |-> v.modified]
  BY <1>1
<1> QED
  BY <1>2, <1>4, <1>5, <1>6, <1>7, <1>8 DEF WellFormed

\* delete_ir of an ir that was not deleted keeps it: each entry past the ir has one more
\* deleted instruction in front of it, and its delta is one less.
LEMMA DeleteKeepsWellFormed ==
    ASSUME NEW v, WellFormed(v), NEW ir \in Irs(v.inner) \ v.deleted, ir \notin DOMAIN v.modified
    PROVE  /\ WellFormed(DeleteIr(v, ir))
           /\ DeleteIr(v, ir) = [inner |-> v.inner, deltas |-> Shifted(v.deltas, ir),
                                 deleted |-> v.deleted \cup {ir}, modified |-> v.modified]
<1> DEFINE u == DeleteIr(v, ir)
           n == Len(v.inner)
<1>1. /\ n \in Nat /\ v.deltas \in Deltas /\ Entries(v.inner, Addresses(v.deltas))
      /\ v.deleted \in SUBSET (0..(n - 1)) /\ ir \in Nat
  BY DEF WellFormed, IsProgram, Irs
<1>2. u = [inner |-> v.inner, deltas |-> Shifted(v.deltas, ir),
           deleted |-> v.deleted \cup {ir}, modified |-> v.modified]
  <2>1. v = [inner |-> v.inner, deltas |-> v.deltas, deleted |-> v.deleted,
             modified |-> v.modified]
    BY DEF WellFormed
  <2>2. PICK x : x = DeleteIr(v, ir)
    OBVIOUS
  <2>3. x = [inner |-> v.inner, deltas |-> Shifted(v.deltas, ir),
             deleted |-> v.deleted \cup {ir}, modified |-> v.modified]
    BY <2>1, <2>2 DEF DeleteIr
  <2> QED
    BY <2>2, <2>3
<1> HIDE DEF u
<1>3. /\ u.inner = v.inner /\ u.deltas = Shifted(v.deltas, ir)
      /\ u.deleted = v.deleted \cup {ir} /\ u.modified = v.modified
  BY <1>2
<1>4. /\ u.deltas \in Deltas
      /\ DOMAIN u.deltas = DOMAIN v.deltas
      /\ Addresses(u.deltas) = Addresses(v.deltas)
      /\ \A k \in DOMAIN v.deltas : u.deltas[k].delta =
             IF v.deltas[k].adr > ir THEN v.deltas[k].delta - 1 ELSE v.deltas[k].delta
  BY <1>1, <1>3, ShiftedShiftsAllPast
<1>5. ASSUME NEW k \in DOMAIN u.deltas
      PROVE  u.deltas[k].delta = -DeletedBefore(u.deleted, u.deltas[k].adr)
  <2> DEFINE adr == v.deltas[k].adr
             before == { i \in v.deleted : i < adr }
             after == { i \in u.deleted : i < adr }
  <2>1. u.deltas[k].adr = adr
    <3>1. Addresses(v.deltas)[k] = v.deltas[k].adr /\ Addresses(u.deltas)[k] = u.deltas[k].adr
      BY <1>4 DEF Addresses
    <3> QED
      BY <1>4, <3>1
  <2>2. adr \in Nat
    <3>1. v.deltas[k] \in [adr : Nat, delta : Int]
      BY <1>1, <1>4, SeqElements DEF Deltas
    <3> QED
      BY <3>1
  <2>3. v.deltas[k].delta = -Cardinality(before)
    BY <1>4 DEF WellFormed, DeletedBefore
  <2>4. IsFiniteSet(before) /\ Cardinality(before) \in Nat
    <3>1. IsFiniteSet({ i \in v.deleted : i < adr })
      <4>1. \E m \in Nat : v.deleted \in SUBSET (0..(m - 1))
        BY <1>1
      <4> HIDE DEF adr
      <4> QED
        BY <2>2, <4>1, CountsDeleted
    <3> QED
      BY <3>1, FS_CardinalityType
  <2>5. Cardinality(after) = IF adr > ir THEN Cardinality(before) + 1 ELSE Cardinality(before)
    <3>1. ASSUME NEW i
          PROVE  i \in after <=> i \in before \/ (i = ir /\ adr > ir)
      BY <1>1, <1>3, <2>2
    <3>2. ir \notin before
      OBVIOUS
    <3>3. Cardinality(before \cup {ir}) = Cardinality(before) + 1
      BY <2>4, <3>2, FS_AddElement
    <3> HIDE DEF before, after, adr
    <3>4. after = IF adr > ir THEN before \cup {ir} ELSE before
      BY <3>1
    <3> QED
      BY <3>3, <3>4
  <2>6. u.deltas[k].delta = -Cardinality(after)
    <3>1. u.deltas[k].delta =
              IF adr > ir THEN v.deltas[k].delta - 1 ELSE v.deltas[k].delta
      BY <1>4
    <3> HIDE DEF before, after, adr
    <3> QED
      BY <2>3, <2>4, <2>5, <3>1
  <2> QED
    BY <2>1, <2>6 DEF DeletedBefore
<1>6. /\ u.deleted \subseteq Irs(u.inner) /\ DOMAIN u.modified \subseteq Irs(u.inner)
      /\ u.deleted \cap DOMAIN u.modified = {}
  BY <1>3 DEF WellFormed
<1>7. WellFormed(u)
  BY <1>2, <1>3, <1>4, <1>5, <1>6 DEF WellFormed
<1> QED
  BY <1>2, <1>7 DEF u

\* set_ir of an ir that was not deleted keeps it, when the new instruction jumps only to
\* where the code jumps to.
LEMMA SetKeepsWellFormed ==
    ASSUME NEW v, WellFormed(v), NEW ir \in Irs(v.inner) \ v.deleted, NEW inst,
           JumpTargets(inst) \subseteq JumpTargetsOf(v.inner)
    PROVE  /\ WellFormed(SetIr(v, ir, inst))
           /\ SetIr(v, ir, inst).inner = v.inner
           /\ SetIr(v, ir, inst).deltas = v.deltas
           /\ SetIr(v, ir, inst).deleted = v.deleted
           /\ DOMAIN SetIr(v, ir, inst).modified = DOMAIN v.modified \cup {ir}
           /\ \A i \in DOMAIN v.modified \cup {ir} :
                  SetIr(v, ir, inst).modified[i] = IF i = ir THEN inst ELSE v.modified[i]
<1> DEFINE u == SetIr(v, ir, inst)
           edited == [i \in DOMAIN v.modified \cup {ir} |->
                          IF i = ir THEN inst ELSE v.modified[i]]
<1>1. u = [inner |-> v.inner, deltas |-> v.deltas, deleted |-> v.deleted, modified |-> edited]
  BY DEF WellFormed, SetIr
<1>2. /\ DOMAIN edited = DOMAIN v.modified \cup {ir}
      /\ \A i \in DOMAIN edited : edited[i] = IF i = ir THEN inst ELSE v.modified[i]
  OBVIOUS
<1> HIDE DEF u, edited
<1>3. u.inner = v.inner /\ u.deltas = v.deltas /\ u.deleted = v.deleted /\ u.modified = edited
  BY <1>1
<1>4. u = [inner |-> u.inner, deltas |-> u.deltas, deleted |-> u.deleted, modified |-> u.modified]
  BY <1>1, <1>3
<1>5. WellFormed(u)
  BY <1>2, <1>3, <1>4 DEF WellFormed
<1> QED
  BY <1>2, <1>3, <1>5 DEF u

\* update_adr finds the entry of each address that a jump may have, and moves it over the
\* deleted instructions before it.
LEMMA TargetsAreMoved ==
    ASSUME NEW v, WellFormed(v), NEW adr \in JumpTargetsOf(v.inner)
    PROVE  /\ FirstEntry(v, adr) # {}
           /\ NewAdr(v, adr) = MovedBy(v.deleted, adr)
           /\ NewAdr(v, adr) \in 0..adr
           /\ adr \in Nat
<1> DEFINE s == Addresses(v.deltas)
           n == Len(v.inner)
<1>1. /\ v.deltas \in Deltas /\ Entries(v.inner, s) /\ adr \in Nat
      /\ n \in Nat /\ v.deleted \in SUBSET (0..(n - 1))
  BY DEF WellFormed, IsProgram, Irs
<1>2. PICK k \in DOMAIN s : s[k] = adr /\ \A j \in 1..(k - 1) : s[j] < adr
  BY <1>1 DEF Entries
<1>3. /\ DOMAIN v.deltas = 1..Len(v.deltas) /\ Len(v.deltas) \in Nat
      /\ \A j \in DOMAIN v.deltas :
             v.deltas[j] \in [adr : Nat, delta : Int] /\ s[j] = v.deltas[j].adr
  BY <1>1, SeqElements DEF Deltas, Addresses
<1>4. FirstEntry(v, adr) = {k}
  <2>1. k \in FirstEntry(v, adr)
    <3>1. k \in DOMAIN v.deltas
      BY <1>2 DEF Addresses
    <3>2. \A j \in 1..(k - 1) : v.deltas[j].adr < adr
      BY <1>2, <1>3, <3>1
    <3> QED
      BY <1>1, <1>2, <1>3, <3>1, <3>2 DEF FirstEntry
  <2>2. ASSUME NEW j \in FirstEntry(v, adr)
        PROVE  j = k
    <3>1. /\ j \in 1..Len(v.deltas) /\ v.deltas[j].adr >= adr
          /\ \A i \in 1..(j - 1) : v.deltas[i].adr < adr
      BY <1>3 DEF FirstEntry
    <3>2. /\ k \in 1..Len(v.deltas) /\ v.deltas[k].adr >= adr
          /\ \A i \in 1..(k - 1) : v.deltas[i].adr < adr
      BY <1>3, <2>1 DEF FirstEntry
    <3>3. v.deltas[j].adr \in Nat /\ v.deltas[k].adr \in Nat
      BY <1>3, <3>1, <3>2
    <3> QED
      BY <1>1, <1>3, <3>1, <3>2, <3>3
  <2> QED
    BY <2>1, <2>2
<1>5. v.deltas[k].delta = -DeletedBefore(v.deleted, adr)
  BY <1>2, <1>3 DEF WellFormed, Addresses
<1>6. DeletedBefore(v.deleted, adr) \in 0..adr /\ MovedBy(v.deleted, adr) \in 0..adr
  BY <1>1, CountsDeleted
<1>7. NewAdr(v, adr) = adr + v.deltas[k].delta
  BY <1>4 DEF NewAdr
<1>8. NewAdr(v, adr) = MovedBy(v.deleted, adr)
  BY <1>1, <1>5, <1>6, <1>7 DEF MovedBy
<1> QED
  BY <1>1, <1>4, <1>6, <1>8

\* What is left jumps only to where the code jumps to, so every jump has its entry.
LEMMA EditedJumps ==
    ASSUME NEW v, WellFormed(v), NEW ir \in Irs(v.inner)
    PROVE  JumpTargets(Edited(v, ir)) \subseteq JumpTargetsOf(v.inner)
  BY DEF Edited, WellFormed, JumpTargetsOf

\* The conversion to a RoCode finds the new address of every jump target.
LEMMA EmitNeverPanicsWellFormed ==
    ASSUME NEW v, WellFormed(v)
    PROVE  ~EmitPanics(v)
<1> SUFFICES ASSUME NEW ir \in Irs(v.inner), NEW adr \in JumpTargets(Edited(v, ir))
             PROVE  FirstEntry(v, adr) # {} /\ ~(NewAdr(v, adr) < 0)
  BY DEF EmitPanics
<1>1. adr \in JumpTargetsOf(v.inner)
  BY EditedJumps
<1>2. FirstEntry(v, adr) # {} /\ NewAdr(v, adr) \in 0..adr /\ adr \in Nat
  BY <1>1, TargetsAreMoved
<1> QED
  BY <1>2

\* RoCode::from(&WoCode): the instruction that was at ir is where ir has moved, and jumps to
\* where its target has moved.
LEMMA EmittedIsRight ==
    ASSUME NEW v, WellFormed(v)
    PROVE  /\ Emitted(v) = [p \in 1..Len(Emitted(v)) |-> Emitted(v)[p]]
           /\ Len(Emitted(v)) = MovedBy(v.deleted, Len(v.inner))
           /\ Len(Emitted(v)) \in 0..Len(v.inner)
           /\ \A p \in 1..Len(Emitted(v)) : \E ir \in Irs(v.inner) \ v.deleted :
                  /\ MovedBy(v.deleted, ir) = p - 1
                  /\ Kept(v)[p] = ir
           /\ \A ir \in Irs(v.inner) \ v.deleted :
                  /\ MovedBy(v.deleted, ir) \in Irs(Emitted(v))
                  /\ Kept(v)[MovedBy(v.deleted, ir) + 1] = ir
                  /\ At(Emitted(v), MovedBy(v.deleted, ir)) =
                         MapAdr(Edited(v, ir), NewAdr(v, Edited(v, ir).n))
<1> DEFINE n == Len(v.inner)
           D == v.deleted
           s == Kept(v)
           code == Emitted(v)
<1>1. n \in Nat /\ D \in SUBSET (0..(n - 1)) /\ Irs(v.inner) = 0..(n - 1)
  BY DEF WellFormed, IsProgram, Irs
<1>2. KeepsBefore(s, n, D)
  BY KeptIsRight DEF WellFormed, IsProgram
<1>3. s \in Seq(Nat) /\ DOMAIN s = 1..Len(s) /\ Len(s) \in Nat /\ Len(s) = MovedBy(D, n)
  BY <1>2 DEF KeepsBefore
<1>4. code = [p \in 1..Len(s) |-> MapAdr(Edited(v, s[p]), NewAdr(v, Edited(v, s[p]).n))]
  BY <1>3 DEF Emitted
<1>5. DOMAIN code = 1..Len(s) /\ Len(code) = Len(s)
  BY <1>3, <1>4
<1>6. MovedBy(D, n) \in 0..n
  BY <1>1, CountsDeleted
<1>7. ASSUME NEW p \in 1..Len(s)
      PROVE  s[p] \in Irs(v.inner) \ D /\ MovedBy(D, s[p]) = p - 1
  BY <1>1, <1>2, <1>3 DEF KeepsBefore
<1>8. ASSUME NEW ir \in Irs(v.inner) \ D
      PROVE  /\ MovedBy(D, ir) \in Irs(code)
             /\ s[MovedBy(D, ir) + 1] = ir
             /\ At(code, MovedBy(D, ir)) = MapAdr(Edited(v, ir), NewAdr(v, Edited(v, ir).n))
  <2>1. MovedBy(D, ir) + 1 \in 1..Len(s) /\ s[MovedBy(D, ir) + 1] = ir
    BY <1>1, <1>2, <1>3 DEF KeepsBefore
  <2>2. MovedBy(D, ir) \in Int
    <3>1. ir \in Nat
      BY <1>1
    <3>2. MovedBy(D, ir) \in 0..ir
      BY <1>1, <3>1, CountsDeleted
    <3> QED
      BY <3>1, <3>2
  <2>3. MovedBy(D, ir) \in 0..(Len(code) - 1)
    BY <1>3, <1>5, <2>1, <2>2
  <2>4. At(code, MovedBy(D, ir)) = MapAdr(Edited(v, ir), NewAdr(v, Edited(v, ir).n))
    BY <1>4, <2>1 DEF At
  <2> QED
    BY <2>1, <2>3, <2>4 DEF Irs
<1>9. code = [p \in 1..Len(code) |-> code[p]]
  BY <1>4, <1>5
<1> QED
  BY <1>3, <1>5, <1>6, <1>7, <1>8, <1>9

\* can_combine answers yes exactly where no jump enters ]ir0, ir1] (but at the end of the
\* code), and always finds an entry that tells.
LEMMA CombinesRight ==
    ASSUME NEW v, WellFormed(v), NEW ir0 \in Irs(v.inner), NEW ir1 \in 1..Len(v.inner), ir0 < ir1
    PROVE  LET entered == JumpTargetsOf(v.inner) \cap (ir0 + 1)..ir1 # {}
           IN  /\ \E k \in DOMAIN v.deltas : v.deltas[k].adr > ir0
               /\ entered => ~CanCombine(v, ir0, ir1)
               /\ ir1 < Len(v.inner) /\ ~entered => CanCombine(v, ir0, ir1)
<1> DEFINE s == Addresses(v.deltas)
           targets == JumpTargetsOf(v.inner)
           past == { k \in DOMAIN s : s[k] > ir0 }
<1>1. v.deltas \in Deltas /\ Entries(v.inner, s) /\ Len(v.inner) \in Nat
  BY DEF WellFormed, IsProgram
<1>2. ir0 \in Nat /\ ir1 \in Nat /\ ir0 < Len(v.inner)
  BY <1>1 DEF Irs
<1>3. s \in Seq(Nat) /\ DOMAIN s = 1..Len(s) /\ Len(s) \in Nat \ {0} /\ s[Len(s)] = Len(v.inner)
  <2>1. s \in Seq(Nat) /\ s # << >> /\ s[Len(s)] = Len(v.inner)
    BY <1>1 DEF Entries
  <2> QED
    BY <2>1
<1>4. DOMAIN v.deltas = DOMAIN s /\ \A k \in DOMAIN s : v.deltas[k].adr = s[k] /\ s[k] \in Nat
  <2>1. \A k \in DOMAIN s : s[k] \in Nat
    BY <1>3
  <2> QED
    BY <2>1 DEF Addresses
<1> HIDE DEF s
<1>5. Len(s) \in past
  BY <1>2, <1>3
<1>6. CanCombine(v, ir0, ir1) <=> \E k \in DOMAIN s : s[k] > ir1 /\ \A j \in 1..(k - 1) : s[j] <= ir0
  <2>1. \A k \in DOMAIN s : \A j \in 1..(k - 1) : j \in DOMAIN s
    BY <1>3
  <2> QED
    BY <1>4, <2>1 DEF CanCombine
<1>7. ASSUME NEW adr \in targets, adr \in (ir0 + 1)..ir1, CanCombine(v, ir0, ir1)
      PROVE  FALSE
  <2>1. PICK k \in DOMAIN s : s[k] > ir1 /\ \A j \in 1..(k - 1) : s[j] <= ir0
    BY <1>6, <1>7
  <2>2. PICK e \in DOMAIN s : s[e] = adr /\ \A j \in 1..(e - 1) : s[j] < adr
    BY <1>1 DEF Entries
  <2>3. e < k => s[e] <= ir0
    BY <1>3, <2>1, <2>2
  <2>4. k < e => s[k] < adr
    BY <1>3, <2>1, <2>2
  <2>5. s[k] \in Nat /\ adr \in Nat
    BY <1>4, <2>1, <2>2
  <2> QED
    BY <1>2, <1>3, <1>7, <2>1, <2>2, <2>3, <2>4, <2>5
<1>8. ASSUME ir1 < Len(v.inner), targets \cap (ir0 + 1)..ir1 = {}
      PROVE  CanCombine(v, ir0, ir1)
  <2>1. PICK k \in past : \A j \in past : k <= j
    <3>1. past \in SUBSET Nat /\ past # {}
      BY <1>3, <1>5
    <3> QED
      BY <3>1, LeastExists
  <2>2. k \in DOMAIN s /\ s[k] \in Nat /\ s[k] > ir0
    BY <1>4, <2>1
  <2>3. \A j \in 1..(k - 1) : s[j] <= ir0
    <3> TAKE j \in 1..(k - 1)
    <3>1. j \in DOMAIN s /\ j < k /\ s[j] \in Nat
      BY <1>3, <1>4, <2>2
    <3>2. j \notin past
      BY <1>3, <2>1, <2>2, <3>1
    <3> QED
      BY <1>2, <3>1, <3>2
  <2>4. s[k] \in targets \cup {Len(v.inner)}
    BY <1>1, <2>2 DEF Entries
  <2>5. s[k] > ir1
    BY <1>1, <1>2, <1>8, <2>2, <2>4
  <2> QED
    BY <1>6, <2>2, <2>3, <2>5
<1>9. \E k \in DOMAIN v.deltas : v.deltas[k].adr > ir0
  BY <1>4, <1>5
<1> QED
  BY <1>7, <1>8, <1>9

\* A jump of an instruction leads to an address.
LEMMA InstructionJumps ==
    ASSUME NEW inst \in Instruction
    PROVE  JumpTargets(inst) \subseteq Usize /\ JumpTargets(inst) \subseteq Nat
<1> SUFFICES ASSUME inst.op \in JumpOps
             PROVE  inst.n \in Usize /\ inst.n \in Nat
  BY DEF JumpTargets
<1>1. inst.n \in Usize
  BY DEF Instruction, Value, Register, Address, JumpOps, ConditionalJumps, BinaryOps, UnaryOps
<1> QED
  BY <1>1, WidthAssumption DEF Usize

=============================================================================
