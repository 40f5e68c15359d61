------------------------- MODULE ProcessHost_proofs -------------------------
(***************************************************************************)
(* Proofs about ProcessHost: for any programs and whatever they write, the *)
(* mailbox counts what it holds, forgets nothing, and plugins are told the *)
(* output in order and the end last.                                       *)
(***************************************************************************)
EXTENDS ProcessHost, FiniteSetTheorems, SequenceTheorems, TLAPS

-----------------------------------------------------------------------------
(***************************************************************************)
(* Counting.  The induction theorems of the library take a predicate,      *)
(* which cannot be instantiated here; a set of numbers can.                *)
(***************************************************************************)

\* Every set of numbers that is not empty has a least one.
LEMMA LeastNumber ==
  ASSUME NEW T \in SUBSET Nat, T # {}
  PROVE  \E n \in T : \A m \in T : n <= m
<1> DEFINE Below(n) == 0..n
           Intervals == {Below(n) : n \in T}
<1>1. IsWellFoundedOn(StrictSubsetOrdering(Nat), FiniteSubsetsOf(Nat))
  BY FS_StrictSubsetOrderingWellFounded
<1>2. Intervals \subseteq FiniteSubsetsOf(Nat)
  <2> SUFFICES ASSUME NEW n \in T PROVE Below(n) \in FiniteSubsetsOf(Nat)
    OBVIOUS
  <2>1. n \in Nat /\ n \in Int /\ 0 \in Int
    OBVIOUS
  <2>2. IsFiniteSet(0..n)
    BY <2>1, FS_Interval
  <2>3. 0..n \in SUBSET Nat
    BY <2>1
  <2> QED  BY <2>2, <2>3 DEF FiniteSubsetsOf
<1>3. Intervals # {}
  OBVIOUS
<1>4. PICK x \in Intervals : \A y \in Intervals : <<y, x>> \notin StrictSubsetOrdering(Nat)
  <2> HIDE DEF Intervals
  <2> QED  BY <1>1, <1>2, <1>3, WFMin
<1>5. PICK n \in T : x = Below(n)
  BY <1>4
<1>6. ASSUME NEW m \in T PROVE n <= m
  <2> SUFFICES ASSUME m < n PROVE FALSE
    OBVIOUS
  <2>1. Below(m) \subseteq Below(n) /\ Below(m) # Below(n)
    OBVIOUS
  <2>2. Below(m) \in SUBSET Nat /\ Below(n) \in SUBSET Nat
    OBVIOUS
  <2>3. <<Below(m), Below(n)>> \in StrictSubsetOrdering(Nat)
    BY <2>1, <2>2 DEF StrictSubsetOrdering
  <2>4. Below(m) \in Intervals
    OBVIOUS
  <2> QED  BY <1>4, <1>5, <2>3, <2>4
<1> QED  BY <1>6

\* What holds of 0, and of each number after one of which it holds, holds up to n.
LEMMA Counting ==
  ASSUME NEW n \in Nat, NEW T, 0 \in T,
         \A k \in 0..n : k < n /\ k \in T => k + 1 \in T
  PROVE  \A k \in 0..n : k \in T
<1> DEFINE Bad == {k \in 0..n : k \notin T}
<1> SUFFICES ASSUME Bad # {} PROVE FALSE
  OBVIOUS
<1>1. Bad \in SUBSET Nat
  OBVIOUS
<1>2. PICK k \in Bad : \A m \in Bad : k <= m
  <2> HIDE DEF Bad
  <2> QED  BY <1>1, LeastNumber
<1>3. k # 0 /\ k \in 0..n
  OBVIOUS
<1>4. k - 1 \in 0..n /\ k - 1 < n /\ k - 1 \notin Bad
  BY <1>2, <1>3
<1>5. k - 1 \in T
  BY <1>4
<1> QED  BY <1>3, <1>4, <1>5

-----------------------------------------------------------------------------
(***************************************************************************)
(* Sums.  Sum folds over the sets of its domain, one chosen member after   *)
(* the other; what it answers does not depend on the choice.               *)
(***************************************************************************)

\* The sums of f over all subsets of S.
Table(F, S, f) ==
    /\ F \in [SUBSET S -> Int]
    /\ F[{}] = 0
    /\ \A s \in SUBSET S : \A x \in s : F[s] = f[x] + F[s \ {x}]

Chosen(s) == CHOOSE x \in s : TRUE

\* The sums right for the sets of at most k members.
UpToSize(F, S, f, k) ==
    \A s \in SUBSET S : Cardinality(s) <= k =>
        F[s] = IF s = {} THEN 0 ELSE f[Chosen(s)] + F[s \ {Chosen(s)}]

Stepwise(F, S, f) ==
    \A s \in SUBSET S : F[s] = IF s = {} THEN 0 ELSE f[Chosen(s)] + F[s \ {Chosen(s)}]

LEMMA SizesOfSubsets ==
  ASSUME NEW S, IsFiniteSet(S), NEW s \in SUBSET S
  PROVE  /\ IsFiniteSet(s) /\ Cardinality(s) \in Nat /\ Cardinality(s) <= Cardinality(S)
         /\ (Cardinality(s) = 0 <=> s = {})
         /\ \A x \in s : s \ {x} \in SUBSET S /\ Cardinality(s \ {x}) = Cardinality(s) - 1
<1>1. IsFiniteSet(s) /\ Cardinality(s) <= Cardinality(S)
  BY FS_Subset
<1>2. Cardinality(s) \in Nat /\ (Cardinality(s) = 0 <=> s = {})
  BY <1>1, FS_CardinalityType, FS_EmptySet
<1>3. \A x \in s : Cardinality(s \ {x}) = Cardinality(s) - 1
  BY <1>1, FS_RemoveElement
<1> QED  BY <1>1, <1>2, <1>3

LEMMA TableSteps ==
  ASSUME NEW S, IsFiniteSet(S), NEW f \in [S -> Int]
  PROVE  \E F \in [SUBSET S -> Int] : Stepwise(F, S, f)
<1> DEFINE n == Cardinality(S)
           T == {k \in 0..n : \E F \in [SUBSET S -> Int] : UpToSize(F, S, f, k)}
<1>1. n \in Nat
  BY FS_CardinalityType
<1>2. \A s \in SUBSET S : s # {} => Chosen(s) \in s /\ Chosen(s) \in S
  BY DEF Chosen
<1>3. 0 \in T
  <2> DEFINE F == [s \in SUBSET S |-> 0]
  <2>1. F \in [SUBSET S -> Int]
    OBVIOUS
  <2>2. UpToSize(F, S, f, 0)
    <3> SUFFICES ASSUME NEW s \in SUBSET S, Cardinality(s) <= 0 PROVE s = {} /\ F[s] = 0
      BY DEF UpToSize
    <3>1. Cardinality(s) = 0
      BY SizesOfSubsets
    <3> QED  BY <3>1, SizesOfSubsets
  <2>3. 0 \in 0..n
    BY <1>1
  <2> HIDE DEF F, n
  <2> QED  BY <2>1, <2>2, <2>3
<1>4. ASSUME NEW k \in 0..n, k < n, k \in T PROVE k + 1 \in T
  <2>1. PICK F \in [SUBSET S -> Int] : UpToSize(F, S, f, k)
    BY <1>4
  <2> DEFINE G == [s \in SUBSET S |-> IF Cardinality(s) <= k THEN F[s] ELSE f[Chosen(s)] + F[s \ {Chosen(s)}]]
  <2>2. k \in Nat /\ k + 1 \in 0..n
    BY <1>1, <1>4
  <2>3. ASSUME NEW s \in SUBSET S, ~(Cardinality(s) <= k)
        PROVE  s # {} /\ f[Chosen(s)] \in Int /\ s \ {Chosen(s)} \in SUBSET S
    <3>1. s # {}
      <4>1. Cardinality({}) = 0 /\ 0 <= k
        BY <2>2, FS_EmptySet
      <4> QED  BY <2>3, <4>1
    <3> QED  BY <1>2, <3>1
  <2>4. G \in [SUBSET S -> Int]
    <3>1. ASSUME NEW s \in SUBSET S
          PROVE (IF Cardinality(s) <= k THEN F[s] ELSE f[Chosen(s)] + F[s \ {Chosen(s)}]) \in Int
      <4>1. CASE Cardinality(s) <= k
        BY <4>1
      <4>2. CASE ~(Cardinality(s) <= k)
        <5>1. f[Chosen(s)] \in Int /\ F[s \ {Chosen(s)}] \in Int
          BY <2>3, <4>2
        <5> QED  BY <4>2, <5>1
      <4> QED  BY <4>1, <4>2
    <3> QED  BY <3>1
  <2>5. UpToSize(G, S, f, k + 1)
    <3> SUFFICES ASSUME NEW s \in SUBSET S, Cardinality(s) <= k + 1
                 PROVE  G[s] = IF s = {} THEN 0 ELSE f[Chosen(s)] + G[s \ {Chosen(s)}]
      BY DEF UpToSize
    <3>1. CASE s = {}
      <4>1. Cardinality(s) <= k
        BY <2>2, <3>1, FS_EmptySet
      <4>2. G[s] = F[s]
        BY <4>1
      <4> HIDE DEF G
      <4> QED  BY <2>1, <3>1, <4>1, <4>2 DEF UpToSize
    <3>2. CASE s # {}
      <4> DEFINE t == s \ {Chosen(s)}
      <4>1. Chosen(s) \in s
        BY <1>2, <3>2
      <4>2. t \in SUBSET S /\ Cardinality(t) = Cardinality(s) - 1 /\ Cardinality(s) \in Nat
        BY <4>1, SizesOfSubsets
      <4> HIDE DEF t
      <4>3. Cardinality(t) <= k
        BY <2>2, <4>2
      <4>4. G[t] = F[t]
        BY <4>2, <4>3
      <4>5. G[s] = f[Chosen(s)] + F[t]
        <5>1. CASE Cardinality(s) <= k
          <6>1. G[s] = F[s]
            BY <5>1
          <6> HIDE DEF G
          <6> QED  BY <2>1, <3>2, <5>1, <6>1 DEF UpToSize, t
        <5>2. CASE ~(Cardinality(s) <= k)
          BY <5>2 DEF t
        <5> QED  BY <5>1, <5>2
      <4> HIDE DEF G
      <4> QED  BY <3>2, <4>4, <4>5 DEF t
    <3> QED  BY <3>1, <3>2
  <2> HIDE DEF G, n
  <2> QED  BY <2>2, <2>4, <2>5
<1> HIDE DEF n
<1>5. \A k \in 0..n : k \in T
  <2> HIDE DEF T
  <2> QED  BY <1>1, <1>3, <1>4, Counting
<1>6. n \in T
  <2> HIDE DEF T
  <2> QED  BY <1>1, <1>5
<1>7. PICK F \in [SUBSET S -> Int] : UpToSize(F, S, f, n)
  BY <1>6
<1>8. \A s \in SUBSET S : Cardinality(s) <= n
  BY SizesOfSubsets DEF n
<1>9. Stepwise(F, S, f)
  BY <1>7, <1>8 DEF UpToSize, Stepwise
<1> QED  BY <1>9

\* The order in which members are taken does not matter.
LEMMA TableExists ==
  ASSUME NEW S, IsFiniteSet(S), NEW f \in [S -> Int]
  PROVE  \E F : Table(F, S, f) /\ F[S] = Sum(f)
<1> DEFINE Step(F, s) == IF s = {} THEN 0 ELSE f[Chosen(s)] + F[s \ {Chosen(s)}]
           Is(F) == F = [s \in SUBSET S |-> Step(F, s)]
           F == CHOOSE F : Is(F)
<1>1. PICK G \in [SUBSET S -> Int] : Stepwise(G, S, f)
  <2> HIDE DEF Step
  <2> QED  BY TableSteps
<1>2. Is(G)
  BY <1>1 DEF Stepwise
<1>3. Is(F)
  <2> HIDE DEF Is
  <2> QED  BY <1>2
<1>4. Sum(f) = F[S]
  <2>1. DOMAIN f = S
    OBVIOUS
  <2> QED  BY <2>1 DEF Sum, MapThenSumSet, MapThenFoldSet, Chosen
<1> HIDE DEF F
<1>5. \A s \in SUBSET S : F[s] = Step(F, s)
  BY <1>3
<1> DEFINE n == Cardinality(S)
           Sums(k) == \A s \in SUBSET S : Cardinality(s) <= k => F[s] \in Int /\ \A x \in s : F[s] = f[x] + F[s \ {x}]
           T == {k \in 0..n : Sums(k)}
<1>6. n \in Nat
  BY FS_CardinalityType
<1>7. F[{}] = 0
  <2>1. {} \in SUBSET S
    OBVIOUS
  <2>2. F[{}] = Step(F, {})
    BY <1>5, <2>1
  <2> QED  BY <2>2
<1> HIDE DEF Is
<1>8. Sums(0)
  <2> SUFFICES ASSUME NEW s \in SUBSET S, Cardinality(s) <= 0
               PROVE  F[s] \in Int /\ \A x \in s : F[s] = f[x] + F[s \ {x}]
    OBVIOUS
  <2>1. Cardinality(s) = 0
    BY SizesOfSubsets
  <2>2. s = {}
    BY <2>1, SizesOfSubsets
  <2> QED  BY <1>7, <2>2
<1>9. ASSUME NEW k \in 0..n, k < n, k \in T PROVE k + 1 \in T
  <2>1. k \in Nat /\ k + 1 \in 0..n /\ Sums(k)
    BY <1>6, <1>9
  <2>2. Sums(k + 1)
    <3> SUFFICES ASSUME NEW s \in SUBSET S, Cardinality(s) <= k + 1
                 PROVE  F[s] \in Int /\ \A x \in s : F[s] = f[x] + F[s \ {x}]
      OBVIOUS
    <3>1. CASE s = {}
      BY <1>7, <3>1
    <3>2. CASE s # {}
      <4> DEFINE c == Chosen(s)
                 t == s \ {c}
      <4>1. c \in s
        BY <3>2 DEF Chosen
      <4>2. \A u \in SUBSET S : \A y \in u : u \ {y} \in SUBSET S /\ Cardinality(u \ {y}) = Cardinality(u) - 1 /\ Cardinality(u) \in Nat
        BY SizesOfSubsets
      <4>3. F[s] = f[c] + F[t]
        BY <1>5, <3>2
      <4> HIDE DEF c, Step
      <4>4. t \in SUBSET S /\ Cardinality(t) <= k
        <5>1. Cardinality(t) = Cardinality(s) - 1 /\ Cardinality(s) \in Nat /\ t \in SUBSET S
          BY <4>1, <4>2
        <5> HIDE DEF t
        <5> QED  BY <2>1, <5>1
      <4>5. F[t] \in Int /\ \A x \in t : F[t] = f[x] + F[t \ {x}]
        <5> HIDE DEF t
        <5> QED  BY <2>1, <4>4
      <4>6. ASSUME NEW x \in s PROVE F[s] = f[x] + F[s \ {x}]
        <5>1. CASE x = c
          BY <4>3, <5>1
        <5>2. CASE x # c
          <6> DEFINE v == s \ {x}
                     w == t \ {x}
          <6>1. x \in t /\ c \in v /\ w = v \ {c}
            BY <4>1, <5>2
          <6>2. v \in SUBSET S /\ Cardinality(v) <= k
            <7>1. Cardinality(v) = Cardinality(s) - 1 /\ Cardinality(s) \in Nat /\ v \in SUBSET S
              BY <4>2
            <7> HIDE DEF v
            <7> QED  BY <2>1, <7>1
          <6>3. w \in SUBSET S /\ Cardinality(w) <= k
            <7>1. Cardinality(w) = Cardinality(t) - 1 /\ Cardinality(t) \in Nat /\ w \in SUBSET S
              BY <4>2, <4>4, <6>1
            <7> HIDE DEF w, t
            <7> QED  BY <2>1, <4>4, <7>1
          <6>4. F[t] = f[x] + F[w]
            BY <4>5, <6>1
          <6>5. F[v] = f[c] + F[v \ {c}]
            <7> HIDE DEF v
            <7> QED  BY <2>1, <6>1, <6>2
          <6>6. F[w] \in Int
            <7> HIDE DEF w
            <7> QED  BY <2>1, <6>3
          <6>7. f[c] \in Int /\ f[x] \in Int
            BY <4>1
          <6> HIDE DEF v, w, t
          <6>8. F[s] = f[x] + F[v]
            BY <4>3, <6>1, <6>4, <6>5, <6>6, <6>7
          <6> QED  BY <6>8 DEF v
        <5> QED  BY <5>1, <5>2
      <4>7. F[s] \in Int
        <5>1. f[c] \in Int
          BY <4>1
        <5> HIDE DEF t
        <5> QED  BY <4>3, <4>5, <5>1
      <4> QED  BY <4>6, <4>7
    <3> QED  BY <3>1, <3>2
  <2> HIDE DEF Sums, n
  <2> QED  BY <2>1, <2>2
<1>10. 0 \in T
  BY <1>6, <1>8
<1> HIDE DEF n, Sums
<1>11. \A k \in 0..n : k \in T
  <2> HIDE DEF T
  <2> QED  BY <1>6, <1>9, <1>10, Counting
<1>12. Sums(n)
  BY <1>6, <1>11
<1>13. \A s \in SUBSET S : F[s] \in Int /\ \A x \in s : F[s] = f[x] + F[s \ {x}]
  BY <1>12, SizesOfSubsets DEF Sums, n
<1>14. F \in [SUBSET S -> Int]
  <2>1. F = [s \in SUBSET S |-> Step(F, s)]
    BY <1>3 DEF Is
  <2>2. F = [s \in SUBSET S |-> F[s]]
    <3> HIDE DEF Step
    <3> QED  BY <2>1
  <2> QED  BY <2>2, <1>13
<1>15. Table(F, S, f)
  BY <1>7, <1>13, <1>14 DEF Table
<1> QED  BY <1>4, <1>15

\* What holds of the empty set, and of each set one member of which leaves a set of
\* which it holds, holds of all.
LEMMA Growing ==
  ASSUME NEW S, IsFiniteSet(S), NEW T, {} \in T,
         \A s \in SUBSET S : \A x \in s : s \ {x} \in T => s \in T
  PROVE  S \in T
<1> DEFINE n == Cardinality(S)
           All(k) == \A s \in SUBSET S : Cardinality(s) <= k => s \in T
           N == {k \in 0..n : All(k)}
<1>1. n \in Nat
  BY FS_CardinalityType
<1>2. All(0)
  <2> SUFFICES ASSUME NEW s \in SUBSET S, Cardinality(s) <= 0 PROVE s = {}
    OBVIOUS
  <2>1. Cardinality(s) = 0
    BY SizesOfSubsets
  <2> QED  BY <2>1, SizesOfSubsets
<1>3. ASSUME NEW k \in 0..n, k < n, k \in N PROVE k + 1 \in N
  <2>1. k \in Nat /\ k + 1 \in 0..n /\ All(k)
    BY <1>1, <1>3
  <2>2. All(k + 1)
    <3> SUFFICES ASSUME NEW s \in SUBSET S, Cardinality(s) <= k + 1, s # {} PROVE s \in T
      OBVIOUS
    <3>1. PICK x \in s : TRUE
      OBVIOUS
    <3>2. s \ {x} \in SUBSET S /\ Cardinality(s \ {x}) = Cardinality(s) - 1 /\ Cardinality(s) \in Nat
      BY SizesOfSubsets
    <3>3. Cardinality(s \ {x}) <= k
      BY <2>1, <3>2
    <3> QED  BY <2>1, <3>2, <3>3
  <2> HIDE DEF All, n
  <2> QED  BY <2>1, <2>2
<1>4. 0 \in N
  BY <1>1, <1>2
<1> HIDE DEF n, All
<1>5. \A k \in 0..n : k \in N
  <2> HIDE DEF N
  <2> QED  BY <1>1, <1>3, <1>4, Counting
<1>6. All(n)
  BY <1>1, <1>5
<1> QED  BY <1>6, SizesOfSubsets DEF All, n

Lessened(g, f, S, h, t) == \A p \in S : g[p] = IF p \in t THEN f[p] - h[p] ELSE f[p]
Raised(g, f, S, q, m) == \A p \in S : g[p] = IF p = q THEN f[p] + m ELSE f[p]

\* Taking h away from f, on some of its members, takes the sum of h away from its sum.
LEMMA SumLess ==
  ASSUME NEW S, IsFiniteSet(S), NEW f \in [S -> Int], NEW t \in SUBSET S, NEW h \in [t -> Int],
         NEW g \in [S -> Int], Lessened(g, f, S, h, t)
  PROVE  Sum(f) \in Int /\ Sum(h) \in Int /\ Sum(g) = Sum(f) - Sum(h)
<1>1. IsFiniteSet(t)
  BY FS_Subset
<1>2. PICK F : Table(F, S, f) /\ F[S] = Sum(f)
  BY TableExists
<1>3. PICK G : Table(G, S, g) /\ G[S] = Sum(g)
  BY TableExists
<1>4. PICK H : Table(H, t, h) /\ H[t] = Sum(h)
  BY <1>1, TableExists
<1> DEFINE T == {s \in SUBSET S : G[s] = F[s] - H[s \cap t]}
<1>5. {} \in T
  <2>1. F[{}] = 0 /\ G[{}] = 0 /\ H[{}] = 0 /\ {} \cap t = {}
    BY <1>2, <1>3, <1>4 DEF Table
  <2> QED  BY <2>1
<1>6. ASSUME NEW s \in SUBSET S, NEW x \in s, s \ {x} \in T PROVE s \in T
  <2> DEFINE r == s \ {x}
  <2>1. G[r] = F[r] - H[r \cap t] /\ r \in SUBSET S /\ s \cap t \in SUBSET t /\ r \cap t \in SUBSET t
    BY <1>6
  <2>2. F[s] = f[x] + F[r] /\ G[s] = g[x] + G[r] /\ F[r] \in Int /\ G[r] \in Int
    BY <1>2, <1>3, <2>1 DEF Table
  <2>3. H[r \cap t] \in Int
    BY <1>4, <2>1 DEF Table
  <2>4. f[x] \in Int /\ g[x] \in Int /\ g[x] = IF x \in t THEN f[x] - h[x] ELSE f[x]
    BY DEF Lessened
  <2>5. CASE x \in t
    <3>1. x \in s \cap t /\ r \cap t = (s \cap t) \ {x} /\ h[x] \in Int
      BY <2>5
    <3>2. H[s \cap t] = h[x] + H[r \cap t]
      <4> DEFINE a == s \cap t
      <4>1. a \in SUBSET t /\ x \in a
        BY <2>1, <3>1
      <4>2. H[a] = h[x] + H[a \ {x}]
        <5> HIDE DEF a
        <5> QED  BY <1>4, <4>1 DEF Table
      <4> QED  BY <3>1, <4>2
    <3>3. g[x] = f[x] - h[x]
      BY <2>4, <2>5
    <3>4. G[r] = F[r] - H[r \cap t] /\ F[r] \in Int /\ H[r \cap t] \in Int /\ h[x] \in Int /\ f[x] \in Int
      BY <2>1, <2>2, <2>3, <2>4, <3>1
    <3>5. F[s] = f[x] + F[r] /\ G[s] = (f[x] - h[x]) + G[r]
      BY <2>2, <3>3
    <3> HIDE DEF r
    <3>6. G[s] = F[s] - H[s \cap t]
      BY <3>2, <3>4, <3>5
    <3> QED  BY <3>6
  <2>6. CASE x \notin t
    <3>1. r \cap t = s \cap t
      BY <2>6
    <3> HIDE DEF r
    <3>2. G[s] = f[x] + G[r] /\ F[s] = f[x] + F[r]
      BY <2>2, <2>4, <2>6
    <3>3. G[r] = F[r] - H[s \cap t] /\ F[r] \in Int /\ H[s \cap t] \in Int /\ f[x] \in Int
      BY <2>1, <2>2, <2>3, <2>4, <3>1
    <3>4. G[s] = F[s] - H[s \cap t]
      BY <3>2, <3>3
    <3> QED  BY <3>4
  <2> QED  BY <2>5, <2>6
<1>7. S \in T
  <2> HIDE DEF T
  <2> QED  BY <1>5, <1>6, Growing
<1>8. S \cap t = t
  OBVIOUS
<1>9. F[S] \in Int /\ H[t] \in Int
  BY <1>2, <1>4 DEF Table
<1> QED  BY <1>2, <1>3, <1>4, <1>7, <1>8, <1>9

\* A sum of numbers is one.
LEMMA SumNat ==
  ASSUME NEW S, IsFiniteSet(S), NEW f \in [S -> Nat]
  PROVE  Sum(f) \in Nat
<1>1. f \in [S -> Int]
  OBVIOUS
<1>2. PICK F : Table(F, S, f) /\ F[S] = Sum(f)
  BY <1>1, TableExists
<1> DEFINE T == {s \in SUBSET S : F[s] \in Nat}
<1>3. {} \in T
  BY <1>2 DEF Table
<1>4. ASSUME NEW s \in SUBSET S, NEW x \in s, s \ {x} \in T PROVE s \in T
  <2>1. F[s] = f[x] + F[s \ {x}] /\ f[x] \in Nat
    BY <1>2 DEF Table
  <2> QED  BY <1>4, <2>1
<1>5. S \in T
  <2> HIDE DEF T
  <2> QED  BY <1>3, <1>4, Growing
<1> QED  BY <1>2, <1>5

\* A sum grows with each of its members.
LEMMA SumMore ==
  ASSUME NEW S, IsFiniteSet(S), NEW f \in [S -> Int], NEW q \in S, NEW m \in Int,
         NEW g \in [S -> Int], Raised(g, f, S, q, m)
  PROVE  Sum(g) = Sum(f) + m /\ Sum(f) \in Int
<1> DEFINE h == [p \in {q} |-> -m]
<1>1. h \in [{q} -> Int] /\ {q} \in SUBSET S
  OBVIOUS
<1>2. Lessened(g, f, S, h, {q})
  BY DEF Lessened, Raised
<1>3. IsFiniteSet({q})
  BY FS_Singleton
<1>4. PICK H : Table(H, {q}, h) /\ H[{q}] = Sum(h)
  <2> HIDE DEF h
  <2> QED  BY <1>1, <1>3, TableExists
<1>5. H[{q}] = h[q] + H[{}] /\ H[{}] = 0 /\ h[q] = -m
  <2>1. {q} \in SUBSET {q} /\ q \in {q} /\ {q} \ {q} = {}
    OBVIOUS
  <2>2. H[{q}] = h[q] + H[{q} \ {q}] /\ H[{}] = 0
    BY <1>4, <2>1 DEF Table
  <2> QED  BY <2>1, <2>2
<1>6. Sum(f) \in Int /\ Sum(g) = Sum(f) - Sum(h)
  <2> HIDE DEF h
  <2> QED  BY <1>1, <1>2, SumLess
<1> HIDE DEF h
<1>7. Sum(h) = -m
  BY <1>4, <1>5
<1> QED  BY <1>6, <1>7

\* Nothing adds up to nothing.
LEMMA SumNone ==
  ASSUME NEW S, IsFiniteSet(S)
  PROVE  Sum([p \in S |-> 0]) = 0
<1> DEFINE f == [p \in S |-> 0]
<1>1. f \in [S -> Int] /\ Lessened(f, f, S, f, S)
  BY DEF Lessened
<1>2. Sum(f) \in Int /\ Sum(f) = Sum(f) - Sum(f)
  <2> HIDE DEF f
  <2> QED  BY <1>1, SumLess
<1> QED  BY <1>2

-----------------------------------------------------------------------------
(***************************************************************************)
(* The chunks of a program: where each begins, how many a read empties,    *)
(* and what their units are together.                                      *)
(***************************************************************************)

Chunk == [stream : Streams, units : Seq(Nat) \ {<<>>}]

\* The bytes of the first chunks of a sequence, as UpTo has those of box[p].
SizesOf(c) ==
    LET size[i \in 0..Len(c)] == IF i = 0 THEN 0 ELSE size[i - 1] + Len(c[i].units)
    IN  size

Sizing(s, c) ==
    /\ s \in [0..Len(c) -> Nat] /\ s[0] = 0
    /\ \A i \in 1..Len(c) : s[i] = s[i - 1] + Len(c[i].units) /\ s[i - 1] < s[i]

LEMMA ChunkUnits ==
  ASSUME NEW x \in Chunk
  PROVE  x.units \in Seq(Nat) /\ x.units # <<>> /\ Len(x.units) \in Nat /\ Len(x.units) > 0 /\ x.stream \in Streams
<1>1. x.units \in Seq(Nat) /\ x.units # <<>> /\ x.stream \in Streams
  BY DEF Chunk
<1>2. Len(x.units) \in Nat /\ Len(x.units) # 0
  BY <1>1, EmptySeq
<1> QED  BY <1>1, <1>2

LEMMA SizesRight ==
  ASSUME NEW c \in Seq(Chunk)
  PROVE  Sizing(SizesOf(c), c)
<1> DEFINE n == Len(c)
           len == [i \in 1..n |-> Len(c[i].units)]
           Is(s, k) == \A i \in 0..k : s[i] = IF i = 0 THEN 0 ELSE s[i - 1] + len[i]
           T == {k \in 0..n : \E s \in [0..k -> Nat] : Is(s, k)}
<1>1. n \in Nat /\ \A i \in 1..n : c[i] \in Chunk
  OBVIOUS
<1>2. \A i \in 1..n : len[i] \in Nat /\ len[i] > 0 /\ len[i] = Len(c[i].units)
  BY <1>1, ChunkUnits
<1> HIDE DEF len
<1>3. 0 \in T
  <2> DEFINE s == [i \in 0..0 |-> 0]
  <2>1. s \in [0..0 -> Nat] /\ Is(s, 0) /\ 0 \in 0..n
    BY <1>1
  <2> QED  BY <2>1
<1>4. ASSUME NEW k \in 0..n, k < n, k \in T PROVE k + 1 \in T
  <2>1. PICK s \in [0..k -> Nat] : Is(s, k)
    BY <1>4
  <2> DEFINE r == [i \in 0..(k + 1) |-> IF i = k + 1 THEN s[k] + len[k + 1] ELSE s[i]]
  <2>2. k \in Nat /\ k + 1 \in 0..n /\ k + 1 \in 1..n
    BY <1>1, <1>4
  <2>3. s[k] \in Nat /\ len[k + 1] \in Nat
    BY <1>2, <2>2
  <2>4. r \in [0..(k + 1) -> Nat]
    BY <2>2, <2>3
  <2>5. r[k + 1] = s[k] + len[k + 1] /\ \A i \in 0..k : r[i] = s[i]
    BY <2>2
  <2> HIDE DEF r
  <2>6. Is(r, k + 1)
    <3> SUFFICES ASSUME NEW i \in 0..(k + 1) PROVE r[i] = IF i = 0 THEN 0 ELSE r[i - 1] + len[i]
      OBVIOUS
    <3>1. CASE i = k + 1
      <4>1. i - 1 = k /\ k \in 0..k /\ i # 0
        BY <2>2, <3>1
      <4> QED  BY <2>5, <3>1, <4>1
    <3>2. CASE i # k + 1
      <4>1. i \in 0..k /\ (i # 0 => i - 1 \in 0..k)
        BY <2>2, <3>2
      <4> QED  BY <2>1, <2>5, <4>1
    <3> QED  BY <3>1, <3>2
  <2> HIDE DEF Is, n
  <2> QED  BY <2>2, <2>4, <2>6
<1>5. n \in T
  <2> HIDE DEF T, n
  <2>1. \A k \in 0..n : k \in T
    BY <1>1, <1>3, <1>4, Counting
  <2> QED  BY <1>1, <2>1
<1>6. PICK s \in [0..n -> Nat] : Is(s, n)
  BY <1>5
<1> DEFINE Step(f, i) == IF i = 0 THEN 0 ELSE f[i - 1] + Len(c[i].units)
           Same(f) == f = [i \in 0..n |-> Step(f, i)]
           size == CHOOSE f : Same(f)
<1>7. Same(s)
  <2>1. \A i \in 0..n : s[i] = Step(s, i)
    BY <1>1, <1>2, <1>6
  <2> HIDE DEF Step, n
  <2> QED  BY <1>6, <2>1
<1>8. Same(size)
  <2> HIDE DEF Same
  <2> QED  BY <1>7
<1>9. SizesOf(c) = size
  BY DEF SizesOf
<1> HIDE DEF size
<1>10. \A i \in 0..n : size[i] = IF i = 0 THEN 0 ELSE size[i - 1] + len[i]
  <2> SUFFICES ASSUME NEW i \in 0..n PROVE size[i] = IF i = 0 THEN 0 ELSE size[i - 1] + len[i]
    OBVIOUS
  <2>1. size[i] = Step(size, i)
    BY <1>8
  <2>2. i # 0 => len[i] = Len(c[i].units)
    BY <1>1, <1>2
  <2> QED  BY <2>1, <2>2
<1> HIDE DEF Same, Step
<1> DEFINE U == {k \in 0..n : size[k] \in Nat}
<1>11. n \in U /\ \A k \in 0..n : k \in U
  <2>1. 0 \in U
    BY <1>1, <1>10
  <2>2. \A k \in 0..n : k < n /\ k \in U => k + 1 \in U
    <3> SUFFICES ASSUME NEW k \in 0..n, k < n, size[k] \in Nat PROVE k + 1 \in U
      OBVIOUS
    <3>1. k + 1 \in 0..n /\ k + 1 # 0 /\ (k + 1) - 1 = k /\ k + 1 \in 1..n
      BY <1>1
    <3>2. size[k + 1] = size[k] + len[k + 1] /\ len[k + 1] \in Nat
      BY <1>2, <1>10, <3>1
    <3> QED  BY <3>1, <3>2
  <2>3. \A k \in 0..n : k \in U
    <3> HIDE DEF U, n
    <3> QED  BY <1>1, <2>1, <2>2, Counting
  <2> QED  BY <1>1, <2>3
<1>12. size \in [0..n -> Nat]
  <2>1. DOMAIN size = 0..n /\ size = [i \in 0..n |-> size[i]]
    BY <1>8 DEF Same
  <2> QED  BY <1>11, <2>1
<1>13. ASSUME NEW i \in 1..n PROVE size[i] = size[i - 1] + Len(c[i].units) /\ size[i - 1] < size[i]
  <2>1. i \in 0..n /\ i # 0 /\ i - 1 \in 0..n
    BY <1>1
  <2>2. size[i] = size[i - 1] + len[i] /\ size[i - 1] \in Nat /\ len[i] \in Nat /\ len[i] > 0 /\ len[i] = Len(c[i].units)
    BY <1>2, <1>10, <1>11, <2>1
  <2> QED  BY <2>2
<1>14. size[0] = 0
  BY <1>1, <1>10
<1> QED  BY <1>9, <1>12, <1>13, <1>14 DEF Sizing

\* The sizes grow.
LEMMA SizesRise ==
  ASSUME NEW c \in Seq(Chunk), NEW i \in 0..Len(c), NEW j \in 0..Len(c), i < j
  PROVE  SizesOf(c)[i] < SizesOf(c)[j]
<1> DEFINE n == Len(c)
           s == SizesOf(c)
           T == {k \in 0..n : i < k => s[i] < s[k]}
<1>1. n \in Nat /\ Sizing(s, c)
  BY SizesRight
<1> HIDE DEF s
<1>2. 0 \in T
  BY <1>1
<1>3. ASSUME NEW k \in 0..n, k < n, k \in T PROVE k + 1 \in T
  <2>1. k + 1 \in 1..n /\ (k + 1) - 1 = k
    BY <1>1, <1>3
  <2>2. s[k] < s[k + 1] /\ s[k] \in Nat /\ s[k + 1] \in Nat /\ s[i] \in Nat
    BY SMTT(30), <1>1, <2>1 DEF Sizing
  <2>3. i < k + 1 => s[i] < s[k + 1]
    <3>1. CASE i < k
      BY <1>3, <2>2, <3>1
    <3>2. CASE i = k
      BY <2>2, <3>2
    <3> QED  BY <1>1, <3>1, <3>2
  <2> QED  BY <2>1, <2>3
<1>4. \A k \in 0..n : k \in T
  <2> HIDE DEF T, n
  <2> QED  BY <1>1, <1>2, <1>3, Counting
<1> QED  BY <1>4 DEF s

\* Chunks of the same lengths begin at the same places.
LEMMA SizesShift ==
  ASSUME NEW c \in Seq(Chunk), NEW d \in Seq(Chunk), NEW e \in Nat, NEW k \in Nat,
         e + k <= Len(c), k <= Len(d),
         \A i \in 1..k : Len(d[i].units) = Len(c[e + i].units)
  PROVE  \A i \in 0..k : SizesOf(d)[i] = SizesOf(c)[e + i] - SizesOf(c)[e]
<1> DEFINE r == SizesOf(d)
           s == SizesOf(c)
           T == {i \in 0..k : r[i] = s[e + i] - s[e]}
<1>1. Sizing(r, d) /\ Sizing(s, c) /\ Len(c) \in Nat /\ Len(d) \in Nat
  BY SizesRight
<1> HIDE DEF r, s
<1>2. e \in 0..Len(c) /\ s[e] \in Nat
  <2>1. e \in 0..Len(c)
    BY <1>1
  <2>2. s \in [0..Len(c) -> Nat]
    BY <1>1 DEF Sizing
  <2> QED  BY <2>1, <2>2
<1>3. 0 \in T
  <2>1. r[0] = 0 /\ e + 0 = e
    BY <1>1 DEF Sizing
  <2> QED  BY <1>2, <2>1
<1>4. ASSUME NEW i \in 0..k, i < k, i \in T PROVE i + 1 \in T
  <2>1. i + 1 \in 1..k /\ i + 1 \in 1..Len(d) /\ e + (i + 1) \in 1..Len(c) /\ (i + 1) - 1 = i
        /\ (e + (i + 1)) - 1 = e + i /\ i \in 0..Len(d) /\ e + i \in 0..Len(c)
    BY <1>1, <1>4
  <2>2. r[i + 1] = r[i] + Len(d[i + 1].units) /\ s[e + (i + 1)] = s[e + i] + Len(c[e + (i + 1)].units)
    BY <1>1, <2>1 DEF Sizing
  <2>3. Len(d[i + 1].units) = Len(c[e + (i + 1)].units)
    BY <2>1
  <2>4. r[i] \in Nat /\ s[e + i] \in Nat /\ r[i] = s[e + i] - s[e]
    BY <1>1, <1>4, <2>1 DEF Sizing
  <2>5. Len(d[i + 1].units) \in Nat
    <3>1. d[i + 1] \in Chunk
      BY <2>1
    <3> QED  BY <3>1, ChunkUnits
  <2>6. r[i + 1] = s[e + (i + 1)] - s[e]
    <3> DEFINE x == Len(d[i + 1].units)
               r1 == r[i + 1]
               s1 == s[e + (i + 1)]
               s0 == s[e + i]
    <3>1. r1 = r[i] + x /\ s1 = s0 + x /\ x \in Nat /\ s0 \in Nat /\ r[i] = s0 - s[e]
      BY <2>2, <2>3, <2>4, <2>5
    <3> HIDE DEF x, r1, s1, s0
    <3>2. r1 = s1 - s[e]
      BY <1>2, <3>1
    <3> QED  BY <3>2 DEF r1, s1
  <2> QED  BY <2>1, <2>6
<1>5. \A i \in 0..k : i \in T
  <2> HIDE DEF T
  <2> QED  BY <1>3, <1>4, Counting
<1> QED  BY <1>5 DEF r, s

\* How many chunks a read up to m leaves empty: those that end there or before.
CutAt(c, m) == Cardinality({i \in 1..Len(c) : SizesOf(c)[i] <= m})

CutSplits(c, m, e) ==
    /\ e \in 0..Len(c) /\ SizesOf(c)[e] <= m
    /\ \A i \in 1..Len(c) : SizesOf(c)[i] <= m <=> i <= e

LEMMA CutRight ==
  ASSUME NEW c \in Seq(Chunk), NEW m \in Nat
  PROVE  CutSplits(c, m, CutAt(c, m))
<1> DEFINE n == Len(c)
           s == SizesOf(c)
           T == {k \in 0..n : \A i \in 1..n : k < i => m < s[i]}
<1>1. n \in Nat /\ Sizing(s, c)
  BY SizesRight
<1>2. \A i, j \in 0..n : i < j => s[i] < s[j]
  BY SizesRise
<1> HIDE DEF s
<1>3. T \in SUBSET Nat /\ n \in T
  BY <1>1
<1>4. PICK e \in T : \A k \in T : e <= k
  <2> HIDE DEF T
  <2> QED  BY <1>3, LeastNumber
<1>5. e \in 0..n /\ e \in Nat /\ \A i \in 1..n : e < i => m < s[i]
  BY <1>1, <1>4
<1>6. s[e] <= m
  <2>1. CASE e = 0
    BY <1>1, <2>1 DEF Sizing
  <2>2. CASE e # 0
    <3>1. e - 1 \in 0..n /\ e - 1 \notin T /\ e \in 1..n
      <4>1. e - 1 \in 0..n /\ e \in 1..n /\ ~(e <= e - 1)
        BY <1>1, <1>5, <2>2
      <4> HIDE DEF T
      <4> QED  BY <1>4, <4>1
    <3>2. PICK i \in 1..n : e - 1 < i /\ ~(m < s[i])
      BY <3>1
    <3>3. i = e
      BY <1>1, <1>5, <3>1, <3>2
    <3>4. s[e] \in Nat
      BY <1>1, <1>5 DEF Sizing
    <3> QED  BY <3>2, <3>3, <3>4
  <2> QED  BY <2>1, <2>2
<1>7. ASSUME NEW i \in 1..n PROVE s[i] <= m <=> i <= e
  <2>1. s[i] \in Nat /\ s[e] \in Nat /\ i \in 0..n
    BY <1>1, <1>5 DEF Sizing
  <2>2. CASE i <= e
    <3>1. s[i] <= s[e]
      BY <1>1, <1>2, <1>5, <2>1, <2>2
    <3> QED  BY <1>6, <2>1, <2>2, <3>1
  <2>3. CASE ~(i <= e)
    <3>1. m < s[i]
      BY <1>1, <1>5, <2>3
    <3> QED  BY <2>1, <2>3, <3>1
  <2> QED  BY <2>2, <2>3
<1>8. {i \in 1..n : s[i] <= m} = 1..e
  BY <1>1, <1>5, <1>7
<1>9. Cardinality(1..e) = e
  <2>1. 1 \in Int /\ e \in Int
    BY <1>5
  <2>2. Cardinality(1..e) = IF 1 > e THEN 0 ELSE e - 1 + 1
    BY <2>1, FS_Interval
  <2> QED  BY <1>5, <2>2
<1>10. CutAt(c, m) = e
  BY <1>8, <1>9 DEF CutAt, s
<1> QED  BY <1>5, <1>6, <1>7, <1>10 DEF CutSplits, s

\* A place among the units lies in one chunk.
LEMMA PlaceIn ==
  ASSUME NEW c \in Seq(Chunk), NEW k \in 1..SizesOf(c)[Len(c)]
  PROVE  \E i \in 1..Len(c) : \E j \in 1..Len(c[i].units) : k = SizesOf(c)[i - 1] + j
<1> DEFINE n == Len(c)
           s == SizesOf(c)
           T == {i \in 0..n : k <= s[i]}
<1>1. n \in Nat /\ Sizing(s, c) /\ k \in 1..s[n]
  BY SizesRight
<1> HIDE DEF s
<1>2. n \in T /\ T \in SUBSET Nat /\ s[n] \in Nat
  BY <1>1 DEF Sizing
<1>3. PICK i \in T : \A l \in T : i <= l
  <2> HIDE DEF T
  <2> QED  BY <1>2, LeastNumber
<1>4. i \in 0..n /\ k <= s[i] /\ k \in Nat /\ k > 0
  BY <1>1, <1>2, <1>3
<1>5. i # 0
  BY <1>1, <1>4 DEF Sizing
<1>6. i \in 1..n /\ i - 1 \in 0..n /\ i - 1 \notin T
  BY <1>1, <1>3, <1>4, <1>5
<1>7. s[i - 1] \in Nat /\ s[i] = s[i - 1] + Len(c[i].units) /\ s[i - 1] < k
  BY <1>1, <1>4, <1>6 DEF Sizing
<1>8. Len(c[i].units) \in Nat
  <2>1. c[i] \in Chunk
    BY <1>6
  <2> QED  BY <2>1, ChunkUnits
<1> DEFINE j == k - s[i - 1]
<1>9. j \in 1..Len(c[i].units) /\ k = s[i - 1] + j
  BY <1>4, <1>7, <1>8
<1> QED  BY <1>6, <1>9 DEF s

\* The i-th sequence holds len[i] members of w, from the one after the s[i - 1]-th on.
InRuns(seqs, n, w, s, len) == seqs = [i \in 1..n |-> [j \in 1..len[i] |-> w[s[i - 1] + j]]]

RunsUp(r, n, w, s) == r = [k \in 1..s[n] |-> w[k]]

\* A sequence of runs is one run: the units of all of them, one after the other.
LEMMA FlattenRuns ==
  ASSUME NEW n \in Nat, NEW X, NEW w \in [Nat -> X], NEW s \in [0..n -> Nat], s[0] = 0,
         NEW len \in [1..n -> Nat], \A i \in 1..n : s[i] = s[i - 1] + len[i],
         NEW seqs, InRuns(seqs, n, w, s, len)
  PROVE  RunsUp(FlattenSeq(seqs), n, w, s)
<1> DEFINE Run(m) == [k \in 1..m |-> w[k]]
           Step(f, i) == IF i = 1 THEN seqs[i] ELSE f[i - 1] \o seqs[i]
           Is(f) == f = [i \in 1..n |-> Step(f, i)]
           runs == [i \in 1..n |-> Run(s[i])]
           flat == CHOOSE f : Is(f)
<1>0. seqs = [i \in 1..n |-> [j \in 1..len[i] |-> w[s[i - 1] + j]]]
  BY DEF InRuns
<1>1. Len(seqs) = n /\ DOMAIN seqs = 1..n
  <2> DEFINE R == {seqs[i] : i \in 1..n}
  <2>1. DOMAIN seqs = 1..n /\ seqs = [i \in 1..n |-> seqs[i]]
    BY <1>0
  <2>2. seqs \in [1..n -> R]
    BY <2>1
  <2> HIDE DEF R
  <2>3. seqs \in Seq(R)
    BY <2>2
  <2> QED  BY <2>1, <2>3, LenProperties
<1>2. CASE n = 0
  <2>1. FlattenSeq(seqs) = seqs
    BY <1>1, <1>2 DEF FlattenSeq
  <2>2. seqs = [k \in 1..s[n] |-> w[k]]
    <3>1. 1..n = {} /\ 1..s[n] = {}
      BY <1>2
    <3> QED  BY <1>0, <3>1
  <2> QED  BY <2>1, <2>2 DEF RunsUp
<1>3. CASE n # 0
  <2>1. \A m \in Nat : Run(m) \in Seq(X) /\ Len(Run(m)) = m
    <3> SUFFICES ASSUME NEW m \in Nat PROVE Run(m) \in Seq(X) /\ Len(Run(m)) = m
      OBVIOUS
    <3>1. Run(m) \in [1..m -> X]
      OBVIOUS
    <3> QED  BY <3>1
  <2>2. ASSUME NEW i \in 1..n, i # 1 PROVE Run(s[i - 1]) \o seqs[i] = Run(s[i])
    <3> DEFINE a == s[i - 1]
               l == len[i]
               b == [j \in 1..l |-> w[a + j]]
    <3>1. i - 1 \in 0..n /\ i \in 0..n
      BY <2>2
    <3>2. a \in Nat /\ l \in Nat /\ s[i] = a + l /\ seqs[i] = b
      BY <1>0, <3>1
    <3> HIDE DEF a, l
    <3>3. b \in Seq(X) /\ Len(b) = l
      <4>1. b \in [1..l -> X]
        <5>1. ASSUME NEW j \in 1..l PROVE w[a + j] \in X
          <6>1. a + j \in Nat
            BY <3>2
          <6> QED  BY <6>1
        <5> QED  BY <5>1
      <4> HIDE DEF b
      <4> QED  BY <3>2, <4>1
    <3>4. \A k \in 1..(a + l) : (Run(a) \o b)[k] = w[k]
      <4> SUFFICES ASSUME NEW k \in 1..(a + l) PROVE (Run(a) \o b)[k] = w[k]
        OBVIOUS
      <4>1. CASE k <= a
        <5>1. (Run(a) \o b)[k] = Run(a)[k] /\ k \in 1..a
          <6> HIDE DEF Run, b
          <6>1. Run(a) \in Seq(X) /\ Len(Run(a)) = a
            BY <2>1, <3>2
          <6> QED  BY <3>2, <3>3, <4>1, <6>1
        <5> QED  BY <5>1
      <4>2. CASE ~(k <= a)
        <5>1. (Run(a) \o b)[k] = b[k - a] /\ k - a \in 1..l /\ a + (k - a) = k
          <6> DEFINE r == Run(a)
          <6>1. r \in Seq(X) /\ Len(r) = a
            BY <2>1, <3>2
          <6> HIDE DEF r, b
          <6>2. k \in 1..(Len(r) + Len(b)) /\ ~(k <= Len(r))
            BY <3>2, <3>3, <4>2, <6>1
          <6>3. (r \o b)[k] = b[k - Len(r)]
            BY <3>3, <6>1, <6>2, ConcatProperties
          <6>4. k - a \in 1..l /\ a + (k - a) = k
            BY <3>2, <4>2
          <6> QED  BY <6>1, <6>3, <6>4 DEF r
        <5> QED  BY <5>1
      <4> QED  BY <4>1, <4>2
    <3>5. Run(a) \o b \in Seq(X) /\ Len(Run(a) \o b) = a + l
      <4> DEFINE r == Run(a)
      <4>1. r \in Seq(X) /\ Len(r) = a
        BY <2>1, <3>2
      <4> HIDE DEF r, b
      <4>2. r \o b \in Seq(X) /\ Len(r \o b) = Len(r) + Len(b)
        BY <3>3, <4>1, ConcatProperties
      <4> QED  BY <3>3, <4>1, <4>2 DEF r
    <3>6. Run(a) \o b = Run(a + l)
      <4> DEFINE u == Run(a) \o b
      <4>1. u = [k \in 1..(a + l) |-> u[k]]
        <5> HIDE DEF u
        <5>1. u \in Seq(X) /\ Len(u) = a + l
          BY <3>5 DEF u
        <5> QED  BY <5>1
      <4>2. \A k \in 1..(a + l) : u[k] = w[k]
        BY <3>4
      <4> HIDE DEF u
      <4>3. u = [k \in 1..(a + l) |-> w[k]]
        BY <4>1, <4>2
      <4> QED  BY <4>3 DEF u
    <3> QED  BY <3>2, <3>6 DEF a
  <2>3. seqs[1] = Run(s[1])
    <3>1. 1 \in 1..n /\ 1 - 1 = 0 /\ s[1] = s[0] + len[1] /\ len[1] \in Nat
      BY <1>3
    <3>2. s[1] = len[1]
      BY <3>1
    <3>3. seqs[1] = [j \in 1..len[1] |-> w[s[0] + j]]
      BY <1>0, <3>1
    <3>4. \A j \in 1..len[1] : s[0] + j = j
      BY <3>1
    <3> QED  BY <3>2, <3>3, <3>4
  <2>4. Is(runs)
    <3>1. \A i \in 1..n : runs[i] = Step(runs, i)
      <4> SUFFICES ASSUME NEW i \in 1..n PROVE runs[i] = Step(runs, i)
        OBVIOUS
      <4>1. CASE i = 1
        BY <2>3, <4>1
      <4>2. CASE i # 1
        <5>1. i - 1 \in 1..n
          BY <4>2
        <5>2. runs[i - 1] = Run(s[i - 1]) /\ runs[i] = Run(s[i])
          BY <5>1
        <5> HIDE DEF runs, Run
        <5> QED  BY <2>2, <4>2, <5>2
      <4> QED  BY <4>1, <4>2
    <3>2. runs = [i \in 1..n |-> runs[i]]
      OBVIOUS
    <3> HIDE DEF runs, Step
    <3> QED  BY <3>1, <3>2
  <2>5. Is(flat)
    <3> HIDE DEF Is, runs
    <3> QED  BY <2>4
  <2>6. FlattenSeq(seqs) = flat[n]
    BY <1>1, <1>3 DEF FlattenSeq
  <2> HIDE DEF flat
  <2>7. \A i \in 1..n : flat[i] = Step(flat, i)
    BY <2>5
  <2> DEFINE T == {k \in 0..n : k # 0 => flat[k] = Run(s[k])}
  <2> HIDE DEF Is, Run
  <2>8. 0 \in T
    OBVIOUS
  <2>9. ASSUME NEW k \in 0..n, k < n, k \in T PROVE k + 1 \in T
    <3>1. k + 1 \in 1..n /\ k + 1 \in 0..n /\ (k + 1) - 1 = k
      BY <2>9
    <3>2. CASE k = 0
      <4>1. flat[1] = seqs[1] /\ k + 1 = 1
        <5>1. k + 1 = 1 /\ 1 \in 1..n
          BY <3>1, <3>2
        <5>2. flat[1] = Step(flat, 1)
          <6> HIDE DEF Step
          <6> QED  BY <2>7, <5>1
        <5> QED  BY <5>1, <5>2
      <4> QED  BY <2>3, <3>1, <4>1
    <3>3. CASE k # 0
      <4>1. flat[k + 1] = flat[k] \o seqs[k + 1] /\ k + 1 # 1
        <5>1. flat[k + 1] = Step(flat, k + 1)
          <6> HIDE DEF Step
          <6> QED  BY <2>7, <3>1
        <5>2. k + 1 # 1
          BY <3>3
        <5> QED  BY <3>1, <5>1, <5>2
      <4>2. flat[k] = Run(s[k])
        BY <2>9, <3>3
      <4>3. Run(s[k]) \o seqs[k + 1] = Run(s[k + 1])
        BY <2>2, <3>1, <4>1
      <4> QED  BY <3>1, <4>1, <4>2, <4>3
    <3> QED  BY <3>2, <3>3
  <2>10. \A k \in 0..n : k \in T
    <3> HIDE DEF T
    <3> QED  BY <2>8, <2>9, Counting
  <2>11. flat[n] = Run(s[n])
    BY <1>3, <2>10
  <2> QED  BY <2>6, <2>11 DEF Run, RunsUp
<1> QED  BY <1>2, <1>3

-----------------------------------------------------------------------------
(***************************************************************************)
(* Units are numbered as their program writes them, and written to the     *)
(* stream the program chose for each.                                      *)
(***************************************************************************)

Total(c) == SizesOf(c)[Len(c)]

\* The units of a piece are those after the first b of the program.
PieceAt(x, b, w) == \A j \in 1..Len(x.units) : x.units[j] = b + j /\ x.stream = w[b + j]

\* So are those of a sequence of chunks.
Numbered(c, b, w) == \A i \in 1..Len(c) : PieceAt(c[i], b + SizesOf(c)[i - 1], w)

LEMMA TotalNat ==
  ASSUME NEW c \in Seq(Chunk)
  PROVE  Total(c) \in Nat /\ \A i \in 0..Len(c) : SizesOf(c)[i] \in Nat /\ SizesOf(c)[i] <= Total(c)
<1>1. Len(c) \in Nat /\ SizesOf(c) \in [0..Len(c) -> Nat]
  BY SizesRight DEF Sizing
<1>2. Len(c) \in 0..Len(c)
  BY <1>1
<1>3. ASSUME NEW i \in 0..Len(c) PROVE SizesOf(c)[i] \in Nat /\ SizesOf(c)[i] <= Total(c)
  <2>1. CASE i = Len(c)
    BY <1>1, <2>1 DEF Total
  <2>2. CASE i # Len(c)
    <3>1. i < Len(c)
      BY <1>1, <2>2
    <3>2. SizesOf(c)[i] < SizesOf(c)[Len(c)]
      BY <1>2, <3>1, SizesRise
    <3>3. SizesOf(c)[i] \in Nat /\ SizesOf(c)[Len(c)] \in Nat
      BY <1>1, <1>2
    <3> HIDE DEF Total
    <3> QED  BY <3>2, <3>3 DEF Total
  <2> QED  BY <2>1, <2>2
<1> QED  BY <1>1, <1>2, <1>3 DEF Total

LEMMA NoChunks ==
  <<>> \in Seq(Chunk) /\ Total(<<>>) = 0 /\ \A b, w : Numbered(<<>>, b, w)
<1>1. <<>> \in Seq(Chunk) /\ Len(<<>>) = 0
  OBVIOUS
<1>2. SizesOf(<<>>)[0] = 0
  BY <1>1, SizesRight DEF Sizing
<1> QED  BY <1>1, <1>2 DEF Total, Numbered

Grown(d, c, k, m, b, w) ==
    /\ d \in Seq(Chunk) /\ Len(d) = k
    /\ Total(d) = Total(c) + m
    /\ Numbered(d, b, w)

\* A chunk more.
LEMMA AppendChunk ==
  ASSUME NEW c \in Seq(Chunk), NEW x \in Chunk, NEW b \in Nat, NEW w,
         Numbered(c, b, w), PieceAt(x, b + Total(c), w)
  PROVE  Grown(Append(c, x), c, Len(c) + 1, Len(x.units), b, w)
<1> DEFINE d == Append(c, x)
           n == Len(c)
<1>1. d \in Seq(Chunk) /\ Len(d) = n + 1 /\ n \in Nat /\ d[n + 1] = x /\ \A i \in 1..n : d[i] = c[i]
  OBVIOUS
<1> HIDE DEF d
<1>2. \A i \in 0..n : SizesOf(d)[i] = SizesOf(c)[i]
  <2>1. \A i \in 1..n : Len(d[i].units) = Len(c[0 + i].units)
    BY <1>1
  <2>2. 0 \in Nat /\ n \in Nat /\ 0 + n <= Len(c) /\ n <= Len(d)
    BY <1>1
  <2>3. \A i \in 0..n : SizesOf(d)[i] = SizesOf(c)[0 + i] - SizesOf(c)[0]
    BY <1>1, <2>1, <2>2, SizesShift
  <2>4. SizesOf(c)[0] = 0 /\ \A i \in 0..n : SizesOf(c)[i] \in Nat
    BY SizesRight, TotalNat DEF Sizing
  <2> QED  BY <2>3, <2>4
<1>3. Total(d) = Total(c) + Len(x.units)
  <2>1. n + 1 \in 1..Len(d) /\ (n + 1) - 1 = n /\ n \in 0..n
    BY <1>1
  <2>2. SizesOf(d)[n + 1] = SizesOf(d)[n] + Len(d[n + 1].units)
    BY <1>1, <2>1, SizesRight DEF Sizing
  <2> QED  BY <1>1, <1>2, <2>1, <2>2 DEF Total
<1>4. Numbered(d, b, w)
  <2> SUFFICES ASSUME NEW i \in 1..Len(d) PROVE PieceAt(d[i], b + SizesOf(d)[i - 1], w)
    BY DEF Numbered
  <2>1. i - 1 \in 0..n /\ SizesOf(d)[i - 1] = SizesOf(c)[i - 1]
    BY <1>1, <1>2
  <2>2. CASE i \in 1..n
    BY <1>1, <2>1, <2>2 DEF Numbered
  <2>3. CASE i \notin 1..n
    <3>1. i = n + 1 /\ i - 1 = n
      BY <1>1, <2>3
    <3> QED  BY <1>1, <2>1, <3>1 DEF Total
  <2> QED  BY <2>2, <2>3
<1> QED  BY <1>1, <1>3, <1>4 DEF d, Grown

\* A piece joins the last chunk.
LEMMA JoinChunk ==
  ASSUME NEW c \in Seq(Chunk), c # <<>>, NEW x \in Chunk, NEW b \in Nat, NEW w,
         Last(c).stream = x.stream,
         Numbered(c, b, w), PieceAt(x, b + Total(c), w),
         NEW d, d = Joined(c, x)
  PROVE  Grown(d, c, Len(c), Len(x.units), b, w)
<1> DEFINE n == Len(c)
           z == c[n]
           y == [z EXCEPT !.units = @ \o x.units]
<1>1. n \in Nat /\ n > 0 /\ n \in 1..n /\ z \in Chunk /\ Last(c) = z
  <2>1. n \in Nat /\ n # 0
    BY EmptySeq
  <2> QED  BY <2>1 DEF Last
<1>2. /\ z.units \in Seq(Nat) /\ x.units \in Seq(Nat) /\ z.units # <<>>
      /\ Len(z.units) \in Nat /\ Len(x.units) \in Nat /\ Len(z.units) > 0
  BY <1>1, ChunkUnits
<1>3. /\ z.units \o x.units \in Seq(Nat) /\ Len(z.units \o x.units) = Len(z.units) + Len(x.units)
      /\ \A j \in 1..Len(z.units) : (z.units \o x.units)[j] = z.units[j]
      /\ \A j \in 1..Len(x.units) : (z.units \o x.units)[Len(z.units) + j] = x.units[j]
  <2> DEFINE u == z.units
             v == x.units
  <2> HIDE DEF u, v
  <2>1. u \in Seq(Nat) /\ v \in Seq(Nat) /\ Len(u) \in Nat /\ Len(v) \in Nat
    BY <1>2 DEF u, v
  <2>2. u \o v \in Seq(Nat) /\ Len(u \o v) = Len(u) + Len(v)
    BY <2>1, ConcatProperties
  <2>3. \A j \in 1..Len(u) : (u \o v)[j] = u[j]
    BY <2>1
  <2>4. ASSUME NEW j \in 1..Len(v) PROVE (u \o v)[Len(u) + j] = v[j]
    <3>1. Len(u) + j \in 1..Len(u) + Len(v) /\ ~(Len(u) + j <= Len(u)) /\ (Len(u) + j) - Len(u) = j
      BY <2>1
    <3>2. (u \o v)[Len(u) + j] = v[(Len(u) + j) - Len(u)]
      BY <2>1, <3>1, ConcatProperties
    <3> QED  BY <3>1, <3>2
  <2> QED  BY <2>2, <2>3, <2>4 DEF u, v
<1> DEFINE l == Len(z.units)
           m == Len(x.units)
<1>4. y \in Chunk /\ y.units = z.units \o x.units /\ y.stream = z.stream /\ Len(y.units) = l + m
  <2> DEFINE u == z.units \o x.units
  <2>1. z = [stream |-> z.stream, units |-> z.units] /\ z.stream \in Streams
    BY <1>1 DEF Chunk
  <2>2. y = [stream |-> z.stream, units |-> u]
    <3>1. y = [z EXCEPT !.units = u]
      OBVIOUS
    <3> HIDE DEF u, y
    <3> QED  BY <2>1, <3>1
  <2>3. u \in Seq(Nat) /\ Len(u) = l + m
    BY <1>3
  <2>4. l \in Nat /\ m \in Nat /\ l > 0
    BY <1>2
  <2> HIDE DEF u, y, l, m
  <2>5. u # <<>>
    <3>1. Len(u) # 0
      BY <2>3, <2>4
    <3> QED  BY <3>1
  <2>6. y \in Chunk
    BY <2>1, <2>2, <2>3, <2>5 DEF Chunk
  <2>7. y.units = u /\ y.stream = z.stream
    BY <2>2
  <2> QED  BY <2>3, <2>6, <2>7 DEF u
<1>5. l \in Nat /\ m \in Nat /\ m > 0 /\ l > 0
  BY <1>2, ChunkUnits
<1> HIDE DEF y
<1>6. /\ d \in Seq(Chunk) /\ Len(d) = n /\ d[n] = y /\ \A i \in 1..(n - 1) : d[i] = c[i]
  <2> DEFINE f == Front(c)
  <2>1. d = Append(f, y)
    BY <1>1 DEF y, Joined
  <2>2. f \in Seq(Chunk) /\ Len(f) = n - 1 /\ \A i \in 1..(n - 1) : f[i] = c[i]
    <3>1. f = SubSeq(c, 1, n - 1)
      BY DEF Front
    <3> HIDE DEF f
    <3>2. \A i \in 1..(n - 1) : c[i] \in Chunk
      BY <1>1
    <3>3. f \in Seq(Chunk)
      BY <1>1, <3>1, <3>2, SubSeqProperties
    <3>4. Len(f) = IF 1 <= n - 1 THEN (n - 1) - 1 + 1 ELSE 0
      BY <1>1, <3>1, SubSeqProperties
    <3>5. ASSUME NEW i \in 1..(n - 1) PROVE f[i] = c[i]
      <4> HIDE DEF n
      <4>1. i \in 1..((n - 1) - 1 + 1) /\ 1 + i - 1 = i
        BY <1>1
      <4>2. f[i] = c[1 + i - 1]
        BY <1>1, <3>1, <4>1, SubSeqProperties
      <4> QED  BY <4>1, <4>2
    <3> HIDE DEF n
    <3>6. Len(f) = n - 1
      BY <1>1, <3>4
    <3> QED  BY <3>3, <3>5, <3>6
  <2>3. y \in Chunk
    BY <1>4
  <2> HIDE DEF f, n, z, l, m
  <2>4. Append(f, y) \in Seq(Chunk) /\ Len(Append(f, y)) = Len(f) + 1
    BY <2>2, <2>3
  <2>5. Append(f, y)[Len(f) + 1] = y /\ \A i \in 1..Len(f) : Append(f, y)[i] = f[i]
    BY <2>2, <2>3
  <2>6. d \in Seq(Chunk) /\ Len(d) = Len(f) + 1
    BY <2>1, <2>4
  <2>7. d[Len(f) + 1] = y /\ \A i \in 1..Len(f) : d[i] = f[i]
    BY <2>1, <2>5
  <2>8. Len(f) + 1 = n
    BY <1>1, <2>2
  <2> QED  BY <2>2, <2>6, <2>7, <2>8
<1>7. \A i \in 0..(n - 1) : SizesOf(d)[i] = SizesOf(c)[i]
  <2>0. n <= Len(c) /\ n <= Len(d)
    BY <1>1, <1>6
  <2> HIDE DEF n
  <2>1. \A i \in 1..(n - 1) : Len(d[i].units) = Len(c[0 + i].units)
    <3> SUFFICES ASSUME NEW i \in 1..(n - 1) PROVE Len(d[i].units) = Len(c[0 + i].units)
      OBVIOUS
    <3>1. 0 + i = i /\ d[i] = c[i]
      BY <1>1, <1>6
    <3> QED  BY <3>1
  <2>2. 0 \in Nat /\ n - 1 \in Nat /\ 0 + (n - 1) <= Len(c) /\ n - 1 <= Len(d)
    BY <1>1, <2>0
  <2>3. \A i \in 0..(n - 1) : SizesOf(d)[i] = SizesOf(c)[0 + i] - SizesOf(c)[0]
    BY ZenonT(30), <1>6, <2>1, <2>2, SizesShift
  <2>4. SizesOf(c)[0] = 0 /\ \A i \in 0..Len(c) : SizesOf(c)[i] \in Nat
    BY SizesRight, TotalNat DEF Sizing
  <2> SUFFICES ASSUME NEW i \in 0..(n - 1) PROVE SizesOf(d)[i] = SizesOf(c)[i]
    OBVIOUS
  <2>5. i \in 0..Len(c) /\ 0 + i = i
    BY <1>1, <2>0
  <2>6. SizesOf(d)[i] = SizesOf(c)[0 + i] - SizesOf(c)[0]
    BY <2>3
  <2>7. SizesOf(c)[i] \in Nat
    BY <2>4, <2>5
  <2> QED  BY <2>4, <2>5, <2>6, <2>7
<1> DEFINE h == SizesOf(c)[n - 1]
<1>8. Total(c) = h + l /\ Total(d) = h + (l + m) /\ h \in Nat
  <2>1. SizesOf(c)[n] = SizesOf(c)[n - 1] + Len(c[n].units)
    BY <1>1, SizesRight DEF Sizing
  <2>2. n \in 1..Len(d) /\ SizesOf(d)[n] = SizesOf(d)[n - 1] + Len(d[n].units)
    BY <1>1, <1>6, SizesRight DEF Sizing
  <2>3. n - 1 \in 0..(n - 1) /\ n - 1 \in 0..Len(c)
    BY <1>1
  <2>4. SizesOf(d)[n - 1] = h /\ h \in Nat
    BY <1>7, <2>3, TotalNat
  <2> QED  BY <1>4, <1>6, <2>1, <2>2, <2>4 DEF Total
<1>9. Total(d) = Total(c) + m
  <2> HIDE DEF h, l, m
  <2> QED  BY <1>5, <1>8
<1>10. PieceAt(z, b + h, w)
  BY <1>1 DEF Numbered
<1>11. PieceAt(y, b + h, w)
  <2> DEFINE a == b + h
  <2>1. a \in Nat /\ b + Total(c) = a + l
    <3> HIDE DEF h, l
    <3> QED  BY <1>5, <1>8
  <2> HIDE DEF h
  <2> SUFFICES ASSUME NEW j \in 1..Len(y.units) PROVE y.units[j] = a + j /\ y.stream = w[a + j]
    BY DEF PieceAt
  <2> HIDE DEF a
  <2>2. CASE j <= l
    <3>1. j \in 1..l
      BY <1>4, <1>5, <2>2
    <3>2. y.units[j] = z.units[j]
      BY <1>3, <1>4, <3>1
    <3> QED  BY <1>4, <1>10, <3>1, <3>2 DEF PieceAt, a
  <2>3. CASE ~(j <= l)
    <3> DEFINE k == j - l
    <3>0. j \in 1..(l + m)
      BY <1>4
    <3>1. k \in 1..m /\ j = l + k /\ (a + l) + k = a + j
      <4> HIDE DEF l, m
      <4> QED  BY <1>5, <2>1, <2>3, <3>0
    <3> HIDE DEF k
    <3>2. y.units[j] = x.units[k]
      BY <1>3, <1>4, <3>1
    <3>3. x.units[k] = (a + l) + k /\ x.stream = w[(a + l) + k]
      BY <2>1, <3>1 DEF PieceAt
    <3> QED  BY <1>1, <1>4, <3>1, <3>2, <3>3
  <2> QED  BY <2>2, <2>3
<1>12. Numbered(d, b, w)
  <2> SUFFICES ASSUME NEW i \in 1..n PROVE PieceAt(d[i], b + SizesOf(d)[i - 1], w)
    BY <1>6 DEF Numbered
  <2>1. PieceAt(c[i], b + SizesOf(c)[i - 1], w)
    BY DEF Numbered
  <2> HIDE DEF n
  <2>2. i - 1 \in 0..(n - 1)
    BY <1>1
  <2>3. SizesOf(d)[i - 1] = SizesOf(c)[i - 1]
    BY <1>7, <2>2
  <2>4. CASE i = n
    BY <1>6, <1>11, <2>3, <2>4
  <2>5. CASE i # n
    <3>1. i \in 1..(n - 1)
      BY <1>1, <2>5
    <3>2. d[i] = c[i]
      BY <1>6, <3>1
    <3> QED  BY <2>1, <2>3, <3>2
  <2> QED  BY <2>4, <2>5
<1> QED  BY <1>6, <1>9, <1>12 DEF Grown

Dropped(c, e, b, w, d) ==
    /\ d \in Seq(Chunk) /\ Len(d) = Len(c) - e
    /\ Total(d) = Total(c) - SizesOf(c)[e]
    /\ Numbered(d, b + SizesOf(c)[e], w)

\* The chunks a delivery leaves.
LEMMA DropChunks ==
  ASSUME NEW c \in Seq(Chunk), NEW e \in 0..Len(c), NEW b \in Nat, NEW w, Numbered(c, b, w),
         NEW d, d = SubSeq(c, e + 1, Len(c))
  PROVE  Dropped(c, e, b, w, d)
<1> DEFINE n == Len(c)
           k == n - e
<1>1. n \in Nat /\ e \in Nat /\ k \in Nat /\ e + k = n
  OBVIOUS
<1>2. d \in Seq(Chunk) /\ Len(d) = k /\ \A i \in 1..k : d[i] = c[e + i] /\ e + i \in 1..n
  <2>1. \A i \in (e + 1)..n : c[i] \in Chunk
    BY <1>1
  <2>2. d \in Seq(Chunk)
    BY <1>1, <2>1, SubSeqProperties
  <2>3. Len(d) = k
    <3>1. Len(d) = IF e + 1 <= n THEN n - (e + 1) + 1 ELSE 0
      BY <1>1, SubSeqProperties
    <3> HIDE DEF n
    <3> QED  BY <1>1, <3>1
  <2>4. ASSUME NEW i \in 1..k PROVE d[i] = c[e + i] /\ e + i \in 1..n
    <3>1. i \in 1..(n - (e + 1) + 1) /\ (e + 1) + i - 1 = e + i
      BY <1>1
    <3>2. d[i] = c[(e + 1) + i - 1]
      BY <1>1, <3>1, SubSeqProperties
    <3> QED  BY <1>1, <3>1, <3>2
  <2> QED  BY <2>2, <2>3, <2>4
<1>3. \A i \in 0..k : SizesOf(d)[i] = SizesOf(c)[e + i] - SizesOf(c)[e]
  <2>1. \A i \in 1..k : Len(d[i].units) = Len(c[e + i].units)
    BY <1>2
  <2>2. e + k <= Len(c) /\ k <= Len(d)
    <3>1. n <= n /\ k <= k
      <4> HIDE DEF n
      <4> QED  BY <1>1
    <3>2. e + k = n
      BY <1>1
    <3> HIDE DEF k
    <3> QED  BY <1>2, <3>1, <3>2
  <2> QED  BY ZenonT(30), <1>1, <1>2, <2>1, <2>2, SizesShift
<1>4. Total(d) = Total(c) - SizesOf(c)[e]
  <2>1. k \in 0..k
    BY <1>1
  <2> QED  BY <1>1, <1>2, <1>3, <2>1 DEF Total
<1>5. Numbered(d, b + SizesOf(c)[e], w)
  <2> SUFFICES ASSUME NEW i \in 1..Len(d) PROVE PieceAt(d[i], (b + SizesOf(c)[e]) + SizesOf(d)[i - 1], w)
    BY DEF Numbered
  <2>1. i \in 1..k /\ i - 1 \in 0..k /\ e + i \in 1..n /\ d[i] = c[e + i] /\ e + (i - 1) = (e + i) - 1 /\ e + (i - 1) \in 0..n
    <3>1. i \in 1..k
      BY <1>2
    <3> HIDE DEF n
    <3> QED  BY <1>1, <1>2, <3>1
  <2>2. SizesOf(d)[i - 1] = SizesOf(c)[(e + i) - 1] - SizesOf(c)[e]
    BY <1>3, <2>1
  <2>3. SizesOf(c)[(e + i) - 1] \in Nat /\ SizesOf(c)[e] \in Nat
    BY <2>1, TotalNat
  <2>4. (b + SizesOf(c)[e]) + SizesOf(d)[i - 1] = b + SizesOf(c)[(e + i) - 1]
    BY <2>2, <2>3
  <2>5. PieceAt(c[e + i], b + SizesOf(c)[(e + i) - 1], w)
    BY <2>1 DEF Numbered
  <2> QED  BY <2>1, <2>4, <2>5
<1> QED  BY <1>2, <1>4, <1>5 DEF Dropped

\* n units that follow the first m, each with its stream.
Pages(w, m, n) == [k \in 1..n |-> <<w[m + k], m + k>>]

\* The units of each chunk, each with its stream.
UnitsOf(c) == [i \in 1..Len(c) |-> [j \in 1..Len(c[i].units) |-> <<c[i].stream, c[i].units[j]>>]]

Reading(c, off, n) == SubSeq(FlattenSeq(UnitsOf(c)), off + 1, off + n)

\* What is told of n units, from the one at off on.
LEMMA UnitsTold ==
  ASSUME NEW c \in Seq(Chunk), NEW b \in Nat, NEW w, Numbered(c, b, w),
         NEW off \in Nat, NEW n \in Nat, off + n <= Total(c)
  PROVE  Reading(c, off, n) = Pages(w, b + off, n)
<1> DEFINE units == FlattenSeq(UnitsOf(c))
           m == Len(c)
           s == SizesOf(c)
           len == [i \in 1..m |-> Len(c[i].units)]
           v == [k \in Nat |-> <<w[b + k], b + k>>]
           X == {v[k] : k \in Nat}
           seqs == UnitsOf(c)
<1>1. m \in Nat /\ v \in [Nat -> X] /\ Sizing(s, c)
  <2>1. v \in [Nat -> X]
    OBVIOUS
  <2> HIDE DEF v, X
  <2> QED  BY <2>1, SizesRight
<1>2. len \in [1..m -> Nat]
  <2>1. \A i \in 1..m : Len(c[i].units) \in Nat
    <3> SUFFICES ASSUME NEW i \in 1..m PROVE Len(c[i].units) \in Nat
      OBVIOUS
    <3>1. c[i] \in Chunk
      OBVIOUS
    <3> QED  BY <3>1, ChunkUnits
  <2> QED  BY <2>1
<1>3. s \in [0..m -> Nat] /\ s[0] = 0 /\ \A i \in 1..m : s[i] = s[i - 1] + len[i]
  BY <1>1 DEF Sizing
<1>4. seqs = [i \in 1..m |-> [j \in 1..len[i] |-> v[s[i - 1] + j]]]
  <2> SUFFICES ASSUME NEW i \in 1..m, NEW j \in 1..Len(c[i].units)
               PROVE  <<c[i].stream, c[i].units[j]>> = v[s[i - 1] + j]
    BY <1>2 DEF UnitsOf
  <2>1. s[i - 1] \in Nat
    <3>1. i - 1 \in 0..m
      BY <1>1
    <3> QED  BY <1>3, <3>1
  <2>2. c[i].units[j] = (b + s[i - 1]) + j /\ c[i].stream = w[(b + s[i - 1]) + j]
    BY DEF Numbered, PieceAt
  <2> HIDE DEF s
  <2>3. s[i - 1] + j \in Nat /\ b + (s[i - 1] + j) = (b + s[i - 1]) + j
    <3>1. j \in Nat
      OBVIOUS
    <3> QED  BY <2>1, <3>1
  <2>4. v[s[i - 1] + j] = <<w[b + (s[i - 1] + j)], b + (s[i - 1] + j)>>
    BY <2>3
  <2> QED  BY <2>2, <2>3, <2>4
<1>5. units = [k \in 1..s[m] |-> v[k]]
  <2>1. FlattenSeq(seqs) = [k \in 1..s[m] |-> v[k]]
    <3>1. InRuns(seqs, m, v, s, len)
      BY <1>4 DEF InRuns
    <3>2. s[0] = 0 /\ s \in [0..m -> Nat]
      BY <1>3
    <3>3. \A i \in 1..m : s[i] = s[i - 1] + len[i]
      BY <1>3
    <3>4. m \in Nat /\ v \in [Nat -> X]
      BY <1>1
    <3>5. RunsUp(FlattenSeq(seqs), m, v, s)
      <4> HIDE DEF s, v, X, len, seqs, m
      <4> QED  BY <1>2, <3>1, <3>2, <3>3, <3>4, FlattenRuns
    <3> HIDE DEF s, v, seqs, m
    <3> QED  BY <3>5 DEF RunsUp
  <2> QED  BY <2>1
<1> HIDE DEF seqs, len, units
<1>6. s[m] \in Nat /\ off + n <= s[m]
  BY TotalNat DEF Total
<1> DEFINE t == s[m]
<1>7. units \in Seq(X) /\ Len(units) = t
  <2>1. units \in [1..t -> X]
    <3>1. \A k \in 1..t : v[k] \in X
      BY <1>6
    <3> HIDE DEF X, t, v
    <3> QED  BY <1>5, <3>1 DEF t
  <2> HIDE DEF X, t
  <2> QED  BY <1>6, <2>1 DEF t
<1> DEFINE part == SubSeq(units, off + 1, off + n)
<1>8. part \in Seq(X) /\ Len(part) = n /\ \A k \in 1..n : part[k] = units[off + k]
  <2> HIDE DEF X, t
  <2>1. \A i \in (off + 1)..(off + n) : units[i] \in X
    <3> SUFFICES ASSUME NEW i \in (off + 1)..(off + n) PROVE units[i] \in X
      OBVIOUS
    <3>1. i \in 1..t
      BY <1>6 DEF t
    <3> QED  BY <1>7, <3>1
  <2>2. part \in Seq(X)
    BY <2>1, SubSeqProperties
  <2>3. Len(part) = n
    <3>1. Len(part) = IF off + 1 <= off + n THEN (off + n) - (off + 1) + 1 ELSE 0
      BY SubSeqProperties
    <3> QED  BY <3>1
  <2>4. ASSUME NEW k \in 1..n PROVE part[k] = units[off + k]
    <3>1. k \in 1..((off + n) - (off + 1) + 1) /\ (off + 1) + k - 1 = off + k
      OBVIOUS
    <3>2. part[k] = units[(off + 1) + k - 1]
      BY <3>1, SubSeqProperties
    <3> QED  BY <3>1, <3>2
  <2> QED  BY <2>2, <2>3, <2>4
<1>9. \A k \in 1..n : part[k] = <<w[b + off + k], b + off + k>>
  <2> SUFFICES ASSUME NEW k \in 1..n PROVE part[k] = <<w[b + off + k], b + off + k>>
    OBVIOUS
  <2>1. off + k \in 1..t /\ off + k \in Nat /\ b + (off + k) = b + off + k
    <3> HIDE DEF t
    <3> QED  BY <1>6 DEF t
  <2>2. units[off + k] = v[off + k]
    <3> HIDE DEF v, t
    <3> QED  BY <1>5, <2>1 DEF t
  <2>3. v[off + k] = <<w[b + (off + k)], b + (off + k)>>
    BY <2>1
  <2> HIDE DEF part, v
  <2> QED  BY <1>8, <2>1, <2>2, <2>3
<1>10. part = [k \in 1..n |-> part[k]]
  <2> HIDE DEF part, X
  <2> QED  BY <1>8
<1> HIDE DEF part
<1>11. part = [k \in 1..n |-> <<w[b + off + k], b + off + k>>]
  BY <1>9, <1>10
<1> QED  BY <1>11 DEF part, Pages, Reading, units

-----------------------------------------------------------------------------
(***************************************************************************)
(* The invariant.                                                          *)
(***************************************************************************)

\* The first k units a program wrote, each with its stream.
Story(w, k) == [i \in 1..k |-> <<w[i], i>>]

InHand(p) == IF hand[p] = None THEN 0 ELSE Len(hand[p].units)

\* The units of a program that left the mailbox.
Base(p) == written[p] - InHand(p) - held[p]

Lengths == [p \in Programs |-> Len(box[p])]

Typed ==
    /\ box \in [Programs -> Seq(Chunk)]
    /\ offset \in [Programs -> Nat] /\ held \in [Programs -> Nat] /\ written \in [Programs -> Nat]
    /\ hand \in [Programs -> Chunk \cup {None}]
    /\ thread \in [Programs -> {"none", "serving", "ended"}]
    /\ reader \in [Programs -> {0} \cup Maxima]
    /\ exit \subseteq Programs /\ running \subseteq Programs /\ retiring \subseteq Programs
    /\ stopping \subseteq Pull /\ asleep \subseteq Programs /\ reported \subseteq Programs
    /\ posted \in BOOLEAN /\ closed \in BOOLEAN /\ tasks \in Nat
    /\ host \in {"open", "closing", "closed"}
    /\ DOMAIN told = Programs

\* What a plugin was told is what its program wrote, from the first unit on.
Truthful == \A p \in Programs : \E k \in Nat : told[p] = Story(Writes[p], k)

\* Where a program stands.
Stage(p) ==
    /\ thread[p] = "none" =>
        /\ p \notin running /\ p \notin exit /\ box[p] = <<>> /\ hand[p] = None /\ written[p] = 0
    /\ p \in running <=> thread[p] = "serving" \/ p \in exit
    /\ p \in exit => thread[p] = "ended"
    /\ thread[p] = "ended" => p \in exit \/ box[p] = <<>>
    /\ p \in retiring \cup stopping => p \in running
    /\ p \in stopping => p \in asked
    /\ p \in reported => p \notin running

\* Where the units of a program are: told, in the mailbox or in the hand of its thread.
Place(p) ==
    /\ held[p] = Total(box[p]) /\ offset[p] <= held[p] /\ Base(p) \in Nat
    /\ Numbered(box[p], Base(p), Writes[p])
    /\ hand[p] # None => PieceAt(hand[p], Base(p) + held[p], Writes[p])
    /\ p \in running \/ thread[p] = "none" =>
        p \in retiring \cup stopping \/ told[p] = Story(Writes[p], Base(p) + offset[p])
    /\ p \in Pull => held[p] <= MaxPull /\ Len(box[p]) <= MaxPullChunks

Bounded ==
    /\ bytes = Sum(held) /\ bytes <= MaxBytes
    /\ chunks = Sum(Lengths) /\ chunks <= MaxChunks

\* Of the marks, the queue and the sleepers.
Woken ==
    /\ posted => tasks > 0
    /\ Taken(reader, retiring, stopping) # {} => posted
    /\ \A p \in asleep : ~Fits(p)

\* What stays true once the host closed.
Lasting ==
    /\ closed <=> host # "open"
    /\ \A p \in Programs : hand[p] # None => thread[p] = "serving"
    /\ \A p \in asleep : hand[p] # None
    /\ \A p \in reported : thread[p] = "ended"
    /\ EndLast

Open == (\A p \in Programs : Stage(p) /\ Place(p)) /\ Bounded /\ Woken

Inv == Typed /\ Truthful /\ Lasting /\ (host = "open" => Open)

-----------------------------------------------------------------------------
(***************************************************************************)
(* What a delivery does with the output of one program.                    *)
(***************************************************************************)

LEMMA StoryOn ==
  ASSUME NEW w, NEW m \in Nat, NEW n \in Nat
  PROVE  Story(w, m) \o Pages(w, m, n) = Story(w, m + n)
<1> DEFINE v == [k \in Nat |-> <<w[k], k>>]
           X == {v[k] : k \in Nat}
           a == Story(w, m)
           b == Pages(w, m, n)
           c == Story(w, m + n)
<1>1. a = [k \in 1..m |-> v[k]] /\ b = [k \in 1..n |-> v[m + k]] /\ c = [k \in 1..(m + n) |-> v[k]]
  BY DEF Story, Pages
<1>2. \A k \in Nat : v[k] \in X
  OBVIOUS
<1> HIDE DEF v, X, a, b, c
<1>3. a \in [1..m -> X] /\ b \in [1..n -> X] /\ c \in [1..(m + n) -> X]
  BY <1>1, <1>2
<1>4. a \in Seq(X) /\ Len(a) = m /\ b \in Seq(X) /\ Len(b) = n
  BY <1>3
<1>5. c \in Seq(X) /\ Len(c) = m + n
  <2>1. m + n \in Nat
    OBVIOUS
  <2> QED  BY <1>3, <2>1
<1>6. a \o b \in Seq(X) /\ Len(a \o b) = m + n
  BY <1>4, ConcatProperties
<1>7. ASSUME NEW k \in 1..(m + n) PROVE (a \o b)[k] = c[k]
  <2>1. CASE k <= m
    <3>1. k \in 1..m
      BY <2>1
    <3>2. (a \o b)[k] = a[k]
      BY <1>4, <3>1
    <3> QED  BY <1>1, <3>1, <3>2
  <2>2. CASE ~(k <= m)
    <3>1. k - m \in 1..n /\ m + (k - m) = k
      BY <2>2
    <3>2. (a \o b)[k] = b[k - m]
      BY <1>4, <2>2
    <3>3. b[k - m] = v[m + (k - m)]
      BY <1>1, <3>1
    <3> QED  BY <1>1, <3>1, <3>2, <3>3
  <2> QED  BY <2>1, <2>2
<1>8. a \o b = c
  <2>1. \A k \in 1..Len(a \o b) : (a \o b)[k] = c[k]
    BY <1>6, <1>7
  <2> QED  BY <1>5, <1>6, <2>1, SeqEqual
<1> QED  BY <1>8 DEF a, b, c

LEMMA StoryLength ==
  \A w, k : k \in Nat => Len(Story(w, k)) = k
<1> SUFFICES ASSUME NEW w, NEW k \in Nat PROVE Len(Story(w, k)) = k
  OBVIOUS
<1> DEFINE X == {<<w[i], i>> : i \in 1..k}
           s == Story(w, k)
<1>1. s \in [1..k -> X]
  BY DEF Story
<1> HIDE DEF X, s
<1>2. s \in Seq(X) /\ Len(s) = k
  BY <1>1
<1> QED  BY <1>2 DEF s

\* n units are read of the chunks c, from the one at off on; d is what stays.
Split(c, off, n, b, w, d) ==
    LET e == CutAt(c, off + n)
        f == SizesOf(c)[e]
    IN  /\ d \in Seq(Chunk) /\ e \in 0..Len(c) /\ Len(d) = Len(c) - e
        /\ f \in Nat /\ f <= off + n /\ f <= Total(c) /\ Total(d) = Total(c) - f
        /\ Numbered(d, b + f, w)
        /\ off + n = Total(c) => e = Len(c) /\ d = <<>>
        /\ e = Len(c) => d = <<>> /\ f = Total(c)

LEMMA SplitRight ==
  ASSUME NEW c \in Seq(Chunk), NEW b \in Nat, NEW w, Numbered(c, b, w),
         NEW off \in Nat, NEW n \in Nat, off + n <= Total(c),
         NEW d, d = SubSeq(c, CutAt(c, off + n) + 1, Len(c))
  PROVE  Split(c, off, n, b, w, d)
<1> DEFINE m == off + n
           e == CutAt(c, m)
           f == SizesOf(c)[e]
<1>1. m \in Nat
  OBVIOUS
<1>2. e \in 0..Len(c) /\ f <= m /\ \A i \in 1..Len(c) : SizesOf(c)[i] <= m <=> i <= e
  <2> HIDE DEF m
  <2> QED  BY <1>1, CutRight DEF CutSplits
<1> HIDE DEF e
<1>3. d = SubSeq(c, e + 1, Len(c))
  BY DEF e
<1>3a. Dropped(c, e, b, w, d)
  BY <1>2, <1>3, DropChunks
<1>4. d \in Seq(Chunk) /\ Len(d) = Len(c) - e /\ Total(d) = Total(c) - f
  BY <1>3a DEF Dropped
<1>5. Numbered(d, b + f, w)
  BY <1>3a DEF Dropped
<1>6. f \in Nat /\ f <= Total(c) /\ Len(c) \in Nat
  BY <1>2, TotalNat
<1>7. e = Len(c) => d = <<>> /\ f = Total(c)
  <2> SUFFICES ASSUME e = Len(c) PROVE d = <<>> /\ f = Total(c)
    OBVIOUS
  <2>1. f = Total(c)
    BY DEF Total
  <2>2. Len(d) = 0
    BY <1>4, <1>6
  <2> QED  BY <1>4, <2>1, <2>2, EmptySeq
<1>8. m = Total(c) => e = Len(c)
  <2> SUFFICES ASSUME m = Total(c), e # Len(c) PROVE FALSE
    OBVIOUS
  <2>1. Len(c) \in 1..Len(c) /\ ~(Len(c) <= e)
    BY <1>2, <1>6
  <2>2. ~(SizesOf(c)[Len(c)] <= m)
    BY <1>2, <2>1
  <2>3. Total(c) \in Nat /\ Total(c) = SizesOf(c)[Len(c)]
    BY TotalNat DEF Total
  <2> QED  BY <2>2, <2>3
<1> HIDE DEF f
<1> QED  BY <1>2, <1>4, <1>5, <1>6, <1>7, <1>8 DEF Split, f, e, m

-----------------------------------------------------------------------------
(***************************************************************************)
(* The steps.                                                              *)
(***************************************************************************)

LEMMA Held ==
  ASSUME Typed, NEW p \in Programs
  PROVE  /\ box[p] \in Seq(Chunk) /\ Len(box[p]) \in Nat /\ Total(box[p]) \in Nat
         /\ UpTo(p) = SizesOf(box[p]) /\ InHand(p) \in Nat
         /\ hand[p] # None => hand[p] \in Chunk /\ InHand(p) = Len(hand[p].units)
         /\ offset[p] \in Nat /\ held[p] \in Nat /\ written[p] \in Nat
<1>1. box[p] \in Seq(Chunk) /\ hand[p] \in Chunk \cup {None}
  BY DEF Typed
<1>2. Len(box[p]) \in Nat
  BY <1>1
<1>3. Total(box[p]) \in Nat
  BY <1>1, TotalNat
<1>4. UpTo(p) = SizesOf(box[p])
  BY DEF UpTo, SizesOf
<1>5. hand[p] # None => hand[p] \in Chunk /\ InHand(p) = Len(hand[p].units)
  BY <1>1 DEF InHand
<1>6. InHand(p) \in Nat
  <2>1. CASE hand[p] = None
    BY <2>1 DEF InHand
  <2>2. CASE hand[p] # None
    BY <1>5, <2>2, ChunkUnits
  <2> QED  BY <2>1, <2>2
<1>7. offset[p] \in Nat /\ held[p] \in Nat /\ written[p] \in Nat
  BY DEF Typed
<1> QED  BY <1>1, <1>2, <1>3, <1>4, <1>5, <1>6, <1>7

LEMMA Bounds ==
  /\ MaxBytes \in Nat /\ MaxChunks \in Nat /\ MaxPull \in Nat /\ MaxPullChunks \in Nat
  /\ MaxPiece \in Nat /\ Maxima \subseteq Nat /\ 0 \notin Maxima
  /\ IsFiniteSet(Programs) /\ Pull \subseteq Programs
BY ProcessAssumption

LEMMA InitInv ==
  ASSUME Init
  PROVE  Inv
<1>1. Typed
  <2>1. <<>> \in Seq(Chunk) /\ 0 \in Nat
    BY NoChunks
  <2> QED  BY <2>1 DEF Init, Typed
<1>2. ASSUME NEW p \in Programs PROVE told[p] = Story(Writes[p], 0) /\ box[p] = <<>> /\ held[p] = 0 /\ offset[p] = 0 /\ written[p] = 0 /\ hand[p] = None
  BY DEF Init, Story
<1>3. Truthful
  BY <1>2 DEF Truthful
<1>4. Lasting
  BY DEF Init, Lasting, EndLast
<1>5. ASSUME NEW p \in Programs PROVE Stage(p)
  BY DEF Init, Stage
<1>6. ASSUME NEW p \in Programs PROVE Place(p)
  <2>1. Base(p) = 0
    BY <1>2 DEF Base, InHand
  <2>2. Total(<<>>) = 0 /\ Numbered(<<>>, Base(p), Writes[p]) /\ Len(<<>>) = 0
    BY NoChunks
  <2>3. told[p] = Story(Writes[p], Base(p) + offset[p])
    BY <1>2, <2>1
  <2> QED  BY <1>2, <2>1, <2>2, <2>3, Bounds DEF Place
<1>7. Bounded
  <2>1. Lengths = [p \in Programs |-> 0]
    <3>1. \A p \in Programs : Len(box[p]) = 0
      BY <1>2
    <3> QED  BY <3>1 DEF Lengths
  <2>2. held = [p \in Programs |-> 0] /\ bytes = 0 /\ chunks = 0
    BY DEF Init
  <2>3. Sum([p \in Programs |-> 0]) = 0
    BY Bounds, SumNone
  <2> QED  BY <2>1, <2>2, <2>3, Bounds DEF Bounded
<1>8. Woken
  <2>1. Taken(reader, retiring, stopping) = {}
    BY <1>2 DEF Init, Taken, Arrived
  <2> QED  BY <2>1 DEF Init, Woken
<1> QED  BY <1>1, <1>3, <1>4, <1>5, <1>6, <1>7, <1>8 DEF Inv, Open

\* A step that leaves the mailbox, the serving threads and what was told alone.
LEMMA ReadStreamInv ==
  ASSUME Inv, NEW p \in Programs, NEW n \in 1..MaxPiece, ReadStream(p, n)
  PROVE  Inv'
<1> DEFINE x == [stream |-> Writes[p][written[p] + 1], units |-> [i \in 1..n |-> written[p] + i]]
<1>1. /\ thread[p] = "serving" /\ hand[p] = None
      /\ written[p] + 1 .. written[p] + n \subseteq 1..Len(Writes[p])
      /\ \A i \in written[p] + 1 .. written[p] + n : Writes[p][i] = Writes[p][written[p] + 1]
      /\ hand' = [hand EXCEPT ![p] = x]
      /\ written' = [written EXCEPT ![p] = @ + n]
      /\ UNCHANGED <<mailbox, thread, asleep, asked, owned, tasks, told, reported>>
  BY DEF ReadStream
<1>2. /\ UNCHANGED <<box, offset, held, exit, bytes, chunks, posted, closed>>
      /\ UNCHANGED <<thread, asleep, asked, running, reader, retiring, stopping, host>>
      /\ UNCHANGED <<tasks, told, reported>>
  BY <1>1 DEF mailbox, owned
<1>3. Typed /\ Truthful /\ Lasting
  BY DEF Inv
<1>4. n \in Nat /\ n > 0 /\ written[p] \in Nat
  BY <1>3, Held, Bounds
<1>5. x \in Chunk /\ x.units = [i \in 1..n |-> written[p] + i] /\ Len(x.units) = n
      /\ x.stream = Writes[p][written[p] + 1]
  <2> DEFINE u == [i \in 1..n |-> written[p] + i]
  <2>1. u \in [1..n -> Nat]
    BY <1>4
  <2> HIDE DEF u
  <2>2. u \in Seq(Nat) /\ Len(u) = n /\ u # <<>>
    BY <1>4, <2>1
  <2>3. Writes[p] \in Seq(Streams) /\ written[p] + 1 \in 1..Len(Writes[p])
    <3>1. written[p] + 1 \in written[p] + 1 .. written[p] + n
      BY <1>4
    <3> QED  BY <1>1, <3>1, ProcessAssumption
  <2>4. Writes[p][written[p] + 1] \in Streams
    BY <2>3
  <2>5. x = [stream |-> Writes[p][written[p] + 1], units |-> u]
    BY DEF u
  <2> HIDE DEF x
  <2>6. x.units = u /\ x.stream = Writes[p][written[p] + 1] /\ x \in Chunk
    BY <2>2, <2>4, <2>5 DEF Chunk
  <2> QED  BY <2>2, <2>6 DEF u
<1>6. x # None
  <2> HIDE DEF x
  <2>1. x \in [stream : Streams, units : Seq(Nat)]
    BY <1>5 DEF Chunk
  <2> QED  BY <2>1, ProcessAssumption
<1>7. PieceAt(x, written[p], Writes[p])
  <2> SUFFICES ASSUME NEW j \in 1..n PROVE x.units[j] = written[p] + j /\ x.stream = Writes[p][written[p] + j]
    BY <1>5 DEF PieceAt
  <2>1. written[p] + j \in written[p] + 1 .. written[p] + n
    BY <1>4
  <2> HIDE DEF x
  <2> QED  BY <1>1, <1>5, <2>1
<1> HIDE DEF x
<1>8. hand'[p] = x /\ written'[p] = written[p] + n
      /\ \A q \in Programs \ {p} : hand'[q] = hand[q] /\ written'[q] = written[q]
  BY <1>1, <1>3 DEF Typed
<1>9. Typed'
  <2>1. written[p] + n \in Nat
    BY <1>4
  <2>2. hand' \in [Programs -> Chunk \cup {None}] /\ written' \in [Programs -> Nat]
    BY <1>1, <1>3, <1>5, <2>1 DEF Typed
  <2> QED  BY <1>2, <1>3, <2>2 DEF Typed
<1>10. Truthful'
  BY <1>2, <1>3 DEF Truthful
<1>11. Lasting'
  <2>1. \A q \in reported : q # p /\ q \in Programs
    BY <1>1, <1>3 DEF Lasting, Typed
  <2>2. EndLast'
    BY <1>2, <1>3, <1>8, <2>1 DEF Lasting, EndLast
  <2>3. \A q \in Programs : hand'[q] # None => thread[q] = "serving"
    BY <1>1, <1>3, <1>8 DEF Lasting
  <2>4. \A q \in asleep : hand'[q] # None
    BY <1>3, <1>6, <1>8 DEF Lasting, Typed
  <2> QED  BY <1>2, <1>3, <2>2, <2>3, <2>4 DEF Lasting
<1>12. ASSUME host = "open", NEW q \in Programs PROVE Stage(q)'
  <2>1. Stage(q)
    BY <1>12 DEF Inv, Open
  <2> QED  BY <1>1, <1>2, <1>8, <2>1 DEF Stage
<1>13. ASSUME host = "open", NEW q \in Programs PROVE Place(q)'
  <2>1. Place(q)
    BY <1>13 DEF Inv, Open
  <2>2. Base(q)' = Base(q)
    <3>1. CASE q = p
      <4>1. InHand(p) = 0 /\ InHand(p)' = n
        BY <1>1, <1>5, <1>6, <1>8 DEF InHand
      <4>2. held[p] \in Nat /\ held' = held
        BY <1>2, <1>3, Held
      <4> QED  BY <1>4, <1>8, <3>1, <4>1, <4>2 DEF Base
    <3>2. CASE q # p
      BY <1>2, <1>8, <3>2 DEF Base, InHand
    <3> QED  BY <3>1, <3>2
  <2>3. (hand[q] # None => PieceAt(hand[q], Base(q) + held[q], Writes[q]))'
    <3>1. CASE q = p
      <4>1. Base(p) + held[p] = written[p]
        <5>1. InHand(p) = 0 /\ held[p] \in Nat
          BY <1>1, <1>3, Held DEF InHand
        <5> QED  BY <1>4, <5>1 DEF Base
      <4> QED  BY <1>2, <1>7, <1>8, <2>2, <3>1, <4>1
    <3>2. CASE q # p
      BY <1>2, <1>8, <2>1, <2>2, <3>2 DEF Place
    <3> QED  BY <3>1, <3>2
  <2> QED  BY <1>2, <2>1, <2>2, <2>3 DEF Place
<1>14. host = "open" => Bounded' /\ Woken'
  <2> SUFFICES ASSUME host = "open" PROVE Bounded' /\ Woken'
    OBVIOUS
  <2>1. Bounded /\ Woken
    BY DEF Inv, Open
  <2>2. \A q \in asleep : q # p /\ q \in Programs
    BY <1>1, <1>3 DEF Lasting, Typed
  <2>3. \A q \in asleep : Fits(q)' = Fits(q)
    BY <1>2, <1>8, <2>2 DEF Fits, Merged
  <2>4. Taken(reader, retiring, stopping)' = Taken(reader, retiring, stopping)
    BY <1>2 DEF Taken, Arrived
  <2> QED  BY <1>2, <2>1, <2>3, <2>4 DEF Bounded, Lengths, Woken
<1> QED  BY <1>2, <1>9, <1>10, <1>11, <1>12, <1>13, <1>14 DEF Inv, Open

LEMMA SleepInv ==
  ASSUME Inv, NEW p \in Programs, Sleep(p)
  PROVE  Inv'
<1>1. /\ hand[p] # None /\ ~closed /\ ~Fits(p) /\ asleep' = asleep \cup {p}
      /\ UNCHANGED <<box, offset, held, exit, bytes, chunks, posted, closed>>
      /\ UNCHANGED <<thread, hand, asked, written, running, reader, retiring, stopping, host>>
      /\ UNCHANGED <<tasks, told, reported>>
  BY DEF Sleep, mailbox, owned
<1>2. Typed /\ Truthful /\ Lasting /\ Open
  BY <1>1 DEF Inv, Lasting
<1>3. Typed'
  BY <1>1, <1>2 DEF Typed
<1>4. Truthful' /\ Lasting'
  BY <1>1, <1>2 DEF Truthful, Lasting, EndLast
<1>5. ASSUME NEW q \in Programs PROVE Stage(q)' /\ Place(q)'
  <2>1. Stage(q) /\ Place(q)
    BY <1>2 DEF Open
  <2> QED  BY <1>1, <2>1 DEF Stage, Place, Base, InHand
<1>6. Bounded'
  BY <1>1, <1>2 DEF Open, Bounded, Lengths
<1>7. Woken'
  <2>1. \A q \in asleep' : ~Fits(q)
    BY <1>1, <1>2 DEF Open, Woken
  <2>2. \A q \in asleep' : Fits(q)' = Fits(q)
    BY <1>1 DEF Fits, Merged
  <2> QED  BY <1>1, <1>2, <2>1, <2>2 DEF Open, Woken, Taken, Arrived
<1> QED  BY <1>3, <1>4, <1>5, <1>6, <1>7 DEF Inv, Open

LEMMA DropInv ==
  ASSUME Inv, NEW p \in Programs, Drop(p)
  PROVE  Inv'
<1>1. /\ hand[p] # None /\ p \notin asleep /\ closed /\ hand' = [hand EXCEPT ![p] = None]
      /\ UNCHANGED <<box, offset, held, exit, bytes, chunks, posted, closed>>
      /\ UNCHANGED <<thread, asleep, asked, written, running, reader, retiring, stopping, host>>
      /\ UNCHANGED <<tasks, told, reported>>
  BY DEF Drop, mailbox, owned
<1>2. Typed /\ Truthful /\ Lasting /\ host # "open"
  BY <1>1 DEF Inv, Lasting
<1>3. hand'[p] = None /\ \A q \in Programs \ {p} : hand'[q] = hand[q]
  BY <1>1, <1>2 DEF Typed
<1>4. Typed'
  BY <1>1, <1>2 DEF Typed
<1>5. Truthful' /\ Lasting'
  <2>1. \A q \in asleep : q # p /\ q \in Programs
    BY <1>1, <1>2 DEF Typed
  <2> QED  BY <1>1, <1>2, <1>3, <2>1 DEF Truthful, Lasting, EndLast
<1> QED  BY <1>1, <1>2, <1>4, <1>5 DEF Inv

LEMMA ExitedInv ==
  ASSUME Inv, NEW p \in Programs, Exited(p)
  PROVE  Inv'
<1>1. /\ thread[p] = "serving" /\ hand[p] = None /\ thread' = [thread EXCEPT ![p] = "ended"]
      /\ IF closed THEN UNCHANGED <<exit, posted, tasks>>
         ELSE exit' = exit \cup {p} /\ posted' = TRUE /\ tasks' = IF posted THEN tasks ELSE tasks + 1
      /\ UNCHANGED <<box, offset, held, bytes, chunks, closed, hand, asleep, asked, written>>
      /\ UNCHANGED <<running, reader, retiring, stopping, host>>
      /\ UNCHANGED <<told, reported>>
  BY DEF Exited, Post, owned
<1>2. Typed /\ Truthful /\ Lasting
  BY DEF Inv
<1>3. thread'[p] = "ended" /\ \A q \in Programs \ {p} : thread'[q] = thread[q]
  BY <1>1, <1>2 DEF Typed
<1>4. Typed'
  <2>1. thread' \in [Programs -> {"none", "serving", "ended"}]
    BY <1>1, <1>2 DEF Typed
  <2>2. exit' \subseteq Programs /\ posted' \in BOOLEAN /\ tasks' \in Nat
    <3>1. exit \subseteq Programs /\ posted \in BOOLEAN /\ tasks \in Nat
      BY <1>2 DEF Typed
    <3>2. CASE closed
      BY <1>1, <3>1, <3>2
    <3>3. CASE ~closed
      <4>1. exit' = exit \cup {p} /\ posted' = TRUE
        BY <1>1, <3>3
      <4>2. tasks' = tasks \/ tasks' = tasks + 1
        BY <1>1, <3>3
      <4> QED  BY <3>1, <4>1, <4>2
    <3> QED  BY <3>2, <3>3
  <2> QED  BY <1>1, <1>2, <2>1, <2>2 DEF Typed
<1>5. Truthful'
  BY <1>1, <1>2 DEF Truthful
<1>6. Lasting'
  <2>1. \A q \in Programs : hand[q] # None => q # p
    BY <1>1
  <2>2. EndLast'
    BY <1>1, <1>2 DEF Lasting, EndLast
  <2>3. \A q \in Programs : hand[q] # None => thread'[q] = "serving"
    BY <1>2, <1>3, <2>1 DEF Lasting
  <2>4. \A q \in reported : thread'[q] = "ended"
    BY <1>2, <1>3 DEF Lasting, Typed
  <2> QED  BY <1>1, <1>2, <2>2, <2>3, <2>4 DEF Lasting
<1>7. ASSUME host = "open" PROVE Open'
  <2>1. Open /\ ~closed
    BY <1>2, <1>7 DEF Inv, Lasting
  <2>2. exit' = exit \cup {p} /\ posted' = TRUE /\ tasks' = IF posted THEN tasks ELSE tasks + 1
    BY <1>1, <2>1
  <2>3. ASSUME NEW q \in Programs PROVE Stage(q)'
    <3>1. Stage(q)
      BY <2>1 DEF Open
    <3>2. CASE q = p
      BY <1>1, <1>3, <2>2, <3>1, <3>2 DEF Stage
    <3>3. CASE q # p
      BY <1>1, <1>3, <2>2, <3>1, <3>3 DEF Stage
    <3> QED  BY <3>2, <3>3
  <2>4. ASSUME NEW q \in Programs PROVE Place(q)'
    <3>1. Place(q) /\ Stage(q)
      BY <2>1 DEF Open
    <3>2. thread'[q] = "none" => thread[q] = "none"
      BY <1>3
    <3> QED  BY <1>1, <3>1, <3>2 DEF Place, Base, InHand
  <2>5. Bounded'
    BY <1>1, <2>1 DEF Open, Bounded, Lengths
  <2>6. Woken'
    <3>1. \A q \in asleep : Fits(q)' = Fits(q)
      BY <1>1 DEF Fits, Merged
    <3>2. tasks' > 0
      BY <1>2, <2>1, <2>2 DEF Open, Woken, Typed
    <3> QED  BY <1>1, <2>1, <2>2, <3>1, <3>2 DEF Open, Woken
  <2> QED  BY <2>3, <2>4, <2>5, <2>6 DEF Open
<1> QED  BY <1>1, <1>4, <1>5, <1>6, <1>7 DEF Inv

LEMMA StartInv ==
  ASSUME Inv, NEW p \in Programs, Start(p)
  PROVE  Inv'
<1>1. /\ host = "open" /\ thread[p] = "none" /\ thread' = [thread EXCEPT ![p] = "serving"]
      /\ running' = running \cup {p}
      /\ UNCHANGED <<box, offset, held, exit, bytes, chunks, posted, closed>>
      /\ UNCHANGED <<hand, asleep, asked, written, reader, retiring, stopping, host>>
      /\ UNCHANGED <<tasks, told, reported>>
  BY DEF Start, mailbox
<1>2. Typed /\ Truthful /\ Lasting /\ Open
  BY <1>1 DEF Inv
<1>3. thread'[p] = "serving" /\ \A q \in Programs \ {p} : thread'[q] = thread[q]
  BY <1>1, <1>2 DEF Typed
<1>4. Typed'
  <2>1. thread' \in [Programs -> {"none", "serving", "ended"}]
    BY <1>1, <1>2 DEF Typed
  <2> QED  BY <1>1, <1>2, <2>1 DEF Typed
<1>5. Truthful' /\ Lasting'
  <2>1. \A q \in Programs : hand[q] # None => thread'[q] = "serving"
    BY <1>2, <1>3 DEF Lasting
  <2>2. \A q \in reported : thread'[q] = "ended"
    BY <1>1, <1>2, <1>3 DEF Lasting, Typed
  <2> QED  BY <1>1, <1>2, <2>1, <2>2 DEF Truthful, Lasting, EndLast
<1>6. ASSUME NEW q \in Programs PROVE Stage(q)'
  <2>1. Stage(q) /\ (q \in reported => thread[q] = "ended")
    BY <1>2 DEF Open, Lasting
  <2>2. CASE q = p
    BY <1>1, <1>3, <2>1, <2>2 DEF Stage
  <2>3. CASE q # p
    BY <1>1, <1>3, <2>1, <2>3 DEF Stage
  <2> QED  BY <2>2, <2>3
<1>7. ASSUME NEW q \in Programs PROVE Place(q)'
  <2>1. Place(q)
    BY <1>2 DEF Open
  <2>2. q \in running' \/ thread'[q] = "none" => q \in running \/ thread[q] = "none"
    BY <1>1, <1>3
  <2> QED  BY <1>1, <2>1, <2>2 DEF Place, Base, InHand
<1>8. Bounded'
  BY <1>1, <1>2 DEF Open, Bounded, Lengths
<1>9. Woken'
  <2>1. \A q \in asleep : Fits(q)' = Fits(q)
    BY <1>1 DEF Fits, Merged
  <2> QED  BY <1>1, <1>2, <2>1 DEF Open, Woken, Taken, Arrived
<1> QED  BY <1>4, <1>5, <1>6, <1>7, <1>8, <1>9 DEF Inv, Open

LEMMA CloseInv ==
  ASSUME Inv, Close
  PROVE  Inv'
<1>1. /\ host' = "closing" /\ closed' = TRUE
      /\ box' = [p \in Programs |-> <<>>] /\ offset' = [p \in Programs |-> 0]
      /\ held' = [p \in Programs |-> 0] /\ exit' = {} /\ asleep' = {} /\ asked' = asked \cup running
      /\ UNCHANGED <<bytes, chunks, posted, thread, hand, written, running, reader, retiring, stopping>>
      /\ UNCHANGED <<tasks, told, reported>>
  BY DEF Close, Ready
<1>2. Typed /\ Truthful /\ Lasting
  BY DEF Inv
<1>3. Typed'
  <2>1. <<>> \in Seq(Chunk)
    BY NoChunks
  <2>2. box' \in [Programs -> Seq(Chunk)] /\ offset' \in [Programs -> Nat] /\ held' \in [Programs -> Nat]
    BY <1>1, <2>1
  <2> QED  BY <1>1, <1>2, <2>2 DEF Typed
<1>4. Truthful' /\ Lasting'
  <2>1. EndLast'
    BY <1>1, <1>2 DEF Lasting, EndLast
  <2> QED  BY <1>1, <1>2, <2>1 DEF Truthful, Lasting
<1> QED  BY <1>1, <1>3, <1>4 DEF Inv

LEMMA ClosedInv ==
  ASSUME Inv, Closed
  PROVE  Inv'
<1>1. /\ host = "closing" /\ host' = "closed" /\ running' = {}
      /\ UNCHANGED <<box, offset, held, exit, bytes, chunks, posted, closed>>
      /\ UNCHANGED <<thread, hand, asleep, asked, written>>
      /\ UNCHANGED <<reader, retiring, stopping, tasks, told, reported>>
  BY DEF Closed, mailbox, serving
<1>2. Typed /\ Truthful /\ Lasting
  BY DEF Inv
<1>3. Typed'
  BY <1>1, <1>2 DEF Typed
<1>4. Truthful' /\ Lasting'
  BY <1>1, <1>2 DEF Truthful, Lasting, EndLast
<1> QED  BY <1>1, <1>3, <1>4 DEF Inv

LEMMA StutterInv ==
  ASSUME Inv, UNCHANGED vars
  PROVE  Inv'
<1>1. /\ UNCHANGED <<box, offset, held, exit, bytes, chunks, posted, closed>>
      /\ UNCHANGED <<thread, hand, asleep, asked, written>>
      /\ UNCHANGED <<running, reader, retiring, stopping, host, tasks, told, reported>>
  BY DEF vars, mailbox, serving, owned
<1>2. Typed' = Typed /\ Truthful' = Truthful /\ Lasting' = Lasting
  BY <1>1 DEF Typed, Truthful, Lasting, EndLast
<1>3. \A q \in Programs : Stage(q)' = Stage(q) /\ Place(q)' = Place(q)
  BY <1>1 DEF Stage, Place, Base, InHand
<1>4. Bounded' = Bounded /\ Woken' = Woken
  BY <1>1 DEF Bounded, Lengths, Woken, Taken, Arrived, Fits, Merged
<1> QED  BY <1>1, <1>2, <1>3, <1>4 DEF Inv, Open

\* A piece joins the output that waits: the last chunk, or a chunk of its own.
LEMMA PutInv ==
  ASSUME Inv, NEW p \in Programs, Put(p)
  PROVE  Inv'
<1> DEFINE x == hand[p]
           c == box[p]
           b == Base(p)
           w == Writes[p]
           m == Len(x.units)
           d == box'[p]
<1>1. /\ x # None /\ p \notin asleep /\ ~closed /\ Fits(p)
      /\ IF Merged(p)
         THEN /\ box' = [box EXCEPT ![p] = Joined(@, x)]
              /\ chunks' = chunks
         ELSE /\ box' = [box EXCEPT ![p] = Append(@, x)]
              /\ chunks' = chunks + 1
      /\ bytes' = bytes + m
      /\ held' = [held EXCEPT ![p] = @ + m]
      /\ hand' = [hand EXCEPT ![p] = None]
      /\ posted' = TRUE /\ tasks' = IF posted THEN tasks ELSE tasks + 1
      /\ UNCHANGED <<offset, exit, closed, thread, asleep, asked, written>>
      /\ UNCHANGED <<running, reader, retiring, stopping, host>>
      /\ UNCHANGED <<told, reported>>
  BY DEF Put, Post, owned
<1>2. Typed /\ Truthful /\ Lasting /\ host = "open" /\ Open
  BY <1>1 DEF Inv, Lasting
<1>3. /\ c \in Seq(Chunk) /\ Len(c) \in Nat /\ x \in Chunk /\ InHand(p) = m
      /\ held[p] \in Nat /\ offset[p] \in Nat /\ written[p] \in Nat /\ m \in Nat /\ m > 0
  <2>1. x \in Chunk
    BY <1>1, <1>2, Held
  <2> QED  BY <1>1, <1>2, <2>1, Held, ChunkUnits
<1>4. /\ held[p] = Total(c) /\ offset[p] <= held[p] /\ b \in Nat /\ Numbered(c, b, w)
      /\ PieceAt(x, b + Total(c), w)
  <2>1. Place(p)
    BY <1>2 DEF Open
  <2> QED  BY <1>1, <2>1 DEF Place
<1>4a. held \in [Programs -> Int] /\ Lengths \in [Programs -> Int] /\ bytes \in Int /\ chunks \in Int
  <2>1. \A q \in Programs : Len(box[q]) \in Nat
    BY <1>2, Held
  <2>2. held \in [Programs -> Nat] /\ Lengths \in [Programs -> Nat]
    BY <1>2, <2>1 DEF Typed, Lengths
  <2>3. bytes \in Nat /\ chunks \in Nat
    BY <1>2, <2>2, Bounds, SumNat DEF Open, Bounded
  <2> QED  BY <2>2, <2>3
<1>5. /\ d \in Seq(Chunk) /\ Total(d) = Total(c) + m /\ Numbered(d, b, w)
      /\ box' = [box EXCEPT ![p] = d]
      /\ Len(d) \in Nat /\ Len(d) - Len(c) = chunks' - chunks
      /\ IF Merged(p) THEN Len(d) = Len(c) /\ chunks' = chunks ELSE Len(d) = Len(c) + 1 /\ chunks' = chunks + 1
  <2>0. c \in Seq(Chunk) /\ x \in Chunk /\ b \in Nat /\ Numbered(c, b, w) /\ PieceAt(x, b + Total(c), w)
    BY <1>3, <1>4
  <2>1. CASE Merged(p)
    <3>1. d = Joined(c, x) /\ box' = [box EXCEPT ![p] = d] /\ chunks' = chunks
      BY <1>1, <1>2, <2>1 DEF Typed
    <3>2. c # <<>> /\ Last(c).stream = x.stream
      BY <2>1 DEF Merged
    <3> HIDE DEF c, x, b, w, d
    <3>3. Grown(d, c, Len(c), Len(x.units), b, w)
      BY <2>0, <3>1, <3>2, JoinChunk
    <3>4. Len(c) - Len(c) = chunks' - chunks
      BY <1>3, <1>4a, <3>1
    <3> QED  BY <1>3, <2>1, <3>1, <3>3, <3>4 DEF Grown, m
  <2>2. CASE ~Merged(p)
    <3>1. d = Append(c, x) /\ box' = [box EXCEPT ![p] = d] /\ chunks' = chunks + 1
      BY <1>1, <1>2, <2>2 DEF Typed
    <3> HIDE DEF c, x, b, w, d
    <3>2. Grown(d, c, Len(c) + 1, Len(x.units), b, w)
      BY <2>0, <3>1, AppendChunk
    <3>3. (Len(c) + 1) - Len(c) = chunks' - chunks
      BY <1>3, <1>4a, <3>1
    <3> QED  BY <1>3, <2>2, <3>1, <3>2, <3>3 DEF Grown, m
  <2> QED  BY <2>1, <2>2
<1> HIDE DEF m, d
<1>6. /\ box'[p] = d /\ held'[p] = held[p] + m /\ hand'[p] = None
      /\ \A q \in Programs \ {p} : box'[q] = box[q] /\ held'[q] = held[q] /\ hand'[q] = hand[q]
  BY <1>1, <1>2, <1>5 DEF Typed
<1>7. Typed'
  <2>1. box' \in [Programs -> Seq(Chunk)]
    BY <1>2, <1>5 DEF Typed
  <2>2. held' \in [Programs -> Nat]
    BY <1>1, <1>2, <1>3 DEF Typed
  <2>3. hand' \in [Programs -> Chunk \cup {None}]
    BY <1>1, <1>2 DEF Typed
  <2>4. posted' \in BOOLEAN /\ tasks' \in Nat
    BY <1>1, <1>2 DEF Typed
  <2> QED  BY <1>1, <1>2, <2>1, <2>2, <2>3, <2>4 DEF Typed
<1>8. Truthful'
  BY <1>1, <1>2 DEF Truthful
<1>9. Lasting'
  <2>1. \A q \in asleep : q # p /\ q \in Programs
    BY <1>1, <1>2 DEF Typed
  <2> QED  BY <1>1, <1>2, <1>6, <2>1 DEF Lasting, EndLast
<1>10. thread[p] = "serving"
  BY <1>1, <1>2 DEF Lasting
<1>11. ASSUME NEW q \in Programs PROVE Stage(q)'
  <2>1. Stage(q)
    BY <1>2 DEF Open
  <2>2. CASE q = p
    BY <1>1, <1>10, <2>1, <2>2 DEF Stage
  <2>3. CASE q # p
    BY <1>1, <1>6, <2>1, <2>3 DEF Stage
  <2> QED  BY <2>2, <2>3
<1>12. ASSUME NEW q \in Programs PROVE Place(q)'
  <2>1. Place(q)
    BY <1>2 DEF Open
  <2>2. CASE q = p
    <3>1. Base(p)' = b
      <4>1. InHand(p)' = 0
        BY <1>6 DEF InHand
      <4>2. written'[p] - 0 - (held[p] + m) = written[p] - m - held[p]
        BY <1>1, <1>3
      <4> QED  BY <1>3, <1>6, <4>1, <4>2 DEF Base
    <3>2. b + offset'[p] = Base(p) + offset[p] /\ told' = told
      BY <1>1
    <3>3. p \in Pull => held'[p] <= MaxPull /\ Len(d) <= MaxPullChunks
      <4> SUFFICES ASSUME p \in Pull PROVE held[p] + m <= MaxPull /\ Len(d) <= MaxPullChunks
        BY <1>6
      <4>1. Len(c) <= MaxPullChunks /\ m <= MaxPull - held[p] /\ (Merged(p) \/ Len(c) < MaxPullChunks)
        BY <1>1, <2>1, <2>2 DEF Place, Fits, m
      <4> HIDE DEF c
      <4> QED  BY <1>3, <1>5, <4>1, Bounds
    <3> HIDE DEF c, b
    <3>4. held'[p] = Total(d) /\ offset[p] <= held'[p]
      BY <1>3, <1>4, <1>5, <1>6
    <3> QED  BY <1>1, <1>4, <1>5, <1>6, <2>1, <2>2, <3>1, <3>2, <3>3, <3>4 DEF Place, b
  <2>3. CASE q # p
    BY <1>1, <1>6, <2>1, <2>3 DEF Place, Base, InHand
  <2> QED  BY <2>2, <2>3
<1>13. Bounded'
  <2>1. Bounded
    BY <1>2 DEF Open
  <2>3. Sum(held') = Sum(held) + m /\ Sum(held) \in Int
    <3>1. held' \in [Programs -> Int]
      BY <1>7 DEF Typed
    <3>2. Raised(held', held, Programs, p, m)
      BY <1>6 DEF Raised
    <3>3. m \in Int /\ IsFiniteSet(Programs)
      BY <1>3, Bounds
    <3> QED  BY <1>4a, <3>1, <3>2, <3>3, SumMore
  <2>5. Sum(Lengths') = Sum(Lengths) + (Len(d) - Len(c)) /\ Sum(Lengths) \in Int
    <3>1. \A q \in Programs : Lengths'[q] = IF q = p THEN Lengths[q] + (Len(d) - Len(c)) ELSE Lengths[q]
      <4>1. \A q \in Programs : Lengths'[q] = Len(box'[q]) /\ Lengths[q] = Len(box[q])
        BY DEF Lengths
      <4>2. Len(c) + (Len(d) - Len(c)) = Len(d)
        BY <1>3, <1>5
      <4> QED  BY <1>6, <4>1, <4>2
    <3>2. Len(d) - Len(c) \in Int
      BY <1>3, <1>5
    <3>3. Lengths' \in [Programs -> Int]
      <4>1. \A q \in Programs : Lengths'[q] \in Int
        BY <1>4a, <3>1, <3>2
      <4>2. Lengths' = [q \in Programs |-> Len(box'[q])]
        BY DEF Lengths
      <4>3. Lengths' = [q \in Programs |-> Lengths'[q]]
        BY <4>2
      <4> QED  BY <4>1, <4>3
    <3> HIDE DEF c
    <3> DEFINE z == Len(d) - Len(c)
    <3> HIDE DEF z
    <3>4. Raised(Lengths', Lengths, Programs, p, z)
      BY <3>1 DEF Raised, z
    <3>5. z \in Int
      BY <3>2 DEF z
    <3>6. Sum(Lengths') = Sum(Lengths) + z /\ Sum(Lengths) \in Int
      BY <1>4a, <3>3, <3>4, <3>5, Bounds, SumMore
    <3> QED  BY <3>6 DEF z
  <2>7. bytes' <= MaxBytes
    <3>1. m <= MaxBytes - bytes
      BY <1>1 DEF Fits, m
    <3> QED  BY <1>1, <1>3, <1>4a, <2>1, <3>1, Bounds DEF Bounded
  <2>8. chunks' <= MaxChunks
    <3>1. Merged(p) \/ chunks < MaxChunks
      BY <1>1 DEF Fits
    <3> QED  BY <1>5, <1>4a, <2>1, <3>1, Bounds DEF Bounded
  <2> HIDE DEF c
  <2>9. chunks' = Sum(Lengths')
    BY <1>3, <1>5, <1>4a, <2>1, <2>5 DEF Bounded
  <2> QED  BY <1>1, <2>1, <2>3, <2>7, <2>8, <2>9 DEF Bounded
<1>14. Woken'
  <2>1. tasks' > 0
    BY <1>1, <1>2 DEF Open, Woken, Typed
  <2>2. ASSUME NEW q \in asleep PROVE ~Fits(q)'
    <3>1. q \in Programs /\ q # p /\ ~Fits(q)
      BY <1>1, <1>2 DEF Open, Woken, Typed
    <3>2. box'[q] = box[q] /\ held'[q] = held[q] /\ hand'[q] = hand[q] /\ (Merged(q)' <=> Merged(q))
      BY <1>6, <3>1 DEF Merged
    <3>3. Len(hand[q].units) \in Nat /\ bytes \in Int /\ chunks \in Int
      <4>1. hand[q] # None
        BY <1>2 DEF Lasting
      <4>2. hand[q] \in Chunk
        BY <1>2, <3>1, <4>1, Held
      <4> QED  BY <1>4a, <4>2, ChunkUnits
    <3>4. bytes <= bytes' /\ chunks <= chunks' /\ bytes' \in Int /\ chunks' \in Int
      BY <1>1, <1>3, <1>5, <3>3
    <3> SUFFICES ASSUME Fits(q)' PROVE Fits(q)
      BY <3>1
    <3>5. Len(hand[q].units) <= MaxBytes - bytes' /\ (Merged(q) \/ chunks' < MaxChunks)
      BY <3>2 DEF Fits
    <3>6. Len(hand[q].units) <= MaxBytes - bytes /\ (Merged(q) \/ chunks < MaxChunks)
      BY <3>3, <3>4, <3>5, Bounds
    <3>7. q \in Pull => /\ Len(hand[q].units) <= MaxPull - held[q]
                        /\ Merged(q) \/ Len(box[q]) < MaxPullChunks
      BY <3>2 DEF Fits
    <3> QED  BY <3>6, <3>7 DEF Fits
  <2> QED  BY <1>1, <2>1, <2>2 DEF Woken
<1> QED  BY <1>1, <1>2, <1>7, <1>8, <1>9, <1>11, <1>12, <1>13, <1>14 DEF Inv, Open

-----------------------------------------------------------------------------
(***************************************************************************)
(* A delivery, over whatever readers and marks the function that delivers  *)
(* set.                                                                    *)
(***************************************************************************)

LEMMA CountRight ==
  ASSUME Typed, NEW p \in Programs, Place(p), NEW asks \in [Programs -> {0} \cup Maxima], NEW gone, NEW stopped
  PROVE  /\ Count(p, asks, gone, stopped) \in Nat
         /\ offset[p] + Count(p, asks, gone, stopped) <= held[p]
         /\ p \notin Pull \ (gone \cup stopped) => offset[p] + Count(p, asks, gone, stopped) = held[p]
<1>1. offset[p] \in Nat /\ held[p] \in Nat /\ offset[p] <= held[p] /\ asks[p] \in Nat
  <2>1. asks[p] \in {0} \cup Maxima
    OBVIOUS
  <2>2. asks[p] \in Nat
    <3>1. Maxima \subseteq Nat
      BY Bounds
    <3>2. CASE asks[p] = 0
      BY <3>2
    <3>3. CASE asks[p] \in Maxima
      BY <3>1, <3>3
    <3> QED  BY <2>1, <3>2, <3>3
  <2>3. offset[p] <= held[p]
    BY DEF Place
  <2> QED  BY <2>2, <2>3, Held
<1>2. CASE p \in Pull \ (gone \cup stopped) /\ asks[p] < held[p] - offset[p]
  <2>1. Count(p, asks, gone, stopped) = asks[p]
    BY <1>2 DEF Count
  <2> QED  BY <1>1, <1>2, <2>1
<1>3. CASE ~(p \in Pull \ (gone \cup stopped) /\ asks[p] < held[p] - offset[p])
  <2>1. Count(p, asks, gone, stopped) = held[p] - offset[p]
    BY <1>3 DEF Count
  <2> QED  BY <1>1, <2>1
<1> QED  BY <1>2, <1>3

LEMMA PortionRight ==
  ASSUME Typed, NEW p \in Programs, Place(p), NEW n \in Nat, offset[p] + n <= held[p]
  PROVE  Story(Writes[p], Base(p) + offset[p]) \o Portion(p, n) = Story(Writes[p], (Base(p) + offset[p]) + n)
<1> DEFINE c == box[p]
           b == Base(p)
           w == Writes[p]
<1>1. c \in Seq(Chunk) /\ b \in Nat /\ Numbered(c, b, w) /\ offset[p] \in Nat /\ offset[p] + n <= Total(c)
  BY Held DEF Place
<1>2. Portion(p, n) = Reading(c, offset[p], n)
  BY DEF Portion, Reading, UnitsOf
<1>3. Reading(c, offset[p], n) = Pages(w, b + offset[p], n)
  <2> DEFINE off == offset[p]
  <2>1. c \in Seq(Chunk) /\ b \in Nat /\ Numbered(c, b, w) /\ off \in Nat /\ off + n <= Total(c)
    BY <1>1
  <2> HIDE DEF b, w, c, off
  <2>2. Reading(c, off, n) = Pages(w, b + off, n)
    BY <2>1, UnitsTold
  <2> QED  BY <2>2 DEF off
<1>4. Portion(p, n) = Pages(w, b + offset[p], n)
  BY <1>2, <1>3
<1>5. b + offset[p] \in Nat
  <2> HIDE DEF b
  <2> QED  BY <1>1
<1> HIDE DEF b, w
<1>6. Story(w, b + offset[p]) \o Pages(w, b + offset[p], n) = Story(w, (b + offset[p]) + n)
  BY <1>5, StoryOn
<1> QED  BY <1>4, <1>6 DEF b, w

\* What a delivery leaves of the output of p, n units of which it takes.
Takes(p, n, e, f) ==
    /\ n \in Nat /\ offset[p] + n <= held[p]
    /\ e = CutAt(box[p], offset[p] + n) /\ f = SizesOf(box[p])[e]
    /\ Split(box[p], offset[p], n, Base(p), Writes[p], SubSeq(box[p], e + 1, Len(box[p])))

LEMMA TakesRight ==
  ASSUME Typed, NEW p \in Programs, Place(p), NEW n \in Nat, offset[p] + n <= held[p]
  PROVE  Takes(p, n, Emptied(p, n), Freed(p, n))
<1> DEFINE c == box[p]
           b == Base(p)
           w == Writes[p]
           off == offset[p]
           e == CutAt(c, off + n)
           d == SubSeq(c, e + 1, Len(c))
<1>1. c \in Seq(Chunk) /\ b \in Nat /\ Numbered(c, b, w) /\ off \in Nat /\ off + n <= Total(c)
  BY Held DEF Place
<1>2. Emptied(p, n) = e
  BY Held DEF Emptied, CutAt
<1>3. Freed(p, n) = SizesOf(c)[e]
  BY <1>2, Held DEF Freed
<1>4. d = SubSeq(c, CutAt(c, off + n) + 1, Len(c))
  OBVIOUS
<1>5. Split(c, off, n, b, w, d)
  <2> HIDE DEF c, off, b, w, d
  <2> QED  BY <1>1, <1>4, SplitRight
<1> HIDE DEF e
<1> QED  BY <1>2, <1>3, <1>5 DEF Takes, e

LEMMA DeliverInv ==
  ASSUME Inv, host = "open",
         NEW asks \in [Programs -> {0} \cup Maxima], NEW gone, NEW stopped,
         retiring \subseteq gone, gone \subseteq running,
         stopping \subseteq stopped, stopped \subseteq running \cap Pull,
         asked \subseteq asked', stopped \subseteq asked', tasks' \in Nat,
         Deliver(asks, gone, stopped),
         UNCHANGED <<closed, thread, hand, written, host>>
  PROVE  Inv'
<1> DEFINE taken == Taken(asks, gone, stopped)
           n == [p \in taken |-> Count(p, asks, gone, stopped)]
           freed == [p \in taken |-> Freed(p, n[p])]
           emptied == [p \in taken |-> Emptied(p, n[p])]
           over == {p \in taken : Ends(p, n[p])}
<1>1. /\ posted' = FALSE /\ asleep' = {}
      /\ box' = [p \in Programs |-> IF p \in taken THEN SubSeq(box[p], emptied[p] + 1, Len(box[p])) ELSE box[p]]
      /\ offset' = [p \in Programs |-> IF p \in taken THEN offset[p] + n[p] - freed[p] ELSE offset[p]]
      /\ held' = [p \in Programs |-> IF p \in taken THEN held[p] - freed[p] ELSE held[p]]
      /\ bytes' = bytes - Sum(freed) /\ chunks' = chunks - Sum(emptied)
      /\ exit' = exit \ over
      /\ told' = [p \in Programs |-> IF p \in taken \ (gone \cup stopped) THEN told[p] \o Portion(p, n[p]) ELSE told[p]]
      /\ reader' = [p \in Programs |-> IF p \in taken /\ (p \in stopped => p \in over) THEN 0 ELSE asks[p]]
      /\ reported' = reported \cup (over \ gone)
      /\ running' = running \ over /\ retiring' = gone \ over /\ stopping' = stopped \ over
  BY DEF Deliver, Ready, Silent
<1>2. closed' = closed /\ thread' = thread /\ hand' = hand /\ written' = written /\ host' = host
  OBVIOUS
<1>3. Typed /\ Truthful /\ Lasting /\ Open
  BY DEF Inv
<1>4. \A p \in taken : p \in Programs /\ n[p] = Count(p, asks, gone, stopped) /\ freed[p] = Freed(p, n[p]) /\ emptied[p] = Emptied(p, n[p])
  BY DEF Taken
<1>5. over \subseteq taken /\ taken \subseteq Programs /\ \A p \in over : p \in exit /\ emptied[p] = Len(box[p])
  BY <1>4 DEF Ends
<1>6. \A p \in Programs : p \in taken <=> Arrived(p) /\ (p \in Pull \ (gone \cup stopped) => asks[p] # 0)
  BY DEF Taken
<1> HIDE DEF taken, n, freed, emptied
<1>7. ASSUME NEW p \in taken
      PROVE  /\ Takes(p, n[p], emptied[p], freed[p])
             /\ p \notin Pull \ (gone \cup stopped) => offset[p] + n[p] = held[p]
  <2>1. p \in Programs /\ Place(p)
    BY <1>3, <1>5 DEF Open
  <2>2. n[p] \in Nat /\ offset[p] + n[p] <= held[p]
    BY <1>3, <1>4, <2>1, CountRight
  <2>3. p \notin Pull \ (gone \cup stopped) => offset[p] + n[p] = held[p]
    BY <1>3, <1>4, <2>1, CountRight
  <2>4. Takes(p, n[p], emptied[p], freed[p])
    BY <1>3, <1>4, <2>1, <2>2, TakesRight
  <2> QED  BY <2>3, <2>4
<1>8. ASSUME NEW p \in taken
      PROVE  /\ p \in Programs /\ n[p] \in Nat /\ emptied[p] \in Nat /\ freed[p] \in Nat
             /\ offset[p] + n[p] <= held[p] /\ freed[p] <= offset[p] + n[p] /\ freed[p] <= held[p]
             /\ box'[p] \in Seq(Chunk) /\ Len(box'[p]) = Len(box[p]) - emptied[p] /\ emptied[p] <= Len(box[p])
             /\ Total(box'[p]) = held[p] - freed[p]
             /\ Numbered(box'[p], Base(p) + freed[p], Writes[p])
             /\ emptied[p] = Len(box[p]) => box'[p] = <<>> /\ freed[p] = held[p]
             /\ p \notin Pull \ (gone \cup stopped) => box'[p] = <<>> /\ emptied[p] = Len(box[p])
             /\ offset'[p] = offset[p] + n[p] - freed[p] /\ held'[p] = held[p] - freed[p]
  <2>1. p \in Programs /\ Place(p) /\ held[p] = Total(box[p])
    BY <1>3, <1>5 DEF Open, Place
  <2>2. box'[p] = SubSeq(box[p], emptied[p] + 1, Len(box[p]))
        /\ offset'[p] = offset[p] + n[p] - freed[p] /\ held'[p] = held[p] - freed[p]
    BY <1>1, <2>1
  <2> DEFINE c == box[p]
             d == box'[p]
             e == emptied[p]
             f == freed[p]
             m == n[p]
             off == offset[p]
             b == Base(p)
             w == Writes[p]
  <2>3. m \in Nat /\ off + m <= held[p] /\ e = CutAt(c, off + m) /\ f = SizesOf(c)[e] /\ Split(c, off, m, b, w, d)
    BY <1>7, <2>2 DEF Takes
  <2>4. Len(c) \in Nat /\ held[p] = Total(c) /\ (p \notin Pull \ (gone \cup stopped) => off + m = Total(c))
    BY <1>3, <1>7, <2>1, Held
  <2> HIDE DEF c, d, e, f, m, off, b, w
  <2>5. /\ d \in Seq(Chunk) /\ e \in 0..Len(c) /\ Len(d) = Len(c) - e
        /\ f \in Nat /\ f <= off + m /\ f <= Total(c) /\ Total(d) = Total(c) - f
        /\ Numbered(d, b + f, w)
        /\ off + m = Total(c) => e = Len(c) /\ d = <<>>
        /\ e = Len(c) => d = <<>> /\ f = Total(c)
    BY <2>3 DEF Split
  <2>6. e \in Nat /\ e <= Len(c)
    BY <2>4, <2>5
  <2> QED  BY <2>1, <2>2, <2>3, <2>4, <2>5, <2>6 DEF c, d, e, f, m, off, b, w
<1>9. ASSUME NEW p \in Programs, p \notin taken
      PROVE  box'[p] = box[p] /\ offset'[p] = offset[p] /\ held'[p] = held[p] /\ told'[p] = told[p] /\ p \notin over
  BY <1>1, <1>5, <1>9
<1>10. /\ box' \in [Programs -> Seq(Chunk)] /\ offset' \in [Programs -> Nat] /\ held' \in [Programs -> Nat]
  <2>1. ASSUME NEW p \in Programs PROVE box'[p] \in Seq(Chunk) /\ offset'[p] \in Nat /\ held'[p] \in Nat
    <3>1. offset[p] \in Nat /\ held[p] \in Nat /\ box[p] \in Seq(Chunk)
      BY <1>3, Held
    <3>2. CASE p \in taken
      <4> DEFINE f == freed[p]
                 m == n[p]
      <4>1. f \in Nat /\ m \in Nat /\ f <= offset[p] + m /\ f <= held[p] /\ box'[p] \in Seq(Chunk)
            /\ offset'[p] = offset[p] + m - f /\ held'[p] = held[p] - f
        BY <1>8, <3>2
      <4> HIDE DEF f, m
      <4> QED  BY SMTT(30), <3>1, <4>1
    <3>3. CASE p \notin taken
      BY <1>9, <3>1, <3>3
    <3> QED  BY <3>2, <3>3
  <2>2. /\ box' = [p \in Programs |-> box'[p]] /\ offset' = [p \in Programs |-> offset'[p]]
        /\ held' = [p \in Programs |-> held'[p]]
    BY <1>1
  <2> QED  BY <2>1, <2>2
<1>11. Typed'
  <2>1. reader' \in [Programs -> {0} \cup Maxima]
    <3>1. \A p \in Programs : reader'[p] \in {0} \cup Maxima
      BY <1>1
    <3> HIDE DEF over
    <3> QED  BY <1>1, <3>1
  <2>2. DOMAIN told' = Programs
    BY <1>1
  <2>3. exit' \subseteq Programs /\ running' \subseteq Programs /\ retiring' \subseteq Programs
        /\ stopping' \subseteq Pull /\ asleep' \subseteq Programs /\ reported' \subseteq Programs
    BY <1>1, <1>3, <1>5 DEF Typed
  <2>4. posted' \in BOOLEAN
    BY <1>1
  <2> QED  BY <1>2, <1>3, <1>10, <2>1, <2>2, <2>3, <2>4 DEF Typed
<1>12. ASSUME NEW p \in Programs
       PROVE  /\ p \in over => p \in taken /\ p \in exit /\ emptied[p] = Len(box[p]) /\ box'[p] = <<>>
              /\ exit' = exit \ over /\ running' = running \ over
              /\ p \in retiring' \cup stopping' <=> p \in (gone \cup stopped) \ over
              /\ p \in reported' <=> p \in reported \/ p \in over \ gone
  <2>1. p \in over => p \in taken /\ p \in exit /\ emptied[p] = Len(box[p])
    BY <1>5
  <2> HIDE DEF over
  <2> QED  BY <1>1, <1>8, <2>1
<1> HIDE DEF over
<1>13. ASSUME NEW p \in Programs PROVE Stage(p)'
  <2>1. Stage(p)
    BY <1>3 DEF Open
  <2>2. box[p] = <<>> => box'[p] = <<>>
    <3> SUFFICES ASSUME box[p] = <<>> PROVE box'[p] = <<>>
      OBVIOUS
    <3>1. CASE p \in taken
      <4>1. emptied[p] \in Nat /\ emptied[p] <= Len(box[p]) /\ Len(box[p]) = 0
        BY <1>8, <3>1
      <4> DEFINE e == emptied[p]
                 l == Len(box[p])
      <4>2. e = l
        <5> HIDE DEF e, l
        <5> QED  BY <4>1 DEF e, l
      <4> QED  BY <1>8, <3>1, <4>2
    <3>2. CASE p \notin taken
      BY <1>9, <3>2
    <3> QED  BY <3>1, <3>2
  <2>3. p \in retiring' \cup stopping' => p \in running
    BY <1>12
  <2>4. p \in stopping' => p \in asked'
    BY <1>1
  <2>5. thread[p] = "none" => thread'[p] = "none"
    BY <1>2
  <2>6. CASE p \in over
    <3>1. p \in exit /\ thread[p] = "ended" /\ box'[p] = <<>> /\ p \notin exit' /\ p \notin running' /\ p \notin retiring' \cup stopping'
      BY <1>12, <2>1, <2>6 DEF Stage
    <3> QED  BY <1>2, <2>4, <3>1 DEF Stage
  <2>7. CASE p \notin over
    <3>1. (p \in exit' <=> p \in exit) /\ (p \in running' <=> p \in running) /\ (p \in reported' <=> p \in reported)
      BY <1>12, <2>7
    <3> QED  BY <1>2, <2>1, <2>2, <2>3, <2>4, <3>1 DEF Stage
  <2> QED  BY <2>6, <2>7
<1>14. ASSUME NEW p \in Programs PROVE Place(p)'
  <2>1. Place(p) /\ Stage(p) /\ held[p] \in Nat /\ offset[p] \in Nat /\ InHand(p) \in Nat /\ written[p] \in Nat
    BY <1>3, Held DEF Open
  <2>2. InHand(p)' = InHand(p)
    BY <1>2 DEF InHand
  <2>3. p \in running' \/ thread'[p] = "none" => (p \in running \/ thread[p] = "none") /\ p \notin over
    <3>1. p \in over => thread[p] = "ended"
      BY <1>12, <2>1 DEF Stage
    <3>2. p \in running' => p \in running /\ p \notin over
      BY <1>12
    <3> QED  BY <1>2, <3>1, <3>2
  <2>4. CASE p \notin taken
    <3>1. Base(p)' = Base(p)
      BY <1>2, <1>9, <2>2, <2>4 DEF Base
    <3>2. p \notin retiring' \cup stopping' /\ p \notin over => p \notin retiring \cup stopping
      BY <1>12
    <3> QED  BY <1>2, <1>9, <2>1, <2>3, <2>4, <3>1, <3>2 DEF Place
  <2>5. CASE p \in taken
    <3> DEFINE f == freed[p]
               m == n[p]
               b == Base(p)
               off == offset[p]
               h == held[p]
    <3>1. /\ f \in Nat /\ m \in Nat /\ off + m <= h /\ f <= off + m /\ f <= h
          /\ offset'[p] = off + m - f /\ held'[p] = h - f /\ Total(box'[p]) = h - f
          /\ Numbered(box'[p], b + f, Writes[p])
      BY <1>8, <2>5
    <3>2. /\ b \in Nat /\ h \in Nat /\ off \in Nat /\ off <= h
          /\ hand[p] # None => PieceAt(hand[p], b + h, Writes[p])
      BY <2>1 DEF Place
    <3>3. Base(p)' = b + f
      <4>1. Base(p)' = written[p] - InHand(p) - (h - f) /\ b = written[p] - InHand(p) - h
        BY <1>2, <2>2, <3>1 DEF Base
      <4> HIDE DEF b, h, f
      <4> QED  BY <2>1, <3>1, <3>2, <4>1
    <3>4. (b + f) + (h - f) = b + h /\ (b + f) + (off + m - f) = (b + off) + m /\ off + m - f <= h - f /\ b + f \in Nat
      <4> HIDE DEF b, h, f, off, m
      <4> QED  BY <3>1, <3>2
    <3>5. held'[p] = Total(box'[p]) /\ offset'[p] <= held'[p] /\ Base(p)' \in Nat /\ Numbered(box'[p], Base(p)', Writes[p])
      <4> HIDE DEF b, h, f, off, m
      <4> QED  BY <3>1, <3>3, <3>4
    <3>6. hand'[p] # None => PieceAt(hand'[p], Base(p)' + held'[p], Writes[p])
      <4> HIDE DEF b, h, f, off, m
      <4> QED  BY <1>2, <3>1, <3>2, <3>3, <3>4
    <3>7. ASSUME p \in running' \/ thread'[p] = "none", p \notin retiring' \cup stopping'
          PROVE  told'[p] = Story(Writes[p], Base(p)' + offset'[p])
      <4>1. p \notin gone \cup stopped /\ p \notin retiring \cup stopping
        BY <1>12, <2>3, <3>7
      <4>2. told[p] = Story(Writes[p], b + off)
        BY <2>1, <2>3, <3>7, <4>1 DEF Place
      <4>3. told'[p] = told[p] \o Portion(p, m)
        BY <1>1, <2>5, <4>1
      <4>4. Story(Writes[p], b + off) \o Portion(p, m) = Story(Writes[p], (b + off) + m)
        BY <1>3, <2>1, <3>1, PortionRight
      <4>5. Base(p)' + offset'[p] = (b + off) + m
        <5> HIDE DEF b, f, off, m
        <5> QED  BY <3>1, <3>3, <3>4
      <4> HIDE DEF b, f, off, m
      <4> QED  BY <4>2, <4>3, <4>4, <4>5
    <3>8. p \in Pull => held'[p] <= MaxPull /\ Len(box'[p]) <= MaxPullChunks
      <4> SUFFICES ASSUME p \in Pull PROVE held'[p] <= MaxPull /\ Len(box'[p]) <= MaxPullChunks
        OBVIOUS
      <4> DEFINE l == Len(box[p])
                 e == emptied[p]
                 r == Len(box'[p])
      <4>1. h <= MaxPull /\ l <= MaxPullChunks
        BY <2>1 DEF Place
      <4>2. r = l - e /\ e \in Nat /\ l \in Nat
        BY <1>3, <1>8, <2>5, Held
      <4> HIDE DEF h, f, l, e, r
      <4>3. h - f <= MaxPull /\ r <= MaxPullChunks
        BY <3>1, <3>2, <4>1, <4>2, Bounds
      <4> QED  BY <3>1, <4>3 DEF r
    <3> QED  BY <3>5, <3>6, <3>7, <3>8 DEF Place
  <2> QED  BY <2>4, <2>5
<1>15. Truthful'
  <2> SUFFICES ASSUME NEW p \in Programs PROVE \E k \in Nat : told'[p] = Story(Writes[p], k)
    BY DEF Truthful
  <2>1. CASE p \in taken \ (gone \cup stopped)
    <3>1. p \in running
      <4>1. Stage(p) /\ Arrived(p)
        BY <1>3, <1>6, <2>1 DEF Open
      <4> QED  BY <1>3, <4>1 DEF Stage, Arrived, Typed
    <3>2. CASE p \in over
      <4>1. Place(p) /\ n[p] \in Nat /\ offset[p] + n[p] <= held[p]
        BY <1>3, <1>8, <2>1 DEF Open
      <4>2. told[p] = Story(Writes[p], Base(p) + offset[p])
        BY <2>1, <3>1, <4>1 DEF Place
      <4>3. told'[p] = Story(Writes[p], (Base(p) + offset[p]) + n[p])
        BY <1>1, <1>3, <2>1, <4>1, <4>2, PortionRight
      <4>4. (Base(p) + offset[p]) + n[p] \in Nat
        BY <1>3, <4>1, Held DEF Place
      <4> QED  BY <4>3, <4>4
    <3>3. CASE p \notin over
      <4>1. p \in running' /\ p \notin retiring' \cup stopping' /\ Place(p)'
        BY <1>12, <1>14, <2>1, <3>1, <3>3
      <4>2. told'[p] = Story(Writes[p], Base(p)' + offset'[p])
        BY <4>1 DEF Place
      <4>3. Base(p)' \in Nat /\ offset'[p] \in Nat
        BY <1>10, <4>1 DEF Place
      <4> QED  BY <4>2, <4>3
    <3> QED  BY <3>2, <3>3
  <2>2. CASE p \notin taken \ (gone \cup stopped)
    BY <1>1, <1>3, <2>2 DEF Truthful
  <2> QED  BY <2>1, <2>2
<1>16. Lasting'
  <2>1. \A p \in reported' : thread'[p] = "ended"
    <3> SUFFICES ASSUME NEW p \in reported' PROVE thread[p] = "ended"
      BY <1>2
    <3>1. CASE p \in reported
      BY <1>3, <3>1 DEF Lasting
    <3>2. CASE p \notin reported
      <4>1. p \in over /\ p \in Programs
        BY <1>1, <1>11, <3>2 DEF Typed
      <4>2. Stage(p) /\ p \in exit
        BY <1>3, <1>12, <4>1 DEF Open
      <4> QED  BY <4>2 DEF Stage
    <3> QED  BY <3>1, <3>2
  <2>2. EndLast'
    <3> SUFFICES ASSUME NEW p \in reported', p \notin Pull \cap asked' PROVE Len(told'[p]) = written'[p]
      BY DEF EndLast
    <3>1. p \in Programs
      BY <1>11 DEF Typed
    <3>2. Stage(p) /\ Place(p)
      BY <1>3, <3>1 DEF Open
    <3>3. CASE p \in reported
      <4>1. Len(told[p]) = written[p]
        <5>1. p \in reported \ (Pull \cap asked)
          BY <3>3
        <5> QED  BY <1>3, <5>1 DEF Lasting, EndLast
      <4>2. p \notin running /\ thread[p] = "ended"
        BY <1>3, <3>2, <3>3 DEF Stage, Lasting
      <4>3. p \notin exit /\ box[p] = <<>>
        BY <3>2, <4>2 DEF Stage
      <4>4. p \notin taken
        BY <1>6, <3>1, <4>3 DEF Arrived
      <4>5. told'[p] = told[p]
        BY <1>9, <3>1, <4>4
      <4> QED  BY <1>2, <4>1, <4>5
    <3>4. CASE p \notin reported
      <4>1. p \in over /\ p \notin gone
        BY <1>1, <3>4
      <4>2. p \notin stopped /\ p \in taken /\ p \in exit /\ emptied[p] = Len(box[p])
        BY <1>12, <3>1, <4>1
      <4>3. thread[p] = "ended" /\ p \in running /\ p \notin retiring \cup stopping
        BY <3>2, <4>1, <4>2 DEF Stage
      <4>4. hand[p] = None
        BY <1>3, <3>1, <4>3 DEF Lasting
      <4> DEFINE b == Base(p)
                 off == offset[p]
                 m == n[p]
                 h == held[p]
      <4>5. m \in Nat /\ off + m <= h /\ freed[p] <= off + m /\ freed[p] = h
        BY <1>8, <4>2
      <4>6. told[p] = Story(Writes[p], b + off) /\ b \in Nat /\ off \in Nat /\ h \in Nat
        BY <1>3, <3>1, <3>2, <4>3, Held DEF Place
      <4>7. told'[p] = Story(Writes[p], (b + off) + m)
        <5>1. told'[p] = told[p] \o Portion(p, m)
          BY <1>1, <3>1, <4>1, <4>2
        <5> QED  BY <1>3, <3>1, <3>2, <4>5, <4>6, <5>1, PortionRight
      <4>8. b + h = written[p]
        <5>1. b = written[p] - 0 - h /\ written[p] \in Nat
          BY <1>3, <3>1, <4>4, Held DEF Base, InHand
        <5> HIDE DEF b, h
        <5> QED  BY <4>6, <5>1
      <4>9. (b + off) + m = written[p]
        <5> HIDE DEF b, h, off, m
        <5> QED  BY <4>5, <4>6, <4>8
      <4>10. told'[p] = Story(Writes[p], written[p]) /\ written[p] \in Nat
        <5>1. written[p] \in Nat
          BY <1>3, <3>1, Held
        <5> HIDE DEF b, off, m
        <5> QED  BY <4>7, <4>9, <5>1
      <4>11. \A w, k : k \in Nat => Len(Story(w, k)) = k
        BY StoryLength
      <4> QED  BY <1>2, <4>10, <4>11
    <3> QED  BY <3>3, <3>4
  <2> QED  BY <1>1, <1>2, <1>3, <2>1, <2>2 DEF Lasting
<1>17. Bounded'
  <2>1. \A p \in Programs : Len(box[p]) \in Nat /\ Len(box'[p]) \in Nat
    <3>1. \A p \in Programs : box'[p] \in Seq(Chunk)
      BY <1>10
    <3> QED  BY <1>3, <3>1, Held
  <2>2. held \in [Programs -> Int] /\ held' \in [Programs -> Int]
    BY <1>3, <1>10 DEF Typed
  <2>3. Lengths \in [Programs -> Int] /\ Lengths' \in [Programs -> Int]
    BY <2>1 DEF Lengths
  <2>4. Lengths' \in [Programs -> Nat] /\ held' \in [Programs -> Nat]
    BY <1>10, <2>1 DEF Lengths
  <2>5. freed \in [taken -> Nat] /\ emptied \in [taken -> Nat]
    <3>1. \A p \in taken : freed[p] \in Nat /\ emptied[p] \in Nat
      BY <1>8
    <3>2. freed = [p \in taken |-> freed[p]] /\ emptied = [p \in taken |-> emptied[p]]
      BY DEF freed, emptied
    <3> QED  BY <3>1, <3>2
  <2>6. freed \in [taken -> Int] /\ emptied \in [taken -> Int]
    BY <2>5
  <2>7. Lessened(held', held, Programs, freed, taken)
    <3>1. \A p \in Programs : held'[p] = IF p \in taken THEN held[p] - freed[p] ELSE held[p]
      BY <1>1
    <3> QED  BY <3>1 DEF Lessened
  <2>8. Lessened(Lengths', Lengths, Programs, emptied, taken)
    <3>1. ASSUME NEW p \in Programs PROVE Len(box'[p]) = IF p \in taken THEN Len(box[p]) - emptied[p] ELSE Len(box[p])
      <4>1. CASE p \in taken
        BY <1>8, <4>1
      <4>2. CASE p \notin taken
        BY <1>9, <4>2
      <4> QED  BY <4>1, <4>2
    <3>2. \A p \in Programs : Lengths'[p] = Len(box'[p]) /\ Lengths[p] = Len(box[p])
      BY DEF Lengths
    <3> QED  BY <3>1, <3>2 DEF Lessened
  <2>9. Sum(held') = Sum(held) - Sum(freed)
    <3> DEFINE g == held'
    <3>1. IsFiniteSet(Programs) /\ taken \in SUBSET Programs
      BY <1>5, Bounds
    <3>2. g \in [Programs -> Int] /\ Lessened(g, held, Programs, freed, taken)
      BY <2>2, <2>7
    <3> HIDE DEF g
    <3>3. Sum(g) = Sum(held) - Sum(freed)
      BY <2>2, <2>6, <3>1, <3>2, SumLess
    <3> QED  BY <3>3 DEF g
  <2>10. Sum(Lengths') = Sum(Lengths) - Sum(emptied)
    <3> DEFINE g == Lengths'
    <3>1. IsFiniteSet(Programs) /\ taken \in SUBSET Programs
      BY <1>5, Bounds
    <3>2. g \in [Programs -> Int] /\ Lessened(g, Lengths, Programs, emptied, taken)
      BY <2>3, <2>8
    <3> HIDE DEF g
    <3>3. Sum(g) = Sum(Lengths) - Sum(emptied)
      BY <2>3, <2>6, <3>1, <3>2, SumLess
    <3> QED  BY <3>3 DEF g
  <2>11. IsFiniteSet(taken)
    BY <1>5, Bounds, FS_Subset
  <2>12. Sum(freed) \in Nat /\ Sum(emptied) \in Nat
    BY <2>5, <2>11, SumNat
  <2>13. Sum(held') \in Nat /\ Sum(Lengths') \in Nat
    BY <2>4, Bounds, SumNat
  <2>14. Sum(held) \in Int /\ Sum(Lengths) \in Int
    BY <1>5, <2>2, <2>3, <2>6, <2>7, <2>8, Bounds, SumLess
  <2>15. bytes = Sum(held) /\ bytes <= MaxBytes /\ chunks = Sum(Lengths) /\ chunks <= MaxChunks
    BY <1>3 DEF Open, Bounded
  <2>16. bytes' = bytes - Sum(freed) /\ chunks' = chunks - Sum(emptied)
    BY <1>1
  <2>17. bytes' = Sum(held') /\ chunks' = Sum(Lengths')
    BY <2>9, <2>10, <2>15, <2>16
  <2>18. bytes' <= MaxBytes /\ chunks' <= MaxChunks
    BY <2>12, <2>14, <2>15, <2>16, Bounds
  <2> QED  BY <2>17, <2>18 DEF Bounded
<1>18. Woken'
  <2>1. Taken(reader, retiring, stopping)' = {}
    <3> SUFFICES ASSUME NEW p \in Programs, Arrived(p)',
                        p \in Pull \ (retiring' \cup stopping') => reader'[p] # 0
                 PROVE  FALSE
      BY DEF Taken
    <3>1. CASE p \notin taken
      <4>1. Arrived(p)
        BY <1>9, <1>12, <3>1 DEF Arrived
      <4>2. p \in Pull \ (gone \cup stopped) /\ asks[p] = 0
        BY <1>6, <3>1, <4>1
      <4>3. p \notin retiring' \cup stopping' /\ reader'[p] = 0
        BY <1>1, <1>12, <3>1, <4>2
      <4> QED  BY <4>2, <4>3
    <3>2. CASE p \in taken /\ p \in Pull \ (gone \cup stopped)
      <4>1. p \notin retiring' \cup stopping' /\ reader'[p] = 0
        BY <1>1, <1>12, <3>2
      <4> QED  BY <3>2, <4>1
    <3>3. CASE p \in taken /\ p \notin Pull \ (gone \cup stopped)
      <4>1. box'[p] = <<>> /\ emptied[p] = Len(box[p])
        BY <1>8, <3>3
      <4>2. p \notin exit'
        <5> SUFFICES ASSUME p \in exit PROVE p \in over
          BY <1>12
        <5> QED  BY <1>4, <3>3, <4>1 DEF over, Ends
      <4> QED  BY <4>1, <4>2 DEF Arrived
    <3> QED  BY <3>1, <3>2, <3>3
  <2> QED  BY <1>1, <2>1 DEF Woken
<1> QED  BY <1>2, <1>11, <1>13, <1>14, <1>15, <1>16, <1>17, <1>18 DEF Inv, Open

-----------------------------------------------------------------------------
(***************************************************************************)
(* The functions of the main thread that deliver.                          *)
(***************************************************************************)

LEMMA Marks ==
  ASSUME Inv, host = "open"
  PROVE  /\ reader \in [Programs -> {0} \cup Maxima] /\ retiring \subseteq running
         /\ stopping \subseteq running \cap Pull /\ stopping \subseteq asked
         /\ running \subseteq Programs /\ tasks \in Nat
<1>1. Typed /\ \A p \in Programs : Stage(p)
  BY DEF Inv, Open
<1>2. reader \in [Programs -> {0} \cup Maxima] /\ running \subseteq Programs /\ tasks \in Nat
      /\ retiring \subseteq Programs /\ stopping \subseteq Pull /\ Pull \subseteq Programs
  BY <1>1, Bounds DEF Typed
<1>3. \A p \in Programs : p \in retiring \cup stopping => p \in running
  BY <1>1 DEF Stage
<1>4. \A p \in Programs : p \in stopping => p \in asked
  BY <1>1 DEF Stage
<1> QED  BY <1>2, <1>3, <1>4

LEMMA RunDeliveryInv ==
  ASSUME Inv, RunDelivery
  PROVE  Inv'
<1>1. /\ host = "open" /\ tasks > 0 /\ tasks' = tasks - 1
      /\ Deliver(reader, retiring, stopping)
      /\ closed' = closed /\ thread' = thread /\ hand' = hand /\ asked' = asked /\ written' = written /\ host' = host
  BY DEF RunDelivery
<1>2. tasks' \in Nat
  BY <1>1, Marks
<1> QED  BY <1>1, <1>2, Marks, DeliverInv

LEMMA ReadInv ==
  ASSUME Inv, NEW p \in Programs, NEW maximum \in Maxima, Read(p, maximum)
  PROVE  Inv'
<1> DEFINE asks == [reader EXCEPT ![p] = maximum]
<1>1. /\ host = "open" /\ tasks' = tasks
      /\ Deliver(asks, retiring, stopping)
      /\ closed' = closed /\ thread' = thread /\ hand' = hand /\ asked' = asked /\ written' = written /\ host' = host
  BY DEF Read, Call
<1>2. asks \in [Programs -> {0} \cup Maxima]
  BY <1>1, Marks
<1> HIDE DEF asks
<1> QED  BY <1>1, <1>2, Marks, DeliverInv

LEMMA StopInv ==
  ASSUME Inv, NEW p \in Programs, Stop(p)
  PROVE  Inv'
<1> DEFINE stopped == stopping \cup ({p} \cap Pull)
<1>1. /\ host = "open" /\ tasks' = tasks /\ p \in running /\ asked' = asked \cup {p}
      /\ Deliver(reader, retiring, stopped)
      /\ closed' = closed /\ thread' = thread /\ hand' = hand /\ written' = written /\ host' = host
  BY DEF Stop, Call
<1>2. stopping \subseteq stopped /\ stopped \subseteq running \cap Pull /\ asked \subseteq asked' /\ stopped \subseteq asked'
  BY <1>1, Marks
<1> HIDE DEF stopped
<1> QED  BY <1>1, <1>2, Marks, DeliverInv

LEMMA ForgetInv ==
  ASSUME Inv, NEW plugin \in Plugins, Forget(plugin)
  PROVE  Inv'
<1> DEFINE these == {p \in running : Owner[p] = plugin}
           asks == [p \in Programs |-> IF p \in these THEN 0 ELSE reader[p]]
           gone == retiring \cup these
<1>1. /\ host = "open" /\ tasks' = tasks /\ asked' = asked \cup these
      /\ Deliver(asks, gone, stopping)
      /\ closed' = closed /\ thread' = thread /\ hand' = hand /\ written' = written /\ host' = host
  BY DEF Forget, Call
<1>2. asks \in [Programs -> {0} \cup Maxima]
  <2>1. \A p \in Programs : asks[p] \in {0} \cup Maxima
    BY <1>1, Marks
  <2> HIDE DEF these
  <2> QED  BY <2>1
<1>3. retiring \subseteq gone /\ gone \subseteq running
  BY <1>1, Marks
<1>4. asked \subseteq asked' /\ stopping \subseteq asked'
  BY <1>1, Marks
<1> HIDE DEF asks, gone, these
<1> QED  BY <1>1, <1>2, <1>3, <1>4, Marks, DeliverInv

LEMMA NextInv ==
  ASSUME Inv, [Next]_vars
  PROVE  Inv'
<1>1. CASE UNCHANGED vars
  BY <1>1, StutterInv
<1>2. CASE Next
  <2>1. CASE \E p \in Programs : \E n \in 1..MaxPiece : ReadStream(p, n)
    BY <2>1, ReadStreamInv
  <2>2. CASE \E p \in Programs : Sleep(p)
    BY <2>2, SleepInv
  <2>3. CASE \E p \in Programs : Put(p)
    BY <2>3, PutInv
  <2>4. CASE \E p \in Programs : Drop(p)
    BY <2>4, DropInv
  <2>5. CASE \E p \in Programs : Exited(p)
    BY <2>5, ExitedInv
  <2>6. CASE \E p \in Programs : Start(p)
    BY <2>6, StartInv
  <2>7. CASE \E p \in Programs : Stop(p)
    BY <2>7, StopInv
  <2>8. CASE \E p \in Programs : \E maximum \in Maxima : Read(p, maximum)
    BY <2>8, ReadInv
  <2>9. CASE \E plugin \in Plugins : Forget(plugin)
    BY <2>9, ForgetInv
  <2>10. CASE RunDelivery
    BY <2>10, RunDeliveryInv
  <2>11. CASE Close
    BY <2>11, CloseInv
  <2>12. CASE Closed
    BY <2>12, ClosedInv
  <2> QED  BY <1>2, <2>1, <2>2, <2>3, <2>4, <2>5, <2>6, <2>7, <2>8, <2>9, <2>10, <2>11, <2>12 DEF Next
<1> QED  BY <1>1, <1>2

\* For any programs, whatever they write and whatever the bounds are, the invariant
\* holds in every state ProcessHost and the serving threads reach.
THEOREM MailboxInvariance == Spec => []Inv
<1>1. Init => Inv
  BY InitInv
<1>2. Inv /\ [Next]_vars => Inv'
  BY NextInv
<1> QED  BY <1>1, <1>2, PTL DEF Spec

LEMMA InvDelivers ==
  ASSUME Inv
  PROVE  Delivered
<1>1. Typed /\ Truthful /\ Lasting
  BY DEF Inv
<1>2. TypeOK
  <2>1. ASSUME NEW p \in Programs, NEW i \in 1..Len(box[p]) PROVE box[p][i].stream \in Streams /\ box[p][i].units # <<>>
    <3>1. box[p][i] \in Chunk
      BY <1>1, Held
    <3> QED  BY <3>1, ChunkUnits
  <2>2. asleep \subseteq {p \in Programs : hand[p] # None}
    BY <1>1 DEF Typed, Lasting
  <2> QED  BY <1>1, <2>1, <2>2 DEF Typed, TypeOK
<1>3. Accounted
  <2> SUFFICES ASSUME host = "open"
               PROVE  /\ \A p \in Programs :
                          /\ held[p] = UpTo(p)[Len(box[p])] /\ offset[p] \in 0..held[p]
                          /\ p \in Pull => held[p] <= MaxPull /\ Len(box[p]) <= MaxPullChunks
                      /\ bytes = Sum(held) /\ bytes <= MaxBytes
                      /\ chunks = Sum([p \in Programs |-> Len(box[p])]) /\ chunks <= MaxChunks
    BY DEF Accounted
  <2>1. Bounded /\ \A p \in Programs : Place(p)
    BY DEF Inv, Open
  <2>2. ASSUME NEW p \in Programs
        PROVE  /\ held[p] = UpTo(p)[Len(box[p])] /\ offset[p] \in 0..held[p]
               /\ p \in Pull => held[p] <= MaxPull /\ Len(box[p]) <= MaxPullChunks
    <3>1. UpTo(p) = SizesOf(box[p]) /\ held[p] \in Nat /\ offset[p] \in Nat
      BY <1>1, Held
    <3>2. /\ held[p] = Total(box[p]) /\ offset[p] <= held[p]
          /\ p \in Pull => held[p] <= MaxPull /\ Len(box[p]) <= MaxPullChunks
      BY <2>1 DEF Place
    <3>3. held[p] = UpTo(p)[Len(box[p])]
      BY <3>1, <3>2 DEF Total
    <3> QED  BY <3>1, <3>2, <3>3
  <2> QED  BY <2>1, <2>2 DEF Bounded, Lengths
<1>4. InOrder
  <2> SUFFICES ASSUME NEW p \in Programs, NEW i \in 1..Len(told[p]) PROVE told[p][i] = <<Writes[p][i], i>>
    BY DEF InOrder
  <2>1. PICK k \in Nat : told[p] = Story(Writes[p], k)
    BY <1>1 DEF Truthful
  <2>2. Len(told[p]) = k
    BY <2>1, StoryLength
  <2> QED  BY <2>1, <2>2 DEF Story
<1>5. EndLast
  BY <1>1 DEF Lasting
<1>6. NoLostWake
  <2> SUFFICES ASSUME host = "open"
               PROVE  /\ Taken(reader, retiring, stopping) # {} => tasks > 0
                      /\ \A p \in asleep : ~Fits(p)
    BY DEF NoLostWake
  <2> QED  BY DEF Inv, Open, Woken
<1> QED  BY <1>2, <1>3, <1>4, <1>5, <1>6 DEF Delivered

\* For any programs, whatever they write and whatever the bounds are: the mailbox of
\* ProcessHost.cpp counts what it holds and keeps to its bounds, a plugin is told what
\* its program wrote, each byte once and in order, the end comes after the last of it,
\* and neither what waits for delivery nor a thread whose piece fits is forgotten.
THEOREM OutputDelivered == Spec => []Delivered
<1>1. Inv => Delivered
  BY InvDelivers
<1> QED  BY <1>1, MailboxInvariance, PTL
=============================================================================
