------------------------ MODULE PluginLifecycle_proofs ------------------------
(***************************************************************************)
(* Proofs about the order of plugins and about their lifecycle.  First,    *)
(* for every graph of dependencies, the search of PluginOrder ends, orders *)
(* each readable plugin once and its dependencies first, and names the     *)
(* plugins of cycles.  Then, on those results, what PluginLifecycle does   *)
(* with that order, for any plugins, any graph of their dependencies, any  *)
(* number of presses and any failing plugins.                              *)
(***************************************************************************)
EXTENDS PluginLifecycle, PluginGraphs, FiniteSetTheorems, SequenceTheorems, TLAPS

-----------------------------------------------------------------------------
(***************************************************************************)
(* Counting.  The induction theorems of the library take a predicate,      *)
(* which cannot be instantiated here; a set of numbers can.                *)
(***************************************************************************)

\* Every set of numbers that is not empty has a least one.
LEMMA LeastNumber ==
  ASSUME NEW T \in SUBSET Nat, T # {}
  PROVE  \E n \in T : \A m \in T : n <= m
<1> DEFINE Below(n) == 0..n
           Intervals == {Below(n) : n \in T}
<1>1. IsWellFoundedOn(StrictSubsetOrdering(Nat), FiniteSubsetsOf(Nat))
  BY FS_StrictSubsetOrderingWellFounded
<1>2. Intervals \subseteq FiniteSubsetsOf(Nat)
  <2> SUFFICES ASSUME NEW n \in T PROVE Below(n) \in FiniteSubsetsOf(Nat)
    OBVIOUS
  <2>1. n \in Nat /\ n \in Int /\ 0 \in Int
    OBVIOUS
  <2>2. IsFiniteSet(0..n)
    BY <2>1, FS_Interval
  <2>3. 0..n \in SUBSET Nat
    BY <2>1
  <2> QED  BY <2>2, <2>3 DEF FiniteSubsetsOf
<1>3. Intervals # {}
  OBVIOUS
<1>4. PICK x \in Intervals : \A y \in Intervals : <<y, x>> \notin StrictSubsetOrdering(Nat)
  <2> HIDE DEF Intervals
  <2> QED  BY <1>1, <1>2, <1>3, WFMin
<1>5. PICK n \in T : x = Below(n)
  BY <1>4
<1>6. ASSUME NEW m \in T PROVE n <= m
  <2> SUFFICES ASSUME m < n PROVE FALSE
    OBVIOUS
  <2>1. Below(m) \subseteq Below(n) /\ Below(m) # Below(n)
    OBVIOUS
  <2>2. Below(m) \in SUBSET Nat /\ Below(n) \in SUBSET Nat
    OBVIOUS
  <2>3. <<Below(m), Below(n)>> \in StrictSubsetOrdering(Nat)
    BY <2>1, <2>2 DEF StrictSubsetOrdering
  <2>4. Below(m) \in Intervals
    OBVIOUS
  <2> QED  BY <1>4, <1>5, <2>3, <2>4
<1> QED  BY <1>6

\* What holds of 0, and of each number after one of which it holds, holds up to n.
LEMMA Counting ==
  ASSUME NEW n \in Nat, NEW T, 0 \in T,
         \A k \in 0..n : k < n /\ k \in T => k + 1 \in T
  PROVE  \A k \in 0..n : k \in T
<1> DEFINE Bad == {k \in 0..n : k \notin T}
<1> SUFFICES ASSUME Bad # {} PROVE FALSE
  OBVIOUS
<1>1. Bad \in SUBSET Nat
  OBVIOUS
<1>2. PICK k \in Bad : \A m \in Bad : k <= m
  <2> HIDE DEF Bad
  <2> QED  BY <1>1, LeastNumber
<1>3. k # 0 /\ k \in 0..n
  OBVIOUS
<1>4. k - 1 \in 0..n /\ k - 1 < n /\ k - 1 \notin Bad
  BY <1>2, <1>3
<1>5. k - 1 \in T
  BY <1>4
<1> QED  BY <1>3, <1>4, <1>5

-----------------------------------------------------------------------------
(***************************************************************************)
(* Folds over a sequence.  FoldLeft is a function on the sets of indices   *)
(* of its sequence, which takes the largest first; it is what the steps    *)
(* below compute one after the other.                                      *)
(***************************************************************************)

\* The largest of the first k indices.
LEMMA MaxOfFirst ==
  ASSUME NEW k \in Nat, k # 0
  PROVE  Max(1..k) = k /\ (1..k) \ {k} = 1..(k - 1)
<1>1. k \in 1..k /\ \A y \in 1..k : k >= y
  OBVIOUS
<1>2. \A x \in 1..k : (\A y \in 1..k : x >= y) => x = k
  OBVIOUS
<1>3. Max(1..k) = k
  BY <1>1, <1>2 DEF Max
<1> QED  BY <1>3

\* A set of indices that holds the last one.
LEMMA MaxWithLast ==
  ASSUME NEW k \in Nat, NEW s \in SUBSET (1..k), k \in s
  PROVE  Max(s) = k
<1>1. \A y \in s : k >= y
  OBVIOUS
<1>2. \A x \in s : (\A y \in s : x >= y) => x = k
  OBVIOUS
<1> QED  BY <1>1, <1>2 DEF Max

\* A bounded set of numbers has its largest in it.
LEMMA LargestIn ==
  ASSUME NEW n \in Nat, NEW s \in SUBSET (0..n), s # {}
  PROVE  Max(s) \in s /\ \A y \in s : Max(s) >= y
<1> DEFINE T == {m \in 0..n : \A y \in s : y <= m}
<1>1. T \in SUBSET Nat /\ n \in T
  OBVIOUS
<1>2. PICK m \in T : \A l \in T : m <= l
  <2> HIDE DEF T
  <2> QED  BY <1>1, LeastNumber
<1>3. m \in 0..n /\ \A y \in s : y <= m
  OBVIOUS
<1>4. m \in s
  <2> SUFFICES ASSUME m \notin s PROVE FALSE
    OBVIOUS
  <2>1. m # 0
    <3>1. PICK y \in s : TRUE
      OBVIOUS
    <3>2. y \in 0..n /\ y <= m /\ y # m
      BY <1>3
    <3> QED  BY <3>2
  <2>2. \A y \in s : y <= m - 1
    BY <1>3
  <2>3. m - 1 \in T
    BY <2>1, <2>2, <1>3
  <2> HIDE DEF T
  <2> QED  BY <1>2, <2>3, <1>3
<1>5. \E x \in s : \A y \in s : x >= y
  BY <1>3, <1>4
<1> QED  BY <1>5 DEF Max

\* The function a fold is defined by.
Folds(f, base, n, step) ==
    \A s \in SUBSET (1..n) :
        f[s] = IF s = {} THEN base ELSE step[<<Max(s), f[s \ {Max(s)}]>>]

\* It exists, whatever the step.
LEMMA FoldExists ==
  ASSUME NEW S, NEW base \in S, NEW n \in Nat, NEW step \in [(1..n) \X S -> S]
  PROVE  \E f \in [SUBSET (1..n) -> S] : Folds(f, base, n, step)
<1> DEFINE Is(f, k) == Folds(f, base, k, step)
           T == {k \in 0..n : \E f \in [SUBSET (1..k) -> S] : Is(f, k)}
<1>1. 0 \in T
  <2> DEFINE f == [s \in SUBSET (1..0) |-> base]
  <2>1. SUBSET (1..0) = {{}}
    OBVIOUS
  <2>2. f \in [SUBSET (1..0) -> S]
    OBVIOUS
  <2>3. Is(f, 0)
    BY <2>1 DEF Folds
  <2>4. 0 \in 0..n
    OBVIOUS
  <2> HIDE DEF Is, f
  <2> QED  BY <2>2, <2>3, <2>4
<1>2. ASSUME NEW k \in 0..n, k < n, k \in T PROVE k + 1 \in T
  <2>1. PICK f \in [SUBSET (1..k) -> S] : Is(f, k)
    BY <1>2
  <2> DEFINE g == [s \in SUBSET (1..(k + 1)) |->
                      IF k + 1 \in s THEN step[<<k + 1, f[s \ {k + 1}]>>] ELSE f[s]]
  <2>2. k \in Nat /\ k + 1 \in Nat /\ k + 1 \in 1..n /\ k + 1 \in 0..n
    BY <1>2
  <2>3. ASSUME NEW s \in SUBSET (1..(k + 1)), k + 1 \in s
        PROVE  /\ s \ {k + 1} \in SUBSET (1..k) /\ s # {} /\ Max(s) = k + 1
               /\ g[s] = step[<<k + 1, f[s \ {k + 1}]>>] /\ g[s] \in S
               /\ g[s \ {k + 1}] = f[s \ {k + 1}]
    <3>1. s \ {k + 1} \in SUBSET (1..k) /\ s \ {k + 1} \in SUBSET (1..(k + 1))
      BY <2>2
    <3>2. Max(s) = k + 1
      BY <2>2, <2>3, MaxWithLast
    <3>3. g[s] = step[<<k + 1, f[s \ {k + 1}]>>]
      BY <2>3
    <3>4. g[s \ {k + 1}] = f[s \ {k + 1}]
      BY <3>1
    <3>5. f[s \ {k + 1}] \in S
      BY <3>1
    <3>6. <<k + 1, f[s \ {k + 1}]>> \in (1..n) \X S
      BY <2>2, <3>5
    <3>7. step[<<k + 1, f[s \ {k + 1}]>>] \in S
      BY <3>6
    <3> QED  BY <2>3, <3>1, <3>2, <3>3, <3>4, <3>7
  <2>4. ASSUME NEW s \in SUBSET (1..(k + 1)), k + 1 \notin s
        PROVE  s \in SUBSET (1..k) /\ g[s] = f[s] /\ g[s] \in S
    <3>1. s \in SUBSET (1..k)
      BY <2>2, <2>4
    <3>2. g[s] = f[s]
      BY <2>4
    <3>3. f[s] \in S
      BY <3>1
    <3> QED  BY <3>1, <3>2, <3>3
  <2>5. g \in [SUBSET (1..(k + 1)) -> S]
    <3>1. \A s \in SUBSET (1..(k + 1)) : g[s] \in S
      BY <2>3, <2>4
    <3> QED  BY <3>1
  <2>6. ASSUME NEW s \in SUBSET (1..(k + 1))
        PROVE  g[s] = IF s = {} THEN base ELSE step[<<Max(s), g[s \ {Max(s)}]>>]
    <3>1. CASE k + 1 \in s
      <4> HIDE DEF g
      <4> QED  BY <3>1, <2>3
    <3>2. CASE k + 1 \notin s
      <4>1. s \in SUBSET (1..k) /\ g[s] = f[s]
        BY <3>2, <2>4
      <4>2. f[s] = IF s = {} THEN base ELSE step[<<Max(s), f[s \ {Max(s)}]>>]
        BY <2>1, <4>1 DEF Folds
      <4>3. s \ {Max(s)} \in SUBSET (1..(k + 1)) /\ k + 1 \notin s \ {Max(s)}
        BY <3>2
      <4>4. g[s \ {Max(s)}] = f[s \ {Max(s)}]
        BY <4>3, <2>4
      <4> HIDE DEF g
      <4> QED  BY <4>1, <4>2, <4>4
    <3> QED  BY <3>1, <3>2
  <2>7. Is(g, k + 1)
    <3> HIDE DEF g
    <3> QED  BY <2>6 DEF Folds
  <2> HIDE DEF g, Is
  <2> QED  BY <2>2, <2>5, <2>7
<1> HIDE DEF Is
<1>3. \A k \in 0..n : k \in T
  <2> HIDE DEF T
  <2> QED  BY <1>1, <1>2, Counting
<1> HIDE DEF T
<1>4. n \in T
  BY <1>3
<1>5. PICK f \in [SUBSET (1..n) -> S] : Is(f, n)
  BY <1>4 DEF T
<1> QED  BY <1>5 DEF Is

\* What Among computes, one member of the sequence after the other.
LEMMA AmongSteps ==
  ASSUME NEW A, NEW seq \in Seq(A), NEW set
  PROVE  \E kept : /\ kept[0] = <<>>
                   /\ \A k \in 1..Len(seq) :
                        kept[k] = IF seq[k] \in set THEN Append(kept[k - 1], seq[k]) ELSE kept[k - 1]
                   /\ Among(seq, set) = kept[Len(seq)]
<1> DEFINE n == Len(seq)
           Following(m, kept) == IF seq[m] \in set THEN Append(kept, seq[m]) ELSE kept
           Is(f) == f = [s \in SUBSET (1..n) |->
                            IF s = {} THEN <<>> ELSE Following(Max(s), f[s \ {Max(s)}])]
           step == [p \in (1..n) \X Seq(A) |-> Following(p[1], p[2])]
           run == CHOOSE f : Is(f)
<1>1. n \in Nat /\ DOMAIN seq = 1..n /\ <<>> \in Seq(A)
  OBVIOUS
<1>2. step \in [(1..n) \X Seq(A) -> Seq(A)]
  <2>1. ASSUME NEW p \in (1..n) \X Seq(A) PROVE Following(p[1], p[2]) \in Seq(A)
    <3>1. p[1] \in 1..n /\ p[2] \in Seq(A) /\ seq[p[1]] \in A
      OBVIOUS
    <3>2. Append(p[2], seq[p[1]]) \in Seq(A)
      BY <3>1, AppendProperties
    <3> QED  BY <3>1, <3>2
  <2> HIDE DEF Following
  <2> QED  BY <2>1
<1>3. PICK g \in [SUBSET (1..n) -> Seq(A)] : Folds(g, <<>>, n, step)
  <2> HIDE DEF n, step
  <2> QED  BY <1>1, <1>2, FoldExists
<1>4. \A s \in SUBSET (1..n) : s # {} => Max(s) \in 1..n
  <2> SUFFICES ASSUME NEW s \in SUBSET (1..n), s # {} PROVE Max(s) \in 1..n
    OBVIOUS
  <2> HIDE DEF n
  <2>1. s \in SUBSET (0..n)
    BY <1>1
  <2>2. Max(s) \in s
    BY <1>1, <2>1, LargestIn
  <2> QED  BY <2>2
<1>5. Is(g)
  <2>1. \A s \in SUBSET (1..n) : s # {} => step[<<Max(s), g[s \ {Max(s)}]>>] = Following(Max(s), g[s \ {Max(s)}])
    <3> SUFFICES ASSUME NEW s \in SUBSET (1..n), s # {}
                 PROVE  step[<<Max(s), g[s \ {Max(s)}]>>] = Following(Max(s), g[s \ {Max(s)}])
      OBVIOUS
    <3>1. Max(s) \in 1..n /\ s \ {Max(s)} \in SUBSET (1..n)
      BY <1>4
    <3>2. g[s \ {Max(s)}] \in Seq(A)
      BY <3>1
    <3>3. <<Max(s), g[s \ {Max(s)}]>> \in (1..n) \X Seq(A)
      BY <3>1, <3>2
    <3> HIDE DEF Following
    <3> QED  BY <3>3
  <2> DEFINE h == [s \in SUBSET (1..n) |-> IF s = {} THEN <<>> ELSE Following(Max(s), g[s \ {Max(s)}])]
  <2>2. \A s \in SUBSET (1..n) : g[s] = h[s]
    <3> HIDE DEF Following, step, n
    <3> QED  BY <1>3, <2>1 DEF Folds
  <2>3. h = [s \in SUBSET (1..n) |-> h[s]] /\ g = [s \in SUBSET (1..n) |-> g[s]]
    OBVIOUS
  <2>4. g = h
    <3> HIDE DEF h, n
    <3> QED  BY <2>2, <2>3
  <2> QED  BY <2>4
<1>6. Is(run)
  <2> HIDE DEF Is
  <2> QED  BY <1>5
<1>7. Among(seq, set) = run[1..n]
  BY <1>1 DEF Among, FoldLeft, MapThenFoldSet
<1>8. ASSUME NEW k \in 1..n PROVE run[1..k] = Following(k, run[1..(k - 1)])
  <2>1. k \in Nat /\ k # 0 /\ 1..k \in SUBSET (1..n) /\ 1..k # {}
    <3> HIDE DEF n
    <3>1. k \in Nat /\ k # 0 /\ k <= n
      BY <1>1
    <3>2. 1..k \subseteq 1..n
      BY <1>1, <3>1
    <3>3. k \in 1..k
      BY <3>1
    <3> QED  BY <3>1, <3>2, <3>3
  <2>2. Max(1..k) = k /\ (1..k) \ {k} = 1..(k - 1)
    BY <2>1, MaxOfFirst
  <2> HIDE DEF Following, run, n
  <2> QED  BY <1>6, <2>1, <2>2
<1>9. run[1..0] = <<>>
  <2>1. 1..0 \in SUBSET (1..n) /\ 1..0 = {}
    BY <1>1
  <2> HIDE DEF Following, run, n
  <2> QED  BY <1>6, <2>1
<1> DEFINE kept == [k \in 0..n |-> run[1..k]]
<1>10. kept[0] = <<>> /\ Among(seq, set) = kept[n]
  <2> HIDE DEF run, n
  <2> QED  BY <1>1, <1>7, <1>9
<1>11. ASSUME NEW k \in 1..n PROVE kept[k] = Following(k, kept[k - 1])
  <2>1. k \in 0..n /\ k - 1 \in 0..n
    BY <1>1
  <2> HIDE DEF run, n, Following
  <2> QED  BY <1>8, <2>1
<1> HIDE DEF kept
<1> QED  BY <1>10, <1>11

-----------------------------------------------------------------------------
(***************************************************************************)
(* The members of a sequence that lie in a set, and where they stand.      *)
(***************************************************************************)

\* pos says where the members of part stand among the first k of seq: they are
\* those of set, in the same order.
Picks(pos, part, seq, set, k) ==
    /\ pos \in [1..Len(part) -> 1..k]
    /\ \A i \in 1..Len(part) : part[i] = seq[pos[i]] /\ seq[pos[i]] \in set
    /\ \A i, j \in 1..Len(part) : i < j => pos[i] < pos[j]
    /\ \A m \in 1..k : seq[m] \in set => \E i \in 1..Len(part) : pos[i] = m

LEMMA AmongPicks ==
  ASSUME NEW A, NEW seq \in Seq(A), NEW set
  PROVE  /\ Among(seq, set) \in Seq(A)
         /\ Len(Among(seq, set)) <= Len(seq)
         /\ \E pos : Picks(pos, Among(seq, set), seq, set, Len(seq))
<1> DEFINE n == Len(seq)
<1>1. PICK kept : /\ kept[0] = <<>>
                  /\ \A k \in 1..Len(seq) :
                        kept[k] = IF seq[k] \in set THEN Append(kept[k - 1], seq[k]) ELSE kept[k - 1]
                  /\ Among(seq, set) = kept[Len(seq)]
  BY AmongSteps
<1> DEFINE Right(k) == /\ kept[k] \in Seq(A)
                       /\ Len(kept[k]) <= k
                       /\ \E pos : Picks(pos, kept[k], seq, set, k)
           T == {k \in 0..n : Right(k)}
<1>2. n \in Nat /\ \A k \in 1..n : seq[k] \in A
  OBVIOUS
<1>3. 0 \in T
  <2>1. <<>> \in Seq(A) /\ Len(<<>>) = 0
    OBVIOUS
  <2>2. Picks(<<>>, <<>>, seq, set, 0)
    BY DEF Picks
  <2>3. Right(0)
    BY <1>1, <2>1, <2>2
  <2> QED  BY <1>2, <2>3
<1>4. ASSUME NEW k \in 0..n, k < n, k \in T PROVE k + 1 \in T
  <2> DEFINE m == k + 1
             part == kept[k]
  <2>1. m \in 1..n /\ m \in 0..n /\ m - 1 = k /\ k \in Nat
    BY <1>2, <1>4
  <2>2. part \in Seq(A) /\ Len(part) <= k /\ Len(part) \in Nat
    BY <1>4
  <2>3. PICK pos : Picks(pos, part, seq, set, k)
    BY <1>4
  <2>4. kept[m] = IF seq[m] \in set THEN Append(part, seq[m]) ELSE part
    BY <1>1, <2>1
  <2>5. CASE seq[m] \notin set
    <3>1. kept[m] = part
      BY <2>4, <2>5
    <3>2. Picks(pos, part, seq, set, m)
      <4> HIDE DEF part
      <4>1. pos \in [1..Len(part) -> 1..m]
        BY <2>1, <2>3 DEF Picks
      <4>2. \A l \in 1..m : seq[l] \in set => l \in 1..k
        BY <2>1, <2>5
      <4> HIDE DEF m
      <4> QED  BY <2>3, <4>1, <4>2 DEF Picks
    <3> HIDE DEF part
    <3>3. Right(m)
      BY <2>1, <2>2, <3>1, <3>2
    <3> QED  BY <2>1, <3>3
  <2>6. CASE seq[m] \in set
    <3> DEFINE new == Append(part, seq[m])
               l == Len(part)
               at == [i \in 1..(l + 1) |-> IF i = l + 1 THEN m ELSE pos[i]]
    <3>1. kept[m] = new
      BY <2>4, <2>6
    <3>2. seq[m] \in A
      BY <1>2, <2>1
    <3>3. /\ new \in Seq(A) /\ Len(new) = l + 1 /\ new[l + 1] = seq[m]
          /\ \A i \in 1..l : new[i] = part[i]
      <4> HIDE DEF part, m
      <4> QED  BY <2>2, <3>2, AppendProperties
    <3> HIDE DEF part, new
    <3>4. l \in Nat /\ l <= k
      BY <2>2
    <3>5. \A i \in 1..l : i \in 1..(l + 1) /\ at[i] = pos[i] /\ pos[i] \in 1..k /\ i # l + 1
      BY <2>3, <3>4 DEF Picks
    <3>6. at[l + 1] = m /\ l + 1 \in 1..(l + 1)
      BY <3>4
    <3>7. \A i \in 1..(l + 1) : i \in 1..l \/ i = l + 1
      BY <3>4
    <3>8. at \in [1..(l + 1) -> 1..m]
      <4>1. ASSUME NEW i \in 1..(l + 1) PROVE at[i] \in 1..m
        <5> HIDE DEF at
        <5> QED  BY <2>1, <3>5, <3>6, <3>7
      <4> HIDE DEF l, m
      <4> QED  BY <4>1
    <3> HIDE DEF at
    <3>9. \A i \in 1..(l + 1) : new[i] = seq[at[i]] /\ seq[at[i]] \in set
      <4> SUFFICES ASSUME NEW i \in 1..(l + 1) PROVE new[i] = seq[at[i]] /\ seq[at[i]] \in set
        OBVIOUS
      <4>1. CASE i = l + 1
        <5> HIDE DEF m, l
        <5> QED  BY <4>1, <2>6, <3>3, <3>6
      <4>2. CASE i \in 1..l
        BY <4>2, <2>3, <3>3, <3>5 DEF Picks
      <4> QED  BY <3>7, <4>1, <4>2
    <3>10. \A i, j \in 1..(l + 1) : i < j => at[i] < at[j]
      <4> SUFFICES ASSUME NEW i \in 1..(l + 1), NEW j \in 1..(l + 1), i < j PROVE at[i] < at[j]
        OBVIOUS
      <4>1. i \in 1..l
        BY <3>4
      <4>2. CASE j = l + 1
        BY <2>1, <4>1, <4>2, <3>5, <3>6
      <4>3. CASE j \in 1..l
        BY <4>1, <4>3, <2>3, <3>5 DEF Picks
      <4> QED  BY <3>7, <4>2, <4>3
    <3>11. \A h \in 1..m : seq[h] \in set => \E i \in 1..(l + 1) : at[i] = h
      <4> SUFFICES ASSUME NEW h \in 1..m, seq[h] \in set PROVE \E i \in 1..(l + 1) : at[i] = h
        OBVIOUS
      <4>1. CASE h = m
        BY <4>1, <3>6
      <4>2. CASE h # m
        <5>1. h \in 1..k
          BY <2>1, <4>2
        <5>2. PICK i \in 1..l : pos[i] = h
          BY <5>1, <2>3 DEF Picks
        <5> QED  BY <5>2, <3>5
      <4> QED  BY <4>1, <4>2
    <3>12. Picks(at, new, seq, set, m)
      <4> HIDE DEF m, l
      <4> QED  BY <3>3, <3>8, <3>9, <3>10, <3>11 DEF Picks
    <3>13. Right(m)
      BY <2>1, <3>1, <3>3, <3>4, <3>12
    <3> QED  BY <2>1, <3>13
  <2> QED  BY <2>5, <2>6
<1>5. \A k \in 0..n : k \in T
  <2> HIDE DEF T, n
  <2> QED  BY <1>2, <1>3, <1>4, Counting
<1>6. Right(n)
  BY <1>2, <1>5
<1> QED  BY <1>1, <1>6

\* A sequence whose members lie in a set is one over that set.
LEMMA SeqOver ==
  ASSUME NEW A, NEW B, NEW seq \in Seq(A), \A i \in 1..Len(seq) : seq[i] \in B
  PROVE  seq \in Seq(B)
  OBVIOUS

\* What remains of a sequence once its members outside of a set are left out.
Keeps(part, seq, set) ==
    /\ \A i \in 1..Len(part) : \E m \in 1..Len(seq) : part[i] = seq[m] /\ seq[m] \in set
    /\ \A m \in 1..Len(seq) : seq[m] \in set => \E i \in 1..Len(part) : part[i] = seq[m]

LEMMA AmongType ==
  ASSUME NEW A, NEW seq \in Seq(A), NEW set
  PROVE  /\ Among(seq, set) \in Seq(A \cap set)
         /\ Len(Among(seq, set)) \in Nat
         /\ Len(Among(seq, set)) <= Len(seq)
         /\ Keeps(Among(seq, set), seq, set)
<1> DEFINE part == Among(seq, set)
<1>1. part \in Seq(A) /\ Len(part) <= Len(seq)
  BY AmongPicks
<1>2. PICK pos : Picks(pos, part, seq, set, Len(seq))
  BY AmongPicks
<1> HIDE DEF part
<1>3. \A i \in 1..Len(part) : pos[i] \in 1..Len(seq) /\ part[i] = seq[pos[i]] /\ part[i] \in set
  BY <1>2 DEF Picks
<1>4. \A m \in 1..Len(seq) : seq[m] \in set => \E i \in 1..Len(part) : part[i] = seq[m]
  BY <1>2 DEF Picks
<1>5. \A i \in 1..Len(part) : part[i] \in A
  BY <1>1
<1>6. \A i \in 1..Len(part) : part[i] \in A \cap set
  BY <1>3, <1>5
<1>7. part \in Seq(A \cap set)
  BY <1>1, <1>6, SeqOver
<1>8. Len(part) \in Nat
  BY <1>1
<1>9. Keeps(part, seq, set)
  BY <1>3, <1>4 DEF Keeps
<1> QED  BY <1>1, <1>7, <1>8, <1>9 DEF part

\* The lists of dependencies are bounded, and Longest is their bound.
LEMMA LongestBounds ==
  ASSUME NEW defs, Definitions(defs)
  PROVE  Longest(defs) \in Nat /\ \A p \in Readable(defs) : Len(defs[p]) <= Longest(defs)
<1> DEFINE N == Len(Discovered)
           Within(k, b) == \A i \in 1..k : Discovered[i] \in Readable(defs) => Len(defs[Discovered[i]]) <= b
           T == {k \in 0..N : \E b \in Nat : Within(k, b)}
           Lengths == {Len(defs[p]) : p \in Readable(defs)}
<1>1. N \in Nat
  BY DiscoveredAssumption
<1>2. \A p \in Readable(defs) : Len(defs[p]) \in Nat
  BY DEF Definitions, Definition, Readable
<1>3. 0 \in T
  BY <1>1
<1>4. ASSUME NEW k \in 0..N, k < N, k \in T PROVE k + 1 \in T
  <2>1. PICK b \in Nat : Within(k, b)
    BY <1>4
  <2>2. k + 1 \in 0..N /\ \A i \in 1..(k + 1) : i \in 1..k \/ i = k + 1
    BY <1>1, <1>4
  <2>3. CASE Discovered[k + 1] \notin Readable(defs)
    <3>1. Within(k + 1, b)
      BY <2>1, <2>2, <2>3
    <3> HIDE DEF Within
    <3> QED  BY <2>2, <3>1
  <2>4. CASE Discovered[k + 1] \in Readable(defs)
    <3> DEFINE l == Len(defs[Discovered[k + 1]])
    <3>1. l \in Nat
      BY <1>2, <2>4
    <3>2. l + b \in Nat /\ l <= l + b /\ b <= l + b
      <4> HIDE DEF l
      <4> QED  BY <3>1
    <3>3. ASSUME NEW i \in 1..(k + 1), Discovered[i] \in Readable(defs) PROVE Len(defs[Discovered[i]]) <= l + b
      <4>1. CASE i = k + 1
        BY <3>2, <4>1
      <4>2. CASE i \in 1..k
        <5>1. Len(defs[Discovered[i]]) \in Nat /\ Len(defs[Discovered[i]]) <= b
          BY <1>2, <2>1, <3>3, <4>2
        <5> HIDE DEF l
        <5> QED  BY <3>1, <5>1
      <4> QED  BY <2>2, <4>1, <4>2
    <3>4. Within(k + 1, l + b)
      BY <3>3
    <3> HIDE DEF Within, l
    <3> QED  BY <2>2, <3>2, <3>4
  <2> QED  BY <2>3, <2>4
<1>5. N \in T
  <2>1. \A k \in 0..N : k \in T
    <3> HIDE DEF T, N
    <3> QED  BY <1>1, <1>3, <1>4, Counting
  <2> HIDE DEF T
  <2> QED  BY <1>1, <2>1
<1>6. PICK b \in Nat : Within(N, b)
  BY <1>5
<1>7. \A p \in Readable(defs) : Len(defs[p]) <= b
  BY <1>6, DiscoveredAssumption DEF Readable
<1>8. {0} \cup Lengths \in SUBSET (0..b)
  BY <1>2, <1>7
<1>9. /\ Max({0} \cup Lengths) \in {0} \cup Lengths
      /\ \A y \in {0} \cup Lengths : Max({0} \cup Lengths) >= y
  <2> HIDE DEF Lengths
  <2> QED  BY <1>8, LargestIn
<1>10. Longest(defs) = Max({0} \cup Lengths)
  BY DEF Longest
<1>11. \A p \in Readable(defs) : Len(defs[p]) \in Lengths
  OBVIOUS
<1> DEFINE M == Max({0} \cup Lengths)
<1> HIDE DEF Lengths
<1>12. M \in Nat /\ \A y \in Lengths : y <= M
  BY <1>8, <1>9
<1> HIDE DEF M
<1>13. Longest(defs) = M
  BY <1>10 DEF M
<1> QED  BY <1>11, <1>12, <1>13

-----------------------------------------------------------------------------
(***************************************************************************)
(* The graph.                                                              *)
(***************************************************************************)

LEMMA ReachEdge ==
  ASSUME NEW defs, NEW p, NEW q, Edge(defs, p, q)
  PROVE  q \in Reach(defs, p)
  BY DEF Reach, Edge

LEMMA ReachAgain ==
  ASSUME NEW defs, NEW p, NEW q, NEW r, q \in Reach(defs, p), r \in Reach(defs, q)
  PROVE  r \in Reach(defs, p)
<1>1. r \in Readable(defs)
  BY DEF Reach
<1>2. ASSUME NEW T \in SUBSET Readable(defs), ClosedUnder(defs, T),
             \A s \in Readable(defs) : Edge(defs, p, s) => s \in T
      PROVE  r \in T
  <2>1. q \in T
    BY <1>2 DEF Reach
  <2>2. \A s \in Readable(defs) : Edge(defs, q, s) => s \in T
    BY <1>2, <2>1 DEF ClosedUnder
  <2> QED  BY <1>2, <2>2 DEF Reach
<1> QED  BY <1>1, <1>2 DEF Reach

-----------------------------------------------------------------------------
(***************************************************************************)
(* The states of the search.                                               *)
(***************************************************************************)

Progress == {"new", "visiting", "done"}
Frames(defs) == [id : Readable(defs), left : Seq(Readable(defs))]
Searches(defs) ==
    [marks : [Plugins -> Progress], path : Seq(Frames(defs)), order : Seq(Readable(defs)),
     cyclic : SUBSET Readable(defs), roots : Seq(Plugins)]

\* The frame of a plugin holds its dependencies.
LEMMA FrameHolds ==
  ASSUME NEW defs, Definitions(defs), NEW p \in Readable(defs)
  PROVE  /\ Frame(p, defs) \in Frames(defs)
         /\ Frame(p, defs).id = p
         /\ Len(Frame(p, defs).left) \in Nat
         /\ Len(Frame(p, defs).left) <= Longest(defs)
         /\ \A m \in 1..Len(Frame(p, defs).left) : Edge(defs, p, Frame(p, defs).left[m])
         /\ \A d : Edge(defs, p, d) => \E m \in 1..Len(Frame(p, defs).left) : Frame(p, defs).left[m] = d
<1> DEFINE R == Readable(defs)
           A == Needs(defs[p])
           seq == defs[p]
           left == Among(seq, R)
<1>1. seq \in Seq(A)
  BY DEF Definitions, Definition, Readable
<1>2. left \in Seq(A \cap R) /\ Len(left) \in Nat /\ Len(left) <= Len(seq) /\ Keeps(left, seq, R)
  <2> HIDE DEF R, A, seq
  <2> QED  BY <1>1, AmongType
<1>3. Len(seq) <= Longest(defs) /\ Longest(defs) \in Nat /\ Len(seq) \in Nat
  BY <1>1, LongestBounds
<1>4. Frame(p, defs) = [id |-> p, left |-> left]
  BY DEF Frame
<1>5. left \in Seq(R)
  <2> HIDE DEF left, R, A
  <2>1. \A i \in 1..Len(left) : left[i] \in R
    BY <1>2 DEF Keeps
  <2> QED  BY <1>2, <2>1, SeqOver
<1>6. Frame(p, defs) \in Frames(defs)
  BY <1>4, <1>5 DEF Frames
<1>7. Len(left) <= Longest(defs)
  <2> HIDE DEF left, seq
  <2> QED  BY <1>2, <1>3
<1>8. \A m \in 1..Len(left) : Edge(defs, p, left[m])
  <2> HIDE DEF left
  <2> QED  BY <1>2 DEF Edge, Needs, Keeps
<1>9. \A d : Edge(defs, p, d) => \E m \in 1..Len(left) : left[m] = d
  <2> HIDE DEF left
  <2> QED  BY <1>2 DEF Edge, Needs, Keeps
<1> HIDE DEF left
<1> QED  BY <1>2, <1>4, <1>6, <1>7, <1>8, <1>9

-----------------------------------------------------------------------------
(***************************************************************************)
(* What a step of the search does, as equations on its parts.              *)
(***************************************************************************)

\* The last frame of the path looks at its next dependency.
Looks(s, t) ==
    LET n == Len(s.path)
    IN  /\ n # 0 /\ s.path[n].left # <<>>
        /\ t.order = s.order /\ t.roots = s.roots
        /\ \A i \in 1..n : t.path[i].id = s.path[i].id
        /\ \A i \in 1..(n - 1) : t.path[i].left = s.path[i].left
        /\ t.path[n].left = Tail(s.path[n].left)

NextOf(s) == s.path[Len(s.path)].left[1]

Ends(s) == s.path = <<>> /\ s.roots = <<>>

SkipsRoot(s, t, defs) ==
    /\ s.path = <<>> /\ s.roots # <<>>
    /\ s.roots[1] \notin Readable(defs) \/ s.marks[s.roots[1]] = "done"
    /\ t.roots = Tail(s.roots)
    /\ t.path = s.path /\ t.marks = s.marks /\ t.order = s.order /\ t.cyclic = s.cyclic

PushesRoot(s, t, defs) ==
    LET p == s.roots[1]
    IN  /\ s.path = <<>> /\ s.roots # <<>>
        /\ p \in Readable(defs) /\ s.marks[p] # "done"
        /\ t.roots = Tail(s.roots)
        /\ Len(t.path) = 1 /\ t.path[1] = Frame(p, defs)
        /\ t.marks = [s.marks EXCEPT ![p] = "visiting"] /\ t.order = s.order /\ t.cyclic = s.cyclic

Pops(s, t) ==
    LET n == Len(s.path)
        p == s.path[n].id
    IN  /\ n # 0 /\ s.path[n].left = <<>>
        /\ Len(t.path) = n - 1 /\ \A i \in 1..(n - 1) : t.path[i] = s.path[i]
        /\ t.marks = [s.marks EXCEPT ![p] = "done"] /\ t.order = Append(s.order, p)
        /\ t.roots = s.roots /\ t.cyclic = s.cyclic

LooksDone(s, t) ==
    /\ Looks(s, t) /\ Len(t.path) = Len(s.path)
    /\ s.marks[NextOf(s)] = "done"
    /\ t.marks = s.marks /\ t.cyclic = s.cyclic

LooksBack(s, t) ==
    /\ Looks(s, t) /\ Len(t.path) = Len(s.path)
    /\ s.marks[NextOf(s)] = "visiting"
    /\ t.marks = s.marks /\ t.cyclic = s.cyclic \cup CycleFrom(s.path, NextOf(s))

LooksNew(s, t, defs) ==
    LET n == Len(s.path)
    IN  /\ Looks(s, t)
        /\ Len(t.path) = n + 1 /\ t.path[n + 1] = Frame(NextOf(s), defs)
        /\ s.marks[NextOf(s)] = "new"
        /\ t.marks = [s.marks EXCEPT ![NextOf(s)] = "visiting"] /\ t.cyclic = s.cyclic

Moves(s, t, defs) ==
    \/ Ends(s) /\ t = s
    \/ SkipsRoot(s, t, defs)
    \/ PushesRoot(s, t, defs)
    \/ Pops(s, t)
    \/ LooksDone(s, t)
    \/ LooksBack(s, t)
    \/ LooksNew(s, t, defs)

Pushed(s, t, p, defs) ==
    /\ t.marks = [s.marks EXCEPT ![p] = "visiting"]
    /\ t.path = Append(s.path, Frame(p, defs))
    /\ t.order = s.order /\ t.cyclic = s.cyclic /\ t.roots = s.roots

LEMMA PushFields ==
  ASSUME NEW defs, Definitions(defs), NEW s \in Searches(defs), NEW p \in Readable(defs)
  PROVE  Push(s, p, defs) \in Searches(defs) /\ Pushed(s, Push(s, p, defs), p, defs)
<1> DEFINE f == Frame(p, defs)
           F == Frames(defs)
           R == Readable(defs)
           S == [marks : [Plugins -> Progress], path : Seq(F), order : Seq(R),
                 cyclic : SUBSET R, roots : Seq(Plugins)]
           t == [s EXCEPT !.marks[p] = "visiting", !.path = Append(@, f)]
<1>1. s.path \in Seq(F) /\ f \in F
  BY FrameHolds DEF Searches
<1>2. Append(s.path, f) \in Seq(F)
  <2> HIDE DEF f, F
  <2> QED  BY <1>1, AppendProperties
<1>3. p \in Plugins
  BY DEF Readable
<1>4. s \in S
  BY DEF Searches
<1>5. Push(s, p, defs) = t
  BY DEF Push
<1> HIDE DEF f, F, R
<1>6. t \in S
  BY <1>2, <1>3, <1>4 DEF Progress
<1>7. /\ t.marks = [s.marks EXCEPT ![p] = "visiting"]
      /\ t.path = Append(s.path, f)
      /\ t.order = s.order /\ t.cyclic = s.cyclic /\ t.roots = s.roots
  BY <1>4
<1> HIDE DEF t
<1> QED  BY <1>5, <1>6, <1>7 DEF f, F, R, Searches, Pushed

LEMMA LookedFields ==
  ASSUME NEW defs, NEW s \in Searches(defs), Len(s.path) # 0, s.path[Len(s.path)].left # <<>>
  PROVE  LET t == Looked(s)
             n == Len(s.path)
         IN  /\ t \in Searches(defs)
             /\ t.marks = s.marks /\ t.order = s.order /\ t.cyclic = s.cyclic /\ t.roots = s.roots
             /\ Len(t.path) = n
             /\ \A i \in 1..(n - 1) : t.path[i] = s.path[i]
             /\ t.path[n].id = s.path[n].id /\ t.path[n].left = Tail(s.path[n].left)
<1> DEFINE F == Frames(defs)
           R == Readable(defs)
           S == [marks : [Plugins -> Progress], path : Seq(F), order : Seq(R),
                 cyclic : SUBSET R, roots : Seq(Plugins)]
           n == Len(s.path)
           frame == s.path[n]
           new == [id |-> frame.id, left |-> Tail(frame.left)]
           front == SubSeq(s.path, 1, n - 1)
           path == Append(front, new)
           t == [s EXCEPT !.path = path]
<1>1. s \in S /\ s.path \in Seq(F) /\ n \in Nat /\ n # 0
  BY DEF Searches
<1>2. frame \in F
  <2> HIDE DEF F
  <2> QED  BY <1>1
<1>3. frame.left \in Seq(R) /\ frame.left # <<>>
  BY <1>2 DEF Frames
<1>4. Tail(frame.left) \in Seq(R)
  <2> HIDE DEF R, frame
  <2> QED  BY <1>3
<1>5. new \in F /\ new.id = frame.id /\ new.left = Tail(frame.left)
  <2> HIDE DEF frame
  <2> QED  BY <1>2, <1>4 DEF Frames
<1>6. front \in Seq(F) /\ Len(front) = n - 1 /\ \A i \in 1..(n - 1) : front[i] = s.path[i]
  <2> DEFINE q == s.path
  <2>1. q \in Seq(F) /\ n \in Nat /\ n # 0 /\ n = Len(q)
    BY <1>1
  <2> HIDE DEF F, q, n
  <2>2. 1 \in 1..(n + 1) /\ n - 1 \in 0..n
    BY <2>1
  <2>3. SubSeq(q, 1, n - 1) \in Seq(F)
    BY <2>1, <2>2
  <2>4. Len(SubSeq(q, 1, n - 1)) = n - 1 /\ \A i \in 1..(n - 1) : SubSeq(q, 1, n - 1)[i] = q[i]
    BY <2>1, <2>2
  <2> QED  BY <2>3, <2>4 DEF q
<1>7. /\ path \in Seq(F) /\ Len(path) = n /\ path[n] = new
      /\ \A i \in 1..(n - 1) : path[i] = s.path[i]
  <2> HIDE DEF F, new, front, n
  <2> DEFINE both == Append(front, new)
  <2>1. both \in Seq(F) /\ Len(both) = Len(front) + 1
    BY <1>5, <1>6, AppendProperties
  <2>2. (\A i \in 1..Len(front) : both[i] = front[i]) /\ both[Len(front) + 1] = new
    BY <1>5, <1>6, AppendProperties
  <2>3. path = both
    OBVIOUS
  <2>4. n \in Nat
    BY <1>1
  <2> HIDE DEF both, path
  <2>5. Len(both) = n /\ both[n] = new
    BY <1>6, <2>1, <2>2, <2>4
  <2>6. \A i \in 1..(n - 1) : both[i] = s.path[i]
    BY <1>6, <2>2
  <2> QED  BY <2>1, <2>3, <2>5, <2>6
<1>8. Looked(s) = t
  BY DEF Looked, Front, Last
<1> HIDE DEF F, R, path
<1>9. t \in S
  BY <1>1, <1>7
<1>10. t.marks = s.marks /\ t.order = s.order /\ t.cyclic = s.cyclic /\ t.roots = s.roots /\ t.path = path
  BY <1>1
<1> HIDE DEF t, new, frame
<1>11. t \in Searches(defs)
  BY <1>9 DEF Searches, F, R
<1> QED  BY <1>5, <1>7, <1>8, <1>10, <1>11 DEF frame

LEMMA SearchMoves ==
  ASSUME NEW defs, Definitions(defs), NEW s \in Searches(defs)
  PROVE  SearchStep(s, defs) \in Searches(defs) /\ Moves(s, SearchStep(s, defs), defs)
<1> DEFINE F == Frames(defs)
           R == Readable(defs)
           S == [marks : [Plugins -> Progress], path : Seq(F), order : Seq(R),
                 cyclic : SUBSET R, roots : Seq(Plugins)]
           n == Len(s.path)
           t == SearchStep(s, defs)
<1>1. s \in S /\ s.path \in Seq(F) /\ s.roots \in Seq(Plugins) /\ n \in Nat
  BY DEF Searches
<1>2. CASE s.path = <<>> /\ s.roots = <<>>
  <2>1. t = s
    BY <1>2 DEF SearchStep
  <2> QED  BY <1>2, <2>1 DEF Moves, Ends
<1>3. CASE s.path = <<>> /\ s.roots # <<>>
  <2> DEFINE p == s.roots[1]
             rest == [s EXCEPT !.roots = Tail(@)]
             roots == s.roots
  <2>1. p \in Plugins /\ Tail(s.roots) \in Seq(Plugins) /\ Head(s.roots) = p
    <3>1. roots \in Seq(Plugins) /\ roots # <<>>
      BY <1>1, <1>3
    <3> HIDE DEF roots
    <3>2. roots[1] \in Plugins /\ Tail(roots) \in Seq(Plugins) /\ Head(roots) = roots[1]
      BY <3>1
    <3> QED  BY <3>2 DEF roots
  <2>2. /\ rest \in Searches(defs) /\ rest.roots = Tail(s.roots)
        /\ rest.marks = s.marks /\ rest.path = s.path /\ rest.order = s.order /\ rest.cyclic = s.cyclic
    <3> HIDE DEF F, R
    <3>1. rest \in S
      BY <1>1, <2>1
    <3>2. /\ rest.roots = Tail(s.roots)
          /\ rest.marks = s.marks /\ rest.path = s.path /\ rest.order = s.order /\ rest.cyclic = s.cyclic
      BY <1>1
    <3> HIDE DEF rest
    <3> QED  BY <3>1, <3>2 DEF Searches, F, R
  <2>3. defs[p] = Unreadable <=> p \notin Readable(defs)
    BY <2>1 DEF Readable
  <2>4. CASE defs[p] = Unreadable \/ s.marks[p] = "done"
    <3>1. t = rest
      BY <1>3, <2>1, <2>4 DEF SearchStep
    <3>2. SkipsRoot(s, rest, defs)
      <4> HIDE DEF rest
      <4> QED  BY <1>3, <2>2, <2>3, <2>4 DEF SkipsRoot
    <3> HIDE DEF rest, t
    <3> QED  BY <2>2, <3>1, <3>2 DEF Moves, t
  <2>5. CASE ~(defs[p] = Unreadable \/ s.marks[p] = "done")
    <3> DEFINE u == Push(rest, p, defs)
    <3>1. t = u
      BY <1>3, <2>1, <2>5 DEF SearchStep
    <3>2. p \in Readable(defs) /\ s.marks[p] # "done"
      BY <2>3, <2>5
    <3>3. /\ u \in Searches(defs) /\ u.marks = [s.marks EXCEPT ![p] = "visiting"]
          /\ u.path = Append(<<>>, Frame(p, defs))
          /\ u.order = s.order /\ u.cyclic = s.cyclic /\ u.roots = Tail(s.roots)
      <4> HIDE DEF rest, p
      <4>1. u \in Searches(defs) /\ Pushed(rest, u, p, defs)
        BY <2>2, <3>2, PushFields
      <4> HIDE DEF u
      <4> QED  BY <1>3, <2>2, <4>1 DEF Pushed
    <3>4. Len(u.path) = 1 /\ u.path[1] = Frame(p, defs)
      <4> HIDE DEF u, p
      <4> QED  BY <3>3
    <3>5. PushesRoot(s, u, defs)
      <4> HIDE DEF u
      <4> QED  BY <1>3, <3>2, <3>3, <3>4 DEF PushesRoot
    <3> HIDE DEF u, t
    <3> QED  BY <3>1, <3>3, <3>5 DEF Moves, t
  <2> QED  BY <2>4, <2>5
<1>4. CASE s.path # <<>>
  <2> DEFINE frame == s.path[n]
             d == frame.left[1]
  <2>1. n # 0 /\ frame \in F /\ Last(s.path) = frame
    <3> HIDE DEF F
    <3> QED  BY <1>1, <1>4 DEF Last
  <2>2. frame.id \in R /\ frame.left \in Seq(R)
    <3> HIDE DEF frame
    <3> QED  BY <2>1 DEF Frames
  <2>3. CASE frame.left = <<>>
    <3> DEFINE p == frame.id
               front == Front(s.path)
               order == Append(s.order, p)
               u == [s EXCEPT !.marks[p] = "done", !.path = front, !.order = order]
    <3>1. t = u
      BY <1>4, <2>1, <2>3 DEF SearchStep
    <3>2. p \in Plugins
      BY <2>2 DEF Readable
    <3>3. front \in Seq(F) /\ Len(front) = n - 1 /\ \A i \in 1..(n - 1) : front[i] = s.path[i]
      <4> DEFINE q == s.path
      <4>1. q \in Seq(F) /\ n \in Nat /\ n # 0 /\ n = Len(q)
        BY <1>1, <2>1
      <4> HIDE DEF F, q, n
      <4>2. 1 \in 1..(n + 1) /\ n - 1 \in 0..n
        BY <4>1
      <4>3. SubSeq(q, 1, n - 1) \in Seq(F)
        BY <4>1, <4>2
      <4>4. Len(SubSeq(q, 1, n - 1)) = n - 1 /\ \A i \in 1..(n - 1) : SubSeq(q, 1, n - 1)[i] = q[i]
        BY <4>1, <4>2
      <4> QED  BY <4>3, <4>4 DEF q, n, Front
    <3>4. order \in Seq(R)
      <4>1. s.order \in Seq(R)
        BY <1>1
      <4> HIDE DEF R, p
      <4> QED  BY <2>2, <4>1, AppendProperties DEF p
    <3> HIDE DEF p, front, order
    <3>5. u \in S
      <4> HIDE DEF F, R
      <4> QED  BY <1>1, <3>2, <3>3, <3>4 DEF Progress
    <3>6. /\ u.marks = [s.marks EXCEPT ![p] = "done"] /\ u.path = front /\ u.order = order
          /\ u.cyclic = s.cyclic /\ u.roots = s.roots
      <4> HIDE DEF F, R
      <4> QED  BY <1>1
    <3> HIDE DEF u
    <3>7. Pops(s, u)
      BY <2>1, <2>3, <3>3, <3>6 DEF Pops, p, order
    <3>8. u \in Searches(defs)
      BY <3>5 DEF Searches
    <3> HIDE DEF t
    <3> QED  BY <3>1, <3>7, <3>8 DEF Moves, t
  <2>4. CASE frame.left # <<>>
    <3> DEFINE u == Looked(s)
    <3>1. d \in R /\ Head(frame.left) = d
      <4> HIDE DEF frame, R
      <4> QED  BY <2>2, <2>4
    <3>2. d \in Plugins /\ s.marks \in [Plugins -> Progress]
      BY <1>1, <3>1 DEF Readable
    <3>3. s.marks[d] \in {"new", "visiting", "done"}
      <4> HIDE DEF d
      <4> QED  BY <3>2 DEF Progress
    <3>4. d = NextOf(s)
      BY DEF NextOf
    <3>5. /\ u \in Searches(defs)
          /\ u.marks = s.marks /\ u.order = s.order /\ u.cyclic = s.cyclic /\ u.roots = s.roots
          /\ Len(u.path) = n
          /\ \A i \in 1..(n - 1) : u.path[i] = s.path[i]
          /\ u.path[n].id = s.path[n].id /\ u.path[n].left = Tail(s.path[n].left)
      BY <2>1, <2>4, LookedFields
    <3>6. n \in 1..n /\ \A i \in 1..n : i = n \/ i \in 1..(n - 1)
      <4> HIDE DEF n
      <4> QED  BY <1>1, <2>1
    <3>7. CASE s.marks[d] = "done"
      <4>1. t = u
        BY <1>4, <2>1, <2>4, <3>1, <3>7 DEF SearchStep
      <4> HIDE DEF u, d
      <4>2. LooksDone(s, u)
        BY <2>1, <2>4, <3>4, <3>5, <3>6, <3>7 DEF LooksDone, Looks
      <4> HIDE DEF t
      <4> QED  BY <3>5, <4>1, <4>2 DEF Moves, t
    <3>8. CASE s.marks[d] = "visiting"
      <4> DEFINE circular == s.cyclic \cup CycleFrom(s.path, d)
                 v == [u EXCEPT !.cyclic = circular]
      <4>1. t = v
        <5>1. t = [u EXCEPT !.cyclic = @ \cup CycleFrom(s.path, d)]
          BY <1>4, <2>1, <2>4, <3>1, <3>8 DEF SearchStep
        <5> HIDE DEF u, t, d
        <5> QED  BY <3>5, <5>1
      <4> HIDE DEF u
      <4>2. circular \in SUBSET R
        <5>1. \A i \in 1..Len(s.path) : s.path[i].id \in R
          <6> DEFINE q == s.path
          <6>1. q \in Seq(F)
            BY <1>1
          <6> HIDE DEF q, F
          <6>2. \A i \in 1..Len(q) : q[i] \in F
            BY <6>1
          <6>3. \A i \in 1..Len(q) : q[i].id \in R
            BY <6>2 DEF F, Frames
          <6> QED  BY <6>3 DEF q
        <5>2. CycleFrom(s.path, d) \subseteq R
          BY <5>1 DEF CycleFrom
        <5>3. s.cyclic \in SUBSET R
          BY <1>1
        <5> HIDE DEF R
        <5> QED  BY <5>2, <5>3
      <4> HIDE DEF circular
      <4>3. u \in S
        BY <3>5 DEF Searches
      <4>4. v \in S
        <5> HIDE DEF F, R
        <5> QED  BY <4>2, <4>3
      <4>5. /\ v.cyclic = circular /\ v.marks = s.marks /\ v.order = s.order /\ v.roots = s.roots
            /\ v.path = u.path
        <5> HIDE DEF F, R
        <5> QED  BY <3>5, <4>3
      <4>6. v \in Searches(defs)
        BY <4>4 DEF Searches
      <4> HIDE DEF v, d
      <4>7. LooksBack(s, v)
        BY <2>1, <2>4, <3>4, <3>5, <3>6, <3>8, <4>5 DEF LooksBack, Looks, circular
      <4> HIDE DEF t
      <4> QED  BY <4>1, <4>6, <4>7 DEF Moves, t
    <3>9. CASE s.marks[d] = "new"
      <4> DEFINE v == Push(u, d, defs)
      <4>1. t = v
        BY <1>4, <2>1, <2>4, <3>1, <3>9 DEF SearchStep
      <4> HIDE DEF u
      <4>2. /\ v \in Searches(defs) /\ v.marks = [s.marks EXCEPT ![d] = "visiting"]
            /\ v.path = Append(u.path, Frame(d, defs))
            /\ v.order = s.order /\ v.cyclic = s.cyclic /\ v.roots = s.roots
        <5> HIDE DEF d, R
        <5>1. d \in Readable(defs)
          BY <3>1 DEF R
        <5>2. v \in Searches(defs) /\ Pushed(u, v, d, defs)
          BY <5>1, <3>5, PushFields
        <5> HIDE DEF v
        <5> QED  BY <3>5, <5>2 DEF Pushed
      <4>3. /\ Len(v.path) = n + 1 /\ v.path[n + 1] = Frame(d, defs)
            /\ \A i \in 1..n : v.path[i] = u.path[i]
        <5> DEFINE q == u.path
                   f == Frame(d, defs)
        <5>1. q \in Seq(F) /\ Len(q) = n /\ f \in F
          BY <3>1, <3>5, FrameHolds DEF Searches
        <5> HIDE DEF q, f, F, n
        <5>2. /\ Len(Append(q, f)) = n + 1 /\ Append(q, f)[n + 1] = f
              /\ \A i \in 1..n : Append(q, f)[i] = q[i]
          BY <5>1, AppendProperties
        <5> HIDE DEF v
        <5> QED  BY <4>2, <5>2 DEF q, f
      <4> HIDE DEF v, d
      <4>4. LooksNew(s, v, defs)
        BY <2>1, <2>4, <3>4, <3>5, <3>6, <3>9, <4>2, <4>3 DEF LooksNew, Looks
      <4> HIDE DEF t
      <4> QED  BY <4>1, <4>2, <4>4 DEF Moves, t
    <3> HIDE DEF d
    <3> QED  BY <3>3, <3>7, <3>8, <3>9
  <2> QED  BY <2>3, <2>4
<1> QED  BY <1>2, <1>3, <1>4

-----------------------------------------------------------------------------
(***************************************************************************)
(* The invariant of the search.                                            *)
(***************************************************************************)

OnPath(s, p) == \E i \in 1..Len(s.path) : s.path[i].id = p
InLeft(s, i, d) == \E m \in 1..Len(s.path[i].left) : s.path[i].left[m] = d
InOrder(s, p) == \E i \in 1..Len(s.order) : s.order[i] = p

\* The marks say where each plugin is, and it is there once.
Marked(s) ==
    /\ \A i, j \in 1..Len(s.path) : s.path[i].id = s.path[j].id => i = j
    /\ \A i, j \in 1..Len(s.order) : s.order[i] = s.order[j] => i = j
    /\ \A p \in Plugins : s.marks[p] = "visiting" <=> OnPath(s, p)
    /\ \A p \in Plugins : s.marks[p] = "done" <=> InOrder(s, p)

\* A plugin of the path depends on those behind it.
Along(s, defs) ==
    \A i, k \in 1..Len(s.path) : i < k => s.path[k].id \in Reach(defs, s.path[i].id)

\* What a frame has still to visit are dependencies of its plugin.
Remaining(s, defs) ==
    \A i \in 1..Len(s.path) : \A d \in Readable(defs) : InLeft(s, i, d) => Edge(defs, s.path[i].id, d)

\* Every other dependency of it was dealt with, or is being visited.
Handled(s, defs) ==
    \A i \in 1..Len(s.path) : \A d \in Readable(defs) : Edge(defs, s.path[i].id, d) =>
        \/ InLeft(s, i, d)
        \/ s.marks[d] = "done"
        \/ i + 1 <= Len(s.path) /\ s.path[i + 1].id = d
        \/ s.path[i].id \in s.cyclic /\ \E k \in 1..i : s.path[k].id = d

\* The dependencies of an ordered plugin stand before it, but for those of a cycle.
Sorted(order, circular, defs) ==
    \A j \in 1..Len(order) : \A d \in Readable(defs) : Edge(defs, order[j], d) =>
        \/ \E i \in 1..Len(order) : i < j /\ order[i] = d
        \/ order[j] \in circular /\ order[j] \in Reach(defs, d)

CyclesFound(circular, defs) == \A p \in circular : InCycle(defs, p)

\* Every readable plugin was met or is still among the roots.
Kept(s, defs) ==
    \A p \in Readable(defs) : s.marks[p] = "new" => \E i \in 1..Len(s.roots) : s.roots[i] = p

SearchInv(s, defs) ==
    /\ Marked(s)
    /\ Along(s, defs)
    /\ Remaining(s, defs)
    /\ Handled(s, defs)
    /\ Sorted(s.order, s.cyclic, defs)
    /\ CyclesFound(s.cyclic, defs)
    /\ Kept(s, defs)

\* The types of the parts of a search.
LEMMA SearchParts ==
  ASSUME NEW defs, NEW s \in Searches(defs)
  PROVE  /\ Len(s.path) \in Nat /\ Len(s.order) \in Nat /\ Len(s.roots) \in Nat
         /\ \A i \in 1..Len(s.path) : /\ s.path[i].id \in Readable(defs) /\ s.path[i].id \in Plugins
                                      /\ s.path[i].left \in Seq(Readable(defs))
                                      /\ Len(s.path[i].left) \in Nat
         /\ \A i \in 1..Len(s.order) : s.order[i] \in Readable(defs)
         /\ \A p \in Plugins : s.marks[p] \in {"new", "visiting", "done"}
         /\ s.marks \in [Plugins -> Progress]
         /\ s.order \in Seq(Readable(defs)) /\ s.roots \in Seq(Plugins)
         /\ Readable(defs) \subseteq Plugins
<1> DEFINE F == Frames(defs)
           R == Readable(defs)
           q == s.path
<1>1. q \in Seq(F) /\ s.order \in Seq(R) /\ s.roots \in Seq(Plugins) /\ s.marks \in [Plugins -> Progress]
  BY DEF Searches
<1>2. R \subseteq Plugins
  BY DEF Readable
<1> HIDE DEF F, R, q
<1>3. \A i \in 1..Len(q) : q[i] \in F
  BY <1>1
<1>4. \A i \in 1..Len(q) : q[i].id \in R /\ q[i].left \in Seq(R)
  BY <1>3 DEF F, Frames, R
<1>5. \A i \in 1..Len(q) : Len(q[i].left) \in Nat
  BY <1>4
<1>6. \A i \in 1..Len(s.order) : s.order[i] \in R
  BY <1>1
<1>7. \A p \in Plugins : s.marks[p] \in {"new", "visiting", "done"}
  BY <1>1 DEF Progress
<1>8. Len(q) \in Nat /\ Len(s.order) \in Nat /\ Len(s.roots) \in Nat
  BY <1>1
<1> QED  BY <1>1, <1>2, <1>4, <1>5, <1>6, <1>7, <1>8 DEF q, R

LEMMA StartInv ==
  ASSUME NEW defs
  PROVE  SearchStart \in Searches(defs) /\ SearchInv(SearchStart, defs)
<1> DEFINE s == SearchStart
<1>1. /\ s.marks = [p \in Plugins |-> "new"] /\ s.path = <<>> /\ s.order = <<>>
      /\ s.cyclic = {} /\ s.roots = Discovered
  BY DEF SearchStart
<1>2. s \in Searches(defs)
  BY DiscoveredAssumption DEF SearchStart, Searches, Progress
<1> HIDE DEF s
<1>3. Len(s.path) = 0 /\ Len(s.order) = 0
  BY <1>1
<1>4. Marked(s)
  BY <1>1, <1>3 DEF Marked, OnPath, InOrder
<1>5. Along(s, defs) /\ Remaining(s, defs) /\ Handled(s, defs)
  BY <1>3 DEF Along, Remaining, Handled
<1>6. Sorted(s.order, s.cyclic, defs) /\ CyclesFound(s.cyclic, defs)
  BY <1>1, <1>3 DEF Sorted, CyclesFound
<1>7. Kept(s, defs)
  BY <1>1, DiscoveredAssumption DEF Kept, Readable
<1> QED  BY <1>2, <1>4, <1>5, <1>6, <1>7 DEF SearchInv, s

\* A root is taken: those that stay are the others.
RootTaken(s, t) ==
    \A i \in 1..Len(s.roots) : i # 1 => \E j \in 1..Len(t.roots) : t.roots[j] = s.roots[i]

LEMMA RootsLeft ==
  ASSUME NEW defs, NEW s \in Searches(defs), NEW t \in Searches(defs), s.roots # <<>>, t.roots = Tail(s.roots)
  PROVE  /\ Len(t.roots) = Len(s.roots) - 1 /\ Len(s.roots) # 0 /\ s.roots[1] \in Plugins
         /\ RootTaken(s, t)
<1> DEFINE q == s.roots
<1>1. q \in Seq(Plugins) /\ q # <<>>
  BY DEF Searches
<1> HIDE DEF q
<1>2. Len(Tail(q)) = Len(q) - 1 /\ Len(q) # 0 /\ q[1] \in Plugins /\ \A j \in 1..Len(Tail(q)) : Tail(q)[j] = q[j + 1]
  BY <1>1
<1>3. \A i \in 1..Len(q) : i # 1 => i - 1 \in 1..(Len(q) - 1) /\ (i - 1) + 1 = i
  BY <1>1
<1>4. ASSUME NEW i \in 1..Len(q), i # 1 PROVE \E j \in 1..Len(Tail(q)) : Tail(q)[j] = q[i]
  <2>1. i - 1 \in 1..Len(Tail(q)) /\ (i - 1) + 1 = i
    BY <1>2, <1>3, <1>4
  <2> QED  BY <1>2, <2>1
<1> QED  BY <1>2, <1>4 DEF q, RootTaken

LEMMA SkipsRootInv ==
  ASSUME NEW defs, NEW s \in Searches(defs), NEW t \in Searches(defs),
         SearchInv(s, defs), SkipsRoot(s, t, defs)
  PROVE  SearchInv(t, defs)
<1>1. /\ RootTaken(s, t)
      /\ t.path = s.path /\ t.marks = s.marks /\ t.order = s.order /\ t.cyclic = s.cyclic
      /\ s.roots[1] \notin Readable(defs) \/ s.marks[s.roots[1]] = "done"
  BY RootsLeft DEF SkipsRoot
<1>2. Kept(t, defs)
  BY <1>1 DEF Kept, SearchInv, RootTaken
<1>3. Marked(t) /\ Along(t, defs) /\ Remaining(t, defs) /\ Handled(t, defs)
  BY <1>1 DEF SearchInv, Marked, Along, Remaining, Handled, OnPath, InOrder, InLeft
<1> QED  BY <1>1, <1>2, <1>3 DEF SearchInv

LEMMA PushesRootInv ==
  ASSUME NEW defs, Definitions(defs), NEW s \in Searches(defs), NEW t \in Searches(defs),
         SearchInv(s, defs), PushesRoot(s, t, defs)
  PROVE  SearchInv(t, defs)
<1> DEFINE p == s.roots[1]
           f == Frame(p, defs)
<1>1. /\ RootTaken(s, t)
      /\ p \in Plugins
  BY RootsLeft DEF PushesRoot
<1>2. /\ s.path = <<>> /\ p \in Readable(defs) /\ s.marks[p] # "done"
      /\ Len(t.path) = 1 /\ t.path[1] = f
      /\ t.marks = [s.marks EXCEPT ![p] = "visiting"] /\ t.order = s.order /\ t.cyclic = s.cyclic
  BY DEF PushesRoot
<1> HIDE DEF p
<1>3. /\ f.id = p /\ \A m \in 1..Len(f.left) : Edge(defs, p, f.left[m])
      /\ \A d : Edge(defs, p, d) => \E m \in 1..Len(f.left) : f.left[m] = d
  BY <1>2, FrameHolds
<1> HIDE DEF f
<1>4. /\ s.marks \in [Plugins -> Progress] /\ t.marks[p] = "visiting"
      /\ \A x \in Plugins : x # p => t.marks[x] = s.marks[x]
  BY <1>1, <1>2, SearchParts
<1>5. \A x \in Plugins : s.marks[x] # "visiting"
  <2>1. Len(s.path) = 0
    BY <1>2
  <2> QED  BY <2>1 DEF SearchInv, Marked, OnPath
<1>6. Marked(t)
  <2>1. \A i, j \in 1..Len(t.path) : t.path[i].id = t.path[j].id => i = j
    BY <1>2
  <2>2. \A i, j \in 1..Len(t.order) : t.order[i] = t.order[j] => i = j
    BY <1>2 DEF SearchInv, Marked
  <2>3. \A x : OnPath(t, x) <=> x = p
    BY <1>2, <1>3 DEF OnPath
  <2>4. \A x \in Plugins : t.marks[x] = "visiting" <=> OnPath(t, x)
    BY <1>4, <1>5, <2>3
  <2>5. \A x \in Plugins : t.marks[x] = "done" <=> InOrder(t, x)
    <3>1. \A x : InOrder(t, x) <=> InOrder(s, x)
      BY <1>2 DEF InOrder
    <3>2. \A x \in Plugins : t.marks[x] = "done" <=> s.marks[x] = "done"
      BY <1>2, <1>4
    <3> QED  BY <3>1, <3>2 DEF SearchInv, Marked
  <2> QED  BY <2>1, <2>2, <2>4, <2>5 DEF Marked
<1>7. Along(t, defs)
  BY <1>2 DEF Along
<1>8. Remaining(t, defs)
  BY <1>2, <1>3 DEF Remaining, InLeft
<1>9. Handled(t, defs)
  BY <1>2, <1>3 DEF Handled, InLeft
<1>10. Kept(t, defs)
  <2> SUFFICES ASSUME NEW x \in Readable(defs), t.marks[x] = "new"
               PROVE  \E i \in 1..Len(t.roots) : t.roots[i] = x
    BY DEF Kept
  <2>1. x \in Plugins /\ x # p /\ s.marks[x] = "new"
    BY <1>4 DEF Readable
  <2>2. PICK i \in 1..Len(s.roots) : s.roots[i] = x
    BY <2>1 DEF SearchInv, Kept
  <2>3. i # 1
    BY <2>1, <2>2 DEF p
  <2> QED  BY <1>1, <2>2, <2>3 DEF RootTaken
<1>11. Sorted(t.order, t.cyclic, defs) /\ CyclesFound(t.cyclic, defs)
  BY <1>2 DEF SearchInv
<1> QED  BY <1>6, <1>7, <1>8, <1>9, <1>10, <1>11 DEF SearchInv

LEMMA PopsInv ==
  ASSUME NEW defs, NEW s \in Searches(defs), NEW t \in Searches(defs),
         SearchInv(s, defs), Pops(s, t)
  PROVE  SearchInv(t, defs)
<1> DEFINE n == Len(s.path)
           p == s.path[n].id
           l == Len(s.order)
<1>1. /\ n # 0 /\ s.path[n].left = <<>> /\ Len(t.path) = n - 1 /\ \A i \in 1..(n - 1) : t.path[i] = s.path[i]
      /\ t.marks = [s.marks EXCEPT ![p] = "done"] /\ t.order = Append(s.order, p)
      /\ t.roots = s.roots /\ t.cyclic = s.cyclic
  BY DEF Pops
<1>2. /\ n \in Nat /\ n \in 1..n /\ \A i \in 1..(n - 1) : i \in 1..n /\ i # n /\ i + 1 \in 1..n
      /\ \A i \in 1..n : i = n \/ i \in 1..(n - 1)
  BY <1>1, SearchParts
<1>3. p \in Readable(defs) /\ p \in Plugins /\ l \in Nat /\ s.order \in Seq(Readable(defs))
      /\ s.marks \in [Plugins -> Progress] /\ Readable(defs) \subseteq Plugins
  <2> HIDE DEF n, l
  <2> QED  BY <1>2, SearchParts DEF n, l
<1> HIDE DEF n, p, l
<1>4. /\ Len(t.order) = l + 1 /\ t.order[l + 1] = p /\ \A i \in 1..l : t.order[i] = s.order[i]
      /\ \A i \in 1..(l + 1) : i = l + 1 \/ i \in 1..l
      /\ l + 1 \in 1..(l + 1) /\ \A i \in 1..l : i \in 1..(l + 1) /\ i < l + 1
  <2>1. /\ Len(t.order) = l + 1 /\ t.order[l + 1] = p /\ \A i \in 1..l : t.order[i] = s.order[i]
    <3> DEFINE q == s.order
    <3>1. q \in Seq(Readable(defs)) /\ l = Len(q)
      BY <1>3 DEF l
    <3> HIDE DEF q
    <3>2. Len(Append(q, p)) = l + 1 /\ Append(q, p)[l + 1] = p /\ \A i \in 1..l : Append(q, p)[i] = q[i]
      BY <1>3, <3>1, AppendProperties
    <3> QED  BY <1>1, <3>2 DEF q
  <2> QED  BY <1>3, <2>1
<1>5. t.marks[p] = "done" /\ \A x \in Plugins : x # p => t.marks[x] = s.marks[x]
  BY <1>1, <1>3
<1>6. s.path[n].id = p /\ s.marks[p] = "visiting" /\ ~InOrder(s, p)
  <2>1. s.path[n].id = p
    BY DEF p
  <2>2. OnPath(s, p)
    BY <1>2, <2>1 DEF OnPath, n
  <2>3. s.marks[p] = "visiting"
    BY <1>3, <2>2 DEF SearchInv, Marked
  <2> QED  BY <1>3, <2>1, <2>3 DEF SearchInv, Marked
<1>7. \A x : InOrder(t, x) <=> InOrder(s, x) \/ x = p
  BY <1>4 DEF InOrder, l
<1>8. \A x : OnPath(t, x) <=> OnPath(s, x) /\ x # p
  <2>1. ASSUME NEW x, OnPath(t, x) PROVE OnPath(s, x) /\ x # p
    <3>1. PICK i \in 1..(n - 1) : t.path[i].id = x
      BY <1>1, <2>1 DEF OnPath
    <3>2. s.path[i].id = x /\ i \in 1..n /\ i # n
      BY <1>1, <1>2, <3>1
    <3> QED  BY <1>2, <1>6, <3>2 DEF OnPath, SearchInv, Marked, n
  <2>2. ASSUME NEW x, OnPath(s, x), x # p PROVE OnPath(t, x)
    <3>1. PICK i \in 1..n : s.path[i].id = x
      BY <2>2 DEF OnPath, n
    <3>2. i \in 1..(n - 1)
      BY <1>2, <1>6, <2>2, <3>1
    <3> QED  BY <1>1, <3>1, <3>2 DEF OnPath
  <2> QED  BY <2>1, <2>2
<1>9. Marked(t)
  <2>1. \A i, j \in 1..Len(t.path) : t.path[i].id = t.path[j].id => i = j
    <3>1. \A i, j \in 1..n : s.path[i].id = s.path[j].id => i = j
      BY DEF SearchInv, Marked, n
    <3> SUFFICES ASSUME NEW i \in 1..(n - 1), NEW j \in 1..(n - 1), t.path[i].id = t.path[j].id
                 PROVE  i = j
      BY <1>1
    <3>2. i \in 1..n /\ j \in 1..n /\ s.path[i].id = s.path[j].id
      BY <1>1, <1>2
    <3> QED  BY <3>1, <3>2
  <2>2. \A i, j \in 1..Len(t.order) : t.order[i] = t.order[j] => i = j
    <3>1. \A i \in 1..l : t.order[i] # p
      BY <1>4, <1>6 DEF InOrder, l
    <3>2. \A i, j \in 1..l : t.order[i] = t.order[j] => i = j
      BY <1>4 DEF SearchInv, Marked, l
    <3> QED  BY <1>4, <3>1, <3>2
  <2>3. \A x \in Plugins : t.marks[x] = "visiting" <=> OnPath(t, x)
    BY <1>5, <1>8 DEF SearchInv, Marked
  <2>4. \A x \in Plugins : t.marks[x] = "done" <=> InOrder(t, x)
    BY <1>5, <1>7 DEF SearchInv, Marked
  <2> QED  BY <2>1, <2>2, <2>3, <2>4 DEF Marked
<1>10. Along(t, defs)
  BY <1>1, <1>2 DEF SearchInv, Along, n
<1>11. Remaining(t, defs)
  BY <1>1, <1>2 DEF SearchInv, Remaining, InLeft, n
<1>12. Handled(t, defs)
  <2> SUFFICES ASSUME NEW i \in 1..(n - 1), NEW d \in Readable(defs), Edge(defs, t.path[i].id, d)
               PROVE  \/ InLeft(t, i, d)
                      \/ t.marks[d] = "done"
                      \/ i + 1 <= n - 1 /\ t.path[i + 1].id = d
                      \/ t.path[i].id \in t.cyclic /\ \E k \in 1..i : t.path[k].id = d
    BY <1>1 DEF Handled
  <2>1. i \in 1..n /\ t.path[i] = s.path[i] /\ d \in Plugins
    BY <1>1, <1>2, <1>3
  <2>2. \/ InLeft(s, i, d)
        \/ s.marks[d] = "done"
        \/ i + 1 <= n /\ s.path[i + 1].id = d
        \/ s.path[i].id \in s.cyclic /\ \E k \in 1..i : s.path[k].id = d
    BY <2>1 DEF SearchInv, Handled, n
  <2>3. CASE InLeft(s, i, d)
    BY <2>1, <2>3 DEF InLeft
  <2>4. CASE s.marks[d] = "done"
    BY <1>5, <2>1, <2>4
  <2>5. CASE i + 1 <= n /\ s.path[i + 1].id = d
    <3>1. CASE i + 1 = n
      BY <1>5, <1>6, <2>5, <3>1
    <3>2. CASE i + 1 # n
      <4>1. i + 1 \in 1..(n - 1) /\ i + 1 <= n - 1
        BY <1>2, <2>5, <3>2
      <4> QED  BY <1>1, <2>5, <4>1
    <3> QED  BY <3>1, <3>2
  <2>6. CASE s.path[i].id \in s.cyclic /\ \E k \in 1..i : s.path[k].id = d
    <3>1. PICK k \in 1..i : s.path[k].id = d
      BY <2>6
    <3>2. k \in 1..(n - 1)
      BY <1>2
    <3> QED  BY <1>1, <2>1, <2>6, <3>1, <3>2
  <2> QED  BY <2>2, <2>3, <2>4, <2>5, <2>6
<1>13. Sorted(t.order, t.cyclic, defs)
  <2> SUFFICES ASSUME NEW j \in 1..(l + 1), NEW d \in Readable(defs), Edge(defs, t.order[j], d)
               PROVE  \/ \E i \in 1..(l + 1) : i < j /\ t.order[i] = d
                      \/ t.order[j] \in t.cyclic /\ t.order[j] \in Reach(defs, d)
    BY <1>4 DEF Sorted
  <2>1. CASE j \in 1..l
    <3>1. \/ \E i \in 1..l : i < j /\ s.order[i] = d
          \/ s.order[j] \in s.cyclic /\ s.order[j] \in Reach(defs, d)
      BY <1>4, <2>1 DEF SearchInv, Sorted, l
    <3> QED  BY <1>1, <1>4, <2>1, <3>1
  <2>2. CASE j = l + 1
    <3>1. t.order[j] = p /\ Edge(defs, p, d) /\ d \in Plugins
      BY <1>3, <1>4, <2>2
    <3>2. ~InLeft(s, n, d)
      BY <1>1 DEF InLeft
    <3>3. \/ s.marks[d] = "done"
          \/ p \in s.cyclic /\ \E k \in 1..n : s.path[k].id = d
      <4>1. \/ InLeft(s, n, d)
            \/ s.marks[d] = "done"
            \/ n + 1 <= n /\ s.path[n + 1].id = d
            \/ s.path[n].id \in s.cyclic /\ \E k \in 1..n : s.path[k].id = d
        BY <1>2, <1>6, <3>1 DEF SearchInv, Handled, n
      <4>2. ~(n + 1 <= n)
        BY <1>2
      <4> QED  BY <1>6, <3>2, <4>1, <4>2
    <3>4. CASE s.marks[d] = "done"
      <4>1. InOrder(s, d)
        BY <3>1, <3>4 DEF SearchInv, Marked
      <4>2. PICK i \in 1..l : s.order[i] = d
        BY <4>1 DEF InOrder, l
      <4> QED  BY <1>4, <2>2, <4>2
    <3>5. CASE p \in s.cyclic /\ \E k \in 1..n : s.path[k].id = d
      <4>1. PICK k \in 1..n : s.path[k].id = d
        BY <3>5
      <4>2. p \in Reach(defs, d)
        <5>1. CASE k = n
          BY <1>6, <3>1, <4>1, <5>1, ReachEdge
        <5>2. CASE k # n
          <6>1. k < n
            BY <1>2, <5>2
          <6> QED  BY <1>2, <1>6, <4>1, <6>1 DEF SearchInv, Along, n
        <5> QED  BY <5>1, <5>2
      <4> QED  BY <1>1, <3>1, <3>5, <4>2
    <3> QED  BY <3>3, <3>4, <3>5
  <2> QED  BY <1>4, <2>1, <2>2
<1>14. CyclesFound(t.cyclic, defs)
  BY <1>1 DEF SearchInv
<1>15. Kept(t, defs)
  <2>1. \A x \in Readable(defs) : t.marks[x] = "new" => s.marks[x] = "new"
    BY <1>3, <1>5
  <2> QED  BY <1>1, <2>1 DEF SearchInv, Kept
<1> QED  BY <1>9, <1>10, <1>11, <1>12, <1>13, <1>14, <1>15 DEF SearchInv

\* The frame that looks at a dependency has the others still to visit.
LooksLeft(s, t, defs) ==
    LET n == Len(s.path)
    IN  /\ NextOf(s) \in Readable(defs) /\ InLeft(s, n, NextOf(s))
        /\ \A i \in 1..n : \A d : InLeft(t, i, d) => InLeft(s, i, d)
        /\ \A i \in 1..n : \A d : InLeft(s, i, d) => InLeft(t, i, d) \/ (i = n /\ d = NextOf(s))

LEMMA LooksFields ==
  ASSUME NEW defs, NEW s \in Searches(defs), NEW t, Looks(s, t)
  PROVE  /\ LooksLeft(s, t, defs)
         /\ Len(s.path) \in Nat /\ Len(s.path) \in 1..Len(s.path)
         /\ Len(t.path[Len(s.path)].left) = Len(s.path[Len(s.path)].left) - 1
<1> DEFINE n == Len(s.path)
           left == s.path[n].left
           rest == t.path[n].left
           R == Readable(defs)
<1>1. /\ n # 0 /\ left # <<>> /\ rest = Tail(left)
      /\ \A i \in 1..(n - 1) : t.path[i].left = s.path[i].left
  BY DEF Looks
<1>2. n \in Nat /\ n \in 1..n /\ \A i \in 1..n : i = n \/ i \in 1..(n - 1)
  <2>1. n \in Nat
    BY SearchParts
  <2> HIDE DEF n
  <2> QED  BY <1>1, <2>1
<1>3. left \in Seq(R)
  <2> HIDE DEF n
  <2> QED  BY <1>2, SearchParts DEF n
<1> HIDE DEF left, rest, R
<1>4. /\ left[1] \in R /\ 1 \in 1..Len(left) /\ Len(rest) = Len(left) - 1
      /\ \A m \in 1..Len(rest) : m + 1 \in 1..Len(left) /\ rest[m] = left[m + 1]
      /\ \A m \in 1..Len(left) : m = 1 \/ (m - 1 \in 1..Len(rest) /\ rest[m - 1] = left[m])
  BY <1>1, <1>3
<1>5. NextOf(s) = left[1]
  BY DEF NextOf, left
<1>6. ASSUME NEW i \in 1..n, NEW d, InLeft(t, i, d) PROVE InLeft(s, i, d)
  <2>1. CASE i = n
    <3>1. PICK m \in 1..Len(rest) : rest[m] = d
      BY <1>6, <2>1 DEF InLeft, rest
    <3> QED  BY <1>4, <2>1, <3>1 DEF InLeft, left
  <2>2. CASE i # n
    BY <1>1, <1>2, <1>6, <2>2 DEF InLeft
  <2> QED  BY <2>1, <2>2
<1>7. ASSUME NEW i \in 1..n, NEW d, InLeft(s, i, d) PROVE InLeft(t, i, d) \/ (i = n /\ d = NextOf(s))
  <2>1. CASE i = n
    <3>1. PICK m \in 1..Len(left) : left[m] = d
      BY <1>7, <2>1 DEF InLeft, left
    <3>2. CASE m = 1
      BY <1>5, <2>1, <3>1, <3>2
    <3>3. CASE m # 1
      BY <1>4, <2>1, <3>1, <3>3 DEF InLeft, rest
    <3> QED  BY <3>2, <3>3
  <2>2. CASE i # n
    BY <1>1, <1>2, <1>7, <2>2 DEF InLeft
  <2> QED  BY <2>1, <2>2
<1>8. InLeft(s, n, NextOf(s))
  BY <1>4, <1>5 DEF InLeft, left
<1>9. LooksLeft(s, t, defs)
  BY <1>4, <1>5, <1>6, <1>7, <1>8 DEF LooksLeft, R
<1> QED  BY <1>2, <1>4, <1>9 DEF left, rest

\* What every look preserves, and what it leaves to show of the dependency it looks at.
LEMMA LooksKeep ==
  ASSUME NEW defs, NEW s \in Searches(defs), NEW t \in Searches(defs), SearchInv(s, defs), Looks(s, t),
         Len(t.path) = Len(s.path), t.marks = s.marks, s.cyclic \subseteq t.cyclic,
         \/ t.marks[NextOf(s)] = "done"
         \/ /\ s.path[Len(s.path)].id \in t.cyclic
            /\ \E k \in 1..Len(s.path) : s.path[k].id = NextOf(s),
         CyclesFound(t.cyclic, defs)
  PROVE  SearchInv(t, defs)
<1> DEFINE n == Len(s.path)
<1>1. /\ t.order = s.order /\ t.roots = s.roots /\ Len(t.path) = n
      /\ \A i \in 1..n : t.path[i].id = s.path[i].id
  BY DEF Looks
<1>2. LooksLeft(s, t, defs) /\ n \in Nat /\ n \in 1..n
  BY LooksFields
<1>3. Marked(t)
  <2>1. \A x : OnPath(t, x) <=> OnPath(s, x)
    BY <1>1 DEF OnPath
  <2>2. \A x : InOrder(t, x) <=> InOrder(s, x)
    BY <1>1 DEF InOrder
  <2>3. \A i, j \in 1..Len(t.path) : t.path[i].id = t.path[j].id => i = j
    BY <1>1 DEF SearchInv, Marked
  <2> QED  BY <1>1, <2>1, <2>2, <2>3 DEF SearchInv, Marked
<1>4. Along(t, defs)
  BY <1>1 DEF SearchInv, Along
<1>5. Remaining(t, defs)
  BY <1>1, <1>2 DEF SearchInv, Remaining, LooksLeft
<1>6. Handled(t, defs)
  <2> SUFFICES ASSUME NEW i \in 1..n, NEW d \in Readable(defs), Edge(defs, t.path[i].id, d)
               PROVE  \/ InLeft(t, i, d)
                      \/ t.marks[d] = "done"
                      \/ i + 1 <= n /\ t.path[i + 1].id = d
                      \/ t.path[i].id \in t.cyclic /\ \E k \in 1..i : t.path[k].id = d
    BY <1>1 DEF Handled
  <2>1. \/ InLeft(s, i, d)
        \/ s.marks[d] = "done"
        \/ i + 1 <= n /\ s.path[i + 1].id = d
        \/ s.path[i].id \in s.cyclic /\ \E k \in 1..i : s.path[k].id = d
    BY <1>1 DEF SearchInv, Handled
  <2>2. CASE InLeft(s, i, d)
    <3>1. CASE InLeft(t, i, d)
      BY <3>1
    <3>2. CASE i = n /\ d = NextOf(s)
      <4>1. CASE t.marks[d] = "done"
        BY <4>1
      <4>2. CASE s.path[n].id \in t.cyclic /\ \E k \in 1..n : s.path[k].id = d
        BY <1>1, <1>2, <3>2, <4>2
      <4> QED  BY <3>2, <4>1, <4>2
    <3> QED  BY <1>2, <2>2, <3>1, <3>2 DEF LooksLeft
  <2>3. CASE s.marks[d] = "done"
    BY <2>3
  <2>4. CASE i + 1 <= n /\ s.path[i + 1].id = d
    <3>1. i + 1 \in 1..n
      BY <1>2, <2>4
    <3> QED  BY <1>1, <2>4, <3>1
  <2>5. CASE s.path[i].id \in s.cyclic /\ \E k \in 1..i : s.path[k].id = d
    <3>1. \A k \in 1..i : k \in 1..n
      BY <1>2
    <3> QED  BY <1>1, <2>5, <3>1
  <2> QED  BY <2>1, <2>2, <2>3, <2>4, <2>5
<1>7. Sorted(t.order, t.cyclic, defs)
  BY <1>1 DEF SearchInv, Sorted
<1>8. Kept(t, defs)
  BY <1>1 DEF SearchInv, Kept
<1> QED  BY <1>3, <1>4, <1>5, <1>6, <1>7, <1>8 DEF SearchInv

LEMMA LooksDoneInv ==
  ASSUME NEW defs, NEW s \in Searches(defs), NEW t \in Searches(defs),
         SearchInv(s, defs), LooksDone(s, t)
  PROVE  SearchInv(t, defs)
<1>1. CyclesFound(t.cyclic, defs)
  BY DEF LooksDone, SearchInv
<1> QED  BY <1>1, LooksKeep DEF LooksDone

LEMMA LooksBackInv ==
  ASSUME NEW defs, NEW s \in Searches(defs), NEW t \in Searches(defs),
         SearchInv(s, defs), LooksBack(s, t)
  PROVE  SearchInv(t, defs)
<1> DEFINE n == Len(s.path)
           d == NextOf(s)
<1>1. /\ Looks(s, t) /\ Len(t.path) = n /\ t.marks = s.marks
      /\ s.marks[d] = "visiting" /\ t.cyclic = s.cyclic \cup CycleFrom(s.path, d)
  BY DEF LooksBack
<1>2. LooksLeft(s, t, defs) /\ n \in Nat /\ n \in 1..n
  BY <1>1, LooksFields
<1>3. d \in Readable(defs) /\ d \in Plugins /\ Edge(defs, s.path[n].id, d)
  BY <1>2 DEF LooksLeft, SearchInv, Remaining, Readable
<1> HIDE DEF d
<1>4. PICK k \in 1..n : s.path[k].id = d
  BY <1>1, <1>3 DEF SearchInv, Marked, OnPath
<1>5. s.path[n].id \in CycleFrom(s.path, d)
  BY <1>2, <1>4 DEF CycleFrom
<1>6. ASSUME NEW p \in CycleFrom(s.path, d) PROVE InCycle(defs, p)
  <2>1. PICK j \in 1..n : s.path[j].id = p /\ \E m \in 1..j : s.path[m].id = d
    BY DEF CycleFrom
  <2>2. PICK m \in 1..j : s.path[m].id = d
    BY <2>1
  <2>3. m \in 1..n /\ (m = j \/ m < j) /\ (j = n \/ j < n)
    BY <1>2
  <2>4. d \in Reach(defs, s.path[n].id)
    BY <1>3, ReachEdge
  <2>5. d \in Reach(defs, p)
    <3>1. CASE j = n
      BY <2>1, <2>4, <3>1
    <3>2. CASE j # n
      <4>1. s.path[n].id \in Reach(defs, p)
        BY <1>2, <2>1, <2>3, <3>2 DEF SearchInv, Along
      <4> QED  BY <2>4, <4>1, ReachAgain
    <3> QED  BY <3>1, <3>2
  <2>6. CASE m = j
    BY <2>1, <2>2, <2>5, <2>6 DEF InCycle
  <2>7. CASE m # j
    <3>1. p \in Reach(defs, d)
      BY <2>1, <2>2, <2>3, <2>7 DEF SearchInv, Along
    <3> QED  BY <2>5, <3>1, ReachAgain DEF InCycle
  <2> QED  BY <2>6, <2>7
<1>7. CyclesFound(t.cyclic, defs)
  BY <1>1, <1>6 DEF SearchInv, CyclesFound
<1>8. s.cyclic \subseteq t.cyclic /\ s.path[n].id \in t.cyclic
  BY <1>1, <1>5
<1>9. \E m \in 1..Len(s.path) : s.path[m].id = NextOf(s)
  BY <1>4 DEF d
<1> QED  BY <1>1, <1>7, <1>8, <1>9, LooksKeep

LEMMA LooksNewInv ==
  ASSUME NEW defs, Definitions(defs), NEW s \in Searches(defs), NEW t \in Searches(defs),
         SearchInv(s, defs), LooksNew(s, t, defs)
  PROVE  SearchInv(t, defs)
<1> DEFINE n == Len(s.path)
           p == NextOf(s)
           f == Frame(p, defs)
<1>1. /\ Looks(s, t) /\ Len(t.path) = n + 1 /\ t.path[n + 1] = f /\ s.marks[p] = "new"
      /\ t.marks = [s.marks EXCEPT ![p] = "visiting"] /\ t.cyclic = s.cyclic
  BY DEF LooksNew
<1>2. LooksLeft(s, t, defs) /\ n \in Nat /\ n \in 1..n
  BY <1>1, LooksFields
<1>3. p \in Readable(defs) /\ p \in Plugins /\ Edge(defs, s.path[n].id, p)
  BY <1>2 DEF LooksLeft, SearchInv, Remaining, Readable
<1>4. t.order = s.order /\ t.roots = s.roots /\ \A i \in 1..n : t.path[i].id = s.path[i].id
  BY <1>1 DEF Looks
<1> HIDE DEF p, f
<1>5. /\ f.id = p /\ \A m \in 1..Len(f.left) : Edge(defs, p, f.left[m])
      /\ \A d : Edge(defs, p, d) => \E m \in 1..Len(f.left) : f.left[m] = d
  BY <1>3, FrameHolds DEF f
<1>6. t.marks[p] = "visiting" /\ \A x \in Plugins : x # p => t.marks[x] = s.marks[x]
  BY <1>1, <1>3, SearchParts
<1>7. ~OnPath(s, p) /\ ~InOrder(s, p)
  BY <1>1, <1>3 DEF SearchInv, Marked
<1> HIDE DEF n
<1>8. /\ \A i \in 1..(n + 1) : i = n + 1 \/ i \in 1..n
      /\ \A i \in 1..n : i \in 1..(n + 1) /\ i # n + 1 /\ i + 1 <= n + 1
      /\ n + 1 \in 1..(n + 1)
  BY <1>2
<1>9. \A x : OnPath(t, x) <=> OnPath(s, x) \/ x = p
  BY <1>1, <1>4, <1>5, <1>8 DEF OnPath, n
<1>10. Marked(t)
  <2>1. \A i \in 1..n : s.path[i].id # p
    BY <1>7 DEF OnPath, n
  <2>2. \A i, j \in 1..n : s.path[i].id = s.path[j].id => i = j
    BY DEF SearchInv, Marked, n
  <2>3. \A i, j \in 1..(n + 1) : t.path[i].id = t.path[j].id => i = j
    BY <1>1, <1>4, <1>5, <1>8, <2>1, <2>2
  <2>4. \A x \in Plugins : t.marks[x] = "visiting" <=> OnPath(t, x)
    BY <1>6, <1>9 DEF SearchInv, Marked
  <2>5. \A x \in Plugins : t.marks[x] = "done" <=> InOrder(t, x)
    <3>1. \A x : InOrder(t, x) <=> InOrder(s, x)
      BY <1>4 DEF InOrder
    <3> QED  BY <1>6, <1>7, <3>1 DEF SearchInv, Marked
  <2> QED  BY <1>1, <1>4, <2>3, <2>4, <2>5 DEF SearchInv, Marked
<1>11. Along(t, defs)
  <2>1. ASSUME NEW i \in 1..n PROVE p \in Reach(defs, s.path[i].id)
    <3>1. p \in Reach(defs, s.path[n].id)
      BY <1>3, ReachEdge DEF n
    <3>2. CASE i = n
      BY <3>1, <3>2
    <3>3. CASE i # n
      <4>1. i < n
        BY <1>2, <3>3
      <4>2. s.path[n].id \in Reach(defs, s.path[i].id)
        BY <1>2, <4>1 DEF SearchInv, Along, n
      <4> QED  BY <3>1, <4>2, ReachAgain
    <3> QED  BY <3>2, <3>3
  <2> SUFFICES ASSUME NEW i \in 1..(n + 1), NEW k \in 1..(n + 1), i < k
               PROVE  t.path[k].id \in Reach(defs, t.path[i].id)
    BY <1>1 DEF Along
  <2>2. i \in 1..n
    BY <1>2
  <2>3. CASE k = n + 1
    BY <1>1, <1>4, <1>5, <2>1, <2>2, <2>3
  <2>4. CASE k \in 1..n
    BY <1>4, <2>2, <2>4 DEF SearchInv, Along, n
  <2> QED  BY <1>8, <2>3, <2>4
<1>12. Remaining(t, defs)
  <2> SUFFICES ASSUME NEW i \in 1..(n + 1), NEW d \in Readable(defs), InLeft(t, i, d)
               PROVE  Edge(defs, t.path[i].id, d)
    BY <1>1 DEF Remaining
  <2>1. CASE i = n + 1
    BY <1>1, <1>5, <2>1 DEF InLeft
  <2>2. CASE i \in 1..n
    BY <1>2, <1>4, <2>2 DEF SearchInv, Remaining, LooksLeft, n
  <2> QED  BY <1>8, <2>1, <2>2
<1>13. Handled(t, defs)
  <2> SUFFICES ASSUME NEW i \in 1..(n + 1), NEW d \in Readable(defs), Edge(defs, t.path[i].id, d)
               PROVE  \/ InLeft(t, i, d)
                      \/ t.marks[d] = "done"
                      \/ i + 1 <= n + 1 /\ t.path[i + 1].id = d
                      \/ t.path[i].id \in t.cyclic /\ \E k \in 1..i : t.path[k].id = d
    BY <1>1 DEF Handled
  <2>1. CASE i = n + 1
    BY <1>1, <1>5, <2>1 DEF InLeft
  <2>2. CASE i \in 1..n
    <3>1. \/ InLeft(s, i, d)
          \/ s.marks[d] = "done"
          \/ i + 1 <= n /\ s.path[i + 1].id = d
          \/ s.path[i].id \in s.cyclic /\ \E k \in 1..i : s.path[k].id = d
      BY <1>4, <2>2 DEF SearchInv, Handled, n
    <3>2. CASE InLeft(s, i, d)
      <4>1. InLeft(t, i, d) \/ (i = n /\ d = p)
        BY <1>2, <2>2, <3>2 DEF LooksLeft, n, p
      <4> QED  BY <1>1, <1>2, <1>5, <4>1
    <3>3. CASE s.marks[d] = "done"
      BY <1>1, <1>6, <3>3 DEF Readable
    <3>4. CASE i + 1 <= n /\ s.path[i + 1].id = d
      <4>1. i + 1 \in 1..n
        BY <1>2, <2>2, <3>4
      <4> QED  BY <1>4, <1>8, <2>2, <3>4, <4>1
    <3>5. CASE s.path[i].id \in s.cyclic /\ \E k \in 1..i : s.path[k].id = d
      <4>1. \A k \in 1..i : k \in 1..n
        BY <1>2, <2>2
      <4> QED  BY <1>1, <1>4, <2>2, <3>5, <4>1
    <3> QED  BY <3>1, <3>2, <3>3, <3>4, <3>5
  <2> QED  BY <1>8, <2>1, <2>2
<1>14. Sorted(t.order, t.cyclic, defs) /\ CyclesFound(t.cyclic, defs)
  BY <1>1, <1>4 DEF SearchInv
<1>15. Kept(t, defs)
  <2>1. \A x \in Readable(defs) : t.marks[x] = "new" => s.marks[x] = "new"
    BY <1>6 DEF Readable
  <2> QED  BY <1>4, <2>1 DEF SearchInv, Kept
<1> QED  BY <1>10, <1>11, <1>12, <1>13, <1>14, <1>15 DEF SearchInv

LEMMA SearchInvKept ==
  ASSUME NEW defs, Definitions(defs), NEW s \in Searches(defs), NEW t \in Searches(defs),
         SearchInv(s, defs), Moves(s, t, defs)
  PROVE  SearchInv(t, defs)
  BY SkipsRootInv, PushesRootInv, PopsInv, LooksDoneInv, LooksBackInv, LooksNewInv DEF Moves

-----------------------------------------------------------------------------
(***************************************************************************)
(* The search ends.  Every step takes a root, a plugin or a dependency.    *)
(***************************************************************************)

LEMMA PluginsCounted == IsFiniteSet(Plugins) /\ Cardinality(Plugins) \in Nat /\ Cardinality(Plugins) <= Len(Discovered)
<1> DEFINE n == Len(Discovered)
<1>1. n \in Nat /\ Discovered \in [1..n -> Plugins]
  BY DiscoveredAssumption
<1>2. Discovered \in Surjection(1..n, Plugins)
  BY <1>1, DiscoveredAssumption DEF Surjection
<1>3. IsFiniteSet(1..n) /\ Cardinality(1..n) = n
  <2> HIDE DEF n
  <2>1. 1 \in Int /\ n \in Int
    BY <1>1
  <2>2. IsFiniteSet(1..n) /\ Cardinality(1..n) = IF 1 > n THEN 0 ELSE n - 1 + 1
    BY <2>1, FS_Interval
  <2> QED  BY <1>1, <2>2
<1> HIDE DEF n
<1>4. IsFiniteSet(Plugins) /\ Cardinality(Plugins) <= Cardinality(1..n)
  BY <1>2, <1>3, FS_Surjection
<1>5. Cardinality(Plugins) \in Nat
  BY <1>4, FS_CardinalityType
<1> QED  BY <1>3, <1>4, <1>5 DEF n

\* The plugins not met yet, and those not ordered yet.
Fresh(marks) == {p \in Plugins : marks[p] = "new"}
Open(marks) == {p \in Plugins : marks[p] # "done"}
LeftOf(s) == IF Len(s.path) = 0 THEN 0 ELSE Len(s.path[Len(s.path)].left)

\* The steps a search may still take.
Work(s, defs) ==
    Len(s.roots) + (Longest(defs) + 1) * (Cardinality(Fresh(s.marks)) + Cardinality(Open(s.marks))) + LeftOf(s)

\* No frame holds more than the longest list.
Short(s, defs) == \A i \in 1..Len(s.path) : Len(s.path[i].left) <= Longest(defs)

LEMMA Counted ==
  ASSUME NEW marks
  PROVE  /\ Cardinality(Fresh(marks)) \in Nat /\ Cardinality(Open(marks)) \in Nat
         /\ IsFiniteSet(Fresh(marks)) /\ IsFiniteSet(Open(marks))
<1>1. Fresh(marks) \in SUBSET Plugins /\ Open(marks) \in SUBSET Plugins
  BY DEF Fresh, Open
<1>2. IsFiniteSet(Fresh(marks)) /\ IsFiniteSet(Open(marks))
  BY <1>1, PluginsCounted, FS_Subset
<1> QED  BY <1>2, FS_CardinalityType

\* A plugin is met.
LEMMA MeetCounts ==
  ASSUME NEW marks \in [Plugins -> Progress], NEW p \in Plugins, marks[p] = "new"
  PROVE  LET new == [marks EXCEPT ![p] = "visiting"]
         IN  /\ Cardinality(Fresh(new)) = Cardinality(Fresh(marks)) - 1
             /\ Cardinality(Open(new)) = Cardinality(Open(marks))
<1> DEFINE new == [marks EXCEPT ![p] = "visiting"]
<1>1. Fresh(new) = Fresh(marks) \ {p} /\ p \in Fresh(marks) /\ Open(new) = Open(marks)
  BY DEF Fresh, Open
<1> HIDE DEF new
<1>2. Cardinality(Fresh(marks) \ {p}) = Cardinality(Fresh(marks)) - 1
  BY <1>1, Counted, FS_RemoveElement
<1> QED  BY <1>1, <1>2 DEF new

\* A plugin is ordered.
LEMMA OrderCounts ==
  ASSUME NEW marks \in [Plugins -> Progress], NEW p \in Plugins, marks[p] = "visiting"
  PROVE  LET new == [marks EXCEPT ![p] = "done"]
         IN  /\ Cardinality(Fresh(new)) = Cardinality(Fresh(marks))
             /\ Cardinality(Open(new)) = Cardinality(Open(marks)) - 1
<1> DEFINE new == [marks EXCEPT ![p] = "done"]
<1>1. Fresh(new) = Fresh(marks) /\ Open(new) = Open(marks) \ {p} /\ p \in Open(marks)
  BY DEF Fresh, Open
<1> HIDE DEF new
<1>2. Cardinality(Open(marks) \ {p}) = Cardinality(Open(marks)) - 1
  BY <1>1, Counted, FS_RemoveElement
<1> QED  BY <1>1, <1>2 DEF new

LEMMA TimesLess == \A k, x \in Int : k * (x - 1) = k * x - k
  OBVIOUS

LEMMA TimesNat == \A k, x \in Nat : k * x \in Nat
  OBVIOUS

LEMMA WorkNat ==
  ASSUME NEW defs, Definitions(defs), NEW s \in Searches(defs)
  PROVE  Work(s, defs) \in Nat
<1> DEFINE k == Longest(defs) + 1
           x == Cardinality(Fresh(s.marks)) + Cardinality(Open(s.marks))
<1>1. k \in Nat /\ x \in Nat
  BY Counted, LongestBounds
<1>2. Len(s.roots) \in Nat /\ LeftOf(s) \in Nat
  BY SearchParts DEF LeftOf
<1> HIDE DEF k, x
<1>3. k * x \in Nat
  BY <1>1, TimesNat
<1> QED  BY <1>2, <1>3 DEF Work, k, x

LEMMA LeftNat ==
  ASSUME NEW defs, NEW s \in Searches(defs)
  PROVE  LeftOf(s) \in Nat
<1>1. Len(s.path) \in Nat
  BY SearchParts
<1>2. CASE Len(s.path) = 0
  BY <1>2 DEF LeftOf
<1>3. CASE Len(s.path) # 0
  <2>1. Len(s.path) \in 1..Len(s.path)
    BY <1>1, <1>3
  <2> QED  BY <1>3, <2>1, SearchParts DEF LeftOf
<1> QED  BY <1>2, <1>3

LEMMA ShortKept ==
  ASSUME NEW defs, Definitions(defs), NEW s \in Searches(defs), NEW t \in Searches(defs),
         SearchInv(s, defs), Short(s, defs), Moves(s, t, defs)
  PROVE  Short(t, defs)
<1> DEFINE n == Len(s.path)
<1>1. n \in Nat
  BY SearchParts
<1>2. CASE (Ends(s) /\ t = s) \/ SkipsRoot(s, t, defs)
  BY <1>2 DEF Short, SkipsRoot
<1>3. CASE PushesRoot(s, t, defs)
  BY <1>3, FrameHolds DEF Short, PushesRoot
<1>4. CASE Pops(s, t)
  <2>1. Len(t.path) = n - 1 /\ \A i \in 1..(n - 1) : t.path[i] = s.path[i]
    BY <1>4 DEF Pops
  <2>2. \A i \in 1..n : Len(s.path[i].left) <= Longest(defs)
    BY DEF Short
  <2>3. \A i \in 1..(n - 1) : i \in 1..n
    <3> HIDE DEF n
    <3> QED  BY <1>1
  <2>4. \A i \in 1..(n - 1) : Len(t.path[i].left) <= Longest(defs)
    BY <2>1, <2>2, <2>3
  <2> QED  BY <2>1, <2>4 DEF Short
<1>5. CASE Looks(s, t)
  <2>1. /\ Len(t.path[n].left) = Len(s.path[n].left) - 1 /\ n \in 1..n
        /\ \A i \in 1..(n - 1) : t.path[i].left = s.path[i].left
    BY <1>5, LooksFields DEF Looks
  <2>2. Len(s.path[n].left) \in Nat /\ Longest(defs) \in Nat /\ Len(s.path[n].left) <= Longest(defs)
    BY <2>1, SearchParts, LongestBounds DEF Short
  <2>3. Len(t.path[n].left) <= Longest(defs)
    BY <2>1, <2>2
  <2>4. \A i \in 1..n : i = n \/ i \in 1..(n - 1)
    <3> HIDE DEF n
    <3> QED  BY <1>1
  <2>5. \A i \in 1..n : Len(t.path[i].left) <= Longest(defs)
    BY <2>1, <2>3, <2>4 DEF Short
  <2>6. CASE Len(t.path) = n
    BY <2>5, <2>6 DEF Short
  <2>7. CASE LooksNew(s, t, defs)
    <3>1. Len(t.path) = n + 1 /\ t.path[n + 1] = Frame(NextOf(s), defs) /\ NextOf(s) \in Readable(defs)
      BY <2>7, LooksFields DEF LooksNew, LooksLeft
    <3>2. Len(t.path[n + 1].left) <= Longest(defs)
      BY <3>1, FrameHolds
    <3>3. \A i \in 1..(n + 1) : i = n + 1 \/ i \in 1..n
      <4> HIDE DEF n
      <4> QED  BY <1>1
    <3> QED  BY <2>5, <3>1, <3>2, <3>3 DEF Short
  <2>8. Len(t.path) = n \/ LooksNew(s, t, defs)
    <3>1. ~Ends(s) /\ ~SkipsRoot(s, t, defs) /\ ~PushesRoot(s, t, defs)
      <4>1. s.path # <<>>
        BY <1>5 DEF Looks
      <4> QED  BY <4>1 DEF Ends, SkipsRoot, PushesRoot
    <3>2. ~Pops(s, t)
      BY <1>5 DEF Looks, Pops
    <3> QED  BY <3>1, <3>2 DEF Moves, LooksDone, LooksBack
  <2> QED  BY <2>6, <2>7, <2>8
<1> QED  BY <1>2, <1>3, <1>4, <1>5 DEF Moves, LooksDone, LooksBack, LooksNew

LEMMA WorkLess ==
  ASSUME NEW defs, Definitions(defs), NEW s \in Searches(defs), NEW t \in Searches(defs),
         SearchInv(s, defs), Short(s, defs), Moves(s, t, defs), ~Ends(s)
  PROVE  Work(t, defs) < Work(s, defs)
<1> DEFINE n == Len(s.path)
           k == Longest(defs) + 1
           a == Cardinality(Fresh(s.marks))
           b == Cardinality(Open(s.marks))
           x == a + b
           y == Cardinality(Fresh(t.marks)) + Cardinality(Open(t.marks))
           r == Len(s.roots)
           l == LeftOf(s)
<1>1. /\ n \in Nat /\ k \in Nat /\ a \in Nat /\ b \in Nat /\ x \in Nat /\ y \in Nat
      /\ r \in Nat /\ l \in Nat /\ Len(t.roots) \in Nat /\ LeftOf(t) \in Nat
  <2>1. a \in Nat /\ b \in Nat /\ y \in Nat
    BY Counted
  <2>2. n \in Nat /\ r \in Nat /\ Len(t.roots) \in Nat
    BY SearchParts
  <2>3. l \in Nat /\ LeftOf(t) \in Nat
    BY LeftNat
  <2>4. k \in Nat
    BY LongestBounds
  <2> HIDE DEF k, l, r, n, y, a, b
  <2> QED  BY <2>1, <2>2, <2>3, <2>4
<1>2. Short(t, defs)
  BY ShortKept
<1>3. LeftOf(t) < k
  <2>1. Len(t.path) # 0 => Len(t.path) \in 1..Len(t.path)
    BY SearchParts
  <2> QED  BY SMTT(30), <1>1, <1>2, <2>1, LongestBounds DEF Short, LeftOf
<1>4. Work(s, defs) = r + k * x + l /\ Work(t, defs) = Len(t.roots) + k * y + LeftOf(t)
  BY DEF Work
<1>5. k * x \in Nat /\ k * (x - 1) = k * x - k
  <2> HIDE DEF k, x
  <2> QED  BY <1>1, TimesLess, TimesNat
<1>6. s.marks \in [Plugins -> Progress]
  BY SearchParts
<1>7. CASE SkipsRoot(s, t, defs)
  <2>1. Len(t.roots) = r - 1 /\ y = x /\ LeftOf(t) = l
    BY <1>7, RootsLeft DEF SkipsRoot, LeftOf
  <2> HIDE DEF k, x, y, r, l
  <2> QED  BY <1>1, <1>4, <1>5, <2>1
<1>8. CASE PushesRoot(s, t, defs)
  <2> DEFINE p == s.roots[1]
  <2>1. Len(t.roots) = r - 1 /\ p \in Plugins
    BY <1>8, RootsLeft DEF PushesRoot
  <2>2. t.marks = [s.marks EXCEPT ![p] = "visiting"] /\ s.marks[p] # "done" /\ Len(s.path) = 0
    BY <1>8 DEF PushesRoot
  <2> HIDE DEF p
  <2>3. s.marks[p] = "new"
    <3>1. s.marks[p] # "visiting"
      BY <2>1, <2>2 DEF SearchInv, Marked, OnPath
    <3> QED  BY <2>1, <2>2, <3>1, SearchParts
  <2>4. y = x - 1 /\ l = 0
    <3>1. Cardinality(Fresh(t.marks)) = a - 1 /\ Cardinality(Open(t.marks)) = b
      BY <1>6, <2>1, <2>2, <2>3, MeetCounts
    <3>2. l = 0
      BY <2>2 DEF LeftOf
    <3> HIDE DEF a, b
    <3> QED  BY <1>1, <3>1, <3>2
  <2> HIDE DEF k, x, y, r, l
  <2> QED  BY <1>1, <1>3, <1>4, <1>5, <2>1, <2>4
<1>9. CASE Pops(s, t)
  <2> DEFINE p == s.path[n].id
  <2>1. n # 0 /\ s.path[n].left = <<>> /\ t.roots = s.roots /\ t.marks = [s.marks EXCEPT ![p] = "done"]
    BY <1>9 DEF Pops
  <2>2. n \in 1..n
    BY <1>1, <2>1
  <2>3. p \in Plugins
    BY <2>2, SearchParts
  <2>4. s.marks[p] = "visiting"
    BY <2>2, <2>3 DEF SearchInv, Marked, OnPath
  <2> HIDE DEF p
  <2>5. y = x - 1 /\ l = 0
    <3>1. Cardinality(Fresh(t.marks)) = a /\ Cardinality(Open(t.marks)) = b - 1
      BY <1>6, <2>1, <2>3, <2>4, OrderCounts
    <3>2. l = 0
      BY <2>1 DEF LeftOf
    <3> HIDE DEF a, b
    <3> QED  BY <1>1, <3>1, <3>2
  <2>6. Len(t.roots) = r
    BY <2>1
  <2> HIDE DEF k, x, y, r, l
  <2> QED  BY <1>1, <1>3, <1>4, <1>5, <2>5, <2>6
<1>10. CASE LooksDone(s, t) \/ LooksBack(s, t)
  <2>1. Looks(s, t) /\ Len(t.path) = n /\ t.marks = s.marks
    BY <1>10 DEF LooksDone, LooksBack
  <2>2. n # 0 /\ t.roots = s.roots /\ Len(t.path[n].left) = Len(s.path[n].left) - 1
    BY <2>1, LooksFields DEF Looks
  <2>3. LeftOf(t) = l - 1 /\ y = x /\ Len(t.roots) = r
    BY <2>1, <2>2 DEF LeftOf
  <2> HIDE DEF k, x, y, r, l
  <2> QED  BY <1>1, <1>4, <1>5, <2>3
<1>11. CASE LooksNew(s, t, defs)
  <2> DEFINE p == NextOf(s)
  <2>1. Looks(s, t) /\ s.marks[p] = "new" /\ t.marks = [s.marks EXCEPT ![p] = "visiting"]
    BY <1>11 DEF LooksNew
  <2>2. p \in Plugins /\ t.roots = s.roots
    BY <2>1, LooksFields, SearchParts DEF LooksLeft, Looks
  <2> HIDE DEF p
  <2>3. y = x - 1
    <3>1. Cardinality(Fresh(t.marks)) = a - 1 /\ Cardinality(Open(t.marks)) = b
      BY <1>6, <2>1, <2>2, MeetCounts
    <3> HIDE DEF a, b
    <3> QED  BY <1>1, <3>1
  <2>4. Len(t.roots) = r
    BY <2>2
  <2> HIDE DEF k, x, y, r, l
  <2> QED  BY <1>1, <1>3, <1>4, <1>5, <2>3, <2>4
<1> QED  BY <1>7, <1>8, <1>9, <1>10, <1>11 DEF Moves

-----------------------------------------------------------------------------
(***************************************************************************)
(* What ordered() answers.                                                 *)
(***************************************************************************)

\* Ordered runs the search step by step.
Runs(run, n, defs) ==
    /\ run[0] = SearchStart
    /\ \A k \in 1..n : run[k] \in Searches(defs) /\ run[k] = SearchStep(run[k - 1], defs)

LEMMA OrderedRuns ==
  ASSUME NEW defs, Definitions(defs)
  PROVE  \E run : Runs(run, SearchLength(defs), defs) /\ Ordered(defs) = run[SearchLength(defs)]
<1> DEFINE n == SearchLength(defs)
           D == Searches(defs)
           S == SUBSET D
           base == {SearchStart}
           Following(states) == {SearchStep(search, defs) : search \in states}
           Is(f) == f = [s \in SUBSET (1..n) |-> IF s = {} THEN base ELSE Following(f[s \ {Max(s)}])]
           step == [p \in (1..n) \X S |-> Following(p[2])]
           fold == CHOOSE f : Is(f)
<1>1. n \in Nat
  <2>1. Len(Discovered) \in Nat /\ Longest(defs) + 1 \in Nat
    BY LongestBounds, DiscoveredAssumption
  <2>2. Len(Discovered) * (Longest(defs) + 1) \in Nat
    BY <2>1, TimesNat
  <2> QED  BY <2>1, <2>2 DEF SearchLength
<1>2. SearchStart \in D /\ base \in S
  BY StartInv
<1>3. \A s \in D : SearchStep(s, defs) \in D
  BY SearchMoves
<1> HIDE DEF n, D
<1>4. \A states \in S : Following(states) \in S
  BY <1>3
<1>5. step \in [(1..n) \X S -> S]
  <2> HIDE DEF Following, S
  <2> QED  BY <1>4
<1>6. PICK g \in [SUBSET (1..n) -> S] : Folds(g, base, n, step)
  <2> HIDE DEF step, S, base
  <2> QED  BY <1>1, <1>2, <1>5, FoldExists
<1>7. \A s \in SUBSET (1..n) : s # {} => Max(s) \in 1..n
  <2> SUFFICES ASSUME NEW s \in SUBSET (1..n), s # {} PROVE Max(s) \in 1..n
    OBVIOUS
  <2>1. s \in SUBSET (0..n)
    BY <1>1
  <2>2. Max(s) \in s
    BY <1>1, <2>1, LargestIn
  <2> QED  BY <2>2
<1>8. Is(g)
  <2>1. \A s \in SUBSET (1..n) : s # {} => step[<<Max(s), g[s \ {Max(s)}]>>] = Following(g[s \ {Max(s)}])
    <3> SUFFICES ASSUME NEW s \in SUBSET (1..n), s # {}
                 PROVE  step[<<Max(s), g[s \ {Max(s)}]>>] = Following(g[s \ {Max(s)}])
      OBVIOUS
    <3>1. Max(s) \in 1..n /\ s \ {Max(s)} \in SUBSET (1..n)
      BY <1>7
    <3> HIDE DEF Following, S
    <3>2. g[s \ {Max(s)}] \in S
      BY <3>1
    <3>3. <<Max(s), g[s \ {Max(s)}]>> \in (1..n) \X S
      BY <3>1, <3>2
    <3> QED  BY <3>3
  <2> DEFINE h == [s \in SUBSET (1..n) |-> IF s = {} THEN base ELSE Following(g[s \ {Max(s)}])]
  <2>2. \A s \in SUBSET (1..n) : g[s] = h[s]
    <3> HIDE DEF Following, step, S, base
    <3> QED  BY <1>6, <2>1 DEF Folds
  <2>3. h = [s \in SUBSET (1..n) |-> h[s]] /\ g = [s \in SUBSET (1..n) |-> g[s]]
    OBVIOUS
  <2>4. g = h
    <3> HIDE DEF h
    <3> QED  BY <2>2, <2>3
  <2> QED  BY <2>4
<1>9. Is(fold)
  <2> HIDE DEF Is
  <2> QED  BY <1>8
<1>10. Ordered(defs) = CHOOSE search \in fold[1..n] : TRUE
  BY <1>1 DEF Ordered, FoldLeft, MapThenFoldSet, n
<1>11. fold[1..0] = base
  <2>1. 1..0 \in SUBSET (1..n) /\ 1..0 = {}
    BY <1>1
  <2> HIDE DEF Following, fold, base
  <2> QED  BY <1>9, <2>1
<1>12. ASSUME NEW k \in 1..n PROVE fold[1..k] = Following(fold[1..(k - 1)])
  <2>1. k \in Nat /\ k # 0 /\ 1..k \in SUBSET (1..n) /\ 1..k # {}
    <3>1. k \in Nat /\ k # 0 /\ k <= n
      BY <1>1
    <3>2. 1..k \subseteq 1..n
      BY <1>1, <3>1
    <3>3. k \in 1..k
      BY <3>1
    <3> QED  BY <3>1, <3>2, <3>3
  <2>2. Max(1..k) = k /\ (1..k) \ {k} = 1..(k - 1)
    BY <2>1, MaxOfFirst
  <2> HIDE DEF Following, fold, base
  <2> QED  BY <1>9, <2>1, <2>2
<1> HIDE DEF fold, S
<1> DEFINE T == {k \in 0..n : \E x \in D : fold[1..k] = {x}}
<1>13. 0 \in T
  BY <1>1, <1>2, <1>11
<1>14. ASSUME NEW k \in 0..n, k < n, k \in T PROVE k + 1 \in T
  <2>1. PICK x \in D : fold[1..k] = {x}
    BY <1>14
  <2>2. k + 1 \in 1..n /\ k + 1 \in 0..n /\ (k + 1) - 1 = k
    BY <1>1, <1>14
  <2>3. fold[1..(k + 1)] = Following({x})
    <3>1. fold[1..(k + 1)] = Following(fold[1..((k + 1) - 1)])
      BY <1>12, <2>2
    <3> HIDE DEF Following
    <3> QED  BY <2>1, <2>2, <3>1
  <2>4. Following({x}) = {SearchStep(x, defs)}
    OBVIOUS
  <2> HIDE DEF Following
  <2> QED  BY <1>3, <2>2, <2>3, <2>4
<1>15. \A k \in 0..n : k \in T
  <2> HIDE DEF T
  <2> QED  BY <1>1, <1>13, <1>14, Counting
<1> DEFINE run == [k \in 0..n |-> CHOOSE x \in D : fold[1..k] = {x}]
<1>16. \A k \in 0..n : run[k] \in D /\ fold[1..k] = {run[k]}
  BY <1>15
<1> HIDE DEF run, T
<1>17. run[0] = SearchStart
  <2>1. {run[0]} = {SearchStart}
    BY <1>1, <1>11, <1>16
  <2> QED  BY <2>1
<1>18. ASSUME NEW k \in 1..n PROVE run[k] \in D /\ run[k] = SearchStep(run[k - 1], defs)
  <2>1. k \in 0..n /\ k - 1 \in 0..n
    BY <1>1
  <2>2. {run[k]} = Following({run[k - 1]})
    <3> HIDE DEF Following
    <3> QED  BY <1>12, <1>16, <2>1
  <2>3. Following({run[k - 1]}) = {SearchStep(run[k - 1], defs)}
    OBVIOUS
  <2>4. run[k] = SearchStep(run[k - 1], defs)
    <3> HIDE DEF Following
    <3> QED  BY <2>2, <2>3
  <2> QED  BY <1>16, <2>1, <2>4
<1>19. Ordered(defs) = run[n]
  <2>1. fold[1..n] = {run[n]}
    BY <1>1, <1>16
  <2>2. (CHOOSE search \in {run[n]} : TRUE) = run[n]
    OBVIOUS
  <2> QED  BY <1>10, <2>1, <2>2
<1>20. Runs(run, n, defs)
  BY <1>17, <1>18 DEF Runs, D
<1> QED  BY <1>19, <1>20 DEF n

\* The answer of ordered(): each readable plugin once, after the dependencies it
\* shares no cycle with, and the plugins it found in cycles.
OrderOf(order, circular, defs) ==
    /\ order \in Seq(Readable(defs)) /\ circular \in SUBSET Readable(defs)
    /\ \A i, j \in 1..Len(order) : order[i] = order[j] => i = j
    /\ \A p \in Readable(defs) : \E i \in 1..Len(order) : order[i] = p
    /\ Sorted(order, circular, defs)
    /\ CyclesFound(circular, defs)

\* ordered() orders every graph of dependencies, cycles, unreadable and missing
\* plugins included.
THEOREM OrderedRight ==
  ASSUME NEW defs, Definitions(defs)
  PROVE  OrderOf(Ordered(defs).order, Ordered(defs).cyclic, defs)
<1> DEFINE n == SearchLength(defs)
           D == Searches(defs)
<1>1. n \in Nat /\ Work(SearchStart, defs) <= n
  <2> DEFINE k == Longest(defs) + 1
             c == Cardinality(Plugins)
             l == Len(Discovered)
  <2>1. l \in Nat /\ k \in Nat /\ c \in Nat /\ c <= l
    BY LongestBounds, DiscoveredAssumption, PluginsCounted
  <2>2. /\ Fresh(SearchStart.marks) = Plugins /\ Open(SearchStart.marks) = Plugins
        /\ LeftOf(SearchStart) = 0 /\ SearchStart.roots = Discovered
    BY DEF SearchStart, Fresh, Open, LeftOf
  <2>3. Work(SearchStart, defs) = l + k * (c + c) + 0
    BY <2>2 DEF Work
  <2>4. n = l + 2 * (l * k)
    BY DEF SearchLength
  <2> HIDE DEF k, c, l, n
  <2>5. k * c <= k * l /\ k * (c + c) = 2 * (k * c) /\ k * l = l * k /\ k * l \in Nat /\ k * c \in Nat
    BY <2>1
  <2> QED  BY <2>1, <2>3, <2>4, <2>5
<1>2. PICK run : Runs(run, n, defs) /\ Ordered(defs) = run[n]
  BY OrderedRuns
<1> DEFINE Good(s) == s \in D /\ SearchInv(s, defs) /\ Short(s, defs)
           T == {k \in 0..n : Good(run[k]) /\ (Ends(run[k]) \/ Work(run[k], defs) <= n - k)}
<1> HIDE DEF n
<1>3. 0 \in T
  <2>1. Good(SearchStart)
    <3>1. SearchStart.path = <<>>
      BY DEF SearchStart
    <3>2. Len(SearchStart.path) = 0
      BY <3>1
    <3>3. Short(SearchStart, defs)
      BY <3>2 DEF Short
    <3> QED  BY <3>3, StartInv
  <2> HIDE DEF Good
  <2> QED  BY <1>1, <1>2, <2>1 DEF Runs
<1>4. ASSUME NEW k \in 0..n, k < n, k \in T PROVE k + 1 \in T
  <2> DEFINE s == run[k]
             t == run[k + 1]
  <2>1. k + 1 \in 1..n /\ k + 1 \in 0..n /\ (k + 1) - 1 = k
    BY <1>1, <1>4
  <2>2. Good(s) /\ (Ends(s) \/ Work(s, defs) <= n - k)
    BY <1>4
  <2>3. t = SearchStep(s, defs)
    <3>1. run[k + 1] = SearchStep(run[(k + 1) - 1], defs)
      BY <1>2, <2>1 DEF Runs
    <3> QED  BY <2>1, <3>1
  <2> HIDE DEF s, t
  <2>4. t \in D /\ Moves(s, t, defs)
    BY <2>2, <2>3, SearchMoves
  <2>5. Good(t)
    BY <2>2, <2>4, SearchInvKept, ShortKept
  <2>6. Ends(t) \/ Work(t, defs) <= n - (k + 1)
    <3>1. CASE Ends(s)
      <4>1. t = s
        BY <2>3, <3>1 DEF SearchStep, Ends
      <4> QED  BY <3>1, <4>1
    <3>2. CASE ~Ends(s)
      <4>1. Work(t, defs) < Work(s, defs) /\ Work(s, defs) <= n - k
        BY <2>2, <2>4, <3>2, WorkLess
      <4>2. Work(t, defs) \in Nat /\ Work(s, defs) \in Nat
        BY <2>2, <2>4, WorkNat
      <4> QED  BY <1>1, <4>1, <4>2
    <3> QED  BY <3>1, <3>2
  <2> HIDE DEF Good
  <2> QED  BY <2>1, <2>5, <2>6 DEF t
<1>5. n \in T
  <2>1. \A k \in 0..n : k \in T
    <3> HIDE DEF T
    <3> QED  BY <1>1, <1>3, <1>4, Counting
  <2> HIDE DEF T
  <2> QED  BY <1>1, <2>1
<1> DEFINE s == Ordered(defs)
<1>6. Good(s) /\ (Ends(s) \/ Work(s, defs) <= 0)
  BY <1>1, <1>2, <1>5
<1> HIDE DEF s
<1>7. Ends(s)
  <2> SUFFICES ASSUME ~Ends(s), Work(s, defs) <= 0 PROVE FALSE
    BY <1>6
  <2> DEFINE t == SearchStep(s, defs)
  <2>1. t \in D /\ Moves(s, t, defs)
    BY <1>6, SearchMoves
  <2> HIDE DEF t
  <2>2. Work(t, defs) < Work(s, defs) /\ Work(t, defs) \in Nat /\ Work(s, defs) \in Nat
    BY <1>6, <2>1, WorkLess, WorkNat
  <2> QED  BY <2>2
<1>8. Len(s.path) = 0 /\ Len(s.roots) = 0
  BY <1>7 DEF Ends
<1>9. \A p \in Readable(defs) : \E i \in 1..Len(s.order) : s.order[i] = p
  <2> SUFFICES ASSUME NEW p \in Readable(defs) PROVE InOrder(s, p)
    BY DEF InOrder
  <2>1. p \in Plugins /\ s.marks[p] \in {"new", "visiting", "done"}
    BY <1>6, SearchParts
  <2>2. s.marks[p] # "visiting"
    BY <1>6, <1>8, <2>1 DEF SearchInv, Marked, OnPath
  <2>3. s.marks[p] # "new"
    BY <1>6, <1>8 DEF SearchInv, Kept
  <2> QED  BY <1>6, <2>1, <2>2, <2>3 DEF SearchInv, Marked
<1>10. s.order \in Seq(Readable(defs)) /\ s.cyclic \in SUBSET Readable(defs)
  BY <1>6 DEF Searches
<1> QED  BY <1>6, <1>9, <1>10 DEF OrderOf, SearchInv, Marked, s

-----------------------------------------------------------------------------
(***************************************************************************)
(* What ordered() answers, for every graph of dependencies.                *)
(***************************************************************************)

\* The graph is one of manifests, and the answer is the one of ordered().
GraphInv ==
    /\ Definitions(graph)
    /\ Answered => OrderOf(ordering.order, ordering.cyclic, graph)

THEOREM GraphInvariant == GraphSpec => []GraphInv
<1>1. ASSUME GraphInit PROVE GraphInv
  <2>1. ASSUME NEW p \in Plugins PROVE Definition(graph[p])
    <3>1. graph[p] \in Lists \cup {Unreadable}
      BY <1>1 DEF GraphInit
    <3> QED  BY <3>1, ListsAssumption DEF Definition
  <2>2. ~Answered
    BY <1>1 DEF GraphInit, Answered
  <2> QED  BY <2>1, <2>2 DEF GraphInv, Definitions
<1>2. ASSUME GraphInv, [Ask]_<<graph, ordering>> PROVE GraphInv'
  <2>1. graph' = graph
    BY <1>2 DEF Ask
  <2>2. Definitions(graph')
    BY <1>2, <2>1 DEF GraphInv
  <2>3. CASE Ask
    <3> DEFINE found == Ordered(graph)
    <3>1. ordering' = [order |-> found.order, cyclic |-> found.cyclic]
      BY <2>3 DEF Ask
    <3>2. OrderOf(found.order, found.cyclic, graph)
      BY <1>2, OrderedRight DEF GraphInv
    <3> HIDE DEF found
    <3>3. ordering'.order = found.order /\ ordering'.cyclic = found.cyclic
      BY <3>1
    <3>4. OrderOf(ordering'.order, ordering'.cyclic, graph')
      BY <2>1, <3>2, <3>3
    <3> QED  BY <2>2, <3>4 DEF GraphInv
  <2>4. CASE UNCHANGED <<graph, ordering>>
    BY <1>2, <2>4 DEF GraphInv, Answered, NoAnswer
  <2> QED  BY <1>2, <2>3, <2>4
<1> QED  BY <1>1, <1>2, PTL DEF GraphSpec

\* ordered() orders every readable plugin once and after the dependencies it is
\* in no cycle with, whatever the manifests name.
THEOREM OrdersHold == GraphSpec => []OrdersRight
<1>1. ASSUME GraphInv PROVE OrdersRight
  <2> SUFFICES ASSUME Answered PROVE OrdersRight
    BY DEF OrdersRight, OrdersAll, DependenciesFirst
  <2> DEFINE order == ordering.order
             R == Readable(graph)
             n == Len(order)
  <2>1. OrderOf(order, ordering.cyclic, graph)
    BY <1>1 DEF GraphInv
  <2>2. /\ order \in Seq(R) /\ n \in Nat
        /\ \A i, j \in 1..n : order[i] = order[j] => i = j
        /\ \A p \in R : \E i \in 1..n : order[i] = p
    <3>1. order \in Seq(R)
      BY <2>1 DEF OrderOf
    <3>2. n \in Nat
      <4> HIDE DEF order, R
      <4> QED  BY <3>1
    <3> QED  BY <2>1, <3>1, <3>2 DEF OrderOf
  <2> HIDE DEF order, R
  <2>3. order \in [1..n -> R]
    BY <2>2
  <2> HIDE DEF n
  <2>4. {order[i] : i \in 1..n} = R
    BY <2>2, <2>3
  <2>5. n = Cardinality(R)
    <3>1. order \in Bijection(1..n, R)
      <4>1. order \in Injection(1..n, R)
        <5>1. IsInjective(order)
          BY <2>2, <2>3 DEF IsInjective
        <5> QED  BY <2>3, <5>1 DEF Injection
      <4>2. order \in Surjection(1..n, R)
        BY <2>2, <2>3 DEF Surjection
      <4> QED  BY <4>1, <4>2 DEF Bijection
    <3>2. IsFiniteSet(1..n) /\ Cardinality(1..n) = n
      <4>1. 1 \in Int /\ n \in Int
        BY <2>2
      <4>2. IsFiniteSet(1..n) /\ Cardinality(1..n) = IF 1 > n THEN 0 ELSE n - 1 + 1
        BY <4>1, FS_Interval
      <4> QED  BY <2>2, <4>2
    <3>3. ExistsBijection(1..n, R)
      BY <3>1 DEF ExistsBijection
    <3> QED  BY <3>2, <3>3, FS_Bijection
  <2>6. OrdersAll
    BY <2>4, <2>5 DEF OrdersAll, order, R, n
  <2>7. \A p \in R : At(p) \in 1..n /\ order[At(p)] = p
    BY <2>2 DEF At, order, n
  <2>8. ASSUME NEW p \in R, NEW q \in R, Edge(graph, p, q), p \notin Reach(graph, q)
        PROVE  At(q) < At(p)
    <3>1. PICK i \in 1..n : i < At(p) /\ order[i] = q
      <4> DEFINE j == At(p)
      <4>1. j \in 1..Len(order) /\ order[j] = p
        BY <2>7 DEF n
      <4> HIDE DEF j
      <4>2. Sorted(order, ordering.cyclic, graph) /\ q \in Readable(graph) /\ Edge(graph, order[j], q)
        BY <2>1, <2>8, <4>1 DEF OrderOf, R
      <4>3. \E i \in 1..Len(order) : i < j /\ order[i] = q
        BY <2>8, <4>1, <4>2 DEF Sorted
      <4> QED  BY <4>3 DEF n, j
    <3>2. i = At(q)
      BY <2>2, <2>7, <3>1
    <3> QED  BY <3>1, <3>2
  <2>9. DependenciesFirst
    BY <2>8 DEF DependenciesFirst, R
  <2> QED  BY <2>6, <2>9 DEF OrdersRight
<1> QED  BY <1>1, GraphInvariant, PTL

\* Every plugin told to be in a cycle is in one, and a graph that has a cycle has
\* one told: otherwise the order would put each plugin behind itself.
THEOREM CyclesHold == GraphSpec => []CyclesReal
<1>1. ASSUME GraphInv PROVE CyclesReal
  <2> SUFFICES ASSUME Answered PROVE CyclesReal
    BY DEF CyclesReal
  <2> DEFINE order == ordering.order
             R == Readable(graph)
             n == Len(order)
  <2>1. OrderOf(order, ordering.cyclic, graph)
    BY <1>1 DEF GraphInv
  <2>2. \A p \in ordering.cyclic : InCycle(graph, p)
    BY <2>1 DEF OrderOf, CyclesFound
  <2>3. ASSUME NEW p \in R, InCycle(graph, p), ordering.cyclic = {} PROVE FALSE
    <3>1. PICK k \in 1..n : order[k] = p
      BY <2>1 DEF OrderOf
    <3> DEFINE T == {q \in R : \E i \in 1..n : i < k /\ order[i] = q}
    <3>2. \A j \in 1..n : \A d \in R : Edge(graph, order[j], d) => \E i \in 1..n : i < j /\ order[i] = d
      BY <2>1, <2>3 DEF OrderOf, Sorted
    <3>3. n \in Nat
      <4>1. order \in Seq(R)
        BY <2>1 DEF OrderOf
      <4> HIDE DEF order, R
      <4> QED  BY <4>1
    <3>4. ClosedUnder(graph, T)
      <4> SUFFICES ASSUME NEW x \in T, NEW q \in R, Edge(graph, x, q) PROVE q \in T
        BY DEF ClosedUnder
      <4>1. PICK j \in 1..n : j < k /\ order[j] = x
        OBVIOUS
      <4>2. PICK i \in 1..n : i < j /\ order[i] = q
        BY <3>2, <4>1
      <4>3. i < k
        BY <3>3, <4>1, <4>2
      <4> QED  BY <4>2, <4>3
    <3>5. \A r \in R : Edge(graph, p, r) => r \in T
      BY <3>1, <3>2
    <3>6. p \in T
      <4>1. T \in SUBSET Readable(graph)
        OBVIOUS
      <4> HIDE DEF T
      <4> QED  BY <2>3, <3>4, <3>5, <4>1 DEF InCycle, Reach
    <3>7. PICK i \in 1..n : i < k /\ order[i] = p
      BY <3>6
    <3>8. i = k
      BY <2>1, <3>1, <3>7 DEF OrderOf
    <3> QED  BY <3>3, <3>7, <3>8
  <2> QED  BY <2>2, <2>3 DEF CyclesReal
<1> QED  BY <1>1, GraphInvariant, PTL

-----------------------------------------------------------------------------
(***************************************************************************)
(* The types of the variables.                                             *)
(***************************************************************************)

Texts == {Installed[p] : p \in Plugins} \cup UNION {Authored[p] : p \in Plugins}
Jobs == [kind : Kinds \cup {"none"}, id : Plugins \cup {Nobody}]

\* The places of a coroutine that has work in hand, those where it awaits first.
Awaits == {"launching", "recovering", "halting", "erasing", "settling", "handing", "settling reader"}
Runnings == {"begin", "resolving", "disabling", "closing", "closing readers"}
Places == Outside \cup Awaits \cup Runnings

BootPlaces == {"resolving", "launching", "recovering", "done"}
ClickPlaces == Outside \cup {"begin", "resolving", "launching", "recovering", "disabling", "halting", "erasing"}
CloserPlaces == Outside \cup {"begin", "closing", "settling", "handing", "closing readers", "settling reader"}

\* Where each coroutine can be.
PlacesOK ==
    /\ pc \in [Coroutines -> Places]
    /\ pc[Boot] \in BootPlaces
    /\ pc[Closer] \in CloserPlaces
    /\ \A c \in Clicks : pc[c] \in ClickPlaces

\* What a coroutine works on.
WorkOK ==
    /\ job \in [Coroutines -> Jobs] /\ job[Closer].kind = "none"
    /\ \A c \in Clicks : pc[c] # "idle" => job[c].id \in Plugins
    /\ target \in [Coroutines -> Plugins \cup {Nobody}]
    /\ \A c \in Coroutines : pc[c] \in Awaits \ {"handing", "erasing"} => target[c] \in Plugins
    /\ todo \in [Coroutines -> Seq(Plugins)] /\ cyclic \subseteq Plugins
    /\ retried \in [Coroutines -> BOOLEAN]

RegistryOK ==
    /\ folder \in [Plugins -> Texts] /\ def \in [Plugins -> Texts]
    /\ state \in [Plugins -> States]
    /\ attempt \in [Plugins -> BOOLEAN] /\ ran \in [Plugins -> BOOLEAN]
    /\ started \in Seq(Plugins) /\ disabled \subseteq Plugins

QueueOK ==
    /\ busy \in BOOLEAN /\ waiting \in Seq(Clicks \cup {Closer})
    /\ turn \in Coroutines \cup {Nobody}

EndingOK ==
    /\ stopping \subseteq Plugins /\ halted \subseteq Plugins
    /\ quit \in BOOLEAN /\ late \in BOOLEAN /\ gone \in BOOLEAN
    /\ index \in Int /\ share \in Nat /\ spent \in Nat

Types == PlacesOK /\ WorkOK /\ RegistryOK /\ QueueOK /\ EndingOK

\* Every text of a folder is a definition, so the plugins can be ordered.
LEMMA OrderTypes ==
  ASSUME NEW defs \in [Plugins -> Texts]
  PROVE  /\ Definitions(defs)
         /\ Ordered(defs).order \in Seq(Plugins) /\ Ordered(defs).cyclic \subseteq Plugins
<1>1. \A text \in Texts : Definition(text)
  BY LifecycleAssumption DEF Texts, Definitions
<1>2. Definitions(defs)
  BY <1>1 DEF Definitions
<1> DEFINE R == Readable(defs)
           order == Ordered(defs).order
<1>3. order \in Seq(R) /\ Ordered(defs).cyclic \in SUBSET R
  BY <1>2, OrderedRight DEF OrderOf
<1>4. R \subseteq Plugins
  BY DEF Readable
<1> HIDE DEF R, order
<1>5. order \in Seq(Plugins)
  BY <1>3, <1>4
<1> QED  BY <1>2, <1>3, <1>4, <1>5 DEF order

LEMMA InstalledTypes == Installed \in [Plugins -> Texts]
  BY LifecycleAssumption DEF Texts

\* A plugin that is withdrawn leaves a sequence of plugins.
LEMMA WithdrawnTypes ==
  ASSUME NEW set, RegistryOK
  PROVE  Among(started, set) \in Seq(Plugins)
  BY AmongPicks DEF RegistryOK

LEMMA DependentsTypes ==
  ASSUME NEW p \in Plugins, RegistryOK
  PROVE  Dependents(p) \in Seq(Plugins)
<1>1. ASSUME NEW set PROVE Reverse(Among(started, set)) \in Seq(Plugins)
  <2> DEFINE part == Among(started, set)
  <2>1. part \in Seq(Plugins)
    BY WithdrawnTypes
  <2> HIDE DEF part
  <2>2. Reverse(part) = [i \in 1..Len(part) |-> part[(Len(part) - i) + 1]]
    BY DEF Reverse
  <2>3. Len(part) \in Nat /\ \A i \in 1..Len(part) : (Len(part) - i) + 1 \in 1..Len(part)
    BY <2>1
  <2>4. \A i \in 1..Len(part) : part[(Len(part) - i) + 1] \in Plugins
    BY <2>1, <2>3
  <2>5. [i \in 1..Len(part) |-> part[(Len(part) - i) + 1]] \in Seq(Plugins)
    BY <2>3, <2>4
  <2> QED  BY <2>2, <2>5 DEF part
<1> QED  BY <1>1 DEF Dependents

LEMMA InitTypes == Init => Types
<1> SUFFICES ASSUME Init PROVE Types
  OBVIOUS
<1>1. PlacesOK
  BY LifecycleAssumption DEF Init, PlacesOK, Coroutines, Places, Outside, Awaits, Runnings, BootPlaces, ClickPlaces, CloserPlaces
<1>2. WorkOK
  <2>1. Ordered(def).order \in Seq(Plugins) /\ Ordered(def).cyclic \subseteq Plugins
    BY InstalledTypes, OrderTypes DEF Init
  <2>2. \A c \in Clicks : pc[c] = "idle"
    BY LifecycleAssumption DEF Init, Coroutines
  <2>3. \A c \in Coroutines : pc[c] \in {"resolving", "idle"}
    BY DEF Init
  <2>4. todo \in [Coroutines -> Seq(Plugins)]
    BY <2>1 DEF Init
  <2> QED  BY <2>1, <2>2, <2>3, <2>4 DEF Init, WorkOK, Jobs, Coroutines, Awaits
<1>3. RegistryOK
  <2>1. \A p \in Plugins : state[p] \in States
    BY DEF Init, States
  <2> QED  BY <2>1, InstalledTypes, LifecycleAssumption DEF Init, RegistryOK
<1>4. QueueOK
  <2>1. busy \in BOOLEAN
    BY DEF Init
  <2>2. waiting \in Seq(Clicks \cup {Closer}) /\ turn \in Coroutines
    BY DEF Init, Coroutines
  <2> QED  BY <2>1, <2>2 DEF QueueOK
<1>5. EndingOK
  <2>1. quit \in BOOLEAN /\ late \in BOOLEAN /\ gone \in BOOLEAN
    BY DEF Init
  <2>2. index = 0 /\ share = 0 /\ spent = 0 /\ stopping = {} /\ halted = {}
    BY DEF Init
  <2> QED  BY <2>1, <2>2 DEF EndingOK
<1> QED  BY <1>1, <1>2, <1>3, <1>4, <1>5 DEF Types

-----------------------------------------------------------------------------
(***************************************************************************)
(* The shapes of a step.  Each coroutine enters a change, moves inside it, *)
(* leaves it, or nothing of the switch moves at all.                       *)
(***************************************************************************)

\* The places a coroutine may be in.
PlacesOf(c) == IF c = Boot THEN BootPlaces ELSE IF c = Closer THEN CloserPlaces ELSE ClickPlaces

\* A step of a coroutine that has the switch, or of the boot.
MovesOn(c, q) ==
    /\ c \in Coroutines /\ pc[c] \notin Outside /\ q \in PlacesOf(c) \ Outside
    /\ turn \in {c, Nobody}
    /\ turn = c => pc[c] \in Runnings
    /\ turn = Nobody => pc[c] \in Awaits
    /\ pc' = [pc EXCEPT ![c] = q]
    /\ turn' = IF q \in Runnings THEN c ELSE Nobody
    /\ busy' = busy /\ waiting' = waiting

Enters(c) ==
    /\ c \in Clicks \cup {Closer} /\ turn = Nobody /\ pc[c] \in {"idle", "woken"}
    /\ Enter(c)

Leaves(c) ==
    /\ c \in Clicks \cup {Closer} /\ pc[c] \notin Outside
    /\ turn \in {c, Nobody}
    /\ turn = c => pc[c] \in Runnings
    /\ turn = Nobody => pc[c] \in Awaits
    /\ Leave(c)

BootEnds ==
    /\ turn = Boot /\ pc[Boot] = "resolving"
    /\ pc' = [pc EXCEPT ![Boot] = "done"] /\ turn' = Nobody
    /\ busy' = busy /\ waiting' = waiting

Rests == busy' = busy /\ waiting' = waiting /\ turn' = turn /\ pc' = pc

LEMMA PlacesSet ==
  ASSUME PlacesOK, NEW c \in Coroutines, NEW q \in PlacesOf(c), pc' = [pc EXCEPT ![c] = q]
  PROVE  PlacesOK'
<1>1. q \in Places
  BY DEF PlacesOf, Places, BootPlaces, CloserPlaces, ClickPlaces, Outside, Awaits, Runnings
<1> QED  BY <1>1, LifecycleAssumption DEF PlacesOK, PlacesOf, Coroutines

LEMMA ShapesKeepPlaces ==
  ASSUME PlacesOK, QueueOK,
         \/ \E c \in Coroutines : Enters(c) \/ Leaves(c) \/ \E q \in Places : MovesOn(c, q)
         \/ BootEnds \/ Rests
  PROVE  PlacesOK' /\ QueueOK'
<1>1. ASSUME NEW c \in Coroutines, Enters(c) PROVE PlacesOK' /\ QueueOK'
  <2>1. "queued" \in PlacesOf(c) /\ "begin" \in PlacesOf(c)
    BY <1>1, LifecycleAssumption DEF Enters, PlacesOf, CloserPlaces, ClickPlaces, Outside
  <2>2. PlacesOK'
    BY <1>1, <2>1, PlacesSet DEF Enters, Enter
  <2>3. c \in Clicks \cup {Closer}
    BY <1>1 DEF Enters
  <2>4. Append(waiting, c) \in Seq(Clicks \cup {Closer})
    BY <2>3 DEF QueueOK
  <2>5. QueueOK'
    BY <1>1, <2>4 DEF Enters, Enter, QueueOK
  <2> QED  BY <2>2, <2>5
<1>2. ASSUME NEW c \in Coroutines, Leaves(c) PROVE PlacesOK' /\ QueueOK'
  <2>1. c \in Clicks \cup {Closer}
    BY <1>2 DEF Leaves
  <2>2. waiting # <<>> => Head(waiting) \in Clicks \cup {Closer} /\ Tail(waiting) \in Seq(Clicks \cup {Closer})
    BY DEF QueueOK
  <2>3. QueueOK'
    BY <1>2, <2>2 DEF Leaves, Leave, QueueOK
  <2>4. PlacesOK'
    <3>1. CASE waiting = <<>>
      <4>1. "done" \in PlacesOf(c)
        BY DEF PlacesOf, CloserPlaces, ClickPlaces, BootPlaces, Outside
      <4> QED  BY <1>2, <3>1, <4>1, PlacesSet DEF Leaves, Leave
    <3>2. CASE waiting # <<>>
      <4> DEFINE first == Head(waiting)
      <4>1. first \in Clicks \cup {Closer}
        BY <2>2, <3>2
      <4>2. pc' = [pc EXCEPT ![c] = "done", ![first] = "woken"]
        BY <1>2, <3>2 DEF Leaves, Leave
      <4> HIDE DEF first
      <4> QED  BY <2>1, <4>1, <4>2, LifecycleAssumption
                DEF PlacesOK, Places, BootPlaces, CloserPlaces, ClickPlaces, Outside, Coroutines
    <3> QED  BY <3>1, <3>2
  <2> QED  BY <2>3, <2>4
<1>3. ASSUME NEW c \in Coroutines, NEW q \in Places, MovesOn(c, q) PROVE PlacesOK' /\ QueueOK'
  <2>1. PlacesOK'
    BY <1>3, PlacesSet DEF MovesOn
  <2>2. QueueOK'
    BY <1>3 DEF MovesOn, QueueOK
  <2> QED  BY <2>1, <2>2
<1>4. ASSUME BootEnds PROVE PlacesOK' /\ QueueOK'
  <2>1. PlacesOK'
    BY <1>4, PlacesSet DEF BootEnds, PlacesOf, BootPlaces, Coroutines
  <2>2. QueueOK'
    BY <1>4 DEF BootEnds, QueueOK
  <2> QED  BY <2>1, <2>2
<1>5. ASSUME Rests PROVE PlacesOK' /\ QueueOK'
  BY <1>5 DEF Rests, PlacesOK, QueueOK
<1> QED  BY <1>1, <1>2, <1>3, <1>4, <1>5

\* A coroutine calls exclusive(): a press only of a window that loaded, the closing
\* once, or a released one looks again.
Calls(c) ==
    /\ Enters(c)
    /\ pc[c] = "woken" => quit' = quit
    /\ pc[c] = "idle" /\ c \in Clicks => Booted /\ ~quit /\ quit' = quit
    /\ pc[c] = "idle" /\ c = Closer => ~quit /\ quit' = TRUE /\ (Booted \/ QuitWhileBooting)

Shape ==
    \/ \E c \in Clicks \cup {Closer} : Calls(c)
    \/ /\ quit' = quit
       /\ \/ \E c \in Clicks \cup {Closer} : Leaves(c)
          \/ \E c \in Coroutines : \E q \in Places : MovesOn(c, q)
          \/ BootEnds \/ Rests

\* The switch and its queue.
Waits(c) == \E i \in 1..Len(waiting) : waiting[i] = c
Lock ==
    /\ \A i, j \in 1..Len(waiting) : waiting[i] = waiting[j] => i = j
    /\ \A c \in Clicks \cup {Closer} : pc[c] = "queued" <=> Waits(c)
    /\ \A c \in Clicks \cup {Closer} : Inside(c) => busy
    /\ busy => \E c \in Clicks \cup {Closer} : Inside(c)
    /\ OneChange
    /\ \A c \in Coroutines : pc[c] \in Runnings <=> turn = c
    /\ QueueServed

\* The window loads, is used and closes.
Phases ==
    /\ ~Booted => \A c \in Clicks : pc[c] = "idle"
    /\ quit <=> pc[Closer] # "idle"
    /\ quit /\ ~Booted => QuitWhileBooting

\* A step of a coroutine that runs, or resumes, and stays inside.
LEMMA RunMoves ==
  ASSUME PlacesOK, NEW c \in Coroutines, NEW where \in Runnings, NEW q \in Places \ Outside,
         RunsAt(c, where), q \in PlacesOf(c),
         pc' = [pc EXCEPT ![c] = q], turn' = IF q \in Runnings THEN c ELSE Nobody,
         busy' = busy, waiting' = waiting
  PROVE  MovesOn(c, q)
BY LifecycleAssumption DEF RunsAt, MovesOn, PlacesOK, Runnings, Outside

LEMMA ResumeMoves ==
  ASSUME PlacesOK, NEW c \in Coroutines, NEW where \in Awaits, NEW q \in Places \ Outside,
         turn = Nobody, pc[c] = where, q \in PlacesOf(c),
         pc' = [pc EXCEPT ![c] = q], turn' = IF q \in Runnings THEN c ELSE Nobody,
         busy' = busy, waiting' = waiting
  PROVE  MovesOn(c, q)
BY LifecycleAssumption DEF MovesOn, PlacesOK, Awaits, Outside

\* A coroutine that runs on where it is.
LEMMA RunRests ==
  ASSUME NEW c, pc' = pc, turn' = turn, busy' = busy, waiting' = waiting
  PROVE  Rests
BY DEF Rests

\* Where a coroutine is tells which one it may be.
LEMMA WhoIsWhere ==
  ASSUME PlacesOK, NEW c \in Coroutines
  PROVE  /\ pc[c] \in PlacesOf(c)
         /\ pc[c] \in {"resolving", "launching", "recovering"} => c # Closer
         /\ pc[c] \in {"idle", "queued", "woken", "begin"} => c # Boot
         /\ pc[c] \in {"disabling", "halting", "erasing"} => c \in Clicks
         /\ pc[c] \in {"closing", "settling", "handing", "closing readers", "settling reader"} => c = Closer
BY LifecycleAssumption
   DEF PlacesOK, PlacesOf, Coroutines, BootPlaces, CloserPlaces, ClickPlaces, Outside

\* What a pass and a start do to the switch.
LEMMA PassShapes ==
  ASSUME PlacesOK, NEW c \in Coroutines,
         Pass(c) \/ TurnedOff(c) \/ Refuse(c) \/ Wait(c)
  PROVE  Rests /\ quit' = quit
<1>1. CASE Pass(c)
  BY <1>1 DEF Pass, Rests, ending
<1>2. CASE TurnedOff(c)
  BY <1>2 DEF TurnedOff, Rests, ending
<1>3. CASE Refuse(c)
  BY <1>3 DEF Refuse, Rests, ending
<1>4. CASE Wait(c)
  BY <1>4 DEF Wait, Rests, ending
<1> QED  BY <1>1, <1>2, <1>3, <1>4

\* A start goes on with the pass or awaits the start function.
LEMMA StartOfShapes ==
  ASSUME NEW c, NEW p, NEW again, StartOf(c, p, again)
  PROVE  \/ pc' = [pc EXCEPT ![c] = "resolving"] /\ turn' = c
         \/ pc' = [pc EXCEPT ![c] = "launching"] /\ turn' = Nobody
BY DEF StartOf, StartUnreadable, StartUnavailable, StartRefused, StartRegistered

LEMMA StartShapes ==
  ASSUME PlacesOK, NEW c \in Coroutines,
         \/ Start(c) \/ Launched(c) \/ LaunchFails(c) \/ LaunchMisfits(c)
         \/ Recovered(c) \/ RecoveryFails(c)
  PROVE  quit' = quit /\ \E q \in {"resolving", "launching", "recovering"} : MovesOn(c, q)
<1> DEFINE P == {"resolving", "launching", "recovering"}
<1>1. P \subseteq Places \ Outside /\ "resolving" \in Runnings /\ {"launching", "recovering"} \subseteq Awaits
      /\ "launching" \notin Runnings /\ "recovering" \notin Runnings
  BY DEF Places, Outside, Awaits, Runnings
<1>2. pc[c] \in P => P \subseteq PlacesOf(c)
  BY WhoIsWhere DEF PlacesOf, BootPlaces, ClickPlaces
<1> HIDE DEF P
<1>a. "resolving" \in P /\ "launching" \in P /\ "recovering" \in P
  BY DEF P
<1>3. ASSUME Start(c) PROVE quit' = quit /\ \E q \in P : MovesOn(c, q)
  <2>1. RunsAt(c, "resolving") /\ busy' = busy /\ waiting' = waiting /\ quit' = quit
    BY <1>3 DEF Start
  <2>2. pc[c] = "resolving"
    BY <2>1 DEF RunsAt
  <2>3. CASE pc' = [pc EXCEPT ![c] = "resolving"] /\ turn' = c
    <3>1. MovesOn(c, "resolving")
      BY <2>1, <2>2, <2>3, <1>1, <1>2, <1>a, RunMoves
    <3> QED  BY <3>1, <2>1, <1>a
  <2>4. CASE pc' = [pc EXCEPT ![c] = "launching"] /\ turn' = Nobody
    <3>1. MovesOn(c, "launching")
      BY <2>1, <2>2, <2>4, <1>1, <1>2, <1>a, RunMoves
    <3> QED  BY <3>1, <2>1, <1>a
  <2> QED  BY <1>3, <2>3, <2>4, StartOfShapes DEF Start
<1>4. ASSUME Launched(c) \/ LaunchFails(c) \/ RecoveryFails(c) PROVE quit' = quit /\ \E q \in P : MovesOn(c, q)
  <2>1. /\ turn = Nobody /\ pc[c] \in {"launching", "recovering"}
        /\ pc' = [pc EXCEPT ![c] = "resolving"] /\ turn' = c
        /\ busy' = busy /\ waiting' = waiting /\ quit' = quit
    BY <1>4 DEF Launched, LaunchFails, RecoveryFails, ResumesAt, ending
  <2>2. pc[c] \in P /\ pc[c] \in Awaits
    BY <2>1, <1>1, <1>a
  <2>3. MovesOn(c, "resolving")
    BY <2>1, <2>2, <1>1, <1>2, <1>a, ResumeMoves
  <2> QED  BY <2>1, <2>3, <1>a
<1>5. ASSUME LaunchMisfits(c) PROVE quit' = quit /\ \E q \in P : MovesOn(c, q)
  <2>1. /\ turn = Nobody /\ pc[c] = "launching"
        /\ pc' = [pc EXCEPT ![c] = "recovering"] /\ turn' = turn
        /\ busy' = busy /\ waiting' = waiting /\ quit' = quit
    BY <1>5 DEF LaunchMisfits, ResumesAt
  <2>2. MovesOn(c, "recovering")
    BY <2>1, <1>1, <1>2, <1>a, ResumeMoves
  <2> QED  BY <2>1, <2>2, <1>a
<1>6. ASSUME Recovered(c) PROVE quit' = quit /\ \E q \in P : MovesOn(c, q)
  <2>1. turn = Nobody /\ pc[c] = "recovering" /\ busy' = busy /\ waiting' = waiting /\ quit' = quit
    BY <1>6 DEF Recovered, ResumesAt
  <2>2. CASE pc' = [pc EXCEPT ![c] = "resolving"] /\ turn' = c
    <3>1. MovesOn(c, "resolving")
      BY <2>1, <2>2, <1>1, <1>2, <1>a, ResumeMoves
    <3> QED  BY <3>1, <2>1, <1>a
  <2>3. CASE pc' = [pc EXCEPT ![c] = "launching"] /\ turn' = Nobody
    <3>1. MovesOn(c, "launching")
      BY <2>1, <2>3, <1>1, <1>2, <1>a, ResumeMoves
    <3> QED  BY <3>1, <2>1, <1>a
  <2> QED  BY <1>6, <2>2, <2>3, StartOfShapes DEF Recovered
<1> QED  BY <1>3, <1>4, <1>5, <1>6 DEF P

\* The switches of a press.
LEMMA SwitchShapes ==
  ASSUME PlacesOK, NEW c \in Coroutines,
         \/ BeginDisable(c) \/ StopDependent(c) \/ StopItself(c) \/ Halt(c) \/ Disabled(c)
         \/ BeginEnable(c) \/ BeginErase(c) \/ Erased(c),
         pc[c] = "begin" => c \in Clicks
  PROVE  quit' = quit /\ \E q \in Places : MovesOn(c, q)
<1>1. {"begin", "disabling", "resolving", "halting", "erasing"} \subseteq Places \ Outside
      /\ {"begin", "disabling", "resolving"} \subseteq Runnings /\ {"halting", "erasing"} \subseteq Awaits
      /\ "halting" \notin Runnings /\ "erasing" \notin Runnings
  BY DEF Places, Outside, Awaits, Runnings
<1>2. pc[c] \in {"begin", "disabling", "halting", "erasing"} => {"disabling", "resolving", "halting", "erasing"} \subseteq PlacesOf(c)
  BY WhoIsWhere, LifecycleAssumption DEF PlacesOf, ClickPlaces
<1>3. ASSUME BeginDisable(c) PROVE quit' = quit /\ MovesOn(c, "disabling")
  <2>1. RunsAt(c, "begin") /\ busy' = busy /\ waiting' = waiting /\ quit' = quit
        /\ pc' = [pc EXCEPT ![c] = "disabling"] /\ turn' = turn
    BY <1>3 DEF BeginDisable, Begins, ending
  <2>2. pc[c] = "begin" /\ turn = c
    BY <2>1 DEF RunsAt
  <2> QED  BY <2>1, <2>2, <1>1, <1>2, RunMoves
<1>4. ASSUME StopDependent(c) \/ StopItself(c) PROVE quit' = quit /\ MovesOn(c, "halting")
  <2>1. RunsAt(c, "disabling") /\ busy' = busy /\ waiting' = waiting /\ quit' = quit
        /\ pc' = [pc EXCEPT ![c] = "halting"] /\ turn' = Nobody
    BY <1>4 DEF StopDependent, StopItself, Stop
  <2>2. pc[c] = "disabling"
    BY <2>1 DEF RunsAt
  <2> QED  BY <2>1, <2>2, <1>1, <1>2, RunMoves
<1>5. ASSUME Halt(c) PROVE quit' = quit /\ MovesOn(c, "disabling")
  <2>1. turn = Nobody /\ pc[c] = "halting" /\ busy' = busy /\ waiting' = waiting /\ quit' = quit
        /\ pc' = [pc EXCEPT ![c] = "disabling"] /\ turn' = c
    BY <1>5 DEF Halt, ResumesAt
  <2> QED  BY <2>1, <1>1, <1>2, ResumeMoves
<1>6. ASSUME Disabled(c) PROVE quit' = quit /\ MovesOn(c, "resolving")
  <2>1. RunsAt(c, "disabling") /\ busy' = busy /\ waiting' = waiting /\ quit' = quit
        /\ pc' = [pc EXCEPT ![c] = "resolving"] /\ turn' = turn
    BY <1>6 DEF Disabled, ending
  <2>2. pc[c] = "disabling" /\ turn = c
    BY <2>1 DEF RunsAt
  <2> QED  BY <2>1, <2>2, <1>1, <1>2, RunMoves
<1>7. ASSUME BeginEnable(c) PROVE quit' = quit /\ MovesOn(c, "resolving")
  <2>1. RunsAt(c, "begin") /\ busy' = busy /\ waiting' = waiting /\ quit' = quit
        /\ pc' = [pc EXCEPT ![c] = "resolving"] /\ turn' = turn
    BY <1>7 DEF BeginEnable, Begins, ending
  <2>2. pc[c] = "begin" /\ turn = c
    BY <2>1 DEF RunsAt
  <2> QED  BY <2>1, <2>2, <1>1, <1>2, RunMoves
<1>8. ASSUME BeginErase(c) PROVE quit' = quit /\ MovesOn(c, "erasing")
  <2>1. RunsAt(c, "begin") /\ busy' = busy /\ waiting' = waiting /\ quit' = quit
        /\ pc' = [pc EXCEPT ![c] = "erasing"] /\ turn' = Nobody
    BY <1>8 DEF BeginErase, Begins, ending
  <2>2. pc[c] = "begin"
    BY <2>1 DEF RunsAt
  <2> QED  BY <2>1, <2>2, <1>1, <1>2, RunMoves
<1>9. ASSUME Erased(c) PROVE quit' = quit /\ MovesOn(c, "resolving")
  <2>1. turn = Nobody /\ pc[c] = "erasing" /\ busy' = busy /\ waiting' = waiting /\ quit' = quit
        /\ pc' = [pc EXCEPT ![c] = "resolving"] /\ turn' = c
    BY <1>9 DEF Erased, ResumesAt, ending
  <2> QED  BY <2>1, <1>1, <1>2, ResumeMoves
<1> QED  BY <1>1, <1>3, <1>4, <1>5, <1>6, <1>7, <1>8, <1>9

\* The loop of the closing.
LEMMA ClosingShapes ==
  ASSUME PlacesOK,
         \/ BeginClose \/ CloseReaderLater \/ CloseNext \/ CloseHands \/ Handed \/ CloseReader
         \/ Settle \/ Stopped \/ OutOfTime
  PROVE  quit' = quit /\ (Rests \/ \E q \in Places : MovesOn(Closer, q))
<1> DEFINE runs == {"begin", "closing", "closing readers"}
           waits == {"settling", "handing", "settling reader"}
<1>1. /\ runs \subseteq Places \ Outside /\ waits \subseteq Places \ Outside
      /\ runs \subseteq Runnings /\ waits \subseteq Awaits /\ \A q \in waits : q \notin Runnings
      /\ Closer \in Coroutines
  BY DEF Places, Outside, Awaits, Runnings, Coroutines
<1>2. runs \subseteq PlacesOf(Closer) /\ waits \subseteq PlacesOf(Closer)
  BY LifecycleAssumption DEF PlacesOf, CloserPlaces
<1>a. /\ "begin" \in runs /\ "closing" \in runs /\ "closing readers" \in runs
      /\ "settling" \in waits /\ "handing" \in waits /\ "settling reader" \in waits
  OBVIOUS
<1> HIDE DEF runs, waits
<1>3. ASSUME NEW where \in runs, NEW q \in runs \cup waits, RunsAt(Closer, where),
             pc' = [pc EXCEPT ![Closer] = q],
             q \in runs => turn' = turn, q \in waits => turn' = Nobody,
             busy' = busy, waiting' = waiting
      PROVE  MovesOn(Closer, q)
  <2>1. turn = Closer
    BY <1>3 DEF RunsAt
  <2> QED  BY <1>3, <2>1, <1>1, <1>2, RunMoves
<1>4. ASSUME NEW q \in runs, turn = Nobody, pc[Closer] \in waits,
             pc' = [pc EXCEPT ![Closer] = q], turn' = Closer, busy' = busy, waiting' = waiting
      PROVE  MovesOn(Closer, q)
  BY <1>4, <1>1, <1>2, ResumeMoves
<1>5. CASE BeginClose
  BY <1>5, <1>1, <1>a, <1>3 DEF BeginClose
<1>6. CASE CloseReaderLater
  BY <1>6 DEF CloseReaderLater, Rests
<1>7. CASE CloseNext
  <2>1. MovesOn(Closer, "settling")
    BY <1>7, <1>1, <1>a, <1>3 DEF CloseNext, Stop
  <2> QED  BY <2>1, <1>7, <1>1, <1>a DEF CloseNext
<1>8. CASE CloseHands
  <2>1. MovesOn(Closer, "handing")
    BY <1>8, <1>1, <1>a, <1>3 DEF CloseHands
  <2> QED  BY <2>1, <1>8, <1>1, <1>a DEF CloseHands, ending
<1>9. CASE Handed
  <2>1. MovesOn(Closer, "closing readers")
    BY <1>9, <1>1, <1>a, <1>4 DEF Handed, ResumesAt
  <2> QED  BY <2>1, <1>9, <1>1, <1>a DEF Handed
<1>10. CASE CloseReader
  <2>1. MovesOn(Closer, "settling reader")
    BY <1>10, <1>1, <1>a, <1>3 DEF CloseReader, Stop
  <2> QED  BY <2>1, <1>10, <1>1, <1>a DEF CloseReader
<1>11. CASE Settle
  <2>1. /\ turn = Nobody /\ pc[Closer] \in waits /\ turn' = Closer
        /\ busy' = busy /\ waiting' = waiting /\ quit' = quit
    BY <1>11, <1>a DEF Settle, Idle
  <2>2. CASE pc' = [pc EXCEPT ![Closer] = "closing"]
    BY <2>1, <2>2, <1>1, <1>a, <1>4
  <2>3. CASE pc' = [pc EXCEPT ![Closer] = "closing readers"]
    BY <2>1, <2>3, <1>1, <1>a, <1>4
  <2> QED  BY <1>11, <2>2, <2>3 DEF Settle
<1>12. CASE Stopped
  BY <1>12 DEF Stopped, Rests, change
<1>13. CASE OutOfTime
  BY <1>13 DEF OutOfTime, Rests, change
<1> QED  BY <1>5, <1>6, <1>7, <1>8, <1>9, <1>10, <1>11, <1>12, <1>13

LEMMA StepShape ==
  ASSUME Types, Phases, [Next]_vars
  PROVE  Shape
<1> USE DEF Types
<1>1. ASSUME NEW c \in Clicks, NEW kind \in Kinds, NEW p \in Plugins, Press(c, kind, p)
      PROVE  Shape
  BY <1>1, LifecycleAssumption DEF Press, Idle, Calls, Enters, Shape, ending
<1>2. ASSUME Quit
      PROVE  Shape
  <2>1. pc[Closer] = "idle" /\ turn = Nobody /\ quit' = TRUE /\ Enter(Closer) /\ (Booted \/ QuitWhileBooting) /\ ~quit
    BY <1>2 DEF Quit, Idle, Phases
  <2>2. Calls(Closer)
    BY <2>1, LifecycleAssumption DEF Calls, Enters
  <2> QED  BY <2>2 DEF Shape
<1>3. ASSUME NEW c \in Coroutines, Wake(c)
      PROVE  Shape
  <2>1. pc[c] = "woken" /\ turn = Nobody /\ Enter(c) /\ quit' = quit
    BY <1>3 DEF Wake, ResumesAt
  <2>2. c \in Clicks \cup {Closer}
    BY <2>1, WhoIsWhere DEF Coroutines
  <2> QED  BY <2>1, <2>2 DEF Shape, Calls, Enters
<1>4. ASSUME NEW c \in Coroutines,
             \/ Resolved(c) /\ c # Boot
             \/ BeginNothing(c) \/ ErasedOnly(c)
             \/ Closed /\ c = Closer
      PROVE  Shape
  <2>1. Leave(c) /\ quit' = quit
    BY <1>4 DEF Resolved, BeginNothing, ErasedOnly, Closed, ending
  <2>2. \/ turn = c /\ pc[c] \in {"resolving", "begin", "closing readers"}
        \/ turn = Nobody /\ pc[c] = "erasing"
    BY <1>4 DEF Resolved, BeginNothing, ErasedOnly, Closed, Begins, RunsAt, ResumesAt
  <2>a. pc[c] = "resolving" => c # Boot
    BY <1>4 DEF BeginNothing, ErasedOnly, Closed, Begins, RunsAt, ResumesAt
  <2>3. c \in Clicks \cup {Closer}
    BY <2>a, <2>2, WhoIsWhere DEF Coroutines
  <2>4. Leaves(c)
    BY <2>1, <2>2, <2>3, LifecycleAssumption DEF Leaves, Outside, Runnings, Awaits, Coroutines
  <2> QED  BY <2>1, <2>3, <2>4 DEF Shape
<1>5. ASSUME Resolved(Boot)
      PROVE  Shape
  BY <1>5 DEF Resolved, RunsAt, BootEnds, Shape, ending
<1>6. ASSUME NEW c \in Coroutines, Pass(c) \/ TurnedOff(c) \/ Refuse(c) \/ Wait(c) \/ Start(c) \/ Recovered(c) \/ RecoveryFails(c) \/ Launch(c)
      PROVE  Shape
  <2>1. {"resolving", "launching", "recovering"} \subseteq Places
    BY DEF Places, Awaits, Runnings
  <2> QED  BY <1>6, <2>1, PassShapes, StartShapes DEF Launch, Shape
<1>7. ASSUME NEW c \in Coroutines,
             \/ BeginDisable(c) \/ StopDependent(c) \/ StopItself(c) \/ Halt(c) \/ Disabled(c)
             \/ BeginEnable(c) \/ BeginErase(c) \/ Erased(c)
      PROVE  Shape
  <2>1. pc[c] = "begin" => c \in Clicks
    <3>1. pc[c] = "begin" => job[c].kind # "none"
      BY <1>7 DEF BeginDisable, BeginEnable, BeginErase, StopDependent, StopItself, Halt, Disabled, Erased, Begins, RunsAt, ResumesAt
    <3>2. pc[c] = "begin" => c # Boot
      BY WhoIsWhere
    <3> QED  BY <3>1, <3>2 DEF WorkOK, Coroutines
  <2> QED  BY <1>7, <2>1, SwitchShapes DEF Shape
<1>8. ASSUME \/ BeginClose \/ CloseReaderLater \/ CloseNext \/ CloseHands \/ Handed \/ CloseReader
             \/ Settle \/ Stopped \/ OutOfTime
      PROVE  Shape
  <2>1. Closer \in Coroutines
    BY DEF Coroutines
  <2> QED  BY <1>8, <2>1, ClosingShapes DEF Shape
<1>9. ASSUME NEW p \in Plugins, StopReturns(p) \/ \E text \in Authored[p] : Edit(p, text)
      PROVE  Shape
  BY <1>9 DEF StopReturns, Edit, Shape, Rests, change, ending
<1>10. ASSUME UNCHANGED vars
      PROVE  Shape
  BY <1>10 DEF vars, Shape, Rests
<1>11. Closer \in Coroutines
  BY DEF Coroutines
<1> QED  BY <1>1, <1>2, <1>3, <1>4, <1>5, <1>6, <1>7, <1>8, <1>9, <1>10, <1>11 DEF Next, Step, Closing

-----------------------------------------------------------------------------
(***************************************************************************)
(* The switch:  one change at a time, and nobody is left in the queue.     *)
(***************************************************************************)

\* Nobody but c has the switch, or nobody.
LEMMA OthersSame ==
  ASSUME PlacesOK, Lock, NEW c \in Clicks \cup {Closer}, Inside(c), NEW d \in Clicks \cup {Closer}, d # c
  PROVE  pc[d] \in Outside /\ turn # d
<1>1. pc[d] \in Outside
  BY DEF Lock, OneChange, Inside
<1> QED  BY <1>1 DEF Lock, Runnings, Outside, Coroutines

LEMMA QueueHead ==
  ASSUME QueueOK, Lock, waiting # <<>>
  PROVE  /\ Head(waiting) \in Clicks \cup {Closer} /\ pc[Head(waiting)] = "queued"
         /\ \A c \in Clicks \cup {Closer} :
               (\E i \in 1..Len(Tail(waiting)) : Tail(waiting)[i] = c) <=> Waits(c) /\ c # Head(waiting)
         /\ \A i, j \in 1..Len(Tail(waiting)) : Tail(waiting)[i] = Tail(waiting)[j] => i = j
<1> DEFINE q == waiting
<1>1. q \in Seq(Clicks \cup {Closer}) /\ q # <<>> /\ \A i, j \in 1..Len(q) : q[i] = q[j] => i = j
  BY DEF QueueOK, Lock
<1> HIDE DEF q
<1>2. /\ Head(q) = q[1] /\ 1 \in 1..Len(q) /\ Len(q) \in Nat /\ Len(Tail(q)) = Len(q) - 1
      /\ \A i \in 1..Len(q) - 1 : Tail(q)[i] = q[i + 1]
  BY <1>1
<1>3. \A i \in 2..Len(q) : i - 1 \in 1..Len(q) - 1 /\ Tail(q)[i - 1] = q[i]
  BY <1>2
<1>4. q[1] \in Clicks \cup {Closer}
  BY <1>1, <1>2
<1>5. pc[Head(waiting)] = "queued" /\ Head(waiting) \in Clicks \cup {Closer}
  BY <1>2, <1>4 DEF Lock, Waits, q
<1>6. ASSUME NEW c \in Clicks \cup {Closer}
      PROVE  (\E i \in 1..Len(Tail(q)) : Tail(q)[i] = c) <=> (\E i \in 1..Len(q) : q[i] = c) /\ c # Head(q)
  <2>1. ASSUME NEW i \in 1..Len(Tail(q)), Tail(q)[i] = c PROVE (\E k \in 1..Len(q) : q[k] = c) /\ c # Head(q)
    <3>1. i + 1 \in 1..Len(q) /\ q[i + 1] = c /\ i + 1 # 1
      BY <2>1, <1>2
    <3> QED  BY <3>1, <1>1, <1>2
  <2>2. ASSUME NEW i \in 1..Len(q), q[i] = c, c # Head(q) PROVE \E k \in 1..Len(Tail(q)) : Tail(q)[k] = c
    <3>1. i # 1 /\ i \in Nat
      BY <2>2, <1>2
    <3>2. i \in 2..Len(q)
      BY <3>1, <1>2
    <3>3. i - 1 \in 1..Len(Tail(q)) /\ Tail(q)[i - 1] = c
      BY <3>2, <1>2, <1>3, <2>2
    <3> QED  BY <3>3
  <2> QED  BY <2>1, <2>2
<1>7. \A i, j \in 1..Len(Tail(q)) : Tail(q)[i] = Tail(q)[j] => i = j
  <2> SUFFICES ASSUME NEW i \in 1..Len(Tail(q)), NEW j \in 1..Len(Tail(q)), Tail(q)[i] = Tail(q)[j] PROVE i = j
    OBVIOUS
  <2>1. i + 1 \in 1..Len(q) /\ j + 1 \in 1..Len(q) /\ q[i + 1] = q[j + 1]
    BY <1>2
  <2>2. i + 1 = j + 1
    BY <2>1, <1>1
  <2> QED  BY <2>2, <1>2
<1> QED  BY <1>5, <1>6, <1>7 DEF q, Waits

\* A coroutine joins the end of the queue.
LEMMA QueueGrows ==
  ASSUME QueueOK, Lock, NEW c \in Clicks \cup {Closer}, pc[c] # "queued", waiting' = Append(waiting, c)
  PROVE  /\ \A i, j \in 1..Len(waiting') : waiting'[i] = waiting'[j] => i = j
         /\ \A d \in Clicks \cup {Closer} : Waits(d)' <=> Waits(d) \/ d = c
<1> DEFINE q == waiting
           r == waiting'
<1>1. q \in Seq(Clicks \cup {Closer}) /\ \A i, j \in 1..Len(q) : q[i] = q[j] => i = j
  BY DEF QueueOK, Lock
<1>2. r = Append(q, c)
  OBVIOUS
<1>3. \A i \in 1..Len(q) : q[i] # c
  BY DEF Lock, Waits
<1> HIDE DEF q, r
<1>4. Len(q) \in Nat /\ Len(r) = Len(q) + 1 /\ (\A i \in 1..Len(q) : r[i] = q[i]) /\ r[Len(q) + 1] = c
  BY <1>1, <1>2, AppendProperties
<1>5. \A i \in 1..Len(r) : i \in 1..Len(q) \/ i = Len(q) + 1
  BY <1>4
<1>6. \A i, j \in 1..Len(r) : r[i] = r[j] => i = j
  BY <1>1, <1>3, <1>4, <1>5
<1>7. ASSUME NEW d PROVE (\E i \in 1..Len(r) : r[i] = d) <=> (\E i \in 1..Len(q) : q[i] = d) \/ d = c
  <2>1. Len(q) + 1 \in 1..Len(r) /\ \A i \in 1..Len(q) : i \in 1..Len(r)
    BY <1>4
  <2> QED  BY <2>1, <1>4, <1>5
<1>8. \A d \in Clicks \cup {Closer} : Waits(d)' <=> Waits(d) \/ d = c
  BY <1>7 DEF Waits, q, r
<1> QED  BY <1>6, <1>8 DEF r

\* Coroutines outside a change move as others do nothing; where each is decides the rest.
LEMMA EnterKeepsLock ==
  ASSUME Types, Lock, NEW c \in Clicks \cup {Closer}, Enters(c)
  PROVE  Lock'
<1> USE DEF Types
<1>0. c \in Coroutines /\ c # Nobody /\ pc[c] \in {"idle", "woken"} /\ turn = Nobody
  BY LifecycleAssumption DEF Enters, Coroutines
<1>1. CASE busy
  <2>1. /\ waiting' = Append(waiting, c) /\ pc' = [pc EXCEPT ![c] = "queued"] /\ busy' = busy /\ turn' = turn
    BY <1>1 DEF Enters, Enter
  <2>2. pc'[c] = "queued" /\ \A d \in Coroutines : d # c => pc'[d] = pc[d]
    BY <2>1, <1>0 DEF PlacesOK
  <2>3. \A d \in Coroutines : Inside(d)' <=> Inside(d)
    BY <2>2, <1>0 DEF Inside, Outside
  <2>4. /\ \A i, j \in 1..Len(waiting') : waiting'[i] = waiting'[j] => i = j
        /\ \A d \in Clicks \cup {Closer} : Waits(d)' <=> Waits(d) \/ d = c
    BY <2>1, <1>0, QueueGrows
  <2>5. \A d \in Clicks \cup {Closer} : pc'[d] = "queued" <=> Waits(d)'
    BY <2>2, <2>4 DEF Lock, Coroutines
  <2>6. OneChange' /\ (\A d \in Clicks \cup {Closer} : Inside(d)' => busy') /\ (busy' => \E d \in Clicks \cup {Closer} : Inside(d)')
    BY <2>1, <2>3 DEF Lock, OneChange, Coroutines
  <2>7. \A d \in Coroutines : pc'[d] \in Runnings <=> turn' = d
    BY <2>1, <2>2, <1>0 DEF Lock, Runnings
  <2>8. QueueServed'
    BY <2>1, <1>1 DEF QueueServed
  <2> QED  BY <2>4, <2>5, <2>6, <2>7, <2>8 DEF Lock
<1>2. CASE ~busy
  <2>1. /\ busy' = TRUE /\ pc' = [pc EXCEPT ![c] = "begin"] /\ turn' = c /\ waiting' = waiting
    BY <1>2 DEF Enters, Enter
  <2>2. pc'[c] = "begin" /\ \A d \in Coroutines : d # c => pc'[d] = pc[d]
    BY <2>1, <1>0 DEF PlacesOK
  <2>3. \A d \in Clicks \cup {Closer} : ~Inside(d)
    BY <1>2 DEF Lock
  <2>4. Inside(c)' /\ \A d \in Clicks \cup {Closer} : Inside(d)' => d = c
    BY <2>2, <2>3 DEF Inside, Outside, Coroutines
  <2>5. \A d \in Clicks \cup {Closer} : Waits(d)' <=> Waits(d)
    BY <2>1 DEF Waits
  <2>6. \A d \in Clicks \cup {Closer} : pc'[d] = "queued" <=> Waits(d)'
    BY <2>2, <2>5, <1>0 DEF Lock, Coroutines
  <2>7. \A d \in Coroutines : pc'[d] \in Runnings <=> turn' = d
    <3>1. \A d \in Coroutines : pc[d] \notin Runnings
      BY <1>0, LifecycleAssumption DEF Lock
    <3> QED  BY <3>1, <2>1, <2>2 DEF Runnings
  <2>8. QueueServed'
    BY <2>1 DEF QueueServed
  <2>9. OneChange' /\ (\A d \in Clicks \cup {Closer} : Inside(d)' => busy') /\ (busy' => \E d \in Clicks \cup {Closer} : Inside(d)')
    BY <2>1, <2>4 DEF OneChange
  <2>10. \A i, j \in 1..Len(waiting') : waiting'[i] = waiting'[j] => i = j
    BY <2>1 DEF Lock
  <2> QED  BY <2>6, <2>7, <2>8, <2>9, <2>10 DEF Lock
<1> QED  BY <1>1, <1>2

LEMMA LeaveKeepsLock ==
  ASSUME Types, Lock, NEW c \in Clicks \cup {Closer}, Leaves(c)
  PROVE  Lock'
<1> USE DEF Types
<1>0. c \in Coroutines /\ c # Nobody /\ Inside(c) /\ pc[c] # "queued"
  BY LifecycleAssumption DEF Leaves, Coroutines, Inside, Outside
<1>1. busy' = FALSE /\ turn' = Nobody
  BY DEF Leaves, Leave
<1>2. \A d \in Coroutines : d # c => turn # d
  BY LifecycleAssumption DEF Leaves
<1>3. \A d \in Coroutines : d # c => pc[d] \notin Runnings
  BY <1>2 DEF Lock
<1>4. \A d \in Clicks \cup {Closer} : d # c => ~Inside(d)
  BY <1>0 DEF Lock, OneChange
<1>5. CASE waiting = <<>>
  <2>1. waiting' = waiting /\ pc' = [pc EXCEPT ![c] = "done"]
    BY <1>5 DEF Leaves, Leave
  <2>2. pc'[c] = "done" /\ \A d \in Coroutines : d # c => pc'[d] = pc[d]
    BY <2>1, <1>0 DEF PlacesOK
  <2>3. \A d \in Clicks \cup {Closer} : Waits(d)' <=> Waits(d)
    BY <2>1 DEF Waits
  <2>4. \A d \in Clicks \cup {Closer} : pc'[d] = "queued" <=> Waits(d)'
    BY <2>2, <2>3, <1>0 DEF Lock, Coroutines
  <2>5. \A d \in Clicks \cup {Closer} : ~Inside(d)'
    BY <2>2, <1>4 DEF Inside, Outside, Coroutines
  <2>6. \A d \in Coroutines : pc'[d] \in Runnings <=> turn' = d
    BY <1>1, <1>3, <2>2, LifecycleAssumption DEF Runnings
  <2>7. QueueServed'
    BY <2>1, <1>5 DEF QueueServed
  <2>8. \A i, j \in 1..Len(waiting') : waiting'[i] = waiting'[j] => i = j
    BY <2>1 DEF Lock
  <2> QED  BY <1>1, <2>4, <2>5, <2>6, <2>7, <2>8 DEF Lock, OneChange
<1>6. CASE waiting # <<>>
  <2> DEFINE first == Head(waiting)
  <2>1. waiting' = Tail(waiting) /\ pc' = [pc EXCEPT ![c] = "done", ![first] = "woken"]
    BY <1>6 DEF Leaves, Leave
  <2>2. /\ first \in Clicks \cup {Closer} /\ pc[first] = "queued"
        /\ \A d \in Clicks \cup {Closer} : (\E i \in 1..Len(Tail(waiting)) : Tail(waiting)[i] = d) <=> Waits(d) /\ d # first
        /\ \A i, j \in 1..Len(Tail(waiting)) : Tail(waiting)[i] = Tail(waiting)[j] => i = j
    BY <1>6, QueueHead
  <2> HIDE DEF first
  <2>3. first \in Coroutines /\ first # c
    BY <2>2, <1>0 DEF Coroutines
  <2>4. pc'[c] = "done" /\ pc'[first] = "woken" /\ \A d \in Coroutines : d # c /\ d # first => pc'[d] = pc[d]
    BY <2>1, <2>3, <1>0 DEF PlacesOK
  <2>5. \A d \in Clicks \cup {Closer} : Waits(d)' <=> Waits(d) /\ d # first
    BY <2>1, <2>2 DEF Waits
  <2>6. \A d \in Clicks \cup {Closer} : pc'[d] = "queued" <=> Waits(d)'
    BY <2>4, <2>5, <1>0 DEF Lock, Coroutines
  <2>7. \A d \in Clicks \cup {Closer} : ~Inside(d)'
    BY <2>4, <1>4 DEF Inside, Outside, Coroutines
  <2>8. \A d \in Coroutines : pc'[d] \in Runnings <=> turn' = d
    BY <1>1, <1>3, <2>4, LifecycleAssumption DEF Runnings
  <2>9. QueueServed'
    BY <2>3, <2>4 DEF QueueServed
  <2>10. \A i, j \in 1..Len(waiting') : waiting'[i] = waiting'[j] => i = j
    BY <2>1, <2>2
  <2> QED  BY <1>1, <2>6, <2>7, <2>8, <2>9, <2>10 DEF Lock, OneChange
<1> QED  BY <1>5, <1>6

LEMMA MoveKeepsLock ==
  ASSUME Types, Lock, NEW c \in Coroutines, NEW q \in Places, MovesOn(c, q)
  PROVE  Lock'
<1> USE DEF Types
<1>0. c # Nobody /\ Inside(c) /\ q \notin Outside /\ pc[c] \notin {"queued", "woken"} /\ q \notin {"queued", "woken"}
  BY LifecycleAssumption DEF MovesOn, Inside, Outside
<1>1. busy' = busy /\ waiting' = waiting
  BY DEF MovesOn
<1>2. pc'[c] = q /\ \A d \in Coroutines : d # c => pc'[d] = pc[d]
  BY DEF MovesOn, PlacesOK
<1>3. \A d \in Coroutines : Inside(d)' <=> Inside(d)
  BY <1>0, <1>2 DEF Inside
<1>4. \A d \in Clicks \cup {Closer} : Waits(d)' <=> Waits(d)
  BY <1>1 DEF Waits
<1>5. \A d \in Clicks \cup {Closer} : pc'[d] = "queued" <=> Waits(d)'
  BY <1>0, <1>2, <1>4 DEF Lock, Coroutines
<1>6. OneChange' /\ (\A d \in Clicks \cup {Closer} : Inside(d)' => busy') /\ (busy' => \E d \in Clicks \cup {Closer} : Inside(d)')
  BY <1>1, <1>3 DEF Lock, OneChange, Coroutines
<1>7. \A d \in Coroutines : pc'[d] \in Runnings <=> turn' = d
  <2>1. \A d \in Coroutines : d # c => turn # d
    BY LifecycleAssumption DEF MovesOn
  <2>2. \A d \in Coroutines : d # c => pc[d] \notin Runnings
    BY <2>1 DEF Lock
  <2>3. turn' = IF q \in Runnings THEN c ELSE Nobody
    BY DEF MovesOn
  <2> QED  BY <2>2, <2>3, <1>2, LifecycleAssumption
<1>8. QueueServed'
  <2>1. \A d \in Coroutines : pc[d] = "woken" => pc'[d] = "woken"
    BY <1>0, <1>2
  <2> QED  BY <1>1, <2>1 DEF Lock, QueueServed
<1>9. \A i, j \in 1..Len(waiting') : waiting'[i] = waiting'[j] => i = j
  BY <1>1 DEF Lock
<1> QED  BY <1>5, <1>6, <1>7, <1>8, <1>9 DEF Lock

LEMMA BootKeepsLock ==
  ASSUME Types, Lock, BootEnds
  PROVE  Lock'
<1> USE DEF Types
<1>0. /\ Boot \in Coroutines /\ turn = Boot /\ pc[Boot] = "resolving"
      /\ busy' = busy /\ waiting' = waiting /\ turn' = Nobody
      /\ pc'[Boot] = "done" /\ \A d \in Coroutines : d # Boot => pc'[d] = pc[d]
  BY DEF BootEnds, PlacesOK, Coroutines
<1>1. \A d \in Clicks \cup {Closer} : d \in Coroutines /\ d # Boot
  BY LifecycleAssumption DEF Coroutines
<1>2. \A d \in Clicks \cup {Closer} : pc'[d] = pc[d]
  BY <1>0, <1>1
<1>3. \A d \in Clicks \cup {Closer} : (Inside(d)' <=> Inside(d)) /\ (Waits(d)' <=> Waits(d))
  BY <1>0, <1>2 DEF Inside, Waits
<1>4. \A d \in Coroutines : pc'[d] \in Runnings <=> turn' = d
  BY <1>0, LifecycleAssumption DEF Lock, Runnings
<1>5. QueueServed'
  BY <1>0 DEF Lock, QueueServed
<1>6. OneChange' /\ (\A d \in Clicks \cup {Closer} : Inside(d)' => busy') /\ (busy' => \E d \in Clicks \cup {Closer} : Inside(d)')
  BY <1>0, <1>3 DEF Lock, OneChange
<1>7. \A d \in Clicks \cup {Closer} : pc'[d] = "queued" <=> Waits(d)'
  BY <1>2, <1>3 DEF Lock
<1>8. \A i, j \in 1..Len(waiting') : waiting'[i] = waiting'[j] => i = j
  BY <1>0 DEF Lock
<1> QED  BY <1>4, <1>5, <1>6, <1>7, <1>8 DEF Lock

LEMMA RestKeepsLock == Lock /\ Rests => Lock'
<1> SUFFICES ASSUME Lock, Rests PROVE Lock'
  OBVIOUS
<1>1. busy' = busy /\ waiting' = waiting /\ turn' = turn /\ pc' = pc
  BY DEF Rests
<1> QED  BY <1>1 DEF Lock, OneChange, QueueServed, Inside, Waits

LEMMA ShapeKeepsLock ==
  ASSUME Types, Lock, Shape
  PROVE  Lock'
BY EnterKeepsLock, LeaveKeepsLock, MoveKeepsLock, BootKeepsLock, RestKeepsLock DEF Shape, Calls

LEMMA ShapeKeepsPhases ==
  ASSUME Types, Lock, Phases, Shape
  PROVE  Phases'
<1> USE DEF Types
<1>0. Boot \in Coroutines /\ Closer \in Coroutines /\ Boot # Closer /\ Boot \notin Clicks /\ Closer \notin Clicks
      /\ \A c \in Clicks : c \in Coroutines
  BY LifecycleAssumption DEF Coroutines
<1>1. ASSUME NEW c \in Clicks \cup {Closer}, Calls(c) PROVE Phases'
  <2>1. c \in Coroutines /\ c # Boot /\ pc[c] \in {"idle", "woken"} /\ pc'[c] \in {"queued", "begin"}
        /\ \A d \in Coroutines : d # c => pc'[d] = pc[d]
    BY <1>0, <1>1 DEF Calls, Enters, Enter, PlacesOK
  <2>2. Booted' <=> Booted
    BY <2>1, <1>0 DEF Booted
  <2>3. ~Booted => \A d \in Clicks : d # c
    BY <1>1, <2>1 DEF Calls, Phases
  <2>4. ~Booted' => \A d \in Clicks : pc'[d] = "idle"
    BY <2>1, <2>2, <2>3, <1>0 DEF Phases
  <2>5. quit' <=> pc'[Closer] # "idle"
    BY <2>1, <1>0, <1>1 DEF Phases, Calls
  <2>6. quit' /\ ~Booted' => QuitWhileBooting
    BY <2>1, <2>2, <1>0, <1>1 DEF Phases, Calls
  <2> QED  BY <2>4, <2>5, <2>6 DEF Phases
<1>2. ASSUME \A d \in Coroutines : pc[d] = "idle" <=> pc'[d] = "idle", Booted => Booted', quit' = quit
      PROVE  Phases'
  BY <1>0, <1>2 DEF Phases
<1>3. ASSUME NEW c \in Clicks \cup {Closer}, Leaves(c), quit' = quit PROVE Phases'
  <2>1. c \in Coroutines /\ pc[c] # "idle"
    BY <1>3 DEF Leaves, Coroutines, Outside
  <2>2. CASE waiting = <<>>
    <3>1. pc' = [pc EXCEPT ![c] = "done"]
      BY <1>3, <2>2 DEF Leaves, Leave
    <3> QED  BY <3>1, <2>1, <1>0, <1>2, <1>3 DEF PlacesOK, Booted
  <2>3. CASE waiting # <<>>
    <3> DEFINE first == Head(waiting)
    <3>1. pc' = [pc EXCEPT ![c] = "done", ![first] = "woken"]
      BY <1>3, <2>3 DEF Leaves, Leave
    <3>2. first \in Clicks \cup {Closer} /\ pc[first] = "queued"
      BY <2>3, QueueHead
    <3> HIDE DEF first
    <3>3. \A d \in Coroutines : pc'[d] = IF d = first THEN "woken" ELSE IF d = c THEN "done" ELSE pc[d]
      BY <3>1, <3>2, <2>1 DEF PlacesOK, Coroutines
    <3> QED  BY <3>2, <3>3, <2>1, <1>0, <1>2, <1>3 DEF Booted
  <2> QED  BY <2>2, <2>3
<1>4. ASSUME NEW c \in Coroutines, NEW q \in Places, MovesOn(c, q), quit' = quit PROVE Phases'
  <2>1. pc[c] \notin {"idle", "done"} /\ q # "idle" /\ \A d \in Coroutines : pc'[d] = IF d = c THEN q ELSE pc[d]
    BY <1>4 DEF MovesOn, PlacesOK, Outside
  <2> QED  BY <2>1, <1>0, <1>2, <1>4 DEF Booted
<1>5. ASSUME BootEnds, quit' = quit PROVE Phases'
  <2>1. \A d \in Coroutines : pc'[d] = IF d = Boot THEN "done" ELSE pc[d]
    BY <1>5 DEF BootEnds, PlacesOK
  <2> QED  BY <2>1, <1>0, <1>2, <1>5 DEF Booted, BootEnds
<1>6. ASSUME Rests, quit' = quit PROVE Phases'
  BY <1>6, <1>2 DEF Rests, Booted
<1> QED  BY <1>1, <1>3, <1>4, <1>5, <1>6 DEF Shape

-----------------------------------------------------------------------------
(***************************************************************************)
(* The types of what the steps work on.                                    *)
(***************************************************************************)

\* What a coroutine that leaves or enters changes of them.
LEMMA EnterWork ==
  ASSUME Types, NEW c \in Clicks \cup {Closer}, Enter(c), c \in Clicks => job'[c].id \in Plugins,
         job' \in [Coroutines -> Jobs], job'[Closer].kind = "none",
         \A d \in Coroutines : d # c => job'[d] = job[d],
         todo' = todo, cyclic' = cyclic, target' = target, retried' = retried
  PROVE  WorkOK'
<1> USE DEF Types
<1>1. c \in Coroutines /\ \A d \in Coroutines : d # c => pc'[d] = pc[d]
  BY DEF Enter, PlacesOK, Coroutines
<1>2. pc'[c] \in {"queued", "begin"}
  BY <1>1 DEF Enter, PlacesOK
<1>3. \A d \in Clicks : pc'[d] # "idle" => job'[d].id \in Plugins
  BY <1>1 DEF WorkOK, Coroutines
<1>4. \A d \in Coroutines : pc'[d] \in Awaits \ {"handing", "erasing"} => target'[d] \in Plugins
  BY <1>1, <1>2 DEF WorkOK, Awaits
<1> QED  BY <1>3, <1>4 DEF WorkOK

LEMMA LeaveWork ==
  ASSUME Types, Lock, NEW c \in Clicks \cup {Closer}, Leave(c), pc[c] # "idle",
         job' = job, todo' = todo, cyclic' = cyclic, target' = target, retried' = retried
  PROVE  WorkOK'
<1> USE DEF Types
<1>1. ASSUME NEW d \in Coroutines PROVE pc'[d] = pc[d] \/ (pc'[d] \in {"done", "woken"} /\ pc[d] # "idle")
  <2>1. c \in Coroutines
    BY DEF Coroutines
  <2>2. CASE waiting = <<>>
    BY <2>1, <2>2 DEF Leave, PlacesOK
  <2>3. CASE waiting # <<>>
    <3> DEFINE first == Head(waiting)
    <3>1. pc' = [pc EXCEPT ![c] = "done", ![first] = "woken"] /\ first \in Clicks \cup {Closer} /\ pc[first] = "queued"
      BY <2>3, QueueHead DEF Leave
    <3> HIDE DEF first
    <3> QED  BY <2>1, <3>1 DEF PlacesOK
  <2> QED  BY <2>2, <2>3
<1>2. \A d \in Clicks : pc'[d] # "idle" => job[d].id \in Plugins
  BY <1>1 DEF WorkOK, Coroutines
<1>3. \A d \in Coroutines : pc'[d] \in Awaits \ {"handing", "erasing"} => target[d] \in Plugins
  BY <1>1 DEF WorkOK, Awaits
<1> QED  BY <1>2, <1>3 DEF WorkOK

\* A coroutine that stays inside: what it has still to visit and what it awaits are plugins.
LEMMA MoveWork ==
  ASSUME Types, NEW c \in Coroutines, NEW q, pc' = [pc EXCEPT ![c] = q], pc[c] # "idle",
         job' = job,
         target' = target \/ \E p \in Plugins : target' = [target EXCEPT ![c] = p],
         q \in Awaits \ {"handing", "erasing"} => target'[c] \in Plugins,
         todo' = todo \/ \E s \in Seq(Plugins) : todo' = [todo EXCEPT ![c] = s],
         cyclic' \subseteq Plugins,
         retried' = retried \/ \E b \in BOOLEAN : retried' = [retried EXCEPT ![c] = b]
  PROVE  WorkOK'
<1> USE DEF Types
<1>1. \A d \in Coroutines : d # c => pc'[d] = pc[d] /\ target'[d] = target[d]
  BY DEF PlacesOK, WorkOK
<1>2. pc'[c] = q
  BY DEF PlacesOK
<1>3. \A d \in Coroutines : pc'[d] \in Awaits \ {"handing", "erasing"} => target'[d] \in Plugins
  BY <1>1, <1>2 DEF WorkOK
<1>4. \A d \in Clicks : pc'[d] # "idle" => job[d].id \in Plugins
  BY <1>1 DEF WorkOK, Coroutines
<1>5. target' \in [Coroutines -> Plugins \cup {Nobody}]
  BY DEF WorkOK
<1>6. todo' \in [Coroutines -> Seq(Plugins)]
  BY DEF WorkOK
<1>7. retried' \in [Coroutines -> BOOLEAN]
  BY DEF WorkOK
<1> QED  BY <1>3, <1>4, <1>5, <1>6, <1>7 DEF WorkOK

\* A coroutine that runs on where it is.
LEMMA RestWork ==
  ASSUME Types, NEW c \in Coroutines, pc' = pc, job' = job, target' = target, retried' = retried, cyclic' = cyclic,
         todo' = todo \/ \E s \in Seq(Plugins) : todo' = [todo EXCEPT ![c] = s]
  PROVE  WorkOK'
<1> USE DEF Types
<1>1. todo' \in [Coroutines -> Seq(Plugins)]
  BY DEF WorkOK
<1> QED  BY <1>1 DEF WorkOK

LEMMA TodoTypes ==
  ASSUME Types, NEW c \in Coroutines
  PROVE  /\ todo[c] \in Seq(Plugins)
         /\ todo[c] # <<>> => Head(todo[c]) \in Plugins /\ Tail(todo[c]) \in Seq(Plugins)
<1>1. todo[c] \in Seq(Plugins)
  BY DEF Types, WorkOK
<1> QED  BY <1>1

\* What stays of the registry and of the ending, when nothing of them moves.
LEMMA RegistryStays == RegistryOK /\ UNCHANGED registry => RegistryOK'
BY DEF RegistryOK, registry

LEMMA EndingStays == EndingOK /\ UNCHANGED ending => EndingOK'
BY DEF EndingOK, ending

LEMMA CallTypes ==
  ASSUME Types, Lock,
         \/ \E c \in Clicks, kind \in Kinds, p \in Plugins : Press(c, kind, p)
         \/ \E c \in Coroutines : Wake(c)
         \/ Quit
  PROVE  RegistryOK' /\ WorkOK' /\ EndingOK'
<1> USE DEF Types
<1>1. ASSUME NEW c \in Clicks, NEW kind \in Kinds, NEW p \in Plugins, Press(c, kind, p)
      PROVE  RegistryOK' /\ WorkOK' /\ EndingOK'
  <2>1. RegistryOK' /\ EndingOK'
    BY <1>1, RegistryStays, EndingStays DEF Press
  <2>2. c \in Coroutines /\ c # Closer
    BY LifecycleAssumption DEF Coroutines
  <2>3. [kind |-> kind, id |-> p] \in Jobs
    BY DEF Jobs
  <2>4. job' = [job EXCEPT ![c] = [kind |-> kind, id |-> p]]
    BY <1>1 DEF Press
  <2>5. job' \in [Coroutines -> Jobs] /\ job'[Closer] = job[Closer] /\ (\A d \in Coroutines : d # c => job'[d] = job[d]) /\ job'[c].id = p
    BY <2>2, <2>3, <2>4 DEF WorkOK, Coroutines
  <2>6. WorkOK'
    BY <1>1, <2>5, EnterWork DEF Press, WorkOK
  <2> QED  BY <2>1, <2>6
<1>2. ASSUME NEW c \in Coroutines, Wake(c)
      PROVE  RegistryOK' /\ WorkOK' /\ EndingOK'
  <2>1. RegistryOK'
    BY <1>2, RegistryStays DEF Wake
  <2>2. pc[c] = "woken" /\ c \in Clicks \cup {Closer}
    BY <1>2, WhoIsWhere DEF Wake, ResumesAt, Coroutines
  <2>3. c \in Clicks => job[c].id \in Plugins
    BY <2>2 DEF WorkOK
  <2>4. WorkOK'
    BY <1>2, <2>2, <2>3, EnterWork DEF Wake, WorkOK
  <2>5. late' \in BOOLEAN
    BY <1>2 DEF Wake
  <2>6. EndingOK'
    BY <1>2, <2>5 DEF Wake, EndingOK
  <2> QED  BY <2>1, <2>4, <2>6
<1>3. ASSUME Quit
      PROVE  RegistryOK' /\ WorkOK' /\ EndingOK'
  <2>1. RegistryOK'
    BY <1>3, RegistryStays DEF Quit
  <2>2. WorkOK'
    BY <1>3, EnterWork, LifecycleAssumption DEF Quit, WorkOK
  <2>3. late' \in BOOLEAN /\ quit' \in BOOLEAN
    BY <1>3 DEF Quit
  <2>4. EndingOK'
    BY <1>3, <2>3 DEF Quit, EndingOK
  <2> QED  BY <2>1, <2>2, <2>4
<1> QED  BY <1>1, <1>2, <1>3

LEMMA LeaveTypes ==
  ASSUME Types, Lock, NEW c \in Coroutines,
         Resolved(c) \/ BeginNothing(c) \/ ErasedOnly(c) \/ (Closed /\ c = Closer)
  PROVE  RegistryOK' /\ WorkOK' /\ EndingOK'
<1> USE DEF Types
<1>1. /\ UNCHANGED registry /\ UNCHANGED ending
      /\ job' = job /\ todo' = todo /\ cyclic' = cyclic /\ target' = target /\ retried' = retried
  BY DEF Resolved, BeginNothing, ErasedOnly, Closed
<1>2. pc[c] \in {"resolving", "begin", "erasing", "closing readers"}
  BY DEF Resolved, BeginNothing, ErasedOnly, Closed, Begins, RunsAt, ResumesAt
<1>3. CASE c = Boot /\ Resolved(c)
  BY <1>1, <1>2, <1>3, MoveWork, RegistryStays, EndingStays DEF Resolved, Awaits, WorkOK
<1>4. CASE ~(c = Boot /\ Resolved(c))
  <2>1. c \in Clicks \cup {Closer} /\ Leave(c)
    <3>1. pc[c] = "resolving" => Resolved(c)
      BY DEF Resolved, BeginNothing, ErasedOnly, Closed, Begins, RunsAt, ResumesAt
    <3>2. c # Boot
      BY <1>2, <1>4, <3>1, WhoIsWhere, LifecycleAssumption
    <3> QED  BY <3>2 DEF Resolved, BeginNothing, ErasedOnly, Closed, Coroutines
  <2> QED  BY <1>1, <1>2, <2>1, LeaveWork, RegistryStays, EndingStays
<1> QED  BY <1>3, <1>4

\* A pass that starts nothing.
LEMMA PassTypes ==
  ASSUME Types, NEW c \in Coroutines,
         Pass(c) \/ TurnedOff(c) \/ Refuse(c) \/ Wait(c)
  PROVE  RegistryOK' /\ WorkOK' /\ EndingOK'
<1> USE DEF Types
<1>1. /\ RunsAt(c, "resolving") /\ todo[c] # <<>> /\ Visit(c) /\ UNCHANGED ending
      /\ pc' = pc /\ job' = job /\ target' = target /\ retried' = retried
  BY DEF Pass, TurnedOff, Refuse, Wait
<1> DEFINE p == Head(todo[c])
<1>2. p \in Plugins /\ Tail(todo[c]) \in Seq(Plugins)
  BY <1>1, TodoTypes
<1> HIDE DEF p
<1>3. WorkOK'
  BY <1>1, <1>2, RestWork DEF Visit, WorkOK
<1>4. \/ UNCHANGED registry
      \/ /\ folder' = folder /\ def' = def /\ ran' = ran /\ started' = started /\ disabled' = disabled
         /\ \E s \in {"disabled", "refused", "waiting"} : state' = [state EXCEPT ![p] = s]
         /\ attempt' = attempt \/ attempt' = [attempt EXCEPT ![p] = FALSE]
  <2>1. CASE Pass(c)
    BY <2>1 DEF Pass
  <2>2. CASE TurnedOff(c)
    BY <2>2 DEF TurnedOff, p
  <2>3. CASE Refuse(c)
    BY <2>3 DEF Refuse, Refused, p
  <2>4. CASE Wait(c)
    BY <2>4 DEF Wait, p
  <2> QED  BY <2>1, <2>2, <2>3, <2>4
<1>5. RegistryOK'
  <2>1. CASE UNCHANGED registry
    BY <2>1, RegistryStays
  <2>2. CASE ~(UNCHANGED registry)
    <3>1. state' \in [Plugins -> States]
      BY <1>2, <1>4, <2>2 DEF RegistryOK, States, registry
    <3>2. attempt' \in [Plugins -> BOOLEAN]
      BY <1>2, <1>4, <2>2 DEF RegistryOK
    <3> QED  BY <3>1, <3>2, <1>4, <2>2 DEF RegistryOK
  <2> QED  BY <2>1, <2>2
<1> QED  BY <1>1, <1>3, <1>5, EndingStays

\* What start() of one plugin by one coroutine leaves.
StartLeaves(c, p, again) ==
    /\ def' \in [Plugins -> Texts] /\ state' \in [Plugins -> States]
    /\ attempt' \in [Plugins -> BOOLEAN] /\ ran' \in [Plugins -> BOOLEAN]
    /\ started' \in Seq(Plugins) /\ halted' \subseteq halted
    /\ \/ pc' = [pc EXCEPT ![c] = "resolving"] /\ target' = target /\ retried' = retried
       \/ /\ pc' = [pc EXCEPT ![c] = "launching"]
          /\ target' = [target EXCEPT ![c] = p] /\ retried' = [retried EXCEPT ![c] = again]

LEMMA StartOfTypes ==
  ASSUME RegistryOK, NEW c, NEW p \in Plugins, NEW again \in BOOLEAN, StartOf(c, p, again)
  PROVE  StartLeaves(c, p, again)
<1>1. CASE StartUnreadable(c, p)
  BY <1>1 DEF StartLeaves, StartUnreadable, Reread, Refused, RegistryOK, States
<1>2. CASE StartUnavailable(c, p)
  BY <1>2 DEF StartLeaves, StartUnavailable, Reread, RegistryOK, States
<1>3. CASE StartRefused(c, p)
  BY <1>3 DEF StartLeaves, StartRefused, Reread, Refused, RegistryOK, States
<1>4. CASE StartRegistered(c, p, again)
  <2>1. Append(started, p) \in Seq(Plugins)
    BY DEF RegistryOK
  <2> QED  BY <1>4, <2>1 DEF StartLeaves, StartRegistered, RegistryOK, States
<1> QED  BY <1>1, <1>2, <1>3, <1>4 DEF StartOf

LEMMA StartTypes ==
  ASSUME Types, NEW c \in Coroutines, Start(c) \/ Recovered(c)
  PROVE  RegistryOK' /\ WorkOK' /\ EndingOK'
<1> USE DEF Types
<1>1. PICK p \in Plugins, again \in BOOLEAN : StartOf(c, p, again)
  <2>1. CASE Start(c)
    <3>1. Head(todo[c]) \in Plugins
      BY <2>1, TodoTypes DEF Start
    <3> QED  BY <2>1, <3>1 DEF Start
  <2>2. CASE Recovered(c)
    <3>1. target[c] \in Plugins
      BY <2>2 DEF Recovered, ResumesAt, WorkOK, Awaits
    <3> QED  BY <2>2, <3>1 DEF Recovered
  <2> QED  BY <2>1, <2>2
<1>2. StartLeaves(c, p, again)
  BY <1>1, StartOfTypes
<1>3. /\ folder' = folder /\ disabled' = disabled /\ job' = job /\ cyclic' = cyclic /\ stopping' = stopping
      /\ quit' = quit /\ late' = late /\ index' = index /\ share' = share /\ spent' = spent /\ gone' = gone
      /\ pc[c] \in {"resolving", "recovering"}
  BY DEF Start, Recovered, Visit, RunsAt, ResumesAt
<1>4. todo' = todo \/ (todo' = [todo EXCEPT ![c] = Tail(todo[c])] /\ todo[c] # <<>>)
  BY DEF Start, Recovered, Visit
<1>5. RegistryOK'
  BY <1>2, <1>3 DEF RegistryOK, StartLeaves
<1>6. EndingOK'
  BY <1>2, <1>3 DEF EndingOK, StartLeaves
<1>7. WorkOK'
  <2>1. todo' = todo \/ \E s \in Seq(Plugins) : todo' = [todo EXCEPT ![c] = s]
    BY <1>4, TodoTypes
  <2>2. cyclic' \subseteq Plugins /\ pc[c] # "idle"
    BY <1>3 DEF WorkOK
  <2>3. CASE pc' = [pc EXCEPT ![c] = "resolving"] /\ target' = target /\ retried' = retried
    BY <1>3, <2>1, <2>2, <2>3, MoveWork DEF Awaits
  <2>4. CASE /\ pc' = [pc EXCEPT ![c] = "launching"]
             /\ target' = [target EXCEPT ![c] = p] /\ retried' = [retried EXCEPT ![c] = again]
    <3>1. target'[c] \in Plugins
      BY <2>4 DEF WorkOK
    <3> QED  BY <1>3, <2>1, <2>2, <2>4, <3>1, MoveWork DEF Awaits
  <2> QED  BY <1>2, <2>3, <2>4 DEF StartLeaves
<1> QED  BY <1>5, <1>6, <1>7

LEMMA LaunchTypes ==
  ASSUME Types, NEW c \in Coroutines,
         Launched(c) \/ LaunchFails(c) \/ LaunchMisfits(c) \/ RecoveryFails(c)
  PROVE  RegistryOK' /\ WorkOK' /\ EndingOK'
<1> USE DEF Types
<1> DEFINE p == target[c]
<1>1. pc[c] \in {"launching", "recovering"} /\ p \in Plugins
  BY DEF Launched, LaunchFails, LaunchMisfits, RecoveryFails, ResumesAt, WorkOK, Awaits
<1> HIDE DEF p
<1>2. /\ folder' = folder /\ def' = def /\ ran' = ran /\ disabled' = disabled
      /\ job' = job /\ todo' = todo /\ cyclic' = cyclic /\ target' = target /\ retried' = retried
      /\ halted' = halted /\ quit' = quit /\ late' = late /\ index' = index /\ share' = share /\ spent' = spent /\ gone' = gone
      /\ stopping' \subseteq stopping
  BY DEF Launched, LaunchFails, LaunchMisfits, RecoveryFails, Withdrawn, Refused, ending
<1>3. state' = state \/ \E s \in {"running", "refused"} : state' = [state EXCEPT ![p] = s]
  BY DEF Launched, LaunchFails, LaunchMisfits, RecoveryFails, Refused, p
<1>4. attempt' = attempt \/ attempt' = [attempt EXCEPT ![p] = FALSE]
  BY DEF Launched, LaunchFails, LaunchMisfits, RecoveryFails, Refused, p
<1>5. started' = started \/ started' = Among(started, Plugins \ {p})
  BY DEF Launched, LaunchFails, LaunchMisfits, RecoveryFails, Withdrawn, p
<1>6. \E q \in {"resolving", "recovering"} : pc' = [pc EXCEPT ![c] = q]
  BY DEF Launched, LaunchFails, LaunchMisfits, RecoveryFails
<1>7. RegistryOK'
  <2>1. started' \in Seq(Plugins)
    BY <1>5, WithdrawnTypes DEF RegistryOK
  <2>2. state' \in [Plugins -> States]
    BY <1>1, <1>3 DEF RegistryOK, States
  <2>3. attempt' \in [Plugins -> BOOLEAN]
    BY <1>1, <1>4 DEF RegistryOK
  <2> QED  BY <1>2, <2>1, <2>2, <2>3 DEF RegistryOK
<1>8. EndingOK'
  BY <1>2 DEF EndingOK
<1>9. WorkOK'
  <2>1. PICK q \in {"resolving", "recovering"} : pc' = [pc EXCEPT ![c] = q]
    BY <1>6
  <2>2. target'[c] \in Plugins /\ cyclic' \subseteq Plugins /\ pc[c] # "idle"
    BY <1>1, <1>2 DEF WorkOK, p
  <2> QED  BY <1>2, <2>1, <2>2, MoveWork
<1> QED  BY <1>7, <1>8, <1>9

\* The switches of a press.
LEMMA ReadTypes ==
  ASSUME Types, NEW p \in Plugins
  PROVE  [def EXCEPT ![p] = folder[p]] \in [Plugins -> Texts]
BY DEF Types, RegistryOK

LEMMA DisableTypes ==
  ASSUME Types, NEW c \in Coroutines,
         BeginDisable(c) \/ StopDependent(c) \/ StopItself(c) \/ Halt(c) \/ Disabled(c)
  PROVE  RegistryOK' /\ WorkOK' /\ EndingOK'
<1> USE DEF Types
<1> DEFINE p == job[c].id
<1>1. pc[c] \in {"begin", "disabling", "halting"}
  BY DEF BeginDisable, StopDependent, StopItself, Halt, Disabled, Begins, RunsAt, ResumesAt
<1>2. p \in Plugins
  <2>1. pc[c] = "begin" => job[c].kind # "none"
    BY DEF BeginDisable, StopDependent, StopItself, Halt, Disabled, Begins, RunsAt, ResumesAt
  <2>2. c # Closer
    BY <1>1, <2>1, WhoIsWhere, LifecycleAssumption DEF WorkOK
  <2>3. c \in Clicks
    BY <1>1, <2>2, WhoIsWhere, LifecycleAssumption DEF Coroutines
  <2> QED  BY <1>1, <2>3 DEF WorkOK
<1> HIDE DEF p
<1>3. /\ folder' = folder /\ def' = def /\ ran' = ran /\ attempt' = attempt
      /\ job' = job /\ retried' = retried
      /\ quit' = quit /\ late' = late /\ index' = index /\ share' = share /\ spent' = spent /\ gone' = gone
  BY DEF BeginDisable, StopDependent, StopItself, Halt, Disabled, ending
<1>4. CASE BeginDisable(c)
  <2>1. Dependents(p) \in Seq(Plugins)
    BY <1>2, DependentsTypes
  <2>2. WorkOK'
    BY <1>1, <1>4, <2>1, MoveWork DEF BeginDisable, WorkOK, Awaits, p
  <2>3. state' \in [Plugins -> States] /\ disabled' \subseteq Plugins
    BY <1>2, <1>4 DEF BeginDisable, RegistryOK, States, p
  <2> QED  BY <1>4, <2>2, <2>3, EndingStays DEF BeginDisable, RegistryOK
<1>5. ASSUME NEW q \in Plugins, Stop(c, q, "halting"), disabled' = disabled, started' = started, cyclic' = cyclic,
             todo' = todo \/ \E s \in Seq(Plugins) : todo' = [todo EXCEPT ![c] = s]
      PROVE  RegistryOK' /\ WorkOK' /\ EndingOK'
  <2>1. target'[c] \in Plugins
    BY <1>5 DEF Stop, WorkOK
  <2>2. WorkOK'
    BY <1>1, <1>3, <1>5, <2>1, MoveWork DEF Stop, WorkOK
  <2>3. RegistryOK'
    BY <1>3, <1>5 DEF Stop, RegistryOK, States
  <2>4. EndingOK'
    BY <1>3, <1>5 DEF Stop, EndingOK
  <2> QED  BY <2>2, <2>3, <2>4
<1>6. CASE StopDependent(c)
  <2>1. Head(todo[c]) \in Plugins /\ Tail(todo[c]) \in Seq(Plugins)
    BY <1>6, TodoTypes DEF StopDependent
  <2> QED  BY <1>5, <1>6, <2>1 DEF StopDependent, Visit
<1>7. CASE StopItself(c)
  BY <1>2, <1>5, <1>7 DEF StopItself, p
<1>8. CASE Halt(c)
  <2>1. target[c] \in Plugins
    BY <1>8 DEF Halt, ResumesAt, WorkOK, Awaits
  <2>2. started' \in Seq(Plugins) /\ stopping' \subseteq stopping
    BY <1>8, WithdrawnTypes DEF Halt, Withdrawn
  <2>3. state' \in [Plugins -> States]
    BY <1>8, <2>1 DEF Halt, RegistryOK, States
  <2>4. WorkOK'
    BY <1>1, <1>8, MoveWork DEF Halt, WorkOK, Awaits
  <2>5. RegistryOK'
    BY <1>3, <1>8, <2>2, <2>3 DEF Halt, RegistryOK
  <2>6. EndingOK'
    BY <1>3, <1>8, <2>2 DEF Halt, EndingOK
  <2> QED  BY <2>4, <2>5, <2>6
<1>9. CASE Disabled(c)
  <2>1. Ordered(def).order \in Seq(Plugins) /\ Ordered(def).cyclic \subseteq Plugins
    BY OrderTypes DEF RegistryOK
  <2>2. state' \in [Plugins -> States]
    BY <1>2, <1>9 DEF Disabled, RegistryOK, States, p
  <2>3. todo' = [todo EXCEPT ![c] = Ordered(def).order] /\ cyclic' = Ordered(def).cyclic
    BY <1>9 DEF Disabled, Resolve
  <2>4. WorkOK'
    BY <1>1, <1>9, <2>1, <2>3, MoveWork DEF Disabled, WorkOK, Awaits
  <2>5. RegistryOK'
    BY <1>3, <1>9, <2>2 DEF Disabled, RegistryOK
  <2> QED  BY <1>9, <2>4, <2>5, EndingStays DEF Disabled
<1> QED  BY <1>4, <1>6, <1>7, <1>8, <1>9

LEMMA EnableTypes ==
  ASSUME Types, NEW c \in Coroutines, BeginEnable(c) \/ BeginErase(c) \/ Erased(c)
  PROVE  RegistryOK' /\ WorkOK' /\ EndingOK'
<1> USE DEF Types
<1> DEFINE p == job[c].id
<1>1. pc[c] \in {"begin", "erasing"}
  BY DEF BeginEnable, BeginErase, Erased, Begins, RunsAt, ResumesAt
<1>2. p \in Plugins
  <2>1. pc[c] = "begin" => job[c].kind # "none"
    BY DEF BeginEnable, BeginErase, Erased, Begins, RunsAt, ResumesAt
  <2>2. c # Closer
    BY <1>1, <2>1, WhoIsWhere, LifecycleAssumption DEF WorkOK
  <2>3. c \in Clicks
    BY <1>1, <2>2, WhoIsWhere, LifecycleAssumption DEF Coroutines
  <2> QED  BY <1>1, <2>3 DEF WorkOK
<1> HIDE DEF p
<1>3. UNCHANGED ending /\ folder' = folder /\ started' = started /\ job' = job /\ target' = target /\ retried' = retried
  BY DEF BeginEnable, BeginErase, Erased, registry
<1>4. CASE BeginErase(c)
  BY <1>1, <1>4, MoveWork, RegistryStays, EndingStays DEF BeginErase, WorkOK, Awaits
<1>5. CASE BeginEnable(c) \/ Erased(c)
  <2>1. def' = [def EXCEPT ![p] = folder[p]] /\ ran' = [ran EXCEPT ![p] = FALSE]
    BY <1>5 DEF BeginEnable, Erased, Reread, p
  <2>2. def' \in [Plugins -> Texts]
    BY <1>2, <2>1, ReadTypes
  <2>3. Ordered(def').order \in Seq(Plugins) /\ Ordered(def').cyclic \subseteq Plugins
    BY <2>2, OrderTypes
  <2>4. todo' = [todo EXCEPT ![c] = Ordered(def').order] /\ cyclic' = Ordered(def').cyclic
        /\ pc' = [pc EXCEPT ![c] = "resolving"]
    BY <1>5 DEF BeginEnable, Erased, Resolve
  <2>5. WorkOK'
    BY <1>1, <1>3, <2>3, <2>4, MoveWork DEF Awaits
  <2>6. state' \in [Plugins -> States]
    <3>1. CASE BeginEnable(c)
      BY <1>2, <3>1 DEF BeginEnable, RegistryOK, States, p
    <3>2. CASE Erased(c)
      BY <1>2, <3>2 DEF Erased, RegistryOK, States, p
    <3> QED  BY <1>5, <3>1, <3>2
  <2>7. attempt' \in [Plugins -> BOOLEAN]
    <3>1. CASE BeginEnable(c)
      <4>1. PICK read \in BOOLEAN : attempt' = [attempt EXCEPT ![p] = read]
        BY <3>1 DEF BeginEnable, p
      <4> QED  BY <1>2, <4>1 DEF RegistryOK
    <3>2. CASE Erased(c)
      BY <1>2, <3>2 DEF Erased, RegistryOK, p
    <3> QED  BY <1>5, <3>1, <3>2
  <2>8. disabled' \subseteq Plugins
    BY <1>5 DEF BeginEnable, Erased, RegistryOK
  <2>9. ran' \in [Plugins -> BOOLEAN]
    BY <1>2, <2>1 DEF RegistryOK
  <2>10. RegistryOK'
    BY <1>3, <2>2, <2>6, <2>7, <2>8, <2>9 DEF RegistryOK
  <2> QED  BY <1>3, <2>5, <2>10, EndingStays
<1> QED  BY <1>4, <1>5

\* A share of the time fits as often as there are plugins.
LEMMA Divided ==
  ASSUME NEW a \in Nat, NEW n \in Nat, n # 0
  PROVE  a \div n \in Nat /\ (a \div n) * n <= a
<1>1. n \in Int /\ n > 0 /\ a \in Int
  OBVIOUS
<1>2. a \div n \in Int /\ a = n * (a \div n) + (a % n) /\ a % n \in 0..n - 1
  BY <1>1
<1>3. a % n >= 0
  BY <1>1, <1>2
<1> DEFINE d == a \div n
<1>4. d \in Int /\ n * d <= a
  BY <1>1, <1>2, <1>3
<1> HIDE DEF d
<1>5. d >= 0
  <2>1. CASE d < 0
    <3>1. n * d <= n * (-1)
      BY <1>1, <1>4, <2>1
    <3> QED  BY <1>1, <1>2, <3>1 DEF d
  <2> QED  BY <1>4, <2>1
<1>6. d * n = n * d
  BY <1>1, <1>4
<1> QED  BY <1>4, <1>5, <1>6 DEF d

LEMMA ShareFits ==
  ASSUME RegistryOK
  PROVE  Share \in Nat /\ Share * Len(started) <= closingTime
<1> DEFINE n == IF started = <<>> THEN 1 ELSE Len(started)
           d == closingTime \div n
<1>1. n \in Nat /\ n # 0 /\ Len(started) \in Nat /\ (Len(started) = n \/ Len(started) = 0)
  BY DEF RegistryOK
<1>2. closingTime \in Nat /\ stopGrace \in Nat
  BY DEF closingTime, stopGrace
<1>3. d \in Nat /\ d * n <= closingTime
  BY <1>1, <1>2, Divided
<1>4. Share = IF d < stopGrace THEN d ELSE stopGrace
  BY DEF Share
<1> HIDE DEF n, d
<1>5. Share \in Nat /\ Share <= d
  BY <1>2, <1>3, <1>4
<1>6. \A e \in Nat : e <= d => e * n <= d * n /\ e * n \in Nat
  BY <1>1, <1>3
<1>7. Share * n <= closingTime
  BY <1>1, <1>2, <1>3, <1>5, <1>6
<1>8. CASE Len(started) = n
  BY <1>5, <1>7, <1>8
<1>9. CASE Len(started) = 0
  BY <1>2, <1>5, <1>9
<1> QED  BY <1>1, <1>5, <1>8, <1>9

LEMMA ClosingTypes ==
  ASSUME Types,
         \/ BeginClose \/ CloseReaderLater \/ CloseNext \/ CloseHands \/ Handed \/ CloseReader
         \/ Settle \/ Stopped \/ OutOfTime
  PROVE  RegistryOK' /\ WorkOK' /\ EndingOK'
<1> USE DEF Types
<1>0. Closer \in Coroutines
  BY DEF Coroutines
<1>a. \A i \in 1..Len(started) : started[i] \in Plugins
  BY DEF RegistryOK
<1>1. CASE BeginClose
  <2>1. index' \in Int /\ share' \in Nat
    BY <1>1, ShareFits DEF BeginClose, RegistryOK
  <2>2. EndingOK'
    BY <1>1, <2>1 DEF BeginClose, EndingOK
  <2>3. WorkOK'
    BY <1>0, <1>1, MoveWork DEF BeginClose, RunsAt, WorkOK, Awaits
  <2> QED  BY <1>1, <2>2, <2>3, RegistryStays DEF BeginClose
<1>2. CASE CloseReaderLater
  <2>1. started[index] \in Plugins /\ todo[Closer] \in Seq(Plugins)
    BY <1>0, <1>2, <1>a DEF CloseReaderLater, WorkOK
  <2>2. Append(todo[Closer], started[index]) \in Seq(Plugins)
    BY <2>1
  <2>3. WorkOK'
    BY <1>0, <1>2, <2>2, RestWork DEF CloseReaderLater
  <2>4. EndingOK'
    BY <1>2 DEF CloseReaderLater, EndingOK
  <2> QED  BY <1>2, <2>3, <2>4, RegistryStays DEF CloseReaderLater
<1>3. CASE CloseNext
  <2>1. started[index] \in Plugins
    BY <1>3, <1>a DEF CloseNext
  <2>2. target'[Closer] \in Plugins
    BY <1>0, <1>3, <2>1 DEF CloseNext, Stop, WorkOK
  <2>3. WorkOK'
    BY <1>0, <1>3, <2>1, <2>2, MoveWork DEF CloseNext, Stop, RunsAt, WorkOK
  <2>4. RegistryOK'
    BY <1>3, <2>1 DEF CloseNext, Stop, RegistryOK, States
  <2>5. EndingOK'
    BY <1>3, <2>1 DEF CloseNext, Stop, EndingOK
  <2> QED  BY <2>3, <2>4, <2>5
<1>4. CASE CloseHands
  BY <1>0, <1>4, MoveWork, RegistryStays, EndingStays DEF CloseHands, RunsAt, WorkOK
<1>5. CASE Handed
  <2>a. spent \in Nat /\ spent' = spent + handover
    BY <1>5 DEF Handed, EndingOK
  <2>b. spent' \in Nat
    BY <2>a DEF handover
  <2>1. EndingOK'
    BY <1>5, <2>b DEF Handed, EndingOK
  <2>2. WorkOK'
    BY <1>0, <1>5, MoveWork DEF Handed, ResumesAt, WorkOK, Awaits
  <2> QED  BY <1>5, <2>1, <2>2, RegistryStays DEF Handed
<1>6. CASE CloseReader
  <2>1. Head(todo[Closer]) \in Plugins /\ Tail(todo[Closer]) \in Seq(Plugins)
    BY <1>0, <1>6, TodoTypes DEF CloseReader
  <2>2. target'[Closer] \in Plugins
    BY <1>0, <1>6, <2>1 DEF CloseReader, Stop, WorkOK
  <2>3. WorkOK'
    BY <1>0, <1>6, <2>1, <2>2, MoveWork DEF CloseReader, Stop, Visit, RunsAt, WorkOK
  <2>4. RegistryOK'
    BY <1>6, <2>1 DEF CloseReader, Stop, RegistryOK, States
  <2>5. EndingOK'
    BY <1>6, <2>1 DEF CloseReader, Stop, EndingOK
  <2> QED  BY <2>3, <2>4, <2>5
<1>7. CASE Settle
  <2>a. stopping' \subseteq stopping /\ (spent' = spent \/ spent' = spent + share)
    BY <1>7 DEF Settle
  <2>b. spent \in Nat /\ share \in Nat
    BY DEF EndingOK
  <2>1. stopping' \subseteq stopping /\ spent' \in Nat
    BY <2>a, <2>b
  <2>2. EndingOK'
    BY <1>7, <2>1 DEF Settle, EndingOK
  <2>3. PICK q \in {"closing", "closing readers"} : pc' = [pc EXCEPT ![Closer] = q]
    BY <1>7 DEF Settle
  <2>4. WorkOK'
    BY <1>0, <1>7, <2>3, MoveWork DEF Settle, WorkOK, Awaits
  <2> QED  BY <1>7, <2>2, <2>4, RegistryStays DEF Settle
<1>8. CASE Stopped \/ OutOfTime
  <2>1. gone' \in BOOLEAN
    BY <1>8 DEF Stopped, OutOfTime
  <2>2. EndingOK'
    BY <1>8, <2>1 DEF Stopped, OutOfTime, EndingOK
  <2>3. UNCHANGED change
    BY <1>8 DEF Stopped, OutOfTime
  <2>4. WorkOK'
    BY <2>3 DEF change, WorkOK
  <2> QED  BY <1>8, <2>2, <2>4, RegistryStays DEF Stopped, OutOfTime
<1> QED  BY <1>1, <1>2, <1>3, <1>4, <1>5, <1>6, <1>7, <1>8

LEMMA WorldTypes ==
  ASSUME Types, NEW p \in Plugins, StopReturns(p) \/ \E text \in Authored[p] : Edit(p, text)
  PROVE  RegistryOK' /\ WorkOK' /\ EndingOK'
<1> USE DEF Types
<1>0. WorkOK'
  <2>1. UNCHANGED change
    BY DEF StopReturns, Edit
  <2> QED  BY <2>1 DEF change, WorkOK
<1>1. CASE StopReturns(p)
  <2>1. EndingOK'
    BY <1>1 DEF StopReturns, EndingOK
  <2> QED  BY <1>0, <1>1, <2>1, RegistryStays DEF StopReturns
<1>2. ASSUME NEW text \in Authored[p], Edit(p, text) PROVE RegistryOK' /\ WorkOK' /\ EndingOK'
  <2>1. text \in Texts
    BY DEF Texts
  <2>2. RegistryOK'
    BY <1>2, <2>1 DEF Edit, RegistryOK
  <2> QED  BY <1>0, <1>2, <2>2, EndingStays DEF Edit
<1> QED  BY <1>1, <1>2

LEMMA StillTypes == Types /\ UNCHANGED vars => Types'
BY DEF Types, vars, RegistryOK, WorkOK, EndingOK, QueueOK, PlacesOK

LEMMA ShapeTypes ==
  ASSUME Types, Shape
  PROVE  PlacesOK' /\ QueueOK'
<1>1. \A c \in Clicks \cup {Closer} : c \in Coroutines
  BY DEF Coroutines
<1> QED  BY <1>1, ShapesKeepPlaces DEF Types, Shape, Calls

\* Every step leaves the types and the switch as they have to be.
Control == Types /\ Lock /\ Phases

LEMMA StepKeepsTypes ==
  ASSUME Types, Lock, Next
  PROVE  RegistryOK' /\ WorkOK' /\ EndingOK'
<1>1. Closer \in Coroutines
  BY DEF Coroutines
<1> QED  BY <1>1, CallTypes, LeaveTypes, PassTypes, StartTypes, LaunchTypes, DisableTypes, EnableTypes, ClosingTypes, WorldTypes
         DEF Next, Step, Launch, Closing

LEMMA InitControl == Init => Control
<1> SUFFICES ASSUME Init PROVE Control
  OBVIOUS
<1>1. Types
  BY InitTypes
<1>2. pc = [c \in Coroutines |-> IF c = Boot THEN "resolving" ELSE "idle"] /\ waiting = <<>> /\ turn = Boot
  BY DEF Init
<1>3. busy = FALSE /\ quit = FALSE
  BY DEF Init
<1>4. \A c \in Clicks \cup {Closer} : pc[c] = "idle"
  BY <1>2, LifecycleAssumption DEF Coroutines
<1>5. Lock
  <2>1. \A c \in Coroutines : pc[c] \in Runnings <=> turn = c
    BY <1>2 DEF Runnings
  <2>2. Len(waiting) = 0
    BY <1>2
  <2> QED  BY <1>2, <1>3, <1>4, <2>1, <2>2 DEF Lock, OneChange, QueueServed, Inside, Outside, Waits
<1>6. Phases
  BY <1>3, <1>4 DEF Phases
<1> QED  BY <1>1, <1>5, <1>6 DEF Control

LEMMA StepControl == Control /\ [Next]_vars => Control'
<1> SUFFICES ASSUME Control, [Next]_vars PROVE Control'
  OBVIOUS
<1>0. Types /\ Lock /\ Phases
  BY DEF Control
<1>1. Shape
  BY <1>0, StepShape
<1>2. Lock' /\ Phases'
  BY <1>0, <1>1, ShapeKeepsLock, ShapeKeepsPhases
<1>3. PlacesOK' /\ QueueOK'
  BY <1>0, <1>1, ShapeTypes
<1>4. Types'
  <2>1. CASE Next
    BY <1>0, <1>3, <2>1, StepKeepsTypes DEF Types
  <2>2. CASE UNCHANGED vars
    BY <1>0, <2>2, StillTypes
  <2> QED  BY <2>1, <2>2
<1> QED  BY <1>2, <1>4 DEF Control

\* In every reachable state each variable has its type, one coroutine at most has the
\* switch, and the queue holds exactly those that wait for it.
THEOREM ControlInvariance == Spec => []Control
<1>1. Init => Control
  BY InitControl
<1>2. Control /\ [Next]_vars => Control'
  BY StepControl
<1> QED  BY <1>1, <1>2, PTL DEF Spec

-----------------------------------------------------------------------------
(***************************************************************************)
(* The list of the started plugins: it grows at its end, and a plugin that *)
(* is withdrawn leaves the others in their order.                          *)
(***************************************************************************)

InSeq(s, e) == \E i \in 1..Len(s) : s[i] = e
Earlier(s, d, e) == \E i, j \in 1..Len(s) : i < j /\ s[i] = d /\ s[j] = e
Distinct(s) == \A i, j \in 1..Len(s) : s[i] = s[j] => i = j

\* What is left of a list without repetitions once some leave it.
Thinned(part, seq, set) ==
    /\ Distinct(part)
    /\ \A e : InSeq(part, e) <=> InSeq(seq, e) /\ e \in set
    /\ \A d, e : Earlier(part, d, e) <=> Earlier(seq, d, e) /\ d \in set /\ e \in set

LEMMA AmongThins ==
  ASSUME NEW A, NEW seq \in Seq(A), NEW set, Distinct(seq)
  PROVE  Among(seq, set) \in Seq(A) /\ Thinned(Among(seq, set), seq, set)
<1> DEFINE part == Among(seq, set)
           n == Len(seq)
           m == Len(part)
<1>1. part \in Seq(A) /\ n \in Nat /\ m \in Nat
  BY AmongPicks
<1>2. PICK pos : Picks(pos, part, seq, set, Len(seq))
  BY AmongPicks
<1> HIDE DEF part
<1>3. /\ \A i \in 1..m : pos[i] \in 1..n /\ part[i] = seq[pos[i]] /\ seq[pos[i]] \in set
      /\ \A i, j \in 1..m : i < j => pos[i] < pos[j]
      /\ \A k \in 1..n : seq[k] \in set => \E i \in 1..m : pos[i] = k
  BY <1>2 DEF Picks
<1>4. \A i, j \in 1..n : seq[i] = seq[j] => i = j
  BY DEF Distinct
<1> HIDE DEF n, m
<1>5. \A i, j \in 1..m : pos[i] = pos[j] => i = j
  <2> SUFFICES ASSUME NEW i \in 1..m, NEW j \in 1..m, pos[i] = pos[j] PROVE i = j
    OBVIOUS
  <2>1. i \in Nat /\ j \in Nat /\ pos[i] \in Nat
    BY <1>1, <1>3
  <2>2. ~(i < j) /\ ~(j < i)
    BY <2>1, <1>3
  <2> QED  BY <2>1, <2>2
<1>6. \A i, j \in 1..m : pos[i] < pos[j] => i < j
  <2> SUFFICES ASSUME NEW i \in 1..m, NEW j \in 1..m, pos[i] < pos[j] PROVE i < j
    OBVIOUS
  <2>1. i \in Nat /\ j \in Nat /\ pos[i] \in Nat /\ pos[j] \in Nat
    BY <1>1, <1>3
  <2>2. ~(j < i) /\ i # j
    BY <2>1, <1>3
  <2> QED  BY <2>1, <2>2
<1>7. Distinct(part)
  BY <1>3, <1>4, <1>5 DEF Distinct, m
<1>8. ASSUME NEW e PROVE InSeq(part, e) <=> InSeq(seq, e) /\ e \in set
  <2>1. InSeq(part, e) => InSeq(seq, e) /\ e \in set
    BY <1>3 DEF InSeq, m, n
  <2>2. ASSUME NEW k \in 1..n, seq[k] = e, e \in set PROVE InSeq(part, e)
    <3>1. PICK i \in 1..m : pos[i] = k
      BY <2>2, <1>3
    <3> QED  BY <3>1, <2>2, <1>3 DEF InSeq, m
  <2> QED  BY <2>1, <2>2 DEF InSeq, n
<1>9. ASSUME NEW d, NEW e PROVE Earlier(part, d, e) <=> Earlier(seq, d, e) /\ d \in set /\ e \in set
  <2>1. Earlier(part, d, e) => Earlier(seq, d, e) /\ d \in set /\ e \in set
    BY <1>3 DEF Earlier, m, n
  <2>2. ASSUME NEW k \in 1..n, NEW l \in 1..n, k < l, seq[k] = d, seq[l] = e, d \in set, e \in set
        PROVE  Earlier(part, d, e)
    <3>1. PICK i \in 1..m : pos[i] = k
      BY <2>2, <1>3
    <3>2. PICK j \in 1..m : pos[j] = l
      BY <2>2, <1>3
    <3>3. i < j
      BY <3>1, <3>2, <2>2, <1>6
    <3> QED  BY <3>1, <3>2, <3>3, <2>2, <1>3 DEF Earlier, m
  <2> QED  BY <2>1, <2>2 DEF Earlier, n
<1>10. Thinned(part, seq, set)
  BY <1>7, <1>8, <1>9 DEF Thinned
<1> QED  BY <1>1, <1>10 DEF part

\* One plugin leaves one place of the list.
LEMMA AmongShorter ==
  ASSUME NEW A, NEW seq \in Seq(A), NEW p, Distinct(seq)
  PROVE  LET part == Among(seq, A \ {p})
         IN  Len(part) \in Nat /\ Len(part) <= Len(seq) /\ Len(part) >= Len(seq) - 1
<1> DEFINE part == Among(seq, A \ {p})
           n == Len(seq)
           m == Len(part)
<1>1. part \in Seq(A) /\ n \in Nat /\ m \in Nat /\ m <= n
  BY AmongPicks
<1>2. PICK pos : Picks(pos, part, seq, A \ {p}, Len(seq))
  BY AmongPicks
<1>3. /\ pos \in [1..m -> 1..n]
      /\ \A k \in 1..n : seq[k] \in A \ {p} => \E i \in 1..m : pos[i] = k
  BY <1>2 DEF Picks
<1>4. \A i \in 1..n : seq[i] \in A
  OBVIOUS
<1>5. \A i, j \in 1..n : seq[i] = seq[j] => i = j
  BY DEF Distinct
<1> HIDE DEF n, m, part
<1> DEFINE T == {pos[i] : i \in 1..m}
<1>6. pos \in Surjection(1..m, T)
  BY <1>3 DEF Surjection
<1>7. IsFiniteSet(1..m) /\ Cardinality(1..m) = m /\ IsFiniteSet(1..n) /\ Cardinality(1..n) = n
  <2>1. ASSUME NEW k \in Nat PROVE IsFiniteSet(1..k) /\ Cardinality(1..k) = k
    <3>1. IsFiniteSet(1..k) /\ Cardinality(1..k) = IF 1 > k THEN 0 ELSE k - 1 + 1
      BY FS_Interval
    <3> QED  BY <3>1
  <2> QED  BY <2>1, <1>1
<1>8. IsFiniteSet(T) /\ Cardinality(T) <= m
  BY <1>6, <1>7, FS_Surjection
<1>9. CASE \A k \in 1..n : k \in T
  <2>1. 1..n \subseteq T
    BY <1>9
  <2> HIDE DEF T
  <2>a. Cardinality(1..n) <= Cardinality(T)
    BY <2>1, <1>8, FS_Subset
  <2>2. n <= Cardinality(T)
    BY <2>a, <1>7
  <2>3. Cardinality(T) \in Nat
    BY <1>8, FS_CardinalityType
  <2> QED  BY <2>2, <2>3, <1>1, <1>8 DEF part, n, m
<1>10. ASSUME NEW k \in 1..n, k \notin T PROVE m >= n - 1
  <2>1. seq[k] = p
    BY <1>3, <1>4, <1>10
  <2>2. (1..n) \ {k} \subseteq T
    BY <2>1, <1>3, <1>4, <1>5
  <2>3. Cardinality((1..n) \ {k}) = n - 1
    BY <1>7, FS_RemoveElement
  <2>4. n - 1 <= Cardinality(T)
    BY <2>2, <2>3, <1>8, FS_Subset
  <2>5. Cardinality(T) \in Nat
    BY <1>8, FS_CardinalityType
  <2> QED  BY <2>4, <2>5, <1>1, <1>8
<1> QED  BY <1>1, <1>9, <1>10 DEF part, n, m

LEMMA AppendsOne ==
  ASSUME NEW A, NEW seq \in Seq(A), NEW p \in A, Distinct(seq), ~InSeq(seq, p)
  PROVE  LET more == Append(seq, p)
         IN  /\ more \in Seq(A) /\ Len(more) = Len(seq) + 1 /\ Distinct(more)
             /\ \A e : InSeq(more, e) <=> InSeq(seq, e) \/ e = p
             /\ \A d, e : Earlier(more, d, e) <=> Earlier(seq, d, e) \/ (InSeq(seq, d) /\ e = p)
<1> DEFINE more == Append(seq, p)
           n == Len(seq)
<1>1. /\ more \in Seq(A) /\ n \in Nat /\ Len(more) = n + 1
      /\ (\A i \in 1..n : more[i] = seq[i]) /\ more[n + 1] = p
  BY AppendProperties
<1> HIDE DEF more
<1>2. (\A i \in 1..n : seq[i] # p) /\ \A i, j \in 1..n : seq[i] = seq[j] => i = j
  BY DEF InSeq, Distinct
<1> HIDE DEF n
<1>3. (\A i \in 1..n + 1 : i \in 1..n \/ i = n + 1) /\ n + 1 \in 1..n + 1 /\ (\A i \in 1..n : i \in 1..n + 1 /\ i < n + 1)
  BY <1>1
<1>4. Distinct(more)
  BY <1>1, <1>2, <1>3 DEF Distinct
<1>5. \A e : InSeq(more, e) <=> (\E i \in 1..n : seq[i] = e) \/ e = p
  BY <1>1, <1>3 DEF InSeq
<1>6. ASSUME NEW d, NEW e
      PROVE  Earlier(more, d, e) <=> (\E i, j \in 1..n : i < j /\ seq[i] = d /\ seq[j] = e) \/ ((\E i \in 1..n : seq[i] = d) /\ e = p)
  <2>1. ASSUME NEW i \in 1..n + 1, NEW j \in 1..n + 1, i < j, more[i] = d, more[j] = e
        PROVE  (\E k, l \in 1..n : k < l /\ seq[k] = d /\ seq[l] = e) \/ ((\E k \in 1..n : seq[k] = d) /\ e = p)
    <3>1. i \in 1..n
      BY <2>1, <1>1
    <3> QED  BY <3>1, <2>1, <1>1, <1>3
  <2>2. ASSUME NEW i \in 1..n, NEW j \in 1..n, i < j, seq[i] = d, seq[j] = e
        PROVE  Earlier(more, d, e)
    BY <2>2, <1>1, <1>3 DEF Earlier
  <2>3. ASSUME NEW i \in 1..n, seq[i] = d, e = p
        PROVE  Earlier(more, d, e)
    BY <2>3, <1>1, <1>3 DEF Earlier
  <2> QED  BY <2>1, <2>2, <2>3, <1>1 DEF Earlier
<1> QED  BY <1>1, <1>4, <1>5, <1>6 DEF more, n, InSeq, Earlier

-----------------------------------------------------------------------------
(***************************************************************************)
(* What a step does to the list:  nothing, or one plugin joins it at its   *)
(* end with its start, or one leaves it.                                   *)
(***************************************************************************)

Joins(c, p) ==
    /\ p \in Plugins /\ p \notin Started
    /\ turn = c \/ (turn = Nobody /\ ~Over)
    /\ pc[c] \in {"resolving", "recovering"} /\ pc' = [pc EXCEPT ![c] = "launching"]
    /\ started' = Append(started, p)

LeavesList(c, p) ==
    /\ p \in Plugins
    /\ turn = Nobody /\ ~Over /\ pc[c] \in {"launching", "halting"}
    /\ \E q \in Runnings \cup {"recovering"} : pc' = [pc EXCEPT ![c] = q]
    /\ started' = Among(started, Plugins \ {p})

\* Nothing of the list moves, and nobody begins to await a start.
Unlisted == started' = started /\ \A c \in Coroutines : pc'[c] = "launching" => pc[c] = "launching"

Listed == index' = index /\ \E c \in Coroutines : \E p \in Plugins : Joins(c, p) \/ LeavesList(c, p)

LEMMA ListSteps ==
  ASSUME Types, [Next]_vars
  PROVE  Unlisted \/ Listed
<1> USE DEF Types
<1>1. ASSUME NEW c \in Coroutines, NEW p \in Plugins, NEW again, StartOf(c, p, again),
             pc[c] \in {"resolving", "recovering"}, turn = c \/ (turn = Nobody /\ ~Over), index' = index
      PROVE  Unlisted \/ Listed
  <2>1. CASE StartRegistered(c, p, again)
    <3>1. Joins(c, p)
      BY <1>1, <2>1 DEF StartRegistered, Joins
    <3> QED  BY <1>1, <3>1 DEF Listed
  <2>2. CASE StartUnreadable(c, p) \/ StartUnavailable(c, p) \/ StartRefused(c, p)
    <3>1. started' = started /\ pc' = [pc EXCEPT ![c] = "resolving"]
      BY <2>2 DEF StartUnreadable, StartUnavailable, StartRefused
    <3> QED  BY <3>1 DEF Unlisted, PlacesOK
  <2> QED  BY <1>1, <2>1, <2>2 DEF StartOf
<1>2. ASSUME NEW c \in Coroutines, Start(c)
      PROVE  Unlisted \/ Listed
  <2>1. Head(todo[c]) \in Plugins
    BY <1>2, TodoTypes DEF Start
  <2> QED  BY <1>1, <1>2, <2>1 DEF Start, RunsAt
<1>3. ASSUME NEW c \in Coroutines, Recovered(c)
      PROVE  Unlisted \/ Listed
  <2>1. target[c] \in Plugins
    BY <1>3 DEF Recovered, ResumesAt, WorkOK, Awaits
  <2> QED  BY <1>1, <1>3, <2>1 DEF Recovered, ResumesAt
<1>4. ASSUME NEW c \in Coroutines, LaunchFails(c) \/ LaunchMisfits(c) \/ Halt(c)
      PROVE  Listed
  <2>1. target[c] \in Plugins
    BY <1>4 DEF LaunchFails, LaunchMisfits, Halt, ResumesAt, WorkOK, Awaits
  <2>2. LeavesList(c, target[c]) /\ index' = index
    BY <1>4, <2>1 DEF LaunchFails, LaunchMisfits, Halt, ResumesAt, Withdrawn, LeavesList, Runnings
  <2> QED  BY <2>1, <2>2 DEF Listed
<1>5. ASSUME NEW c \in Coroutines, started' = started,
             pc' = pc \/ \E q : q # "launching" /\ pc' = [pc EXCEPT ![c] = q]
      PROVE  Unlisted
  BY <1>5 DEF Unlisted, PlacesOK
<1>6. ASSUME NEW c \in Coroutines, started' = started, Leave(c) \/ Enter(c)
      PROVE  Unlisted
  <2>1. CASE waiting = <<>> \/ Enter(c)
    BY <2>1, <1>5, <1>6 DEF Leave, Enter
  <2>2. CASE waiting # <<>> /\ Leave(c)
    <3> DEFINE first == Head(waiting)
    <3>1. pc' = [pc EXCEPT ![c] = "done", ![first] = "woken"]
      BY <2>2 DEF Leave
    <3>2. first \in Coroutines
      BY <2>2 DEF QueueOK, Coroutines
    <3> HIDE DEF first
    <3>3. \A d \in Coroutines : pc'[d] = pc[d] \/ pc'[d] \in {"done", "woken"}
      BY <3>1, <3>2 DEF PlacesOK
    <3> QED  BY <3>3, <1>6 DEF Unlisted
  <2> QED  BY <1>6, <2>1, <2>2
<1>7. ASSUME NEW c \in Coroutines,
             \/ Wake(c) \/ (Resolved(c) /\ c # Boot) \/ BeginNothing(c) \/ ErasedOnly(c)
             \/ (Closed /\ c = Closer) \/ (Quit /\ c = Closer) \/ (\E kind, p : Press(c, kind, p))
      PROVE  Unlisted
  BY <1>6, <1>7 DEF Wake, Resolved, BeginNothing, ErasedOnly, Closed, Quit, Press, registry
<1>8. ASSUME NEW c \in Coroutines,
             \/ (Resolved(c) /\ c = Boot)
             \/ Pass(c) \/ TurnedOff(c) \/ Refuse(c) \/ Wait(c) \/ RecoveryFails(c) \/ Launched(c)
      PROVE  Unlisted
  BY <1>5, <1>8 DEF Resolved, Pass, TurnedOff, Refuse, Wait, RecoveryFails, Launched, registry
<1>9. ASSUME NEW c \in Coroutines,
             \/ BeginDisable(c) \/ StopDependent(c) \/ StopItself(c) \/ Disabled(c)
             \/ BeginEnable(c) \/ BeginErase(c) \/ Erased(c)
      PROVE  Unlisted
  BY <1>5, <1>9 DEF BeginDisable, StopDependent, StopItself, Stop, Disabled, BeginEnable, BeginErase, Erased, registry
<1>10. Closer \in Coroutines /\ \A c \in Clicks : c \in Coroutines
  BY DEF Coroutines
<1>11. ASSUME \/ BeginClose \/ CloseReaderLater \/ CloseNext \/ CloseHands \/ Handed \/ CloseReader
              \/ Settle \/ Stopped \/ OutOfTime
       PROVE  Unlisted
  <2>1. started' = started
    BY <1>11 DEF BeginClose, CloseReaderLater, CloseNext, CloseHands, Handed, CloseReader, Settle, Stopped, OutOfTime, registry
  <2>2. pc' = pc \/ \E q : q # "launching" /\ pc' = [pc EXCEPT ![Closer] = q]
    BY <1>11 DEF BeginClose, CloseReaderLater, CloseNext, CloseHands, Handed, CloseReader, Settle, Stop, Stopped, OutOfTime, change
  <2> QED  BY <1>5, <1>10, <2>1, <2>2
<1>12. ASSUME NEW p, StopReturns(p) \/ \E text \in Authored[p] : Edit(p, text) PROVE Unlisted
  <2>1. started' = started /\ pc' = pc
    BY <1>12 DEF StopReturns, Edit, registry, change
  <2> QED  BY <2>1 DEF Unlisted
<1>13. ASSUME UNCHANGED vars PROVE Unlisted
  BY <1>13 DEF vars, Unlisted
<1>14. ASSUME NEW c \in Coroutines, Step(c) \/ Launch(c) PROVE Unlisted \/ Listed
  BY <1>2, <1>3, <1>4, <1>7, <1>8, <1>9, <1>14 DEF Step, Launch
<1>15. ASSUME Closing PROVE Unlisted
  BY <1>7, <1>10, <1>11, <1>15 DEF Closing
<1>16. ASSUME NEW c \in Clicks, NEW kind \in Kinds, NEW p \in Plugins, Press(c, kind, p) PROVE Unlisted
  BY <1>7, <1>10, <1>16
<1>17. ASSUME Quit PROVE Unlisted
  BY <1>7, <1>10, <1>17
<1> QED
  BY <1>12, <1>13, <1>14, <1>15, <1>16, <1>17 DEF Next

\* The loop of stopAll stays inside the list, and while it awaits a stop beside a
\* start that may fail, one place more is left.
InRange ==
    /\ Distinct(started)
    /\ pc[Closer] = "closing" => index <= Len(started)
    /\ pc[Closer] = "settling" =>
          /\ index <= Len(started)
          /\ pc[Boot] = "launching" => index < Len(started)

\* A step that is not the closing's: it leaves the loop of stopAll where it is, and
\* the coroutine of the closing too, but for releasing it from the queue.
Aside ==
    /\ index' = index /\ share' = share /\ spent' = spent /\ gone' = gone
    /\ late => late'
    /\ todo'[Closer] = todo[Closer]
    /\ pc'[Closer] = pc[Closer] \/ (pc[Closer] = "queued" /\ pc'[Closer] = "woken")

LEMMA CloserSteps ==
  ASSUME Types, Lock, [Next]_vars
  PROVE  Closing \/ Quit \/ Wake(Closer) \/ Aside
<1> USE DEF Types
<1>0. /\ Closer \in Coroutines /\ Closer # Boot /\ Closer \notin Clicks
      /\ \A c \in Clicks : c \in Coroutines /\ c # Closer
  BY LifecycleAssumption DEF Coroutines
<1> DEFINE Elsewhere == /\ index' = index /\ share' = share /\ spent' = spent /\ gone' = gone
                        /\ late => late'
<1>1. ASSUME NEW c \in Coroutines, c # Closer, Elsewhere, pc' = pc \/ \E q : pc' = [pc EXCEPT ![c] = q],
             todo' = todo \/ \E s : todo' = [todo EXCEPT ![c] = s]
      PROVE  Aside
  BY <1>0, <1>1 DEF Aside, PlacesOK, WorkOK
<1>2. ASSUME NEW c \in Coroutines, c # Closer, Elsewhere, todo' = todo, Leave(c) \/ Enter(c)
      PROVE  Aside
  <2>1. CASE waiting = <<>> \/ Enter(c)
    BY <2>1, <1>1, <1>2 DEF Leave, Enter
  <2>2. CASE waiting # <<>> /\ Leave(c)
    <3> DEFINE first == Head(waiting)
    <3>1. pc' = [pc EXCEPT ![c] = "done", ![first] = "woken"]
      BY <2>2 DEF Leave
    <3>2. first \in Coroutines /\ pc[first] = "queued"
      BY <2>2, QueueHead DEF Coroutines
    <3> HIDE DEF first
    <3>3. pc'[Closer] = IF Closer = first THEN "woken" ELSE pc[Closer]
      BY <1>0, <1>2, <3>1, <3>2 DEF PlacesOK
    <3> QED  BY <3>2, <3>3, <1>2 DEF Aside
  <2> QED  BY <1>2, <2>1, <2>2
<1>3. ASSUME NEW c \in Coroutines, c # Closer,
             \/ Wake(c) \/ (Resolved(c) /\ c # Boot) \/ BeginNothing(c) \/ ErasedOnly(c) \/ (\E kind, p : Press(c, kind, p))
      PROVE  Aside
  <2>1. todo' = todo /\ (Leave(c) \/ Enter(c))
    BY <1>3 DEF Wake, Resolved, BeginNothing, ErasedOnly, Press
  <2>2. late => late'
    <3>1. CASE Wake(c)
      BY <3>1 DEF Wake
    <3>2. CASE ~Wake(c)
      BY <1>3, <3>2 DEF Resolved, BeginNothing, ErasedOnly, Press, ending
    <3> QED  BY <3>1, <3>2
  <2>3. index' = index /\ share' = share /\ spent' = spent /\ gone' = gone
    BY <1>3 DEF Wake, Resolved, BeginNothing, ErasedOnly, Press, ending
  <2>4. Elsewhere
    BY <2>2, <2>3
  <2> HIDE DEF Elsewhere
  <2> QED  BY <1>2, <1>3, <2>1, <2>4
<1>4. ASSUME NEW c \in Coroutines, c # Closer,
             \/ (Resolved(c) /\ c = Boot) \/ Pass(c) \/ TurnedOff(c) \/ Refuse(c) \/ Wait(c)
             \/ RecoveryFails(c) \/ Launch(c)
      PROVE  Aside
  BY <1>1, <1>4 DEF Resolved, Pass, TurnedOff, Refuse, Wait, Visit, RecoveryFails, Launch, Launched, LaunchFails, LaunchMisfits, ending
<1>5. ASSUME NEW c \in Coroutines, c # Closer, Start(c) \/ Recovered(c)
      PROVE  Aside
  <2>1. \E q : pc' = [pc EXCEPT ![c] = q]
    BY <1>5, StartOfShapes DEF Start, Recovered
  <2>2. todo' = todo \/ \E s : todo' = [todo EXCEPT ![c] = s]
    BY <1>5 DEF Start, Recovered, Visit
  <2>3. late' = late /\ index' = index /\ share' = share /\ spent' = spent /\ gone' = gone
    BY <1>5 DEF Start, Recovered
  <2>4. Elsewhere
    BY <2>3
  <2> HIDE DEF Elsewhere
  <2> QED  BY <1>1, <1>5, <2>1, <2>2, <2>4
<1>6. ASSUME NEW c \in Coroutines, c # Closer,
             \/ BeginDisable(c) \/ StopDependent(c) \/ StopItself(c) \/ Halt(c) \/ Disabled(c)
             \/ BeginEnable(c) \/ BeginErase(c) \/ Erased(c)
      PROVE  Aside
  <2>1. \E q : pc' = [pc EXCEPT ![c] = q]
    BY <1>6 DEF BeginDisable, StopDependent, StopItself, Stop, Halt, Disabled, BeginEnable, BeginErase, Erased
  <2>2. todo' = todo \/ \E s : todo' = [todo EXCEPT ![c] = s]
    BY <1>6 DEF BeginDisable, StopDependent, StopItself, Visit, Halt, Disabled, BeginEnable, BeginErase, Erased, Resolve
  <2>3. Elsewhere
    BY <1>6 DEF BeginDisable, StopDependent, StopItself, Halt, Disabled, BeginEnable, BeginErase, Erased, ending
  <2>4. c # Closer
    BY <1>6
  <2> HIDE DEF Elsewhere
  <2> QED  BY <1>1, <2>1, <2>2, <2>3, <2>4
<1>7. ASSUME NEW p, StopReturns(p) \/ \E text \in Authored[p] : Edit(p, text) PROVE Aside
  <2>1. late' = late /\ index' = index /\ share' = share /\ spent' = spent /\ gone' = gone
    BY <1>7 DEF StopReturns, Edit, ending
  <2>2. pc' = pc /\ todo' = todo
    BY <1>7 DEF StopReturns, Edit, change
  <2> QED  BY <2>1, <2>2 DEF Aside
<1>8. ASSUME UNCHANGED vars PROVE Aside
  BY <1>8 DEF vars, Aside
<1>9. ASSUME Step(Closer) \/ Launch(Closer) PROVE Wake(Closer)
  <2>1. pc[Closer] \notin {"resolving", "launching", "recovering", "disabling", "halting", "erasing"}
    BY LifecycleAssumption, WhoIsWhere DEF Coroutines
  <2>2. job[Closer].kind = "none"
    BY DEF WorkOK
  <2> QED  BY <1>9, <2>1, <2>2
           DEF Step, Launch, Resolved, Pass, TurnedOff, Refuse, Wait, Start, Recovered, RecoveryFails, Launched, LaunchFails,
               LaunchMisfits, BeginDisable, StopDependent, StopItself, Halt, Disabled, BeginNothing, BeginEnable, BeginErase,
               Erased, ErasedOnly, Begins, RunsAt, ResumesAt
<1> HIDE DEF Elsewhere
<1>10. ASSUME NEW c \in Coroutines, c # Closer, Step(c) \/ Launch(c) PROVE Aside
  BY <1>3, <1>4, <1>5, <1>6, <1>10 DEF Step
<1>11. ASSUME NEW c \in Clicks, NEW kind \in Kinds, NEW p \in Plugins, Press(c, kind, p) PROVE Aside
  BY <1>0, <1>3, <1>11
<1> QED  BY <1>7, <1>8, <1>9, <1>10, <1>11 DEF Next

LEMMA IndexSteps ==
  ASSUME Types, Lock, [Next]_vars
  PROVE  \/ BeginClose \/ CloseReaderLater \/ CloseNext \/ Settle
         \/ /\ index' = index
            /\ pc'[Closer] = pc[Closer] \/ pc'[Closer] \notin {"closing", "settling"}
<1> USE DEF Types
<1>0. Closer \in Coroutines
  BY DEF Coroutines
<1>1. ASSUME index' = index, Leave(Closer) \/ Enter(Closer) PROVE pc'[Closer] \in {"queued", "begin", "done", "woken"}
  <2>1. CASE waiting = <<>> \/ Enter(Closer)
    BY <2>1, <1>0, <1>1 DEF Leave, Enter, PlacesOK
  <2>2. CASE waiting # <<>> /\ Leave(Closer)
    BY <2>2, <1>0 DEF Leave, PlacesOK
  <2> QED  BY <1>1, <2>1, <2>2
<1>2. CASE Quit \/ Wake(Closer) \/ Closed
  BY <1>1, <1>2 DEF Quit, Wake, Closed, ending
<1>3. CASE CloseHands \/ Handed \/ CloseReader \/ Stopped \/ OutOfTime
  BY <1>0, <1>3 DEF CloseHands, Handed, CloseReader, Stop, Stopped, OutOfTime, change, ending, PlacesOK
<1>4. CASE Aside
  BY <1>4 DEF Aside
<1> QED  BY <1>2, <1>3, <1>4, CloserSteps DEF Closing

LEMMA InRangeStep ==
  ASSUME Control, InRange, [Next]_vars
  PROVE  InRange'
<1> USE DEF Control, Types
<1>0. /\ started \in Seq(Plugins) /\ Distinct(started) /\ Len(started) \in Nat /\ index \in Int
      /\ Closer \in Coroutines /\ Boot \in Coroutines /\ Boot # Closer
  BY LifecycleAssumption DEF RegistryOK, EndingOK, InRange, Coroutines
<1>1. ASSUME BeginClose \/ CloseReaderLater \/ CloseNext \/ Settle PROVE InRange'
  <2>1. started' = started
    BY <1>1 DEF BeginClose, CloseReaderLater, CloseNext, Settle, registry
  <2>2. pc'[Boot] = pc[Boot]
    BY <1>0, <1>1 DEF BeginClose, CloseReaderLater, CloseNext, Settle, Stop, PlacesOK
  <2>3. pc'[Closer] = "closing" => index' <= Len(started)
    <3>1. CASE BeginClose
      BY <1>0, <3>1 DEF BeginClose
    <3>2. CASE CloseReaderLater
      BY <1>0, <3>2 DEF CloseReaderLater
    <3>3. CASE CloseNext
      BY <1>0, <3>3 DEF CloseNext, Stop, PlacesOK
    <3>4. CASE Settle
      BY <1>0, <3>4 DEF Settle, PlacesOK, InRange
    <3> QED  BY <1>1, <3>1, <3>2, <3>3, <3>4
  <2>4. pc'[Closer] = "settling" => index' < Len(started)
    <3>1. CASE BeginClose
      BY <1>0, <3>1 DEF BeginClose, PlacesOK
    <3>2. CASE CloseReaderLater
      BY <1>0, <3>2 DEF CloseReaderLater, RunsAt
    <3>3. CASE CloseNext
      BY <1>0, <3>3 DEF CloseNext, Stop, PlacesOK
    <3>4. CASE Settle
      BY <1>0, <3>4 DEF Settle, PlacesOK
    <3> QED  BY <1>1, <3>1, <3>2, <3>3, <3>4
  <2>5. index' \in Int
    <3>1. index' \in {Len(started), index, index - 1}
      BY <1>1 DEF BeginClose, CloseReaderLater, CloseNext, Settle
    <3> QED  BY <1>0, <3>1
  <2> HIDE DEF Control, Types
  <2> QED  BY <1>0, <2>1, <2>2, <2>3, <2>4, <2>5 DEF InRange
<1>2. ASSUME index' = index, pc'[Closer] = pc[Closer] \/ pc'[Closer] \notin {"closing", "settling"} PROVE InRange'
  <2>1. CASE Unlisted
    BY <1>0, <1>2, <2>1 DEF InRange, Unlisted
  <2>2. ASSUME NEW c \in Coroutines, NEW p \in Plugins, Joins(c, p) PROVE InRange'
    <3>1. ~InSeq(started, p)
      BY <2>2 DEF Joins, Started, InSeq
    <3>2. Len(started') = Len(started) + 1 /\ Distinct(started')
      BY <1>0, <2>2, <3>1, AppendsOne DEF Joins
    <3> QED  BY <1>0, <1>2, <3>2 DEF InRange
  <2>3. ASSUME NEW c \in Coroutines, NEW p \in Plugins, LeavesList(c, p) PROVE InRange'
    <3>1. started' = Among(started, Plugins \ {p})
      BY <2>3 DEF LeavesList
    <3>2. Distinct(started')
      BY <1>0, <3>1, AmongThins DEF Thinned
    <3>3. Len(started') \in Nat /\ Len(started') >= Len(started) - 1
      BY <1>0, <3>1, AmongShorter
    <3>4. turn = Nobody /\ pc[c] \in {"launching", "halting"} /\ pc'[c] \in Runnings \cup {"recovering"}
      BY <2>3 DEF LeavesList, PlacesOK
    <3>5. pc[Closer] # "closing"
      BY <1>0, <3>4, LifecycleAssumption DEF Lock, Runnings
    <3>6. CASE pc[Closer] = "settling"
      <4>1. c \notin Clicks
        BY <3>4, <3>6, LifecycleAssumption DEF Lock, OneChange, Inside, Outside
      <4>2. c # Closer
        BY <3>4, <3>6
      <4>3. c = Boot /\ pc[Boot] = "launching"
        BY <4>1, <4>2, <3>4, WhoIsWhere DEF Coroutines
      <4>4. pc'[Boot] # "launching"
        BY <3>4, <4>3 DEF Runnings
      <4>5. index < Len(started)
        BY <3>6, <4>3 DEF InRange
      <4> QED  BY <1>0, <1>2, <3>2, <3>3, <3>6, <4>4, <4>5 DEF InRange
    <3> QED  BY <1>2, <3>2, <3>5, <3>6 DEF InRange
  <2> QED  BY <2>1, <2>2, <2>3, ListSteps DEF Listed
<1> QED  BY <1>1, <1>2, IndexSteps

\* The host lists no plugin twice, and a start that fails beside stopAll, which takes its
\* plugin out of the list, leaves the index of the loop inside it.
THEOREM ListInRange == Spec => []InRange
<1>1. Init => InRange
  <2> SUFFICES ASSUME Init PROVE InRange
    OBVIOUS
  <2>1. started = <<>> /\ pc[Closer] = "idle"
    BY LifecycleAssumption DEF Init, Coroutines
  <2> QED  BY <2>1 DEF InRange, Distinct
<1>2. Control /\ InRange /\ [Next]_vars => InRange'
  BY InRangeStep
<1> QED  BY <1>1, <1>2, ControlInvariance, PTL DEF Spec

\* The loop of stopAll never reads past the list, also when the window is closed
\* while the plugins load and a failing start shortens the list between two reads.
THEOREM CloseStaysInRange == Spec => []CloseInRange
<1>1. InRange => CloseInRange
  BY DEF InRange, CloseInRange
<1> QED  BY <1>1, ListInRange, PTL

-----------------------------------------------------------------------------
(***************************************************************************)
(* The time the closing takes.                                             *)
(***************************************************************************)

\* stopAll runs, or is over.
Closes == pc[Closer] \in {"closing", "settling", "handing", "closing readers", "settling reader", "done"}

\* The stops that stopAll has still to wait for, and what it hands over after them.
Awaited == IF pc[Closer] \in {"settling", "settling reader"} THEN 1 ELSE 0
Left == index + Len(todo[Closer]) + Awaited
Due == IF pc[Closer] \in {"closing", "settling", "handing"} THEN handover ELSE 0

\* The time used and the shares of the stops to come fit what the product gives.
Pledged == share * Left
Fits == index \in Nat /\ spent + Pledged + Due <= closingTime + handover

Budget ==
    /\ pc[Closer] \in {"queued", "woken"} => late
    /\ pc[Closer] \in {"idle", "queued", "woken", "begin"} => todo[Closer] = <<>> /\ spent = 0
    /\ Closes => Fits
    /\ gone => late \/ pc[Closer] = "done"

\* What the proofs below read of the closing.
CloserTypes ==
    /\ Closer \in Coroutines /\ pc[Closer] \in CloserPlaces
    /\ index \in Int /\ share \in Nat /\ spent \in Nat
    /\ todo[Closer] \in Seq(Plugins) /\ Len(todo[Closer]) \in Nat

CloserMoves ==
    /\ (\A q : pc' = [pc EXCEPT ![Closer] = q] => pc'[Closer] = q)
    /\ (\A s : todo' = [todo EXCEPT ![Closer] = s] => todo'[Closer] = s)

LEMMA TypesOfCloser == Types => CloserTypes /\ CloserMoves
BY DEF Types, CloserTypes, CloserMoves, EndingOK, WorkOK, PlacesOK, Coroutines

LEMMA OneLess ==
  ASSUME NEW a \in Nat, NEW k \in Nat, NEW l \in Nat, k = l + 1
  PROVE  a * l \in Nat /\ a * k = a * l + a
OBVIOUS

LEMMA PledgedTypes ==
  ASSUME CloserTypes, index \in Nat
  PROVE  Left \in Nat /\ Due \in Nat /\ Pledged \in Nat
<1>1. Awaited \in Nat /\ Due \in Nat
  BY DEF Awaited, Due, handover
<1>2. Left \in Nat
  BY <1>1 DEF Left, CloserTypes
<1> QED  BY <1>1, <1>2 DEF Pledged, CloserTypes

\* Sums that stay in their bounds.
LEMMA Balanced ==
  ASSUME NEW s \in Nat, NEW t \in Nat, NEW a \in Nat, NEW d \in Nat, NEW e \in Nat, NEW m \in Nat,
         s + a + d <= m, t + e = s + d
  PROVE  t + a + e <= m
OBVIOUS

LEMMA Released ==
  ASSUME NEW s \in Nat, NEW b \in Nat, NEW h \in Nat, NEW d \in Nat, NEW m \in Nat,
         s + (b + h) + d <= m
  PROVE  s + b + d <= m /\ (s + h) + b + d <= m
OBVIOUS

LEMMA Bounded ==
  ASSUME NEW a \in Nat, NEW d \in Nat, NEW m \in Nat, a <= m
  PROVE  0 + a + d <= m + d
OBVIOUS

LEMMA Limits == closingTime \in Nat /\ handover \in Nat /\ closingTime + handover \in Nat
BY DEF closingTime, handover

\* The stops that are left are counted the same after a step that starts or defers one.
LEMMA SameFits ==
  ASSUME CloserTypes, Fits, index' \in Nat, share' = share,
         Left' = Left, spent' \in Nat, spent' + Due' = spent + Due
  PROVE  Fits'
<1>1. Due \in Nat /\ Pledged \in Nat
  BY PledgedTypes DEF Fits
<1>2. Due' \in Nat
  BY DEF Due, handover
<1>3. Pledged' = Pledged
  BY DEF Pledged
<1>4. spent \in Nat /\ spent + Pledged + Due <= closingTime + handover
  BY DEF Fits, CloserTypes
<1> HIDE DEF Fits
<1>5. spent' + Pledged + Due' <= closingTime + handover
  BY <1>1, <1>2, <1>4, Limits, Balanced
<1> QED  BY <1>3, <1>5 DEF Fits

LEMMA ClosingFits ==
  ASSUME Types, Budget,
         \/ BeginClose \/ CloseReaderLater \/ CloseNext \/ CloseHands \/ Handed \/ CloseReader \/ Settle
  PROVE  Closes' /\ Fits'
<1>1. CloserTypes /\ CloserMoves
  BY TypesOfCloser
<1>a. index \in Int /\ share \in Nat /\ spent \in Nat
  BY <1>1 DEF CloserTypes
<1>b. todo[Closer] \in Seq(Plugins) /\ Len(todo[Closer]) \in Nat /\ pc[Closer] \in CloserPlaces
  BY <1>1 DEF CloserTypes
<1>2. CASE BeginClose
  <2>1. pc[Closer] = "begin" /\ pc'[Closer] = "closing" /\ todo'[Closer] = todo[Closer]
    BY <1>1, <1>2 DEF CloserMoves, BeginClose, RunsAt
  <2>2. index' = Len(started) /\ share' = Share /\ spent' = spent
    BY <1>2 DEF BeginClose
  <2>3. todo[Closer] = <<>> /\ spent = 0
    BY <2>1 DEF Budget
  <2>4. started \in Seq(Plugins) /\ Len(started) \in Nat /\ Len(<<>>) = 0
    BY DEF Types, RegistryOK
  <2>5. Awaited' = 0 /\ Due' = handover
    BY <2>1 DEF Awaited, Due
  <2>6. Left' = Len(started)
    BY <2>1, <2>2, <2>3, <2>4, <2>5 DEF Left
  <2>7. Share \in Nat /\ Share * Len(started) <= closingTime
    BY ShareFits DEF Types
  <2>8. Pledged' = Share * Len(started)
    BY <2>2, <2>6 DEF Pledged
  <2>9. Pledged' \in Nat /\ Pledged' <= closingTime
    BY <2>4, <2>7, <2>8
  <2>10. spent' = 0
    BY <2>2, <2>3
  <2>11. spent' + Pledged' + Due' <= closingTime + handover
    BY <2>5, <2>9, <2>10, Limits, Bounded
  <2> QED  BY <2>1, <2>2, <2>4, <2>11 DEF Closes, Fits
<1>3. CASE CloseReaderLater \/ CloseNext
  <2>1. pc[Closer] = "closing" /\ index \in 1..Len(started) /\ index' = index - 1 /\ share' = share /\ spent' = spent
    BY <1>3 DEF CloseReaderLater, CloseNext, RunsAt
  <2>2. Len(started) \in Nat /\ \A i \in 1..Len(started) : started[i] \in Plugins
    BY DEF Types, RegistryOK
  <2>3. Fits /\ index \in Nat /\ index' \in Nat
    BY <2>1, <2>2 DEF Budget, Closes
  <2>4. CASE CloseReaderLater
    <3>1. pc'[Closer] = "closing" /\ todo'[Closer] = Append(todo[Closer], started[index])
      BY <1>1, <2>1, <2>4 DEF CloserMoves, CloseReaderLater
    <3>2. Len(todo'[Closer]) = Len(todo[Closer]) + 1
      BY <1>b, <2>1, <2>2, <3>1
    <3>3. Awaited = 0 /\ Awaited' = 0 /\ Due' = Due
      BY <2>1, <3>1 DEF Awaited, Due
    <3>4. Left' = Left
      BY <1>b, <2>1, <2>3, <3>2, <3>3 DEF Left
    <3>5. spent' \in Nat /\ spent' + Due' = spent + Due
      BY <1>a, <2>1, <3>3
    <3> QED  BY <1>1, <2>1, <2>3, <3>1, <3>4, <3>5, SameFits DEF Closes
  <2>5. CASE CloseNext
    <3>1. pc'[Closer] = "settling" /\ todo'[Closer] = todo[Closer]
      BY <1>1, <2>5 DEF CloserMoves, CloseNext, Stop
    <3>3. Awaited = 0 /\ Awaited' = 1 /\ Due' = Due
      BY <2>1, <3>1 DEF Awaited, Due
    <3>4. Left' = Left
      BY <1>b, <2>1, <2>3, <3>1, <3>3 DEF Left
    <3>5. spent' \in Nat /\ spent' + Due' = spent + Due
      BY <1>a, <2>1, <3>3
    <3> QED  BY <1>1, <2>1, <2>3, <3>1, <3>4, <3>5, SameFits DEF Closes
  <2> QED  BY <1>3, <2>4, <2>5
<1>4. CASE CloseHands \/ Handed
  <2>1. index' = index /\ share' = share /\ todo'[Closer] = todo[Closer]
    BY <1>4 DEF CloseHands, Handed, ending
  <2>2. \/ pc[Closer] = "closing" /\ pc'[Closer] = "handing" /\ spent' = spent
        \/ pc[Closer] = "handing" /\ pc'[Closer] = "closing readers" /\ spent' = spent + handover
    BY <1>1, <1>4 DEF CloserMoves, CloseHands, Handed, RunsAt, ResumesAt, ending
  <2>3. Fits /\ Closes'
    BY <2>2 DEF Budget, Closes
  <2>4. Awaited' = Awaited
    BY <2>2 DEF Awaited
  <2>5. Left' = Left
    BY <2>1, <2>4 DEF Left
  <2>6. spent' \in Nat /\ spent' + Due' = spent + Due
    <3>1. ASSUME Due' = Due, Due \in Nat, spent' = spent PROVE spent' \in Nat /\ spent' + Due' = spent + Due
      BY <1>a, <3>1
    <3>2. ASSUME Due' = 0, Due = handover, spent' = spent + handover PROVE spent' \in Nat /\ spent' + Due' = spent + Due
      BY <1>a, <3>2, Limits
    <3> QED  BY <2>2, <3>1, <3>2, Limits DEF Due
  <2> QED  BY <1>1, <2>1, <2>3, <2>5, <2>6, SameFits DEF Fits
<1>5. CASE CloseReader
  <2>1. /\ pc[Closer] = "closing readers" /\ pc'[Closer] = "settling reader" /\ todo[Closer] # <<>>
        /\ todo'[Closer] = Tail(todo[Closer])
    BY <1>1, <1>5 DEF CloserMoves, CloseReader, RunsAt, Stop, Visit
  <2>2. index' = index /\ share' = share /\ spent' = spent
    BY <1>5 DEF CloseReader
  <2>3. Fits /\ Closes'
    BY <2>1 DEF Budget, Closes
  <2>4. Len(todo'[Closer]) = Len(todo[Closer]) - 1
    <3> DEFINE rest == todo[Closer]
    <3>1. rest \in Seq(Plugins) /\ rest # <<>> /\ todo'[Closer] = Tail(rest)
      BY <1>b, <2>1
    <3> HIDE DEF rest
    <3>2. Len(Tail(rest)) = Len(rest) - 1
      BY <3>1
    <3> QED  BY <3>1, <3>2 DEF rest
  <2>5. Awaited = 0 /\ Awaited' = 1 /\ Due' = Due
    BY <2>1 DEF Awaited, Due
  <2>6. Left' = Left
    BY <1>a, <1>b, <2>2, <2>4, <2>5 DEF Left
  <2>7. spent' \in Nat /\ spent' + Due' = spent + Due
    BY <1>a, <2>2, <2>5
  <2> QED  BY <1>1, <2>2, <2>3, <2>6, <2>7, SameFits DEF Fits
<1>6. CASE Settle
  <2>1. /\ index' = index /\ share' = share /\ todo'[Closer] = todo[Closer]
        /\ spent' = spent \/ spent' = spent + share
    BY <1>6 DEF Settle
  <2>2. \/ pc[Closer] = "settling" /\ pc'[Closer] = "closing"
        \/ pc[Closer] = "settling reader" /\ pc'[Closer] = "closing readers"
    BY <1>1, <1>6 DEF CloserMoves, Settle
  <2>3. Fits /\ Closes' /\ index \in Nat
    BY <2>2 DEF Budget, Closes, Fits
  <2>4. Awaited = 1 /\ Awaited' = 0 /\ Due' = Due
    BY <2>2 DEF Awaited, Due
  <2>5. Left \in Nat /\ Left' \in Nat /\ Left = Left' + 1
    BY <1>b, <2>1, <2>3, <2>4 DEF Left
  <2>6. Pledged' \in Nat /\ Pledged = Pledged' + share
    BY <1>a, <2>1, <2>5, OneLess DEF Pledged
  <2>7. Due \in Nat /\ spent + Pledged + Due <= closingTime + handover
    BY <2>3 DEF Fits, Due, handover
  <2>8. spent' = spent \/ spent' = spent + share
    BY <2>1
  <2>9. spent' + Pledged' + Due' <= closingTime + handover
    <3> DEFINE b == Pledged'
               m == closingTime + handover
    <3>0. spent + (b + share) + Due <= m /\ b \in Nat /\ m \in Nat
      BY <2>6, <2>7, Limits
    <3> HIDE DEF b, m
    <3>1. spent + b + Due <= m /\ (spent + share) + b + Due <= m
      BY <1>a, <2>7, <3>0, Released
    <3> USE DEF b, m
    <3> QED  BY <2>4, <2>8, <3>1
  <2> QED  BY <2>1, <2>3, <2>9 DEF Fits
<1> QED  BY <1>2, <1>3, <1>4, <1>5, <1>6
LEMMA BudgetStep ==
  ASSUME Control, Budget, [Next]_vars
  PROVE  Budget'
<1> USE DEF Control
<1>1. CloserTypes /\ CloserMoves /\ Types
  BY TypesOfCloser
<1>a. pc[Closer] \in CloserPlaces /\ spent \in Nat /\ spent' \in Nat
  <2>1. Control'
    BY StepControl
  <2> QED  BY <1>1, <2>1 DEF CloserTypes, Types, EndingOK
<1>2. ASSUME \/ BeginClose \/ CloseReaderLater \/ CloseNext \/ CloseHands \/ Handed \/ CloseReader \/ Settle
      PROVE  Budget'
  <2>1. Closes' /\ Fits'
    BY <1>1, <1>2, ClosingFits
  <2>2. ~gone'
    BY <1>2 DEF BeginClose, CloseReaderLater, CloseNext, CloseHands, Handed, CloseReader, Settle, RunsAt, ResumesAt, Idle, Over, ending
  <2> QED  BY <2>1, <2>2 DEF Budget, Closes
<1>3. ASSUME Closes, index' = index, share' = share, spent' = spent, todo'[Closer] = todo[Closer],
             pc'[Closer] = pc[Closer] \/ (pc[Closer] = "closing readers" /\ pc'[Closer] = "done")
      PROVE  Closes' /\ Fits'
  <2>1. Closes' /\ Fits
    BY <1>3 DEF Closes, Budget
  <2>2. Awaited' = Awaited /\ Due' = Due
    BY <1>3 DEF Awaited, Due
  <2>3. Left' = Left
    BY <1>3, <2>2 DEF Left
  <2> QED  BY <1>1, <1>3, <1>a, <2>1, <2>2, <2>3, SameFits DEF Fits
<1>4. CASE Closed
  <2>1. pc[Closer] = "closing readers" /\ pc'[Closer] = "done" /\ ~gone'
    <3>1. pc[Closer] = "closing readers" /\ ~gone' /\ Leave(Closer)
      BY <1>4 DEF Closed, RunsAt, ending
    <3>2. CASE waiting = <<>>
      BY <1>1, <3>1, <3>2 DEF Leave, CloserMoves
    <3>3. CASE waiting # <<>>
      <4>1. pc[Head(waiting)] = "queued" /\ Head(waiting) \in Coroutines
        BY <3>3, QueueHead DEF Types, Coroutines
      <4>2. pc' = [pc EXCEPT ![Closer] = "done", ![Head(waiting)] = "woken"]
        BY <3>1, <3>3 DEF Leave
      <4>3. pc'[Closer] = "done"
        BY <1>1, <3>1, <4>1, <4>2 DEF Types, PlacesOK, CloserTypes
      <4> QED  BY <3>1, <4>3
    <3> QED  BY <3>2, <3>3
  <2>2. index' = index /\ share' = share /\ spent' = spent /\ todo' = todo
    BY <1>4 DEF Closed, ending
  <2>3. Closes' /\ Fits'
    BY <1>3, <2>1, <2>2 DEF Closes
  <2> QED  BY <2>1, <2>3 DEF Budget, Closes
<1>5. ASSUME index' = index, share' = share, spent' = spent, todo'[Closer] = todo[Closer], pc'[Closer] = pc[Closer],
             gone' => late' \/ pc[Closer] = "done", late => late'
      PROVE  Budget'
  <2>1. Closes' => Fits'
    BY <1>3, <1>5 DEF Closes
  <2> QED  BY <1>5, <2>1 DEF Budget
<1>6. CASE Stopped
  <2>1. /\ index' = index /\ share' = share /\ spent' = spent /\ todo' = todo /\ pc' = pc
        /\ pc[Closer] = "done"
    BY <1>6 DEF Stopped, change
  <2>2. late' = late
    BY <1>6 DEF Stopped
  <2> QED  BY <1>5, <2>1, <2>2
<1>7. CASE OutOfTime
  <2>1. index' = index /\ share' = share /\ spent' = spent /\ todo' = todo /\ pc' = pc
    BY <1>7 DEF OutOfTime, change
  <2>2. late' = late
    BY <1>7 DEF OutOfTime
  <2>3. late \/ spent >= shutdownBudget \/ pc[Closer] \in {"queued", "woken"}
    BY <1>7 DEF OutOfTime
  <2>4. ~(spent >= shutdownBudget)
    <3>1. CASE Closes
      <4>1. Fits /\ Due \in Nat /\ Pledged \in Nat
        BY <1>1, <3>1, PledgedTypes DEF Budget, Fits
      <4>2. spent + Pledged + Due <= closingTime + handover
        BY <4>1 DEF Fits
      <4> QED  BY <1>a, <4>1, <4>2 DEF closingTime, handover, shutdownBudget
    <3>2. CASE ~Closes
      <4>1. spent = 0
        BY <1>a, <3>2 DEF Closes, CloserPlaces, Outside, Budget
      <4> QED  BY <4>1 DEF shutdownBudget
    <3> QED  BY <3>1, <3>2
  <2>5. late
    BY <2>3, <2>4 DEF Budget
  <2> QED  BY <1>5, <2>1, <2>2, <2>5
<1>8. ASSUME pc[Closer] \in {"idle", "woken"}, Enter(Closer), busy => late', todo' = todo, spent' = spent, ~gone'
      PROVE  Budget'
  <2>1. (pc'[Closer] = "queued" /\ busy) \/ pc'[Closer] = "begin"
    BY <1>1, <1>8 DEF Enter, CloserMoves
  <2>2. todo[Closer] = <<>> /\ spent = 0
    BY <1>8 DEF Budget
  <2> QED  BY <1>8, <2>1, <2>2 DEF Budget, Closes
<1>9. CASE Quit
  <2>1. todo' = todo /\ spent' = spent /\ ~gone' /\ Enter(Closer)
    BY <1>9 DEF Quit, Idle, Over
  <2>2. quit = FALSE
    BY <1>9 DEF Quit, Types, EndingOK
  <2>3. pc[Closer] = "idle"
    BY <2>2 DEF Phases
  <2>4. busy => late'
    BY <1>9 DEF Quit
  <2> QED  BY <1>8, <2>1, <2>3, <2>4
<1>10. CASE Wake(Closer)
  <2>1. todo' = todo /\ spent' = spent /\ ~gone' /\ Enter(Closer) /\ pc[Closer] = "woken"
    BY <1>10 DEF Wake, ResumesAt, Over
  <2>2. busy => late'
    BY <1>10 DEF Wake
  <2> QED  BY <1>8, <2>1, <2>2
<1>11. CASE Aside
  <2>1. CASE pc'[Closer] = pc[Closer]
    BY <1>5, <1>11, <2>1 DEF Aside, Budget
  <2>2. CASE pc[Closer] = "queued" /\ pc'[Closer] = "woken"
    <3>1. late /\ todo[Closer] = <<>> /\ spent = 0
      BY <2>2 DEF Budget
    <3> QED  BY <1>11, <2>2, <3>1 DEF Aside, Budget, Closes
  <2> QED  BY <1>11, <2>1, <2>2 DEF Aside
<1> QED  BY <1>1, <1>2, <1>4, <1>6, <1>7, <1>9, <1>10, <1>11, CloserSteps DEF Closing

\* The stops of the closing never use more than the product waits for: its wait is only
\* cut short when a change kept the closing from beginning.
THEOREM ClosingFitsBudget == Spec => []Budget
<1>1. Init => Budget
  <2> SUFFICES ASSUME Init PROVE Budget
    OBVIOUS
  <2>1. pc[Closer] = "idle" /\ todo[Closer] = <<>> /\ spent = 0 /\ gone = FALSE
    BY LifecycleAssumption DEF Init, Coroutines
  <2> QED  BY <2>1 DEF Budget, Closes
<1>2. Control /\ Budget /\ [Next]_vars => Budget'
  BY BudgetStep
<1> QED  BY <1>1, <1>2, ControlInvariance, PTL DEF Spec

-----------------------------------------------------------------------------
(***************************************************************************)
(* A window that is closed once it loaded.  The boot of one that is closed *)
(* before goes on beside stopAll, which may then miss a plugin it starts:  *)
(* what follows is about the others.                                       *)
(***************************************************************************)

Orderly == quit => ~QuitWhileBooting

\* Nothing runs once stopAll is over.
Quiet == pc[Closer] = "done" => turn = Nobody

\* No two coroutines hold the switch, the boot included.
LEMMA OneInside ==
  ASSUME Control, Orderly, NEW c \in Coroutines, NEW d \in Coroutines, Inside(c), Inside(d)
  PROVE  c = d
<1> USE DEF Control
<1>1. ASSUME NEW e \in Clicks \cup {Closer}, Inside(e) PROVE ~Inside(Boot)
  <2>1. CASE e \in Clicks
    <3>1. Booted
      BY <1>1, <2>1 DEF Phases, Inside, Outside
    <3> QED  BY <3>1 DEF Booted, Inside, Outside
  <2>2. CASE e = Closer
    <3>1. quit
      BY <1>1, <2>2 DEF Phases, Inside, Outside
    <3>2. Booted
      BY <3>1 DEF Orderly, Phases
    <3> QED  BY <3>2 DEF Booted, Inside, Outside
  <2> QED  BY <2>1, <2>2
<1>2. CASE c = Boot \/ d = Boot
  BY <1>1, <1>2 DEF Coroutines
<1>3. CASE c # Boot /\ d # Boot
  <2>1. c \in Clicks \cup {Closer} /\ d \in Clicks \cup {Closer}
    BY <1>3 DEF Coroutines
  <2> QED  BY <2>1 DEF Lock, OneChange
<1> QED  BY <1>2, <1>3

\* Where the step of a coroutine begins.
Changes == {"begin", "resolving", "launching", "recovering", "disabling", "halting", "erasing"}

LEMMA StepBegins ==
  ASSUME NEW c \in Coroutines, Step(c) \/ Launch(c)
  PROVE  /\ turn = c \/ (turn = Nobody /\ ~Over)
         /\ Wake(c) \/ (pc[c] \in Changes /\ (pc[c] = "begin" => job[c].kind # "none"))
<1>1. CASE Wake(c)
  BY <1>1 DEF Wake, ResumesAt
<1>2. CASE Resolved(c) \/ Pass(c) \/ TurnedOff(c) \/ Refuse(c) \/ Wait(c) \/ Start(c)
  BY <1>2 DEF Resolved, Pass, TurnedOff, Refuse, Wait, Start, RunsAt, Changes
<1>3. CASE Recovered(c) \/ RecoveryFails(c) \/ Launch(c) \/ Halt(c) \/ Erased(c) \/ ErasedOnly(c)
  BY <1>3 DEF Recovered, RecoveryFails, Launch, Launched, LaunchFails, LaunchMisfits, Halt, Erased, ErasedOnly, ResumesAt, Changes
<1>4. CASE BeginDisable(c) \/ BeginNothing(c) \/ BeginEnable(c) \/ BeginErase(c)
  BY <1>4 DEF BeginDisable, BeginNothing, BeginEnable, BeginErase, Begins, RunsAt, Changes
<1>5. CASE StopDependent(c) \/ StopItself(c) \/ Disabled(c)
  BY <1>5 DEF StopDependent, StopItself, Disabled, RunsAt, Changes
<1> QED  BY <1>1, <1>2, <1>3, <1>4, <1>5 DEF Step

LEMMA CloserChangesNothing ==
  ASSUME Types, Step(Closer) \/ Launch(Closer)
  PROVE  Wake(Closer)
<1>1. Closer \in Coroutines /\ job[Closer].kind = "none" /\ pc[Closer] \in CloserPlaces
  BY DEF Types, WorkOK, PlacesOK, Coroutines
<1> QED  BY <1>1, StepBegins DEF Changes, CloserPlaces, Outside

LEMMA Ended ==
  ASSUME Control, Quiet, pc[Closer] = "done", [Next]_vars
  PROVE  Stopped \/ UNCHANGED vars
<1>1. turn = Nobody /\ Over
  BY DEF Quiet, Over
<1>2. ~Idle /\ \A c \in Coroutines : \A q : ~RunsAt(c, q) /\ ~ResumesAt(c, q)
  BY <1>1, LifecycleAssumption DEF Idle, RunsAt, ResumesAt
<1>3. ASSUME NEW c \in Coroutines, Step(c) \/ Launch(c) PROVE FALSE
  BY <1>1, <1>3, StepBegins, LifecycleAssumption
<1>4. ASSUME Closing PROVE Stopped
  <2>1. Closer \in Coroutines
    BY DEF Coroutines
  <2> QED  BY <1>2, <1>4, <2>1 DEF Closing, BeginClose, CloseReaderLater, CloseNext, CloseHands, Handed, CloseReader, Settle, Closed, OutOfTime
<1>5. ASSUME \/ \E c \in Clicks, kind \in Kinds, p \in Plugins : Press(c, kind, p)
             \/ Quit \/ (\E p \in Plugins : \E text \in Authored[p] : Edit(p, text)) \/ (\E p \in Plugins : StopReturns(p))
      PROVE  FALSE
  BY <1>2, <1>5 DEF Press, Quit, Edit, StopReturns
<1> QED  BY <1>3, <1>4, <1>5 DEF Next

LEMMA QuietStep ==
  ASSUME Control, Quiet, [Next]_vars
  PROVE  Quiet'
<1> USE DEF Control
<1>0. CloserTypes /\ CloserMoves
  BY TypesOfCloser
<1>1. CASE pc[Closer] = "done"
  <2>1. turn' = turn
    BY <1>1, Ended DEF Stopped, vars, change
  <2> QED  BY <1>1, <2>1 DEF Quiet
<1>2. CASE pc[Closer] # "done"
  <2>1. ASSUME Enter(Closer) PROVE pc'[Closer] # "done"
    BY <1>0, <2>1 DEF Enter, CloserMoves
  <2>2. CASE Quit \/ Wake(Closer)
    BY <2>1, <2>2 DEF Quit, Wake, Quiet
  <2>3. CASE Aside
    BY <1>2, <2>3 DEF Aside, Quiet
  <2>4. CASE Closed
    BY <2>4 DEF Closed, Leave, Quiet
  <2>5. CASE BeginClose \/ CloseReaderLater \/ CloseNext \/ CloseHands \/ Handed \/ CloseReader \/ Settle
    <3>1. pc'[Closer] # "done"
      BY <1>0, <1>2, <2>5 DEF BeginClose, CloseReaderLater, CloseNext, CloseHands, Handed, CloseReader, Settle, Stop, CloserMoves
    <3> QED  BY <3>1 DEF Quiet
  <2>6. CASE Stopped \/ OutOfTime
    BY <1>2, <2>6 DEF Stopped, OutOfTime, change, Quiet
  <2> QED  BY <2>2, <2>3, <2>4, <2>5, <2>6, CloserSteps DEF Closing
<1> QED  BY <1>1, <1>2

\* While stopAll runs nobody else touches the plugins.
Still ==
    /\ def' = def /\ state' = state /\ attempt' = attempt /\ ran' = ran /\ started' = started /\ disabled' = disabled
    /\ job' = job /\ todo' = todo /\ cyclic' = cyclic /\ target' = target
    /\ stopping' \subseteq stopping /\ halted' = halted /\ quit' = quit /\ index' = index
    /\ pc'[Closer] = pc[Closer] /\ \A c \in Coroutines : pc'[c] = pc[c] \/ (pc[c] = "woken" /\ pc'[c] = "queued")

LEMMA ClosesAlone ==
  ASSUME Control, Quiet, Orderly, Closes, [Next]_vars
  PROVE  Closing \/ Still
<1> USE DEF Control
<1>0. Closer \in Coroutines
  BY DEF Coroutines
<1>1. quit /\ pc[Closer] \notin Outside \ {"done"}
  BY DEF Closes, Phases, Outside
<1>2. ASSUME NEW c \in Coroutines, Step(c) \/ Launch(c)
      PROVE  Still
  <2>1. turn = c \/ (turn = Nobody /\ ~Over)
    BY <1>2, StepBegins
  <2>2. pc[Closer] # "done"
    BY <2>1, LifecycleAssumption DEF Over, Quiet
  <2>3. Inside(Closer) /\ busy
    <3>1. Inside(Closer)
      BY <1>1, <2>2 DEF Inside, Outside
    <3> QED  BY <3>1 DEF Lock
  <2>4. pc[c] \in Changes => c = Closer
    BY <1>0, <2>3, OneInside DEF Inside, Changes, Outside
  <2>5. c # Closer
    <3>1. ~Wake(Closer)
      BY <1>1 DEF Wake, ResumesAt, Outside
    <3> QED  BY <1>2, <3>1, CloserChangesNothing
  <2>6. Wake(c)
    BY <1>2, <2>4, <2>5, StepBegins
  <2>7. pc[c] = "woken" /\ pc' = [pc EXCEPT ![c] = "queued"]
    BY <2>3, <2>6 DEF Wake, ResumesAt, Enter
  <2>8. pc'[Closer] = pc[Closer] /\ \A d \in Coroutines : pc'[d] = pc[d] \/ (pc[d] = "woken" /\ pc'[d] = "queued")
    BY <1>0, <2>5, <2>7 DEF Types, PlacesOK
  <2> QED  BY <2>6, <2>8 DEF Still, Wake, registry
<1>3. ASSUME NEW p \in Plugins, NEW text, Edit(p, text) PROVE Still
  BY <1>3 DEF Edit, Still, change, ending
<1>4. ASSUME NEW p \in Plugins, StopReturns(p) PROVE Still
  BY <1>4 DEF StopReturns, Still, registry, change
<1>5. ASSUME UNCHANGED vars PROVE Still
  BY <1>5 DEF vars, Still
<1>6. ~Quit /\ \A c, kind, p : ~Press(c, kind, p)
  BY <1>1 DEF Quit, Press
<1> QED  BY <1>2, <1>3, <1>4, <1>5, <1>6 DEF Next

\* stopAll begins by one step.
LEMMA ClosesBegin ==
  ASSUME Control, ~Closes, Closes', [Next]_vars
  PROVE  BeginClose
<1> USE DEF Control
<1>0. CloserTypes /\ CloserMoves
  BY TypesOfCloser
<1>1. ASSUME Enter(Closer) PROVE FALSE
  BY <1>0, <1>1 DEF Enter, CloserMoves, Closes
<1>2. ASSUME Quit \/ Wake(Closer) PROVE FALSE
  BY <1>1, <1>2 DEF Quit, Wake
<1>3. ASSUME Aside PROVE FALSE
  BY <1>3 DEF Aside, Closes
<1>4. ASSUME CloseReaderLater \/ CloseNext \/ CloseHands \/ Handed \/ CloseReader \/ Settle \/ Closed
      PROVE  FALSE
  BY <1>4 DEF CloseReaderLater, CloseNext, CloseHands, Handed, CloseReader, Settle, Closed, RunsAt, ResumesAt, Closes
<1>5. ASSUME Stopped \/ OutOfTime PROVE FALSE
  <2>1. pc' = pc
    BY <1>5 DEF Stopped, OutOfTime, change
  <2> QED  BY <2>1 DEF Closes
<1> QED  BY <1>2, <1>3, <1>4, <1>5, CloserSteps DEF Closing

LEMMA OrderlyBefore ==
  ASSUME Control, Orderly', [Next]_vars
  PROVE  Orderly
<1>1. Types /\ Lock /\ Phases
  BY DEF Control
<1>2. Shape
  BY <1>1, StepShape
<1>3. ASSUME NEW c \in Clicks \cup {Closer}, Calls(c), quit PROVE quit'
  BY <1>1, <1>3 DEF Calls, Enters, Phases, Types, EndingOK
<1>4. quit => quit'
  BY <1>2, <1>3 DEF Shape
<1> QED  BY <1>4 DEF Orderly

\* Once stopAll is over no coroutine runs any more before the bridge closes.
THEOREM QuietInvariance == Spec => []Quiet
<1>1. Init => Quiet
  <2> SUFFICES ASSUME Init PROVE Quiet
    OBVIOUS
  <2>1. pc[Closer] = "idle"
    BY LifecycleAssumption DEF Init, Coroutines
  <2> QED  BY <2>1 DEF Quiet
<1>2. Control /\ Quiet /\ [Next]_vars => Quiet'
  BY QuietStep
<1> QED  BY <1>1, <1>2, ControlInvariance, PTL DEF Spec

\* What stopAll has passed:  every plugin beyond its index has begun its stop or is
\* one of the readers it stops last.
Passed ==
    \A i \in 1..Len(started) : i <= index \/ started[i] \in halted \/ InSeq(todo[Closer], started[i])

Walk ==
    /\ Closes => Passed
    /\ pc[Closer] \in {"handing", "closing readers", "settling reader", "done"} => index = 0
    /\ pc[Closer] = "done" => todo[Closer] = <<>>

LEMMA AppendHas ==
  ASSUME NEW A, NEW s \in Seq(A), NEW p \in A
  PROVE  \A e : InSeq(Append(s, p), e) <=> InSeq(s, e) \/ e = p
<1>1. Len(Append(s, p)) = Len(s) + 1 /\ Len(s) \in Nat
  OBVIOUS
<1>2. (\A i \in 1..Len(s) : Append(s, p)[i] = s[i]) /\ Append(s, p)[Len(s) + 1] = p
  OBVIOUS
<1>3. /\ \A i \in 1..Len(s) + 1 : i \in 1..Len(s) \/ i = Len(s) + 1
      /\ \A i \in 1..Len(s) : i \in 1..Len(s) + 1
      /\ Len(s) + 1 \in 1..Len(s) + 1
  BY <1>1
<1> QED  BY <1>1, <1>2, <1>3 DEF InSeq

LEMMA TailHas ==
  ASSUME NEW A, NEW s \in Seq(A), s # <<>>
  PROVE  \A e : InSeq(s, e) <=> InSeq(Tail(s), e) \/ e = Head(s)
<1> DEFINE n == Len(s)
           t == Tail(s)
<1>1. Len(t) = n - 1 /\ n \in Nat /\ n > 0 /\ Head(s) = s[1]
  OBVIOUS
<1>2. \A i \in 1..n - 1 : t[i] = s[i + 1]
  BY <1>1
<1> HIDE DEF t, n
<1>3. /\ \A i \in 1..n : i = 1 \/ (i - 1 \in 1..n - 1 /\ (i - 1) + 1 = i)
      /\ \A i \in 1..n - 1 : i + 1 \in 1..n
      /\ 1 \in 1..n
  BY <1>1
<1>4. ASSUME NEW e, NEW i \in 1..n, s[i] = e PROVE (\E j \in 1..n - 1 : t[j] = e) \/ e = Head(s)
  BY <1>1, <1>2, <1>3, <1>4
<1>5. ASSUME NEW e, (\E j \in 1..n - 1 : t[j] = e) \/ e = Head(s) PROVE \E i \in 1..n : s[i] = e
  BY <1>1, <1>2, <1>3, <1>5
<1> QED  BY <1>1, <1>4, <1>5 DEF InSeq, t, n

LEMMA WalkStep ==
  ASSUME Control, Quiet, Budget, Orderly, Walk, [Next]_vars
  PROVE  Walk'
<1>0. CloserTypes /\ CloserMoves /\ Types
  BY TypesOfCloser DEF Control
<1>a. todo[Closer] \in Seq(Plugins) /\ index \in Int
  BY <1>0 DEF CloserTypes
<1>b. started \in Seq(Plugins) /\ Len(started) \in Nat /\ \A i \in 1..Len(started) : started[i] \in Plugins
  BY <1>0 DEF Types, RegistryOK
<1>1. CASE ~Closes /\ ~Closes'
  BY <1>1 DEF Walk, Closes
<1>2. CASE ~Closes /\ Closes'
  <2>1. BeginClose
    BY <1>2, ClosesBegin
  <2>2. pc'[Closer] = "closing" /\ index' = Len(started) /\ started' = started
    BY <1>0, <2>1 DEF BeginClose, CloserMoves, registry
  <2>3. Passed'
    BY <1>b, <2>2 DEF Passed
  <2> QED  BY <2>2, <2>3 DEF Walk
<1>3. CASE Closes /\ Still
  BY <1>3 DEF Still, Walk, Closes, Passed
<1>4. ASSUME started' = started, index' = index,
             \A e : e \in halted \/ InSeq(todo[Closer], e) => e \in halted' \/ InSeq(todo'[Closer], e)
      PROVE  Passed => Passed'
  BY <1>4 DEF Passed
<1>5. CASE Closes /\ BeginClose
  BY <1>5 DEF BeginClose, RunsAt, Closes
<1>6. CASE Closes /\ CloseReaderLater
  <2>1. /\ pc[Closer] = "closing" /\ pc'[Closer] = "closing" /\ index \in 1..Len(started) /\ index' = index - 1
        /\ started' = started /\ halted' = halted
    BY <1>6 DEF CloseReaderLater, RunsAt, registry
  <2>2. todo'[Closer] = Append(todo[Closer], started[index])
    BY <1>0, <1>6 DEF CloseReaderLater, CloserMoves
  <2>3. \A e : InSeq(todo'[Closer], e) <=> InSeq(todo[Closer], e) \/ e = started[index]
    BY <1>a, <1>b, <2>1, <2>2, AppendHas
  <2>4. Passed
    BY <1>6 DEF Walk
  <2>5. Passed'
    <3>1. \A i \in 1..Len(started) : i <= index => i <= index - 1 \/ i = index
      BY <1>a, <1>b
    <3> QED  BY <2>1, <2>3, <2>4, <3>1 DEF Passed
  <2> QED  BY <2>1, <2>5 DEF Walk
<1>7. CASE Closes /\ CloseNext
  <2>1. /\ pc'[Closer] = "settling" /\ index' = index - 1
        /\ started' = started /\ todo' = todo /\ halted' = halted \cup {started[index]}
    BY <1>0, <1>7 DEF CloseNext, CloserMoves, Stop
  <2>2. Passed
    BY <1>7 DEF Walk
  <2>3. Passed'
    <3>1. \A i \in 1..Len(started) : i <= index => i <= index - 1 \/ i = index
      BY <1>a, <1>b
    <3> QED  BY <2>1, <2>2, <3>1 DEF Passed
  <2> QED  BY <2>1, <2>3 DEF Walk
<1>8. CASE Closes /\ CloseReader
  <2>1. /\ pc[Closer] = "closing readers" /\ pc'[Closer] = "settling reader" /\ index' = index /\ started' = started
        /\ todo[Closer] # <<>> /\ todo'[Closer] = Tail(todo[Closer]) /\ halted' = halted \cup {Head(todo[Closer])}
    BY <1>0, <1>8 DEF CloseReader, RunsAt, CloserMoves, Stop, Visit
  <2>2. \A e : InSeq(todo[Closer], e) <=> InSeq(todo'[Closer], e) \/ e = Head(todo[Closer])
    BY ZenonT(30), <1>a, <2>1, TailHas
  <2>3. Passed /\ index = 0
    BY <1>8, <2>1 DEF Walk
  <2>4. Passed'
    BY <1>4, <2>1, <2>2, <2>3
  <2> QED  BY <2>1, <2>3, <2>4 DEF Walk
<1>9. CASE Closes /\ (CloseHands \/ Handed \/ Settle \/ Stopped \/ OutOfTime \/ Closed)
  <2>1. started' = started /\ index' = index /\ todo' = todo /\ halted' = halted
    BY <1>9 DEF CloseHands, Handed, Settle, Stopped, OutOfTime, Closed, registry, change, ending
  <2>2. Passed'
    BY <1>4, <1>9, <2>1 DEF Walk
  <2>3. CASE CloseHands
    BY <1>0, <2>1, <2>2, <2>3 DEF CloseHands, CloserMoves, Walk
  <2>4. CASE Handed \/ Settle
    BY <1>0, <2>1, <2>2, <2>4 DEF Handed, Settle, ResumesAt, CloserMoves, Walk
  <2>5. CASE Stopped \/ OutOfTime
    BY <2>1, <2>2, <2>5 DEF Stopped, OutOfTime, change, Walk
  <2>6. CASE Closed
    <3>1. pc[Closer] = "closing readers" /\ todo[Closer] = <<>>
      BY <2>6 DEF Closed, RunsAt
    <3> QED  BY <2>1, <2>2, <3>1 DEF Walk
  <2> QED  BY <1>9, <2>3, <2>4, <2>5, <2>6
<1> QED  BY <1>1, <1>2, <1>3, <1>5, <1>6, <1>7, <1>8, <1>9, ClosesAlone DEF Closing

\* In a window closed once it loaded, the loop of stopAll leaves no plugin behind: all
\* beyond its index have begun their stop or are the readers it stops last.
THEOREM WalkInvariance == Spec => [](Orderly => Walk)
<1>1. Init => (Orderly => Walk)
  <2> SUFFICES ASSUME Init PROVE Walk
    OBVIOUS
  <2>1. pc[Closer] = "idle"
    BY LifecycleAssumption DEF Init, Coroutines
  <2> QED  BY <2>1 DEF Walk, Closes
<1>2. Control /\ Quiet /\ Budget /\ (Orderly => Walk) /\ [Next]_vars => (Orderly => Walk)'
  BY WalkStep, OrderlyBefore
<1> QED  BY <1>1, <1>2, ControlInvariance, QuietInvariance, ClosingFitsBudget, PTL DEF Spec

\* A window closed once it loaded, whose closing waits for no change, begins the stop of
\* every plugin before the runtime goes: what its stops may use together fits the wait.
THEOREM EveryStopBegan == Spec => [](Orderly => EveryStopBegins)
<1>1. Control /\ Budget /\ (Orderly => Walk) => (Orderly => EveryStopBegins)
  <2> SUFFICES ASSUME Control, Budget, Walk, gone, ~late PROVE Started \subseteq halted
    BY DEF EveryStopBegins
  <2>1. pc[Closer] = "done"
    BY DEF Budget
  <2>2. index = 0 /\ todo[Closer] = <<>> /\ Passed
    BY <2>1 DEF Walk, Closes
  <2>3. ASSUME NEW i \in 1..Len(started) PROVE started[i] \in halted
    <3>1. Len(todo[Closer]) = 0
      BY <2>2
    <3>2. ~InSeq(todo[Closer], started[i])
      BY <3>1 DEF InSeq
    <3>3. ~(i <= index)
      BY <2>2
    <3> QED  BY <2>2, <3>2, <3>3 DEF Passed
  <2> QED  BY <2>3 DEF Started
<1> QED  BY <1>1, ControlInvariance, ClosingFitsBudget, WalkInvariance, PTL

-----------------------------------------------------------------------------
(***************************************************************************)
(* What the plugins look like, by where the coroutine is that holds the    *)
(* switch:  between two changes all that the host holds runs; a start is   *)
(* the only half way one, and the stops of a switch go down its list.      *)
(***************************************************************************)

Alone(c) == \A d \in Coroutines : Inside(d) => d = c

Starting(c) == pc[c] \in {"launching", "recovering"}
Halting(c) == pc[c] \in {"disabling", "halting"}

Plain(p) == state[p] \notin {"starting", "stopping"} /\ (p \in Started <=> state[p] = "running")
Around(p) == stopping = {} /\ \A q \in Plugins : q # p => Plain(q)
Calm == stopping = {} /\ \A q \in Plugins : Plain(q)

\* The host holds what runs or stops.
Up == /\ \A p \in Plugins : state[p] # "starting" /\ (p \in Started <=> state[p] \in {"running", "stopping"})
      /\ \A p \in stopping : state[p] = "stopping"

Starts(c) == /\ Around(target[c]) /\ state[target[c]] = "starting"
             /\ target[c] \in Started <=> pc[c] = "launching"

Halts(c) ==
    /\ Up
    /\ \A p \in Plugins : state[p] = "stopping" => p = job[c].id \/ (pc[c] = "halting" /\ p = target[c])
    /\ state[job[c].id] # "running"
    /\ Distinct(todo[c]) /\ \A p \in Plugins : InSeq(todo[c], p) => state[p] = "running"
    /\ pc[c] = "halting" => state[target[c]] = "stopping"

Stops == Up /\ \A p \in Plugins : InSeq(todo[Closer], p) => p \in Started

InPlace(c) ==
    /\ Starting(c) => Starts(c)
    /\ Halting(c) => Halts(c)
    /\ Closes => Stops
    /\ ~Starting(c) /\ ~Halting(c) /\ ~Closes => Calm

Placed == \A c \in Coroutines : Alone(c) => InPlace(c)

LEMMA StartedHas == \A p : p \in Started <=> InSeq(started, p)
BY DEF Started, InSeq

LEMMA StartedHasNext == \A p : p \in Started' <=> InSeq(started', p)
BY DEF Started, InSeq

LEMMA JoinsStarted ==
  ASSUME RegistryOK, NEW p \in Plugins, started' = Append(started, p)
  PROVE  Started' = Started \cup {p}
BY AppendHas, StartedHas, StartedHasNext DEF RegistryOK

LEMMA LeavesStarted ==
  ASSUME RegistryOK, Distinct(started), NEW p \in Plugins, started' = Among(started, Plugins \ {p})
  PROVE  Started' = Started \ {p}
<1>1. started \in Seq(Plugins) /\ \A e : InSeq(started, e) => e \in Plugins
  BY DEF RegistryOK, InSeq
<1>2. Thinned(started', started, Plugins \ {p})
  BY <1>1, AmongThins
<1>3. \A e : InSeq(started', e) <=> InSeq(started, e) /\ e \in Plugins \ {p}
  BY <1>2 DEF Thinned
<1> QED  BY <1>1, <1>3, StartedHas, StartedHasNext

\* The state of one plugin is set.
LEMMA SetsState ==
  ASSUME RegistryOK, NEW p \in Plugins, NEW s, state' = [state EXCEPT ![p] = s]
  PROVE  state'[p] = s /\ \A q \in Plugins : q # p => state'[q] = state[q]
BY DEF RegistryOK

\* A plugin that is past its start or has none ends the exception it was.
LEMMA CalmAgain ==
  ASSUME RegistryOK, NEW p \in Plugins, Around(p), NEW s, state' = [state EXCEPT ![p] = s],
         s \notin {"starting", "stopping"}, stopping' = {},
         \A q \in Plugins : q # p => (q \in Started' <=> q \in Started),
         p \in Started' <=> s = "running"
  PROVE  Calm'
<1>1. state'[p] = s /\ \A q \in Plugins : q # p => state'[q] = state[q]
  BY SetsState
<1>2. \A q \in Plugins : Plain(q)'
  <2> SUFFICES ASSUME NEW q \in Plugins PROVE Plain(q)'
    OBVIOUS
  <2>1. CASE q = p
    BY <1>1, <2>1 DEF Plain
  <2>2. CASE q # p
    BY <1>1, <2>2 DEF Around, Plain
  <2> QED  BY <2>1, <2>2
<1> QED  BY <1>2 DEF Calm

\* A plugin between its tries, which the host does not hold.
LEMMA CalmKeeps ==
  ASSUME RegistryOK, Calm, NEW p \in Plugins, state[p] # "running", NEW s, state' = [state EXCEPT ![p] = s],
         s \notin {"starting", "stopping", "running"}, stopping' = stopping, started' = started
  PROVE  Calm'
<1>1. Around(p) /\ stopping' = {} /\ p \notin Started
  BY DEF Calm, Around, Plain
<1>2. Started' = Started
  BY DEF Started
<1> QED  BY <1>1, <1>2, CalmAgain

LEMMA CalmStays == Calm /\ state' = state /\ stopping' = stopping /\ started' = started => Calm'
BY DEF Calm, Plain, Started

\* A start of a plugin the host does not hold.
LEMMA StartOfInPlace ==
  ASSUME Types, NEW c \in Coroutines, NEW p \in Plugins, NEW again, StartOf(c, p, again),
         Around(p), p \notin Started, stopping' = stopping,
         pc[c] = "recovering" => target[c] = p
  PROVE  \/ pc'[c] = "resolving" /\ Calm'
         \/ pc'[c] = "launching" /\ Starts(c)'
<1> USE DEF Types
<1>0. stopping' = {}
  BY DEF Around
<1>1. CASE StartUnreadable(c, p) \/ StartUnavailable(c, p) \/ StartRefused(c, p)
  <2>1. pc'[c] = "resolving"
    BY <1>1 DEF StartUnreadable, StartUnavailable, StartRefused, PlacesOK
  <2>2. Started' = Started
    BY <1>1 DEF StartUnreadable, StartUnavailable, StartRefused, Started
  <2>3. \E s \in {"refused", "unavailable"} : state' = [state EXCEPT ![p] = s]
    BY <1>1 DEF StartUnreadable, StartUnavailable, StartRefused, Refused
  <2>4. PICK s \in {"refused", "unavailable"} : state' = [state EXCEPT ![p] = s]
    BY <2>3
  <2>5. Calm'
    BY <1>0, <2>2, <2>4, CalmAgain
  <2> QED  BY <2>1, <2>5
<1>2. CASE StartRegistered(c, p, again)
  <2>1. pc'[c] = "launching" /\ target'[c] = p
    BY <1>2 DEF StartRegistered, PlacesOK, WorkOK
  <2>2. Started' = Started \cup {p}
    BY <1>2, JoinsStarted DEF StartRegistered
  <2>3. state'[p] = "starting" /\ \A q \in Plugins : q # p => state'[q] = state[q]
    BY <1>2, SetsState DEF StartRegistered
  <2>4. \A q \in Plugins : q # p => Plain(q)'
    BY <2>2, <2>3 DEF Around, Plain
  <2>5. Starts(c)'
    BY <1>0, <2>1, <2>2, <2>3, <2>4 DEF Starts, Around
  <2> QED  BY <2>1, <2>5
<1> QED  BY <1>1, <1>2 DEF StartOf

LEMMA PassInPlace ==
  ASSUME Types, NEW c \in Coroutines, Calm, Pass(c) \/ TurnedOff(c) \/ Refuse(c) \/ Wait(c)
  PROVE  Calm' /\ pc'[c] = "resolving"
<1> USE DEF Types
<1>1. pc'[c] = "resolving"
  <2>1. pc' = pc
    BY PassShapes DEF Rests
  <2>2. pc[c] = "resolving"
    BY DEF Pass, TurnedOff, Refuse, Wait, RunsAt
  <2> QED  BY <2>1, <2>2
<1>2. CASE Pass(c)
  BY <1>1, <1>2, CalmStays DEF Pass, registry, ending
<1>3. CASE TurnedOff(c) \/ Refuse(c) \/ Wait(c)
  <2> DEFINE p == Head(todo[c])
  <2>1. p \in Plugins
    BY <1>3, TodoTypes DEF TurnedOff, Refuse, Wait
  <2>2. state[p] # "running" /\ stopping' = stopping /\ started' = started
    BY <1>3 DEF TurnedOff, Refuse, Wait, Candidate, ending
  <2>3. \E s \in {"disabled", "refused", "waiting"} : state' = [state EXCEPT ![p] = s]
    BY <1>3 DEF TurnedOff, Refuse, Wait, Refused
  <2> HIDE DEF p
  <2>4. PICK s \in {"disabled", "refused", "waiting"} : state' = [state EXCEPT ![p] = s]
    BY <2>3
  <2>5. Calm'
    BY <2>1, <2>2, <2>4, CalmKeeps
  <2> QED  BY <1>1, <2>5
<1> QED  BY <1>2, <1>3

LEMMA StartInPlace ==
  ASSUME Types, NEW c \in Coroutines, Calm, Start(c)
  PROVE  (pc'[c] = "resolving" /\ Calm') \/ (pc'[c] = "launching" /\ Starts(c)')
<1> DEFINE p == Head(todo[c])
<1>1. p \in Plugins
  BY TodoTypes DEF Start, Types
<1>2. StartOf(c, p, FALSE) /\ state[p] # "running" /\ stopping' = stopping /\ pc[c] # "recovering"
  BY DEF Start, Candidate, RunsAt
<1> HIDE DEF p
<1>3. Around(p) /\ p \notin Started
  BY <1>1, <1>2 DEF Calm, Around, Plain
<1> QED  BY <1>1, <1>2, <1>3, StartOfInPlace

LEMMA LaunchInPlace ==
  ASSUME Types, Distinct(started), NEW c \in Coroutines, Starts(c),
         Launched(c) \/ LaunchFails(c) \/ LaunchMisfits(c) \/ Recovered(c) \/ RecoveryFails(c)
  PROVE  \/ pc'[c] = "resolving" /\ Calm'
         \/ pc'[c] \in {"launching", "recovering"} /\ Starts(c)'
<1> USE DEF Types
<1> DEFINE p == target[c]
<1>1. p \in Plugins
  BY DEF Launched, LaunchFails, LaunchMisfits, Recovered, RecoveryFails, ResumesAt, WorkOK, Awaits
<1>2. Around(p) /\ state[p] = "starting" /\ (p \in Started <=> pc[c] = "launching") /\ stopping = {}
  BY DEF Starts, Around
<1> HIDE DEF p
<1>3. CASE Launched(c)
  <2>1. pc[c] = "launching" /\ pc'[c] = "resolving" /\ state' = [state EXCEPT ![p] = "running"] /\ stopping' = stopping /\ started' = started
    BY <1>3 DEF Launched, ResumesAt, ending, p, PlacesOK
  <2>2. Started' = Started
    BY <2>1 DEF Started
  <2>3. Calm'
    BY ZenonT(30), <1>1, <1>2, <2>1, <2>2, CalmAgain
  <2> QED  BY <2>1, <2>3
<1>4. CASE LaunchFails(c)
  <2>1. pc'[c] = "resolving" /\ state' = [state EXCEPT ![p] = "refused"] /\ stopping' = {}
    BY <1>2, <1>4 DEF LaunchFails, Refused, Withdrawn, p, PlacesOK
  <2>2. Started' = Started \ {p}
    BY <1>1, <1>4, LeavesStarted DEF LaunchFails, Withdrawn, p
  <2>3. Calm'
    BY <1>1, <1>2, <2>1, <2>2, CalmAgain
  <2> QED  BY <2>1, <2>3
<1>5. CASE LaunchMisfits(c)
  <2>1. pc'[c] = "recovering" /\ state' = state /\ stopping' = {} /\ target'[c] = p
    BY <1>2, <1>5 DEF LaunchMisfits, Withdrawn, p, PlacesOK
  <2>2. Started' = Started \ {p}
    BY <1>1, <1>5, LeavesStarted DEF LaunchMisfits, Withdrawn, p
  <2>3. \A q \in Plugins : q # p => Plain(q)'
    BY <1>2, <2>1, <2>2 DEF Around, Plain
  <2>4. Starts(c)'
    BY <1>2, <2>1, <2>2, <2>3 DEF Starts, Around
  <2> QED  BY <2>1, <2>4
<1>6. CASE Recovered(c)
  <2>1. pc[c] = "recovering" /\ StartOf(c, p, TRUE) /\ stopping' = stopping
    BY <1>6 DEF Recovered, ResumesAt, p
  <2> QED  BY <1>1, <1>2, <2>1, StartOfInPlace DEF p
<1>7. CASE RecoveryFails(c)
  <2>1. pc[c] = "recovering" /\ pc'[c] = "resolving" /\ state' = [state EXCEPT ![p] = "refused"] /\ stopping' = stopping /\ started' = started
    BY <1>7 DEF RecoveryFails, Refused, ResumesAt, ending, p, PlacesOK
  <2>2. Started' = Started
    BY <2>1 DEF Started
  <2>3. Calm'
    BY <1>1, <1>2, <2>1, <2>2, CalmAgain
  <2> QED  BY <2>1, <2>3
<1> QED  BY <1>3, <1>4, <1>5, <1>6, <1>7

\* The switches that begin a pass or leave the plugins as they are.
LEMMA SwitchInPlace ==
  ASSUME Types, NEW c \in Coroutines, Calm, job[c].id \in Plugins,
         \/ Resolved(c) \/ BeginNothing(c) \/ ErasedOnly(c) \/ BeginErase(c) \/ BeginEnable(c) \/ Erased(c)
  PROVE  Calm'
<1> USE DEF Types
<1> DEFINE p == job[c].id
<1>1. CASE Resolved(c) \/ BeginNothing(c) \/ ErasedOnly(c) \/ BeginErase(c)
  BY <1>1, CalmStays DEF Resolved, BeginNothing, ErasedOnly, BeginErase, registry, ending
<1>2. CASE BeginEnable(c)
  <2>1. /\ state[p] # "running" /\ stopping' = stopping /\ started' = started
        /\ \E s \in {"waiting", "refused"} : state' = [state EXCEPT ![p] = s]
    BY <1>2 DEF BeginEnable, ending
  <2>2. PICK s \in {"waiting", "refused"} : state' = [state EXCEPT ![p] = s]
    BY <2>1
  <2> QED  BY <2>1, <2>2, CalmKeeps
<1>3. CASE Erased(c)
  <2>1. p \notin Started /\ stopping' = stopping /\ started' = started
    BY <1>3 DEF Erased, ending
  <2>2. state[p] # "running"
    BY <2>1 DEF Calm, Plain
  <2>3. state' = state \/ state' = [state EXCEPT ![p] = "refused"]
    BY <1>3 DEF Erased, RegistryOK
  <2> QED  BY <2>1, <2>2, <2>3, CalmKeeps, CalmStays
<1> QED  BY <1>1, <1>2, <1>3

LEMMA ResolvedInPlace ==
  ASSUME Types, NEW c \in Coroutines, Calm, Resolved(c)
  PROVE  Calm'
BY CalmStays DEF Resolved, registry, ending

\* Reversed, a list has the same members, once each.
LEMMA ReverseKeeps ==
  ASSUME NEW A, NEW s \in Seq(A)
  PROVE  /\ \A e : InSeq(Reverse(s), e) <=> InSeq(s, e)
         /\ Distinct(s) => Distinct(Reverse(s))
         /\ \A d, e : Earlier(Reverse(s), d, e) <=> Earlier(s, e, d)
<1> DEFINE n == Len(s)
           r == Reverse(s)
<1>1. n \in Nat /\ Len(r) = n /\ \A i \in 1..n : r[i] = s[n - i + 1]
  BY DEF Reverse
<1> HIDE DEF n, r
<1>2. \A i \in 1..n : n - i + 1 \in 1..n /\ n - (n - i + 1) + 1 = i
  BY <1>1
<1>3. \A i \in 1..n : s[i] = r[n - i + 1]
  BY <1>1, <1>2
<1>4. ASSUME NEW e PROVE InSeq(r, e) <=> InSeq(s, e)
  <2>1. ASSUME NEW i \in 1..n, r[i] = e PROVE \E j \in 1..n : s[j] = e
    BY <1>1, <1>2, <2>1
  <2>2. ASSUME NEW i \in 1..n, s[i] = e PROVE \E j \in 1..n : r[j] = e
    BY <1>2, <1>3, <2>2
  <2> QED  BY <1>1, <2>1, <2>2 DEF InSeq, n
<1>5. ASSUME Distinct(s) PROVE Distinct(r)
  <2> SUFFICES ASSUME NEW i \in 1..n, NEW j \in 1..n, r[i] = r[j] PROVE i = j
    BY <1>1 DEF Distinct
  <2>1. n - i + 1 = n - j + 1
    BY <1>1, <1>2, <1>5 DEF Distinct, n
  <2>2. i \in Int /\ j \in Int /\ n \in Int
    BY <1>1
  <2> QED  BY <2>1, <2>2
<1>6. \A i, j \in 1..n : i < j => n - j + 1 < n - i + 1
  <2> SUFFICES ASSUME NEW i \in 1..n, NEW j \in 1..n, i < j PROVE n - j + 1 < n - i + 1
    OBVIOUS
  <2>1. i \in Int /\ j \in Int /\ n \in Int
    BY <1>1
  <2> QED  BY <2>1
<1>7. ASSUME NEW d, NEW e PROVE Earlier(r, d, e) <=> Earlier(s, e, d)
  <2>1. ASSUME NEW i \in 1..n, NEW j \in 1..n, i < j, r[i] = d, r[j] = e PROVE Earlier(s, e, d)
    <3>1. s[n - j + 1] = e /\ s[n - i + 1] = d /\ n - j + 1 < n - i + 1
      BY <1>1, <1>6, <2>1
    <3> QED  BY <1>2, <3>1 DEF Earlier, n
  <2>2. ASSUME NEW i \in 1..n, NEW j \in 1..n, i < j, s[i] = e, s[j] = d PROVE Earlier(r, d, e)
    <3>1. r[n - j + 1] = d /\ r[n - i + 1] = e /\ n - j + 1 < n - i + 1
      BY <1>3, <1>6, <2>2
    <3> QED  BY <1>1, <1>2, <3>1 DEF Earlier
  <2> QED  BY <1>1, <2>1, <2>2 DEF Earlier, n
<1> QED  BY <1>4, <1>5, <1>7 DEF r

\* The plugins that rely on one are of those that started, and it is none of them.
LEMMA DependentsHave ==
  ASSUME Types, Distinct(started), NEW p \in Plugins
  PROVE  Distinct(Dependents(p)) /\ \A e : InSeq(Dependents(p), e) => e \in Started /\ e # p
<1> DEFINE found == FoldLeft(LAMBDA f, q : IF Needs(def[q]) \cap f # {} THEN f \cup {q} ELSE f, {p}, started)
           part == Among(started, found \ {p})
<1>1. Dependents(p) = Reverse(part)
  BY DEF Dependents
<1> HIDE DEF found
<1>2. started \in Seq(Plugins)
  BY DEF Types, RegistryOK
<1>3. part \in Seq(Plugins) /\ Thinned(part, started, found \ {p})
  BY <1>2, AmongThins
<1> HIDE DEF part
<1>4. Distinct(part) /\ \A e : InSeq(part, e) => InSeq(started, e) /\ e # p
  BY <1>3 DEF Thinned
<1>5. /\ \A e : InSeq(Reverse(part), e) <=> InSeq(part, e)
      /\ Distinct(part) => Distinct(Reverse(part))
  BY <1>3, ReverseKeeps
<1> QED  BY <1>1, <1>4, <1>5, StartedHas

LEMMA TailDistinct ==
  ASSUME NEW A, NEW s \in Seq(A), s # <<>>, Distinct(s)
  PROVE  Distinct(Tail(s)) /\ ~InSeq(Tail(s), Head(s))
<1> DEFINE n == Len(s)
           t == Tail(s)
<1>1. Len(t) = n - 1 /\ n \in Nat /\ n > 0 /\ Head(s) = s[1]
  OBVIOUS
<1>2. \A i \in 1..n - 1 : t[i] = s[i + 1]
  BY <1>1
<1>3. \A i, j \in 1..n : s[i] = s[j] => i = j
  BY DEF Distinct
<1> HIDE DEF t, n
<1>4. \A i \in 1..n - 1 : i + 1 \in 1..n /\ i + 1 # 1
  BY <1>1
<1>5. 1 \in 1..n
  BY <1>1
<1>6. ASSUME NEW i \in 1..n - 1, NEW j \in 1..n - 1, t[i] = t[j] PROVE i = j
  <2>1. i + 1 = j + 1
    BY <1>2, <1>3, <1>4, <1>6
  <2>2. i \in Int /\ j \in Int
    BY <1>1
  <2> QED  BY <2>1, <2>2
<1>7. ASSUME NEW i \in 1..n - 1 PROVE t[i] # Head(s)
  BY <1>1, <1>2, <1>3, <1>4, <1>5
<1> QED  BY <1>1, <1>6, <1>7 DEF Distinct, InSeq, t

LEMMA HaltsInPlace ==
  ASSUME Types, Distinct(started), NEW c \in Coroutines, job[c].id \in Plugins,
         pc[c] = "begin" => Calm, Halting(c) => Halts(c),
         BeginDisable(c) \/ StopDependent(c) \/ StopItself(c) \/ Halt(c) \/ Disabled(c)
  PROVE  (pc'[c] \in {"disabling", "halting"} /\ Halts(c)') \/ (pc'[c] = "resolving" /\ Calm')
<1> DEFINE p == job[c].id
<1>0. /\ RegistryOK /\ p \in Plugins /\ todo[c] \in Seq(Plugins) /\ job' = job
      /\ (\A q : pc' = [pc EXCEPT ![c] = q] => pc'[c] = q)
      /\ (\A s : todo' = [todo EXCEPT ![c] = s] => todo'[c] = s)
      /\ (\A q : target' = [target EXCEPT ![c] = q] => target'[c] = q)
  BY DEF BeginDisable, StopDependent, StopItself, Halt, Disabled, Types, WorkOK, PlacesOK
<1>1. CASE BeginDisable(c)
  <2>1. Calm /\ pc[c] = "begin"
    BY <1>1 DEF BeginDisable, Begins, RunsAt
  <2>2. pc'[c] = "disabling" /\ todo'[c] = Dependents(p) /\ started' = started /\ stopping' = stopping
    BY <1>0, <1>1 DEF BeginDisable, ending
  <2>3. state' = [state EXCEPT ![p] = IF @ = "running" THEN "stopping" ELSE @]
    BY <1>1 DEF BeginDisable
  <2>4. /\ state'[p] = IF state[p] = "running" THEN "stopping" ELSE state[p]
        /\ \A q \in Plugins : q # p => state'[q] = state[q]
    BY <1>0, <2>3 DEF RegistryOK
  <2>5. Started' = Started
    BY <2>2 DEF Started
  <2>6. \A q \in Plugins : state[q] \notin {"starting", "stopping"} /\ (q \in Started <=> state[q] = "running")
    BY <2>1 DEF Calm, Plain
  <2>7. Distinct(todo'[c]) /\ \A e : InSeq(todo'[c], e) => e \in Started /\ e # p
    BY <1>0, <2>2, DependentsHave
  <2> HIDE DEF p
  <2>8. Up'
    BY <2>1, <2>2, <2>4, <2>5, <2>6 DEF Up, Calm
  <2>9. \A q \in Plugins : state'[q] = "stopping" => q = p
    BY <2>4, <2>6
  <2>10. state'[p] # "running" /\ \A q \in Plugins : InSeq(todo'[c], q) => state'[q] = "running"
    BY <1>0, <2>4, <2>6, <2>7
  <2> QED  BY <1>0, <2>2, <2>7, <2>8, <2>9, <2>10 DEF Halts, p
<1>2. ASSUME NEW q \in Plugins, Stop(c, q, "halting"), Halts(c), pc[c] = "disabling",
             q = p \/ (q # p /\ state[q] = "running"), state[q] \in {"running", "stopping"},
             started' = started, Distinct(todo'[c]),
             \A r \in Plugins : InSeq(todo'[c], r) => state[r] = "running" /\ r # q
      PROVE  pc'[c] = "halting" /\ Halts(c)'
  <2>1. pc'[c] = "halting" /\ target'[c] = q /\ stopping' = stopping \cup {q}
    BY <1>0, <1>2 DEF Stop
  <2>2. state'[q] = "stopping" /\ \A r \in Plugins : r # q => state'[r] = state[r]
    BY <1>0, <1>2, SetsState DEF Stop
  <2>3. Started' = Started
    BY <1>2 DEF Started
  <2>4. /\ Up /\ state[p] # "running"
        /\ \A r \in Plugins : state[r] = "stopping" => r = p
    BY <1>2 DEF Halts
  <2> HIDE DEF p
  <2>5. Up'
    <3>1. \A r \in Plugins : state'[r] # "starting" /\ (r \in Started' <=> state'[r] \in {"running", "stopping"})
      BY <1>2, <2>2, <2>3, <2>4 DEF Up
    <3>2. \A r \in stopping' : state'[r] = "stopping"
      <4>1. stopping \subseteq Plugins
        BY DEF Types, EndingOK
      <4> QED  BY <2>1, <2>2, <2>4, <4>1 DEF Up
    <3> QED  BY <3>1, <3>2 DEF Up
  <2>6. \A r \in Plugins : state'[r] = "stopping" => r = p \/ r = q
    BY <2>2, <2>4
  <2>7. state'[p] # "running" /\ \A r \in Plugins : InSeq(todo'[c], r) => state'[r] = "running"
    BY <1>0, <1>2, <2>2, <2>4
  <2> QED  BY <1>0, <1>2, <2>1, <2>2, <2>5, <2>6, <2>7 DEF Halts, p
<1>3. CASE StopDependent(c)
  <2>1. pc[c] = "disabling" /\ todo[c] # <<>> /\ Stop(c, Head(todo[c]), "halting") /\ started' = started
    BY <1>3 DEF StopDependent, RunsAt
  <2>2. todo'[c] = Tail(todo[c])
    BY <1>0, <1>3 DEF StopDependent, Visit
  <2>3. Halts(c)
    BY <2>1 DEF Halting
  <2> DEFINE q == Head(todo[c])
  <2>4. q \in Plugins /\ InSeq(todo[c], q)
    BY <1>0, <2>1, TailHas
  <2>5. Distinct(todo'[c]) /\ ~InSeq(todo'[c], q) /\ \A e : InSeq(todo'[c], e) => InSeq(todo[c], e)
    BY <1>0, <2>1, <2>2, <2>3, TailHas, TailDistinct DEF Halts
  <2>6. /\ state[q] = "running" /\ q # p
        /\ \A r \in Plugins : InSeq(todo'[c], r) => state[r] = "running" /\ r # q
    BY <2>3, <2>4, <2>5 DEF Halts
  <2> HIDE DEF q, p
  <2> QED  BY <1>2, <2>1, <2>3, <2>4, <2>5, <2>6 DEF q
<1>4. CASE StopItself(c)
  <2>1. pc[c] = "disabling" /\ todo[c] = <<>> /\ Stop(c, p, "halting") /\ started' = started /\ todo' = todo /\ state[p] = "stopping"
    BY <1>4 DEF StopItself, RunsAt
  <2>2. Halts(c)
    BY <2>1 DEF Halting
  <2>3. Distinct(todo'[c]) /\ \A r : ~InSeq(todo'[c], r)
    <3>1. Len(todo'[c]) = 0
      BY <2>1
    <3> QED  BY <3>1 DEF InSeq, Distinct
  <2> QED  BY <1>0, <1>2, <2>1, <2>2, <2>3
<1>5. CASE Halt(c)
  <2> DEFINE q == target[c]
  <2>1. pc[c] = "halting" /\ pc'[c] = "disabling" /\ todo' = todo /\ stopping' = stopping \ {q} /\ q \in Plugins
    BY <1>0, <1>5 DEF Halt, Withdrawn, ResumesAt, Types, WorkOK, Awaits
  <2>2. state' = [state EXCEPT ![q] = IF q = p THEN "disabled" ELSE "waiting"]
    BY <1>5 DEF Halt
  <2>3. Halts(c) /\ state[q] = "stopping"
    BY <2>1 DEF Halting, Halts
  <2>4. Started' = Started \ {q}
    BY <1>0, <1>5, <2>1, LeavesStarted DEF Halt, Withdrawn
  <2> HIDE DEF q
  <2>5. state'[q] \in {"disabled", "waiting"} /\ \A r \in Plugins : r # q => state'[r] = state[r]
    BY <1>0, <2>1, <2>2 DEF RegistryOK
  <2>6. /\ Up /\ state[p] # "running" /\ Distinct(todo[c])
        /\ (\A r \in Plugins : InSeq(todo[c], r) => state[r] = "running")
        /\ \A r \in Plugins : state[r] = "stopping" => r = p \/ r = q
    BY <2>3 DEF Halts, q
  <2> HIDE DEF p
  <2>7. Up'
    <3>1. \A r \in Plugins : state'[r] # "starting" /\ (r \in Started' <=> state'[r] \in {"running", "stopping"})
      BY <2>1, <2>4, <2>5, <2>6 DEF Up
    <3>2. \A r \in stopping' : state'[r] = "stopping"
      <4>1. stopping \subseteq Plugins
        BY DEF Types, EndingOK
      <4> QED  BY <2>1, <2>5, <2>6, <4>1 DEF Up
    <3> QED  BY <3>1, <3>2 DEF Up
  <2>8. \A r \in Plugins : state'[r] = "stopping" => r = p
    BY <2>1, <2>5, <2>6
  <2>9. state'[p] # "running" /\ \A r \in Plugins : InSeq(todo'[c], r) => state'[r] = "running"
    BY <1>0, <2>1, <2>3, <2>5, <2>6
  <2> QED  BY <1>0, <2>1, <2>6, <2>7, <2>8, <2>9 DEF Halts, p
<1>6. CASE Disabled(c)
  <2>1. /\ pc[c] = "disabling" /\ pc'[c] = "resolving" /\ stopping' = stopping /\ started' = started
        /\ state[p] # "stopping" /\ state' = [state EXCEPT ![p] = "disabled"]
    BY <1>0, <1>6 DEF Disabled, RunsAt, ending
  <2>2. Halts(c)
    BY <2>1 DEF Halting
  <2>3. Up /\ state[p] # "running" /\ \A r \in Plugins : state[r] # "stopping"
    BY <2>1, <2>2 DEF Halts
  <2>4. Calm
    <3>1. stopping \subseteq Plugins
      BY DEF Types, EndingOK
    <3>2. stopping = {}
      BY <2>3, <3>1 DEF Up
    <3> QED  BY <2>3, <3>2 DEF Up, Calm, Plain
  <2>5. Calm'
    <3>1. RegistryOK /\ p \in Plugins
      BY <1>0
    <3> HIDE DEF p
    <3> QED  BY <2>1, <2>3, <2>4, <3>1, CalmKeeps
  <2> QED  BY <2>1, <2>5
<1> QED  BY <1>1, <1>3, <1>4, <1>5, <1>6

\* A step of one coroutine leaves the others where they are, but for the one it
\* releases from the queue, and what they work on.
Bystanders(c) ==
    /\ \A d \in Coroutines : d # c => pc'[d] = pc[d] \/ (pc[d] = "queued" /\ pc'[d] = "woken")
    /\ \A d \in Coroutines : d # c => todo'[d] = todo[d] /\ target'[d] = target[d]
    /\ job' = job

LEMMA OthersStay ==
  ASSUME Types, Lock, NEW c \in Coroutines, Step(c) \/ Launch(c)
  PROVE  Bystanders(c)
<1> USE DEF Types
<1>1. ASSUME job' = job, \E q : pc' = [pc EXCEPT ![c] = q],
             todo' = todo \/ \E s : todo' = [todo EXCEPT ![c] = s],
             target' = target \/ \E q : target' = [target EXCEPT ![c] = q]
      PROVE  Bystanders(c)
  BY <1>1 DEF Bystanders, PlacesOK, WorkOK
<1>2. ASSUME job' = job, todo' = todo, target' = target, Leave(c) \/ Enter(c)
      PROVE  Bystanders(c)
  <2>1. CASE waiting = <<>> \/ Enter(c)
    <3>1. \E q : pc' = [pc EXCEPT ![c] = q]
      BY <1>2, <2>1 DEF Leave, Enter
    <3> QED  BY <1>1, <1>2, <3>1
  <2>2. CASE waiting # <<>> /\ Leave(c)
    <3> DEFINE first == Head(waiting)
    <3>1. pc' = [pc EXCEPT ![c] = "done", ![first] = "woken"]
      BY <2>2 DEF Leave
    <3>2. first \in Coroutines /\ pc[first] = "queued"
      BY <2>2, QueueHead DEF Coroutines
    <3> HIDE DEF first
    <3>3. \A d \in Coroutines : d # c => pc'[d] = IF d = first THEN "woken" ELSE pc[d]
      BY <3>1, <3>2 DEF PlacesOK
    <3> QED  BY <3>2, <3>3, <1>2 DEF Bystanders
  <2> QED  BY <1>2, <2>1, <2>2
<1>3. CASE Wake(c) \/ (Resolved(c) /\ c # Boot) \/ BeginNothing(c) \/ ErasedOnly(c)
  BY <1>2, <1>3 DEF Wake, Resolved, BeginNothing, ErasedOnly
<1>4. CASE Pass(c) \/ TurnedOff(c) \/ Refuse(c) \/ Wait(c)
  <2>1. pc' = pc
    BY <1>4 DEF Pass, TurnedOff, Refuse, Wait
  <2>2. job' = job /\ target' = target /\ todo' = [todo EXCEPT ![c] = Tail(@)]
    BY <1>4 DEF Pass, TurnedOff, Refuse, Wait, Visit
  <2> QED  BY <2>1, <2>2 DEF Bystanders, WorkOK
<1>5. CASE (Resolved(c) /\ c = Boot) \/ RecoveryFails(c) \/ Launch(c)
  <2>1. \E q : pc' = [pc EXCEPT ![c] = q]
    BY <1>5 DEF Resolved, RecoveryFails, Launch, Launched, LaunchFails, LaunchMisfits
  <2>2. job' = job /\ target' = target /\ todo' = todo
    BY <1>5 DEF Resolved, RecoveryFails, Launch, Launched, LaunchFails, LaunchMisfits
  <2> QED  BY <1>1, <2>1, <2>2
<1>6. CASE Start(c) \/ Recovered(c)
  <2>1. PICK p, again : StartOf(c, p, again)
    BY <1>6 DEF Start, Recovered
  <2>2. \E q : pc' = [pc EXCEPT ![c] = q]
    BY <2>1, StartOfShapes
  <2>3. target' = target \/ \E q : target' = [target EXCEPT ![c] = q]
    BY <2>1 DEF StartOf, StartUnreadable, StartUnavailable, StartRefused, StartRegistered
  <2>4. job' = job
    BY <1>6 DEF Start, Recovered
  <2>5. todo' = todo \/ \E s : todo' = [todo EXCEPT ![c] = s]
    BY <1>6 DEF Start, Recovered, Visit
  <2> QED  BY <1>1, <2>2, <2>3, <2>4, <2>5
<1>7. CASE BeginDisable(c) \/ StopDependent(c) \/ StopItself(c) \/ Halt(c) \/ Disabled(c)
           \/ BeginEnable(c) \/ BeginErase(c) \/ Erased(c)
  <2>1. \E q : pc' = [pc EXCEPT ![c] = q]
    BY <1>7 DEF BeginDisable, StopDependent, StopItself, Stop, Halt, Disabled, BeginEnable, BeginErase, Erased
  <2>2. todo' = todo \/ \E s : todo' = [todo EXCEPT ![c] = s]
    BY <1>7 DEF BeginDisable, StopDependent, StopItself, Visit, Halt, Disabled, BeginEnable, BeginErase, Erased, Resolve, registry
  <2>3. job' = job /\ (target' = target \/ \E q : target' = [target EXCEPT ![c] = q])
    BY <1>7 DEF BeginDisable, StopDependent, StopItself, Stop, Halt, Disabled, BeginEnable, BeginErase, Erased
  <2> QED  BY <1>1, <2>1, <2>2, <2>3
<1> QED  BY <1>3, <1>4, <1>5, <1>6, <1>7 DEF Step

\* A coroutine that holds the switch: what it does keeps everything in its place.
LEMMA ActKeepsPlace ==
  ASSUME Control, Distinct(started), NEW c \in Coroutines, pc[c] \in Changes, ~Closes, InPlace(c),
         Step(c) \/ Launch(c), ~Wake(c)
  PROVE  \/ pc'[c] \in {"launching", "recovering"} /\ Starts(c)'
         \/ pc'[c] \in {"disabling", "halting"} /\ Halts(c)'
         \/ pc'[c] \notin {"launching", "recovering", "disabling", "halting"} /\ Calm'
<1>0. Types
  BY DEF Control
<1>a. Control'
  BY StepControl DEF Next
<1>1. pc[c] \in {"begin", "resolving", "erasing"} => Calm
  BY DEF InPlace, Starting, Halting
<1>2. pc[c] \in {"begin", "disabling", "halting", "erasing"} /\ job[c].kind # "none" => job[c].id \in Plugins
  <2> SUFFICES ASSUME pc[c] \in {"begin", "disabling", "halting", "erasing"}, job[c].kind # "none" PROVE job[c].id \in Plugins
    OBVIOUS
  <2>1. c \in Clicks
    BY <1>0, WhoIsWhere, LifecycleAssumption DEF Types, WorkOK, Coroutines
  <2> QED  BY <1>0, <2>1 DEF Types, WorkOK
<1>3. pc[c] \in {"disabling", "halting", "erasing"} => job[c].id \in Plugins
  <2> SUFFICES ASSUME pc[c] \in {"disabling", "halting", "erasing"} PROVE job[c].id \in Plugins
    OBVIOUS
  <2>1. c \in Clicks
    BY <1>0, WhoIsWhere DEF Types
  <2> QED  BY <1>0, <2>1 DEF Types, WorkOK
<1>4. CASE Pass(c) \/ TurnedOff(c) \/ Refuse(c) \/ Wait(c)
  <2>1. pc[c] = "resolving"
    BY <1>4 DEF Pass, TurnedOff, Refuse, Wait, RunsAt
  <2> QED  BY <1>0, <1>1, <1>4, <2>1, PassInPlace
<1>5. CASE Start(c)
  <2>1. pc[c] = "resolving"
    BY <1>5 DEF Start, RunsAt
  <2> QED  BY <1>0, <1>1, <1>5, <2>1, StartInPlace
<1>6. CASE Launch(c) \/ Recovered(c) \/ RecoveryFails(c)
  <2>1. Starting(c)
    BY <1>6 DEF Launch, Launched, LaunchFails, LaunchMisfits, Recovered, RecoveryFails, ResumesAt, Starting
  <2>2. Starts(c)
    BY <2>1 DEF InPlace
  <2> QED  BY <1>0, <1>6, <2>2, LaunchInPlace DEF Launch
<1>7. CASE BeginDisable(c) \/ StopDependent(c) \/ StopItself(c) \/ Halt(c) \/ Disabled(c)
  <2>1. pc[c] \in {"disabling", "halting"} \/ (pc[c] = "begin" /\ job[c].kind # "none")
    BY <1>7 DEF BeginDisable, StopDependent, StopItself, Halt, Disabled, Begins, RunsAt, ResumesAt
  <2>2. job[c].id \in Plugins
    BY <1>2, <1>3, <2>1
  <2>3. Halting(c) => Halts(c)
    BY DEF InPlace
  <2> QED  BY <1>0, <1>1, <1>7, <2>2, <2>3, HaltsInPlace
<1>8. CASE Resolved(c) \/ BeginNothing(c) \/ ErasedOnly(c) \/ BeginErase(c) \/ BeginEnable(c) \/ Erased(c)
  <2>1. pc[c] \in {"resolving", "erasing"} \/ (pc[c] = "begin" /\ job[c].kind # "none")
    BY <1>8 DEF Resolved, BeginNothing, ErasedOnly, BeginErase, BeginEnable, Erased, Begins, RunsAt, ResumesAt
  <2>2. Calm'
    <3>1. CASE Resolved(c)
      BY <1>0, <1>1, <2>1, <3>1, ResolvedInPlace DEF Resolved, RunsAt
    <3>2. CASE ~Resolved(c)
      <4>1. pc[c] # "resolving"
        BY <1>8, <3>2 DEF BeginNothing, ErasedOnly, BeginErase, BeginEnable, Erased, Begins, RunsAt, ResumesAt
      <4>2. job[c].id \in Plugins
        BY <1>2, <1>3, <2>1, <4>1
      <4> QED  BY <1>0, <1>1, <1>8, <2>1, <4>2, SwitchInPlace
    <3> QED  BY <3>1, <3>2
  <2>3. pc'[c] \in {"done", "erasing", "resolving"}
    <3>1. CASE Resolved(c) /\ c = Boot
      BY <1>0, <3>1 DEF Resolved, Types, PlacesOK
    <3>2. CASE Leave(c)
      <4>1. CASE waiting = <<>>
        BY <1>0, <3>2, <4>1 DEF Leave, Types, PlacesOK
      <4>2. CASE waiting # <<>>
        <5>1. pc' = [pc EXCEPT ![c] = "done", ![Head(waiting)] = "woken"]
          BY <3>2, <4>2 DEF Leave
        <5>2. pc[Head(waiting)] = "queued" /\ Head(waiting) \in Coroutines
          BY <1>0, <4>2, QueueHead DEF Control, Types, Coroutines
        <5>3. Head(waiting) # c
          BY <5>2 DEF Changes
        <5> QED  BY <1>0, <5>1, <5>2, <5>3 DEF Types, PlacesOK
      <4> QED  BY <4>1, <4>2
    <3>3. CASE BeginErase(c) \/ BeginEnable(c) \/ Erased(c)
      BY <1>0, <3>3 DEF BeginErase, BeginEnable, Erased, Types, PlacesOK
    <3> QED  BY <1>8, <3>1, <3>2, <3>3 DEF Resolved, BeginNothing, ErasedOnly
  <2> QED  BY <2>2, <2>3
<1> QED  BY <1>4, <1>5, <1>6, <1>7, <1>8 DEF Step

\* A call of exclusive() changes no plugin.
LEMMA CallKeepsPlace ==
  ASSUME Control, Orderly, Placed, NEW c \in Clicks \cup {Closer}, turn = Nobody, pc[c] \in {"idle", "woken"}, Enter(c),
         pc[c] = "idle" => Booted,
         UNCHANGED <<registry, todo, target, stopping>>, \A d \in Coroutines : d # c => job'[d] = job[d]
  PROVE  Placed'
<1> USE DEF Control
<1>0. c \in Coroutines /\ PlacesOK /\ Boot \in Coroutines /\ Closer \in Coroutines
  BY DEF Coroutines, Types
<1>1. /\ pc'[c] \in {"queued", "begin"} /\ (pc'[c] = "begin" => ~busy)
      /\ \A d \in Coroutines : d # c => pc'[d] = pc[d]
  BY <1>0 DEF Enter, PlacesOK
<1>2. state' = state /\ started' = started /\ stopping' = stopping /\ todo' = todo /\ target' = target
  BY DEF registry
<1>3. Started' = Started
  BY <1>2 DEF Started
<1>4. (Calm => Calm') /\ (Stops => Stops') /\ (Closes <=> Closes')
  <2>1. Calm => Calm'
    BY <1>2, CalmStays
  <2>2. Stops => Stops'
    BY <1>2, <1>3 DEF Stops, Up
  <2>3. Closes <=> Closes'
    BY <1>0, <1>1 DEF Closes
  <2> QED  BY <2>1, <2>2, <2>3
<1>5. SUFFICES ASSUME NEW d \in Coroutines, Alone(d)' PROVE InPlace(d)'
  BY DEF Placed
<1>6. Alone(d)
  <2> SUFFICES ASSUME NEW e \in Coroutines, Inside(e) PROVE e = d
    BY DEF Alone
  <2>1. e # c
    BY DEF Inside, Outside
  <2>2. Inside(e)'
    BY <1>1, <2>1 DEF Inside
  <2> QED  BY <1>5, <2>2 DEF Alone
<1>7. InPlace(d)
  BY <1>6 DEF Placed
<1>8. CASE d = c
  <2>1. ~Starting(d) /\ ~Halting(d) /\ ~Starting(d)' /\ ~Halting(d)'
    BY <1>1, <1>8 DEF Starting, Halting
  <2> QED  BY <1>4, <1>7, <2>1 DEF InPlace
<1>9. CASE d # c
  <2>1. pc'[d] = pc[d] /\ job'[d] = job[d]
    BY <1>1, <1>9
  <2>2. (Starting(d) <=> Starting(d)') /\ (Halting(d) <=> Halting(d)')
    BY <2>1 DEF Starting, Halting
  <2>3. Starts(d) => Starts(d)'
    BY <1>2, <1>3, <2>1 DEF Starts, Around, Plain
  <2>4. Halts(d) => Halts(d)'
    BY <1>2, <1>3, <2>1 DEF Halts, Up
  <2> QED  BY <1>4, <1>7, <2>2, <2>3, <2>4 DEF InPlace
<1> QED  BY <1>8, <1>9

\* What stopAll stops is started.
LEMMA ClosingKeepsPlace ==
  ASSUME Control, Quiet, Budget, Orderly, Placed,
         \/ BeginClose \/ CloseReaderLater \/ CloseNext \/ CloseHands \/ Handed \/ CloseReader \/ Settle \/ Closed
  PROVE  Stops' /\ Closes' /\ pc[Closer] \in Runnings \cup Awaits
         /\ (\A d \in Coroutines : d # Closer => pc'[d] = pc[d] \/ (pc[d] = "queued" /\ pc'[d] = "woken"))
<1> USE DEF Control
<1>0. CloserTypes /\ CloserMoves /\ Types
  BY TypesOfCloser
<1>a. todo[Closer] \in Seq(Plugins) /\ RegistryOK /\ stopping \subseteq Plugins /\ Closer \in Coroutines /\ PlacesOK
  BY <1>0 DEF CloserTypes, Types, EndingOK
<1>b. \A i \in 1..Len(started) : started[i] \in Plugins /\ started[i] \in Started
  BY <1>a DEF RegistryOK, Started
<1>1. pc[Closer] \in {"begin", "closing", "settling", "handing", "closing readers", "settling reader"}
  BY DEF BeginClose, CloseReaderLater, CloseNext, CloseHands, Handed, CloseReader, Settle, Closed, RunsAt, ResumesAt
<1>2. Alone(Closer) /\ ~Starting(Closer) /\ ~Halting(Closer)
  BY <1>a, <1>1, OneInside DEF Alone, Inside, Outside, Starting, Halting
<1>3. InPlace(Closer)
  BY <1>a, <1>2 DEF Placed
<1>4. Stops
  <2>1. CASE Closes
    BY <1>3, <2>1 DEF InPlace
  <2>2. CASE ~Closes
    <3>1. Calm
      BY <1>2, <1>3, <2>2 DEF InPlace
    <3>2. todo[Closer] = <<>>
      BY <1>1, <2>2 DEF Closes, Budget
    <3>3. \A p : ~InSeq(todo[Closer], p)
      <4>1. Len(todo[Closer]) = 0
        BY <3>2
      <4> QED  BY <4>1 DEF InSeq
    <3> QED  BY <3>1, <3>3 DEF Stops, Calm, Plain, Up
  <2> QED  BY <2>1, <2>2
<1>5. ASSUME NEW p \in Plugins, p \in Started, Stop(Closer, p, "settling") \/ Stop(Closer, p, "settling reader"), started' = started,
             \A q \in Plugins : InSeq(todo'[Closer], q) => InSeq(todo[Closer], q)
      PROVE  Stops'
  <2>1. state'[p] = "stopping" /\ \A q \in Plugins : q # p => state'[q] = state[q]
    BY <1>a, <1>5, SetsState DEF Stop
  <2>2. stopping' = stopping \cup {p}
    BY <1>5 DEF Stop
  <2>3. Started' = Started
    BY <1>5 DEF Started
  <2> QED  BY <1>4, <1>5, <1>a, <2>1, <2>2, <2>3 DEF Stops, Up
<1>6. ASSUME state' = state, started' = started, stopping' \subseteq stopping,
             \A q \in Plugins : InSeq(todo'[Closer], q) => InSeq(todo[Closer], q) \/ q \in Started
      PROVE  Stops'
  <2>1. Started' = Started
    BY <1>6 DEF Started
  <2> QED  BY <1>4, <1>6, <2>1 DEF Stops, Up
<1>7. ASSUME NEW q, pc' = [pc EXCEPT ![Closer] = q]
      PROVE  pc'[Closer] = q /\ \A d \in Coroutines : d # Closer => pc'[d] = pc[d]
  BY <1>7, <1>a DEF PlacesOK
<1>8. pc[Closer] \in Runnings \cup Awaits
  BY <1>1 DEF Runnings, Awaits
<1>9. CASE BeginClose
  BY <1>6, <1>7, <1>8, <1>9 DEF BeginClose, registry, Closes
<1>10. CASE CloseReaderLater
  <2>1. /\ pc' = pc /\ pc[Closer] = "closing" /\ index \in 1..Len(started)
        /\ state' = state /\ started' = started /\ stopping' = stopping
    BY <1>10 DEF CloseReaderLater, RunsAt, registry
  <2>2. todo'[Closer] = Append(todo[Closer], started[index])
    BY <1>0, <1>10 DEF CloseReaderLater, CloserMoves
  <2>3. \A e : InSeq(todo'[Closer], e) <=> InSeq(todo[Closer], e) \/ e = started[index]
    BY <1>a, <1>b, <2>1, <2>2, AppendHas
  <2>4. Stops'
    BY <1>6, <1>b, <2>1, <2>3
  <2> QED  BY <1>8, <2>1, <2>4 DEF Closes
<1>11. CASE CloseNext
  <2>1. index \in 1..Len(started) /\ Stop(Closer, started[index], "settling") /\ started' = started /\ todo' = todo
    BY <1>11 DEF CloseNext
  <2>2. Stops'
    BY <1>5, <1>b, <2>1
  <2>3. pc' = [pc EXCEPT ![Closer] = "settling"]
    BY <2>1 DEF Stop
  <2> QED  BY <1>7, <1>8, <2>2, <2>3 DEF Closes
<1>12. CASE CloseReader
  <2>1. /\ todo[Closer] # <<>> /\ Stop(Closer, Head(todo[Closer]), "settling reader") /\ started' = started
        /\ todo'[Closer] = Tail(todo[Closer])
    BY <1>0, <1>12 DEF CloseReader, Visit, CloserMoves
  <2>2. \A e : InSeq(todo[Closer], e) <=> InSeq(todo'[Closer], e) \/ e = Head(todo[Closer])
    BY <1>a, <2>1, TailHas
  <2>3. Head(todo[Closer]) \in Plugins
    <3> DEFINE s == todo[Closer]
    <3>1. s \in Seq(Plugins) /\ s # <<>>
      BY <1>a, <2>1 DEF TodoTypes, Types, Coroutines
    <3> HIDE DEF s
    <3>2. Head(s) \in Plugins
      BY <3>1
    <3> QED  BY <3>2 DEF s
  <2>4. Head(todo[Closer]) \in Started
    BY <1>4, <2>2, <2>3 DEF Stops
  <2>5. Stops'
    BY <1>5, <2>1, <2>2, <2>3, <2>4
  <2>6. pc' = [pc EXCEPT ![Closer] = "settling reader"]
    BY <2>1 DEF Stop
  <2> QED  BY <1>7, <1>8, <2>5, <2>6 DEF Closes
<1>13. CASE CloseHands \/ Handed \/ Settle
  <2>1. state' = state /\ started' = started /\ stopping' \subseteq stopping /\ todo' = todo
    BY <1>13 DEF CloseHands, Handed, Settle, registry, ending
  <2>2. Stops'
    BY <1>6, <2>1
  <2>3. \E q \in {"handing", "closing readers", "closing"} : pc' = [pc EXCEPT ![Closer] = q]
    BY <1>13 DEF CloseHands, Handed, Settle
  <2> QED  BY <1>7, <1>8, <2>2, <2>3 DEF Closes
<1>14. CASE Closed
  <2>1. state' = state /\ started' = started /\ stopping' = stopping /\ todo' = todo /\ Leave(Closer)
    BY <1>14 DEF Closed, registry, ending
  <2>2. Stops'
    BY <1>6, <2>1
  <2>3. CASE waiting = <<>>
    <3>1. pc' = [pc EXCEPT ![Closer] = "done"]
      BY <2>1, <2>3 DEF Leave
    <3> QED  BY <1>7, <1>8, <2>2, <3>1 DEF Closes
  <2>4. CASE waiting # <<>>
    <3> DEFINE first == Head(waiting)
    <3>1. pc' = [pc EXCEPT ![Closer] = "done", ![first] = "woken"]
      BY <2>1, <2>4 DEF Leave
    <3>2. first \in Coroutines /\ pc[first] = "queued"
      BY <1>0, <2>4, QueueHead DEF Coroutines, Types
    <3> HIDE DEF first
    <3>3. first # Closer
      BY <1>1, <3>2
    <3>4. pc'[Closer] = "done" /\ \A d \in Coroutines : d # Closer => pc'[d] = IF d = first THEN "woken" ELSE pc[d]
      BY <1>a, <3>1, <3>2, <3>3 DEF PlacesOK
    <3> QED  BY <1>8, <2>2, <3>2, <3>4 DEF Closes
  <2> QED  BY <2>3, <2>4
<1> QED  BY <1>9, <1>10, <1>11, <1>12, <1>13, <1>14

\* The place of every other coroutine follows once that of the one that acted is known.
LEMMA ActPlaces ==
  ASSUME Control, Quiet, Budget, Distinct(started), Orderly, Placed,
         NEW c \in Coroutines, Step(c) \/ Launch(c), ~Wake(c)
  PROVE  Placed'
<1> USE DEF Control
<1>1. pc[c] \in Changes /\ (turn = c \/ (turn = Nobody /\ ~Over))
  BY StepBegins
<1>2. c # Closer /\ Closer \in Coroutines
  BY CloserChangesNothing DEF Coroutines
<1>3. Inside(c) /\ Alone(c)
  <2>1. Inside(c)
    BY <1>1 DEF Inside, Outside, Changes
  <2> QED  BY <2>1, OneInside DEF Alone
<1>4. ~Closes
  <2>1. CASE pc[Closer] = "done"
    BY <1>1, <2>1, LifecycleAssumption DEF Quiet, Over
  <2>2. CASE pc[Closer] # "done" /\ Closes
    <3>1. Inside(Closer)
      BY <2>2 DEF Closes, Inside, Outside
    <3> QED  BY <1>2, <1>3, <3>1 DEF Alone
  <2> QED  BY <2>1, <2>2
<1>5. Bystanders(c)
  BY OthersStay
<1>6. \A d \in Coroutines : d # c => pc'[d] \in Outside
  <2> SUFFICES ASSUME NEW d \in Coroutines, d # c PROVE pc'[d] \in Outside
    OBVIOUS
  <2>1. pc[d] \in Outside
    BY <1>3 DEF Alone, Inside
  <2> QED  BY <1>5, <2>1 DEF Bystanders, Outside
<1>7. ~Closes'
  BY <1>2, <1>4, <1>5 DEF Bystanders, Closes
<1>8. \/ pc'[c] \in {"launching", "recovering"} /\ Starts(c)'
      \/ pc'[c] \in {"disabling", "halting"} /\ Halts(c)'
      \/ pc'[c] \notin {"launching", "recovering", "disabling", "halting"} /\ Calm'
  <2>1. InPlace(c)
    BY <1>3 DEF Placed
  <2> QED  BY <1>1, <1>4, <2>1, ActKeepsPlace
<1>9. SUFFICES ASSUME NEW d \in Coroutines, Alone(d)' PROVE InPlace(d)'
  BY DEF Placed
<1>10. CASE d = c
  BY <1>7, <1>8, <1>10 DEF InPlace, Starting, Halting
<1>11. CASE d # c
  <2>1. pc'[c] \in Outside
    BY <1>9, <1>11 DEF Alone, Inside
  <2>2. Calm'
    BY <1>8, <2>1 DEF Outside
  <2>3. ~Starting(d)' /\ ~Halting(d)'
    BY <1>6, <1>11 DEF Starting, Halting, Outside
  <2> QED  BY <1>7, <2>2, <2>3 DEF InPlace
<1> QED  BY <1>10, <1>11

\* A step that touches neither a plugin nor a coroutine.
LEMMA StandingPlaces ==
  ASSUME Placed, UNCHANGED <<state, started, pc, job, todo, target>>, stopping' \subseteq stopping
  PROVE  Placed'
<1>1. Started' = Started
  BY DEF Started
<1>2. (Calm => Calm') /\ (Up => Up')
  BY <1>1 DEF Calm, Plain, Up
<1>3. Stops => Stops'
  BY <1>1, <1>2 DEF Stops
<1> SUFFICES ASSUME NEW d \in Coroutines, Alone(d)' PROVE InPlace(d)'
  BY DEF Placed
<1>4. InPlace(d)
  <2>1. Alone(d)
    BY DEF Alone, Inside
  <2> QED  BY <2>1 DEF Placed
<1>5. Starts(d) => Starts(d)'
  BY <1>1 DEF Starts, Around, Plain
<1>6. Halts(d) => Halts(d)'
  BY <1>2 DEF Halts
<1>7. (Starting(d) <=> Starting(d)') /\ (Halting(d) <=> Halting(d)') /\ (Closes <=> Closes')
  BY DEF Starting, Halting, Closes
<1> QED  BY <1>2, <1>3, <1>4, <1>5, <1>6, <1>7 DEF InPlace

LEMMA PlacedStep ==
  ASSUME Control, Quiet, Budget, InRange, Orderly, Orderly', Placed, [Next]_vars
  PROVE  Placed'
<1> USE DEF Control
<1>0. Distinct(started) /\ Boot \in Coroutines /\ Closer \in Coroutines /\ Clicks \subseteq Coroutines /\ Types
  BY DEF InRange, Coroutines
<1>1. ASSUME NEW c \in Coroutines, Step(c) \/ Launch(c) PROVE Placed'
  <2>1. CASE Wake(c)
    <3>1. turn = Nobody /\ pc[c] = "woken" /\ Enter(c) /\ UNCHANGED <<registry, todo, target, stopping>> /\ job' = job
      BY <2>1 DEF Wake, ResumesAt
    <3>2. c \in Clicks \cup {Closer}
      BY <1>0, <3>1, WhoIsWhere, LifecycleAssumption DEF Types, Coroutines
    <3> QED  BY <3>1, <3>2, CallKeepsPlace
  <2>2. CASE ~Wake(c)
    BY <1>0, <1>1, <2>2, ActPlaces
  <2> QED  BY <2>1, <2>2
<1>2. ASSUME NEW c \in Clicks, NEW kind \in Kinds, NEW p \in Plugins, Press(c, kind, p) PROVE Placed'
  <2>1. turn = Nobody /\ pc[c] = "idle" /\ Booted /\ Enter(c) /\ UNCHANGED <<registry, todo, target, stopping>>
    BY <1>2 DEF Press, Idle, ending
  <2>2. \A d \in Coroutines : d # c => job'[d] = job[d]
    <3>1. job \in [Coroutines -> Jobs]
      BY <1>0 DEF Types, WorkOK
    <3> QED  BY <1>2, <3>1 DEF Press
  <2> QED  BY <2>1, <2>2, CallKeepsPlace
<1>3. ASSUME Quit PROVE Placed'
  <2>1. /\ turn = Nobody /\ Enter(Closer) /\ UNCHANGED <<registry, todo, target, stopping>> /\ job' = job
        /\ ~quit /\ quit' = TRUE /\ (Booted \/ QuitWhileBooting)
    BY <1>3 DEF Quit, Idle
  <2>2. Booted
    BY <2>1 DEF Orderly
  <2>3. pc[Closer] = "idle"
    BY <2>1 DEF Phases
  <2> QED  BY <2>1, <2>2, <2>3, CallKeepsPlace
<1>4. ASSUME \/ BeginClose \/ CloseReaderLater \/ CloseNext \/ CloseHands \/ Handed \/ CloseReader \/ Settle \/ Closed
      PROVE  Placed'
  <2>1. /\ Stops' /\ Closes' /\ pc[Closer] \in Runnings \cup Awaits
        /\ \A d \in Coroutines : d # Closer => pc'[d] = pc[d] \/ (pc[d] = "queued" /\ pc'[d] = "woken")
    BY <1>4, ClosingKeepsPlace
  <2>2. Inside(Closer)
    BY <2>1 DEF Inside, Outside, Runnings, Awaits
  <2>3. ASSUME NEW d \in Coroutines PROVE ~Starting(d)' /\ ~Halting(d)'
    <3>1. CASE d = Closer
      BY <2>1, <3>1 DEF Closes, Starting, Halting
    <3>2. CASE d # Closer
      <4>1. pc[d] \in Outside
        BY <1>0, <2>2, <3>2, OneInside DEF Inside
      <4> QED  BY <2>1, <3>2, <4>1 DEF Starting, Halting, Outside
    <3> QED  BY <3>1, <3>2
  <2> QED  BY <2>1, <2>3 DEF Placed, InPlace
<1>5. ASSUME Stopped \/ OutOfTime \/ (\E p \in Plugins : \E text \in Authored[p] : Edit(p, text))
             \/ (\E p \in Plugins : StopReturns(p)) \/ UNCHANGED vars
      PROVE  Placed'
  <2>1. UNCHANGED <<state, started, pc, job, todo, target>> /\ stopping' \subseteq stopping
    BY <1>5 DEF Stopped, OutOfTime, Edit, StopReturns, vars, registry, change, ending
  <2> QED  BY <2>1, StandingPlaces
<1>6. Closing => Placed'
  BY <1>4, <1>5 DEF Closing
<1> QED  BY <1>1, <1>2, <1>3, <1>5, <1>6 DEF Next

\* While no change is in progress the host holds exactly the plugins that run and no stop
\* function runs beside a start, whatever failed before.
THEOREM PlacedInvariance == Spec => [](Orderly => Placed)
<1>1. Init => (Orderly => Placed)
  <2> SUFFICES ASSUME Init PROVE Placed
    OBVIOUS
  <2>1. Started = {} /\ stopping = {}
    BY DEF Init, Started
  <2>2. \A p \in Plugins : state[p] \in {"discovered", "disabled", "refused"}
    BY DEF Init
  <2>3. Calm
    BY <2>1, <2>2 DEF Calm, Plain
  <2>4. \A c \in Coroutines : ~Starting(c) /\ ~Halting(c)
    BY DEF Init, Starting, Halting
  <2>5. ~Closes
    BY LifecycleAssumption DEF Init, Closes, Coroutines
  <2> QED  BY <2>3, <2>4, <2>5 DEF Placed, InPlace
<1>2. Control /\ Quiet /\ Budget /\ InRange /\ (Orderly => Placed) /\ [Next]_vars => (Orderly => Placed)'
  BY OrderlyBefore, PlacedStep
<1> QED  BY <1>1, <1>2, ControlInvariance, QuietInvariance, ClosingFitsBudget, ListInRange, PTL DEF Spec

\* One change of the plugins runs at a time and each gets its turn; and no plugin starts
\* whose last stop still runs.
THEOREM ChangesExclude == Spec => [](Orderly => Exclusive)
<1>1. Control /\ (Orderly => Placed) => (Orderly => Exclusive)
  <2> SUFFICES ASSUME Control, Placed, Orderly PROVE Exclusive
    OBVIOUS
  <2> USE DEF Control
  <2>1. TypeOK
    <3>1. Started \subseteq Plugins
      BY DEF Types, RegistryOK, Started
    <3>2. {waiting[i] : i \in 1..Len(waiting)} \subseteq Clicks \cup {Closer}
      BY DEF Types, QueueOK
    <3> QED  BY <3>1, <3>2 DEF TypeOK, Types, RegistryOK, QueueOK, EndingOK
  <2>2. OneChange /\ QueueServed
    BY DEF Lock
  <2>3. NoStopBesideStart
    <3> SUFFICES ASSUME NEW c \in Coroutines, pc[c] = "launching" PROVE target[c] \notin stopping
      BY DEF NoStopBesideStart
    <3>1. Inside(c)
      BY DEF Inside, Outside
    <3>2. Alone(c)
      BY <3>1, OneInside DEF Alone
    <3>3. Starts(c)
      BY <3>2 DEF Placed, InPlace, Starting
    <3> QED  BY <3>3 DEF Starts, Around
  <2> QED  BY <2>1, <2>2, <2>3 DEF Exclusive
<1> QED  BY <1>1, ControlInvariance, PlacedInvariance, PTL

-----------------------------------------------------------------------------
(***************************************************************************)
(* What a change leaves:  a plugin the pass went by has its place, and one *)
(* that waits does so for nothing the pass may still start, because the    *)
(* order puts every dependency outside of cycles first.                    *)
(***************************************************************************)

Passing(c) == pc[c] \in {"resolving", "launching", "recovering"}

\* What a change leaves of a plugin.
Settles(p) ==
    /\ state[p] \notin {"discovered", "starting", "stopping"}
    /\ p \in disabled <=> state[p] = "disabled"
    /\ state[p] = "waiting" => Blocking(def[p], Running) = "inactive"

\* What the state of a plugin tells of its switch, its tries and its folder.
Marks(p) ==
    /\ p \notin disabled /\ ~attempt[p] => state[p] \in {"refused", "unavailable"}
    /\ state[p] \in {"running", "starting"} => p \notin disabled
    /\ def[p] = Unreadable => state[p] \in {"disabled", "refused"}

\* A list of a pass: no plugin behind one that needs it, unless the latter is in a cycle.
Lined(list) == \A i, j \in 1..Len(list) : i <= j /\ list[i] \notin cyclic => list[j] \notin Needs(def[list[i]])

\* The plugins a pass has still to decide on.
Ahead(c, p) == InSeq(todo[c], p) \/ (Starting(c) /\ target[c] = p)

ListOK(c) ==
    /\ Distinct(todo[c]) /\ Lined(todo[c])
    /\ \A p \in Plugins : InSeq(todo[c], p) => def[p] # Unreadable
    /\ Starting(c) => ~InSeq(todo[c], target[c])

\* The pass went by p.
Behind(c, p) == Settles(p) /\ (state[p] = "waiting" => \A q \in Needs(def[p]) : ~Ahead(c, q))

PassOK(c) == ListOK(c) /\ \A p \in Plugins : Ahead(c, p) \/ Behind(c, p)

\* A switch that is turned off.
SwitchOK(c) ==
    /\ job[c].id \in disabled
    /\ \A p \in Plugins : def[p] = Unreadable /\ p # job[c].id => (p \in disabled <=> state[p] = "disabled")

Resolves(c) ==
    /\ Passing(c) => PassOK(c)
    /\ Halting(c) => SwitchOK(c)
    /\ ~Passing(c) /\ ~Halting(c) => \A p \in Plugins : Settles(p)

Resting == ~Closes => (\A p \in Plugins : Marks(p)) /\ (\A c \in Coroutines : Alone(c) => Resolves(c))

\* Only what a definition names decides what blocks it.
LEMMA BlockingSame ==
  ASSUME NEW list, NEW R, NEW R2, \A q \in Needs(list) : q \in R <=> q \in R2
  PROVE  Blocking(list, R) = Blocking(list, R2)
<1> DEFINE B(S) == {i \in 1..Len(list) : list[i] \notin S}
           F(bad) == IF bad = {} THEN 0 ELSE CHOOSE i \in bad : \A j \in bad : i <= j
<1>a. B(R) = B(R2)
  BY DEF Needs
<1>b. FirstBlocking(list, R) = F(B(R)) /\ FirstBlocking(list, R2) = F(B(R2))
  BY DEF FirstBlocking
<1> HIDE DEF B, F
<1>1. FirstBlocking(list, R) = FirstBlocking(list, R2)
  BY <1>a, <1>b
<1> QED  BY <1>1, Zenon DEF Blocking

LEMMA SettlesStays ==
  ASSUME NEW p \in Plugins, Settles(p), state'[p] = state[p], def'[p] = def[p],
         p \in disabled' <=> p \in disabled,
         state[p] = "waiting" => \A q \in Needs(def[p]) : q \in Running' <=> q \in Running
  PROVE  Settles(p)'
<1>1. CASE state[p] = "waiting"
  <2>1. Blocking(def[p], Running') = Blocking(def[p], Running)
    BY <1>1, BlockingSame
  <2> QED  BY <1>1, <2>1 DEF Settles
<1>2. CASE state[p] # "waiting"
  BY <1>2 DEF Settles
<1> QED  BY <1>1, <1>2

LEMMA SettlesAll ==
  ASSUME state' = state, def' = def, disabled' = disabled
  PROVE  \A p \in Plugins : (Settles(p) => Settles(p)') /\ Running' = Running
BY DEF Settles, Running

\* One plugin changed: it was ahead, so nothing that waits behind looked at it.
LEMMA BehindStays ==
  ASSUME NEW c \in Coroutines, PassOK(c), NEW h \in Plugins, Ahead(c, h),
         \A q \in Plugins : q # h => state'[q] = state[q] /\ def'[q] = def[q],
         disabled' = disabled, \A q : Ahead(c, q)' => Ahead(c, q)
  PROVE  \A p \in Plugins : p # h => Ahead(c, p) \/ Behind(c, p)'
<1> SUFFICES ASSUME NEW p \in Plugins, p # h, ~Ahead(c, p) PROVE Behind(c, p)'
  OBVIOUS
<1>1. Behind(c, p)
  BY DEF PassOK
<1>2. state[p] = "waiting" => \A q \in Needs(def[p]) : q \in Running' <=> q \in Running
  BY <1>1 DEF Behind, Running
<1>3. Settles(p)'
  BY <1>1, <1>2, SettlesStays DEF Behind
<1>4. state'[p] = state[p] /\ def'[p] = def[p]
  OBVIOUS
<1> QED  BY <1>1, <1>3, <1>4 DEF Behind

\* The pass went on by one plugin, the head of its list.
LEMMA ListShortens ==
  ASSUME Types, NEW c \in Coroutines, ListOK(c), todo[c] # <<>>, todo'[c] = Tail(todo[c]), cyclic' = cyclic,
         \A q \in Plugins : q # Head(todo[c]) => def'[q] = def[q],
         Starting(c)' => target'[c] = Head(todo[c])
  PROVE  ListOK(c)' /\ ~InSeq(todo'[c], Head(todo[c])) /\ \A q : InSeq(todo[c], q) <=> InSeq(todo'[c], q) \/ q = Head(todo[c])
<1> DEFINE s == todo[c]
           t == todo'[c]
           n == Len(s)
<1>1. s \in Seq(Plugins) /\ s # <<>> /\ t = Tail(s)
  BY DEF Types, WorkOK
<1>2. Distinct(s)
  BY DEF ListOK
<1> HIDE DEF s, t
<1>3. Distinct(t) /\ ~InSeq(t, Head(s)) /\ \A e : InSeq(s, e) <=> InSeq(t, e) \/ e = Head(s)
  BY <1>1, <1>2, TailHas, TailDistinct
<1>4. n \in Nat /\ Len(t) = n - 1 /\ \A i \in 1..n - 1 : t[i] = s[i + 1] /\ i + 1 \in 1..n /\ t[i] \in Plugins
  BY <1>1
<1>5. \A i \in 1..Len(t) : def'[t[i]] = def[t[i]]
  <2> SUFFICES ASSUME NEW i \in 1..Len(t) PROVE def'[t[i]] = def[t[i]]
    OBVIOUS
  <2>1. t[i] \in Plugins /\ InSeq(t, t[i])
    BY <1>4 DEF InSeq
  <2> QED  BY <1>3, <2>1 DEF s
<1>6. \A i, j \in 1..n : i <= j /\ s[i] \notin cyclic => s[j] \notin Needs(def[s[i]])
  BY DEF ListOK, Lined, s
<1> HIDE DEF n
<1>7. \A i, j \in 1..Len(t) : i <= j /\ t[i] \notin cyclic => t[j] \notin Needs(def'[t[i]])
  <2> SUFFICES ASSUME NEW i \in 1..Len(t), NEW j \in 1..Len(t), i <= j, t[i] \notin cyclic
               PROVE  t[j] \notin Needs(def'[t[i]])
    OBVIOUS
  <2>1. i \in 1..n - 1 /\ j \in 1..n - 1 /\ i + 1 <= j + 1
    BY <1>4
  <2>2. s[j + 1] \notin Needs(def[s[i + 1]])
    BY <1>4, <1>6, <2>1
  <2> QED  BY <1>4, <1>5, <2>1, <2>2
<1>8. \A p \in Plugins : InSeq(t, p) => def'[p] # Unreadable
  BY <1>3 DEF ListOK, s
<1>9. Lined(todo[c])'
  BY <1>7 DEF Lined, t
<1> QED  BY <1>3, <1>8, <1>9 DEF ListOK, s, t

\* The pass decides on the plugin it was starting.
LEMMA ListStays ==
  ASSUME Types, NEW c \in Coroutines, ListOK(c), Starting(c), todo'[c] = todo[c], cyclic' = cyclic,
         \A q \in Plugins : q # target[c] => def'[q] = def[q], target'[c] = target[c]
  PROVE  ListOK(c)'
<1>1. todo[c] \in Seq(Plugins)
  BY DEF Types, WorkOK
<1>2. \A i \in 1..Len(todo[c]) : todo[c][i] \in Plugins /\ InSeq(todo[c], todo[c][i])
  BY <1>1 DEF InSeq
<1>3. ~InSeq(todo[c], target[c])
  BY DEF ListOK
<1>4. \A i \in 1..Len(todo[c]) : def'[todo[c][i]] = def[todo[c][i]]
  BY <1>2, <1>3
<1>5. Lined(todo[c])'
  BY <1>4 DEF ListOK, Lined
<1> QED  BY <1>3, <1>5 DEF ListOK

\* The list a pass begins with.
FullList(s, K, D) ==
    /\ Distinct(s) /\ \A p \in Plugins : InSeq(s, p) <=> D[p] # Unreadable
    /\ \A i, j \in 1..Len(s) : i <= j /\ s[i] \notin K => s[j] \notin Needs(D[s[i]])

LEMMA OrderedFull ==
  ASSUME NEW D \in [Plugins -> Texts]
  PROVE  FullList(Ordered(D).order, Ordered(D).cyclic, D)
<1> DEFINE s == Ordered(D).order
           K == Ordered(D).cyclic
<1>1. Definitions(D)
  BY OrderTypes
<1>2. OrderOf(s, K, D)
  BY <1>1, OrderedRight
<1> HIDE DEF s, K
<1>3. Distinct(s) /\ (\A p \in Plugins : InSeq(s, p) <=> D[p] # Unreadable) /\ s \in Seq(Readable(D))
  <2>1. s \in Seq(Readable(D)) /\ \A i \in 1..Len(s) : s[i] \in Readable(D)
    BY <1>2 DEF OrderOf
  <2> QED  BY <1>2, <2>1 DEF OrderOf, Distinct, InSeq, Readable
<1>4. \A i, j \in 1..Len(s) : i <= j /\ s[i] \notin K => s[j] \notin Needs(D[s[i]])
  <2> SUFFICES ASSUME NEW i \in 1..Len(s), NEW j \in 1..Len(s), i <= j, s[i] \notin K, s[j] \in Needs(D[s[i]])
               PROVE  FALSE
    OBVIOUS
  <2>1. s[j] \in Readable(D)
    BY <1>3
  <2>2. Edge(D, s[i], s[j])
    BY <2>1 DEF Edge
  <2>3. \E k \in 1..Len(s) : k < i /\ s[k] = s[j]
    BY <1>2, <2>1, <2>2 DEF OrderOf, Sorted
  <2>4. PICK k \in 1..Len(s) : k < i /\ s[k] = s[j]
    BY <2>3
  <2>5. k = j
    BY <1>3, <2>4 DEF Distinct
  <2> QED  BY <2>4, <2>5, <1>3
<1>5. FullList(s, K, D)
  BY <1>3, <1>4 DEF FullList
<1> QED  BY <1>5 DEF s, K

\* A pass begins with every plugin ahead that has a definition.
LEMMA PassBegins ==
  ASSUME NEW c \in Coroutines, def' \in [Plugins -> Texts],
         todo'[c] = Ordered(def').order, cyclic' = Ordered(def').cyclic, pc'[c] = "resolving",
         \A p \in Plugins : def'[p] = Unreadable =>
             state'[p] \in {"disabled", "refused"} /\ (p \in disabled' <=> state'[p] = "disabled")
  PROVE  PassOK(c)'
<1>1. FullList(todo'[c], cyclic', def')
  BY OrderedFull
<1>2. ~Starting(c)'
  BY DEF Starting
<1>3. ListOK(c)'
  BY <1>1, <1>2 DEF ListOK, Lined, FullList
<1>4. ASSUME NEW p \in Plugins PROVE Ahead(c, p)' \/ Behind(c, p)'
  <2>1. CASE def'[p] # Unreadable
    BY <1>1, <2>1 DEF Ahead, FullList
  <2>2. CASE def'[p] = Unreadable
    <3>1. state'[p] \in {"disabled", "refused"} /\ (p \in disabled' <=> state'[p] = "disabled")
      BY <2>2
    <3> QED  BY <3>1 DEF Behind, Settles
  <2> QED  BY <2>1, <2>2
<1> QED  BY <1>3, <1>4 DEF PassOK

AllMarked == \A p \in Plugins : Marks(p)

LEMMA MarksStay ==
  ASSUME NEW p \in Plugins, Marks(p), state'[p] = state[p], def'[p] = def[p], attempt'[p] = attempt[p],
         p \in disabled' <=> p \in disabled
  PROVE  Marks(p)'
BY DEF Marks

\* One plugin is decided on and the others stay.
LEMMA MarkedAgain ==
  ASSUME AllMarked, disabled' = disabled, NEW h \in Plugins, Marks(h)',
         \A q \in Plugins : q # h => state'[q] = state[q] /\ def'[q] = def[q] /\ attempt'[q] = attempt[q]
  PROVE  AllMarked'
<1>1. ASSUME NEW p \in Plugins PROVE Marks(p)'
  <2>1. CASE p = h
    BY <2>1
  <2>2. CASE p # h
    BY <2>2, MarksStay DEF AllMarked
  <2> QED  BY <2>1, <2>2
<1> QED  BY <1>1 DEF AllMarked

\* A plugin the pass may start is started, refused or cannot be.
Decides(c, h) ==
    /\ disabled' = disabled
    /\ \A q \in Plugins : q # h => state'[q] = state[q] /\ def'[q] = def[q] /\ attempt'[q] = attempt[q]
    /\ Marks(h)'
    /\ \/ pc'[c] = "resolving" /\ Settles(h)' /\ state'[h] # "waiting"
       \/ pc'[c] = "launching" /\ target'[c] = h

LEMMA StartOfDecides ==
  ASSUME Types, NEW c \in Coroutines, NEW h \in Plugins, NEW again, StartOf(c, h, again), disabled' = disabled,
         h \notin disabled, attempt[h], def[h] # Unreadable
  PROVE  Decides(c, h)
<1> USE DEF Types
<1>1. CASE StartUnreadable(c, h)
  <2>1. state' = [state EXCEPT ![h] = "refused"] /\ attempt' = [attempt EXCEPT ![h] = FALSE] /\ def' = [def EXCEPT ![h] = folder[h]]
    BY <1>1 DEF StartUnreadable, Refused, Reread
  <2>2. state'[h] = "refused" /\ \A q \in Plugins : q # h => state'[q] = state[q] /\ def'[q] = def[q] /\ attempt'[q] = attempt[q]
    BY <2>1 DEF RegistryOK
  <2>3. pc'[c] = "resolving"
    BY <1>1 DEF StartUnreadable, PlacesOK
  <2> QED  BY <2>2, <2>3 DEF Decides, Marks, Settles
<1>2. CASE StartUnavailable(c, h) \/ StartRefused(c, h)
  <2>1. /\ (\E s \in {"refused", "unavailable"} : state' = [state EXCEPT ![h] = s])
        /\ attempt' = [attempt EXCEPT ![h] = FALSE]
        /\ def' = def \/ (folder[h] # Unreadable /\ def' = [def EXCEPT ![h] = folder[h]])
    BY <1>2 DEF StartUnavailable, StartRefused, Refused, Reread
  <2>2. /\ state'[h] \in {"refused", "unavailable"} /\ def'[h] # Unreadable
        /\ \A q \in Plugins : q # h => state'[q] = state[q] /\ def'[q] = def[q] /\ attempt'[q] = attempt[q]
    BY <2>1 DEF RegistryOK
  <2>3. pc'[c] = "resolving"
    BY <1>2 DEF StartUnavailable, StartRefused, PlacesOK
  <2> QED  BY <2>2, <2>3 DEF Decides, Marks, Settles
<1>3. CASE StartRegistered(c, h, again)
  <2>1. /\ state' = [state EXCEPT ![h] = "starting"] /\ attempt' = attempt
        /\ def' = def \/ (folder[h] # Unreadable /\ def' = [def EXCEPT ![h] = folder[h]])
    BY <1>3 DEF StartRegistered
  <2>2. /\ state'[h] = "starting" /\ def'[h] # Unreadable /\ attempt'[h]
        /\ \A q \in Plugins : q # h => state'[q] = state[q] /\ def'[q] = def[q] /\ attempt'[q] = attempt[q]
    BY <2>1 DEF RegistryOK
  <2>3. pc'[c] = "launching" /\ target'[c] = h
    BY <1>3 DEF StartRegistered, PlacesOK, WorkOK
  <2> QED  BY <2>2, <2>3 DEF Decides, Marks
<1> QED  BY <1>1, <1>2, <1>3 DEF StartOf

\* The head of the list is decided on.
LEMMA PassAdvances ==
  ASSUME Types, NEW c \in Coroutines, pc[c] = "resolving", PassOK(c), AllMarked, todo[c] # <<>>,
         Visit(c), NEW h \in Plugins, h = Head(todo[c]), Decides(c, h)
  PROVE  AllMarked' /\ PassOK(c)'
<1>0. h \in Plugins
  OBVIOUS
<1>1. todo'[c] = Tail(todo[c]) /\ cyclic' = cyclic
  BY DEF Visit, Types, WorkOK
<1>2. ListOK(c)
  BY DEF PassOK
<1>3. Starting(c)' => target'[c] = h
  BY DEF Decides, Starting
<1>4. \A q \in Plugins : q # h => state'[q] = state[q] /\ def'[q] = def[q] /\ attempt'[q] = attempt[q]
  BY DEF Decides
<1>5. ListOK(c)' /\ ~InSeq(todo'[c], h) /\ \A q : InSeq(todo[c], q) <=> InSeq(todo'[c], q) \/ q = h
  BY <1>1, <1>2, <1>3, <1>4, ListShortens
<1>6. AllMarked'
  BY <1>0, <1>4, MarkedAgain DEF Decides
<1>7. Ahead(c, h) /\ \A q : Ahead(c, q)' => Ahead(c, q)
  BY <1>3, <1>5 DEF Ahead
<1>8. \A q : Ahead(c, q) /\ q # h => Ahead(c, q)'
  <2>1. ~Starting(c)
    BY DEF Starting
  <2> QED  BY <1>5, <2>1 DEF Ahead
<1>9. \A p \in Plugins : p # h => Ahead(c, p) \/ Behind(c, p)'
  BY <1>0, <1>4, <1>7, BehindStays DEF Decides
<1>10. Ahead(c, h)' \/ Behind(c, h)'
  <2>1. CASE pc'[c] = "launching" /\ target'[c] = h
    BY <2>1 DEF Ahead, Starting
  <2>2. CASE Settles(h)' /\ state'[h] # "waiting"
    BY <2>2 DEF Behind
  <2> QED  BY <2>1, <2>2 DEF Decides
<1> QED  BY <1>5, <1>6, <1>8, <1>9, <1>10 DEF PassOK

\* It is left waiting for what the pass went by.
LEMMA PassWaits ==
  ASSUME Types, NEW c \in Coroutines, PassOK(c), AllMarked, Wait(c)
  PROVE  AllMarked' /\ PassOK(c)'
<1> DEFINE s == todo[c]
<1>b. Head(todo[c]) \in Plugins
  BY TodoTypes DEF Types, Wait
<1>c. PICK h \in Plugins : h = Head(todo[c])
  BY <1>b
<1>0. h \in Plugins /\ s \in Seq(Plugins) /\ s # <<>> /\ h = Head(s)
  BY <1>c DEF Types, WorkOK, Wait
<1>1. todo'[c] = Tail(todo[c]) /\ cyclic' = cyclic /\ pc' = pc /\ pc[c] = "resolving" /\ def' = def /\ disabled' = disabled
      /\ attempt' = attempt
  BY DEF Wait, Visit, Types, WorkOK, RunsAt
<1>2. ListOK(c)
  BY DEF PassOK
<1>3. ~Starting(c)' /\ ~Starting(c)
  BY <1>1 DEF Starting
<1>4. state'[h] = "waiting" /\ \A q \in Plugins : q # h => state'[q] = state[q]
  <2>1. state' = [state EXCEPT ![h] = "waiting"]
    BY <1>c DEF Wait
  <2> QED  BY <1>0, <2>1, SetsState DEF Types
<1>a. h \notin disabled /\ attempt[h] /\ state[h] # "running" /\ h \notin cyclic /\ Blocking(def[h], Running) = "inactive"
  BY <1>c DEF Wait, Candidate
<1>5. ListOK(c)' /\ ~InSeq(todo'[c], h) /\ \A q : InSeq(todo[c], q) <=> InSeq(todo'[c], q) \/ q = h
  BY <1>0, <1>1, <1>2, <1>3, ListShortens
<1>6. Marks(h)'
  <2>1. InSeq(todo[c], h)
    BY <1>5
  <2>2. def[h] # Unreadable
    BY <1>0, <1>2, <2>1 DEF ListOK
  <2> QED  BY <1>1, <1>4, <1>a, <2>2 DEF Marks
<1>7. AllMarked'
  BY <1>0, <1>1, <1>4, <1>6, MarkedAgain
<1>8. Ahead(c, h) /\ \A q : Ahead(c, q)' => Ahead(c, q)
  BY <1>3, <1>5 DEF Ahead
<1>9. \A p \in Plugins : p # h => Ahead(c, p) \/ Behind(c, p)'
  BY <1>0, <1>1, <1>4, <1>8, BehindStays
<1>10. \A q : Ahead(c, q) /\ q # h => Ahead(c, q)'
  BY <1>3, <1>5 DEF Ahead
<1>11. Running' = Running
  BY <1>0, <1>4, <1>a DEF Running
<1>12. Settles(h)'
  BY <1>1, <1>4, <1>11, <1>a DEF Settles
<1>13. \A q \in Needs(def[h]) : ~InSeq(s, q)
  <2>1. s[1] = h /\ 1 \in 1..Len(s)
    BY <1>0
  <2>2. \A j \in 1..Len(s) : 1 <= j
    BY <1>0
  <2>3. \A j \in 1..Len(s) : s[j] \notin Needs(def[h])
    BY <1>2, <1>a, <2>1, <2>2 DEF ListOK, Lined
  <2> QED  BY <2>3 DEF InSeq
<1>14. Behind(c, h)'
  BY <1>1, <1>3, <1>5, <1>12, <1>13 DEF Behind, Ahead
<1> HIDE DEF s
<1> QED  BY <1>5, <1>7, <1>9, <1>10, <1>14 DEF PassOK

LEMMA PassResolves ==
  ASSUME Types, NEW c \in Coroutines, PassOK(c), AllMarked,
         Pass(c) \/ TurnedOff(c) \/ Refuse(c) \/ Wait(c) \/ Start(c)
  PROVE  AllMarked' /\ PassOK(c)'
<1> USE DEF Types
<1>a. Head(todo[c]) \in Plugins
  BY TodoTypes DEF Pass, TurnedOff, Refuse, Wait, Start
<1>b. PICK h \in Plugins : h = Head(todo[c])
  BY <1>a
<1>0. pc[c] = "resolving" /\ todo[c] # <<>> /\ Visit(c) /\ h = Head(todo[c])
  BY <1>b DEF Pass, TurnedOff, Refuse, Wait, Start, RunsAt
<1>1. Marks(h)
  BY <1>0 DEF AllMarked
<1>2. CASE Pass(c)
  <2>1. state' = state /\ def' = def /\ attempt' = attempt /\ disabled' = disabled /\ pc' = pc
        /\ (state[h] = "running" \/ (h \notin disabled /\ ~attempt[h]))
    BY <1>0, <1>2 DEF Pass, registry, Passes
  <2>2. Settles(h)' /\ state'[h] # "waiting"
    BY <1>1, <2>1 DEF Marks, Settles
  <2>3. Marks(h)'
    BY <1>0, <1>1, <2>1, MarksStay
  <2>4. Decides(c, h)
    BY <1>0, <2>1, <2>2, <2>3 DEF Decides
  <2> QED  BY <1>0, <2>4, PassAdvances
<1>3. CASE TurnedOff(c) \/ Refuse(c)
  <2>1. /\ def' = def /\ disabled' = disabled /\ pc' = pc
        /\ \/ h \in disabled /\ state' = [state EXCEPT ![h] = "disabled"] /\ attempt' = attempt
           \/ h \notin disabled /\ state' = [state EXCEPT ![h] = "refused"] /\ attempt' = [attempt EXCEPT ![h] = FALSE]
    BY <1>0, <1>3 DEF TurnedOff, Refuse, Refused, Candidate
  <2>2. /\ (h \in disabled /\ state'[h] = "disabled") \/ (h \notin disabled /\ state'[h] = "refused")
        /\ \A q \in Plugins : q # h => state'[q] = state[q] /\ attempt'[q] = attempt[q]
    BY <1>0, <2>1 DEF RegistryOK
  <2>3. Settles(h)' /\ state'[h] # "waiting" /\ Marks(h)'
    BY <2>1, <2>2 DEF Settles, Marks
  <2>4. Decides(c, h)
    BY <1>0, <2>1, <2>2, <2>3 DEF Decides
  <2> QED  BY <1>0, <2>4, PassAdvances
<1>4. CASE Wait(c)
  BY <1>4, PassWaits
<1>5. CASE Start(c)
  <2>1. StartOf(c, h, FALSE) /\ disabled' = disabled /\ h \notin disabled /\ attempt[h]
    BY <1>0, <1>5 DEF Start, Candidate
  <2>2. def[h] # Unreadable
    <3>1. InSeq(todo[c], h)
      <4> DEFINE s == todo[c]
      <4>1. s \in Seq(Plugins) /\ s # <<>>
        BY <1>0 DEF WorkOK
      <4> HIDE DEF s
      <4>2. InSeq(s, Head(s))
        BY <4>1, TailHas
      <4> QED  BY <1>0, <4>2 DEF s
    <3> QED  BY <1>0, <3>1 DEF PassOK, ListOK
  <2>3. Decides(c, h)
    BY <1>0, <2>1, <2>2, StartOfDecides
  <2> QED  BY <1>0, <2>3, PassAdvances
<1> QED  BY <1>2, <1>3, <1>4, <1>5

\* The start of the plugin a pass waits for ends, or is tried again.
LEMMA LaunchAdvances ==
  ASSUME Types, NEW c \in Coroutines, Starting(c), PassOK(c), AllMarked, NEW h \in Plugins, h = target[c],
         todo' = todo, cyclic' = cyclic, Decides(c, h),
         pc'[c] = "resolving" => target' = target
  PROVE  AllMarked' /\ PassOK(c)'
<1>1. todo'[c] = todo[c] /\ target'[c] = h
  BY DEF Decides, Starting
<1>2. \A q \in Plugins : q # h => state'[q] = state[q] /\ def'[q] = def[q] /\ attempt'[q] = attempt[q]
  BY DEF Decides
<1>3. ListOK(c)'
  BY <1>1, <1>2, ListStays DEF PassOK
<1>4. AllMarked'
  BY <1>2, MarkedAgain DEF Decides
<1>5. Ahead(c, h) /\ \A q : Ahead(c, q)' => Ahead(c, q)
  BY <1>1 DEF Ahead
<1>6. \A q : Ahead(c, q) /\ q # h => Ahead(c, q)'
  BY <1>1 DEF Ahead
<1>7. \A p \in Plugins : p # h => Ahead(c, p) \/ Behind(c, p)'
  BY <1>2, <1>5, BehindStays DEF Decides
<1>8. Ahead(c, h)' \/ Behind(c, h)'
  <2>1. CASE pc'[c] = "launching"
    BY <1>1, <2>1 DEF Ahead, Starting
  <2>2. CASE Settles(h)' /\ state'[h] # "waiting"
    BY <2>2 DEF Behind
  <2> QED  BY <2>1, <2>2 DEF Decides
<1> QED  BY <1>3, <1>4, <1>6, <1>7, <1>8 DEF PassOK

LEMMA LaunchResolves ==
  ASSUME Types, NEW c \in Coroutines, Starts(c), PassOK(c), AllMarked,
         Launched(c) \/ LaunchFails(c) \/ LaunchMisfits(c) \/ Recovered(c) \/ RecoveryFails(c)
  PROVE  AllMarked' /\ PassOK(c)'
<1> USE DEF Types
<1>a. target[c] \in Plugins
  BY DEF Launched, LaunchFails, LaunchMisfits, Recovered, RecoveryFails, ResumesAt, WorkOK, Awaits
<1>b. PICK h \in Plugins : h = target[c]
  BY <1>a
<1>0. Starting(c) /\ todo' = todo /\ cyclic' = cyclic /\ disabled' = disabled
  BY DEF Launched, LaunchFails, LaunchMisfits, Recovered, RecoveryFails, ResumesAt, Starting
<1>1. state[h] = "starting" /\ Marks(h)
  BY <1>b DEF Starts, AllMarked
<1>2. h \notin disabled /\ attempt[h] /\ def[h] # Unreadable
  BY <1>1 DEF Marks, RegistryOK
<1>3. CASE Launched(c)
  <2>1. state' = [state EXCEPT ![h] = "running"] /\ def' = def /\ attempt' = attempt /\ target' = target /\ pc'[c] = "resolving"
    BY <1>3, <1>b DEF Launched, PlacesOK
  <2>2. state'[h] = "running" /\ \A q \in Plugins : q # h => state'[q] = state[q]
    BY <2>1, SetsState
  <2>3. Decides(c, h)
    BY <1>0, <1>2, <2>1, <2>2 DEF Decides, Marks, Settles
  <2> QED  BY <1>0, <1>b, <2>1, <2>3, LaunchAdvances
<1>4. CASE LaunchFails(c) \/ RecoveryFails(c)
  <2>1. /\ state' = [state EXCEPT ![h] = "refused"] /\ def' = def /\ attempt' = [attempt EXCEPT ![h] = FALSE]
        /\ target' = target /\ pc'[c] = "resolving"
    BY <1>4, <1>b DEF LaunchFails, RecoveryFails, Refused, PlacesOK
  <2>2. state'[h] = "refused" /\ \A q \in Plugins : q # h => state'[q] = state[q] /\ attempt'[q] = attempt[q]
    BY <2>1 DEF RegistryOK
  <2>3. Decides(c, h)
    BY <1>0, <1>2, <2>1, <2>2 DEF Decides, Marks, Settles
  <2> QED  BY <1>0, <1>b, <2>1, <2>3, LaunchAdvances
<1>5. CASE LaunchMisfits(c)
  <2>1. state' = state /\ def' = def /\ attempt' = attempt /\ target' = target /\ pc'[c] = "recovering"
    BY <1>5 DEF LaunchMisfits, PlacesOK
  <2>2. AllMarked'
    BY <1>0, <2>1, MarksStay DEF AllMarked
  <2>3. Starting(c)' /\ \A q : Ahead(c, q)' <=> Ahead(c, q)
    BY <1>0, <2>1 DEF Starting, Ahead
  <2>4. \A p \in Plugins : Settles(p) => Settles(p)'
    BY <1>0, <2>1, SettlesAll
  <2>5. ListOK(c)'
    BY <1>0, <2>1, ListStays DEF PassOK
  <2>6. \A p \in Plugins : Ahead(c, p)' \/ Behind(c, p)'
    BY <2>1, <2>3, <2>4 DEF PassOK, Behind
  <2> QED  BY <2>2, <2>5, <2>6 DEF PassOK
<1>6. CASE Recovered(c)
  <2>1. StartOf(c, h, TRUE)
    BY <1>6, <1>b DEF Recovered
  <2>2. Decides(c, h)
    BY <1>0, <1>2, <2>1, StartOfDecides
  <2>3. pc'[c] = "resolving" => target' = target
    <3>1. pc'[c] = "resolving" => ~StartRegistered(c, h, TRUE)
      BY DEF StartRegistered, PlacesOK
    <3> QED  BY <2>1, <3>1 DEF StartOf, StartUnreadable, StartUnavailable, StartRefused
  <2> QED  BY <1>0, <1>b, <2>2, <2>3, LaunchAdvances
<1> QED  BY <1>3, <1>4, <1>5, <1>6

\* A switch turned off: its dependents and the plugin itself stop and are left.
LEMMA DisableResolves ==
  ASSUME Types, NEW c \in Coroutines, job[c].id \in Plugins, AllMarked,
         pc[c] = "begin" => Calm /\ \A p \in Plugins : Settles(p),
         Halting(c) => Halts(c) /\ SwitchOK(c),
         BeginDisable(c) \/ StopDependent(c) \/ StopItself(c) \/ Halt(c)
  PROVE  AllMarked' /\ SwitchOK(c)'
<1> USE DEF Types
<1>a. PICK p \in Plugins : p = job[c].id
  OBVIOUS
<1>0. job' = job /\ def' = def /\ attempt' = attempt
  BY DEF BeginDisable, StopDependent, StopItself, Halt
<1>1. ASSUME NEW h \in Plugins, NEW s, state' = [state EXCEPT ![h] = s], disabled' = disabled, SwitchOK(c),
             state[h] \in {"running", "stopping"}, s \in {"stopping", "waiting", "disabled"}
      PROVE  AllMarked' /\ SwitchOK(c)'
  <2>1. state'[h] = s /\ \A q \in Plugins : q # h => state'[q] = state[q]
    BY <1>1, SetsState
  <2>2. Marks(h) /\ def[h] # Unreadable
    BY <1>1 DEF AllMarked, Marks
  <2>3. Marks(h)'
    BY <1>0, <1>1, <2>1, <2>2 DEF Marks
  <2>4. AllMarked'
    BY <1>0, <1>1, <2>1, <2>3, MarkedAgain
  <2>5. SwitchOK(c)'
    BY <1>0, <1>1, <2>1, <2>2 DEF SwitchOK
  <2> QED  BY <2>4, <2>5
<1>2. CASE BeginDisable(c)
  <2>1. /\ pc[c] = "begin" /\ disabled' = disabled \cup {p}
        /\ state' = [state EXCEPT ![p] = IF state[p] = "running" THEN "stopping" ELSE state[p]]
    BY <1>2, <1>a DEF BeginDisable, Begins, RunsAt
  <2>2. (state'[p] = IF state[p] = "running" THEN "stopping" ELSE state[p]) /\ \A q \in Plugins : q # p => state'[q] = state[q]
    BY <2>1, SetsState
  <2>3. Marks(p) /\ state[p] # "starting" /\ \A q \in Plugins : Settles(q)
    BY <2>1 DEF AllMarked, Calm, Plain
  <2>4. Marks(p)'
    BY <1>0, <2>1, <2>2, <2>3 DEF Marks
  <2>5. \A q \in Plugins : q # p => Marks(q)'
    BY <1>0, <2>1, <2>2, MarksStay DEF AllMarked
  <2>6. AllMarked'
    BY <2>4, <2>5 DEF AllMarked
  <2>7. SwitchOK(c)'
    BY <1>0, <1>a, <2>1, <2>2, <2>3 DEF SwitchOK, Settles
  <2> QED  BY <2>6, <2>7
<1>3. CASE StopDependent(c)
  <2> DEFINE s == todo[c]
  <2>1. /\ Halts(c) /\ SwitchOK(c) /\ s # <<>> /\ s \in Seq(Plugins) /\ disabled' = disabled
        /\ state' = [state EXCEPT ![Head(s)] = "stopping"]
    BY <1>3 DEF StopDependent, RunsAt, Halting, Stop, WorkOK
  <2> HIDE DEF s
  <2>2. Head(s) \in Plugins /\ InSeq(s, Head(s))
    BY <2>1, TailHas
  <2>3. PICK h \in Plugins : h = Head(s)
    BY <2>2
  <2>4. state[h] = "running"
    BY <2>1, <2>2, <2>3 DEF Halts, s
  <2> QED  BY <1>1, <2>1, <2>3, <2>4
<1>4. CASE StopItself(c)
  <2>1. /\ SwitchOK(c) /\ disabled' = disabled /\ state[p] = "stopping" /\ state' = [state EXCEPT ![p] = "stopping"]
    BY <1>4, <1>a DEF StopItself, RunsAt, Halting, Stop
  <2> QED  BY <1>1, <2>1
<1>5. CASE Halt(c)
  <2>1. Halts(c) /\ SwitchOK(c) /\ pc[c] = "halting" /\ disabled' = disabled
    BY <1>5 DEF Halt, ResumesAt, Halting
  <2>2. target[c] \in Plugins /\ state[target[c]] = "stopping"
    BY <2>1 DEF Halts, WorkOK, Awaits
  <2>3. PICK h \in Plugins : h = target[c]
    BY <2>2
  <2>4. \E s \in {"waiting", "disabled"} : state' = [state EXCEPT ![h] = s]
    BY <1>5, <2>3 DEF Halt
  <2> QED  BY <1>1, <2>1, <2>2, <2>3, <2>4
<1> QED  BY <1>2, <1>3, <1>4, <1>5

\* What begins a pass: a plugin turned off, turned on or erased.
LEMMA SwitchResolves ==
  ASSUME Types, NEW c \in Coroutines, job[c].id \in Plugins, AllMarked,
         pc[c] \in {"begin", "erasing"} => Calm /\ \A p \in Plugins : Settles(p),
         Halting(c) => Halts(c) /\ SwitchOK(c),
         Disabled(c) \/ BeginEnable(c) \/ Erased(c)
  PROVE  AllMarked' /\ PassOK(c)'
<1> USE DEF Types
<1>a. PICK p \in Plugins : p = job[c].id
  OBVIOUS
<1>b. pc'[c] = "resolving" /\ todo'[c] = Ordered(def').order /\ cyclic' = Ordered(def').cyclic
  <2>1. pc' = [pc EXCEPT ![c] = "resolving"] /\ Resolve(c, def')
    BY DEF Disabled, BeginEnable, Erased
  <2> QED  BY <2>1 DEF PlacesOK, WorkOK, Resolve
<1>1. CASE Disabled(c)
  <2>1. Halts(c) /\ SwitchOK(c) /\ state' = [state EXCEPT ![p] = "disabled"] /\ def' = def /\ attempt' = attempt /\ disabled' = disabled
    BY <1>1, <1>a DEF Disabled, RunsAt, Halting
  <2>2. state'[p] = "disabled" /\ \A q \in Plugins : q # p => state'[q] = state[q]
    BY <2>1, SetsState
  <2>3. p \in disabled /\ \A q \in Plugins : def[q] = Unreadable /\ q # p => (q \in disabled <=> state[q] = "disabled")
    BY <1>a, <2>1 DEF SwitchOK
  <2>4. Marks(p)'
    BY <2>1, <2>2, <2>3 DEF Marks
  <2>5. AllMarked'
    BY <2>1, <2>2, <2>4, MarkedAgain
  <2>6. \A q \in Plugins : def'[q] = Unreadable => state'[q] \in {"disabled", "refused"} /\ (q \in disabled' <=> state'[q] = "disabled")
    BY <2>1, <2>2, <2>3 DEF AllMarked, Marks
  <2>7. def' \in [Plugins -> Texts]
    BY <2>1 DEF RegistryOK
  <2> QED  BY <1>b, <2>5, <2>6, <2>7, PassBegins
<1>2. ASSUME NEW s, state'[p] = s, def'[p] = folder[p], def' = [def EXCEPT ![p] = folder[p]], p \notin disabled',
             \A q \in Plugins : q # p => state'[q] = state[q] /\ attempt'[q] = attempt[q] /\ (q \in disabled' <=> q \in disabled),
             s \notin {"running", "starting", "disabled"}, def'[p] = Unreadable => s = "refused",
             attempt'[p] \/ s = "refused", \A q \in Plugins : Settles(q)
      PROVE  AllMarked' /\ PassOK(c)'
  <2>1. def' \in [Plugins -> Texts] /\ \A q \in Plugins : q # p => def'[q] = def[q]
    BY <1>2 DEF RegistryOK
  <2>2. Marks(p)'
    BY <1>2 DEF Marks
  <2>3. \A q \in Plugins : q # p => Marks(q)'
    BY <1>2, <2>1, MarksStay DEF AllMarked
  <2>4. AllMarked'
    BY <2>2, <2>3 DEF AllMarked
  <2>5. \A q \in Plugins : def'[q] = Unreadable => state'[q] \in {"disabled", "refused"} /\ (q \in disabled' <=> state'[q] = "disabled")
    BY <1>2, <2>1 DEF AllMarked, Marks, Settles
  <2> QED  BY <1>b, <2>1, <2>4, <2>5, PassBegins
<1>3. CASE BeginEnable(c)
  <2> DEFINE read == folder[p] # Unreadable
  <2>1. /\ state[p] # "running" /\ disabled' = disabled \ {p} /\ def' = [def EXCEPT ![p] = folder[p]]
        /\ attempt' = [attempt EXCEPT ![p] = read]
        /\ state' = [state EXCEPT ![p] = IF read THEN "waiting" ELSE "refused"]
        /\ \A q \in Plugins : Settles(q)
    BY <1>3, <1>a DEF BeginEnable, Begins, RunsAt, Reread
  <2>2. /\ state'[p] = IF read THEN "waiting" ELSE "refused"
        /\ def'[p] = folder[p] /\ attempt'[p] = read
        /\ \A q \in Plugins : q # p => state'[q] = state[q] /\ attempt'[q] = attempt[q]
    BY <2>1 DEF RegistryOK
  <2>3. PICK s \in {"waiting", "refused"} : state'[p] = s /\ (read <=> s = "waiting")
    BY <2>2
  <2>4. p \notin disabled' /\ \A q \in Plugins : q # p => (q \in disabled' <=> q \in disabled)
    BY <2>1
  <2>5. (def'[p] = Unreadable => s = "refused") /\ (attempt'[p] \/ s = "refused")
    BY <2>2, <2>3
  <2> QED  BY <1>2, <2>1, <2>2, <2>3, <2>4, <2>5
<1>4. CASE Erased(c)
  <2> DEFINE read == folder[p] # Unreadable
  <2>1. /\ pc[c] = "erasing" /\ p \notin disabled /\ p \notin Started /\ disabled' = disabled /\ def' = [def EXCEPT ![p] = folder[p]]
        /\ attempt' = [attempt EXCEPT ![p] = TRUE]
        /\ state' = [state EXCEPT ![p] = IF read THEN state[p] ELSE "refused"]
    BY <1>4, <1>a DEF Erased, ResumesAt, Reread
  <2>2. /\ state'[p] = IF read THEN state[p] ELSE "refused"
        /\ def'[p] = folder[p] /\ attempt'[p] = TRUE
        /\ \A q \in Plugins : q # p => state'[q] = state[q] /\ attempt'[q] = attempt[q]
    BY <2>1 DEF RegistryOK
  <2>3. state[p] \notin {"running", "starting", "disabled"} /\ \A q \in Plugins : Settles(q)
    BY <2>1 DEF Calm, Plain, Settles
  <2> QED  BY <1>2, <2>1, <2>2, <2>3
<1> QED  BY <1>1, <1>3, <1>4

\* What the coroutine that holds the switch leaves.
LEMMA ActResolves ==
  ASSUME Control, NEW c \in Coroutines, pc[c] \in Changes, ~Closes, InPlace(c), Resolves(c), AllMarked,
         Step(c) \/ Launch(c), ~Wake(c)
  PROVE  /\ AllMarked'
         /\ \/ pc'[c] \in {"resolving", "launching", "recovering"} /\ PassOK(c)'
            \/ pc'[c] \in {"disabling", "halting"} /\ SwitchOK(c)'
            \/ ~Passing(c)' /\ ~Halting(c)' /\ \A p \in Plugins : Settles(p)'
<1>0. Types /\ PlacesOK
  BY DEF Control, Types
<1>1. pc[c] \in {"begin", "erasing"} => Calm /\ \A p \in Plugins : Settles(p)
  BY DEF InPlace, Resolves, Starting, Halting, Passing
<1>2. Halting(c) => Halts(c) /\ SwitchOK(c)
  BY DEF InPlace, Resolves
<1>3. Passing(c) => PassOK(c)
  BY DEF Resolves
<1>4. pc[c] \in {"disabling", "halting", "erasing"} \/ (pc[c] = "begin" /\ job[c].kind # "none") => job[c].id \in Plugins
  <2> SUFFICES ASSUME pc[c] \in {"disabling", "halting", "erasing"} \/ (pc[c] = "begin" /\ job[c].kind # "none")
               PROVE  job[c].id \in Plugins
    OBVIOUS
  <2>1. c \in Clicks
    BY <1>0, WhoIsWhere, LifecycleAssumption DEF Types, WorkOK, Coroutines
  <2> QED  BY <1>0, <2>1 DEF Types, WorkOK
<1>5. CASE Pass(c) \/ TurnedOff(c) \/ Refuse(c) \/ Wait(c) \/ Start(c)
  <2>1. pc[c] = "resolving" /\ Visit(c)
    BY <1>5 DEF Pass, TurnedOff, Refuse, Wait, Start, RunsAt
  <2>2. AllMarked' /\ PassOK(c)'
    BY <1>0, <1>3, <1>5, <2>1, PassResolves DEF Passing
  <2>3. pc'[c] \in {"resolving", "launching"}
    <3>1. CASE Start(c)
      <4>1. PICK p : StartOf(c, p, FALSE)
        BY <3>1 DEF Start
      <4> QED  BY <1>0, <4>1, StartOfShapes DEF PlacesOK
    <3>2. CASE ~Start(c)
      <4>1. pc' = pc
        BY <1>5, <3>2 DEF Pass, TurnedOff, Refuse, Wait
      <4> QED  BY <2>1, <4>1
    <3> QED  BY <3>1, <3>2
  <2> QED  BY <2>2, <2>3
<1>6. CASE Launch(c) \/ Recovered(c) \/ RecoveryFails(c)
  <2>1. Starting(c)
    BY <1>6 DEF Launch, Launched, LaunchFails, LaunchMisfits, Recovered, RecoveryFails, ResumesAt, Starting
  <2>2. Starts(c) /\ PassOK(c)
    BY <1>3, <2>1 DEF InPlace, Starting, Passing
  <2>3. AllMarked' /\ PassOK(c)'
    BY <1>0, <1>6, <2>2, LaunchResolves DEF Launch
  <2>4. pc'[c] \in {"resolving", "launching", "recovering"}
    <3>1. CASE Recovered(c)
      <4>1. PICK p : StartOf(c, p, TRUE)
        BY <3>1 DEF Recovered
      <4> QED  BY <1>0, <4>1, StartOfShapes DEF PlacesOK
    <3>2. CASE ~Recovered(c)
      BY <1>0, <1>6, <3>2 DEF Launch, Launched, LaunchFails, LaunchMisfits, RecoveryFails, PlacesOK
    <3> QED  BY <3>1, <3>2
  <2> QED  BY <2>3, <2>4
<1>7. CASE BeginDisable(c) \/ StopDependent(c) \/ StopItself(c) \/ Halt(c)
  <2>1. pc[c] \in {"disabling", "halting"} \/ (pc[c] = "begin" /\ job[c].kind # "none")
    BY <1>7 DEF BeginDisable, StopDependent, StopItself, Halt, Begins, RunsAt, ResumesAt
  <2>2. AllMarked' /\ SwitchOK(c)'
    BY <1>0, <1>1, <1>2, <1>4, <1>7, <2>1, DisableResolves
  <2>3. pc'[c] \in {"disabling", "halting"}
    BY <1>0, <1>7 DEF BeginDisable, StopDependent, StopItself, Stop, Halt, PlacesOK
  <2> QED  BY <2>2, <2>3
<1>8. CASE Disabled(c) \/ BeginEnable(c) \/ Erased(c)
  <2>1. pc[c] \in {"disabling", "erasing"} \/ (pc[c] = "begin" /\ job[c].kind # "none")
    BY <1>8 DEF Disabled, BeginEnable, Erased, Begins, RunsAt, ResumesAt
  <2>2. AllMarked' /\ PassOK(c)'
    BY <1>0, <1>1, <1>2, <1>4, <1>8, <2>1, SwitchResolves
  <2>3. pc'[c] = "resolving"
    BY <1>0, <1>8 DEF Disabled, BeginEnable, Erased, PlacesOK
  <2> QED  BY <2>2, <2>3
<1>9. CASE Resolved(c) \/ BeginNothing(c) \/ ErasedOnly(c) \/ BeginErase(c)
  <2>1. state' = state /\ def' = def /\ attempt' = attempt /\ disabled' = disabled
    BY <1>9 DEF Resolved, BeginNothing, ErasedOnly, BeginErase, registry
  <2>2. AllMarked'
    BY <2>1, MarksStay DEF AllMarked
  <2>3. \A p \in Plugins : Settles(p)
    <3>1. CASE Resolved(c)
      <4>1. todo[c] = <<>> /\ pc[c] = "resolving"
        BY <3>1 DEF Resolved, RunsAt
      <4>2. Len(todo[c]) = 0
        BY <4>1
      <4>3. \A p : ~Ahead(c, p)
        BY <4>1, <4>2 DEF Ahead, InSeq, Starting
      <4> QED  BY <1>3, <4>1, <4>3 DEF PassOK, Behind, Passing
    <3>2. CASE ~Resolved(c)
      <4>1. pc[c] \in {"begin", "erasing"}
        BY <1>9, <3>2 DEF BeginNothing, ErasedOnly, BeginErase, Begins, RunsAt, ResumesAt
      <4> QED  BY <1>1, <4>1
    <3> QED  BY <3>1, <3>2
  <2>4. \A p \in Plugins : Settles(p)'
    BY <2>1, <2>3, SettlesAll
  <2>5. pc'[c] \in {"done", "erasing"}
    <3>1. CASE Resolved(c) /\ c = Boot
      BY <1>0, <3>1 DEF Resolved, PlacesOK
    <3>2. CASE Leave(c)
      <4>1. CASE waiting = <<>>
        BY <1>0, <3>2, <4>1 DEF Leave, PlacesOK
      <4>2. CASE waiting # <<>>
        <5>1. pc' = [pc EXCEPT ![c] = "done", ![Head(waiting)] = "woken"]
          BY <3>2, <4>2 DEF Leave
        <5>2. pc[Head(waiting)] = "queued" /\ Head(waiting) \in Coroutines
          BY <1>0, <4>2, QueueHead DEF Control, Types, Coroutines
        <5>3. Head(waiting) # c
          BY <5>2 DEF Changes
        <5> QED  BY <1>0, <5>1, <5>2, <5>3 DEF PlacesOK
      <4> QED  BY <4>1, <4>2
    <3>3. CASE BeginErase(c)
      BY <1>0, <3>3 DEF BeginErase, PlacesOK
    <3> QED  BY <1>9, <3>1, <3>2, <3>3 DEF Resolved, BeginNothing, ErasedOnly
  <2>6. ~Passing(c)' /\ ~Halting(c)'
    BY <2>5 DEF Passing, Halting
  <2> QED  BY <2>2, <2>4, <2>6
<1> QED  BY <1>5, <1>6, <1>7, <1>8, <1>9 DEF Step

LEMMA ActRests ==
  ASSUME Control, Quiet, Orderly, Placed, Resting,
         NEW c \in Coroutines, Step(c) \/ Launch(c), ~Wake(c)
  PROVE  Resting'
<1> USE DEF Control
<1>1. pc[c] \in Changes /\ (turn = c \/ (turn = Nobody /\ ~Over))
  BY StepBegins
<1>2. c # Closer /\ Closer \in Coroutines
  BY CloserChangesNothing DEF Coroutines
<1>3. Inside(c) /\ Alone(c)
  <2>1. Inside(c)
    BY <1>1 DEF Inside, Outside, Changes
  <2> QED  BY <2>1, OneInside DEF Alone
<1>4. ~Closes
  <2>1. CASE pc[Closer] = "done"
    BY <1>1, <2>1, LifecycleAssumption DEF Quiet, Over
  <2>2. CASE pc[Closer] # "done" /\ Closes
    <3>1. Inside(Closer)
      BY <2>2 DEF Closes, Inside, Outside
    <3> QED  BY <1>2, <1>3, <3>1 DEF Alone
  <2> QED  BY <2>1, <2>2
<1>5. Bystanders(c)
  BY OthersStay
<1>6. \A d \in Coroutines : d # c => pc'[d] \in Outside
  <2> SUFFICES ASSUME NEW d \in Coroutines, d # c PROVE pc'[d] \in Outside
    OBVIOUS
  <2>1. pc[d] \in Outside
    BY <1>3 DEF Alone, Inside
  <2> QED  BY <1>5, <2>1 DEF Bystanders, Outside
<1>7. InPlace(c) /\ Resolves(c) /\ AllMarked
  BY <1>3, <1>4 DEF Placed, Resting, AllMarked
<1>8. /\ AllMarked'
      /\ \/ pc'[c] \in {"resolving", "launching", "recovering"} /\ PassOK(c)'
         \/ pc'[c] \in {"disabling", "halting"} /\ SwitchOK(c)'
         \/ ~Passing(c)' /\ ~Halting(c)' /\ \A p \in Plugins : Settles(p)'
  BY <1>1, <1>4, <1>7, ActResolves
<1>9. Resolves(c)'
  BY <1>8 DEF Resolves, Passing, Halting
<1>10. \A d \in Coroutines : Alone(d)' => Resolves(d)'
  <2> SUFFICES ASSUME NEW d \in Coroutines, Alone(d)', d # c PROVE Resolves(d)'
    BY <1>9
  <2>1. pc'[c] \in Outside
    BY DEF Alone, Inside
  <2>2. \A p \in Plugins : Settles(p)'
    BY <1>8, <2>1 DEF Outside
  <2>3. ~Passing(d)' /\ ~Halting(d)'
    BY <1>6 DEF Passing, Halting, Outside
  <2> QED  BY <2>2, <2>3 DEF Resolves
<1> QED  BY <1>8, <1>10 DEF Resting, AllMarked

\* A step that decides on no plugin and at most calls exclusive().
LEMMA StandingRests ==
  ASSUME Resting, Closer \in Coroutines, UNCHANGED <<state, def, attempt, disabled, cyclic, todo, target>>,
         \A d \in Coroutines : \/ pc'[d] = pc[d] /\ job'[d] = job[d]
                               \/ pc[d] \in {"idle", "woken"} /\ pc'[d] \in {"queued", "begin"}
  PROVE  Resting'
<1>1. Closes <=> Closes'
  BY DEF Closes
<1>2. \A p \in Plugins : Marks(p) => Marks(p)'
  BY MarksStay
<1>3. Running' = Running /\ \A p \in Plugins : Settles(p) => Settles(p)'
  BY SettlesAll DEF Running
<1>4. ASSUME NEW d \in Coroutines, Alone(d)' PROVE Alone(d)
  <2> SUFFICES ASSUME NEW e \in Coroutines, Inside(e) PROVE e = d
    BY DEF Alone
  <2>1. pc'[e] = pc[e]
    BY DEF Inside, Outside
  <2> QED  BY <1>4, <2>1 DEF Alone, Inside
<1>5. ASSUME NEW d \in Coroutines, Resolves(d) PROVE Resolves(d)'
  <2>1. CASE pc'[d] = pc[d] /\ job'[d] = job[d]
    <3>1. (Starting(d) <=> Starting(d)') /\ (Passing(d) <=> Passing(d)') /\ (Halting(d) <=> Halting(d)')
      BY <2>1 DEF Starting, Passing, Halting
    <3>2. ListOK(d) => ListOK(d)'
      BY <3>1 DEF ListOK, Lined
    <3>3. \A p : Ahead(d, p)' <=> Ahead(d, p)
      BY <3>1 DEF Ahead
    <3>4. \A p \in Plugins : Behind(d, p) => Behind(d, p)'
      BY <1>3, <3>3 DEF Behind
    <3>5. PassOK(d) => PassOK(d)'
      BY <3>2, <3>3, <3>4 DEF PassOK
    <3>6. SwitchOK(d) => SwitchOK(d)'
      BY <2>1 DEF SwitchOK
    <3> QED  BY <1>3, <1>5, <3>1, <3>5, <3>6 DEF Resolves
  <2>2. CASE pc[d] \in {"idle", "woken"} /\ pc'[d] \in {"queued", "begin"}
    <3>1. ~Passing(d) /\ ~Halting(d) /\ ~Passing(d)' /\ ~Halting(d)'
      BY <2>2 DEF Passing, Halting
    <3> QED  BY <1>3, <1>5, <3>1 DEF Resolves
  <2> QED  BY <2>1, <2>2
<1> QED  BY <1>1, <1>2, <1>4, <1>5 DEF Resting

LEMMA RestingStep ==
  ASSUME Control, Quiet, Budget, Orderly, Placed, Resting, [Next]_vars
  PROVE  Resting'
<1> USE DEF Control
<1>0. Boot \in Coroutines /\ Closer \in Coroutines /\ Clicks \subseteq Coroutines /\ Types /\ PlacesOK
  BY DEF Coroutines, Types
<1>1. ASSUME NEW c \in Coroutines, Enter(c), pc[c] \in {"idle", "woken"}, \A d \in Coroutines : d # c => job'[d] = job[d],
             UNCHANGED <<registry, cyclic, todo, target>>
      PROVE  Resting'
  <2>1. pc'[c] \in {"queued", "begin"} /\ \A d \in Coroutines : d # c => pc'[d] = pc[d]
    BY <1>0, <1>1 DEF Enter, PlacesOK
  <2>2. \A d \in Coroutines : \/ pc'[d] = pc[d] /\ job'[d] = job[d]
                              \/ pc[d] \in {"idle", "woken"} /\ pc'[d] \in {"queued", "begin"}
    BY <1>1, <2>1
  <2>3. UNCHANGED <<state, def, attempt, disabled, cyclic, todo, target>>
    BY <1>1 DEF registry
  <2> QED  BY <1>0, <2>2, <2>3, StandingRests
<1>2. ASSUME NEW c \in Coroutines, Step(c) \/ Launch(c) PROVE Resting'
  <2>1. CASE Wake(c)
    BY <1>1, <2>1 DEF Wake, ResumesAt
  <2>2. CASE ~Wake(c)
    BY <1>2, <2>2, ActRests
  <2> QED  BY <2>1, <2>2
<1>3. ASSUME NEW c \in Clicks, NEW kind \in Kinds, NEW p \in Plugins, Press(c, kind, p) PROVE Resting'
  <2>1. job \in [Coroutines -> Jobs]
    BY <1>0 DEF Types, WorkOK
  <2>2. \A d \in Coroutines : d # c => job'[d] = job[d]
    BY <1>3, <2>1 DEF Press
  <2> QED  BY <1>0, <1>1, <1>3, <2>2 DEF Press
<1>4. ASSUME Quit PROVE Resting'
  <2>1. pc[Closer] = "idle"
    BY <1>4 DEF Quit, Phases
  <2> QED  BY <1>0, <1>1, <1>4, <2>1 DEF Quit
<1>5. ASSUME \/ BeginClose \/ CloseReaderLater \/ CloseNext \/ CloseHands \/ Handed \/ CloseReader \/ Settle \/ Closed
      PROVE  Resting'
  <2>1. Closes'
    BY <1>5, ClosingKeepsPlace
  <2> QED  BY <2>1 DEF Resting
<1>6. ASSUME Stopped \/ OutOfTime \/ (\E p \in Plugins : \E text \in Authored[p] : Edit(p, text))
             \/ (\E p \in Plugins : StopReturns(p)) \/ UNCHANGED vars
      PROVE  Resting'
  <2>1. UNCHANGED <<state, def, attempt, disabled, cyclic, todo, target, pc, job>>
    BY <1>6 DEF Stopped, OutOfTime, Edit, StopReturns, vars, registry, change, ending
  <2> QED  BY <1>0, <2>1, StandingRests
<1>7. Closing => Resting'
  BY <1>5, <1>6 DEF Closing
<1> QED  BY <1>2, <1>3, <1>4, <1>6, <1>7 DEF Next

\* Whatever a change did, the plugins it went by are left as their switches, their
\* definitions and the plugins that run say.
THEOREM RestingInvariance == Spec => [](Orderly => Resting)
<1>1. Init => (Orderly => Resting)
  <2> SUFFICES ASSUME Init PROVE Resting
    OBVIOUS
  <2>0. Boot \in Coroutines /\ def \in [Plugins -> Texts]
    BY InstalledTypes DEF Init, Coroutines
  <2>1. \A p \in Plugins : /\ def[p] # Unreadable => state[p] = "discovered"
                           /\ def[p] = Unreadable => state[p] \in {"disabled", "refused"} /\ (p \in disabled <=> state[p] = "disabled")
                           /\ attempt[p]
    BY DEF Init
  <2>2. \A p \in Plugins : Marks(p)
    BY <2>1 DEF Marks
  <2>3. /\ todo[Boot] = Ordered(def).order /\ cyclic = Ordered(def).cyclic /\ pc[Boot] = "resolving"
        /\ \A c \in Coroutines : c # Boot => pc[c] = "idle"
    BY <2>0 DEF Init
  <2>4. FullList(todo[Boot], cyclic, def)
    BY <2>0, <2>3, OrderedFull
  <2>5. ~Starting(Boot) /\ ~Halting(Boot)
    BY <2>3 DEF Starting, Halting
  <2>6. ListOK(Boot)
    BY <2>4, <2>5 DEF ListOK, Lined, FullList
  <2>7. ASSUME NEW p \in Plugins PROVE Ahead(Boot, p) \/ Behind(Boot, p)
    <3>1. CASE def[p] # Unreadable
      BY <2>4, <3>1 DEF Ahead, FullList
    <3>2. CASE def[p] = Unreadable
      <4>1. state[p] \in {"disabled", "refused"} /\ (p \in disabled <=> state[p] = "disabled")
        BY <2>1, <3>2
      <4> QED  BY <4>1 DEF Behind, Settles
    <3> QED  BY <3>1, <3>2
  <2>8. Resolves(Boot)
    BY <2>3, <2>5, <2>6, <2>7 DEF Resolves, PassOK, Passing
  <2>9. ASSUME NEW c \in Coroutines, Alone(c) PROVE c = Boot
    <3>1. Inside(Boot)
      BY <2>3 DEF Inside, Outside
    <3> QED  BY <2>0, <2>9, <3>1 DEF Alone
  <2> QED  BY <2>2, <2>8, <2>9 DEF Resting
<1>2. Control /\ Quiet /\ Budget /\ (Orderly => Placed) /\ (Orderly => Resting) /\ [Next]_vars => (Orderly => Resting)'
  BY OrderlyBefore, RestingStep
<1> QED  BY <1>1, <1>2, ControlInvariance, QuietInvariance, ClosingFitsBudget, PlacedInvariance, PTL DEF Spec

\* Between two changes nothing is half way, the registry holds exactly what runs, no plugin
\* waits whose dependencies all run, and none runs that is turned off.
THEOREM ChangesSettle == Spec => [](Orderly => Settled)
<1>1. Control /\ (Orderly => Placed) /\ (Orderly => Resting) => (Orderly => Settled)
  <2> SUFFICES ASSUME Control, Placed, Resting, Booted, ~Changing, ~quit PROVE
        \A p \in Plugins :
            /\ state[p] \notin {"discovered", "starting", "stopping"}
            /\ state[p] = "running" <=> p \in Started
            /\ state[p] = "running" => p \notin disabled
            /\ p \in disabled <=> state[p] = "disabled"
            /\ state[p] = "waiting" => Blocking(def[p], Running) = "inactive"
    BY DEF Settled
  <2>1. ~Closes
    BY DEF Control, Phases, Closes
  <2>2. Boot \in Coroutines /\ Alone(Boot) /\ pc[Boot] \in Outside
    BY DEF Changing, Alone, Inside, Coroutines
  <2>3. ~Passing(Boot) /\ ~Halting(Boot) /\ ~Starting(Boot)
    BY <2>2 DEF Passing, Halting, Starting, Outside
  <2>4. Calm
    BY <2>1, <2>2, <2>3 DEF Placed, InPlace
  <2>5. \A p \in Plugins : Marks(p) /\ Settles(p)
    BY <2>1, <2>2, <2>3 DEF Resting, Resolves
  <2> QED  BY <2>4, <2>5 DEF Calm, Plain, Marks, Settles
<1>2. Spec => [](Orderly => Placed)
  BY PlacedInvariance
<1>3. Spec => [](Orderly => Resting)
  BY RestingInvariance
<1> QED  BY <1>1, <1>2, <1>3, ControlInvariance, PTL

-----------------------------------------------------------------------------
(***************************************************************************)
(* Dependencies, of authors who change no dependency and of readers of the *)
(* log that rely on readers only:  README.md says what the code does of    *)
(* others.  Then what a plugin needs does not depend on when it is asked.  *)
(***************************************************************************)

\* What the folder of a plugin may hold, and what it needs.
TextsOf(p) == {Installed[p]} \cup Authored[p]
Deps(p) == UNION {Needs(text) : text \in TextsOf(p) \ {Unreadable}}

StableNeeds == \A p \in Plugins : \A a, b \in TextsOf(p) \ {Unreadable} : Needs(a) = Needs(b)
ReadersApart == \A p \in Readers : Deps(p) \subseteq Readers

Texted == \A p \in Plugins : folder[p] \in TextsOf(p) /\ def[p] \in TextsOf(p)

LEMMA TextedNeeds ==
  ASSUME StableNeeds, NEW p \in Plugins, NEW text \in TextsOf(p), text # Unreadable
  PROVE  Needs(text) = Deps(p)
BY DEF StableNeeds, Deps

\* A dependency stands before, runs or stops, and begins its stop after; no plugin that
\* runs or starts has begun its stop.
Grounded ==
    /\ \A p \in Plugins : p \in Started => def[p] # Unreadable
    /\ \A p \in Plugins : p \in Started =>
          \A d \in Deps(p) : d \in Plugins /\ Earlier(started, d, p) /\ state[d] \in {"running", "stopping"}
    /\ \A p \in Plugins : p \in Started /\ state[p] \in {"running", "starting"} => p \notin halted
    /\ \A p \in halted : \A q \in Plugins : q \in Started /\ p \in Deps(q) => q \in halted

LEMMA EarlierIs ==
  ASSUME NEW s, Distinct(s)
  PROVE  /\ \A d, e : Earlier(s, d, e) => InSeq(s, d) /\ InSeq(s, e) /\ ~Earlier(s, e, d) /\ d # e
         /\ \A d, e, f : Earlier(s, d, e) /\ Earlier(s, e, f) => Earlier(s, d, f)
<1>1. ASSUME NEW d, NEW e, Earlier(s, d, e), Earlier(s, e, d) PROVE FALSE
  <2>1. PICK i \in 1..Len(s), j \in 1..Len(s) : i < j /\ s[i] = d /\ s[j] = e
    BY <1>1 DEF Earlier
  <2>2. PICK k \in 1..Len(s), l \in 1..Len(s) : k < l /\ s[k] = e /\ s[l] = d
    BY <1>1 DEF Earlier
  <2>3. i = l /\ j = k
    BY <2>1, <2>2 DEF Distinct
  <2> QED  BY <2>1, <2>2, <2>3
<1>2. ASSUME NEW d, NEW e, NEW f, Earlier(s, d, e), Earlier(s, e, f) PROVE Earlier(s, d, f)
  <2>1. PICK i \in 1..Len(s), j \in 1..Len(s) : i < j /\ s[i] = d /\ s[j] = e
    BY <1>2 DEF Earlier
  <2>2. PICK k \in 1..Len(s), l \in 1..Len(s) : k < l /\ s[k] = e /\ s[l] = f
    BY <1>2 DEF Earlier
  <2>3. j = k
    BY <2>1, <2>2 DEF Distinct
  <2>4. i < l
    BY <2>1, <2>2, <2>3
  <2> QED  BY <2>1, <2>2, <2>4 DEF Earlier
<1>3. \A d, e : Earlier(s, d, e) => InSeq(s, d) /\ InSeq(s, e)
  BY DEF Earlier, InSeq
<1> QED  BY <1>1, <1>2, <1>3

\* Nothing blocks a definition whose dependencies all run, and only such a one.
LEMMA UnblockedRuns ==
  ASSUME NEW list, Len(list) \in Nat, NEW running, Blocking(list, running) = "none"
  PROVE  Needs(list) \subseteq running
<1> DEFINE bad == {i \in 1..Len(list) : list[i] \notin running}
<1>1. FirstBlocking(list, running) = 0
  BY DEF Blocking
<1>2. bad \in SUBSET Nat
  OBVIOUS
<1>3. SUFFICES ASSUME bad # {} PROVE FALSE
  BY DEF Needs
<1>4. PICK i \in bad : \A j \in bad : i <= j
  <2> HIDE DEF bad
  <2> QED  BY <1>2, <1>3, LeastNumber
<1>5. FirstBlocking(list, running) \in bad
  <2>1. FirstBlocking(list, running) = CHOOSE k \in bad : \A j \in bad : k <= j
    BY <1>3 DEF FirstBlocking
  <2> HIDE DEF bad
  <2> QED  BY <1>4, <2>1
<1> QED  BY <1>1, <1>5

\* The plugins that rely on p, and p, found in one pass over the list.
Found(p) == FoldLeft(LAMBDA f, q : IF Needs(def[q]) \cap f # {} THEN f \cup {q} ELSE f, {p}, started)

LEMMA FoundSteps ==
  ASSUME started \in Seq(Plugins), NEW p \in Plugins
  PROVE  \E found : /\ found[0] = {p} /\ Found(p) = found[Len(started)]
                    /\ \A k \in 1..Len(started) :
                         found[k] = IF Needs(def[started[k]]) \cap found[k - 1] # {}
                                    THEN found[k - 1] \cup {started[k]} ELSE found[k - 1]
<1> DEFINE n == Len(started)
           S == SUBSET Plugins
           Adds(m, f) == IF Needs(def[started[m]]) \cap f # {} THEN f \cup {started[m]} ELSE f
           Is(f) == f = [s \in SUBSET (1..n) |->
                            IF s = {} THEN {p} ELSE Adds(Max(s), f[s \ {Max(s)}])]
           step == [a \in (1..n) \X S |-> Adds(a[1], a[2])]
           run == CHOOSE f : Is(f)
<1>1. n \in Nat /\ DOMAIN started = 1..n /\ {p} \in S
  OBVIOUS
<1>2. step \in [(1..n) \X S -> S]
  <2>1. ASSUME NEW a \in (1..n) \X S PROVE Adds(a[1], a[2]) \in S
    <3>1. a[1] \in 1..n /\ a[2] \in S /\ started[a[1]] \in Plugins
      OBVIOUS
    <3> QED  BY <3>1
  <2> HIDE DEF Adds
  <2> QED  BY <2>1
<1>3. PICK g \in [SUBSET (1..n) -> S] : Folds(g, {p}, n, step)
  <2> HIDE DEF n, step, S
  <2> QED  BY <1>1, <1>2, FoldExists
<1>4. \A s \in SUBSET (1..n) : s # {} => Max(s) \in 1..n
  <2> SUFFICES ASSUME NEW s \in SUBSET (1..n), s # {} PROVE Max(s) \in 1..n
    OBVIOUS
  <2> HIDE DEF n
  <2>1. s \in SUBSET (0..n)
    BY <1>1
  <2>2. Max(s) \in s
    BY <1>1, <2>1, LargestIn
  <2> QED  BY <2>2
<1>5. Is(g)
  <2>1. \A s \in SUBSET (1..n) : s # {} => step[<<Max(s), g[s \ {Max(s)}]>>] = Adds(Max(s), g[s \ {Max(s)}])
    <3> SUFFICES ASSUME NEW s \in SUBSET (1..n), s # {}
                 PROVE  step[<<Max(s), g[s \ {Max(s)}]>>] = Adds(Max(s), g[s \ {Max(s)}])
      OBVIOUS
    <3>1. Max(s) \in 1..n /\ s \ {Max(s)} \in SUBSET (1..n)
      BY <1>4
    <3> HIDE DEF S
    <3>2. g[s \ {Max(s)}] \in S
      BY <3>1
    <3>3. <<Max(s), g[s \ {Max(s)}]>> \in (1..n) \X S
      BY <3>1, <3>2
    <3> HIDE DEF Adds
    <3> QED  BY <3>3
  <2> DEFINE h == [s \in SUBSET (1..n) |-> IF s = {} THEN {p} ELSE Adds(Max(s), g[s \ {Max(s)}])]
  <2>2. \A s \in SUBSET (1..n) : g[s] = h[s]
    <3> HIDE DEF Adds, step, n, S
    <3> QED  BY <1>3, <2>1 DEF Folds
  <2>3. h = [s \in SUBSET (1..n) |-> h[s]] /\ g = [s \in SUBSET (1..n) |-> g[s]]
    OBVIOUS
  <2>4. g = h
    <3> HIDE DEF h, n
    <3> QED  BY <2>2, <2>3
  <2> QED  BY <2>4
<1>6. Is(run)
  <2> HIDE DEF Is
  <2> QED  BY <1>5
<1>7. Found(p) = run[1..n]
  BY <1>1 DEF Found, FoldLeft, MapThenFoldSet
<1>8. ASSUME NEW k \in 1..n PROVE run[1..k] = Adds(k, run[1..(k - 1)])
  <2>1. k \in Nat /\ k # 0 /\ 1..k \in SUBSET (1..n) /\ 1..k # {}
    <3> HIDE DEF n
    <3>1. k \in Nat /\ k # 0 /\ k <= n
      BY <1>1
    <3>2. 1..k \subseteq 1..n
      BY <1>1, <3>1
    <3>3. k \in 1..k
      BY <3>1
    <3> QED  BY <3>1, <3>2, <3>3
  <2>2. Max(1..k) = k /\ (1..k) \ {k} = 1..(k - 1)
    BY <2>1, MaxOfFirst
  <2> HIDE DEF Adds, run, n
  <2> QED  BY <1>6, <2>1, <2>2
<1>9. run[1..0] = {p}
  <2>1. 1..0 \in SUBSET (1..n) /\ 1..0 = {}
    BY <1>1
  <2> HIDE DEF Adds, run, n
  <2> QED  BY <1>6, <2>1
<1> DEFINE found == [k \in 0..n |-> run[1..k]]
<1>10. found[0] = {p} /\ Found(p) = found[n]
  <2> HIDE DEF run, n
  <2> QED  BY <1>1, <1>7, <1>9
<1>11. ASSUME NEW k \in 1..n PROVE found[k] = Adds(k, found[k - 1])
  <2>1. k \in 0..n /\ k - 1 \in 0..n
    BY <1>1
  <2> HIDE DEF run, n, Adds
  <2> QED  BY <1>8, <2>1
<1> HIDE DEF found
<1> QED  BY <1>10, <1>11

\* The pass finds p, plugins behind it only, and every plugin that relies on one found,
\* since what a plugin relies on stands before it.
FoundAll(found, p) ==
    /\ p \in found /\ \A e \in found : e = p \/ Earlier(started, p, e)
    /\ \A q \in Plugins : q \in Started /\ Deps(q) \cap found # {} => q \in found

LEMMA FoundRight ==
  ASSUME Types, Distinct(started), Grounded, NEW p \in Plugins, \A q \in Plugins : q \in Started => Needs(def[q]) = Deps(q)
  PROVE  FoundAll(Found(p), p)
<1> DEFINE n == Len(started)
<1>1. started \in Seq(Plugins) /\ n \in Nat /\ \A k \in 1..n : started[k] \in Plugins /\ started[k] \in Started
  BY DEF Types, RegistryOK, Started
<1>2. PICK found : /\ found[0] = {p} /\ Found(p) = found[Len(started)]
                   /\ \A k \in 1..Len(started) :
                        found[k] = IF Needs(def[started[k]]) \cap found[k - 1] # {}
                                   THEN found[k - 1] \cup {started[k]} ELSE found[k - 1]
  BY <1>1, FoundSteps
<1> DEFINE Right(k) == /\ p \in found[k] /\ \A e \in found[k] : e = p \/ Earlier(started, p, e)
                       /\ \A m \in 1..k : Deps(started[m]) \cap found[k] # {} => started[m] \in found[k]
           T == {k \in 0..n : Right(k)}
<1>3. 0 \in T
  <2>1. Right(0)
    BY <1>2
  <2> QED  BY <1>1, <2>1
<1>4. ASSUME NEW k \in 0..n, k < n, k \in T PROVE k + 1 \in T
  <2> DEFINE m == k + 1
             q == started[m]
  <2>1. m \in 1..n /\ m \in 0..n /\ m - 1 = k /\ q \in Plugins /\ q \in Started /\ k \in Nat
    BY <1>1, <1>4
  <2>2. found[m] = IF Deps(q) \cap found[k] # {} THEN found[k] \cup {q} ELSE found[k]
    BY <1>2, <2>1
  <2>3. Right(k)
    BY <1>4
  <2>4. \A d \in Deps(q) : Earlier(started, d, q)
    BY <2>1 DEF Grounded
  <2>5. \A e \in found[m] : e = p \/ Earlier(started, p, e)
    <3> SUFFICES ASSUME NEW e \in found[m], e \notin found[k] PROVE Earlier(started, p, e)
      BY <2>3
    <3>1. e = q /\ Deps(q) \cap found[k] # {}
      BY <2>2
    <3>2. PICK d \in Deps(q) : d \in found[k]
      BY <3>1
    <3> HIDE DEF q, m
    <3>3. Earlier(started, d, q) /\ (d = p \/ Earlier(started, p, d))
      BY <2>3, <2>4, <3>2
    <3> QED  BY <3>1, <3>3, EarlierIs
  <2>6. ASSUME NEW l \in 1..m, Deps(started[l]) \cap found[m] # {} PROVE started[l] \in found[m]
    <3>1. PICK d \in Deps(started[l]) : d \in found[m]
      BY <2>6
    <3>2. l \in 1..n /\ (l = m \/ l \in 1..k)
      BY <1>1, <2>1
    <3>3. Earlier(started, d, started[l])
      BY <1>1, <3>2 DEF Grounded
    <3>4. CASE l = m
      <4>1. d # q
        <5> HIDE DEF q, m
        <5> QED  BY <3>3, <3>4, EarlierIs DEF q
      <4>2. d \in found[k] /\ d \in Deps(q)
        BY <2>2, <3>1, <3>4, <4>1
      <4> QED  BY <2>2, <3>4, <4>2
    <3>5. CASE l \in 1..k
      <4>1. d # q
        <5> SUFFICES ASSUME d = q PROVE FALSE
          OBVIOUS
        <5>1. l < m /\ l \in 1..n
          BY <2>1, <3>2, <3>5
        <5>2. Earlier(started, started[l], q)
          BY <2>1, <5>1 DEF Earlier
        <5> HIDE DEF q, m
        <5> QED  BY <3>3, <5>2, EarlierIs
      <4>2. d \in found[k]
        BY <2>2, <3>1, <4>1
      <4>3. started[l] \in found[k]
        BY <2>3, <3>1, <3>5, <4>2
      <4> HIDE DEF q, m
      <4> QED  BY <2>2, <4>3
    <3> HIDE DEF q, m
    <3> QED  BY <3>2, <3>4, <3>5
  <2>7. Right(m)
    BY <2>2, <2>3, <2>5, <2>6
  <2> QED  BY <2>1, <2>7
<1>5. \A k \in 0..n : k \in T
  <2> HIDE DEF T, n
  <2> QED  BY <1>1, <1>3, <1>4, Counting
<1>6. Right(n)
  BY <1>1, <1>5
<1>7. \A q \in Plugins : q \in Started => \E m \in 1..n : started[m] = q
  BY DEF Started
<1> QED  BY <1>2, <1>6, <1>7 DEF FoundAll

\* The steps that add or take no plugin and begin no stop.
LEMMA GroundStays ==
  ASSUME Grounded, started' = started, halted' = halted,
         \A p \in Plugins : p \in Started =>
            /\ def'[p] = def[p]
            /\ \/ state'[p] = state[p]
               \/ state[p] = "running" /\ state'[p] = "stopping"
               \/ state[p] = "starting" /\ state'[p] = "running"
  PROVE  Grounded'
<1>1. Started' = Started
  BY DEF Started
<1>2. \A p \in Plugins : p \in Started =>
          \A d \in Deps(p) : d \in Plugins /\ Earlier(started', d, p) /\ state'[d] \in {"running", "stopping"}
  <2> SUFFICES ASSUME NEW p \in Plugins, p \in Started, NEW d \in Deps(p)
               PROVE  d \in Plugins /\ Earlier(started', d, p) /\ state'[d] \in {"running", "stopping"}
    OBVIOUS
  <2>1. d \in Plugins /\ Earlier(started, d, p) /\ state[d] \in {"running", "stopping"}
    BY DEF Grounded
  <2>2. d \in Started
    BY <2>1, StartedHas DEF Earlier, InSeq
  <2> QED  BY <2>1, <2>2
<1>3. \A p \in Plugins : p \in Started /\ state'[p] \in {"running", "starting"} => p \notin halted
  BY DEF Grounded
<1> QED  BY <1>1, <1>2, <1>3 DEF Grounded

\* A stop begins of a plugin on which only plugins rely whose stops began.
LEMMA GroundStops ==
  ASSUME RegistryOK, Grounded, NEW p \in Plugins, state' = [state EXCEPT ![p] = "stopping"], halted' = halted \cup {p},
         started' = started, def' = def, \A q \in Plugins : q \in Started /\ p \in Deps(q) => q \in halted
  PROVE  Grounded'
<1>1. Started' = Started
  BY DEF Started
<1>2. state'[p] = "stopping" /\ \A q \in Plugins : q # p => state'[q] = state[q]
  BY SetsState
<1>3. \A q \in Plugins : q \in Started =>
          \A d \in Deps(q) : d \in Plugins /\ Earlier(started', d, q) /\ state'[d] \in {"running", "stopping"}
  BY <1>2 DEF Grounded
<1>4. \A q \in Plugins : q \in Started /\ state'[q] \in {"running", "starting"} => q \notin halted'
  BY <1>2 DEF Grounded
<1>5. \A r \in halted' : \A q \in Plugins : q \in Started /\ r \in Deps(q) => q \in halted'
  BY DEF Grounded
<1> QED  BY <1>1, <1>3, <1>4, <1>5 DEF Grounded

\* A plugin joins whose dependencies all run.
LEMMA GroundJoins ==
  ASSUME RegistryOK, Distinct(started), Grounded, halted \subseteq Plugins,
         NEW p \in Plugins, p \notin Started, state[p] # "running", Deps(p) \subseteq Running \cap Started,
         started' = Append(started, p), halted' = halted \ {p}, state' = [state EXCEPT ![p] = "starting"],
         def'[p] # Unreadable, \A q \in Plugins : q # p => def'[q] = def[q]
  PROVE  Grounded'
<1>1. Started' = Started \cup {p} /\ started \in Seq(Plugins)
  BY JoinsStarted DEF RegistryOK
<1>2. state'[p] = "starting" /\ \A q \in Plugins : q # p => state'[q] = state[q]
  BY SetsState
<1>3. \A d, e : Earlier(started', d, e) <=> Earlier(started, d, e) \/ (InSeq(started, d) /\ e = p)
  <2>1. ~InSeq(started, p)
    BY StartedHas
  <2> QED  BY <1>1, <2>1, AppendsOne
<1>4. \A q \in Plugins : q \in Started' => def'[q] # Unreadable
  BY <1>1 DEF Grounded
<1>5. ASSUME NEW q \in Plugins, q \in Started', NEW d \in Deps(q)
      PROVE  d \in Plugins /\ Earlier(started', d, q) /\ state'[d] \in {"running", "stopping"}
  <2>1. CASE q = p
    <3>1. d \in Plugins /\ state[d] = "running" /\ d \in Started
      BY <2>1 DEF Running
    <3>2. InSeq(started, d)
      BY <3>1, StartedHas
    <3> QED  BY <1>2, <1>3, <2>1, <3>1, <3>2
  <2>2. CASE q # p
    <3>1. d \in Plugins /\ Earlier(started, d, q) /\ state[d] \in {"running", "stopping"}
      BY <1>1, <1>5, <2>2 DEF Grounded
    <3>2. InSeq(started, d)
      BY <3>1 DEF Earlier, InSeq
    <3>3. d # p
      BY <3>2, StartedHas
    <3> QED  BY <1>2, <1>3, <3>1, <3>3
  <2> QED  BY <2>1, <2>2
<1>6. \A q \in Plugins : q \in Started' /\ state'[q] \in {"running", "starting"} => q \notin halted'
  BY <1>1, <1>2 DEF Grounded
<1>7. ASSUME NEW r \in halted', NEW q \in Plugins, q \in Started', r \in Deps(q) PROVE q \in halted'
  <2>1. r \in halted /\ r # p /\ r \in Plugins
    BY <1>7
  <2>2. CASE q = p
    <3>1. state[r] = "running" /\ r \in Started
      BY <1>7, <2>2 DEF Running
    <3> QED  BY <2>1, <3>1 DEF Grounded
  <2>3. CASE q # p
    BY <1>1, <1>7, <2>1, <2>3 DEF Grounded
  <2> QED  BY <2>2, <2>3
<1> QED  BY <1>4, <1>5, <1>6, <1>7 DEF Grounded

\* A plugin is withdrawn on which none relies.
LEMMA GroundLeaves ==
  ASSUME RegistryOK, Distinct(started), Grounded, NEW p \in Plugins,
         started' = Among(started, Plugins \ {p}), halted' = halted, def' = def,
         \A q \in Plugins : q # p => state'[q] = state[q],
         \A q \in Plugins : q \in Started => p \notin Deps(q)
  PROVE  Grounded'
<1>1. Started' = Started \ {p}
  BY LeavesStarted
<1>2. started \in Seq(Plugins)
  BY DEF RegistryOK
<1>3. \A d, e : Earlier(started', d, e) <=> Earlier(started, d, e) /\ d \in Plugins \ {p} /\ e \in Plugins \ {p}
  BY <1>2, AmongThins DEF Thinned
<1>4. \A q \in Plugins : q \in Started' => def'[q] # Unreadable
  BY <1>1 DEF Grounded
<1>5. \A q \in Plugins : q \in Started' =>
          \A d \in Deps(q) : d \in Plugins /\ Earlier(started', d, q) /\ state'[d] \in {"running", "stopping"}
  <2> SUFFICES ASSUME NEW q \in Plugins, q \in Started', NEW d \in Deps(q)
               PROVE  d \in Plugins /\ Earlier(started', d, q) /\ state'[d] \in {"running", "stopping"}
    OBVIOUS
  <2>1. d \in Plugins /\ Earlier(started, d, q) /\ state[d] \in {"running", "stopping"} /\ d # p /\ q # p
    BY <1>1 DEF Grounded
  <2> QED  BY <1>3, <2>1
<1>6. \A q \in Plugins : q \in Started' /\ state'[q] \in {"running", "starting"} => q \notin halted'
  BY <1>1 DEF Grounded
<1>7. \A r \in halted' : \A q \in Plugins : q \in Started' /\ r \in Deps(q) => q \in halted'
  BY <1>1 DEF Grounded
<1> QED  BY <1>4, <1>5, <1>6, <1>7 DEF Grounded

\* What depends on a plugin is past its start and is listed, or is not known to the host.
LEMMA NoneRelies ==
  ASSUME Grounded, NEW p \in Plugins, state[p] \notin {"running", "stopping"} \/ p \notin Started
  PROVE  \A q \in Plugins : q \in Started => p \notin Deps(q)
<1> SUFFICES ASSUME NEW q \in Plugins, q \in Started, p \in Deps(q) PROVE FALSE
  OBVIOUS
<1>1. Earlier(started, p, q) /\ state[p] \in {"running", "stopping"}
  BY DEF Grounded
<1>2. p \in Started
  BY <1>1, StartedHas DEF Earlier, InSeq
<1> QED  BY <1>1, <1>2

\* What starts depends on plugins that run.
Rooted(c) == Deps(target[c]) \subseteq Running \cap Started

\* A switch stops what relies on a plugin from the last started to the first, and all of it.
Relies(c, q) ==
    \E r \in Deps(q) : InSeq(todo[c], r) \/ r = job[c].id \/ (pc[c] = "halting" /\ r = target[c])
Downward(c) ==
    /\ \A d, e : Earlier(todo[c], d, e) => Earlier(started, e, d)
    /\ \A q \in Plugins : q \in Started /\ Relies(c, q) => InSeq(todo[c], q) \/ (pc[c] = "halting" /\ q = target[c])
    /\ pc[c] = "halting" => \A e : InSeq(todo[c], e) => Earlier(started, e, target[c])

\* The closing stops its readers of the log from the last started to the first.
Lifo ==
    /\ \A e : InSeq(todo[Closer], e) => e \in Readers
    /\ \A d, e : Earlier(todo[Closer], d, e) => Earlier(started, e, d)
    /\ \A i \in 1..Len(started) : InSeq(todo[Closer], started[i]) => i > index

Founded ==
    /\ Grounded
    /\ \A c \in Coroutines : (Starting(c) => Rooted(c)) /\ (Halting(c) => Downward(c))
    /\ Closes => Lifo

LEMMA StartOfGrounds ==
  ASSUME Types, StableNeeds, Texted, Distinct(started), Grounded, NEW c \in Coroutines, NEW p \in Plugins, NEW again,
         StartOf(c, p, again), p \notin Started, state[p] # "running", def[p] # Unreadable,
         Deps(p) \subseteq Running \cap Started
  PROVE  Grounded' /\ (pc'[c] = "resolving" \/ (pc'[c] = "launching" /\ Rooted(c)'))
<1>0. RegistryOK /\ halted \subseteq Plugins
  BY DEF Types, EndingOK
<1>1. CASE StartUnreadable(c, p) \/ StartUnavailable(c, p) \/ StartRefused(c, p)
  <2>1. pc'[c] = "resolving" /\ started' = started /\ halted' = halted
    BY <1>1 DEF StartUnreadable, StartUnavailable, StartRefused, Types, PlacesOK
  <2>2. \A q \in Plugins : q # p => state'[q] = state[q] /\ def'[q] = def[q]
    BY <1>0, <1>1 DEF StartUnreadable, StartUnavailable, StartRefused, Refused, Reread, RegistryOK
  <2>3. Grounded'
    BY <2>1, <2>2, GroundStays
  <2> QED  BY <2>1, <2>3
<1>2. CASE StartRegistered(c, p, again)
  <2>1. pc'[c] = "launching" /\ target'[c] = p
    BY <1>2 DEF StartRegistered, Types, PlacesOK, WorkOK
  <2>2. def'[p] # Unreadable /\ \A q \in Plugins : q # p => def'[q] = def[q]
    BY <1>0, <1>2 DEF StartRegistered, RegistryOK
  <2>3. started' = Append(started, p) /\ halted' = halted \ {p} /\ state' = [state EXCEPT ![p] = "starting"]
    BY <1>2 DEF StartRegistered
  <2>4. Grounded'
    BY <1>0, <2>2, <2>3, GroundJoins
  <2>5. Started' = Started \cup {p} /\ \A q \in Plugins : q # p => state'[q] = state[q]
    BY <1>0, <2>3, JoinsStarted, SetsState
  <2>6. Rooted(c)'
    BY <2>1, <2>5 DEF Rooted, Running
  <2> QED  BY <2>1, <2>4, <2>6
<1> QED  BY <1>1, <1>2 DEF StartOf

LEMMA PassGrounds ==
  ASSUME Types, StableNeeds, Texted, Distinct(started), Grounded, NEW c \in Coroutines, Calm, PassOK(c), pc[c] = "resolving",
         Pass(c) \/ TurnedOff(c) \/ Refuse(c) \/ Wait(c) \/ Start(c)
  PROVE  Grounded' /\ (pc'[c] = "resolving" \/ (pc'[c] = "launching" /\ Rooted(c)'))
<1> DEFINE p == Head(todo[c])
<1>0. RegistryOK /\ p \in Plugins /\ todo[c] \in Seq(Plugins) /\ todo[c] # <<>>
  BY TodoTypes DEF Types, Pass, TurnedOff, Refuse, Wait, Start
<1>1. CASE Pass(c)
  <2>1. Grounded'
    BY <1>1, GroundStays DEF Pass, registry, ending
  <2> QED  BY <1>1, <2>1 DEF Pass
<1>2. CASE TurnedOff(c) \/ Refuse(c) \/ Wait(c)
  <2>1. state[p] # "running" /\ started' = started /\ halted' = halted /\ def' = def /\ pc' = pc
    BY <1>2 DEF TurnedOff, Refuse, Wait, Candidate, ending
  <2>2. \E s : state' = [state EXCEPT ![p] = s]
    BY <1>2 DEF TurnedOff, Refuse, Wait, Refused
  <2> HIDE DEF p
  <2>3. \A q \in Plugins : q # p => state'[q] = state[q]
    BY <1>0, <2>2 DEF RegistryOK
  <2>4. p \notin Started
    BY <1>0, <2>1 DEF Calm, Plain
  <2>5. Grounded'
    BY <2>1, <2>3, <2>4, GroundStays
  <2> QED  BY <2>1, <2>5
<1>3. CASE Start(c)
  <2>1. StartOf(c, p, FALSE) /\ state[p] # "running" /\ Blocking(def[p], Running) = "none"
    BY <1>3 DEF Start, Candidate
  <2>2. InSeq(todo[c], p)
    BY <1>0, TailHas
  <2> HIDE DEF p
  <2>3. def[p] # Unreadable
    BY <1>0, <2>2 DEF PassOK, ListOK
  <2>4. Len(def[p]) \in Nat
    <3>1. def \in [Plugins -> Texts]
      BY <1>0 DEF RegistryOK
    <3>2. Definition(def[p])
      BY <1>0, <3>1, OrderTypes DEF Definitions
    <3>3. def[p] \in Seq(Needs(def[p]))
      BY <2>3, <3>2 DEF Definition
    <3> DEFINE N == Needs(def[p])
               D == def[p]
    <3>4. D \in Seq(N)
      BY <3>3
    <3> HIDE DEF N, D
    <3>5. Len(D) \in Nat
      BY <3>4
    <3> QED  BY <3>5 DEF D
  <2>5. Needs(def[p]) \subseteq Running
    BY <2>1, <2>4, UnblockedRuns
  <2>6. Needs(def[p]) = Deps(p)
    BY <1>0, <2>3, TextedNeeds DEF Texted
  <2>7. p \notin Started /\ Running \subseteq Started
    BY <1>0, <2>1 DEF Calm, Plain, Running
  <2> QED  BY <1>0, <2>1, <2>3, <2>5, <2>6, <2>7, StartOfGrounds
<1> QED  BY <1>1, <1>2, <1>3

LEMMA LaunchGrounds ==
  ASSUME Types, StableNeeds, Texted, Distinct(started), Grounded, NEW c \in Coroutines, Starts(c), Rooted(c), AllMarked,
         Launched(c) \/ LaunchFails(c) \/ LaunchMisfits(c) \/ Recovered(c) \/ RecoveryFails(c)
  PROVE  Grounded' /\ (pc'[c] = "resolving" \/ (pc'[c] \in {"launching", "recovering"} /\ Rooted(c)'))
<1> DEFINE p == target[c]
<1>0. RegistryOK /\ p \in Plugins
  BY DEF Launched, LaunchFails, LaunchMisfits, Recovered, RecoveryFails, ResumesAt, Types, WorkOK, Awaits
<1>1. state[p] = "starting" /\ (p \in Started <=> pc[c] = "launching") /\ Deps(p) \subseteq Running \cap Started
  BY DEF Starts, Rooted
<1>2. \A q \in Plugins : q \in Started => p \notin Deps(q)
  BY <1>0, <1>1, NoneRelies
<1> HIDE DEF p
<1>3. CASE Launched(c)
  <2>1. pc'[c] = "resolving" /\ state' = [state EXCEPT ![p] = "running"] /\ started' = started /\ halted' = halted /\ def' = def
    BY <1>3 DEF Launched, ending, p, Types, PlacesOK
  <2>2. state'[p] = "running" /\ \A q \in Plugins : q # p => state'[q] = state[q]
    BY <1>0, <2>1, SetsState
  <2>3. Grounded'
    BY <1>1, <2>1, <2>2, GroundStays
  <2> QED  BY <2>1, <2>3
<1>4. CASE LaunchFails(c) \/ LaunchMisfits(c)
  <2>1. /\ started' = Among(started, Plugins \ {p}) /\ halted' = halted /\ def' = def
        /\ state' = state \/ state' = [state EXCEPT ![p] = "refused"]
    BY <1>4 DEF LaunchFails, LaunchMisfits, Withdrawn, Refused, p
  <2>2. \A q \in Plugins : q # p => state'[q] = state[q]
    BY <1>0, <2>1, SetsState
  <2>3. Grounded'
    BY <1>0, <1>2, <2>1, <2>2, GroundLeaves
  <2>4. pc'[c] = "resolving" \/ (pc'[c] = "recovering" /\ state' = state /\ target' = target)
    BY <1>4 DEF LaunchFails, LaunchMisfits, Types, PlacesOK
  <2>5. Started' = Started \ {p}
    BY <1>0, <2>1, LeavesStarted
  <2>6. ASSUME state' = state, target' = target PROVE Rooted(c)'
    <3>1. target'[c] = p /\ Running' = Running /\ p \notin Running
      BY <1>1, <2>6 DEF Running, p
    <3> QED  BY <1>1, <2>5, <3>1 DEF Rooted
  <2> QED  BY <2>3, <2>4, <2>6
<1>5. CASE Recovered(c)
  <2>1. pc[c] = "recovering" /\ StartOf(c, p, TRUE)
    BY <1>5 DEF Recovered, ResumesAt, p
  <2>2. def[p] # Unreadable
    BY <1>0, <1>1 DEF AllMarked, Marks
  <2> QED  BY <1>0, <1>1, <2>1, <2>2, StartOfGrounds
<1>6. CASE RecoveryFails(c)
  <2>1. pc[c] = "recovering" /\ pc'[c] = "resolving" /\ state' = [state EXCEPT ![p] = "refused"] /\ started' = started /\ halted' = halted /\ def' = def
    BY <1>6 DEF RecoveryFails, Refused, ResumesAt, ending, p, Types, PlacesOK
  <2>2. \A q \in Plugins : q # p => state'[q] = state[q]
    BY <1>0, <2>1, SetsState
  <2>3. Grounded'
    BY <1>1, <2>1, <2>2, GroundStays
  <2> QED  BY <2>1, <2>3
<1> QED  BY <1>3, <1>4, <1>5, <1>6

LEMMA TailEarlier ==
  ASSUME NEW A, NEW s \in Seq(A), s # <<>>
  PROVE  /\ \A d, e : Earlier(Tail(s), d, e) => Earlier(s, d, e)
         /\ \A e : InSeq(Tail(s), e) => Earlier(s, Head(s), e)
<1> DEFINE n == Len(s)
           t == Tail(s)
<1>1. Len(t) = n - 1 /\ n \in Nat /\ n > 0 /\ Head(s) = s[1]
  OBVIOUS
<1>2. \A i \in 1..n - 1 : t[i] = s[i + 1]
  BY <1>1
<1> HIDE DEF t, n
<1>3. (\A i \in 1..n - 1 : i + 1 \in 1..n /\ 1 < i + 1) /\ 1 \in 1..n
  BY <1>1
<1>4. ASSUME NEW d, NEW e, NEW i \in 1..n - 1, NEW j \in 1..n - 1, i < j, t[i] = d, t[j] = e
      PROVE  \E k, l \in 1..n : k < l /\ s[k] = d /\ s[l] = e
  <2>1. i + 1 < j + 1
    BY <1>1, <1>4
  <2> QED  BY <1>2, <1>3, <1>4, <2>1
<1>5. ASSUME NEW e, NEW i \in 1..n - 1, t[i] = e
      PROVE  \E k, l \in 1..n : k < l /\ s[k] = Head(s) /\ s[l] = e
  BY <1>1, <1>2, <1>3, <1>5
<1> QED  BY <1>1, <1>4, <1>5 DEF Earlier, InSeq, n, t

\* The switch finds what it has to stop.
LEMMA DependentsDown ==
  ASSUME Types, StableNeeds, Texted, Distinct(started), Grounded, NEW p \in Plugins
  PROVE  /\ \A d, e : Earlier(Dependents(p), d, e) => Earlier(started, e, d)
         /\ \A q \in Plugins : \A r \in Deps(q) :
               q \in Started /\ (InSeq(Dependents(p), r) \/ r = p) => InSeq(Dependents(p), q)
<1> DEFINE found == Found(p)
           part == Among(started, found \ {p})
<1>1. Dependents(p) = Reverse(part)
  BY DEF Dependents, Found
<1>2. started \in Seq(Plugins)
  BY DEF Types, RegistryOK
<1>3. \A q \in Plugins : q \in Started => Needs(def[q]) = Deps(q)
  BY TextedNeeds DEF Texted, Grounded
<1>4. FoundAll(found, p)
  BY <1>3, FoundRight
<1> HIDE DEF found
<1>5. part \in Seq(Plugins) /\ Thinned(part, started, found \ {p})
  BY <1>2, AmongThins
<1> HIDE DEF part
<1>6. /\ \A e : InSeq(Reverse(part), e) <=> InSeq(part, e)
      /\ \A d, e : Earlier(Reverse(part), d, e) <=> Earlier(part, e, d)
  BY <1>5, ReverseKeeps
<1>7. \A d, e : Earlier(part, d, e) => Earlier(started, d, e)
  BY <1>5 DEF Thinned
<1>8. \A e : InSeq(part, e) <=> InSeq(started, e) /\ e \in found /\ e # p
  BY <1>5 DEF Thinned
<1>9. ASSUME NEW q \in Plugins, NEW r \in Deps(q), q \in Started, InSeq(Reverse(part), r) \/ r = p
      PROVE  InSeq(Reverse(part), q)
  <2>1. r \in found
    BY <1>4, <1>6, <1>8, <1>9 DEF FoundAll
  <2>2. q \in found
    BY <1>4, <1>9, <2>1 DEF FoundAll
  <2>3. Earlier(started, r, q)
    BY <1>9 DEF Grounded
  <2>4. r = p \/ Earlier(started, p, r)
    BY <1>4, <2>1 DEF FoundAll
  <2>5. Earlier(started, p, q)
    BY <2>3, <2>4, EarlierIs
  <2>6. q # p
    BY <2>5, EarlierIs
  <2>7. InSeq(started, q)
    BY <1>9, StartedHas
  <2> QED  BY <1>6, <1>8, <2>2, <2>6, <2>7
<1> QED  BY <1>1, <1>6, <1>7, <1>9

LEMMA DisableGrounds ==
  ASSUME Types, StableNeeds, Texted, Distinct(started), Grounded, NEW c \in Coroutines, job[c].id \in Plugins,
         pc[c] = "begin" => Calm, Halting(c) => Halts(c) /\ Downward(c),
         BeginDisable(c) \/ StopDependent(c) \/ StopItself(c) \/ Halt(c)
  PROVE  Grounded' /\ Downward(c)'
<1> DEFINE p == job[c].id
<1>0. /\ RegistryOK /\ p \in Plugins /\ todo[c] \in Seq(Plugins) /\ job' = job
      /\ (\A q : pc' = [pc EXCEPT ![c] = q] => pc'[c] = q)
      /\ (\A s : todo' = [todo EXCEPT ![c] = s] => todo'[c] = s)
      /\ (\A q : target' = [target EXCEPT ![c] = q] => target'[c] = q)
  BY DEF BeginDisable, StopDependent, StopItself, Halt, Types, WorkOK, PlacesOK
<1>1. CASE BeginDisable(c)
  <2>1. /\ pc'[c] = "disabling" /\ todo'[c] = Dependents(p) /\ started' = started /\ halted' = halted
        /\ def' = def /\ job'[c].id = p
    BY <1>0, <1>1 DEF BeginDisable, ending
  <2>2. state' = [state EXCEPT ![p] = IF @ = "running" THEN "stopping" ELSE @]
    BY <1>1 DEF BeginDisable
  <2>3. /\ state'[p] = IF state[p] = "running" THEN "stopping" ELSE state[p]
        /\ \A q \in Plugins : q # p => state'[q] = state[q]
    BY <1>0, <2>2 DEF RegistryOK
  <2> HIDE DEF p
  <2>4. Grounded'
    BY <1>0, <2>1, <2>3, GroundStays
  <2>5. /\ \A d, e : Earlier(Dependents(p), d, e) => Earlier(started, e, d)
        /\ \A q \in Plugins : \A r \in Deps(q) :
              q \in Started /\ (InSeq(Dependents(p), r) \/ r = p) => InSeq(Dependents(p), q)
    BY <1>0, DependentsDown
  <2>6. Started' = Started
    BY <2>1 DEF Started
  <2>7. Downward(c)'
    BY <2>1, <2>5, <2>6 DEF Downward, Relies
  <2> QED  BY <2>4, <2>7
<1>2. ASSUME NEW h \in Plugins, Stop(c, h, "halting"), pc[c] = "disabling", Downward(c), started' = started, def' = def,
             \A q \in Plugins : q \in Started => h \notin Deps(q),
             \A e : InSeq(todo[c], e) <=> InSeq(todo'[c], e) \/ (e = h /\ InSeq(todo[c], e)),
             \A d, e : Earlier(todo'[c], d, e) => Earlier(todo[c], d, e),
             \A e : InSeq(todo'[c], e) => Earlier(todo[c], h, e),
             h = p \/ InSeq(todo[c], h)
      PROVE  Grounded' /\ Downward(c)'
  <2>1. pc'[c] = "halting" /\ target'[c] = h
    BY <1>0, <1>2 DEF Stop
  <2>2. Grounded'
    BY <1>0, <1>2, GroundStops DEF Stop
  <2>3. Started' = Started
    BY <1>2 DEF Started
  <2>4. \A d, e : Earlier(todo'[c], d, e) => Earlier(started', e, d)
    BY <1>2 DEF Downward
  <2>5. \A e : InSeq(todo'[c], e) => Earlier(started', e, h)
    BY <1>2 DEF Downward
  <2>6. ASSUME NEW q \in Plugins, q \in Started, Relies(c, q)' PROVE InSeq(todo'[c], q) \/ q = h
    <3>1. PICK r \in Deps(q) : InSeq(todo'[c], r) \/ r = p \/ r = h
      BY <1>0, <2>1, <2>6 DEF Relies
    <3>2. Relies(c, q)
      BY <1>2, <3>1 DEF Relies
    <3>3. InSeq(todo[c], q)
      BY <1>2, <2>6, <3>2 DEF Downward
    <3> QED  BY <1>2, <3>3
  <2>7. Downward(c)'
    BY <2>1, <2>3, <2>4, <2>5, <2>6 DEF Downward
  <2> QED  BY <2>2, <2>7
<1>3. CASE StopDependent(c)
  <2> DEFINE h == Head(todo[c])
  <2>1. pc[c] = "disabling" /\ todo[c] # <<>> /\ Stop(c, h, "halting") /\ started' = started /\ def' = def
    BY <1>3 DEF StopDependent, RunsAt
  <2>2. todo'[c] = Tail(todo[c])
    BY <1>0, <1>3 DEF StopDependent, Visit
  <2>3. Halts(c) /\ Downward(c)
    BY <2>1 DEF Halting
  <2>4. h \in Plugins /\ InSeq(todo[c], h)
    BY <1>0, <2>1, TailHas
  <2>5. \A e : InSeq(todo[c], e) <=> InSeq(todo'[c], e) \/ e = h
    BY <1>0, <2>1, <2>2, TailHas
  <2>6. /\ \A d, e : Earlier(todo'[c], d, e) => Earlier(todo[c], d, e)
        /\ \A e : InSeq(todo'[c], e) => Earlier(todo[c], h, e)
    BY <1>0, <2>1, <2>2, TailEarlier
  <2> HIDE DEF h
  <2>7. ASSUME NEW q \in Plugins, q \in Started, h \in Deps(q) PROVE FALSE
    <3>1. Relies(c, q)
      BY <2>4, <2>7 DEF Relies
    <3>2. InSeq(todo[c], q)
      BY <2>1, <2>3, <2>7, <3>1 DEF Downward
    <3>3. Earlier(started, h, q)
      BY <2>7 DEF Grounded
    <3>4. h # q
      BY <3>3, EarlierIs
    <3>5. Earlier(started, q, h)
      BY <2>3, <2>5, <2>6, <3>2, <3>4 DEF Downward
    <3> QED  BY <3>3, <3>5, EarlierIs
  <2> HIDE DEF p
  <2>8. \A e : InSeq(todo[c], e) <=> InSeq(todo'[c], e) \/ (e = h /\ InSeq(todo[c], e))
    BY <2>5
  <2> QED  BY <1>2, <2>1, <2>3, <2>4, <2>6, <2>7, <2>8
<1>4. CASE StopItself(c)
  <2>1. pc[c] = "disabling" /\ todo[c] = <<>> /\ Stop(c, p, "halting") /\ started' = started /\ todo' = todo /\ def' = def
    BY <1>4 DEF StopItself, RunsAt
  <2>2. Halts(c) /\ Downward(c)
    BY <2>1 DEF Halting
  <2>3. /\ \A e : ~InSeq(todo[c], e) /\ ~InSeq(todo'[c], e)
        /\ \A d, e : ~Earlier(todo'[c], d, e)
    <3>1. Len(todo[c]) = 0 /\ Len(todo'[c]) = 0
      BY <2>1
    <3>2. 1..Len(todo[c]) = {} /\ 1..Len(todo'[c]) = {}
      BY <3>1
    <3> QED  BY <3>2 DEF InSeq, Earlier
  <2>4. ASSUME NEW q \in Plugins, q \in Started, p \in Deps(q) PROVE FALSE
    <3>1. Relies(c, q)
      BY <2>4 DEF Relies
    <3> QED  BY <2>1, <2>2, <2>3, <2>4, <3>1 DEF Downward
  <2> HIDE DEF p
  <2> QED  BY <1>0, <1>2, <2>1, <2>2, <2>3, <2>4
<1>5. CASE Halt(c)
  <2> DEFINE h == target[c]
  <2>1. /\ pc[c] = "halting" /\ pc'[c] = "disabling" /\ todo' = todo /\ target' = target /\ h \in Plugins
        /\ started' = Among(started, Plugins \ {h}) /\ halted' = halted /\ def' = def
    BY <1>0, <1>5 DEF Halt, Withdrawn, ResumesAt, Types, WorkOK, Awaits
  <2>2. state' = [state EXCEPT ![h] = IF h = p THEN "disabled" ELSE "waiting"]
    BY <1>5 DEF Halt
  <2>3. Halts(c) /\ Downward(c) /\ state[h] = "stopping"
    BY <2>1 DEF Halting, Halts
  <2>4. \A e : InSeq(todo[c], e) => e \in Plugins /\ e # h
    <3>1. \A e : InSeq(todo[c], e) => e \in Plugins
      BY <1>0 DEF InSeq
    <3> QED  BY <2>3, <3>1 DEF Halts
  <2> HIDE DEF p
  <2>5. ASSUME NEW q \in Plugins, q \in Started, h \in Deps(q) PROVE FALSE
    <3>1. Relies(c, q)
      BY <2>1, <2>5 DEF Relies
    <3>2. InSeq(todo[c], q) \/ q = h
      BY <2>1, <2>3, <2>5, <3>1 DEF Downward
    <3>3. Earlier(started, h, q)
      BY <2>5 DEF Grounded
    <3>4. InSeq(todo[c], q) => Earlier(started, q, h)
      BY <2>1, <2>3 DEF Downward
    <3> HIDE DEF h
    <3> QED  BY <3>2, <3>3, <3>4, EarlierIs
  <2>6. Started' = Started \ {h}
    BY <1>0, <2>1, LeavesStarted
  <2>7. \A d, e : Earlier(started', d, e) <=> Earlier(started, d, e) /\ d \in Plugins \ {h} /\ e \in Plugins \ {h}
    <3>1. started \in Seq(Plugins)
      BY <1>0 DEF RegistryOK
    <3> HIDE DEF h
    <3> QED  BY <2>1, <3>1, AmongThins DEF Thinned
  <2>8. \A d, e : Earlier(todo[c], d, e) => Earlier(started', e, d)
    <3>1. \A d, e : Earlier(todo[c], d, e) => InSeq(todo[c], d) /\ InSeq(todo[c], e)
      BY DEF Earlier, InSeq
    <3> HIDE DEF h
    <3> QED  BY <2>3, <2>4, <2>7, <3>1 DEF Downward
  <2>9. ASSUME NEW q \in Plugins, q \in Started', Relies(c, q)' PROVE InSeq(todo[c], q)
    <3>1. Relies(c, q)
      BY <1>0, <2>1, <2>9 DEF Relies
    <3> QED  BY <2>1, <2>3, <2>6, <2>9, <3>1 DEF Downward
  <2>10. Downward(c)'
    BY <2>1, <2>8, <2>9 DEF Downward
  <2>11. Grounded'
    <3>1. \A q \in Plugins : q # h => state'[q] = state[q]
      BY <1>0, <2>1, <2>2, SetsState
    <3> HIDE DEF h
    <3> QED  BY <1>0, <2>1, <2>5, <3>1, GroundLeaves
  <2> QED  BY <2>10, <2>11
<1> QED  BY <1>1, <1>3, <1>4, <1>5

\* A coroutine that leaves is done.
LEMMA LeaveEnds ==
  ASSUME Types, Lock, NEW c \in Coroutines, pc[c] \in Changes, Leave(c)
  PROVE  pc'[c] = "done"
<1>1. CASE waiting = <<>>
  BY <1>1 DEF Leave, Types, PlacesOK
<1>2. CASE waiting # <<>>
  <2>1. pc' = [pc EXCEPT ![c] = "done", ![Head(waiting)] = "woken"]
    BY <1>2 DEF Leave
  <2>2. pc[Head(waiting)] = "queued" /\ Head(waiting) \in Coroutines
    BY <1>2, QueueHead DEF Types, Coroutines
  <2>3. Head(waiting) # c
    BY <2>2 DEF Changes
  <2> QED  BY <2>1, <2>2, <2>3 DEF Types, PlacesOK
<1> QED  BY <1>1, <1>2

LEMMA ResolvedEnds ==
  ASSUME Types, Lock, NEW c \in Coroutines, Resolved(c)
  PROVE  pc'[c] = "done"
<1>1. CASE c = Boot
  BY <1>1 DEF Resolved, Types, PlacesOK
<1>2. CASE c # Boot
  <2>1. pc[c] \in Changes /\ Leave(c)
    BY <1>2 DEF Resolved, RunsAt, Changes
  <2> QED  BY <2>1, LeaveEnds
<1> QED  BY <1>1, <1>2

\* The switches that begin a pass, wait for the storage or leave.
LEMMA SwitchGrounds ==
  ASSUME Types, Grounded, NEW c \in Coroutines, job[c].id \in Plugins,
         pc[c] \in {"begin", "erasing"} => Calm, Halting(c) => Halts(c),
         Disabled(c) \/ BeginNothing(c) \/ BeginEnable(c) \/ BeginErase(c) \/ Erased(c) \/ ErasedOnly(c)
  PROVE  Grounded'
<1> DEFINE p == job[c].id
<1>0. RegistryOK /\ p \in Plugins
  BY DEF Types
<1> HIDE DEF p
<1>1. CASE BeginNothing(c) \/ BeginErase(c) \/ ErasedOnly(c)
  BY <1>1, GroundStays DEF BeginNothing, BeginErase, ErasedOnly, registry, ending
<1>2. CASE Disabled(c)
  <2>1. /\ pc[c] = "disabling" /\ started' = started /\ halted' = halted /\ def' = def
        /\ state[p] # "stopping" /\ state' = [state EXCEPT ![p] = "disabled"]
    BY <1>2 DEF Disabled, RunsAt, ending, p
  <2>2. Up /\ state[p] # "running"
    BY <2>1 DEF Halting, Halts, p
  <2>3. p \notin Started
    BY <1>0, <2>1, <2>2 DEF Up
  <2>4. \A q \in Plugins : q # p => state'[q] = state[q]
    BY <1>0, <2>1, SetsState
  <2> QED  BY <2>1, <2>3, <2>4, GroundStays
<1>3. CASE BeginEnable(c) \/ Erased(c)
  <2>1. started' = started /\ halted' = halted
    BY <1>3 DEF BeginEnable, Erased, ending
  <2>2. p \notin Started
    <3>1. CASE BeginEnable(c)
      BY <1>0, <3>1 DEF BeginEnable, Begins, RunsAt, Calm, Plain, p
    <3>2. CASE Erased(c)
      BY <3>2 DEF Erased, p
    <3> QED  BY <1>3, <3>1, <3>2
  <2>3. \E s : state' = [state EXCEPT ![p] = s]
    BY <1>3 DEF BeginEnable, Erased, p
  <2>4. def' = [def EXCEPT ![p] = folder[p]]
    BY <1>3 DEF BeginEnable, Erased, Reread, p
  <2>5. \A q \in Plugins : q # p => state'[q] = state[q] /\ def'[q] = def[q]
    BY <1>0, <2>3, <2>4 DEF RegistryOK
  <2> QED  BY <2>1, <2>2, <2>5, GroundStays
<1> QED  BY <1>1, <1>2, <1>3

\* What a coroutine that holds the switch does keeps the dependencies.
LEMMA ActGrounds ==
  ASSUME Control, StableNeeds, Texted, Distinct(started), Grounded, NEW c \in Coroutines, pc[c] \in Changes, ~Closes,
         InPlace(c), Resolves(c), AllMarked, Starting(c) => Rooted(c), Halting(c) => Downward(c),
         Step(c) \/ Launch(c), ~Wake(c)
  PROVE  Grounded' /\ (Starting(c)' => Rooted(c)') /\ (Halting(c)' => Downward(c)')
<1>0. Types
  BY DEF Control
<1>1. pc[c] \in {"begin", "resolving", "erasing"} => Calm
  BY DEF InPlace, Starting, Halting
<1>2. pc[c] \in {"begin", "disabling", "halting", "erasing"} /\ job[c].kind # "none" => job[c].id \in Plugins
  <2> SUFFICES ASSUME pc[c] \in {"begin", "disabling", "halting", "erasing"}, job[c].kind # "none" PROVE job[c].id \in Plugins
    OBVIOUS
  <2>1. c \in Clicks
    BY <1>0, WhoIsWhere, LifecycleAssumption DEF Types, WorkOK, Coroutines
  <2> QED  BY <1>0, <2>1 DEF Types, WorkOK
<1>3. pc[c] \in {"disabling", "halting", "erasing"} => job[c].id \in Plugins
  <2> SUFFICES ASSUME pc[c] \in {"disabling", "halting", "erasing"} PROVE job[c].id \in Plugins
    OBVIOUS
  <2>1. c \in Clicks
    BY <1>0, WhoIsWhere DEF Types
  <2> QED  BY <1>0, <2>1 DEF Types, WorkOK
<1>4. CASE Pass(c) \/ TurnedOff(c) \/ Refuse(c) \/ Wait(c) \/ Start(c)
  <2>1. pc[c] = "resolving"
    BY <1>4 DEF Pass, TurnedOff, Refuse, Wait, Start, RunsAt
  <2>2. PassOK(c)
    BY <2>1 DEF Resolves, Passing
  <2>3. Grounded' /\ (pc'[c] = "resolving" \/ (pc'[c] = "launching" /\ Rooted(c)'))
    BY <1>0, <1>1, <1>4, <2>1, <2>2, PassGrounds
  <2> QED  BY <2>3 DEF Starting, Halting
<1>5. CASE Launch(c) \/ Recovered(c) \/ RecoveryFails(c)
  <2>1. Starting(c)
    BY <1>5 DEF Launch, Launched, LaunchFails, LaunchMisfits, Recovered, RecoveryFails, ResumesAt, Starting
  <2>2. Starts(c)
    BY <2>1 DEF InPlace
  <2>3. Grounded' /\ (pc'[c] = "resolving" \/ (pc'[c] \in {"launching", "recovering"} /\ Rooted(c)'))
    BY <1>0, <1>5, <2>1, <2>2, LaunchGrounds DEF Launch
  <2> QED  BY <2>3 DEF Starting, Halting
<1>6. CASE BeginDisable(c) \/ StopDependent(c) \/ StopItself(c) \/ Halt(c)
  <2>1. pc[c] \in {"disabling", "halting"} \/ (pc[c] = "begin" /\ job[c].kind # "none")
    BY <1>6 DEF BeginDisable, StopDependent, StopItself, Halt, Begins, RunsAt, ResumesAt
  <2>2. job[c].id \in Plugins
    BY <1>2, <1>3, <2>1
  <2>3. Halting(c) => Halts(c)
    BY DEF InPlace
  <2>4. Grounded' /\ Downward(c)'
    BY <1>0, <1>1, <1>6, <2>2, <2>3, DisableGrounds
  <2>5. pc'[c] \in {"disabling", "halting"}
    BY <1>0, <1>6 DEF BeginDisable, StopDependent, StopItself, Stop, Halt, Types, PlacesOK
  <2> QED  BY <2>4, <2>5 DEF Starting
<1>7. CASE Resolved(c)
  <2>1. Grounded'
    BY <1>7, GroundStays DEF Resolved, registry, ending
  <2>2. pc'[c] = "done"
    BY <1>0, <1>7, ResolvedEnds DEF Control
  <2> QED  BY <2>1, <2>2 DEF Starting, Halting
<1>8. CASE Disabled(c) \/ BeginNothing(c) \/ BeginEnable(c) \/ BeginErase(c) \/ Erased(c) \/ ErasedOnly(c)
  <2>1. pc[c] \in {"disabling", "erasing"} \/ (pc[c] = "begin" /\ job[c].kind # "none")
    BY <1>8 DEF Disabled, BeginNothing, BeginEnable, BeginErase, Erased, ErasedOnly, Begins, RunsAt, ResumesAt
  <2>2. job[c].id \in Plugins
    BY <1>2, <1>3, <2>1
  <2>3. Halting(c) => Halts(c)
    BY DEF InPlace
  <2>4. Grounded'
    BY <1>0, <1>1, <1>8, <2>2, <2>3, SwitchGrounds
  <2>5. pc'[c] \in {"resolving", "erasing", "done"}
    <3>1. CASE BeginNothing(c) \/ ErasedOnly(c)
      BY <1>0, <3>1, LeaveEnds DEF Control, BeginNothing, ErasedOnly
    <3>2. CASE ~BeginNothing(c) /\ ~ErasedOnly(c)
      BY <1>0, <1>8, <3>2 DEF Disabled, BeginEnable, BeginErase, Erased, Types, PlacesOK
    <3> QED  BY <3>1, <3>2
  <2> QED  BY <2>4, <2>5 DEF Starting, Halting
<1> QED  BY <1>4, <1>5, <1>6, <1>7, <1>8 DEF Step

LEMMA AppendEarlier ==
  ASSUME NEW A, NEW s \in Seq(A), NEW p \in A
  PROVE  \A d, e : Earlier(Append(s, p), d, e) => Earlier(s, d, e) \/ (InSeq(s, d) /\ e = p)
<1> DEFINE n == Len(s)
           t == Append(s, p)
<1>1. Len(t) = n + 1 /\ n \in Nat
  OBVIOUS
<1>2. (\A i \in 1..n : t[i] = s[i]) /\ t[n + 1] = p
  OBVIOUS
<1> HIDE DEF t, n
<1>3. \A i, j \in 1..n + 1 : i < j => i \in 1..n /\ (j \in 1..n \/ j = n + 1)
  BY <1>1
<1>4. ASSUME NEW d, NEW e, NEW i \in 1..n + 1, NEW j \in 1..n + 1, i < j, t[i] = d, t[j] = e
      PROVE  (\E k, l \in 1..n : k < l /\ s[k] = d /\ s[l] = e) \/ ((\E k \in 1..n : s[k] = d) /\ e = p)
  BY <1>2, <1>3, <1>4
<1> QED  BY <1>1, <1>4 DEF Earlier, InSeq, n, t

\* Where a member of the list stands.
LEMMA Stands ==
  ASSUME Distinct(started), NEW d, NEW i \in 1..Len(started), Earlier(started, d, started[i])
  PROVE  \E j \in 1..Len(started) : j < i /\ started[j] = d
<1>1. PICK k \in 1..Len(started), l \in 1..Len(started) : k < l /\ started[k] = d /\ started[l] = started[i]
  BY DEF Earlier
<1>2. l = i
  BY <1>1 DEF Distinct
<1> QED  BY <1>1, <1>2

\* The closing stops a plugin after all that rely on it.
LEMMA ClosingGrounds ==
  ASSUME Control, Budget, InRange, Placed, Walk, Grounded, Alone(Closer), ReadersApart, Closes => Lifo,
         \/ BeginClose \/ CloseReaderLater \/ CloseNext \/ CloseHands \/ Handed \/ CloseReader \/ Settle \/ Closed
  PROVE  Grounded' /\ Lifo'
<1> USE DEF Control
<1>0. /\ RegistryOK /\ CloserTypes /\ CloserMoves /\ todo[Closer] \in Seq(Plugins) /\ index \in Int
      /\ Distinct(started) /\ started \in Seq(Plugins) /\ Closer \in Coroutines
  BY TypesOfCloser DEF Types, RegistryOK, EndingOK, WorkOK, InRange, Coroutines
<1>1. CASE BeginClose
  <2>1. pc[Closer] = "begin" /\ todo' = todo
    BY <1>1 DEF BeginClose, RunsAt
  <2>2. todo'[Closer] = <<>>
    BY <2>1 DEF Budget
  <2>3. 1..Len(todo'[Closer]) = {}
    BY <2>2
  <2>4. Lifo'
    BY <2>3 DEF Lifo, InSeq, Earlier
  <2>5. Grounded'
    BY <1>1, GroundStays DEF BeginClose, registry
  <2> QED  BY <2>4, <2>5
<1>2. CASE CloseReaderLater
  <2> DEFINE h == started[index]
  <2>1. /\ pc[Closer] = "closing" /\ index \in 1..Len(started) /\ h \in Readers /\ h \in Plugins
        /\ index' = index - 1 /\ started' = started /\ halted' = halted /\ state' = state /\ def' = def
    BY <1>0, <1>2, LifecycleAssumption DEF CloseReaderLater, RunsAt, registry
  <2>2. todo'[Closer] = Append(todo[Closer], h)
    BY <1>0, <1>2 DEF CloseReaderLater, Types, WorkOK
  <2>3. Lifo /\ Stops
    BY <1>0, <2>1 DEF Closes, Placed, InPlace
  <2>4. /\ \A e : InSeq(todo'[Closer], e) <=> InSeq(todo[Closer], e) \/ e = h
        /\ \A d, e : Earlier(todo'[Closer], d, e) => Earlier(todo[Closer], d, e) \/ (InSeq(todo[Closer], d) /\ e = h)
    <3> HIDE DEF h
    <3> QED  BY <1>0, <2>1, <2>2, AppendHas, AppendEarlier
  <2>5. ASSUME NEW d, InSeq(todo[Closer], d) PROVE Earlier(started, h, d)
    <3>1. d \in Plugins
      BY <1>0, <2>5 DEF InSeq
    <3>2. d \in Started
      BY <2>3, <2>5, <3>1 DEF Stops
    <3>3. PICK i \in 1..Len(started) : started[i] = d
      BY <3>2 DEF Started
    <3>4. i > index
      BY <2>3, <2>5, <3>3 DEF Lifo
    <3> QED  BY <2>1, <3>3, <3>4 DEF Earlier
  <2>6. ASSUME NEW i \in 1..Len(started), InSeq(todo'[Closer], started[i]) PROVE i > index'
    <3>1. CASE InSeq(todo[Closer], started[i])
      <4>1. i > index
        BY <2>3, <3>1 DEF Lifo
      <4> QED  BY <1>0, <2>1, <4>1
    <3>2. CASE started[i] = h
      <4>1. i = index
        BY <1>0, <2>1, <3>2 DEF Distinct
      <4> QED  BY <1>0, <2>1, <4>1
    <3> QED  BY <2>4, <2>6, <3>1, <3>2
  <2> HIDE DEF h
  <2>7. Lifo'
    BY <2>1, <2>3, <2>4, <2>5, <2>6 DEF Lifo
  <2>8. Grounded'
    BY <2>1, GroundStays
  <2> QED  BY <2>7, <2>8
<1>3. CASE CloseNext
  <2> DEFINE h == started[index]
  <2>1. /\ pc[Closer] = "closing" /\ index \in 1..Len(started) /\ h \notin Readers /\ h \in Plugins
        /\ index' = index - 1 /\ started' = started /\ todo' = todo /\ def' = def
        /\ halted' = halted \cup {h} /\ state' = [state EXCEPT ![h] = "stopping"]
    BY <1>0, <1>3 DEF CloseNext, RunsAt, Stop
  <2>2. Lifo /\ Passed
    BY <2>1 DEF Closes, Walk
  <2>3. ASSUME NEW q \in Plugins, q \in Started, h \in Deps(q) PROVE q \in halted
    <3>1. Earlier(started, h, q)
      BY <2>3 DEF Grounded
    <3>2. PICK i \in 1..Len(started) : started[i] = q
      BY <2>3 DEF Started
    <3>3. PICK j \in 1..Len(started) : j < i /\ started[j] = h
      BY <1>0, <3>1, <3>2, Stands
    <3>4. j = index
      BY <1>0, <2>1, <3>3 DEF Distinct
    <3>5. ~(i <= index)
      BY <3>3, <3>4
    <3>6. q \notin Readers
      BY <2>1, <2>3 DEF ReadersApart
    <3>7. ~InSeq(todo[Closer], q)
      BY <2>2, <3>6 DEF Lifo
    <3> QED  BY <2>2, <3>2, <3>5, <3>7 DEF Passed
  <2>4. Lifo'
    <3>1. \A i \in 1..Len(started) : InSeq(todo[Closer], started[i]) => i > index'
      <4> SUFFICES ASSUME NEW i \in 1..Len(started), InSeq(todo[Closer], started[i]) PROVE i > index'
        OBVIOUS
      <4>1. i > index
        BY <2>2 DEF Lifo
      <4> QED  BY <1>0, <2>1, <4>1
    <3> QED  BY <2>1, <2>2, <3>1 DEF Lifo
  <2> HIDE DEF h
  <2>5. Grounded'
    BY <1>0, <2>1, <2>3, GroundStops
  <2> QED  BY <2>4, <2>5
<1>4. CASE CloseHands \/ Handed \/ Settle
  <2>1. UNCHANGED <<def, state, started, halted, todo, index>> /\ Closes
    BY <1>4 DEF CloseHands, Handed, Settle, RunsAt, ResumesAt, Closes, registry, ending
  <2>2. Lifo'
    BY <2>1 DEF Lifo
  <2> QED  BY <2>1, <2>2, GroundStays
<1>5. CASE CloseReader
  <2> DEFINE h == Head(todo[Closer])
  <2>1. /\ pc[Closer] = "closing readers" /\ todo[Closer] # <<>> /\ h \in Plugins /\ index' = index
        /\ started' = started /\ def' = def /\ todo'[Closer] = Tail(todo[Closer])
        /\ halted' = halted \cup {h} /\ state' = [state EXCEPT ![h] = "stopping"]
    BY <1>0, <1>5, TodoTypes DEF CloseReader, RunsAt, Stop, Visit, Types, WorkOK
  <2>2. Lifo /\ Passed /\ index = 0
    BY <2>1 DEF Closes, Walk
  <2>3. /\ \A e : InSeq(todo[Closer], e) <=> InSeq(todo'[Closer], e) \/ e = h
        /\ \A d, e : Earlier(todo'[Closer], d, e) => Earlier(todo[Closer], d, e)
        /\ \A e : InSeq(todo'[Closer], e) => Earlier(todo[Closer], h, e)
    BY ZenonT(30), <1>0, <2>1, TailHas, TailEarlier
  <2> HIDE DEF h
  <2>4. ASSUME NEW q \in Plugins, q \in Started, h \in Deps(q) PROVE q \in halted
    <3>1. Earlier(started, h, q)
      BY <2>4 DEF Grounded
    <3>2. PICK i \in 1..Len(started) : started[i] = q
      BY <2>4 DEF Started
    <3>3. q \in halted \/ InSeq(todo[Closer], q)
      BY <2>2, <3>2 DEF Passed
    <3>4. ASSUME InSeq(todo[Closer], q) PROVE FALSE
      <4>1. q # h
        BY <1>0, <3>1, EarlierIs
      <4>2. Earlier(started, q, h)
        BY <2>2, <2>3, <3>4, <4>1 DEF Lifo
      <4> QED  BY <1>0, <3>1, <4>2, EarlierIs
    <3> QED  BY <3>3, <3>4
  <2>5. Lifo'
    BY <2>1, <2>2, <2>3 DEF Lifo
  <2>6. Grounded'
    BY <1>0, <2>1, <2>4, GroundStops
  <2> QED  BY <2>5, <2>6
<1>6. CASE Closed
  <2>1. UNCHANGED <<def, state, started, halted, todo, index>> /\ Closes
    BY <1>6 DEF Closed, RunsAt, Closes, registry, ending
  <2>2. Lifo'
    BY <2>1 DEF Lifo
  <2> QED  BY <2>1, <2>2, GroundStays
<1> QED  BY <1>1, <1>2, <1>3, <1>4, <1>5, <1>6

LEMMA ActFounds ==
  ASSUME Control, Quiet, Orderly, Placed, Resting, InRange, StableNeeds, Texted, Founded,
         NEW c \in Coroutines, Step(c) \/ Launch(c), ~Wake(c)
  PROVE  Founded'
<1> USE DEF Control
<1>1. pc[c] \in Changes /\ (turn = c \/ (turn = Nobody /\ ~Over))
  BY StepBegins
<1>2. c # Closer /\ Closer \in Coroutines
  BY CloserChangesNothing DEF Coroutines
<1>3. Inside(c) /\ Alone(c)
  <2>1. Inside(c)
    BY <1>1 DEF Inside, Outside, Changes
  <2> QED  BY <2>1, OneInside DEF Alone
<1>4. ~Closes
  <2>1. CASE pc[Closer] = "done"
    BY <1>1, <2>1, LifecycleAssumption DEF Quiet, Over
  <2>2. CASE pc[Closer] # "done" /\ Closes
    <3>1. Inside(Closer)
      BY <2>2 DEF Closes, Inside, Outside
    <3> QED  BY <1>2, <1>3, <3>1 DEF Alone
  <2> QED  BY <2>1, <2>2
<1>5. Bystanders(c)
  BY OthersStay
<1>6. \A d \in Coroutines : d # c => pc'[d] \in Outside
  <2> SUFFICES ASSUME NEW d \in Coroutines, d # c PROVE pc'[d] \in Outside
    OBVIOUS
  <2>1. pc[d] \in Outside
    BY <1>3 DEF Alone, Inside
  <2> QED  BY <1>5, <2>1 DEF Bystanders, Outside
<1>7. InPlace(c) /\ Resolves(c) /\ AllMarked
  BY <1>3, <1>4 DEF Placed, Resting, AllMarked
<1>8. Distinct(started) /\ Grounded /\ (Starting(c) => Rooted(c)) /\ (Halting(c) => Downward(c))
  BY DEF InRange, Founded
<1>9. Grounded' /\ (Starting(c)' => Rooted(c)') /\ (Halting(c)' => Downward(c)')
  BY <1>1, <1>4, <1>7, <1>8, ActGrounds
<1>10. \A d \in Coroutines : d # c => ~Starting(d)' /\ ~Halting(d)'
  BY <1>6 DEF Starting, Halting, Outside
<1>11. ~Closes'
  BY <1>2, <1>4, <1>5 DEF Bystanders, Closes
<1>12. \A d \in Coroutines : (Starting(d)' => Rooted(d)') /\ (Halting(d)' => Downward(d)')
  BY <1>9, <1>10
<1> QED  BY <1>9, <1>11, <1>12 DEF Founded

\* A step that changes no plugin and at most calls exclusive().
LEMMA StandingFounds ==
  ASSUME Founded, Closer \in Coroutines, UNCHANGED <<state, def, started, halted, todo, target, index>>,
         \A d \in Coroutines : \/ pc'[d] = pc[d] /\ job'[d] = job[d]
                               \/ pc[d] \in {"idle", "woken"} /\ pc'[d] \in {"queued", "begin"}
  PROVE  Founded'
<1>1. Closes <=> Closes'
  BY DEF Closes
<1>2. Grounded' /\ Running' = Running /\ Started' = Started
  BY GroundStays DEF Founded, Running, Started
<1>3. Lifo => Lifo'
  BY DEF Lifo
<1>4. ASSUME NEW d \in Coroutines PROVE (Starting(d)' => Rooted(d)') /\ (Halting(d)' => Downward(d)')
  <2>1. CASE pc'[d] = pc[d] /\ job'[d] = job[d]
    <3>1. (Starting(d) <=> Starting(d)') /\ (Halting(d) <=> Halting(d)')
      BY <2>1 DEF Starting, Halting
    <3>2. Rooted(d) => Rooted(d)'
      BY <1>2 DEF Rooted
    <3>3. \A q : Relies(d, q)' <=> Relies(d, q)
      BY <2>1 DEF Relies
    <3>4. Downward(d) => Downward(d)'
      BY <1>2, <2>1, <3>3 DEF Downward
    <3> QED  BY <3>1, <3>2, <3>4 DEF Founded
  <2>2. CASE pc[d] \in {"idle", "woken"} /\ pc'[d] \in {"queued", "begin"}
    BY <2>2 DEF Starting, Halting
  <2> QED  BY <2>1, <2>2
<1> QED  BY <1>1, <1>2, <1>3, <1>4 DEF Founded

LEMMA FoundedStep ==
  ASSUME Control, Quiet, Budget, InRange, Orderly, Placed, Resting, Walk, StableNeeds, ReadersApart, Texted,
         Founded, [Next]_vars
  PROVE  Founded'
<1> USE DEF Control
<1>0. Boot \in Coroutines /\ Closer \in Coroutines /\ Clicks \subseteq Coroutines /\ Types /\ PlacesOK
  BY DEF Coroutines, Types
<1>1. ASSUME NEW c \in Coroutines, Enter(c), pc[c] \in {"idle", "woken"}, \A d \in Coroutines : d # c => job'[d] = job[d],
             UNCHANGED <<registry, halted, todo, target, index>>
      PROVE  Founded'
  <2>1. pc'[c] \in {"queued", "begin"} /\ \A d \in Coroutines : d # c => pc'[d] = pc[d]
    BY <1>0, <1>1 DEF Enter, PlacesOK
  <2>2. \A d \in Coroutines : \/ pc'[d] = pc[d] /\ job'[d] = job[d]
                              \/ pc[d] \in {"idle", "woken"} /\ pc'[d] \in {"queued", "begin"}
    BY <1>1, <2>1
  <2>3. UNCHANGED <<state, def, started, halted, todo, target, index>>
    BY <1>1 DEF registry
  <2> QED  BY <1>0, <2>2, <2>3, StandingFounds
<1>2. ASSUME NEW c \in Coroutines, Step(c) \/ Launch(c) PROVE Founded'
  <2>1. CASE Wake(c)
    BY <1>1, <2>1 DEF Wake, ResumesAt
  <2>2. CASE ~Wake(c)
    BY <1>2, <2>2, ActFounds
  <2> QED  BY <2>1, <2>2
<1>3. ASSUME NEW c \in Clicks, NEW kind \in Kinds, NEW p \in Plugins, Press(c, kind, p) PROVE Founded'
  <2>1. job \in [Coroutines -> Jobs]
    BY <1>0 DEF Types, WorkOK
  <2>2. \A d \in Coroutines : d # c => job'[d] = job[d]
    BY <1>3, <2>1 DEF Press
  <2> QED  BY <1>0, <1>1, <1>3, <2>2 DEF Press, ending
<1>4. ASSUME Quit PROVE Founded'
  <2>1. pc[Closer] = "idle"
    BY <1>4 DEF Quit, Phases
  <2> QED  BY <1>0, <1>1, <1>4, <2>1 DEF Quit
<1>5. ASSUME \/ BeginClose \/ CloseReaderLater \/ CloseNext \/ CloseHands \/ Handed \/ CloseReader \/ Settle \/ Closed
      PROVE  Founded'
  <2>1. /\ pc[Closer] \in Runnings \cup Awaits
        /\ \A d \in Coroutines : d # Closer => pc'[d] = pc[d] \/ (pc[d] = "queued" /\ pc'[d] = "woken")
    BY <1>5, ClosingKeepsPlace
  <2>2. Inside(Closer)
    BY <2>1 DEF Inside, Outside, Runnings, Awaits
  <2>3. Alone(Closer)
    BY <1>0, <2>2, OneInside DEF Alone
  <2>4. Grounded /\ (Closes => Lifo)
    BY DEF Founded
  <2>5. Grounded' /\ Lifo'
    BY <1>5, <2>3, <2>4, ClosingGrounds
  <2>6. PlacesOK'
    BY <1>5, StepControl DEF Next, Closing, Types
  <2>7. ASSUME NEW d \in Coroutines PROVE ~Starting(d)' /\ ~Halting(d)'
    <3>1. CASE d = Closer
      BY <2>6, <3>1 DEF PlacesOK, CloserPlaces, Outside, Starting, Halting
    <3>2. CASE d # Closer
      <4>1. pc[d] \in Outside
        BY <2>3, <3>2 DEF Alone, Inside
      <4>2. pc'[d] \in Outside
        BY <2>1, <3>2, <4>1 DEF Outside
      <4> QED  BY <4>2 DEF Starting, Halting, Outside
    <3> QED  BY <3>1, <3>2
  <2> QED  BY <2>5, <2>7 DEF Founded
<1>6. ASSUME Stopped \/ OutOfTime \/ (\E p \in Plugins : \E text \in Authored[p] : Edit(p, text))
             \/ (\E p \in Plugins : StopReturns(p)) \/ UNCHANGED vars
      PROVE  Founded'
  <2>1. UNCHANGED <<state, def, started, halted, todo, target, index, pc, job>>
    BY <1>6 DEF Stopped, OutOfTime, Edit, StopReturns, vars, registry, change, ending
  <2> QED  BY <1>0, <2>1, StandingFounds
<1>7. Closing => Founded'
  BY <1>5, <1>6 DEF Closing
<1> QED  BY <1>2, <1>3, <1>4, <1>6, <1>7 DEF Next

\* What was read was in the folder, where only the installation and the author write.
LEMMA TextSteps ==
  ASSUME [Next]_vars
  PROVE  /\ folder' = folder \/ \E p \in Plugins : \E text \in Authored[p] : folder' = [folder EXCEPT ![p] = text]
         /\ def' = def \/ \E p : def' = [def EXCEPT ![p] = folder[p]]
<1>1. ASSUME NEW c, NEW p, NEW again, StartOf(c, p, again) PROVE def' = def \/ \E q : def' = [def EXCEPT ![q] = folder[q]]
  BY <1>1 DEF StartOf, StartUnreadable, StartUnavailable, StartRefused, StartRegistered, Reread
<1>2. ASSUME NEW c \in Coroutines, Step(c) \/ Launch(c)
      PROVE  folder' = folder /\ (def' = def \/ \E p : def' = [def EXCEPT ![p] = folder[p]])
  <2>1. CASE Start(c) \/ Recovered(c)
    BY <1>1, <2>1 DEF Start, Recovered
  <2>2. CASE BeginEnable(c) \/ Erased(c)
    BY <2>2 DEF BeginEnable, Erased, Reread
  <2>3. CASE Wake(c) \/ Resolved(c) \/ Pass(c) \/ TurnedOff(c) \/ Refuse(c) \/ Wait(c) \/ RecoveryFails(c) \/ Launch(c)
    BY <2>3 DEF Wake, Resolved, Pass, TurnedOff, Refuse, Wait, RecoveryFails, Launch, Launched, LaunchFails, LaunchMisfits, registry
  <2>4. CASE BeginDisable(c) \/ StopDependent(c) \/ StopItself(c) \/ Halt(c) \/ Disabled(c) \/ BeginNothing(c)
             \/ BeginErase(c) \/ ErasedOnly(c)
    BY <2>4 DEF BeginDisable, StopDependent, StopItself, Halt, Disabled, BeginNothing, BeginErase, ErasedOnly, registry
  <2> QED  BY <1>2, <2>1, <2>2, <2>3, <2>4 DEF Step
<1>3. ASSUME Closing PROVE folder' = folder /\ def' = def
  BY <1>3 DEF Closing, BeginClose, CloseReaderLater, CloseNext, CloseHands, Handed, CloseReader, Settle, Closed,
              Stopped, OutOfTime, registry
<1>4. ASSUME (\E c \in Clicks, kind \in Kinds, p \in Plugins : Press(c, kind, p)) \/ Quit
             \/ (\E p \in Plugins : StopReturns(p)) \/ UNCHANGED vars
      PROVE  folder' = folder /\ def' = def
  BY <1>4 DEF Press, Quit, StopReturns, registry, vars
<1>5. ASSUME NEW p \in Plugins, NEW text \in Authored[p], Edit(p, text)
      PROVE  folder' = [folder EXCEPT ![p] = text] /\ def' = def
  BY <1>5 DEF Edit
<1> QED  BY <1>2, <1>3, <1>4, <1>5 DEF Next

THEOREM TextedInvariance == Spec => []Texted
<1>1. Init => Texted
  BY DEF Init, Texted, TextsOf
<1>2. Control /\ Texted /\ [Next]_vars => Texted'
  <2> SUFFICES ASSUME Control, Texted, [Next]_vars, NEW p \in Plugins
               PROVE  folder'[p] \in TextsOf(p) /\ def'[p] \in TextsOf(p)
    BY DEF Texted
  <2>1. folder \in [Plugins -> Texts] /\ def \in [Plugins -> Texts] /\ folder[p] \in TextsOf(p) /\ def[p] \in TextsOf(p)
    BY DEF Control, Types, RegistryOK, Texted
  <2>2. folder'[p] \in TextsOf(p)
    BY <2>1, TextSteps DEF TextsOf
  <2>3. def'[p] \in TextsOf(p)
    <3>1. def' = def \/ \E q : def' = [def EXCEPT ![q] = folder[q]]
      BY TextSteps
    <3> QED  BY <2>1, <3>1
  <2> QED  BY <2>2, <2>3
<1> QED  BY <1>1, <1>2, ControlInvariance, PTL DEF Spec

\* What a plugin depends on stands before it in the list, and what has still to be stopped
\* is stopped from the last started to the first, whichever way it is stopped.
THEOREM FoundedInvariance ==
  ASSUME StableNeeds, ReadersApart
  PROVE  Spec => [](Orderly => Founded)
<1>1. Init => (Orderly => Founded)
  <2> SUFFICES ASSUME Init PROVE Founded
    OBVIOUS
  <2>1. started = <<>> /\ halted = {} /\ Started = {}
    BY DEF Init, Started
  <2>2. Closer \in Coroutines /\ \A c \in Coroutines : pc[c] \in {"idle", "resolving"}
    BY DEF Init, Coroutines
  <2>3. pc[Closer] = "idle"
    BY LifecycleAssumption DEF Init, Coroutines
  <2>4. ~Closes /\ \A c \in Coroutines : ~Starting(c) /\ ~Halting(c)
    BY <2>2, <2>3 DEF Closes, Starting, Halting
  <2>5. Grounded
    BY <2>1 DEF Grounded
  <2> QED  BY <2>4, <2>5 DEF Founded
<1>2. Control /\ Quiet /\ Budget /\ InRange /\ Texted /\ (Orderly => Placed) /\ (Orderly => Resting) /\ (Orderly => Walk)
      /\ (Orderly => Founded) /\ [Next]_vars => (Orderly => Founded)'
  BY OrderlyBefore, FoundedStep
<1> QED  BY <1>1, <1>2, ControlInvariance, QuietInvariance, ClosingFitsBudget, ListInRange, TextedInvariance,
            PlacedInvariance, RestingInvariance, WalkInvariance, PTL DEF Spec

\* Dependencies are there from before the start of a plugin to after its stop, whatever
\* fails and whichever switches are turned, of authors who change no dependency and
\* of readers of the log that rely on readers only.
THEOREM DependenciesStand ==
  ASSUME StableNeeds, ReadersApart
  PROVE  Spec => [](Orderly => DependenciesHold)
<1>1. InRange /\ Texted /\ Control /\ (Orderly => Founded) => (Orderly => DependenciesHold)
  <2> SUFFICES ASSUME InRange, Texted, Control, Founded PROVE DependenciesHold
    OBVIOUS
  <2>1. Distinct(started) /\ Grounded /\ started \in Seq(Plugins) /\ halted \subseteq Plugins
    BY DEF InRange, Founded, Control, Types, RegistryOK, EndingOK
  <2>2. \A p \in Started : p \in Plugins /\ Needs(def[p]) = Deps(p)
    <3> SUFFICES ASSUME NEW p \in Started PROVE p \in Plugins /\ Needs(def[p]) = Deps(p)
      OBVIOUS
    <3>1. p \in Plugins
      BY <2>1 DEF Started
    <3> QED  BY <2>1, <3>1, TextedNeeds DEF Texted, Grounded
  <2>3. DependenciesUp
    <3> SUFFICES ASSUME NEW i \in 1..Len(started), NEW d \in Needs(def[started[i]])
                 PROVE  (\E j \in 1..i - 1 : started[j] = d) /\ state[d] \in {"running", "stopping"}
      BY DEF DependenciesUp
    <3>1. started[i] \in Started
      BY DEF Started
    <3>2. started[i] \in Plugins /\ d \in Deps(started[i])
      BY <2>2, <3>1
    <3>3. Earlier(started, d, started[i]) /\ state[d] \in {"running", "stopping"}
      BY <2>1, <3>1, <3>2 DEF Grounded
    <3>4. PICK j \in 1..Len(started) : j < i /\ started[j] = d
      BY <2>1, <3>3, Stands
    <3>5. j \in 1..i - 1
      BY <3>4
    <3> QED  BY <3>3, <3>4, <3>5
  <2>4. DependentsStopFirst
    BY <2>1, <2>2 DEF DependentsStopFirst, Grounded
  <2> QED  BY <2>3, <2>4 DEF DependenciesHold
<1>2. Spec => [](Orderly => Founded)
  BY FoundedInvariance
<1> QED  BY <1>1, <1>2, ListInRange, TextedInvariance, ControlInvariance, PTL
=============================================================================
