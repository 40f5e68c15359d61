-------------------------- MODULE SurfaceTree_proofs --------------------------
(***************************************************************************)
(* Proofs about SurfaceTree: for any nodes, any trees a plugin gives them, *)
(* any commands and any order of the events of a frame, the SDK and the    *)
(* shell agree on every tree, every command arrives in its turn and no     *)
(* late choice sets a value.                                               *)
(***************************************************************************)
EXTENDS SurfaceTree, FiniteSetTheorems, SequenceTheorems, TLAPS

-----------------------------------------------------------------------------
(***************************************************************************)
(* The members of a finite set, by rising key.                             *)
(***************************************************************************)

\* Every set of numbers that is not empty has a least one.
LEMMA LeastNumber ==
  ASSUME NEW T \in SUBSET Nat, T # {}
  PROVE  \E n \in T : \A m \in T : n <= m
<1> DEFINE Below(n) == 0..n
           Intervals == {Below(n) : n \in T}
<1>1. IsWellFoundedOn(StrictSubsetOrdering(Nat), FiniteSubsetsOf(Nat))
  BY FS_StrictSubsetOrderingWellFounded
<1>2. Intervals \subseteq FiniteSubsetsOf(Nat)
  <2> SUFFICES ASSUME NEW n \in T PROVE Below(n) \in FiniteSubsetsOf(Nat)
    OBVIOUS
  <2>1. n \in Nat /\ n \in Int /\ 0 \in Int
    OBVIOUS
  <2>2. IsFiniteSet(0..n)
    BY <2>1, FS_Interval
  <2>3. 0..n \in SUBSET Nat
    BY <2>1
  <2> QED  BY <2>2, <2>3 DEF FiniteSubsetsOf
<1>3. Intervals # {}
  OBVIOUS
<1>4. PICK x \in Intervals : \A y \in Intervals : <<y, x>> \notin StrictSubsetOrdering(Nat)
  <2> HIDE DEF Intervals
  <2> QED  BY <1>1, <1>2, <1>3, WFMin
<1>5. PICK n \in T : x = Below(n)
  BY <1>4
<1>6. ASSUME NEW m \in T PROVE n <= m
  <2> SUFFICES ASSUME m < n PROVE FALSE
    OBVIOUS
  <2>1. Below(m) \subseteq Below(n) /\ Below(m) # Below(n)
    OBVIOUS
  <2>2. Below(m) \in SUBSET Nat /\ Below(n) \in SUBSET Nat
    OBVIOUS
  <2>3. <<Below(m), Below(n)>> \in StrictSubsetOrdering(Nat)
    BY <2>1, <2>2 DEF StrictSubsetOrdering
  <2>4. Below(m) \in Intervals
    OBVIOUS
  <2> QED  BY <1>4, <1>5, <2>3, <2>4
<1> QED  BY <1>6

\* A function that gives the members of a set members of another of the same
\* size, each another one, gives them all.
LEMMA EachTaken ==
  ASSUME NEW S, NEW T, IsFiniteSet(S), IsFiniteSet(T), Cardinality(S) = Cardinality(T),
         NEW f \in [S -> T], \A x, y \in S : f[x] = f[y] => x = y
  PROVE  \A t \in T : \E x \in S : f[x] = t
<1>1. f \in Injection(S, T)
  BY DEF Injection, IsInjective
<1>2. f \in Surjection(S, T)
  BY <1>1, FS_Injection
<1> QED  BY <1>2 DEF Surjection

Rising(s, key) == \A i, j \in DOMAIN s : i < j => key[s[i]] < key[s[j]]

\* The members of smaller key.
Smaller(S, key, x) == {y \in S : key[y] < key[x]}

\* How many members are smaller tells a member from every other.
LEMMA Ranks ==
  ASSUME NEW S, IsFiniteSet(S), NEW key \in [S -> Int], \A x, y \in S : key[x] = key[y] => x = y,
         NEW x \in S, NEW y \in S, key[x] < key[y]
  PROVE  Cardinality(Smaller(S, key, x)) < Cardinality(Smaller(S, key, y))
<1> DEFINE A == Smaller(S, key, x)
           B == Smaller(S, key, y)
<1>1. A \subseteq S /\ B \subseteq S /\ A \subseteq B /\ x \in B /\ x \notin A
  BY DEF Smaller
<1>2. IsFiniteSet(B)
  BY <1>1, FS_Subset
<1> HIDE DEF A, B
<1>3. IsFiniteSet(A) /\ Cardinality(A) <= Cardinality(B) /\ (Cardinality(A) = Cardinality(B) => B = A)
  BY <1>1, <1>2, FS_Subset
<1>4. Cardinality(A) \in Nat /\ Cardinality(B) \in Nat
  BY <1>2, <1>3, FS_CardinalityType
<1>5. Cardinality(A) < Cardinality(B)
  BY <1>1, <1>3, <1>4
<1> QED  BY <1>5 DEF A, B

LEMMA RankBounds ==
  ASSUME NEW S, IsFiniteSet(S), NEW key, NEW x \in S, key[x] \in Int
  PROVE  /\ Cardinality(Smaller(S, key, x)) \in Nat
         /\ Cardinality(Smaller(S, key, x)) < Cardinality(S)
<1> DEFINE A == Smaller(S, key, x)
<1>1. A \subseteq S /\ x \notin A
  BY DEF Smaller
<1> HIDE DEF A
<1>2. IsFiniteSet(A) /\ Cardinality(A) <= Cardinality(S) /\ (Cardinality(S) = Cardinality(A) => S = A)
  BY <1>1, FS_Subset
<1>3. Cardinality(A) \in Nat /\ Cardinality(S) \in Nat
  BY <1>2, FS_CardinalityType
<1>4. Cardinality(A) < Cardinality(S)
  BY <1>1, <1>2, <1>3
<1> QED  BY <1>3, <1>4 DEF A

\* Some sequence has the members of a finite set by rising key.
LEMMA RisingExists ==
  ASSUME NEW S, IsFiniteSet(S), NEW key \in [S -> Int], \A x, y \in S : key[x] = key[y] => x = y
  PROVE  \E s \in SetToSeqs(S) : Rising(s, key)
<1> DEFINE n == Cardinality(S)
           Rank(x) == Cardinality(Smaller(S, key, x))
           rank == [x \in S |-> Rank(x) + 1]
<1>1. n \in Nat /\ IsFiniteSet(1..n) /\ Cardinality(1..n) = n
  <2>1. n \in Nat
    BY FS_CardinalityType
  <2> HIDE DEF n
  <2> QED  BY <2>1, FS_Interval
<1>2. \A x \in S : Rank(x) \in Nat /\ Rank(x) < n
  BY RankBounds
<1>3. \A x, y \in S : key[x] < key[y] => Rank(x) < Rank(y)
  BY Ranks
<1> HIDE DEF n, Rank
<1>4. rank \in [S -> 1..n]
  BY <1>1, <1>2
<1>5. \A x, y \in S : rank[x] < rank[y] => key[x] < key[y]
  <2> SUFFICES ASSUME NEW x \in S, NEW y \in S, rank[x] < rank[y], ~(key[x] < key[y])
               PROVE  FALSE
    OBVIOUS
  <2>1. Rank(x) \in Nat /\ Rank(y) \in Nat /\ Rank(x) < Rank(y)
    BY <1>2
  <2>2. CASE key[x] = key[y]
    BY <2>1, <2>2
  <2>3. CASE key[y] < key[x]
    <3>1. Rank(y) < Rank(x)
      BY <1>3, <2>3
    <3> QED  BY <2>1, <3>1
  <2> QED  BY <2>2, <2>3
<1>6. \A x, y \in S : rank[x] = rank[y] => x = y
  <2> SUFFICES ASSUME NEW x \in S, NEW y \in S, rank[x] = rank[y] PROVE key[x] = key[y]
    OBVIOUS
  <2>1. Rank(x) \in Nat /\ Rank(y) \in Nat /\ Rank(x) = Rank(y)
    BY <1>2
  <2>2. ~(key[x] < key[y]) /\ ~(key[y] < key[x])
    BY <1>3, <2>1
  <2> QED  BY <2>2
<1> HIDE DEF rank
<1>7. \A t \in 1..n : \E x \in S : rank[x] = t
  <2>1. Cardinality(S) = Cardinality(1..n)
    BY <1>1 DEF n
  <2> DEFINE T == 1..n
  <2>2. IsFiniteSet(T) /\ Cardinality(S) = Cardinality(T) /\ rank \in [S -> T]
    BY <1>1, <1>4, <2>1
  <2> HIDE DEF T
  <2>3. \A t \in T : \E x \in S : rank[x] = t
    BY <1>6, <2>2, EachTaken
  <2> QED  BY <2>3 DEF T
<1> DEFINE s == [i \in 1..n |-> CHOOSE x \in S : rank[x] = i]
<1>8. \A i \in 1..n : s[i] \in S /\ rank[s[i]] = i
  BY <1>7
<1>9. s \in [1..n -> S] /\ DOMAIN s = 1..n
  BY <1>8
<1> HIDE DEF s
<1>10. \A i, j \in 1..n : i # j => s[i] # s[j]
  BY <1>8
<1>11. s \in SetToSeqs(S)
  BY <1>9, <1>10 DEF SetToSeqs, n
<1>12. Rising(s, key)
  <2> SUFFICES ASSUME NEW i \in 1..n, NEW j \in 1..n, i < j PROVE key[s[i]] < key[s[j]]
    BY <1>9 DEF Rising
  <2> QED  BY <1>5, <1>8
<1> QED  BY <1>11, <1>12

\* A sequence of a set has each of its members once.
LEMMA SeqOfSet ==
  ASSUME NEW S, IsFiniteSet(S), NEW s \in SetToSeqs(S)
  PROVE  /\ s \in Seq(S) /\ Len(s) = Cardinality(S) /\ DOMAIN s = 1..Cardinality(S)
         /\ \A i, j \in DOMAIN s : s[i] = s[j] => i = j
         /\ ToSet(s) = S
<1> DEFINE n == Cardinality(S)
<1>1. n \in Nat /\ IsFiniteSet(1..n) /\ Cardinality(1..n) = n
  <2>1. n \in Nat
    BY FS_CardinalityType
  <2> HIDE DEF n
  <2> QED  BY <2>1, FS_Interval
<1>2. s \in [1..n -> S] /\ \A i, j \in 1..n : i # j => s[i] # s[j]
  BY DEF SetToSeqs
<1>3. Cardinality(1..n) = Cardinality(S)
  BY <1>1
<1> HIDE DEF n
<1>4. \A t \in S : \E i \in 1..n : s[i] = t
  BY <1>1, <1>2, <1>3, EachTaken
<1>5. s \in Seq(S) /\ Len(s) = n
  BY <1>1, <1>2
<1>6. ToSet(s) = S
  BY <1>2, <1>4 DEF ToSet
<1> QED  BY <1>2, <1>5, <1>6 DEF n

\* There is one such sequence.
LEMMA RisingOnce ==
  ASSUME NEW S, IsFiniteSet(S), NEW key \in [S -> Int],
         NEW s \in SetToSeqs(S), Rising(s, key), NEW t \in SetToSeqs(S), Rising(t, key)
  PROVE  s = t
<1> DEFINE n == Cardinality(S)
<1>1. n \in Nat
  BY FS_CardinalityType
<1>2. /\ s \in [1..n -> S] /\ \A i, j \in 1..n : s[i] = s[j] => i = j
      /\ t \in [1..n -> S] /\ \A i, j \in 1..n : t[i] = t[j] => i = j
  BY DEF SetToSeqs
<1>3. /\ \A x \in S : \E i \in 1..n : s[i] = x
      /\ \A x \in S : \E i \in 1..n : t[i] = x
  BY SeqOfSet DEF ToSet
<1>4. /\ \A i, j \in 1..n : i < j => key[s[i]] < key[s[j]]
      /\ \A i, j \in 1..n : i < j => key[t[i]] < key[t[j]]
  BY <1>2 DEF Rising
<1> HIDE DEF n
<1> DEFINE Apart == {i \in 1..n : s[i] # t[i]}
<1>5. Apart = {}
  <2> SUFFICES ASSUME Apart # {} PROVE FALSE
    OBVIOUS
  <2>1. Apart \in SUBSET Nat
    BY <1>1
  <2>2. PICK k \in Apart : \A m \in Apart : k <= m
    BY <2>1, LeastNumber
  <2>3. \A m \in 1..n : m < k => s[m] = t[m]
    BY <1>1, <2>2
  <2>4. k \in 1..n /\ s[k] # t[k] /\ s[k] \in S /\ t[k] \in S
    BY <1>2
  <2>5. PICK i \in 1..n : t[i] = s[k]
    BY <1>3, <2>4
  <2>6. PICK j \in 1..n : s[j] = t[k]
    BY <1>3, <2>4
  <2>7. i > k
    BY <1>1, <1>2, <2>3, <2>4, <2>5
  <2>8. j > k
    BY <1>1, <1>2, <2>3, <2>4, <2>6
  <2>9. key[t[k]] < key[t[i]] /\ key[s[k]] < key[s[j]]
    BY <1>4, <2>4, <2>7, <2>8
  <2>10. key[t[k]] \in Int /\ key[s[k]] \in Int
    BY <2>4
  <2> QED  BY <2>5, <2>6, <2>9, <2>10
<1>6. \A i \in 1..n : s[i] = t[i]
  BY <1>5
<1>7. s = [i \in 1..n |-> s[i]] /\ t = [i \in 1..n |-> t[i]]
  BY <1>2
<1> QED  BY <1>6, <1>7

\* What ByKey computes.
LEMMA ByKeyRight ==
  ASSUME NEW S, IsFiniteSet(S), NEW key \in [S -> Int], \A x, y \in S : key[x] = key[y] => x = y
  PROVE  /\ ByKey(S, key) \in SetToSeqs(S)
         /\ Rising(ByKey(S, key), key)
<1>1. \E s \in SetToSeqs(S) : Rising(s, key)
  BY RisingExists
<1> QED  BY <1>1 DEF ByKey, Rising

-----------------------------------------------------------------------------
(***************************************************************************)
(* The trees.  A walk is the smallest set that has its first node and the  *)
(* children of its members.                                                *)
(***************************************************************************)

\* Every set of nodes has a node none of whose children are in it: no node lies inside itself.
Grounded(kids) == \A T \in SUBSET Nodes : T # {} => \E n \in T : ToSet(kids[n]) \cap T = {}

Kids == [Nodes -> Seq(Nodes)]

LEMMA KidsIn ==
  ASSUME NEW kids \in Kids, NEW n \in Nodes
  PROVE  /\ ToSet(kids[n]) \subseteq Nodes
         /\ \A i \in DOMAIN kids[n] : kids[n][i] \in ToSet(kids[n])
         /\ \A k \in ToSet(kids[n]) : \E i \in DOMAIN kids[n] : kids[n][i] = k
  BY DEF Kids, ToSet

Under(kids, stop, f) ==
    f = [n \in Nodes |-> {n} \cup IF n \in stop THEN {} ELSE UNION {f[k] : k \in ToSet(kids[n])}]

Keeps(kids, stop, C) == \A x \in C : x \notin stop => ToSet(kids[x]) \subseteq C

\* The members of every set that has n and the children of its members.
Least(kids, stop, n) == {m \in Nodes : \A C \in SUBSET Nodes : n \in C /\ Keeps(kids, stop, C) => m \in C}

LEMMA LeastIs ==
  ASSUME NEW kids \in Kids, NEW stop, NEW n \in Nodes
  PROVE  Least(kids, stop, n) =
           {n} \cup IF n \in stop THEN {} ELSE UNION {Least(kids, stop, k) : k \in ToSet(kids[n])}
<1> DEFINE D == {n} \cup IF n \in stop THEN {} ELSE UNION {Least(kids, stop, k) : k \in ToSet(kids[n])}
<1>1. \A k \in Nodes : Least(kids, stop, k) \subseteq Nodes /\ k \in Least(kids, stop, k)
  BY DEF Least
<1>2. \A k \in Nodes : Keeps(kids, stop, Least(kids, stop, k))
  <2> SUFFICES ASSUME NEW k \in Nodes, NEW x \in Least(kids, stop, k), x \notin stop,
                      NEW y \in ToSet(kids[x])
               PROVE  y \in Least(kids, stop, k)
    BY DEF Keeps
  <2>1. x \in Nodes /\ y \in Nodes
    BY <1>1, KidsIn
  <2>2. ASSUME NEW C \in SUBSET Nodes, k \in C, Keeps(kids, stop, C) PROVE y \in C
    <3>1. x \in C
      BY <2>2 DEF Least
    <3> QED  BY <2>2, <3>1 DEF Keeps
  <2> QED  BY <2>1, <2>2 DEF Least
<1>3. D \in SUBSET Nodes
  <2>1. \A k \in ToSet(kids[n]) : k \in Nodes
    BY KidsIn
  <2> QED  BY <1>1, <2>1
<1>4. Keeps(kids, stop, D)
  <2> SUFFICES ASSUME NEW x \in D, x \notin stop PROVE ToSet(kids[x]) \subseteq D
    BY DEF Keeps
  <2>1. CASE x = n
    <3>1. \A k \in ToSet(kids[n]) : k \in Least(kids, stop, k)
      BY <1>1, KidsIn
    <3> QED  BY <2>1, <3>1
  <2>2. CASE x # n
    <3>1. PICK k \in ToSet(kids[n]) : x \in Least(kids, stop, k) /\ n \notin stop
      BY <2>2
    <3>2. k \in Nodes
      BY KidsIn
    <3>3. ToSet(kids[x]) \subseteq Least(kids, stop, k)
      BY <1>2, <3>1, <3>2 DEF Keeps
    <3> QED  BY <3>1, <3>3
  <2> QED  BY <2>1, <2>2
<1>5. Least(kids, stop, n) \subseteq D
  <2>1. n \in D
    OBVIOUS
  <2> HIDE DEF D
  <2> QED  BY <1>3, <1>4, <2>1 DEF Least
<1>6. ASSUME n \notin stop, NEW k \in ToSet(kids[n]) PROVE Least(kids, stop, k) \subseteq Least(kids, stop, n)
  <2>1. k \in Nodes /\ n \in Least(kids, stop, n)
    BY <1>1, KidsIn
  <2>2. k \in Least(kids, stop, n)
    BY <1>2, <1>6, <2>1 DEF Keeps
  <2>3. Least(kids, stop, n) \in SUBSET Nodes /\ Keeps(kids, stop, Least(kids, stop, n))
    BY <1>1, <1>2
  <2> DEFINE C == Least(kids, stop, n)
  <2>4. k \in C /\ C \in SUBSET Nodes /\ Keeps(kids, stop, C)
    BY <2>2, <2>3
  <2> HIDE DEF C
  <2>5. Least(kids, stop, k) \subseteq C
    BY <2>4 DEF Least
  <2> QED  BY <2>5 DEF C
<1>7. D \subseteq Least(kids, stop, n)
  BY <1>1, <1>6
<1> QED  BY <1>5, <1>7

LEMMA WalkIs ==
  ASSUME NEW kids \in Kids, NEW stop
  PROVE  \A n \in Nodes :
           Walk(kids, n, stop) =
             {n} \cup IF n \in stop THEN {} ELSE UNION {Walk(kids, k, stop) : k \in ToSet(kids[n])}
<1> DEFINE least == [n \in Nodes |-> Least(kids, stop, n)]
           under == CHOOSE f : Under(kids, stop, f)
<1>1. Under(kids, stop, least)
  <2>1. \A n \in Nodes : least[n] = Least(kids, stop, n)
    OBVIOUS
  <2>2. \A n \in Nodes : {least[k] : k \in ToSet(kids[n])} = {Least(kids, stop, k) : k \in ToSet(kids[n])}
    <3> SUFFICES ASSUME NEW n \in Nodes
                 PROVE  {least[k] : k \in ToSet(kids[n])} = {Least(kids, stop, k) : k \in ToSet(kids[n])}
      OBVIOUS
    <3>1. \A k \in ToSet(kids[n]) : least[k] = Least(kids, stop, k)
      BY <2>1, KidsIn
    <3> HIDE DEF least
    <3> QED  BY <3>1
  <2>3. \A n \in Nodes : least[n] =
            {n} \cup IF n \in stop THEN {} ELSE UNION {least[k] : k \in ToSet(kids[n])}
    <3> SUFFICES ASSUME NEW n \in Nodes
                 PROVE  least[n] = {n} \cup IF n \in stop THEN {} ELSE UNION {least[k] : k \in ToSet(kids[n])}
      OBVIOUS
    <3> HIDE DEF least
    <3> QED  BY <2>1, <2>2, LeastIs
  <2>4. least = [n \in Nodes |-> least[n]]
    OBVIOUS
  <2> HIDE DEF least
  <2>5. least = [n \in Nodes |-> {n} \cup IF n \in stop THEN {} ELSE UNION {least[k] : k \in ToSet(kids[n])}]
    BY <2>3, <2>4
  <2> QED  BY <2>5 DEF Under
<1> HIDE DEF least
<1>2. Under(kids, stop, under)
  BY <1>1
<1>3. \A n : Walk(kids, n, stop) = under[n]
  BY DEF Walk, Under
<1> HIDE DEF under
<1> SUFFICES ASSUME NEW n \in Nodes
             PROVE  Walk(kids, n, stop) =
                      {n} \cup IF n \in stop THEN {} ELSE UNION {Walk(kids, k, stop) : k \in ToSet(kids[n])}
  OBVIOUS
<1>4. under[n] = {n} \cup IF n \in stop THEN {} ELSE UNION {under[k] : k \in ToSet(kids[n])}
  BY <1>2 DEF Under
<1>5. {under[k] : k \in ToSet(kids[n])} = {Walk(kids, k, stop) : k \in ToSet(kids[n])}
  BY <1>3
<1> QED  BY <1>3, <1>4, <1>5

\* Where no node lies inside itself, a walk lies in every set that keeps its children.
LEMMA WalkWithin ==
  ASSUME NEW kids \in Kids, Grounded(kids), NEW stop, NEW C \in SUBSET Nodes, Keeps(kids, stop, C)
  PROVE  \A n \in C : Walk(kids, n, stop) \subseteq C
<1> DEFINE T == {n \in C : ~(Walk(kids, n, stop) \subseteq C)}
<1> SUFFICES ASSUME T # {} PROVE FALSE
  OBVIOUS
<1>1. PICK n \in T : ToSet(kids[n]) \cap T = {}
  BY DEF Grounded
<1>2. n \in C /\ n \in Nodes
  OBVIOUS
<1>3. Walk(kids, n, stop) =
         {n} \cup IF n \in stop THEN {} ELSE UNION {Walk(kids, k, stop) : k \in ToSet(kids[n])}
  BY <1>2, WalkIs
<1>4. ASSUME n \notin stop, NEW k \in ToSet(kids[n]) PROVE Walk(kids, k, stop) \subseteq C
  BY <1>1, <1>2, <1>4 DEF Keeps
<1>5. Walk(kids, n, stop) \subseteq C
  BY <1>2, <1>3, <1>4
<1> QED  BY <1>5

LEMMA WalkFacts ==
  ASSUME NEW kids \in Kids, Grounded(kids), NEW stop, NEW n \in Nodes
  PROVE  /\ Walk(kids, n, stop) \subseteq Nodes
         /\ n \in Walk(kids, n, stop)
         /\ n \notin stop => \A k \in ToSet(kids[n]) : Walk(kids, k, stop) \subseteq Walk(kids, n, stop)
         /\ \A m \in Walk(kids, n, stop) :
               m # n => n \notin stop /\ \E k \in ToSet(kids[n]) : m \in Walk(kids, k, stop)
<1>1. Keeps(kids, stop, Nodes)
  BY KidsIn DEF Keeps
<1>2. Walk(kids, n, stop) \subseteq Nodes
  BY <1>1, WalkWithin
<1>3. Walk(kids, n, stop) =
         {n} \cup IF n \in stop THEN {} ELSE UNION {Walk(kids, k, stop) : k \in ToSet(kids[n])}
  BY WalkIs
<1> QED  BY <1>2, <1>3

\* A walk keeps the children of its members.
LEMMA WalkKeeps ==
  ASSUME NEW kids \in Kids, Grounded(kids), NEW stop, NEW n \in Nodes
  PROVE  Keeps(kids, stop, Walk(kids, n, stop))
<1> DEFINE T == {m \in Nodes : ~Keeps(kids, stop, Walk(kids, m, stop))}
<1> SUFFICES ASSUME T # {} PROVE FALSE
  OBVIOUS
<1>1. PICK m \in T : ToSet(kids[m]) \cap T = {}
  BY DEF Grounded
<1>2. PICK x \in Walk(kids, m, stop) : x \notin stop /\ ~(ToSet(kids[x]) \subseteq Walk(kids, m, stop))
  BY DEF Keeps
<1>3. PICK y \in ToSet(kids[x]) : y \notin Walk(kids, m, stop)
  BY <1>2
<1>4. m \in Nodes /\ x \in Nodes /\ y \in Nodes
  <2>1. m \in Nodes /\ x \in Nodes
    BY <1>2, WalkFacts
  <2> QED  BY <1>3, <2>1, KidsIn
<1>5. CASE x = m
  <2>1. Walk(kids, y, stop) \subseteq Walk(kids, m, stop) /\ y \in Walk(kids, y, stop)
    BY <1>2, <1>3, <1>4, <1>5, WalkFacts
  <2> QED  BY <1>3, <2>1
<1>6. CASE x # m
  <2>1. PICK k \in ToSet(kids[m]) : x \in Walk(kids, k, stop) /\ m \notin stop
    BY <1>2, <1>4, <1>6, WalkFacts
  <2>2. k \in Nodes
    BY <1>4, KidsIn
  <2>3. Keeps(kids, stop, Walk(kids, k, stop))
    BY <1>1, <2>1, <2>2
  <2>4. y \in Walk(kids, k, stop)
    BY <1>2, <1>3, <2>1, <2>3 DEF Keeps
  <2>5. Walk(kids, k, stop) \subseteq Walk(kids, m, stop)
    BY <1>4, <2>1, WalkFacts
  <2> QED  BY <1>3, <2>4, <2>5
<1> QED  BY <1>5, <1>6

\* A member of a walk other than its first is a child of a member the walk looks into.
LEMMA WalkParent ==
  ASSUME NEW kids \in Kids, Grounded(kids), NEW stop, NEW n \in Nodes
  PROVE  \A m \in Walk(kids, n, stop) :
            m # n => \E p \in Walk(kids, n, stop) : p \notin stop /\ m \in ToSet(kids[p])
<1> DEFINE W == Walk(kids, n, stop)
           C == {m \in W : m = n \/ \E p \in W : p \notin stop /\ m \in ToSet(kids[p])}
<1>1. W \subseteq Nodes /\ n \in W /\ Keeps(kids, stop, W)
  BY WalkFacts, WalkKeeps
<1> HIDE DEF W
<1>2. C \in SUBSET Nodes /\ n \in C /\ Keeps(kids, stop, C)
  BY <1>1 DEF Keeps
<1> HIDE DEF C
<1>3. W \subseteq C
  BY <1>2, WalkWithin DEF W
<1> QED  BY <1>3 DEF C, W

\* What walks say of trees.
LEMMA TreeFacts ==
  ASSUME NEW kids \in Kids, Grounded(kids), NEW n \in Nodes
  PROVE  /\ Tree(kids, n) \subseteq Nodes
         /\ n \in Tree(kids, n)
         /\ \A m \in Tree(kids, n) : ToSet(kids[m]) \subseteq Tree(kids, n)
         /\ \A m \in Tree(kids, n) : Tree(kids, m) \subseteq Tree(kids, n)
         /\ \A m \in Tree(kids, n) : m # n => \E k \in ToSet(kids[n]) : m \in Tree(kids, k)
         /\ \A m \in Tree(kids, n) : m # n => \E p \in Tree(kids, n) : m \in ToSet(kids[p])
<1> DEFINE T == Tree(kids, n)
<1>1. T = Walk(kids, n, {})
  BY DEF Tree
<1>2. T \subseteq Nodes /\ n \in T /\ Keeps(kids, {}, T)
  BY <1>1, WalkFacts, WalkKeeps
<1>3. \A m \in T : ToSet(kids[m]) \subseteq T
  BY <1>2 DEF Keeps
<1>4. \A m \in T : Tree(kids, m) \subseteq T
  <2> HIDE DEF T
  <2> QED  BY <1>2, WalkWithin DEF Tree
<1>5. \A m \in T : m # n => \E k \in ToSet(kids[n]) : m \in Tree(kids, k)
  BY <1>1, WalkFacts DEF Tree
<1>6. \A m \in T : m # n => \E p \in T : m \in ToSet(kids[p])
  BY <1>1, WalkParent
<1> QED  BY <1>2, <1>3, <1>4, <1>5, <1>6

LEMMA TreeWithin ==
  ASSUME NEW kids \in Kids, Grounded(kids), NEW C \in SUBSET Nodes,
         \A x \in C : ToSet(kids[x]) \subseteq C
  PROVE  \A n \in C : Tree(kids, n) \subseteq C
<1>1. Keeps(kids, {}, C)
  BY DEF Keeps
<1> QED  BY <1>1, WalkWithin DEF Tree

\* No node lies below its own children.
LEMMA NotInside ==
  ASSUME NEW kids \in Kids, Grounded(kids), NEW n \in Nodes, NEW k \in ToSet(kids[n])
  PROVE  n \notin Tree(kids, k)
<1> SUFFICES ASSUME n \in Tree(kids, k) PROVE FALSE
  OBVIOUS
<1>1. k \in Nodes
  BY KidsIn
<1> DEFINE T == {x \in Tree(kids, k) : n \in Tree(kids, x)}
<1>2. T \in SUBSET Nodes /\ T # {}
  <2>1. k \in T
    BY <1>1, TreeFacts
  <2> QED  BY <1>1, <2>1, TreeFacts
<1>3. PICK m \in T : ToSet(kids[m]) \cap T = {}
  BY <1>2 DEF Grounded
<1>4. m \in Nodes /\ m \in Tree(kids, k) /\ n \in Tree(kids, m)
  BY <1>2
<1>5. ToSet(kids[m]) \subseteq Tree(kids, k)
  BY <1>1, <1>4, TreeFacts
<1>6. CASE m = n
  BY <1>3, <1>5, <1>6
<1>7. CASE m # n
  <2>1. PICK c \in ToSet(kids[m]) : n \in Tree(kids, c)
    BY <1>4, <1>7, TreeFacts
  <2> QED  BY <1>3, <1>5, <2>1
<1> QED  BY <1>6, <1>7

\* Of two nodes, one at most lies inside the other.
LEMMA OneInside ==
  ASSUME NEW kids \in Kids, Grounded(kids), NEW n \in Nodes, NEW m \in Tree(kids, n), m # n
  PROVE  n \notin Tree(kids, m)
<1>1. PICK k \in ToSet(kids[n]) : m \in Tree(kids, k)
  BY TreeFacts
<1>2. k \in Nodes
  BY KidsIn
<1>3. Tree(kids, m) \subseteq Tree(kids, k)
  BY <1>1, <1>2, TreeFacts
<1> QED  BY <1>3, NotInside

\* Trees are the same where children are.
LEMMA TreesAlike ==
  ASSUME NEW kids \in Kids, Grounded(kids), NEW other \in Kids, Grounded(other),
         NEW C \in SUBSET Nodes, \A x \in C : ToSet(kids[x]) \subseteq C,
         \A x \in C : ToSet(other[x]) = ToSet(kids[x]), NEW n \in C
  PROVE  Tree(other, n) = Tree(kids, n)
<1> DEFINE T == Tree(kids, n)
           U == Tree(other, n)
<1>1. T \subseteq C
  BY TreeWithin
<1>2. U \subseteq C
  BY TreeWithin
<1>3. /\ T \in SUBSET Nodes /\ n \in T /\ \A x \in T : ToSet(kids[x]) \subseteq T
      /\ U \in SUBSET Nodes /\ n \in U /\ \A x \in U : ToSet(other[x]) \subseteq U
  BY TreeFacts
<1> HIDE DEF T, U
<1>4. \A x \in T : ToSet(other[x]) \subseteq T
  BY <1>1, <1>3
<1>5. U \subseteq T
  BY <1>3, <1>4, TreeWithin DEF U
<1>6. \A x \in U : ToSet(kids[x]) \subseteq U
  BY <1>2, <1>3
<1>7. T \subseteq U
  BY <1>3, <1>6, TreeWithin DEF T
<1>8. U = T
  BY <1>5, <1>7
<1> QED  BY <1>8 DEF T, U

\* Fewer children put no node inside itself.
LEMMA GroundedFewer ==
  ASSUME NEW kids, Grounded(kids), NEW other, \A n \in Nodes : ToSet(other[n]) \subseteq ToSet(kids[n])
  PROVE  Grounded(other)
<1> SUFFICES ASSUME NEW T \in SUBSET Nodes, T # {} PROVE \E n \in T : ToSet(other[n]) \cap T = {}
  BY DEF Grounded
<1>1. PICK n \in T : ToSet(kids[n]) \cap T = {}
  BY DEF Grounded
<1> QED  BY <1>1

\* Nor do children that do not hold the node they are given to.
LEMMA GroundedGrows ==
  ASSUME NEW kids \in Kids, Grounded(kids), NEW n \in Nodes, NEW list \in Seq(Nodes),
         \A k \in ToSet(list) : n \notin Tree(kids, k)
  PROVE  Grounded([kids EXCEPT ![n] = list])
<1> DEFINE other == [kids EXCEPT ![n] = list]
<1>1. other[n] = list /\ \A m \in Nodes : m # n => other[m] = kids[m]
  BY DEF Kids
<1> HIDE DEF other
<1> SUFFICES ASSUME NEW T \in SUBSET Nodes, T # {}, \A m \in T : ToSet(other[m]) \cap T # {}
             PROVE  FALSE
  BY DEF Grounded, other
<1>2. ToSet(list) \subseteq Nodes
  BY DEF ToSet
<1> DEFINE D == {m \in T : \E k \in ToSet(list) : m \in Tree(kids, k)}
<1>3. CASE D = {}
  <2>1. \A k \in ToSet(list) : k \in Tree(kids, k)
    BY <1>2, TreeFacts
  <2>2. ToSet(list) \cap T = {}
    BY <1>3, <2>1
  <2>3. n \notin T
    BY <1>1, <2>2
  <2>4. PICK m \in T : ToSet(kids[m]) \cap T = {}
    BY DEF Grounded
  <2> QED  BY <1>1, <2>3, <2>4
<1>4. CASE D # {}
  <2>1. PICK m \in D : ToSet(kids[m]) \cap D = {}
    BY <1>4 DEF Grounded
  <2>2. PICK k \in ToSet(list) : m \in Tree(kids, k)
    OBVIOUS
  <2>3. ToSet(kids[m]) \subseteq Tree(kids, k)
    BY <1>2, <2>2, TreeFacts
  <2>4. ToSet(kids[m]) \cap T = {}
    BY <2>1, <2>2, <2>3
  <2>5. m \in Nodes /\ m # n
    BY <2>2
  <2>6. other[m] = kids[m]
    BY <1>1, <2>5
  <2> QED  BY <2>4, <2>6
<1> QED  BY <1>3, <1>4

\* The places below the nodes of holders.
Slots(kids, holders) == UNION {{<<n, i>> : i \in DOMAIN kids[n]} : n \in holders}

LEMMA SlotsIn ==
  ASSUME NEW kids \in Kids, NEW holders \in SUBSET Nodes
  PROVE  /\ IsFiniteSet(Slots(kids, holders))
         /\ \A p \in Slots(kids, holders) : /\ p[1] \in holders /\ p[2] \in DOMAIN kids[p[1]]
                                            /\ p = <<p[1], p[2]>>
         /\ \A n \in holders : \A i \in DOMAIN kids[n] : <<n, i>> \in Slots(kids, holders)
<1> DEFINE Of(n) == {<<n, i>> : i \in DOMAIN kids[n]}
           all == {Of(n) : n \in holders}
<1>1. \A n \in holders : IsFiniteSet(Of(n))
  <2> SUFFICES ASSUME NEW n \in holders PROVE IsFiniteSet(Of(n))
    OBVIOUS
  <2>1. DOMAIN kids[n] = 1..Len(kids[n]) /\ Len(kids[n]) \in Int
    BY DEF Kids
  <2>2. IsFiniteSet(DOMAIN kids[n])
    BY <2>1, FS_Interval
  <2> DEFINE f == [i \in DOMAIN kids[n] |-> <<n, i>>]
  <2>3. f \in Surjection(DOMAIN kids[n], Of(n))
    BY DEF Surjection
  <2> HIDE DEF f, Of
  <2> QED  BY <2>2, <2>3, FS_Surjection
<1>2. IsFiniteSet(all)
  <2>1. IsFiniteSet(holders)
    BY TreeAssumption, FS_Subset
  <2> DEFINE f == [n \in holders |-> Of(n)]
  <2>2. f \in Surjection(holders, all)
    BY DEF Surjection
  <2> HIDE DEF f, all
  <2> QED  BY <2>1, <2>2, FS_Surjection
<1>3. \A s \in all : IsFiniteSet(s)
  BY <1>1
<1>4. IsFiniteSet(UNION all)
  <2> HIDE DEF all
  <2> QED  BY <1>2, <1>3, FS_UNION
<1>5. Slots(kids, holders) = UNION all
  BY DEF Slots
<1>6. IsFiniteSet(Slots(kids, holders))
  <2> HIDE DEF all
  <2> QED  BY <1>4, <1>5
<1> QED  BY <1>6 DEF Slots

OneEach(kids, holders) ==
    \A n, m \in holders : \A i \in DOMAIN kids[n], j \in DOMAIN kids[m] :
        kids[n][i] = kids[m][j] => n = m /\ i = j

\* Nodes that are named as often as they are many are named once.
LEMMA NamesOnce ==
  ASSUME NEW kids \in Kids, NEW holders \in SUBSET Nodes, NEW named \in SUBSET Nodes,
         \A n \in holders : ToSet(kids[n]) \subseteq named,
         \A m \in named : \E n \in holders : m \in ToSet(kids[n]),
         NamedOnce(kids, holders, named)
  PROVE  OneEach(kids, holders)
<1> DEFINE slots == Slots(kids, holders)
           f == [p \in slots |-> kids[p[1]][p[2]]]
<1>1. /\ IsFiniteSet(slots)
      /\ \A p \in slots : p[1] \in holders /\ p[2] \in DOMAIN kids[p[1]]
      /\ \A n \in holders : \A i \in DOMAIN kids[n] : <<n, i>> \in slots
  BY SlotsIn
<1>2. Cardinality(slots) = Cardinality(named)
  BY DEF NamedOnce, Slots
<1> HIDE DEF slots
<1>3. \A p \in slots : f[p] \in named
  <2> SUFFICES ASSUME NEW p \in slots PROVE kids[p[1]][p[2]] \in named
    OBVIOUS
  <2>1. p[1] \in holders /\ p[2] \in DOMAIN kids[p[1]] /\ p[1] \in Nodes
    BY <1>1
  <2>2. kids[p[1]][p[2]] \in ToSet(kids[p[1]])
    BY <2>1, KidsIn
  <2> QED  BY <2>1, <2>2
<1>4. \A m \in named : \E p \in slots : f[p] = m
  <2> SUFFICES ASSUME NEW m \in named PROVE \E p \in slots : f[p] = m
    OBVIOUS
  <2>1. PICK n \in holders : m \in ToSet(kids[n])
    OBVIOUS
  <2>2. PICK i \in DOMAIN kids[n] : kids[n][i] = m
    BY <2>1, KidsIn
  <2>3. <<n, i>> \in slots
    BY <1>1
  <2>4. f[<<n, i>>] = kids[n][i]
    BY <2>3
  <2> QED  BY <2>2, <2>3, <2>4
<1>5. f \in Surjection(slots, named)
  BY <1>3, <1>4 DEF Surjection
<1> HIDE DEF f
<1>6. f \in Injection(slots, named)
  BY <1>1, <1>2, <1>5, FS_Surjection
<1>7. \A p, q \in slots : f[p] = f[q] => p = q
  BY <1>6 DEF Injection, IsInjective
<1> SUFFICES ASSUME NEW n \in holders, NEW m \in holders, NEW i \in DOMAIN kids[n],
                    NEW j \in DOMAIN kids[m], kids[n][i] = kids[m][j]
             PROVE  n = m /\ i = j
  BY DEF OneEach
<1>8. <<n, i>> \in slots /\ <<m, j>> \in slots
  BY <1>1
<1>9. f[<<n, i>>] = f[<<m, j>>]
  BY <1>8 DEF f
<1>10. <<n, i>> = <<m, j>>
  BY <1>7, <1>8, <1>9
<1> QED  BY <1>10

-----------------------------------------------------------------------------
(***************************************************************************)
(* The trees of the surfaces: kids are the children the plugin gave, low   *)
(* those the components hold, at the surface of each node.                 *)
(***************************************************************************)

\* The shell and the SDK give a node on a surface the same children, maybe in another order,
\* those are on its surface too, and a node has one place below one node.
Planted(kids, low, at) ==
    /\ Grounded(kids)
    /\ \A n \in Nodes : at[n] = None => low[n] = <<>>
    /\ \A n \in Nodes : at[n] # None => ToSet(kids[n]) = ToSet(low[n]) /\ Len(kids[n]) = Len(low[n])
    /\ \A n \in Leaves : low[n] = <<>>
    /\ \A n \in Nodes : \A k \in ToSet(low[n]) : at[k] = at[n]
    /\ OneEach(low, Nodes)

\* What a surface shows is the tree of its root, which lies below no node.
Grown(low, at, r, s) ==
    IF r = None THEN \A n \in Nodes : at[n] # s
    ELSE /\ r \in Nodes /\ {n \in Nodes : at[n] = s} = Tree(low, r)
         /\ \A n \in Nodes : r \notin ToSet(low[n])

Places == [Nodes -> Surfaces \cup {None}]

LEMMA EmptyList == ToSet(<<>>) = {} /\ \A S : \A s \in Seq(S) : ToSet(s) \subseteq S
  BY DEF ToSet

LEMMA LowGrounded ==
  ASSUME NEW kids \in Kids, NEW low \in Kids, NEW at \in Places, Planted(kids, low, at)
  PROVE  Grounded(low)
<1>1. \A n \in Nodes : ToSet(low[n]) \subseteq ToSet(kids[n])
  BY EmptyList DEF Planted
<1> QED  BY <1>1, GroundedFewer DEF Planted

\* On a surface, both sides have the same trees, which lie on that surface.
LEMMA SameTrees ==
  ASSUME NEW kids \in Kids, NEW low \in Kids, NEW at \in Places, Planted(kids, low, at),
         NEW n \in Nodes, at[n] # None
  PROVE  /\ Tree(low, n) = Tree(kids, n)
         /\ \A m \in Tree(low, n) : at[m] = at[n]
<1> DEFINE C == {m \in Nodes : at[m] = at[n]}
<1>1. Grounded(kids) /\ Grounded(low)
  BY LowGrounded DEF Planted
<1>2. C \in SUBSET Nodes /\ n \in C
  OBVIOUS
<1>3. \A x \in C : ToSet(low[x]) \subseteq C /\ ToSet(low[x]) = ToSet(kids[x])
  BY KidsIn DEF Planted
<1> HIDE DEF C
<1>4. Tree(low, n) \subseteq C
  BY <1>1, <1>2, <1>3, TreeWithin
<1>5. \A x \in C : ToSet(kids[x]) \subseteq C
  BY <1>3
<1>6. Tree(low, n) = Tree(kids, n)
  BY <1>1, <1>2, <1>3, <1>5, TreesAlike
<1> QED  BY <1>4, <1>6 DEF C

\* The parent of a node is in every tree the node lies in, but for its root.
LEMMA ParentInside ==
  ASSUME NEW low \in Kids, Grounded(low), OneEach(low, Nodes), NEW n \in Nodes,
         NEW k \in Tree(low, n), k # n, NEW p \in Nodes, k \in ToSet(low[p])
  PROVE  p \in Tree(low, n)
<1>1. PICK q \in Tree(low, n) : k \in ToSet(low[q])
  BY TreeFacts
<1>2. q \in Nodes
  BY TreeFacts
<1>3. PICK i \in DOMAIN low[p] : low[p][i] = k
  BY KidsIn
<1>4. PICK j \in DOMAIN low[q] : low[q][j] = k
  BY <1>1, <1>2, KidsIn
<1>5. p = q
  BY <1>2, <1>3, <1>4 DEF OneEach
<1> QED  BY <1>1, <1>5

\* What a mount leaves on the surfaces.
LEMMA MountPlants ==
  ASSUME NEW kids \in Kids, NEW low \in Kids, NEW at \in Places, Planted(kids, low, at),
         NEW s \in Surfaces, NEW r \in Nodes, NEW tree, tree = Tree(kids, r),
         \A m \in tree : at[m] \in {s, None},
         NamedOnce(kids, tree, tree \ {r}),
         \A m \in tree : m \in Leaves => kids[m] = <<>>,
         NEW low2 \in Kids, NEW at2 \in Places,
         \A m \in Nodes : /\ m \in tree => low2[m] = kids[m] /\ at2[m] = s
                          /\ m \notin tree /\ at[m] = s => low2[m] = <<>> /\ at2[m] = None
                          /\ m \notin tree /\ at[m] # s => low2[m] = low[m] /\ at2[m] = at[m]
  PROVE  /\ Planted(kids, low2, at2)
         /\ Grown(low2, at2, r, s)
         /\ \A t \in Surfaces, q \in Nodes \cup {None} :
               t # s /\ Grown(low, at, q, t) => Grown(low2, at2, q, t)
<1>1. Grounded(kids) /\ Grounded(low)
  BY LowGrounded DEF Planted
<1>2. /\ tree \subseteq Nodes /\ r \in tree /\ \A m \in tree : ToSet(kids[m]) \subseteq tree
      /\ \A m \in tree : m # r => \E p \in tree : m \in ToSet(kids[p])
  BY <1>1, TreeFacts
<1>3. s # None
  BY TreeAssumption
<1>4. \A m \in tree : r \notin ToSet(kids[m])
  BY <1>1, <1>2, NotInside, OneInside, TreeFacts, KidsIn
<1>5. OneEach(kids, tree)
  <2>1. \A m \in tree : ToSet(kids[m]) \subseteq tree \ {r}
    BY <1>2, <1>4
  <2>2. \A m \in tree \ {r} : \E p \in tree : m \in ToSet(kids[p])
    BY <1>2
  <2> DEFINE named == tree \ {r}
  <2>3. /\ named \in SUBSET Nodes /\ \A m \in tree : ToSet(kids[m]) \subseteq named
        /\ \A m \in named : \E p \in tree : m \in ToSet(kids[p])
        /\ NamedOnce(kids, tree, named) /\ tree \in SUBSET Nodes
    BY <1>2, <2>1, <2>2
  <2> HIDE DEF named
  <2> QED  BY <2>3, NamesOnce
<1>6. \A m \in Nodes : at2[m] = None => low2[m] = <<>>
  BY <1>3 DEF Planted
<1>7. \A m \in Nodes : at2[m] # None => ToSet(kids[m]) = ToSet(low2[m]) /\ Len(kids[m]) = Len(low2[m])
  BY DEF Planted
<1>8. \A m \in Leaves : low2[m] = <<>>
  BY TreeAssumption DEF Planted
<1>9. \A m \in Nodes : \A k \in ToSet(low2[m]) : at2[k] = at2[m]
  <2> SUFFICES ASSUME NEW m \in Nodes, NEW k \in ToSet(low2[m]) PROVE at2[k] = at2[m]
    OBVIOUS
  <2>1. k \in Nodes
    BY KidsIn
  <2>2. CASE m \in tree
    BY <1>2, <2>1, <2>2
  <2>3. CASE m \notin tree /\ at[m] = s
    BY <2>3, EmptyList
  <2>4. CASE m \notin tree /\ at[m] # s
    <3>1. at[k] = at[m] /\ low[m] # <<>>
      BY <2>4, EmptyList DEF Planted
    <3>2. at[m] # None
      BY <3>1 DEF Planted
    <3>3. k \notin tree
      BY <2>4, <3>1, <3>2
    <3> QED  BY <2>1, <2>4, <3>1, <3>3
  <2> QED  BY <2>2, <2>3, <2>4
<1>10. OneEach(low2, Nodes)
  <2>1. ASSUME NEW x \in Nodes, NEW y \in Nodes, NEW i \in DOMAIN low2[x], NEW j \in DOMAIN low2[y],
               low2[x][i] = low2[y][j], x \in tree, y \notin tree
        PROVE  FALSE
    <3> DEFINE c == low2[x][i]
    <3>1. c \in ToSet(low2[x]) /\ c \in ToSet(low2[y])
      BY <2>1, KidsIn
    <3>2. c \in tree
      BY <1>2, <2>1, <3>1
    <3>3. low2[y] = low[y] /\ at[y] # s /\ low[y] # <<>>
      BY <2>1, <3>1, EmptyList
    <3>4. at[c] = at[y] /\ at[y] # None
      BY <3>1, <3>3 DEF Planted
    <3> QED  BY <3>2, <3>3, <3>4
  <2>2. ASSUME NEW x \in Nodes, NEW y \in Nodes, NEW i \in DOMAIN low2[x], NEW j \in DOMAIN low2[y],
               low2[x][i] = low2[y][j], x \in tree, y \in tree
        PROVE  x = y /\ i = j
    BY <1>5, <2>2 DEF OneEach
  <2>3. ASSUME NEW x \in Nodes, NEW y \in Nodes, NEW i \in DOMAIN low2[x], NEW j \in DOMAIN low2[y],
               low2[x][i] = low2[y][j], x \notin tree, y \notin tree
        PROVE  x = y /\ i = j
    <3>1. low2[x] = low[x] /\ low2[y] = low[y]
      BY <2>3
    <3> QED  BY <2>3, <3>1 DEF Planted, OneEach
  <2> QED  BY <2>1, <2>2, <2>3 DEF OneEach
<1>11. Planted(kids, low2, at2)
  BY <1>1, <1>6, <1>7, <1>8, <1>9, <1>10 DEF Planted
<1>12. Grounded(low2)
  BY <1>11, LowGrounded
<1>13. Grown(low2, at2, r, s)
  <2>1. {m \in Nodes : at2[m] = s} = tree
    BY <1>2, <1>3
  <2>2. \A x \in tree : ToSet(low2[x]) = ToSet(kids[x])
    BY <1>2
  <2>3. Tree(low2, r) = tree
    BY <1>1, <1>2, <1>12, <2>2, TreesAlike
  <2>4. \A m \in Nodes : r \notin ToSet(low2[m])
    <3> SUFFICES ASSUME NEW m \in Nodes, r \in ToSet(low2[m]) PROVE FALSE
      OBVIOUS
    <3>1. at2[r] = s /\ at2[m] = s
      BY <1>2, <1>9
    <3>2. m \in tree
      BY <1>3, <3>1
    <3> QED  BY <1>4, <3>2
  <2>5. r # None
    BY TreeAssumption
  <2> QED  BY <2>1, <2>3, <2>4, <2>5 DEF Grown
<1>14. ASSUME NEW t \in Surfaces, NEW q \in Nodes \cup {None}, t # s, Grown(low, at, q, t)
       PROVE  Grown(low2, at2, q, t)
  <2>1. t # None
    BY TreeAssumption
  <2>2. \A m \in Nodes : at2[m] = t <=> at[m] = t
    BY <1>14, <2>1
  <2>3. CASE q = None
    BY <1>14, <2>2, <2>3 DEF Grown
  <2>4. CASE q # None
    <3> DEFINE C == {m \in Nodes : at[m] = t}
    <3>1. q \in Nodes /\ C = Tree(low, q) /\ \A m \in Nodes : q \notin ToSet(low[m])
      BY <1>14, <2>4 DEF Grown
    <3>2. \A x \in C : low2[x] = low[x]
      BY <1>14, <2>1
    <3>3. q \in C /\ \A x \in C : ToSet(low[x]) \subseteq C
      BY <1>1, <3>1, TreeFacts
    <3>4. C \in SUBSET Nodes
      OBVIOUS
    <3>5. {m \in Nodes : at2[m] = t} = C
      BY <2>2
    <3> HIDE DEF C
    <3>6. Tree(low2, q) = C
      BY <1>1, <1>12, <3>1, <3>2, <3>3, <3>4, TreesAlike
    <3>7. \A m \in Nodes : q \notin ToSet(low2[m])
      <4> SUFFICES ASSUME NEW m \in Nodes, q \in ToSet(low2[m]) PROVE FALSE
        OBVIOUS
      <4>1. at2[q] = t /\ at2[m] = t
        BY <1>9, <3>1, <3>3, <3>5
      <4>2. low2[m] = low[m]
        BY <3>2, <3>5, <4>1
      <4> QED  BY <3>1, <4>2
    <3> QED  BY <2>4, <3>1, <3>5, <3>6, <3>7 DEF Grown
  <2> QED  BY <2>3, <2>4
<1> QED  BY <1>11, <1>13, <1>14

\* The sets of a replacement of the children of n by list, as ui.lua and SurfaceStore compute
\* them: what stays and what is made below n, and what leaves the surface.
NamedBy(kids, n, list) == Walk([kids EXCEPT ![n] = list], n, Inside(kids, n)) \ {n}
KeptBy(kids, n, list) == NamedBy(kids, n, list) \cap Inside(kids, n)
MadeBy(kids, n, list) == NamedBy(kids, n, list) \ KeptBy(kids, n, list)
CarriedBy(kids, low, n, list) == UNION {Tree(low, k) : k \in KeptBy(kids, n, list)}
GoneBy(kids, low, n, list) == (Inside(low, n) \ CarriedBy(kids, low, n, list)) \ MadeBy(kids, n, list)
ReachedBy(kids, n, list) ==
    NamedBy(kids, n, list) \cup UNION {Tree(kids, k) : k \in KeptBy(kids, n, list)}

After(kids, low, n, list) ==
    [m \in Nodes |-> IF m = n THEN list ELSE IF m \in MadeBy(kids, n, list) THEN kids[m] ELSE low[m]]

\* What both sides prove of a replacement.
Sound(kids, low, at, n, list) ==
    /\ at[n] # None
    /\ \A k \in ToSet(list) : n \notin Tree(kids, k)
    /\ \A m \in ReachedBy(kids, n, list) : at[m] \in {at[n], None}
    /\ NamedOnce(After(kids, low, n, list), {n} \cup MadeBy(kids, n, list),
                 KeptBy(kids, n, list) \cup MadeBy(kids, n, list))
    /\ \A k, l \in KeptBy(kids, n, list) : k # l => l \notin Tree(low, k)
    /\ \A m \in MadeBy(kids, n, list) :
          at[m] = None \/ m \in Inside(low, n) \ CarriedBy(kids, low, n, list)
    /\ \A m \in MadeBy(kids, n, list) : m \in Leaves => kids[m] = <<>>
    /\ n \in Leaves => list = <<>>

\* What is made was on no surface, what is kept lies inside n, and the rest of n goes.
SetsFit(kids, low, at, n, list) ==
    LET named == NamedBy(kids, n, list)
        kept == KeptBy(kids, n, list)
        made == MadeBy(kids, n, list)
        carried == CarriedBy(kids, low, n, list)
    IN  /\ Grounded([kids EXCEPT ![n] = list])
        /\ Inside(low, n) = Inside(kids, n) /\ Inside(low, n) \subseteq Nodes /\ n \notin Inside(low, n)
        /\ \A m \in Inside(low, n) : at[m] = at[n]
        /\ named \subseteq Nodes /\ kept \subseteq Inside(low, n) /\ named = kept \cup made
        /\ n \notin named
        /\ \A m \in made : at[m] = None
        /\ ToSet(list) \subseteq named /\ \A m \in made : ToSet(kids[m]) \subseteq named
        /\ \A x \in named : x \in ToSet(list) \/ \E p \in made : x \in ToSet(kids[p])
        /\ kept \subseteq carried /\ carried \subseteq Inside(low, n)
        /\ \A m \in carried : ToSet(low[m]) \subseteq carried
        /\ GoneBy(kids, low, n, list) = Inside(low, n) \ carried
        /\ ReachedBy(kids, n, list) = made \cup carried

LEMMA ReplaceSets ==
  ASSUME NEW kids \in Kids, NEW low \in Kids, NEW at \in Places, Planted(kids, low, at),
         NEW n \in Nodes, NEW list \in Seq(Nodes), Sound(kids, low, at, n, list)
  PROVE  SetsFit(kids, low, at, n, list)
<1> DEFINE next == [kids EXCEPT ![n] = list]
           stop == Inside(kids, n)
           walk == Walk(next, n, stop)
           named == NamedBy(kids, n, list)
           kept == KeptBy(kids, n, list)
           made == MadeBy(kids, n, list)
           carried == CarriedBy(kids, low, n, list)
           gone == GoneBy(kids, low, n, list)
<1>1. Grounded(kids) /\ Grounded(low) /\ at[n] # None
  BY LowGrounded DEF Planted, Sound
<1>2. next \in Kids /\ next[n] = list /\ \A m \in Nodes : m # n => next[m] = kids[m]
  BY DEF Kids
<1>3. Grounded(next)
  BY <1>1, GroundedGrows DEF Sound
<1>4. Tree(low, n) = Tree(kids, n) /\ \A m \in Tree(low, n) : at[m] = at[n]
  BY <1>1, SameTrees
<1>5. /\ Inside(low, n) = Inside(kids, n) /\ Inside(low, n) \subseteq Nodes /\ n \notin Inside(low, n)
      /\ \A m \in Inside(low, n) : at[m] = at[n]
  BY <1>1, <1>4, TreeFacts DEF Inside
<1>6. /\ named = walk \ {n} /\ kept = named \cap stop /\ made = named \ kept
  BY DEF NamedBy, KeptBy, MadeBy
<1> HIDE DEF next, named, kept, made, carried, gone
<1>7. walk \subseteq Nodes /\ n \in walk /\ Keeps(next, stop, walk)
  BY <1>2, <1>3, WalkFacts, WalkKeeps
<1>8. \A m \in walk : m # n => \E p \in walk : p \notin stop /\ m \in ToSet(next[p])
  BY <1>2, <1>3, WalkParent
<1>9. \A m \in walk : n \notin ToSet(next[m])
  <2> SUFFICES ASSUME NEW m \in walk, n \in ToSet(next[m]) PROVE FALSE
    OBVIOUS
  <2> DEFINE T == Tree(next, n)
  <2>1. T \subseteq Nodes /\ n \in T /\ \A x \in T : ToSet(next[x]) \subseteq T
    BY <1>2, <1>3, TreeFacts
  <2>2. Keeps(next, stop, T)
    BY <2>1 DEF Keeps
  <2>3. walk \subseteq T
    <3> HIDE DEF T
    <3> QED  BY <1>2, <1>3, <2>1, <2>2, WalkWithin
  <2>4. m \in T /\ m \in Nodes
    BY <2>1, <2>3
  <2>5. m \notin Tree(next, n)
    BY <1>2, <1>3, <2>4, NotInside
  <2> QED  BY <2>4, <2>5
<1>10. n \notin stop
  BY <1>5
<1> HIDE DEF walk, stop
<1>11. named \subseteq Nodes /\ n \notin named /\ named = kept \cup made /\ kept \subseteq stop
  BY <1>6, <1>7
<1>12. \A m \in made : m \notin stop /\ m \in walk /\ m # n /\ m \in Nodes
  BY <1>6, <1>7
<1>13. ToSet(list) \subseteq named
  BY <1>2, <1>6, <1>7, <1>9, <1>10 DEF Keeps
<1>14. \A m \in made : ToSet(kids[m]) \subseteq named
  BY <1>2, <1>6, <1>7, <1>9, <1>12 DEF Keeps
<1>15. \A x \in named : x \in ToSet(list) \/ \E p \in made : x \in ToSet(kids[p])
  <2> SUFFICES ASSUME NEW x \in named PROVE x \in ToSet(list) \/ \E p \in made : x \in ToSet(kids[p])
    OBVIOUS
  <2>1. PICK p \in walk : p \notin stop /\ x \in ToSet(next[p])
    BY <1>6, <1>8
  <2>2. CASE p = n
    BY <1>2, <2>1, <2>2
  <2>3. CASE p # n
    BY <1>2, <1>6, <1>7, <2>1, <2>3
  <2> QED  BY <2>2, <2>3
<1>16. \A m \in made : at[m] = None
  <2>1. \A m \in made : m \notin Inside(low, n)
    BY <1>5, <1>12 DEF stop
  <2> QED  BY <2>1 DEF Sound, made
<1>17. kept \subseteq Inside(low, n)
  BY <1>5, <1>11 DEF stop
<1>18. \A k \in kept : /\ Tree(low, k) \subseteq Inside(low, n) /\ k \in Tree(low, k)
                       /\ Tree(low, k) = Tree(kids, k)
                       /\ \A m \in Tree(low, k) : ToSet(low[m]) \subseteq Tree(low, k)
  <2> SUFFICES ASSUME NEW k \in kept
               PROVE  /\ Tree(low, k) \subseteq Inside(low, n) /\ k \in Tree(low, k)
                      /\ Tree(low, k) = Tree(kids, k)
                      /\ \A m \in Tree(low, k) : ToSet(low[m]) \subseteq Tree(low, k)
    OBVIOUS
  <2>1. k \in Nodes /\ k \in Tree(low, n) /\ k # n /\ at[k] # None
    BY <1>1, <1>5, <1>17 DEF Inside
  <2>2. n \notin Tree(low, k)
    BY <1>1, <2>1, OneInside
  <2>3. Tree(low, k) \subseteq Tree(low, n)
    BY <1>1, <2>1, TreeFacts
  <2>4. Tree(low, k) = Tree(kids, k)
    BY <2>1, SameTrees
  <2>5. k \in Tree(low, k) /\ \A m \in Tree(low, k) : ToSet(low[m]) \subseteq Tree(low, k)
    BY <1>1, <2>1, TreeFacts
  <2> QED  BY <2>2, <2>3, <2>4, <2>5 DEF Inside
<1>19. carried = UNION {Tree(low, k) : k \in kept}
  BY DEF CarriedBy, carried, kept
<1>20. /\ kept \subseteq carried /\ carried \subseteq Inside(low, n)
       /\ \A m \in carried : ToSet(low[m]) \subseteq carried
  BY <1>18, <1>19
<1>21. gone = Inside(low, n) \ carried
  <2>1. \A m \in made : m \notin Inside(low, n)
    BY <1>5, <1>12 DEF stop
  <2> QED  BY <2>1 DEF GoneBy, gone, carried, made
<1>22. ReachedBy(kids, n, list) = made \cup carried
  <2>1. {Tree(kids, k) : k \in kept} = {Tree(low, k) : k \in kept}
    BY <1>18
  <2>2. ReachedBy(kids, n, list) = named \cup UNION {Tree(kids, k) : k \in kept}
    BY DEF ReachedBy, named, kept
  <2> QED  BY <1>11, <1>19, <1>20, <2>1, <2>2
<1>23. Grounded([kids EXCEPT ![n] = list])
  BY <1>3 DEF next
<1> QED  BY <1>5, <1>11, <1>13, <1>14, <1>15, <1>16, <1>17, <1>20, <1>21, <1>22, <1>23
            DEF SetsFit, named, kept, made, carried, gone

\* What a replacement leaves on the surfaces.
LEMMA ReplacePlants ==
  ASSUME NEW kids \in Kids, NEW low \in Kids, NEW at \in Places, Planted(kids, low, at),
         NEW n \in Nodes, NEW list \in Seq(Nodes), Sound(kids, low, at, n, list),
         NEW low2 \in Kids, NEW at2 \in Places,
         low2[n] = list, at2[n] = at[n],
         \A m \in MadeBy(kids, n, list) : low2[m] = kids[m] /\ at2[m] = at[n],
         \A m \in GoneBy(kids, low, n, list) : low2[m] = <<>> /\ at2[m] = None,
         \A m \in Nodes : m # n /\ m \notin MadeBy(kids, n, list) /\ m \notin GoneBy(kids, low, n, list)
                            => low2[m] = low[m] /\ at2[m] = at[m]
  PROVE  /\ Planted([kids EXCEPT ![n] = list], low2, at2)
         /\ \A t \in Surfaces, q \in Nodes \cup {None} : Grown(low, at, q, t) => Grown(low2, at2, q, t)
<1> DEFINE next == [kids EXCEPT ![n] = list]
           named == NamedBy(kids, n, list)
           kept == KeptBy(kids, n, list)
           made == MadeBy(kids, n, list)
           carried == CarriedBy(kids, low, n, list)
           gone == GoneBy(kids, low, n, list)
           inside == Inside(low, n)
           heads == {n} \cup made
           s == at[n]
<1>1. /\ Grounded(kids) /\ Grounded(low) /\ s # None /\ s \in Surfaces /\ OneEach(low, Nodes)
      /\ \A m \in Nodes : at[m] = None => low[m] = <<>>
      /\ \A m \in Nodes : at[m] # None => ToSet(kids[m]) = ToSet(low[m]) /\ Len(kids[m]) = Len(low[m])
      /\ \A m \in Leaves : low[m] = <<>>
      /\ \A m \in Nodes : \A k \in ToSet(low[m]) : at[k] = at[m]
  <2>1. s # None /\ s \in Surfaces
    BY DEF Sound, Places
  <2>2. Grounded(low)
    BY LowGrounded
  <2> QED  BY <2>1, <2>2 DEF Planted
<1>2. /\ Grounded(next)
      /\ inside \subseteq Nodes /\ n \notin inside /\ \A m \in inside : at[m] = s
      /\ named \subseteq Nodes /\ kept \subseteq inside /\ named = kept \cup made /\ n \notin named
      /\ \A m \in made : at[m] = None
      /\ ToSet(list) \subseteq named /\ \A m \in made : ToSet(kids[m]) \subseteq named
      /\ \A x \in named : x \in ToSet(list) \/ \E p \in made : x \in ToSet(kids[p])
      /\ kept \subseteq carried /\ carried \subseteq inside
      /\ \A m \in carried : ToSet(low[m]) \subseteq carried
      /\ gone = inside \ carried
  BY ReplaceSets DEF SetsFit
<1>2a. inside = Inside(kids, n)
  <2>1. Tree(low, n) = Tree(kids, n)
    BY <1>1, SameTrees
  <2> QED  BY <2>1 DEF Inside
<1>3. next \in Kids /\ next[n] = list /\ \A m \in Nodes : m # n => next[m] = kids[m]
  BY DEF Kids
<1>4. /\ \A m \in made : low2[m] = kids[m] /\ at2[m] = s
      /\ \A m \in gone : low2[m] = <<>> /\ at2[m] = None
      /\ \A m \in Nodes : m \notin heads /\ m \notin gone => low2[m] = low[m] /\ at2[m] = at[m]
  OBVIOUS
<1>5. /\ \A k, l \in kept : k # l => l \notin Tree(low, k)
      /\ \A m \in made : m \in Leaves => kids[m] = <<>>
      /\ n \in Leaves => list = <<>>
      /\ NamedOnce(After(kids, low, n, list), heads, kept \cup made)
      /\ carried = UNION {Tree(low, k) : k \in kept}
  BY DEF Sound, CarriedBy
<1>6. /\ After(kids, low, n, list) \in Kids /\ After(kids, low, n, list)[n] = list
      /\ \A m \in made : After(kids, low, n, list)[m] = kids[m]
  <2> DEFINE after == [m \in Nodes |-> IF m = n THEN list ELSE IF m \in made THEN kids[m] ELSE low[m]]
  <2>1. After(kids, low, n, list) = after
    BY DEF After
  <2>2. \A m \in Nodes : kids[m] \in Seq(Nodes) /\ low[m] \in Seq(Nodes)
    BY DEF Kids
  <2>3. \A m \in made : m \in Nodes /\ m # n
    BY <1>2
  <2> HIDE DEF made
  <2>4. after \in Kids
    BY <2>2 DEF Kids
  <2>5. after[n] = list /\ \A m \in made : after[m] = kids[m]
    BY <2>3
  <2> QED  BY <2>1, <2>4, <2>5
<1> HIDE DEF next, named, kept, made, carried, gone, inside, heads
<1>7. heads \subseteq Nodes /\ n \in heads /\ \A m \in made : m \in heads /\ m # n /\ m \in Nodes
  BY <1>2 DEF heads
<1>8. \A m \in heads : ToSet(low2[m]) \subseteq named /\ at2[m] = s /\ low2[m] = After(kids, low, n, list)[m]
                         /\ low2[m] = next[m]
  BY <1>2, <1>3, <1>4, <1>6, <1>7 DEF heads
<1>9. OneEach(low2, heads)
  <2> DEFINE after == After(kids, low, n, list)
             all == kept \cup made
  <2>1. \A m \in heads : ToSet(after[m]) \subseteq all
    BY <1>2, <1>8
  <2>2. \A x \in all : \E p \in heads : x \in ToSet(after[p])
    BY <1>2, <1>6, <1>7
  <2>3. after \in Kids /\ heads \in SUBSET Nodes /\ all \in SUBSET Nodes /\ NamedOnce(after, heads, all)
    BY <1>2, <1>5, <1>6, <1>7
  <2> HIDE DEF after, all
  <2>4. OneEach(after, heads)
    BY <2>1, <2>2, <2>3, NamesOnce
  <2> QED  BY <1>8, <2>4 DEF OneEach, after
\* A kept node stays, and what holds it or what lies beside it does not.
<1>10. \A x \in named : at2[x] = s
  BY <1>2, <1>4, <1>7 DEF heads
<1>11. ASSUME NEW m \in Nodes, NEW k \in ToSet(low[m]), k \in inside, m # n
       PROVE  m \in inside
  <2>1. k \in Tree(low, n) /\ k # n
    BY <1>11 DEF inside, Inside
  <2>2. m \in Tree(low, n)
    BY <1>1, <1>11, <2>1, ParentInside
  <2> QED  BY <1>11, <2>2 DEF inside, Inside
<1>12. ASSUME NEW m \in carried, NEW k \in ToSet(low[m]) PROVE k \notin kept
  <2> SUFFICES ASSUME k \in kept PROVE FALSE
    OBVIOUS
  <2>1. PICK l \in kept : m \in Tree(low, l)
    BY <1>5
  <2>2. l \in Nodes /\ m \in Nodes /\ k \in Nodes
    BY <1>2
  <2>3. k \in Tree(low, l)
    BY <1>1, <1>12, <2>1, <2>2, TreeFacts
  <2>4. k = l
    BY <1>5, <2>1, <2>3
  <2> QED  BY <1>1, <1>12, <2>1, <2>2, <2>4, NotInside
<1>13. \A m \in Nodes : at2[m] = None => low2[m] = <<>>
  BY <1>1, <1>4, <1>8
<1>14. \A m \in Nodes : at2[m] # None => ToSet(next[m]) = ToSet(low2[m]) /\ Len(next[m]) = Len(low2[m])
  <2> SUFFICES ASSUME NEW m \in Nodes, at2[m] # None
               PROVE  ToSet(next[m]) = ToSet(low2[m]) /\ Len(next[m]) = Len(low2[m])
    OBVIOUS
  <2>1. CASE m \in heads
    BY <1>8, <2>1
  <2>2. CASE m \notin heads
    <3>1. m \notin gone /\ m # n
      BY <1>4, <1>7, <2>2
    <3>2. low2[m] = low[m] /\ at2[m] = at[m] /\ next[m] = kids[m]
      BY <1>3, <1>4, <2>2, <3>1
    <3> QED  BY <1>1, <3>2
  <2> QED  BY <2>1, <2>2
<1>15. \A m \in Leaves : low2[m] = <<>>
  BY <1>1, <1>4, <1>5, <1>7, TreeAssumption DEF heads
<1>16. \A m \in Nodes : \A k \in ToSet(low2[m]) : at2[k] = at2[m]
  <2> SUFFICES ASSUME NEW m \in Nodes, NEW k \in ToSet(low2[m]) PROVE at2[k] = at2[m]
    OBVIOUS
  <2>1. k \in Nodes
    BY KidsIn
  <2>2. CASE m \in heads
    BY <1>8, <1>10, <2>2
  <2>3. CASE m \in gone
    BY <1>4, <2>3, EmptyList
  <2>4. CASE m \notin heads /\ m \notin gone
    <3>1. low2[m] = low[m] /\ at2[m] = at[m] /\ k \in ToSet(low[m]) /\ at[k] = at[m] /\ m # n
      BY <1>1, <1>4, <1>7, <2>4
    <3>2. low[m] # <<>> /\ at[m] # None
      BY <1>1, <3>1, EmptyList
    <3>3. k \notin made
      BY <1>2, <3>1, <3>2
    <3>4. k \notin gone
      <4> SUFFICES ASSUME k \in gone PROVE FALSE
        OBVIOUS
      <4>1. k \in inside /\ k \notin carried
        BY <1>2
      <4>2. m \in inside
        BY <1>11, <3>1, <4>1
      <4>3. m \in carried
        BY <1>2, <2>4, <4>2
      <4> QED  BY <1>2, <3>1, <4>1, <4>3
    <3>5. k = n \/ k \notin heads
      BY <3>3 DEF heads
    <3> QED  BY <1>4, <2>1, <3>1, <3>4, <3>5
  <2> QED  BY <2>2, <2>3, <2>4
<1>17. OneEach(low2, Nodes)
  <2>1. ASSUME NEW x \in Nodes, NEW y \in Nodes, NEW i \in DOMAIN low2[x], NEW j \in DOMAIN low2[y],
               low2[x][i] = low2[y][j], x \in heads, y \notin heads
        PROVE  FALSE
    <3> DEFINE c == low2[x][i]
    <3>1. c \in ToSet(low2[x]) /\ c \in ToSet(low2[y])
      BY <2>1, KidsIn
    <3>2. c \in named
      BY <1>8, <2>1, <3>1
    <3>3. y \notin gone /\ y # n
      BY <1>4, <1>7, <2>1, <3>1, EmptyList
    <3>4. low2[y] = low[y] /\ c \in ToSet(low[y]) /\ low[y] # <<>>
      BY <1>4, <2>1, <3>1, <3>3, EmptyList
    <3>5. at[c] = at[y] /\ at[y] # None
      BY <1>1, <3>4
    <3>6. c \in kept /\ c \in inside
      BY <1>2, <3>2, <3>5
    <3>7. y \in inside
      BY <1>11, <3>3, <3>4, <3>6
    <3>8. y \in carried
      BY <1>2, <3>3, <3>7
    <3> QED  BY <1>12, <3>4, <3>6, <3>8
  <2>2. ASSUME NEW x \in Nodes, NEW y \in Nodes, NEW i \in DOMAIN low2[x], NEW j \in DOMAIN low2[y],
               low2[x][i] = low2[y][j], x \in heads, y \in heads
        PROVE  x = y /\ i = j
    BY <1>9, <2>2 DEF OneEach
  <2>3. ASSUME NEW x \in Nodes, NEW y \in Nodes, NEW i \in DOMAIN low2[x], NEW j \in DOMAIN low2[y],
               low2[x][i] = low2[y][j], x \notin heads, y \notin heads
        PROVE  x = y /\ i = j
    <3>1. x \notin gone /\ y \notin gone
      BY <1>4, <2>3
    <3>2. low2[x] = low[x] /\ low2[y] = low[y]
      BY <1>4, <2>3, <3>1
    <3> QED  BY <1>1, <2>3, <3>2 DEF OneEach
  <2> QED  BY <2>1, <2>2, <2>3 DEF OneEach
<1>18. Planted(next, low2, at2)
  BY <1>2, <1>13, <1>14, <1>15, <1>16, <1>17 DEF Planted
<1>19. Grounded(low2)
  BY <1>3, <1>18, LowGrounded
\* The root of a surface lies below no node still.
<1>20. ASSUME NEW q \in Nodes, \A m \in Nodes : q \notin ToSet(low[m]), at[q] # None
       PROVE  /\ q \notin inside
              /\ \A m \in Nodes : q \notin ToSet(low2[m])
  <2>1. q \notin inside
    <3> SUFFICES ASSUME q \in inside PROVE FALSE
      OBVIOUS
    <3>1. q \in Tree(low, n) /\ q # n
      BY DEF inside, Inside
    <3>2. PICK p \in Tree(low, n) : q \in ToSet(low[p])
      BY <1>1, <3>1, TreeFacts
    <3>3. p \in Nodes
      BY <1>1, <3>2, TreeFacts
    <3> QED  BY <1>20, <3>2, <3>3
  <2>2. ASSUME NEW m \in Nodes, q \in ToSet(low2[m]) PROVE FALSE
    <3>1. CASE m \in heads
      <4>1. q \in named /\ q \notin kept
        BY <1>2, <1>8, <2>1, <2>2, <3>1
      <4> QED  BY <1>2, <1>20, <4>1
    <3>2. CASE m \in gone
      BY <1>4, <2>2, <3>2, EmptyList
    <3>3. CASE m \notin heads /\ m \notin gone
      BY <1>4, <1>20, <2>2, <3>3
    <3> QED  BY <3>1, <3>2, <3>3
  <2> QED  BY <2>1, <2>2
<1>21. ASSUME NEW t \in Surfaces, NEW q \in Nodes \cup {None}, Grown(low, at, q, t), t # s
       PROVE  Grown(low2, at2, q, t)
  <2>1. t # None
    BY TreeAssumption
  <2>2. \A m \in Nodes : at2[m] = t <=> at[m] = t
    <3> SUFFICES ASSUME NEW m \in Nodes PROVE at2[m] = t <=> at[m] = t
      OBVIOUS
    <3>1. CASE m \in heads
      BY <1>1, <1>2, <1>8, <1>21, <2>1, <3>1 DEF heads
    <3>2. CASE m \in gone
      BY <1>2, <1>4, <1>21, <2>1, <3>2
    <3>3. CASE m \notin heads /\ m \notin gone
      BY <1>4, <3>3
    <3> QED  BY <3>1, <3>2, <3>3
  <2>3. CASE q = None
    BY <1>21, <2>2, <2>3 DEF Grown
  <2>4. CASE q # None
    <3> DEFINE C == {m \in Nodes : at[m] = t}
    <3>1. q \in Nodes /\ C = Tree(low, q) /\ \A m \in Nodes : q \notin ToSet(low[m])
      BY <1>21, <2>4 DEF Grown
    <3>2. \A x \in C : low2[x] = low[x]
      <4> SUFFICES ASSUME NEW x \in Nodes, at[x] = t PROVE low2[x] = low[x]
        OBVIOUS
      <4>1. x \notin heads /\ x \notin gone
        BY <1>2, <1>21, <2>1 DEF heads
      <4> QED  BY <1>4, <4>1
    <3>3. q \in C /\ \A x \in C : ToSet(low[x]) \subseteq C
      BY <1>1, <3>1, TreeFacts
    <3>4. C \in SUBSET Nodes
      OBVIOUS
    <3>5. {m \in Nodes : at2[m] = t} = C /\ at[q] = t
      BY <2>2, <3>3
    <3> HIDE DEF C
    <3>6. Tree(low2, q) = C
      BY <1>1, <1>19, <3>1, <3>2, <3>3, <3>4, TreesAlike
    <3>7. \A m \in Nodes : q \notin ToSet(low2[m])
      BY <1>20, <2>1, <3>1, <3>5
    <3> QED  BY <2>4, <3>1, <3>5, <3>6, <3>7 DEF Grown
  <2> QED  BY <2>3, <2>4
<1>22. ASSUME NEW q \in Nodes \cup {None}, Grown(low, at, q, s) PROVE Grown(low2, at2, q, s)
  <2>1. q # None
    BY <1>22 DEF Grown
  <2> DEFINE T == Tree(low, q)
             D == Tree(low2, q)
  <2>2. q \in Nodes /\ T = {m \in Nodes : at[m] = s} /\ \A m \in Nodes : q \notin ToSet(low[m])
    BY <1>22, <2>1 DEF Grown
  <2>3. q \in T /\ at[q] = s
    BY <1>1, <2>2, TreeFacts
  <2>4. q \notin inside /\ \A m \in Nodes : q \notin ToSet(low2[m])
    BY <1>1, <1>20, <2>2, <2>3
  <2>5. D \subseteq Nodes /\ q \in D /\ \A x \in D : ToSet(low2[x]) \subseteq D
    BY <1>19, <2>2, TreeFacts
  <2>6. D \subseteq {m \in Nodes : at2[m] = s}
    <3> DEFINE S == {m \in Nodes : at2[m] = s}
    <3>1. q \in S
      <4>1. q \notin gone
        BY <1>2, <2>4
      <4> QED  BY <1>4, <1>8, <2>2, <2>3, <4>1
    <3>2. S \in SUBSET Nodes /\ \A x \in S : ToSet(low2[x]) \subseteq S
      BY <1>16, KidsIn
    <3> HIDE DEF S
    <3>3. D \subseteq S
      BY <1>19, <3>1, <3>2, TreeWithin
    <3> QED  BY <3>3 DEF S
  <2> HIDE DEF T, D
  <2>7. n \in D
    <3> SUFFICES ASSUME n \notin D PROVE FALSE
      OBVIOUS
    <3> DEFINE E == D \ inside
    <3>1. E \in SUBSET Nodes /\ q \in E
      BY <2>4, <2>5
    <3>2. \A x \in E : ToSet(low[x]) \subseteq E
      <4> SUFFICES ASSUME NEW x \in E, NEW y \in ToSet(low[x]) PROVE y \in E
        OBVIOUS
      <4>1. x \in Nodes /\ x # n /\ x \notin gone
        BY <1>2, <2>5
      <4>2. x \notin made
        BY <1>1, <1>2, <4>1, EmptyList
      <4>3. low2[x] = low[x]
        BY <1>4, <4>1, <4>2 DEF heads
      <4>4. y \in D
        BY <2>5, <4>3
      <4>5. y \notin inside
        BY <1>11, <4>1
      <4> QED  BY <4>4, <4>5
    <3> HIDE DEF E
    <3>3. T \subseteq E
      BY <1>1, <3>1, <3>2, TreeWithin DEF T
    <3>4. n \in T
      BY <2>2
    <3> QED  BY <3>3, <3>4 DEF E
  <2>8. named \subseteq D
    <3> DEFINE W == D \cup kept
               walk == Walk(next, n, inside)
    <3>1. ToSet(list) \subseteq D
      BY <1>8, <2>5, <2>7, <1>7
    <3>2. named = walk \ {n}
      BY <1>2a DEF named, NamedBy, next
    <3>3. Keeps(next, inside, W)
      <4> SUFFICES ASSUME NEW x \in W, x \notin inside, NEW y \in ToSet(next[x]) PROVE y \in W
        BY DEF Keeps
      <4>1. x \in D /\ x \in Nodes /\ at2[x] = s
        BY <1>2, <2>5, <2>6
      <4>2. ToSet(next[x]) = ToSet(low2[x])
        BY <1>1, <1>14, <4>1
      <4> QED  BY <2>5, <4>1, <4>2
    <3>4. W \in SUBSET Nodes /\ n \in W
      BY <1>2, <2>5, <2>7
    <3> HIDE DEF W
    <3>5. walk \subseteq W
      BY <1>2, <1>3, <3>3, <3>4, WalkWithin
    <3> SUFFICES ASSUME NEW z \in named, z \notin D PROVE FALSE
      OBVIOUS
    <3>6. PICK p \in made : z \in ToSet(kids[p])
      BY <1>2, <3>1
    <3>7. p \in D
      <4>1. p \in named /\ p \notin kept
        BY <1>2 DEF made, MadeBy, kept
      <4> QED  BY <3>2, <3>5, <4>1 DEF W
    <3>8. ToSet(kids[p]) \subseteq D
      BY <1>4, <2>5, <3>7
    <3> QED  BY <3>6, <3>8
  <2>9. carried \subseteq D
    <3> SUFFICES ASSUME NEW k \in kept PROVE Tree(low, k) \subseteq D
      BY <1>5
    <3>1. k \in D /\ k \in Nodes /\ k \in carried
      BY <1>2, <2>8
    <3> DEFINE E == D \cap carried
    <3>2. E \in SUBSET Nodes /\ k \in E
      BY <2>5, <3>1
    <3>3. \A x \in E : ToSet(low[x]) \subseteq E
      <4> SUFFICES ASSUME NEW x \in E PROVE ToSet(low[x]) \subseteq E
        OBVIOUS
      <4>1. x \in Nodes /\ x \notin heads /\ x \notin gone
        BY <1>1, <1>2, <2>5 DEF heads
      <4>2. low2[x] = low[x]
        BY <1>4, <4>1
      <4> QED  BY <1>2, <2>5, <4>2
    <3> HIDE DEF E
    <3>4. Tree(low, k) \subseteq E
      BY <1>1, <3>2, <3>3, TreeWithin
    <3> QED  BY <3>4 DEF E
  <2>10. T \subseteq D \cup inside
    <3> DEFINE E == D \cup inside
    <3>1. E \in SUBSET Nodes /\ q \in E
      BY <1>2, <2>5
    <3>2. \A x \in E : ToSet(low[x]) \subseteq E
      <4> SUFFICES ASSUME NEW x \in E, NEW y \in ToSet(low[x]) PROVE y \in E
        OBVIOUS
      <4>1. x \in Nodes
        BY <3>1
      <4>2. CASE x \in inside \/ x = n
        <5>1. x \in Tree(low, n) /\ n \in Tree(low, n)
          BY <1>1, <4>2, TreeFacts DEF inside, Inside
        <5>2. y \in Tree(low, n)
          BY <1>1, <5>1, TreeFacts
        <5>3. y # n
          BY <1>1, <4>1, <5>1, OneInside, NotInside, TreeFacts
        <5> QED  BY <5>2, <5>3 DEF inside, Inside
      <4>3. CASE x \notin inside /\ x # n
        <5>1. x \in D /\ x \notin gone
          BY <1>2, <4>3
        <5>2. x \notin made
          BY <1>1, <1>2, <4>1, EmptyList
        <5>3. low2[x] = low[x]
          BY <1>4, <4>1, <4>3, <5>1, <5>2 DEF heads
        <5> QED  BY <2>5, <5>1, <5>3
      <4> QED  BY <4>2, <4>3
    <3> HIDE DEF E
    <3>3. T \subseteq E
      BY <1>1, <3>1, <3>2, TreeWithin DEF T
    <3> QED  BY <3>3 DEF E
  <2>11. {m \in Nodes : at2[m] = s} \subseteq D
    <3> SUFFICES ASSUME NEW m \in Nodes, at2[m] = s PROVE m \in D
      OBVIOUS
    <3>1. CASE m \in heads
      BY <1>2, <2>7, <2>8, <3>1 DEF heads
    <3>2. CASE m \notin heads
      <4>1. m \notin gone
        BY <1>1, <1>4
      <4>2. at[m] = s
        BY <1>4, <3>2, <4>1
      <4>3. m \in D \/ m \in inside
        BY <2>2, <2>10, <4>2
      <4> QED  BY <1>2, <2>9, <4>1, <4>3
    <3> QED  BY <3>1, <3>2
  <2>12. {m \in Nodes : at2[m] = s} = D
    BY <2>6, <2>11
  <2> QED  BY <2>1, <2>2, <2>4, <2>12 DEF Grown, D
<1> QED  BY <1>18, <1>21, <1>22 DEF next

-----------------------------------------------------------------------------
(***************************************************************************)
(* The inductive invariant.                                                *)
(***************************************************************************)

Offered(n) == {o.value : o \in Offers[n]}
Values == {1, None} \cup Typed \cup (UNION {Gives[n] : n \in Nodes}) \cup (UNION {Offered(n) : n \in Nodes})

Reports == [name : {"change", "browse", "move"}, surface : Surfaces, node : Nodes,
            value : Values, order : Seq(Nodes)]
Answers == [name : {"answer"}, node : Nodes, id : 1..MaxSelections, value : Values]
Messages == Reports \cup Answers
Selections == [id : 1..MaxSelections, node : Nodes]
Commands == [number : Nat, node : Nodes]

SdkTypes ==
    /\ children \in Kids /\ value \in [Nodes -> Values]
    /\ picking \in [Nodes -> BOOLEAN] /\ reset \in [Nodes -> BOOLEAN]
    /\ place \in Places /\ holds \in [Surfaces -> SUBSET Nodes]
    /\ waiting \in SUBSET Commands
    /\ selection \in [Nodes -> 0..MaxSelections] /\ outdated \in SUBSET (1..MaxSelections)

ShellTypes ==
    /\ root \in [Surfaces -> Nodes \cup {None}] /\ shown \in Places
    /\ below \in Kids /\ content \in [Nodes -> Values] /\ busy \in [Nodes -> BOOLEAN]

BetweenTypes ==
    /\ inbox \in Seq(Messages) /\ Len(inbox) <= MaxInbox /\ asking \in SUBSET Selections
    /\ sent \in Nat /\ reached \in Seq(Commands) /\ raced \in SUBSET Nodes
    /\ spoiled \in SUBSET (1..MaxSelections) /\ late \in BOOLEAN

Typing == SdkTypes /\ ShellTypes /\ BetweenTypes

Trees ==
    /\ Planted(children, below, shown)
    /\ place = shown
    /\ \A s \in Surfaces : holds[s] = {n \in Nodes : shown[n] = s}
    /\ \A s \in Surfaces : Grown(below, shown, root[s], s)

\* The places of the changes of n that wait for the SDK.
Changes(n) == {i \in DOMAIN inbox : inbox[i].node = n /\ inbox[i].name \in {"change", "move"}}

\* The last change of n in the inbox tells what its component shows.
Tells(n, i) ==
    /\ inbox[i].value = content[n] /\ inbox[i].surface = shown[n]
    /\ inbox[i].name = "move" => inbox[i].order = below[n]
    /\ inbox[i].name = "change" => n \in Paths

Told(n) ==
    IF Changes(n) = {} THEN value[n] = content[n] /\ children[n] = below[n]
    ELSE \E i \in Changes(n) : (\A j \in Changes(n) : j <= i) /\ Tells(n, i)

Hearing ==
    /\ \A i \in DOMAIN inbox : inbox[i].name # "answer" => IsInjective(inbox[i].order)
    /\ \A n \in Nodes : shown[n] # None /\ n \notin raced => Told(n)

\* The i-th message is a report of n on surface s.
Reported(box, n, name, s, i) ==
    i \in DOMAIN box /\ box[i].name = name /\ box[i].node = n /\ box[i].surface = s

Picks ==
    /\ \A n \in Nodes : picking[n] => selection[n] # 0
    /\ \A n \in Nodes : shown[n] = None => selection[n] = 0
    /\ \A n \in Nodes : busy[n] => selection[n] # 0
                                    \/ \E i \in DOMAIN inbox : Reported(inbox, n, "browse", shown[n], i)

\* The selector of this selection of n is open, or its answer waits in the inbox.
Answered(box, id, i) == i \in DOMAIN box /\ box[i].name = "answer" /\ box[i].id = id
Pending(ask, box, id, n) ==
    \/ [id |-> id, node |-> n] \in ask
    \/ \E i \in DOMAIN box : Answered(box, id, i) /\ box[i].node = n

\* A selection of n that an edit overtook will not set a value.
Overtaken(old, box, id, n, s) ==
    \/ id \in old
    \/ \E i \in DOMAIN box : /\ Reported(box, n, "change", s, i)
                             /\ \A j \in DOMAIN box : Answered(box, id, j) => i < j

\* Each selection is open once or answered once.
Single(ask, box) ==
    /\ \A a, b \in ask : a.id = b.id => a = b
    /\ \A i, j \in DOMAIN box, id \in 1..MaxSelections : Answered(box, id, i) /\ Answered(box, id, j) => i = j
    /\ \A a \in ask, i \in DOMAIN box : ~Answered(box, a.id, i)

Selecting ==
    /\ Single(asking, inbox)
    /\ \A n \in Nodes : selection[n] # 0 => Pending(asking, inbox, selection[n], n)
    /\ \A id \in spoiled \cup outdated : \E n \in Nodes : Pending(asking, inbox, id, n)
    /\ \A n \in Nodes : selection[n] # 0 /\ selection[n] \in spoiled =>
                            Overtaken(outdated, inbox, selection[n], n, shown[n])
    /\ ~late

Numbered ==
    /\ IsFiniteSet(waiting)
    /\ \A w \in waiting : shown[w.node] = None
    /\ \A v, w \in waiting : v.number = w.number => v = w
    /\ \A i, j \in DOMAIN reached : reached[i].number = reached[j].number => i = j
    /\ \A i \in DOMAIN reached, w \in waiting : reached[i].number # w.number
    /\ \A k \in 1..sent : (\E w \in waiting : w.number = k)
                             \/ \E i \in DOMAIN reached : reached[i].number = k
    /\ \A w \in waiting : w.number \in 1..sent
    /\ \A i \in DOMAIN reached : reached[i].number \in 1..sent
    /\ Len(reached) + Cardinality(waiting) = sent

InOrderSent ==
    /\ \A i, j \in DOMAIN reached :
          i < j /\ reached[i].node = reached[j].node => reached[i].number < reached[j].number
    /\ \A i \in DOMAIN reached, w \in waiting :
          reached[i].node = w.node => reached[i].number < w.number

Inv == Typing /\ Trees /\ Hearing /\ Picks /\ Selecting /\ Numbered /\ InOrderSent

-----------------------------------------------------------------------------
(***************************************************************************)
(* The types of the variables, and the commands a mount delivers.          *)
(***************************************************************************)

Theirs(nodes) == {w \in waiting : w.node \in nodes}

\* A mount delivers each command kept for its nodes once, in the order they were sent.
LEMMA Deliveries ==
  ASSUME Typing, IsFiniteSet(waiting), \A v, w \in waiting : v.number = w.number => v = w, NEW nodes
  PROVE  /\ Delivered(nodes) \in Seq(Theirs(nodes))
         /\ Len(Delivered(nodes)) = Cardinality(Theirs(nodes))
         /\ \A i, j \in DOMAIN Delivered(nodes) : Delivered(nodes)[i] = Delivered(nodes)[j] => i = j
         /\ ToSet(Delivered(nodes)) = Theirs(nodes)
         /\ \A i, j \in DOMAIN Delivered(nodes) :
               i < j => Delivered(nodes)[i].number < Delivered(nodes)[j].number
<1> DEFINE T == Theirs(nodes)
           key == [w \in T |-> w.number]
           d == Delivered(nodes)
<1>1. IsFiniteSet(T)
  BY FS_Subset DEF Theirs
<1>2. key \in [T -> Int] /\ \A v, w \in T : key[v] = key[w] => v = w
  BY DEF Theirs, Typing, SdkTypes, Commands
<1>3. d = ByKey(T, key)
  BY DEF Delivered, Theirs
<1> HIDE DEF key, d
<1>4. d \in SetToSeqs(T) /\ Rising(d, key)
  <2> HIDE DEF T
  <2> QED  BY <1>1, <1>2, <1>3, ByKeyRight
<1>5. /\ d \in Seq(T) /\ Len(d) = Cardinality(T)
      /\ \A i, j \in DOMAIN d : d[i] = d[j] => i = j
      /\ ToSet(d) = T
  <2> HIDE DEF T
  <2> QED  BY <1>1, <1>4, SeqOfSet
<1>6. \A i, j \in DOMAIN d : i < j => d[i].number < d[j].number
  <2> SUFFICES ASSUME NEW i \in DOMAIN d, NEW j \in DOMAIN d, i < j PROVE d[i].number < d[j].number
    OBVIOUS
  <2>1. d[i] \in T /\ d[j] \in T
    BY <1>5
  <2>2. key[d[i]] < key[d[j]]
    BY <1>4 DEF Rising
  <2> QED  BY <2>1, <2>2 DEF key
<1> QED  BY <1>5, <1>6 DEF d

LEMMA RacedTypes == ASSUME Typing, NEW S \in SUBSET Nodes PROVE Raced(S) \in SUBSET Nodes
  BY DEF Typing, BetweenTypes, Raced

LEMMA WaitsTypes ==
  ASSUME Typing, NEW S \in SUBSET Nodes
  PROVE  Waits(S) \in SUBSET (1..MaxSelections)
  BY TreeAssumption DEF Typing, SdkTypes, Waits

LEMMA BindTypes ==
  ASSUME Typing, IsFiniteSet(waiting), \A v, w \in waiting : v.number = w.number => v = w,
         NEW s \in Surfaces, NEW left \in SUBSET Nodes, NEW stay \in SUBSET Nodes, Bind(s, left, stay)
  PROVE  /\ holds' \in [Surfaces -> SUBSET Nodes] /\ place' \in Places
         /\ selection' \in [Nodes -> 0..MaxSelections] /\ spoiled' \in SUBSET (1..MaxSelections)
         /\ outdated' \in SUBSET (1..MaxSelections)
         /\ picking' \in [Nodes -> BOOLEAN] /\ reset' \in [Nodes -> BOOLEAN]
         /\ reached' \in Seq(Commands) /\ waiting' \in SUBSET Commands
<1>1. holds' \in [Surfaces -> SUBSET Nodes] /\ place' \in Places
  BY DEF Typing, SdkTypes, Bind, Places
<1>2. selection' \in [Nodes -> 0..MaxSelections]
  BY TreeAssumption DEF Typing, SdkTypes, Bind
<1>3. spoiled' \in SUBSET (1..MaxSelections) /\ outdated' \in SUBSET (1..MaxSelections)
  BY WaitsTypes DEF Typing, SdkTypes, BetweenTypes, Bind
<1>4. picking' \in [Nodes -> BOOLEAN]
  BY DEF Typing, SdkTypes, Bind
<1>5. reset' \in [Nodes -> BOOLEAN]
  BY DEF Bind
<1>6. Delivered(stay) \in Seq(Theirs(stay))
  BY Deliveries
<1>7. Delivered(stay) \in Seq(Commands)
  <2>1. Theirs(stay) \subseteq Commands
    BY DEF Theirs, Typing, SdkTypes
  <2> QED  BY <1>6, <2>1, SeqMonotonic
<1>8. reached' \in Seq(Commands)
  BY <1>7, ConcatProperties DEF Bind, Typing, BetweenTypes
<1>9. waiting' \in SUBSET Commands
  BY DEF Bind, Undelivered, Typing, SdkTypes
<1> QED  BY <1>1, <1>2, <1>3, <1>4, <1>5, <1>8, <1>9

LEMMA BuildTypes ==
  ASSUME Typing, NEW s \in Surfaces, NEW made \in SUBSET Nodes, NEW gone, NEW left, NEW changed \in SUBSET Nodes,
         NEW kids \in Seq(Nodes), NEW v \in Values,
         Build(s, made, gone, left), Fill(made, gone, changed, kids, v)
  PROVE  /\ shown' \in Places /\ busy' \in [Nodes -> BOOLEAN]
         /\ below' \in Kids /\ content' \in [Nodes -> Values] /\ raced' \in SUBSET Nodes
<1>1. shown' \in Places
  BY DEF Build, Typing, ShellTypes, Places
<1>2. busy' \in [Nodes -> BOOLEAN]
  BY DEF Build, Typing, ShellTypes, SdkTypes
<1>3. below' \in Kids
  BY DEF Fill, Typing, ShellTypes, SdkTypes, Kids
<1>4. content' \in [Nodes -> Values]
  BY DEF Fill, Typing, ShellTypes, SdkTypes, Values, Blank
<1>5. raced' \in SUBSET Nodes
  BY RacedTypes DEF Fill
<1> QED  BY <1>1, <1>2, <1>3, <1>4, <1>5

\* Blank and the nodes of a surface.
LEMMA BlankTypes == Blank \in Values /\ <<>> \in Seq(Nodes)
  BY DEF Blank, Values

-----------------------------------------------------------------------------
(***************************************************************************)
(* A mount, an unmount and a replacement rebuild a surface.  Their nodes   *)
(* that leave, stay, are made, go and change fit together as follows.      *)
(***************************************************************************)

Rebuilds(s, left, stay, made, gone, changed, kids, v) ==
    /\ Bind(s, left, stay) /\ Build(s, made, gone, left) /\ Fill(made, gone, changed, kids, v)
    /\ left \subseteq made \cup gone /\ gone \subseteq left /\ gone \cap made = {}
    /\ made \subseteq stay /\ changed \cap (made \cup gone) = {}
    /\ \A m \in made : shown[m] = None \/ m \in left
    /\ \A n \in Nodes : n \notin changed => children'[n] = children[n] /\ value'[n] = value[n]
    /\ \A n \in changed : children'[n] = kids /\ value'[n] = v
    /\ UNCHANGED <<inbox, asking, sent, late>>

LEMMA RebuildsHearing ==
  ASSUME Inv, NEW s \in Surfaces, NEW left \in SUBSET Nodes, NEW stay \in SUBSET Nodes,
         NEW made \in SUBSET Nodes, NEW gone \in SUBSET Nodes, NEW changed \in SUBSET Nodes,
         NEW kids, NEW v, Rebuilds(s, left, stay, made, gone, changed, kids, v)
  PROVE  Hearing'
<1>1. inbox' = inbox
  BY DEF Rebuilds
<1>2. \A i \in DOMAIN inbox' : inbox'[i].name # "answer" => IsInjective(inbox'[i].order)
  BY <1>1 DEF Inv, Hearing
<1>3. /\ raced' = Raced(made \cup changed) \ gone
      /\ shown' = [n \in Nodes |-> IF n \in made THEN s ELSE IF n \in gone THEN None ELSE shown[n]]
      /\ below' = [n \in Nodes |-> IF n \in changed THEN kids ELSE IF n \in made THEN children[n]
                                   ELSE IF n \in gone THEN <<>> ELSE below[n]]
      /\ content' = [n \in Nodes |-> IF n \in changed THEN v ELSE IF n \in made THEN value[n]
                                     ELSE IF n \in gone THEN Blank ELSE content[n]]
  BY DEF Rebuilds, Build, Fill
<1>4. /\ \A n \in Nodes : n \notin changed => children'[n] = children[n] /\ value'[n] = value[n]
      /\ \A n \in changed : children'[n] = kids /\ value'[n] = v
      /\ changed \cap (made \cup gone) = {}
  BY DEF Rebuilds
<1> SUFFICES ASSUME NEW n \in Nodes, shown'[n] # None, n \notin raced' PROVE Told(n)'
  BY <1>2 DEF Hearing
<1>5. n \notin gone
  BY <1>3, <1>4 DEF Rebuilds
<1>6. Changes(n)' = Changes(n)
  BY <1>1 DEF Changes
<1>7. CASE n \in made \cup changed
  <2>1. ~InFlight(n)
    BY <1>3, <1>5, <1>7 DEF Raced
  <2>2. Changes(n) = {}
    BY <2>1 DEF Changes, InFlight
  <2>3. value'[n] = content'[n] /\ children'[n] = below'[n]
    BY <1>3, <1>4, <1>7
  <2> QED  BY <1>6, <2>2, <2>3 DEF Told
<1>8. CASE n \notin made \cup changed
  <2>1. shown'[n] = shown[n] /\ below'[n] = below[n] /\ content'[n] = content[n]
    BY <1>3, <1>5, <1>8
  <2>2. children'[n] = children[n] /\ value'[n] = value[n]
    BY <1>4, <1>8
  <2>3. n \notin raced
    BY <1>3, <1>5, <1>8 DEF Raced
  <2>4. Told(n)
    BY <2>1, <2>3 DEF Inv, Hearing
  <2>5. \A i \in Changes(n) : Tells(n, i) => Tells(n, i)'
    BY <1>1, <2>1 DEF Tells
  <2> QED  BY <1>6, <2>1, <2>2, <2>4, <2>5 DEF Told
<1> QED  BY <1>7, <1>8

LEMMA RebuildsPicks ==
  ASSUME Inv, NEW s \in Surfaces, NEW left \in SUBSET Nodes, NEW stay \in SUBSET Nodes,
         NEW made \in SUBSET Nodes, NEW gone \in SUBSET Nodes, NEW changed \in SUBSET Nodes,
         NEW kids, NEW v, Rebuilds(s, left, stay, made, gone, changed, kids, v)
  PROVE  Picks'
<1>1. /\ left \subseteq made \cup gone /\ gone \subseteq left /\ gone \cap made = {}
      /\ inbox' = inbox
  BY DEF Rebuilds
<1>2. /\ \A n \in Nodes : shown'[n] = IF n \in made THEN s ELSE IF n \in gone THEN None ELSE shown[n]
      /\ \A n \in Nodes : busy'[n] = IF n \in made THEN picking[n] /\ ~Resets(left)[n]
                                     ELSE busy[n] /\ n \notin gone
      /\ \A n \in Nodes : selection'[n] = IF n \in left THEN 0 ELSE selection[n]
      /\ \A n \in Nodes : picking'[n] = (picking[n] /\ n \notin left)
  BY DEF Rebuilds, Bind, Build
<1>3. /\ \A n \in Nodes : picking[n] => selection[n] # 0
      /\ \A n \in Nodes : shown[n] = None => selection[n] = 0
      /\ \A n \in Nodes : busy[n] => selection[n] # 0 \/ \E i \in DOMAIN inbox : Reported(inbox, n, "browse", shown[n], i)
  BY DEF Inv, Picks
<1>4. \A n \in Nodes : picking'[n] => selection'[n] # 0
  BY <1>2, <1>3
<1>5. s # None
  BY TreeAssumption
<1>6. \A n \in Nodes : shown'[n] = None => selection'[n] = 0
  BY <1>1, <1>2, <1>3, <1>5
<1>7. ASSUME NEW n \in Nodes, busy'[n]
      PROVE  selection'[n] # 0 \/ \E i \in DOMAIN inbox' : Reported(inbox', n, "browse", shown'[n], i)
  <2>1. CASE n \in made
    <3>1. picking[n] /\ ~Resets(left)[n]
      BY <1>2, <1>7, <2>1
    <3>2. n \notin left
      BY <3>1 DEF Resets
    <3> QED  BY <1>2, <1>3, <3>1, <3>2
  <2>2. CASE n \notin made
    <3>1. busy[n] /\ n \notin gone /\ n \notin left
      BY <1>1, <1>2, <1>7, <2>2
    <3>2. shown'[n] = shown[n] /\ selection'[n] = selection[n]
      BY <1>2, <2>2, <3>1
    <3> QED  BY <1>1, <1>3, <3>1, <3>2
  <2> QED  BY <2>1, <2>2
<1> QED  BY <1>4, <1>6, <1>7 DEF Picks

\* A selection is pending for one node.
LEMMA PendingOnce ==
  ASSUME NEW ask, NEW box, Single(ask, box), NEW id \in 1..MaxSelections,
         NEW n \in Nodes, NEW m \in Nodes, Pending(ask, box, id, n), Pending(ask, box, id, m)
  PROVE  n = m
<1>1. ASSUME NEW a \in Nodes, [id |-> id, node |-> a] \in ask,
             NEW i \in DOMAIN box, Answered(box, id, i)
      PROVE  FALSE
  BY <1>1 DEF Single
<1>2. ASSUME [id |-> id, node |-> n] \in ask, [id |-> id, node |-> m] \in ask PROVE n = m
  <2>1. [id |-> id, node |-> n] = [id |-> id, node |-> m]
    BY <1>2 DEF Single
  <2> QED  BY <2>1
<1>3. ASSUME NEW i \in DOMAIN box, NEW j \in DOMAIN box, Answered(box, id, i), Answered(box, id, j),
             box[i].node = n, box[j].node = m
      PROVE  n = m
  BY <1>3 DEF Single
<1> QED  BY <1>1, <1>2, <1>3 DEF Pending

LEMMA RebuildsSelecting ==
  ASSUME Inv, NEW s \in Surfaces, NEW left \in SUBSET Nodes, NEW stay \in SUBSET Nodes,
         NEW made \in SUBSET Nodes, NEW gone \in SUBSET Nodes, NEW changed \in SUBSET Nodes,
         NEW kids, NEW v, Rebuilds(s, left, stay, made, gone, changed, kids, v)
  PROVE  Selecting'
<1>1. /\ inbox' = inbox /\ asking' = asking /\ late' = late
      /\ \A m \in made : shown[m] = None \/ m \in left
      /\ gone \subseteq left
  BY DEF Rebuilds
<1>2. /\ \A n \in Nodes : selection'[n] = IF n \in left THEN 0 ELSE selection[n]
      /\ \A n \in Nodes : shown'[n] = IF n \in made THEN s ELSE IF n \in gone THEN None ELSE shown[n]
      /\ spoiled' = spoiled \cup Waits(left) /\ outdated' = outdated \ Waits(left)
  BY DEF Rebuilds, Bind, Build
<1>3. /\ Single(asking, inbox) /\ ~late
      /\ \A n \in Nodes : selection[n] # 0 => Pending(asking, inbox, selection[n], n)
      /\ \A id \in spoiled \cup outdated : \E n \in Nodes : Pending(asking, inbox, id, n)
      /\ \A n \in Nodes : selection[n] # 0 /\ selection[n] \in spoiled =>
                              Overtaken(outdated, inbox, selection[n], n, shown[n])
  BY DEF Inv, Selecting
<1>6. \A n \in Nodes : selection'[n] # 0 => Pending(asking, inbox, selection'[n], n)
  BY <1>2, <1>3
<1>7. \A id \in spoiled' \cup outdated' : \E n \in Nodes : Pending(asking, inbox, id, n)
  <2> SUFFICES ASSUME NEW id \in spoiled' \cup outdated' PROVE \E n \in Nodes : Pending(asking, inbox, id, n)
    OBVIOUS
  <2>1. CASE id \in spoiled \cup outdated
    BY <1>3, <2>1
  <2>2. CASE id \in Waits(left)
    <3>1. PICK n \in left : id = selection[n] /\ id # 0
      BY <2>2 DEF Waits
    <3> QED  BY <1>3, <3>1
  <2> QED  BY <1>2, <2>1, <2>2
<1>8. ASSUME NEW n \in Nodes, selection'[n] # 0, selection'[n] \in spoiled'
      PROVE  Overtaken(outdated', inbox, selection'[n], n, shown'[n])
  <2>1. n \notin left /\ selection'[n] = selection[n]
    BY <1>2, <1>8
  <2>2. selection[n] \in 1..MaxSelections
    BY <1>8, <2>1, TreeAssumption DEF Inv, Typing, SdkTypes
  <2>3. selection[n] \notin Waits(left)
    <3> SUFFICES ASSUME NEW l \in left, selection[n] = selection[l] PROVE FALSE
      BY <2>2 DEF Waits
    <3>1. Pending(asking, inbox, selection[n], n) /\ Pending(asking, inbox, selection[n], l)
      BY <1>3, <1>8, <2>1
    <3>2. n = l
      BY <1>3, <2>2, <3>1, PendingOnce
    <3> QED  BY <2>1, <3>2
  <2>4. Overtaken(outdated, inbox, selection[n], n, shown[n])
    BY <1>2, <1>3, <1>8, <2>1, <2>3
  <2>5. shown'[n] = shown[n]
    <3>1. shown[n] # None
      BY <1>8, <2>1 DEF Inv, Picks
    <3> QED  BY <1>1, <1>2, <2>1, <3>1
  <2> QED  BY <1>2, <2>1, <2>3, <2>4, <2>5 DEF Overtaken
<1> QED  BY <1>1, <1>3, <1>6, <1>7, <1>8 DEF Selecting

Extends(whole, first, then) ==
    /\ Len(whole) = Len(first) + Len(then) /\ DOMAIN whole = 1..Len(whole)
    /\ \A i \in DOMAIN first : i \in DOMAIN whole /\ whole[i] = first[i]
    /\ \A i \in DOMAIN then : Len(first) + i \in DOMAIN whole /\ whole[Len(first) + i] = then[i]
    /\ \A i \in DOMAIN whole : i \in DOMAIN first \/ \E k \in DOMAIN then : i = Len(first) + k

\* The commands of a rebuilt surface: those that reached the shell, then those kept for it.
LEMMA RebuildsReach ==
  ASSUME Inv, NEW s \in Surfaces, NEW left \in SUBSET Nodes, NEW stay \in SUBSET Nodes,
         Bind(s, left, stay)
  PROVE  waiting' = waiting \ Theirs(stay) /\ Extends(reached', reached, Delivered(stay))
<1> DEFINE d == Delivered(stay)
<1>1. Typing /\ IsFiniteSet(waiting) /\ \A v, w \in waiting : v.number = w.number => v = w
  BY DEF Inv, Numbered
<1>2. d \in Seq(Theirs(stay))
  BY <1>1, Deliveries
<1>3. reached \in Seq(Commands) /\ d \in Seq(Commands)
  <2>1. Theirs(stay) \subseteq Commands
    BY <1>1 DEF Theirs, Typing, SdkTypes
  <2> QED  BY <1>1, <1>2, <2>1, SeqMonotonic DEF Typing, BetweenTypes
<1>4. reached' = reached \o d
  BY DEF Bind
<1> HIDE DEF d
<1>5. /\ Len(reached') = Len(reached) + Len(d)
      /\ DOMAIN reached' = 1..Len(reached')
      /\ \A i \in DOMAIN reached : i \in DOMAIN reached' /\ reached'[i] = reached[i]
      /\ \A i \in DOMAIN d : Len(reached) + i \in DOMAIN reached' /\ reached'[Len(reached) + i] = d[i]
  BY <1>3, <1>4
<1>6. \A i \in DOMAIN reached' :
         i \in DOMAIN reached \/ \E k \in DOMAIN d : i = Len(reached) + k
  <2> SUFFICES ASSUME NEW i \in DOMAIN reached', i \notin DOMAIN reached
               PROVE  \E k \in DOMAIN d : i = Len(reached) + k
    OBVIOUS
  <2>1. i - Len(reached) \in DOMAIN d /\ i = Len(reached) + (i - Len(reached))
    BY <1>3, <1>5
  <2> QED  BY <2>1
<1>7. waiting' = waiting \ Theirs(stay)
  BY DEF Bind, Undelivered, Theirs
<1> QED  BY <1>5, <1>6, <1>7 DEF d, Extends

\* The lists of commands, taken as values: what waits for nodes that are not shown.
LEMMA RebuildsNumbered ==
  ASSUME Inv, NEW s \in Surfaces, NEW left \in SUBSET Nodes, NEW stay \in SUBSET Nodes,
         NEW made \in SUBSET Nodes, NEW gone \in SUBSET Nodes, NEW changed \in SUBSET Nodes,
         NEW kids, NEW v, Rebuilds(s, left, stay, made, gone, changed, kids, v)
  PROVE  Numbered'
<1> DEFINE d == Delivered(stay)
           T == Theirs(stay)
           L == Len(reached)
<1>1. /\ Typing /\ IsFiniteSet(waiting) /\ \A v1, w \in waiting : v1.number = w.number => v1 = w
      /\ Bind(s, left, stay) /\ sent' = sent /\ made \subseteq stay
  BY DEF Inv, Numbered, Rebuilds
<1>2. /\ Len(d) = Cardinality(T) /\ \A i, j \in DOMAIN d : d[i] = d[j] => i = j
      /\ ToSet(d) = T
  BY <1>1, Deliveries
<1>3. d \in Seq(T) /\ \A i \in DOMAIN d : d[i] \in T
  BY <1>1, Deliveries
<1>4. T \subseteq waiting /\ \A w \in T : w.node \in stay
  BY DEF Theirs
<1>5. /\ waiting' = waiting \ T
      /\ Len(reached') = L + Len(d) /\ DOMAIN reached' = 1..Len(reached')
      /\ \A i \in DOMAIN reached : i \in DOMAIN reached' /\ reached'[i] = reached[i]
      /\ \A i \in DOMAIN d : L + i \in DOMAIN reached' /\ reached'[L + i] = d[i]
      /\ \A i \in DOMAIN reached' : i \in DOMAIN reached \/ \E k \in DOMAIN d : i = L + k
  <2>1. waiting' = waiting \ T /\ Extends(reached', reached, d)
    BY <1>1, RebuildsReach
  <2> QED  BY <2>1 DEF Extends
<1>6. \A n \in Nodes : shown'[n] = IF n \in made THEN s ELSE IF n \in gone THEN None ELSE shown[n]
  BY DEF Rebuilds, Build
<1>7. \A w \in waiting : w \in T \/ w.node \notin stay
  BY DEF Theirs
<1>8. \A w \in waiting : w.node \in Nodes
  BY <1>1 DEF Typing, SdkTypes, Commands
<1> HIDE DEF d, T, L
<1>9. /\ \A w \in waiting : shown[w.node] = None
      /\ \A i, j \in DOMAIN reached : reached[i].number = reached[j].number => i = j
      /\ \A i \in DOMAIN reached, w \in waiting : reached[i].number # w.number
      /\ \A k \in 1..sent : (\E w \in waiting : w.number = k)
                               \/ \E i \in DOMAIN reached : reached[i].number = k
      /\ \A w \in waiting : w.number \in 1..sent
      /\ \A i \in DOMAIN reached : reached[i].number \in 1..sent
      /\ L + Cardinality(waiting) = sent
  BY DEF Inv, Numbered, L
<1>10. IsFiniteSet(waiting') /\ Cardinality(waiting') = Cardinality(waiting) - Cardinality(T)
  <2>1. IsFiniteSet(T) /\ waiting \cap T = T
    BY <1>1, <1>4, FS_Subset
  <2>2. IsFiniteSet(waiting \ T) /\ Cardinality(waiting \ T) = Cardinality(waiting) - Cardinality(waiting \cap T)
    BY <1>1, <2>1, FS_Difference
  <2> QED  BY <1>5, <2>1, <2>2
<1>11. \A w \in waiting' : shown'[w.node] = None
  <2> SUFFICES ASSUME NEW w \in waiting' PROVE shown'[w.node] = None
    OBVIOUS
  <2>1. w \in waiting /\ w.node \in Nodes /\ w.node \notin made
    BY <1>1, <1>5, <1>7, <1>8
  <2> QED  BY <1>6, <1>9, <2>1
<1>12. \A v1, w \in waiting' : v1.number = w.number => v1 = w
  BY <1>1, <1>5
<1>13. \A i, j \in DOMAIN reached' : reached'[i].number = reached'[j].number => i = j
  <2> SUFFICES ASSUME NEW i \in DOMAIN reached', NEW j \in DOMAIN reached',
                      reached'[i].number = reached'[j].number
               PROVE  i = j
    OBVIOUS
  <2>1. CASE i \in DOMAIN reached /\ j \in DOMAIN reached
    BY <1>5, <1>9, <2>1
  <2>2. CASE i \in DOMAIN reached /\ j \notin DOMAIN reached
    <3>1. PICK k \in DOMAIN d : j = L + k
      BY <1>5, <2>2
    <3>2. reached'[i] = reached[i] /\ reached'[j] = d[k] /\ d[k] \in waiting
      BY <1>3, <1>4, <1>5, <2>2, <3>1
    <3> QED  BY <1>9, <2>2, <3>2
  <2>3. CASE i \notin DOMAIN reached /\ j \in DOMAIN reached
    <3>1. PICK k \in DOMAIN d : i = L + k
      BY <1>5, <2>3
    <3>2. reached'[j] = reached[j] /\ reached'[i] = d[k] /\ d[k] \in waiting
      BY <1>3, <1>4, <1>5, <2>3, <3>1
    <3> QED  BY <1>9, <2>3, <3>2
  <2>4. CASE i \notin DOMAIN reached /\ j \notin DOMAIN reached
    <3>1. PICK k \in DOMAIN d : i = L + k
      BY <1>5, <2>4
    <3>2. PICK l \in DOMAIN d : j = L + l
      BY <1>5, <2>4
    <3>3. reached'[i] = d[k] /\ reached'[j] = d[l] /\ d[k] \in waiting /\ d[l] \in waiting
      BY <1>3, <1>4, <1>5, <3>1, <3>2
    <3>4. d[k] = d[l]
      BY <1>1, <3>3
    <3>5. k = l
      BY <1>2, <3>4
    <3> QED  BY <3>1, <3>2, <3>5
  <2> QED  BY <2>1, <2>2, <2>3, <2>4
<1>14. \A i \in DOMAIN reached', w \in waiting' : reached'[i].number # w.number
  <2> SUFFICES ASSUME NEW i \in DOMAIN reached', NEW w \in waiting', reached'[i].number = w.number
               PROVE  FALSE
    OBVIOUS
  <2>1. w \in waiting /\ w \notin T
    BY <1>5
  <2>2. CASE i \in DOMAIN reached
    BY <1>5, <1>9, <2>1, <2>2
  <2>3. CASE i \notin DOMAIN reached
    <3>1. PICK k \in DOMAIN d : i = L + k
      BY <1>5, <2>3
    <3>2. reached'[i] = d[k] /\ d[k] \in T /\ d[k] \in waiting
      BY <1>3, <1>4, <1>5, <3>1
    <3> QED  BY <1>1, <2>1, <3>2
  <2> QED  BY <2>2, <2>3
<1>15. \A k \in 1..sent' : (\E w \in waiting' : w.number = k)
                              \/ \E i \in DOMAIN reached' : reached'[i].number = k
  <2> SUFFICES ASSUME NEW k \in 1..sent, ~(\E w \in waiting' : w.number = k)
               PROVE  \E i \in DOMAIN reached' : reached'[i].number = k
    BY <1>1
  <2>1. CASE \E i \in DOMAIN reached : reached[i].number = k
    BY <1>5, <2>1
  <2>2. CASE \E w \in waiting : w.number = k
    <3>1. PICK w \in waiting : w.number = k
      BY <2>2
    <3>2. w \in T
      BY <1>5, <3>1
    <3>3. PICK i \in DOMAIN d : d[i] = w
      BY <1>2, <3>2 DEF ToSet
    <3> QED  BY <1>5, <3>1, <3>3
  <2> QED  BY <1>9, <2>1, <2>2
<1>16. \A w \in waiting' : w.number \in 1..sent'
  BY <1>1, <1>5, <1>9
<1>17. \A i \in DOMAIN reached' : reached'[i].number \in 1..sent'
  <2> SUFFICES ASSUME NEW i \in DOMAIN reached' PROVE reached'[i].number \in 1..sent
    BY <1>1
  <2>1. CASE i \in DOMAIN reached
    BY <1>5, <1>9, <2>1
  <2>2. CASE i \notin DOMAIN reached
    <3>1. PICK k \in DOMAIN d : i = L + k
      BY <1>5, <2>2
    <3>2. reached'[i] = d[k] /\ d[k] \in waiting
      BY <1>3, <1>4, <1>5, <3>1
    <3> QED  BY <1>9, <3>2
  <2> QED  BY <2>1, <2>2
<1>18. Len(reached') + Cardinality(waiting') = sent'
  <2>1. L \in Nat /\ Cardinality(waiting) \in Nat /\ Cardinality(T) \in Nat
    <3>1. IsFiniteSet(T)
      BY <1>1, <1>4, FS_Subset
    <3> QED  BY <1>1, <3>1, FS_CardinalityType DEF Typing, BetweenTypes, L
  <2> QED  BY <1>1, <1>2, <1>5, <1>9, <1>10, <2>1
<1> QED  BY <1>10, <1>11, <1>12, <1>13, <1>14, <1>15, <1>16, <1>17, <1>18 DEF Numbered

\* The commands one step delivers keep their order.
DeliversInOrder ==
    \A i, j \in DOMAIN reached' \ DOMAIN reached : i < j => reached'[i].number < reached'[j].number

LEMMA RebuildsInOrder ==
  ASSUME Inv, NEW s \in Surfaces, NEW left \in SUBSET Nodes, NEW stay \in SUBSET Nodes,
         Bind(s, left, stay)
  PROVE  InOrderSent' /\ \A i, j \in DOMAIN reached' \ DOMAIN reached :
                            i < j => reached'[i].number < reached'[j].number
<1> DEFINE d == Delivered(stay)
           T == Theirs(stay)
           L == Len(reached)
<1>1. Typing /\ IsFiniteSet(waiting) /\ \A v1, w \in waiting : v1.number = w.number => v1 = w
  BY DEF Inv, Numbered
<1>2. \A i, j \in DOMAIN d : i < j => d[i].number < d[j].number
  BY <1>1, Deliveries
<1>3. d \in Seq(T) /\ \A i \in DOMAIN d : d[i] \in T
  BY <1>1, Deliveries
<1>4. \A w \in T : w \in waiting /\ w.node \in stay
  BY DEF Theirs
<1>5. /\ waiting' = waiting \ T
      /\ \A i \in DOMAIN reached : i \in DOMAIN reached' /\ reached'[i] = reached[i]
      /\ \A i \in DOMAIN d : L + i \in DOMAIN reached' /\ reached'[L + i] = d[i]
      /\ \A i \in DOMAIN reached' : i \in DOMAIN reached \/ \E k \in DOMAIN d : i = L + k
  <2>1. waiting' = waiting \ T /\ Extends(reached', reached, d)
    BY <1>1, RebuildsReach
  <2> QED  BY <2>1 DEF Extends
<1>6. \A w \in waiting : w \in T \/ w.node \notin stay
  BY DEF Theirs
<1>7. L \in Nat /\ DOMAIN reached = 1..L
  BY <1>1 DEF Typing, BetweenTypes
<1>8. DOMAIN d \subseteq Nat \ {0}
  BY <1>3
<1> HIDE DEF d, T, L
<1>9. /\ \A i, j \in DOMAIN reached :
            i < j /\ reached[i].node = reached[j].node => reached[i].number < reached[j].number
      /\ \A i \in DOMAIN reached, w \in waiting :
            reached[i].node = w.node => reached[i].number < w.number
  BY DEF Inv, InOrderSent
<1>10. ASSUME NEW i \in DOMAIN reached', NEW j \in DOMAIN reached', i < j,
              i \notin DOMAIN reached
       PROVE  j \notin DOMAIN reached /\ reached'[i].number < reached'[j].number
  <2>1. PICK k \in DOMAIN d : i = L + k
    BY <1>5, <1>10
  <2>2. j \notin DOMAIN reached
    BY <1>7, <1>8, <1>10, <2>1
  <2>3. PICK l \in DOMAIN d : j = L + l
    BY <1>5, <2>2
  <2>4. k < l
    BY <1>7, <1>8, <1>10, <2>1, <2>3
  <2> QED  BY <1>2, <1>5, <2>1, <2>2, <2>3, <2>4
<1>11. ASSUME NEW i \in DOMAIN reached', NEW j \in DOMAIN reached', i < j,
              reached'[i].node = reached'[j].node
       PROVE  reached'[i].number < reached'[j].number
  <2>1. CASE i \in DOMAIN reached /\ j \in DOMAIN reached
    BY <1>5, <1>9, <1>11, <2>1
  <2>2. CASE i \in DOMAIN reached /\ j \notin DOMAIN reached
    <3>1. PICK k \in DOMAIN d : j = L + k
      BY <1>5, <2>2
    <3>2. reached'[j] \in waiting
      BY <1>3, <1>4, <1>5, <3>1
    <3> QED  BY <1>5, <1>9, <1>11, <2>2, <3>2
  <2>3. CASE i \notin DOMAIN reached
    BY <1>10, <1>11, <2>3
  <2> QED  BY <2>1, <2>2, <2>3
<1>12. ASSUME NEW i \in DOMAIN reached', NEW w \in waiting', reached'[i].node = w.node
       PROVE  reached'[i].number < w.number
  <2>1. w \in waiting /\ w.node \notin stay
    BY <1>5, <1>6
  <2>2. i \in DOMAIN reached
    <3> SUFFICES ASSUME i \notin DOMAIN reached PROVE FALSE
      OBVIOUS
    <3>1. PICK k \in DOMAIN d : i = L + k
      BY <1>5
    <3>2. reached'[i].node \in stay
      BY <1>3, <1>4, <1>5, <3>1
    <3> QED  BY <1>12, <2>1, <3>2
  <2> QED  BY <1>5, <1>9, <1>12, <2>1, <2>2
<1>13. InOrderSent'
  BY <1>11, <1>12 DEF InOrderSent
<1> QED  BY <1>10, <1>13

\* What a rebuilt surface keeps, but for its trees.
LEMMA RebuildsTyping ==
  ASSUME Inv, NEW s \in Surfaces, NEW left \in SUBSET Nodes, NEW stay \in SUBSET Nodes,
         NEW made \in SUBSET Nodes, NEW gone \in SUBSET Nodes, NEW changed \in SUBSET Nodes,
         NEW kids \in Seq(Nodes), NEW v \in Values, Rebuilds(s, left, stay, made, gone, changed, kids, v),
         children' \in Kids, value' \in [Nodes -> Values], root' \in [Surfaces -> Nodes \cup {None}]
  PROVE  Typing'
<1>1. /\ Typing /\ IsFiniteSet(waiting) /\ \A v1, w \in waiting : v1.number = w.number => v1 = w
      /\ Bind(s, left, stay) /\ Build(s, made, gone, left) /\ Fill(made, gone, changed, kids, v)
      /\ inbox' = inbox /\ asking' = asking /\ sent' = sent /\ late' = late
  BY DEF Inv, Numbered, Rebuilds
<1>2. SdkTypes'
  BY <1>1, BindTypes DEF SdkTypes
<1>3. ShellTypes'
  BY <1>1, BuildTypes DEF ShellTypes
<1>4. BetweenTypes'
  <2>1. raced' \in SUBSET Nodes
    BY <1>1, BuildTypes
  <2>2. spoiled' \in SUBSET (1..MaxSelections) /\ reached' \in Seq(Commands)
    BY <1>1, BindTypes
  <2> QED  BY <1>1, <2>1, <2>2 DEF Typing, BetweenTypes
<1> QED  BY <1>2, <1>3, <1>4 DEF Typing

\* What is left of the invariant where a rebuilt surface leaves sound trees.
LEMMA RebuildsInv ==
  ASSUME Inv, NEW s \in Surfaces, NEW left \in SUBSET Nodes, NEW stay \in SUBSET Nodes,
         NEW made \in SUBSET Nodes, NEW gone \in SUBSET Nodes, NEW changed \in SUBSET Nodes,
         NEW kids \in Seq(Nodes), NEW v \in Values, Rebuilds(s, left, stay, made, gone, changed, kids, v),
         children' \in Kids, value' \in [Nodes -> Values], root' \in [Surfaces -> Nodes \cup {None}],
         Trees'
  PROVE  Inv'
<1>1. Typing'
  BY RebuildsTyping
<1>2. Hearing' /\ Picks' /\ Selecting' /\ Numbered'
  BY RebuildsHearing, RebuildsPicks, RebuildsSelecting, RebuildsNumbered
<1>3. InOrderSent'
  BY RebuildsInOrder DEF Rebuilds
<1> QED  BY <1>1, <1>2, <1>3 DEF Inv


LEMMA MountInv ==
  ASSUME Inv, NEW s \in Surfaces, NEW r \in Roots, Mount(s, r)
  PROVE  Inv' /\ DeliversInOrder
<1> DEFINE tree == Tree(children, r)
           left == holds[s]
           gone == left \ tree
           low2 == below'
           at2 == shown'
<1>1. r \in Nodes /\ s # None
  BY TreeAssumption
<1>2. /\ \A n \in tree : place[n] \in {s, None}
      /\ NamedOnce(children, tree, tree \ {r})
      /\ \A n \in tree : Fits(n, value[n], children[n])
      /\ Bind(s, left, tree) /\ Build(s, tree, gone, left)
      /\ Fill(tree, gone, {}, <<>>, Blank)
      /\ root' = [root EXCEPT ![s] = r]
      /\ UNCHANGED <<children, value, inbox, asking, sent, late>>
  BY DEF Mount
<1>3. /\ Planted(children, below, shown) /\ place = shown
      /\ \A t \in Surfaces : holds[t] = {n \in Nodes : shown[n] = t}
      /\ \A t \in Surfaces : Grown(below, shown, root[t], t)
      /\ children \in Kids /\ below \in Kids /\ shown \in Places /\ holds \in [Surfaces -> SUBSET Nodes]
      /\ root \in [Surfaces -> Nodes \cup {None}] /\ value \in [Nodes -> Values] /\ Typing
  BY DEF Inv, Trees, Typing, SdkTypes, ShellTypes
<1>4. tree \subseteq Nodes
  BY <1>1, <1>3, TreeFacts DEF Planted
<1> HIDE DEF tree
<1>5. left \in SUBSET Nodes /\ gone \in SUBSET Nodes /\ \A m \in Nodes : m \in left <=> shown[m] = s
  BY <1>3
<1>6. \A m \in tree : m \in left \/ shown[m] = None
  BY <1>2, <1>3, <1>4, <1>5
<1>7. children' = children /\ value' = value
  BY <1>2
<1> HIDE DEF left
<1>8. Rebuilds(s, left, tree, tree, gone, {}, <<>>, Blank)
  BY <1>2, <1>6, <1>7 DEF Rebuilds
<1>9. \A m \in Nodes : /\ m \in tree => low2[m] = children[m] /\ at2[m] = s
                       /\ m \notin tree /\ shown[m] = s => low2[m] = <<>> /\ at2[m] = None
                       /\ m \notin tree /\ shown[m] # s => low2[m] = below[m] /\ at2[m] = shown[m]
  BY <1>2, <1>5 DEF Build, Fill
<1>10. low2 \in Kids /\ at2 \in Places
  BY <1>2, <1>3, <1>4, <1>5, BuildTypes, BlankTypes
<1>11. \A m \in tree : shown[m] \in {s, None}
  BY <1>2, <1>3
<1>12. \A m \in tree : m \in Leaves => children[m] = <<>>
  BY <1>2 DEF Fits
<1> HIDE DEF low2, at2
<1>13. /\ Planted(children, low2, at2) /\ Grown(low2, at2, r, s)
       /\ \A t \in Surfaces, q \in Nodes \cup {None} :
             t # s /\ Grown(below, shown, q, t) => Grown(low2, at2, q, t)
  BY <1>1, <1>2, <1>3, <1>9, <1>10, <1>11, <1>12, MountPlants DEF tree
<1>14. \A t \in Surfaces : Grown(low2, at2, root'[t], t)
  BY <1>2, <1>3, <1>13
<1>15. place' = at2
  <2>1. \A m \in Nodes : place'[m] = IF m \in tree THEN s ELSE IF m \in left THEN None ELSE place[m]
    BY <1>2 DEF Bind
  <2>2. place' \in Places
    BY <1>2, <1>3, <1>4, <1>5, BindTypes DEF Inv, Numbered
  <2>3. \A m \in Nodes : place'[m] = at2[m]
    BY <1>3, <1>5, <1>9, <2>1
  <2> QED  BY <1>10, <2>2, <2>3 DEF Places
<1>16. \A t \in Surfaces : holds'[t] = {n \in Nodes : at2[n] = t}
  <2>1. holds' = [holds EXCEPT ![s] = (@ \ left) \cup tree]
    BY <1>2 DEF Bind
  <2>2. holds'[s] = tree
    BY <1>3, <2>1 DEF left
  <2>3. tree = {n \in Nodes : at2[n] = s}
    BY <1>1, <1>4, <1>9
  <2>4. ASSUME NEW t \in Surfaces, t # s PROVE holds'[t] = {n \in Nodes : at2[n] = t}
    <3>1. holds'[t] = {n \in Nodes : shown[n] = t}
      BY <1>3, <2>1, <2>4
    <3>2. t # None
      BY TreeAssumption
    <3>3. \A n \in Nodes : at2[n] = t <=> shown[n] = t
      BY <1>9, <1>11, <2>4, <3>2
    <3> QED  BY <3>1, <3>3
  <2> QED  BY <2>2, <2>3, <2>4
<1>17. Trees'
  BY <1>7, <1>13, <1>14, <1>15, <1>16 DEF Trees, low2, at2
<1>18. root' \in [Surfaces -> Nodes \cup {None}]
  BY <1>1, <1>2, <1>3
<1>19. Inv'
  BY <1>3, <1>4, <1>5, <1>7, <1>8, <1>17, <1>18, BlankTypes, RebuildsInv
<1>20. DeliversInOrder
  BY <1>2, <1>4, <1>5, RebuildsInOrder DEF DeliversInOrder
<1> QED  BY <1>19, <1>20

\* What an unmount leaves on the surfaces.
LEMMA UnmountPlants ==
  ASSUME NEW kids \in Kids, NEW low \in Kids, NEW at \in Places, Planted(kids, low, at),
         NEW s \in Surfaces, NEW low2 \in Kids, NEW at2 \in Places,
         \A m \in Nodes : /\ at[m] = s => low2[m] = <<>> /\ at2[m] = None
                          /\ at[m] # s => low2[m] = low[m] /\ at2[m] = at[m]
  PROVE  /\ Planted(kids, low2, at2)
         /\ Grown(low2, at2, None, s)
         /\ \A t \in Surfaces, q \in Nodes \cup {None} :
               t # s /\ Grown(low, at, q, t) => Grown(low2, at2, q, t)
<1>1. /\ Grounded(kids) /\ Grounded(low) /\ s # None
      /\ \A n \in Nodes : at[n] = None => low[n] = <<>>
      /\ \A n \in Nodes : at[n] # None => ToSet(kids[n]) = ToSet(low[n]) /\ Len(kids[n]) = Len(low[n])
      /\ \A n \in Leaves : low[n] = <<>>
      /\ \A n \in Nodes : \A k \in ToSet(low[n]) : at[k] = at[n]
      /\ OneEach(low, Nodes)
  BY LowGrounded, TreeAssumption DEF Planted
<1>2. \A m \in Nodes : ToSet(low2[m]) \subseteq ToSet(low[m])
  BY EmptyList
<1>3. Grounded(low2)
  BY <1>1, <1>2, GroundedFewer
<1>4. \A m \in Nodes : \A k \in ToSet(low2[m]) : at2[k] = at2[m]
  <2> SUFFICES ASSUME NEW m \in Nodes, NEW k \in ToSet(low2[m]) PROVE at2[k] = at2[m]
    OBVIOUS
  <2>1. at[m] # s
    BY EmptyList
  <2>2. k \in Nodes /\ at[k] = at[m]
    BY <1>1, <1>2, KidsIn
  <2> QED  BY <2>1, <2>2
<1>5. OneEach(low2, Nodes)
  <2>1. \A m \in Nodes : DOMAIN low2[m] # {} => low2[m] = low[m]
    OBVIOUS
  <2> SUFFICES ASSUME NEW n \in Nodes, NEW m \in Nodes, NEW i \in DOMAIN low2[n],
                      NEW j \in DOMAIN low2[m], low2[n][i] = low2[m][j]
               PROVE  n = m /\ i = j
    BY DEF OneEach
  <2>2. low2[n] = low[n] /\ low2[m] = low[m]
    BY <2>1
  <2> QED  BY <1>1, <2>2 DEF OneEach
<1>6. \A m \in Leaves : low2[m] = <<>>
  BY <1>1, TreeAssumption
<1>7. \A m \in Nodes : at2[m] = None => low2[m] = <<>>
  BY <1>1
<1>8. \A m \in Nodes : at2[m] # None => ToSet(kids[m]) = ToSet(low2[m]) /\ Len(kids[m]) = Len(low2[m])
  BY <1>1
<1>9. Planted(kids, low2, at2)
  BY <1>1, <1>4, <1>5, <1>6, <1>7, <1>8 DEF Planted
<1>10. Grown(low2, at2, None, s)
  BY <1>1 DEF Grown
<1>11. ASSUME NEW t \in Surfaces, NEW q \in Nodes \cup {None}, t # s, Grown(low, at, q, t)
       PROVE  Grown(low2, at2, q, t)
  <2>1. t # None
    BY TreeAssumption
  <2>2. \A m \in Nodes : at2[m] = t <=> at[m] = t
    BY <1>11, <2>1
  <2>3. CASE q = None
    BY <1>11, <2>2, <2>3 DEF Grown
  <2>4. CASE q # None
    <3> DEFINE C == Tree(low, q)
    <3>1. q \in Nodes /\ {n \in Nodes : at[n] = t} = C /\ \A m \in Nodes : q \notin ToSet(low[m])
      BY <1>11, <2>4 DEF Grown
    <3>2. \A m \in C : low2[m] = low[m]
      BY <1>11, <3>1
    <3>3. q \in C /\ (\A x \in C : ToSet(low[x]) \subseteq C) /\ C \in SUBSET Nodes
      BY <1>1, <3>1, TreeFacts
    <3>4. {m \in Nodes : at2[m] = t} = C
      BY <2>2, <3>1
    <3> HIDE DEF C
    <3>5. \A x \in C : ToSet(low2[x]) = ToSet(low[x])
      BY <3>2
    <3>6. Tree(low2, q) = Tree(low, q)
      BY <1>1, <1>3, <3>3, <3>5, TreesAlike
    <3>7. \A m \in Nodes : q \notin ToSet(low2[m])
      BY <1>2, <3>1
    <3> QED  BY <2>4, <3>1, <3>4, <3>6, <3>7 DEF Grown, C
  <2> QED  BY <2>3, <2>4
<1> QED  BY <1>9, <1>10, <1>11

LEMMA UnmountInv ==
  ASSUME Inv, NEW s \in Surfaces, Unmount(s)
  PROVE  Inv' /\ DeliversInOrder
<1> DEFINE left == holds[s]
           low2 == below'
           at2 == shown'
<1>1. s # None
  BY TreeAssumption
<1>2. /\ Bind(s, left, {}) /\ Build(s, {}, left, left)
      /\ Fill({}, left, {}, <<>>, Blank)
      /\ root' = [root EXCEPT ![s] = None]
      /\ UNCHANGED <<children, value, inbox, asking, sent, late>>
  BY DEF Unmount
<1>3. /\ Planted(children, below, shown) /\ place = shown
      /\ \A t \in Surfaces : holds[t] = {n \in Nodes : shown[n] = t}
      /\ \A t \in Surfaces : Grown(below, shown, root[t], t)
      /\ children \in Kids /\ below \in Kids /\ shown \in Places /\ holds \in [Surfaces -> SUBSET Nodes]
      /\ root \in [Surfaces -> Nodes \cup {None}] /\ value \in [Nodes -> Values] /\ Typing
  BY DEF Inv, Trees, Typing, SdkTypes, ShellTypes
<1>5. left \in SUBSET Nodes /\ \A m \in Nodes : m \in left <=> shown[m] = s
  BY <1>3
<1>7. children' = children /\ value' = value
  BY <1>2
<1> HIDE DEF left
<1>8. Rebuilds(s, left, {}, {}, left, {}, <<>>, Blank)
  BY <1>2, <1>7 DEF Rebuilds
<1>9. \A m \in Nodes : /\ shown[m] = s => low2[m] = <<>> /\ at2[m] = None
                       /\ shown[m] # s => low2[m] = below[m] /\ at2[m] = shown[m]
  BY <1>2, <1>5 DEF Build, Fill
<1>10. low2 \in Kids /\ at2 \in Places
  BY <1>2, <1>3, <1>5, BuildTypes, BlankTypes
<1> HIDE DEF low2, at2
<1>13. /\ Planted(children, low2, at2) /\ Grown(low2, at2, None, s)
       /\ \A t \in Surfaces, q \in Nodes \cup {None} :
             t # s /\ Grown(below, shown, q, t) => Grown(low2, at2, q, t)
  BY <1>3, <1>9, <1>10, UnmountPlants
<1>14. \A t \in Surfaces : Grown(low2, at2, root'[t], t)
  BY <1>2, <1>3, <1>13
<1>15. place' = at2
  <2>1. \A m \in Nodes : place'[m] = IF m \in left THEN None ELSE place[m]
    BY <1>2 DEF Bind
  <2>2. place' \in Places
    BY <1>2, <1>3, <1>5, BindTypes DEF Inv, Numbered
  <2>3. \A m \in Nodes : place'[m] = at2[m]
    BY <1>3, <1>5, <1>9, <2>1
  <2> QED  BY <1>10, <2>2, <2>3 DEF Places
<1>16. \A t \in Surfaces : holds'[t] = {n \in Nodes : at2[n] = t}
  <2>1. holds' = [holds EXCEPT ![s] = (@ \ left) \cup {}]
    BY <1>2 DEF Bind
  <2>2. holds'[s] = {}
    BY <1>3, <2>1 DEF left
  <2>3. {n \in Nodes : at2[n] = s} = {}
    BY <1>1, <1>9
  <2>4. ASSUME NEW t \in Surfaces, t # s PROVE holds'[t] = {n \in Nodes : at2[n] = t}
    <3>1. holds'[t] = {n \in Nodes : shown[n] = t}
      BY <1>3, <2>1, <2>4
    <3>2. t # None
      BY TreeAssumption
    <3>3. \A n \in Nodes : at2[n] = t <=> shown[n] = t
      BY <1>9, <2>4, <3>2
    <3> QED  BY <3>1, <3>3
  <2> QED  BY <2>2, <2>3, <2>4
<1>17. Trees'
  BY <1>7, <1>13, <1>14, <1>15, <1>16 DEF Trees, low2, at2
<1>18. root' \in [Surfaces -> Nodes \cup {None}]
  BY <1>2, <1>3
<1>19. Inv'
  BY <1>3, <1>5, <1>7, <1>8, <1>17, <1>18, BlankTypes, RebuildsInv
<1>20. DeliversInOrder
  <2>1. {} \in SUBSET Nodes
    OBVIOUS
  <2> QED  BY <1>2, <1>5, <2>1, RebuildsInOrder DEF DeliversInOrder
<1> QED  BY <1>19, <1>20

\* What the SDK and the shell prove of a replacement is what its lemmas ask for.
LEMMA ReplaceSound ==
  ASSUME NEW n \in Nodes, NEW kids, NEW v, Replace(n, kids, v), place = shown
  PROVE  Sound(children, below, shown, n, kids)
<1> DEFINE named == NamedBy(children, n, kids)
           kept == KeptBy(children, n, kids)
           made == MadeBy(children, n, kids)
           reachable == ReachedBy(children, n, kids)
<1>1. /\ place[n] # None /\ Grows(n, kids)
      /\ \A m \in reachable : place[m] \in {place[n], None}
      /\ Replaceable(n, kids, v, kept, made)
  BY DEF Replace, NamedBy, KeptBy, MadeBy, ReachedBy, Kept
<1>2. /\ NamedOnce(After(children, below, n, kids), {n} \cup made, kept \cup made)
      /\ \A k, l \in kept : k # l => l \notin Tree(below, k)
      /\ \A m \in made : shown[m] = None \/ m \in Inside(below, n) \ CarriedBy(children, below, n, kids)
      /\ \A m \in made : Fits(m, value[m], children[m])
      /\ Fits(n, v, kids)
  BY <1>1 DEF Replaceable, After, CarriedBy
<1> QED  BY <1>1, <1>2 DEF Sound, Grows, Fits

LEMMA ReplaceInv ==
  ASSUME Inv, NEW n \in Nodes, NEW kids \in Seq(Nodes), NEW v \in Values, Replace(n, kids, v)
  PROVE  Inv' /\ DeliversInOrder /\ \A m \in MadeBy(children, n, kids) : shown[m] = None
<1> DEFINE s == place[n]
           named == NamedBy(children, n, kids)
           kept == KeptBy(children, n, kids)
           made == MadeBy(children, n, kids)
           carried == CarriedBy(children, below, n, kids)
           reachable == ReachedBy(children, n, kids)
           gone == GoneBy(children, below, n, kids)
           left == Leaving(n, reachable)
           inside == Inside(below, n)
           next == [children EXCEPT ![n] = kids]
           low2 == below'
           at2 == shown'
<1>1. /\ Planted(children, below, shown) /\ place = shown
      /\ \A t \in Surfaces : holds[t] = {m \in Nodes : shown[m] = t}
      /\ \A t \in Surfaces : Grown(below, shown, root[t], t)
      /\ children \in Kids /\ below \in Kids /\ shown \in Places /\ holds \in [Surfaces -> SUBSET Nodes]
      /\ root \in [Surfaces -> Nodes \cup {None}] /\ value \in [Nodes -> Values] /\ Typing
  BY DEF Inv, Trees, Typing, SdkTypes, ShellTypes
<1>2. Sound(children, below, shown, n, kids)
  BY <1>1, ReplaceSound
<1>3. /\ s # None /\ children' = next /\ value' = [value EXCEPT ![n] = v]
      /\ Bind(s, left, reachable) /\ Build(s, made, gone, left) /\ Fill(made, gone, {n}, kids, v)
      /\ UNCHANGED <<root, inbox, asking, sent, late>>
  BY DEF Replace, NamedBy, KeptBy, MadeBy, ReachedBy, GoneBy, CarriedBy, Kept
<1>4. s \in Surfaces /\ s = shown[n]
  BY <1>1, <1>3 DEF Places
<1>5. /\ inside = Inside(children, n) /\ inside \subseteq Nodes /\ n \notin inside
      /\ \A m \in inside : shown[m] = shown[n]
      /\ named \subseteq Nodes /\ kept \subseteq inside /\ named = kept \cup made /\ n \notin named
      /\ \A m \in made : shown[m] = None
      /\ carried \subseteq inside /\ gone = inside \ carried
      /\ reachable = made \cup carried
  <2>1. children \in Kids /\ below \in Kids /\ shown \in Places /\ Planted(children, below, shown)
    BY <1>1
  <2>2. SetsFit(children, below, shown, n, kids)
    BY <1>2, <2>1, ReplaceSets
  <2> QED  BY <2>2 DEF SetsFit
<1>6. left = inside \ reachable
  BY <1>5 DEF Leaving
<1> HIDE DEF named, kept, made, carried, reachable, gone, left, inside
<1>7. left = gone /\ left \subseteq Nodes /\ reachable \subseteq Nodes /\ made \subseteq Nodes
      /\ gone \cap made = {} /\ made \subseteq reachable /\ n \notin made /\ n \notin gone
  BY <1>3, <1>4, <1>5, <1>6
<1>8. Rebuilds(s, left, reachable, made, gone, {n}, kids, v)
  <2>1. \A m \in Nodes : m # n => children'[m] = children[m] /\ value'[m] = value[m]
    BY <1>1, <1>3 DEF Kids
  <2>2. children'[n] = kids /\ value'[n] = v
    BY <1>1, <1>3 DEF Kids
  <2> QED  BY <1>3, <1>5, <1>7, <2>1, <2>2 DEF Rebuilds
<1>9. /\ low2[n] = kids /\ at2[n] = shown[n]
      /\ \A m \in made : low2[m] = children[m] /\ at2[m] = shown[n]
      /\ \A m \in gone : low2[m] = <<>> /\ at2[m] = None
      /\ \A m \in Nodes : m # n /\ m \notin made /\ m \notin gone => low2[m] = below[m] /\ at2[m] = shown[m]
  BY <1>3, <1>4, <1>5, <1>7 DEF Build, Fill
<1>10. low2 \in Kids /\ at2 \in Places
  BY <1>1, <1>3, <1>4, <1>7, BuildTypes
<1> HIDE DEF low2, at2
<1>11. /\ Planted(next, low2, at2)
       /\ \A t \in Surfaces, q \in Nodes \cup {None} : Grown(below, shown, q, t) => Grown(low2, at2, q, t)
  BY <1>1, <1>2, <1>9, <1>10, ReplacePlants DEF made, gone
<1>12. \A t \in Surfaces : Grown(low2, at2, root'[t], t)
  BY <1>1, <1>3, <1>11
<1>13. place' = at2
  <2>1. \A m \in Nodes : place'[m] = IF m \in reachable THEN s ELSE IF m \in left THEN None ELSE place[m]
    BY <1>3 DEF Bind
  <2>2. place' \in Places
    BY <1>1, <1>3, <1>4, <1>7, BindTypes DEF Inv, Numbered
  <2>3. ASSUME NEW m \in Nodes PROVE place'[m] = at2[m]
    <3>1. CASE m \in made
      BY <1>4, <1>7, <1>9, <2>1, <3>1
    <3>2. CASE m \in gone
      BY <1>5, <1>6, <1>7, <1>9, <2>1, <3>2
    <3>3. CASE m \notin made /\ m \notin gone
      <4>1. at2[m] = shown[m]
        BY <1>9, <3>3
      <4>2. m \in reachable => shown[m] = s
        BY <1>4, <1>5, <3>3
      <4> QED  BY <1>1, <1>7, <2>1, <3>3, <4>1, <4>2
    <3> QED  BY <3>1, <3>2, <3>3
  <2> QED  BY <1>10, <2>2, <2>3 DEF Places
<1>14. \A t \in Surfaces : holds'[t] = {m \in Nodes : at2[m] = t}
  <2>1. holds' = [holds EXCEPT ![s] = (@ \ left) \cup reachable]
    BY <1>3 DEF Bind
  <2>2. ASSUME NEW m \in Nodes PROVE at2[m] = IF m \in reachable THEN s ELSE IF m \in left THEN None ELSE shown[m]
    <3>1. place'[m] = IF m \in reachable THEN s ELSE IF m \in left THEN None ELSE place[m]
      BY <1>3 DEF Bind
    <3> QED  BY <1>1, <1>13, <3>1
  <2>3. holds'[s] = {m \in Nodes : at2[m] = s}
    <3>1. holds'[s] = (holds[s] \ left) \cup reachable
      BY <1>1, <1>4, <2>1
    <3> QED  BY <1>1, <1>3, <1>4, <1>7, <2>2, <3>1
  <2>4. ASSUME NEW t \in Surfaces, t # s PROVE holds'[t] = {m \in Nodes : at2[m] = t}
    <3>1. holds'[t] = {m \in Nodes : shown[m] = t}
      BY <1>1, <2>1, <2>4
    <3>2. t # None
      BY TreeAssumption
    <3>3. \A m \in Nodes : m \in reachable \/ m \in left => shown[m] # t
      BY <1>4, <1>5, <1>6, <2>4, <3>2
    <3> QED  BY <2>2, <2>4, <3>1, <3>2, <3>3
  <2> QED  BY <2>3, <2>4
<1>15. children' \in Kids /\ value' \in [Nodes -> Values] /\ root' \in [Surfaces -> Nodes \cup {None}]
  BY <1>1, <1>3 DEF Kids
<1>16. Trees'
  BY <1>3, <1>11, <1>12, <1>13, <1>14 DEF Trees, low2, at2
<1>17. Inv'
  <2>1. left \in SUBSET Nodes /\ reachable \in SUBSET Nodes /\ made \in SUBSET Nodes /\ gone \in SUBSET Nodes
        /\ {n} \in SUBSET Nodes
    BY <1>7
  <2> HIDE DEF s
  <2> QED  BY <1>4, <1>8, <1>15, <1>16, <2>1, RebuildsInv
<1>18. DeliversInOrder
  <2>1. s \in Surfaces /\ left \in SUBSET Nodes /\ reachable \in SUBSET Nodes /\ Bind(s, left, reachable)
    BY <1>3, <1>4, <1>7
  <2> HIDE DEF s
  <2> QED  BY <2>1, RebuildsInOrder DEF DeliversInOrder
<1> QED  BY <1>5, <1>17, <1>18 DEF made

-----------------------------------------------------------------------------
(***************************************************************************)
(* The inbox: what a message that joins its end, or leaves its head,       *)
(* changes of what the inbox says.                                         *)
(***************************************************************************)

LEMMA SamePicks ==
  ASSUME Picks, UNCHANGED <<picking, selection, shown, busy, inbox>>
  PROVE  Picks'
  BY DEF Picks

LEMMA SamePlaces ==
  ASSUME Trees, UNCHANGED <<children, below, shown, place, holds, root>>
  PROVE  Trees'
  BY DEF Trees

LEMMA SameSelecting ==
  ASSUME Selecting, UNCHANGED <<selection, asking, inbox, spoiled, outdated, shown, late>>
  PROVE  Selecting'
  BY DEF Selecting

LEMMA SameNumbers ==
  ASSUME Numbered, InOrderSent, UNCHANGED <<waiting, reached, sent, shown>>
  PROVE  Numbered' /\ InOrderSent'
  BY DEF Numbered, InOrderSent

\* A message joined the end.
Joined(box2, box, message) ==
    /\ DOMAIN box2 \subseteq Nat
    /\ \A i \in DOMAIN box : i \in DOMAIN box2 /\ box2[i] = box[i] /\ i < Len(box) + 1
    /\ Len(box) + 1 \in DOMAIN box2 /\ Len(box) + 1 \notin DOMAIN box
    /\ box2[Len(box) + 1] = message
    /\ \A i \in DOMAIN box2 : i \in DOMAIN box \/ i = Len(box) + 1

LEMMA Appending ==
  ASSUME NEW box \in Seq(Messages), NEW message \in Messages, NEW box2, box2 = Append(box, message)
  PROVE  /\ box2 \in Seq(Messages) /\ Len(box2) = Len(box) + 1
         /\ Joined(box2, box, message)
<1>1. /\ box2 \in Seq(Messages) /\ Len(box2) = Len(box) + 1 /\ DOMAIN box2 = 1..Len(box) + 1
      /\ DOMAIN box = 1..Len(box) /\ Len(box) \in Nat
  OBVIOUS
<1>2. \A i \in 1..Len(box) : box2[i] = box[i]
  OBVIOUS
<1>3. box2[Len(box) + 1] = message
  OBVIOUS
<1> QED  BY <1>1, <1>2, <1>3 DEF Joined

\* The head left.
Left(box2, box) ==
    /\ DOMAIN box \subseteq Nat \ {0} /\ DOMAIN box2 \subseteq Nat \ {0} /\ 1 \in DOMAIN box
    /\ \A i \in DOMAIN box2 : i + 1 \in DOMAIN box /\ box2[i] = box[i + 1]
    /\ \A i \in DOMAIN box : i = 1 \/ (i - 1 \in DOMAIN box2 /\ box2[i - 1] = box[i])

LEMMA Taking ==
  ASSUME NEW box \in Seq(Messages), Len(box) > 0, NEW box2, box2 = Tail(box)
  PROVE  /\ box2 \in Seq(Messages) /\ Len(box2) = Len(box) - 1
         /\ Head(box) = box[1] /\ box[1] \in Messages
         /\ Left(box2, box)
<1>1. /\ Len(box) \in Nat /\ box # <<>> /\ DOMAIN box = 1..Len(box)
      /\ box2 \in Seq(Messages) /\ Len(box2) = Len(box) - 1 /\ DOMAIN box2 = 1..Len(box) - 1
  OBVIOUS
<1>2. \A i \in 1..Len(box) - 1 : box2[i] = box[i + 1]
  OBVIOUS
<1>3. 1 \in DOMAIN box /\ Head(box) = box[1] /\ box[1] \in Messages
  BY <1>1
<1> QED  BY <1>1, <1>2, <1>3 DEF Left

\* What is said of a message holds of it in its new place.
LEMMA JoinedKeeps ==
  ASSUME NEW box, NEW box2, NEW message, Joined(box2, box, message)
  PROVE  /\ \A ask, id, n : Pending(ask, box, id, n) => Pending(ask, box2, id, n)
         /\ \A n, name, s : (\E i \in DOMAIN box : Reported(box, n, name, s, i))
                               => \E i \in DOMAIN box2 : Reported(box2, n, name, s, i)
         /\ \A id, i : Answered(box, id, i) => Answered(box2, id, i)
         /\ \A id, i : Answered(box2, id, i) =>
                          Answered(box, id, i) \/ (i = Len(box) + 1 /\ message.name = "answer" /\ message.id = id)
         /\ \A n, name, s, i : Reported(box, n, name, s, i) => Reported(box2, n, name, s, i)
<1>1. \A id, i : Answered(box, id, i) => Answered(box2, id, i)
  BY DEF Joined, Answered
<1>2. \A id, i : Answered(box2, id, i) =>
                    Answered(box, id, i) \/ (i = Len(box) + 1 /\ message.name = "answer" /\ message.id = id)
  BY DEF Joined, Answered
<1>3. \A n, name, s, i : Reported(box, n, name, s, i) => Reported(box2, n, name, s, i)
  BY DEF Joined, Reported
<1>4. \A n, name, s : (\E i \in DOMAIN box : Reported(box, n, name, s, i))
                         => \E i \in DOMAIN box2 : Reported(box2, n, name, s, i)
  BY <1>3 DEF Joined
<1>5. \A ask, id, n : Pending(ask, box, id, n) => Pending(ask, box2, id, n)
  BY <1>1 DEF Pending, Joined
<1> QED  BY <1>1, <1>2, <1>3, <1>4, <1>5

\* A message that is no answer leaves every selection where it is.
LEMMA JoinedSelecting ==
  ASSUME NEW box, NEW box2, NEW message, Joined(box2, box, message), message.name # "answer"
  PROVE  /\ \A ask : Single(ask, box) => Single(ask, box2)
         /\ \A old, id, n, s : Overtaken(old, box, id, n, s) => Overtaken(old, box2, id, n, s)
<1>1. \A id, i : Answered(box2, id, i) => Answered(box, id, i) /\ i \in DOMAIN box
  BY JoinedKeeps DEF Answered
<1>2. ASSUME NEW ask, Single(ask, box) PROVE Single(ask, box2)
  <2>1. \A i, j \in DOMAIN box2, id \in 1..MaxSelections : Answered(box2, id, i) /\ Answered(box2, id, j) => i = j
    BY <1>1, <1>2 DEF Single
  <2>2. \A a \in ask, i \in DOMAIN box2 : ~Answered(box2, a.id, i)
    BY <1>1, <1>2 DEF Single
  <2> QED  BY <1>2, <2>1, <2>2 DEF Single
<1>3. ASSUME NEW old, NEW id, NEW n, NEW s, Overtaken(old, box, id, n, s)
      PROVE  Overtaken(old, box2, id, n, s)
  <2>1. CASE id \in old
    BY <2>1 DEF Overtaken
  <2>2. CASE id \notin old
    <3>1. PICK i \in DOMAIN box : /\ Reported(box, n, "change", s, i)
                                  /\ \A j \in DOMAIN box : Answered(box, id, j) => i < j
      BY <1>3, <2>2 DEF Overtaken
    <3>2. i \in DOMAIN box2 /\ Reported(box2, n, "change", s, i)
      BY <3>1, JoinedKeeps DEF Reported
    <3> QED  BY <1>1, <3>1, <3>2 DEF Overtaken
  <2> QED  BY <2>1, <2>2
<1> QED  BY <1>2, <1>3

\* What is said of a message but the head holds of it in its new place.
LEMMA LeftKeeps ==
  ASSUME NEW box, NEW box2, Left(box2, box)
  PROVE  /\ \A ask : Single(ask, box) => Single(ask, box2)
         /\ \A ask, id, n : Pending(ask, box, id, n) /\ ~(Answered(box, id, 1) /\ box[1].node = n)
                               => Pending(ask, box2, id, n)
         /\ \A n, name, s : (\E i \in DOMAIN box : Reported(box, n, name, s, i)) /\ ~Reported(box, n, name, s, 1)
                               => \E i \in DOMAIN box2 : Reported(box2, n, name, s, i)
         /\ \A old, id, n, s : Overtaken(old, box, id, n, s) /\ ~Reported(box, n, "change", s, 1)
                               => Overtaken(old, box2, id, n, s)
<1>1. \A id, i : Answered(box2, id, i) => i + 1 \in DOMAIN box /\ Answered(box, id, i + 1)
  BY DEF Left, Answered
<1>2. \A id, i : Answered(box, id, i) => i = 1 \/ (i - 1 \in DOMAIN box2 /\ Answered(box2, id, i - 1))
  BY DEF Left, Answered
<1>3. \A n, name, s, i : Reported(box, n, name, s, i) =>
                            i = 1 \/ (i - 1 \in DOMAIN box2 /\ Reported(box2, n, name, s, i - 1))
  BY DEF Left, Reported
<1>4. ASSUME NEW ask, Single(ask, box) PROVE Single(ask, box2)
  <2>1. ASSUME NEW i \in DOMAIN box2, NEW j \in DOMAIN box2, NEW id \in 1..MaxSelections,
               Answered(box2, id, i), Answered(box2, id, j)
        PROVE  i = j
    <3>1. i + 1 = j + 1
      BY <1>1, <1>4, <2>1 DEF Single
    <3>2. i \in Nat /\ j \in Nat
      BY DEF Left
    <3> QED  BY <3>1, <3>2
  <2>2. \A a \in ask, i \in DOMAIN box2 : ~Answered(box2, a.id, i)
    BY <1>1, <1>4 DEF Single
  <2> QED  BY <1>4, <2>1, <2>2 DEF Single
<1>5. \A ask, id, n : Pending(ask, box, id, n) /\ ~(Answered(box, id, 1) /\ box[1].node = n)
                         => Pending(ask, box2, id, n)
  <2> SUFFICES ASSUME NEW ask, NEW id, NEW n, Pending(ask, box, id, n),
                      ~(Answered(box, id, 1) /\ box[1].node = n), [id |-> id, node |-> n] \notin ask
               PROVE  \E i \in DOMAIN box2 : Answered(box2, id, i) /\ box2[i].node = n
    BY DEF Pending
  <2>1. PICK i \in DOMAIN box : Answered(box, id, i) /\ box[i].node = n
    BY DEF Pending
  <2>2. i # 1
    BY <2>1
  <2>3. i - 1 \in DOMAIN box2 /\ Answered(box2, id, i - 1) /\ box2[i - 1] = box[i]
    BY <1>2, <2>1, <2>2 DEF Left
  <2> QED  BY <2>1, <2>3
<1>6. \A n, name, s : (\E i \in DOMAIN box : Reported(box, n, name, s, i)) /\ ~Reported(box, n, name, s, 1)
                         => \E i \in DOMAIN box2 : Reported(box2, n, name, s, i)
  BY <1>3
<1>7. ASSUME NEW old, NEW id, NEW n, NEW s, Overtaken(old, box, id, n, s), ~Reported(box, n, "change", s, 1)
      PROVE  Overtaken(old, box2, id, n, s)
  <2>1. CASE id \in old
    BY <2>1 DEF Overtaken
  <2>2. CASE id \notin old
    <3>1. PICK i \in DOMAIN box : /\ Reported(box, n, "change", s, i)
                                  /\ \A j \in DOMAIN box : Answered(box, id, j) => i < j
      BY <1>7, <2>2 DEF Overtaken
    <3>2. i # 1
      BY <1>7, <3>1
    <3>3. i - 1 \in DOMAIN box2 /\ Reported(box2, n, "change", s, i - 1)
      BY <1>3, <3>1, <3>2
    <3>4. ASSUME NEW j \in DOMAIN box2, Answered(box2, id, j) PROVE i - 1 < j
      <4>1. i < j + 1
        BY <1>1, <3>1, <3>4
      <4>2. i \in Nat /\ j \in Nat
        BY <3>1 DEF Left
      <4> QED  BY <4>1, <4>2
    <3> QED  BY <3>3, <3>4 DEF Overtaken
  <2> QED  BY <2>1, <2>2
<1> QED  BY <1>4, <1>5, <1>6, <1>7

\* A node hears of itself what its component shows, whatever else is taken from the inbox.
LEMMA TakenTold ==
  ASSUME NEW m \in Nodes, Told(m), Left(inbox', inbox),
         content'[m] = content[m], below'[m] = below[m], shown'[m] = shown[m],
         1 \notin Changes(m) => value'[m] = value[m] /\ children'[m] = children[m],
         Changes(m) = {1} => value'[m] = content[m] /\ children'[m] = below[m]
  PROVE  Told(m)'
<1>1. \A i \in Changes(m)' : i + 1 \in Changes(m)
  BY DEF Changes, Left
<1>2. \A i \in Changes(m) : i \in Nat /\ (i # 1 => i - 1 \in Changes(m)')
  BY DEF Changes, Left
<1>3. \A i \in Changes(m)' : i \in Nat /\ i # 0
  BY DEF Changes, Left
<1>4. CASE Changes(m) = {}
  <2>1. Changes(m)' = {}
    BY <1>1, <1>4
  <2>2. value[m] = content[m] /\ children[m] = below[m]
    BY <1>4 DEF Told
  <2>3. value'[m] = content'[m] /\ children'[m] = below'[m]
    BY <1>4, <2>2
  <2> QED  BY <2>1, <2>3 DEF Told
<1>5. CASE Changes(m) # {}
  <2>1. PICK i \in Changes(m) : (\A j \in Changes(m) : j <= i) /\ Tells(m, i)
    BY <1>5 DEF Told
  <2>2. CASE i = 1
    <3>1. \A j \in Changes(m) : j = 1
      <4> SUFFICES ASSUME NEW j \in Changes(m) PROVE j = 1
        OBVIOUS
      <4>1. j <= 1 /\ j \in Nat \ {0}
        BY <2>1, <2>2 DEF Changes, Left
      <4> QED  BY <4>1
    <3>2. Changes(m) = {1}
      BY <2>2, <3>1
    <3>3. Changes(m)' = {}
      <4> SUFFICES ASSUME NEW j \in Changes(m)' PROVE FALSE
        OBVIOUS
      <4>1. j + 1 = 1
        BY <1>1, <3>2
      <4> QED  BY <1>3, <4>1
    <3>4. value'[m] = content'[m] /\ children'[m] = below'[m]
      BY <3>2
    <3> QED  BY <3>3, <3>4 DEF Told
  <2>3. CASE i # 1
    <3> DEFINE k == i - 1
    <3>1. k \in Changes(m)'
      BY <1>2, <2>1, <2>3
    <3>2. inbox'[k] = inbox[i]
      BY <2>1, <2>3 DEF Changes, Left
    <3>3. Tells(m, k)'
      BY <2>1, <3>2 DEF Tells
    <3>4. \A j \in Changes(m)' : j <= k
      <4> SUFFICES ASSUME NEW j \in Changes(m)' PROVE j <= k
        OBVIOUS
      <4>1. j + 1 <= i /\ i \in Nat /\ j \in Nat
        BY <1>1, <1>2, <1>3, <2>1
      <4> QED  BY <4>1
    <3>5. Changes(m)' # {}
      BY <3>1
    <3> HIDE DEF k
    <3> QED  BY <3>1, <3>3, <3>4, <3>5 DEF Told
  <2> QED  BY <2>2, <2>3
<1> QED  BY <1>4, <1>5

\* A message about n joins: the other nodes hear what they heard.
LEMMA JoinedTold ==
  ASSUME NEW m \in Nodes, Told(m), NEW message, Joined(inbox', inbox, message),
         message.node # m \/ message.name \notin {"change", "move"},
         content'[m] = content[m], below'[m] = below[m], shown'[m] = shown[m],
         value'[m] = value[m], children'[m] = children[m]
  PROVE  Told(m)'
<1>1. Changes(m)' = Changes(m)
  <2>1. \A i \in Changes(m) : i \in Changes(m)'
    BY DEF Changes, Joined
  <2>2. \A i \in Changes(m)' : i \in Changes(m)
    BY DEF Changes, Joined
  <2> QED  BY <2>1, <2>2
<1>2. \A i \in Changes(m) : inbox'[i] = inbox[i]
  BY DEF Changes, Joined
<1>3. \A i \in Changes(m) : Tells(m, i) => Tells(m, i)'
  BY <1>2 DEF Tells
<1> QED  BY <1>1, <1>3 DEF Told

-----------------------------------------------------------------------------
(***************************************************************************)
(* What a plugin does with one node.                                       *)
(***************************************************************************)

LEMMA ValuesGiven ==
  /\ \A n \in Nodes : Gives[n] \subseteq Values
  /\ \A n \in Nodes : \A o \in Offers[n] : o.value \in Values /\ o.kids \in Seq(Nodes)
  /\ Typed \subseteq Values /\ None \in Values
<1>1. \A n \in Nodes : Gives[n] \subseteq Values
  BY DEF Values
<1>2. ASSUME NEW n \in Nodes, NEW o \in Offers[n] PROVE o.value \in Values
  <2>1. o.value \in Offered(n)
    BY DEF Offered
  <2> QED  BY <2>1 DEF Values
<1>3. \A n \in Nodes : \A o \in Offers[n] : o.kids \in Seq(Nodes)
  BY TreeAssumption
<1>4. Typed \subseteq Values /\ None \in Values
  BY DEF Values
<1> QED  BY <1>1, <1>2, <1>3, <1>4

LEMMA SetInv ==
  ASSUME Inv, NEW n \in Nodes, NEW v \in Gives[n], Set(n, v)
  PROVE  Inv'
<1>1. /\ value' = [value EXCEPT ![n] = v] /\ outdated' = outdated \cup Waits({n})
      /\ \/ place[n] = None /\ content' = content /\ raced' = raced
         \/ place[n] # None /\ content' = [content EXCEPT ![n] = v] /\ raced' = raced \cup Raced({n})
      /\ UNCHANGED <<children, picking, reset, place, holds, waiting, selection, root, shown,
                     below, busy, inbox, asking, sent, reached, spoiled, late>>
  BY DEF Set, Outdate
<1>2. v \in Values
  BY ValuesGiven
<1>3. Typing /\ Trees /\ Hearing /\ Picks /\ Selecting /\ Numbered /\ InOrderSent
  BY DEF Inv
<1>4. Typing'
  <2>1. value' \in [Nodes -> Values] /\ content' \in [Nodes -> Values]
    BY <1>1, <1>2, <1>3 DEF Typing, SdkTypes, ShellTypes
  <2>2. raced' \in SUBSET Nodes /\ outdated' \in SUBSET (1..MaxSelections)
    <3>1. Raced({n}) \in SUBSET Nodes /\ Waits({n}) \in SUBSET (1..MaxSelections)
      BY <1>3, RacedTypes, WaitsTypes
    <3> QED  BY <1>1, <1>3, <3>1 DEF Typing, SdkTypes, BetweenTypes
  <2> QED  BY <1>1, <1>3, <2>1, <2>2 DEF Typing, SdkTypes, ShellTypes, BetweenTypes
<1>5. Trees' /\ Picks' /\ Numbered' /\ InOrderSent'
  BY <1>1, <1>3, SamePlaces, SamePicks, SameNumbers
<1>6. Hearing'
  <2> SUFFICES ASSUME NEW m \in Nodes, shown'[m] # None, m \notin raced' PROVE Told(m)'
    BY <1>1, <1>3 DEF Hearing
  <2>1. Changes(m)' = Changes(m)
    BY <1>1 DEF Changes
  <2>2. m \notin raced /\ Told(m)
    BY <1>1, <1>3 DEF Hearing
  <2>3. CASE m # n
    <3>1. value'[m] = value[m] /\ content'[m] = content[m]
      BY <1>1, <1>3, <2>3 DEF Typing, SdkTypes, ShellTypes
    <3>2. \A i \in Changes(m) : Tells(m, i) => Tells(m, i)'
      BY <1>1, <3>1 DEF Tells
    <3> QED  BY <1>1, <2>1, <2>2, <3>1, <3>2 DEF Told
  <2>4. CASE m = n
    <3>1. place[n] # None
      BY <1>1, <1>3, <2>4 DEF Trees
    <3>2. ~InFlight(n)
      BY <1>1, <2>4, <3>1 DEF Raced
    <3>3. Changes(n) = {}
      BY <3>2 DEF Changes, InFlight
    <3>4. value'[n] = v /\ content'[n] = v
      BY <1>1, <1>3, <3>1 DEF Typing, SdkTypes, ShellTypes
    <3> QED  BY <1>1, <2>1, <2>2, <2>4, <3>3, <3>4 DEF Told
  <2> QED  BY <2>3, <2>4
<1>7. Selecting'
  <2>1. /\ Single(asking, inbox) /\ ~late
        /\ \A m \in Nodes : selection[m] # 0 => Pending(asking, inbox, selection[m], m)
        /\ \A id \in spoiled \cup outdated : \E m \in Nodes : Pending(asking, inbox, id, m)
        /\ \A m \in Nodes : selection[m] # 0 /\ selection[m] \in spoiled =>
                                Overtaken(outdated, inbox, selection[m], m, shown[m])
    BY <1>3 DEF Selecting
  <2>2. \A id \in spoiled \cup outdated' : \E m \in Nodes : Pending(asking, inbox, id, m)
    BY <1>1, <2>1 DEF Waits
  <2>3. \A m \in Nodes : selection[m] # 0 /\ selection[m] \in spoiled =>
                            Overtaken(outdated', inbox, selection[m], m, shown[m])
    BY <1>1, <2>1 DEF Overtaken
  <2> QED  BY <1>1, <2>1, <2>2, <2>3 DEF Selecting
<1> QED  BY <1>4, <1>5, <1>6, <1>7 DEF Inv

LEMMA ArrangeInv ==
  ASSUME Inv, NEW n \in Nodes, NEW kids \in Seq(Nodes), NEW v \in Values, Arrange(n, kids, v)
  PROVE  Inv'
<1>1. /\ place[n] = None /\ Grows(n, kids)
      /\ children' = [children EXCEPT ![n] = kids] /\ value' = [value EXCEPT ![n] = v]
      /\ UNCHANGED <<picking, reset, place, holds, waiting, selection, outdated,
                     root, shown, below, content, busy, inbox,
                     asking, sent, reached, raced, spoiled, late>>
  BY DEF Arrange, shell
<1>2. Typing /\ Trees /\ Hearing /\ Picks /\ Selecting /\ Numbered /\ InOrderSent
  BY DEF Inv
<1>3. Typing'
  <2>1. value' \in [Nodes -> Values] /\ children' \in Kids
    BY <1>1, <1>2 DEF Typing, SdkTypes, Kids
  <2> QED  BY <1>1, <1>2, <2>1 DEF Typing, SdkTypes, ShellTypes, BetweenTypes
<1>4. Picks' /\ Selecting' /\ Numbered' /\ InOrderSent'
  BY <1>1, <1>2, SamePicks, SameSelecting, SameNumbers
<1>5. shown[n] = None
  BY <1>1, <1>2 DEF Trees
<1>6. \A m \in Nodes : m # n => children'[m] = children[m] /\ value'[m] = value[m]
  BY <1>1, <1>2 DEF Typing, SdkTypes, Kids
<1>7. Hearing'
  <2> SUFFICES ASSUME NEW m \in Nodes, shown'[m] # None, m \notin raced' PROVE Told(m)'
    BY <1>1, <1>2 DEF Hearing
  <2>1. Told(m) /\ m # n
    BY <1>1, <1>2, <1>5 DEF Hearing
  <2>2. Changes(m)' = Changes(m)
    BY <1>1 DEF Changes
  <2>3. \A i \in Changes(m) : Tells(m, i) => Tells(m, i)'
    BY <1>1 DEF Tells
  <2> QED  BY <1>1, <1>6, <2>1, <2>2, <2>3 DEF Told
<1>8. Trees'
  <2>1. Planted(children, below, shown) /\ children \in Kids
    BY <1>2 DEF Trees, Typing, SdkTypes
  <2>2. Grounded(children')
    BY <1>1, <2>1, GroundedGrows DEF Planted, Grows
  <2>3. Planted(children', below, shown)
    BY <1>5, <1>6, <2>1, <2>2 DEF Planted
  <2> QED  BY <1>1, <1>2, <2>3 DEF Trees
<1> QED  BY <1>3, <1>4, <1>7, <1>8 DEF Inv

LEMMA CommandInv ==
  ASSUME Inv, NEW n \in Nodes, Command(n)
  PROVE  Inv' /\ \A i, j \in DOMAIN reached' \ DOMAIN reached : i = j
<1> DEFINE command == [number |-> sent + 1, node |-> n]
           L == Len(reached)
<1>1. /\ sent' = sent + 1
      /\ \/ place[n] = None /\ waiting' = waiting \cup {command} /\ reached' = reached
         \/ place[n] # None /\ reached' = Append(reached, command) /\ waiting' = waiting
      /\ UNCHANGED <<children, value, picking, reset, place, holds, selection, outdated,
                     root, shown, below, content, busy,
                     inbox, asking, raced, spoiled, late>>
  BY DEF Command, shell
<1>2. Typing /\ Trees /\ Hearing /\ Picks /\ Selecting /\ Numbered /\ InOrderSent
  BY DEF Inv
<1>3. /\ command \in Commands /\ sent \in Nat /\ reached \in Seq(Commands) /\ waiting \subseteq Commands
      /\ L \in Nat /\ DOMAIN reached = 1..L
  BY <1>2 DEF Typing, SdkTypes, BetweenTypes, Commands
<1>4. Typing'
  <2>1. waiting' \in SUBSET Commands /\ reached' \in Seq(Commands) /\ sent' \in Nat
    <3>1. Append(reached, command) \in Seq(Commands)
      BY <1>3, AppendProperties
    <3> HIDE DEF command, L
    <3>2. waiting \cup {command} \in SUBSET Commands
      BY <1>3
    <3> QED  BY <1>1, <1>3, <3>1, <3>2
  <2> QED  BY <1>1, <1>2, <2>1 DEF Typing, SdkTypes, ShellTypes, BetweenTypes
<1>5. Trees' /\ Picks' /\ Selecting'
  BY <1>1, <1>2, SamePlaces, SamePicks, SameSelecting
<1>6. Hearing'
  <2>1. \A m \in Nodes : Changes(m)' = Changes(m)
    BY <1>1 DEF Changes
  <2>2. \A m \in Nodes : \A i \in Changes(m) : Tells(m, i) => Tells(m, i)'
    BY <1>1 DEF Tells
  <2>3. \A m \in Nodes : Told(m) => Told(m)'
    BY <1>1, <2>1, <2>2 DEF Told
  <2> QED  BY <1>1, <1>2, <2>3 DEF Hearing
<1>7. command.number = sent + 1 /\ command.node = n
  OBVIOUS
<1> HIDE DEF command
<1>8. /\ IsFiniteSet(waiting)
      /\ \A w \in waiting : shown[w.node] = None
      /\ \A v, w \in waiting : v.number = w.number => v = w
      /\ \A i, j \in DOMAIN reached : reached[i].number = reached[j].number => i = j
      /\ \A i \in DOMAIN reached, w \in waiting : reached[i].number # w.number
      /\ \A k \in 1..sent : (\E w \in waiting : w.number = k)
                               \/ \E i \in DOMAIN reached : reached[i].number = k
      /\ \A w \in waiting : w.number \in 1..sent
      /\ \A i \in DOMAIN reached : reached[i].number \in 1..sent
      /\ Len(reached) + Cardinality(waiting) = sent
  BY <1>2 DEF Numbered
<1>9. /\ \A i, j \in DOMAIN reached :
            i < j /\ reached[i].node = reached[j].node => reached[i].number < reached[j].number
      /\ \A i \in DOMAIN reached, w \in waiting :
            reached[i].node = w.node => reached[i].number < w.number
  BY <1>2 DEF InOrderSent
<1>10. /\ \A w \in waiting : w.number < sent + 1 /\ w.number # sent + 1
       /\ \A i \in DOMAIN reached : reached[i].number < sent + 1 /\ reached[i].number # sent + 1
       /\ \A k \in 1..sent' : k \in 1..sent \/ k = sent + 1
       /\ 1..sent \subseteq 1..sent' /\ sent + 1 \in 1..sent'
  BY <1>1, <1>3, <1>8
<1>11. CASE place[n] = None
  <2>1. /\ waiting' = waiting \cup {command} /\ reached' = reached /\ command \notin waiting
        /\ shown[n] = None
    BY <1>1, <1>2, <1>7, <1>10, <1>11 DEF Trees
  <2>2. IsFiniteSet(waiting') /\ Cardinality(waiting') = Cardinality(waiting) + 1
    BY <1>8, <2>1, FS_AddElement
  <2>3. Len(reached') + Cardinality(waiting') = sent'
    <3>1. Cardinality(waiting) \in Nat
      BY <1>8, FS_CardinalityType
    <3>2. Len(reached') = L /\ L + Cardinality(waiting) = sent
      BY <1>8, <2>1
    <3> HIDE DEF L
    <3> QED  BY <1>1, <1>3, <2>2, <3>1, <3>2
  <2>4. /\ \A w \in waiting' : shown'[w.node] = None
        /\ \A v, w \in waiting' : v.number = w.number => v = w
    BY <1>1, <1>7, <1>8, <1>10, <2>1
  <2>5. /\ \A i, j \in DOMAIN reached' : reached'[i].number = reached'[j].number => i = j
        /\ \A i \in DOMAIN reached', w \in waiting' : reached'[i].number # w.number
    BY <1>7, <1>8, <1>10, <2>1
  <2>6. \A k \in 1..sent' : (\E w \in waiting' : w.number = k)
                               \/ \E i \in DOMAIN reached' : reached'[i].number = k
    BY <1>7, <1>8, <1>10, <2>1
  <2>7. /\ \A w \in waiting' : w.number \in 1..sent'
        /\ \A i \in DOMAIN reached' : reached'[i].number \in 1..sent'
    BY <1>7, <1>8, <1>10, <2>1
  <2>8. Numbered'
    BY <2>2, <2>3, <2>4, <2>5, <2>6, <2>7 DEF Numbered
  <2>9. InOrderSent'
    BY <1>7, <1>9, <1>10, <2>1 DEF InOrderSent
  <2> QED  BY <1>4, <1>5, <1>6, <2>1, <2>8, <2>9 DEF Inv
<1>12. CASE place[n] # None
  <2>1. waiting' = waiting /\ reached' = Append(reached, command) /\ shown[n] # None
    BY <1>1, <1>2, <1>12 DEF Trees
  <2>2. Len(reached') = L + 1 /\ DOMAIN reached' = 1..L + 1
    BY <1>3, <2>1
  <2>3. \A i \in DOMAIN reached : i \in DOMAIN reached' /\ reached'[i] = reached[i] /\ i < L + 1 /\ i # L + 1
    BY <1>3, <2>1, <2>2
  <2>4. L + 1 \in DOMAIN reached' /\ reached'[L + 1] = command /\ L + 1 \notin DOMAIN reached
    BY <1>3, <2>1, <2>2
  <2>5. \A i \in DOMAIN reached' : i \in DOMAIN reached \/ i = L + 1
    BY <1>3, <2>2
  <2>6. \A w \in waiting : w.node # n
    BY <1>8, <2>1
  <2>7. Len(reached') + Cardinality(waiting') = sent'
    <3>1. Cardinality(waiting) \in Nat
      BY <1>8, FS_CardinalityType
    <3>2. Cardinality(waiting') = Cardinality(waiting) /\ L + Cardinality(waiting) = sent
      BY <1>8, <2>1
    <3> HIDE DEF L
    <3> QED  BY <1>1, <1>3, <2>2, <3>1, <3>2
  <2> HIDE DEF L
  <2>8. /\ \A i, j \in DOMAIN reached' : reached'[i].number = reached'[j].number => i = j
        /\ \A i \in DOMAIN reached', w \in waiting' : reached'[i].number # w.number
    BY <1>7, <1>8, <1>10, <2>1, <2>3, <2>4, <2>5
  <2>9. \A k \in 1..sent' : (\E w \in waiting' : w.number = k)
                               \/ \E i \in DOMAIN reached' : reached'[i].number = k
    BY <1>7, <1>8, <1>10, <2>1, <2>3, <2>4
  <2>10. /\ \A w \in waiting' : w.number \in 1..sent'
         /\ \A i \in DOMAIN reached' : reached'[i].number \in 1..sent'
    BY <1>7, <1>8, <1>10, <2>1, <2>3, <2>4, <2>5
  <2>11. Numbered'
    BY <1>1, <1>8, <2>1, <2>7, <2>8, <2>9, <2>10 DEF Numbered
  <2>12. \A i, j \in DOMAIN reached' :
            i < j /\ reached'[i].node = reached'[j].node => reached'[i].number < reached'[j].number
    <3> SUFFICES ASSUME NEW i \in DOMAIN reached', NEW j \in DOMAIN reached', i < j,
                        reached'[i].node = reached'[j].node
                 PROVE  reached'[i].number < reached'[j].number
      OBVIOUS
    <3>1. i \in DOMAIN reached
      <4>1. i # L + 1
        BY <1>3, <2>2 DEF L
      <4> QED  BY <2>5, <4>1
    <3>2. CASE j \in DOMAIN reached
      BY <1>9, <2>3, <3>1, <3>2
    <3>3. CASE j = L + 1
      BY <1>7, <1>10, <2>3, <2>4, <3>1, <3>3
    <3> QED  BY <2>5, <3>2, <3>3
  <2>13. \A i \in DOMAIN reached', w \in waiting' :
            reached'[i].node = w.node => reached'[i].number < w.number
    BY <1>7, <1>9, <2>1, <2>3, <2>4, <2>5, <2>6
  <2>14. InOrderSent'
    BY <2>12, <2>13 DEF InOrderSent
  <2> QED  BY <1>4, <1>5, <1>6, <2>5, <2>11, <2>14 DEF Inv
<1> QED  BY <1>11, <1>12

-----------------------------------------------------------------------------
(***************************************************************************)
(* What joins the inbox: the reports of components and the answers of      *)
(* selectors.                                                              *)
(***************************************************************************)

Report(n, name, v, order) ==
    [name |-> name, surface |-> shown[n], node |-> n, value |-> v, order |-> order]

LEMMA EmitFacts ==
  ASSUME Inv, NEW n \in Nodes, NEW name \in {"change", "browse", "move"}, NEW v \in Values,
         NEW order \in Seq(Nodes), Emit(n, name, v, order)
  PROVE  /\ inbox' \in Seq(Messages) /\ Len(inbox') <= MaxInbox
         /\ Joined(inbox', inbox, Report(n, name, v, order))
         /\ shown[n] # None /\ raced' \in SUBSET Nodes
         /\ raced' = IF name = "browse" THEN raced ELSE raced \ {n}
         /\ UNCHANGED <<children, value, picking, reset, place, holds, waiting, selection, outdated,
                        root, shown, asking, sent, reached, late>>
<1> DEFINE message == Report(n, name, v, order)
<1>1. /\ inbox' = Append(inbox, message) /\ Len(inbox) < MaxInbox /\ shown[n] # None
      /\ raced' = IF name = "browse" THEN raced ELSE raced \ {n}
      /\ UNCHANGED <<children, value, picking, reset, place, holds, waiting, selection, outdated,
                     root, shown, asking, sent, reached, late>>
  BY DEF Emit, Report, sdk
<1>2. Typing
  BY DEF Inv
<1>3. message \in Messages
  <2>1. shown[n] \in Surfaces
    BY <1>1, <1>2 DEF Typing, ShellTypes, Places
  <2>2. message \in Reports
    BY <2>1 DEF Report, Reports
  <2> QED  BY <2>2 DEF Messages
<1>4. inbox \in Seq(Messages) /\ Len(inbox) \in Nat /\ MaxInbox \in Nat
  BY <1>2, TreeAssumption DEF Typing, BetweenTypes
<1> HIDE DEF message
<1>5. inbox' \in Seq(Messages) /\ Len(inbox') = Len(inbox) + 1 /\ Joined(inbox', inbox, message)
  <2> DEFINE box2 == inbox'
  <2>1. box2 = Append(inbox, message)
    BY <1>1
  <2> HIDE DEF box2
  <2>2. box2 \in Seq(Messages) /\ Len(box2) = Len(inbox) + 1 /\ Joined(box2, inbox, message)
    BY <1>3, <1>4, <2>1, Appending
  <2> QED  BY <2>2 DEF box2
<1>6. Len(inbox') <= MaxInbox
  BY <1>1, <1>4, <1>5
<1>7. raced' \in SUBSET Nodes
  BY <1>1, <1>2 DEF Typing, BetweenTypes
<1> QED  BY <1>1, <1>5, <1>6, <1>7 DEF message

\* What a report leaves of the invariant, whatever it says.
LEMMA ReportKeeps ==
  ASSUME Inv, NEW message, message.name # "answer", Joined(inbox', inbox, message),
         UNCHANGED <<picking, selection, asking, outdated, shown, late>>
  PROVE  /\ \A n \in Nodes : picking'[n] => selection'[n] # 0
         /\ \A n \in Nodes : shown'[n] = None => selection'[n] = 0
         /\ \A n \in Nodes : busy[n] => selection'[n] # 0
                                \/ \E i \in DOMAIN inbox' : Reported(inbox', n, "browse", shown'[n], i)
         /\ Single(asking', inbox')
         /\ \A n \in Nodes : selection'[n] # 0 => Pending(asking', inbox', selection'[n], n)
         /\ \A id \in spoiled \cup outdated' : \E n \in Nodes : Pending(asking', inbox', id, n)
         /\ \A n \in Nodes : selection'[n] # 0 /\ selection'[n] \in spoiled =>
                                 Overtaken(outdated', inbox', selection'[n], n, shown'[n])
         /\ ~late'
<1> DEFINE box2 == inbox'
<1>1. picking' = picking /\ selection' = selection /\ asking' = asking /\ outdated' = outdated
      /\ shown' = shown /\ late' = late /\ Joined(box2, inbox, message)
  OBVIOUS
<1>2. Picks /\ Selecting
  BY DEF Inv
<1> HIDE DEF box2
<1>3. /\ \A ask, id, n : Pending(ask, inbox, id, n) => Pending(ask, box2, id, n)
      /\ \A n, name, s : (\E i \in DOMAIN inbox : Reported(inbox, n, name, s, i))
                            => \E i \in DOMAIN box2 : Reported(box2, n, name, s, i)
  BY <1>1, JoinedKeeps
<1>4. /\ \A ask : Single(ask, inbox) => Single(ask, box2)
      /\ \A old, id, n, s : Overtaken(old, inbox, id, n, s) => Overtaken(old, box2, id, n, s)
  BY <1>1, JoinedSelecting
<1>5. /\ \A n \in Nodes : picking[n] => selection[n] # 0
      /\ \A n \in Nodes : shown[n] = None => selection[n] = 0
      /\ \A n \in Nodes : busy[n] => selection[n] # 0
                              \/ \E i \in DOMAIN box2 : Reported(box2, n, "browse", shown[n], i)
  BY <1>2, <1>3 DEF Picks
<1>6. /\ Single(asking, box2) /\ ~late
      /\ \A n \in Nodes : selection[n] # 0 => Pending(asking, box2, selection[n], n)
      /\ \A id \in spoiled \cup outdated : \E n \in Nodes : Pending(asking, box2, id, n)
      /\ \A n \in Nodes : selection[n] # 0 /\ selection[n] \in spoiled =>
                              Overtaken(outdated, box2, selection[n], n, shown[n])
  BY <1>2, <1>3, <1>4 DEF Selecting
<1> QED  BY <1>1, <1>5, <1>6 DEF box2

LEMMA EditInv ==
  ASSUME Inv, NEW n \in Nodes, NEW v \in Typed, Edit(n, v)
  PROVE  Inv'
<1> DEFINE message == Report(n, "change", v, <<>>)
<1>1. /\ n \in Paths /\ Emit(n, "change", v, <<>>)
      /\ content' = [content EXCEPT ![n] = v]
      /\ spoiled' = spoiled \cup {a.id : a \in {q \in asking : q.node = n}}
      /\ UNCHANGED <<below, busy>>
  BY DEF Edit
<1>2. v \in Values /\ <<>> \in Seq(Nodes)
  BY ValuesGiven
<1>3. /\ inbox' \in Seq(Messages) /\ Len(inbox') <= MaxInbox
      /\ Joined(inbox', inbox, message)
      /\ shown[n] # None /\ raced' \in SUBSET Nodes
      /\ raced' = raced \ {n}
      /\ UNCHANGED <<children, value, picking, reset, place, holds, waiting, selection, outdated,
                     root, shown, asking, sent, reached, late>>
  BY <1>1, <1>2, EmitFacts
<1>4. Typing /\ Trees /\ Hearing /\ Picks /\ Selecting /\ Numbered /\ InOrderSent
  BY DEF Inv
<1>5. message.name = "change" /\ message.node = n /\ message.value = v /\ message.order = <<>>
      /\ message.surface = shown[n]
  BY DEF Report
<1> HIDE DEF message
<1>6. Typing'
  <2>1. content' \in [Nodes -> Values]
    BY <1>1, <1>2, <1>4 DEF Typing, ShellTypes
  <2>2. spoiled' \in SUBSET (1..MaxSelections)
    BY <1>1, <1>4 DEF Typing, BetweenTypes, Selections
  <2> QED  BY <1>1, <1>3, <1>4, <2>1, <2>2 DEF Typing, SdkTypes, ShellTypes, BetweenTypes
<1>7. Trees' /\ Numbered' /\ InOrderSent'
  BY <1>1, <1>3, <1>4, SamePlaces, SameNumbers
<1>8. Hearing'
  <2>1. \A i \in DOMAIN inbox' : inbox'[i].name # "answer" => IsInjective(inbox'[i].order)
    <3> SUFFICES ASSUME NEW i \in DOMAIN inbox', inbox'[i].name # "answer" PROVE IsInjective(inbox'[i].order)
      OBVIOUS
    <3>1. CASE i \in DOMAIN inbox
      BY <1>3, <1>4, <3>1 DEF Joined, Hearing
    <3>2. CASE i = Len(inbox) + 1
      BY <1>3, <1>5, <3>2 DEF Joined, IsInjective
    <3> QED  BY <1>3, <3>1, <3>2 DEF Joined
  <2>2. ASSUME NEW m \in Nodes, shown'[m] # None, m \notin raced' PROVE Told(m)'
    <3>1. CASE m # n
      <4>1. Told(m)
        BY <1>3, <1>4, <2>2, <3>1 DEF Hearing
      <4>2. content'[m] = content[m]
        BY <1>1, <1>4, <3>1 DEF Typing, ShellTypes
      <4> QED  BY <1>1, <1>3, <1>5, <3>1, <4>1, <4>2, JoinedTold
    <3>2. CASE m = n
      <4>0. PICK k : k = Len(inbox) + 1
        OBVIOUS
      <4>1. k \in DOMAIN inbox' /\ inbox'[k] = message /\ (\A i \in DOMAIN inbox' : i \in DOMAIN inbox \/ i = k)
            /\ (\A i \in DOMAIN inbox : i < k) /\ k \in Nat /\ DOMAIN inbox' \subseteq Nat
        BY <1>3, <4>0 DEF Joined
      <4>2. k \in Changes(n)'
        BY <1>5, <4>1 DEF Changes
      <4>3. ASSUME NEW j \in Changes(n)' PROVE j <= k
        <5>1. j \in DOMAIN inbox'
          BY <4>3 DEF Changes
        <5>2. j \in Nat /\ (j < k \/ j = k)
          BY <4>1, <5>1
        <5> QED  BY <4>1, <5>2
      <4>4. content'[n] = v
        BY <1>1, <1>4 DEF Typing, ShellTypes
      <4>5. Tells(n, k)'
        BY <1>1, <1>3, <1>5, <4>1, <4>4 DEF Tells
      <4> QED  BY <3>2, <4>2, <4>3, <4>5 DEF Told
    <3> QED  BY <3>1, <3>2
  <2> QED  BY <2>1, <2>2 DEF Hearing
<1>9. /\ \A m \in Nodes : picking'[m] => selection'[m] # 0
      /\ \A m \in Nodes : shown'[m] = None => selection'[m] = 0
      /\ \A m \in Nodes : busy[m] => selection'[m] # 0
                              \/ \E i \in DOMAIN inbox' : Reported(inbox', m, "browse", shown'[m], i)
      /\ Single(asking', inbox')
      /\ \A m \in Nodes : selection'[m] # 0 => Pending(asking', inbox', selection'[m], m)
      /\ \A id \in spoiled \cup outdated' : \E m \in Nodes : Pending(asking', inbox', id, m)
      /\ \A m \in Nodes : selection'[m] # 0 /\ selection'[m] \in spoiled =>
                              Overtaken(outdated', inbox', selection'[m], m, shown'[m])
      /\ ~late'
  BY <1>3, <1>5, ReportKeeps
<1>10. Picks'
  BY <1>1, <1>9 DEF Picks
<1>11. Selecting'
  <2> DEFINE opened == {q \in asking : q.node = n}
  <2>1. \A a \in opened : a = [id |-> a.id, node |-> n] /\ a.id \in 1..MaxSelections /\ a \in asking
    BY <1>4 DEF Typing, BetweenTypes, Selections
  <2>2. \A id \in spoiled' \cup outdated' : \E m \in Nodes : Pending(asking', inbox', id, m)
    <3> SUFFICES ASSUME NEW a \in opened PROVE Pending(asking', inbox', a.id, n)
      BY <1>1, <1>9
    <3> QED  BY <1>3, <2>1 DEF Pending
  <2>3. ASSUME NEW m \in Nodes, selection'[m] # 0, selection'[m] \in spoiled'
        PROVE  Overtaken(outdated', inbox', selection'[m], m, shown'[m])
    <3>1. CASE selection'[m] \in spoiled
      BY <1>9, <2>3, <3>1
    <3>2. CASE selection'[m] \notin spoiled
      <4>1. PICK a \in opened : selection'[m] = a.id
        BY <1>1, <2>3, <3>2
      <4>2. selection[m] = a.id /\ selection[m] # 0 /\ [id |-> a.id, node |-> n] \in asking
        BY <1>3, <2>1, <2>3, <4>1
      <4>3. Pending(asking, inbox, a.id, n) /\ Pending(asking, inbox, a.id, m) /\ Single(asking, inbox)
        BY <1>4, <4>2 DEF Pending, Selecting
      <4>4. m = n
        BY <2>1, <4>3, PendingOnce
      <4> DEFINE k == Len(inbox) + 1
      <4>5. k \in DOMAIN inbox' /\ Reported(inbox', n, "change", shown'[n], k)
        BY <1>3, <1>5 DEF Joined, Reported
      <4>6. \A j \in DOMAIN inbox' : ~Answered(inbox', a.id, j)
        <5>1. \A j \in DOMAIN inbox : ~Answered(inbox, a.id, j)
          BY <2>1, <4>3 DEF Single
        <5> QED  BY <1>3, <1>5, <5>1 DEF Joined, Answered
      <4> HIDE DEF k
      <4> QED  BY <4>1, <4>4, <4>5, <4>6 DEF Overtaken
    <3> QED  BY <3>1, <3>2
  <2> QED  BY <1>9, <2>2, <2>3 DEF Selecting
<1> QED  BY <1>6, <1>7, <1>8, <1>10, <1>11 DEF Inv

LEMMA BrowseInv ==
  ASSUME Inv, NEW n \in Nodes, Browse(n)
  PROVE  Inv'
<1> DEFINE message == Report(n, "browse", content[n], <<>>)
<1>1. /\ Emit(n, "browse", content[n], <<>>)
      /\ busy' = [busy EXCEPT ![n] = TRUE]
      /\ UNCHANGED <<below, content, spoiled>>
  BY DEF Browse
<1>2. Typing /\ Trees /\ Hearing /\ Picks /\ Selecting /\ Numbered /\ InOrderSent
  BY DEF Inv
<1>3. content[n] \in Values /\ <<>> \in Seq(Nodes)
  BY <1>2 DEF Typing, ShellTypes
<1>4. /\ inbox' \in Seq(Messages) /\ Len(inbox') <= MaxInbox
      /\ Joined(inbox', inbox, message)
      /\ shown[n] # None /\ raced' \in SUBSET Nodes
      /\ raced' = raced
      /\ UNCHANGED <<children, value, picking, reset, place, holds, waiting, selection, outdated,
                     root, shown, asking, sent, reached, late>>
  BY <1>1, <1>3, EmitFacts
<1>5. message.name = "browse" /\ message.node = n /\ message.order = <<>> /\ message.surface = shown[n]
  BY DEF Report
<1> HIDE DEF message
<1>6. Typing'
  <2>1. busy' \in [Nodes -> BOOLEAN]
    BY <1>1, <1>2 DEF Typing, ShellTypes
  <2> QED  BY <1>1, <1>2, <1>4, <2>1 DEF Typing, SdkTypes, ShellTypes, BetweenTypes
<1>7. Trees' /\ Numbered' /\ InOrderSent'
  BY <1>1, <1>2, <1>4, SamePlaces, SameNumbers
<1>8. Hearing'
  <2>1. \A i \in DOMAIN inbox' : inbox'[i].name # "answer" => IsInjective(inbox'[i].order)
    <3> SUFFICES ASSUME NEW i \in DOMAIN inbox', inbox'[i].name # "answer" PROVE IsInjective(inbox'[i].order)
      OBVIOUS
    <3>1. CASE i \in DOMAIN inbox
      BY <1>2, <1>4, <3>1 DEF Joined, Hearing
    <3>2. CASE i = Len(inbox) + 1
      BY <1>4, <1>5, <3>2 DEF Joined, IsInjective
    <3> QED  BY <1>4, <3>1, <3>2 DEF Joined
  <2>2. ASSUME NEW m \in Nodes, shown'[m] # None, m \notin raced' PROVE Told(m)'
    <3>1. Told(m)
      BY <1>2, <1>4, <2>2 DEF Hearing
    <3> QED  BY <1>1, <1>4, <1>5, <3>1, JoinedTold
  <2> QED  BY <2>1, <2>2 DEF Hearing
<1>9. /\ \A m \in Nodes : picking'[m] => selection'[m] # 0
      /\ \A m \in Nodes : shown'[m] = None => selection'[m] = 0
      /\ \A m \in Nodes : busy[m] => selection'[m] # 0
                              \/ \E i \in DOMAIN inbox' : Reported(inbox', m, "browse", shown'[m], i)
      /\ Single(asking', inbox')
      /\ \A m \in Nodes : selection'[m] # 0 => Pending(asking', inbox', selection'[m], m)
      /\ \A id \in spoiled \cup outdated' : \E m \in Nodes : Pending(asking', inbox', id, m)
      /\ \A m \in Nodes : selection'[m] # 0 /\ selection'[m] \in spoiled =>
                              Overtaken(outdated', inbox', selection'[m], m, shown'[m])
      /\ ~late'
  BY <1>4, <1>5, ReportKeeps
<1>10. Picks'
  <2>1. \E i \in DOMAIN inbox' : Reported(inbox', n, "browse", shown'[n], i)
    BY <1>4, <1>5 DEF Joined, Reported
  <2>2. \A m \in Nodes : m # n => busy'[m] = busy[m]
    BY <1>1, <1>2 DEF Typing, ShellTypes
  <2> QED  BY <1>9, <2>1, <2>2 DEF Picks
<1>11. Selecting'
  BY <1>1, <1>9 DEF Selecting
<1> QED  BY <1>6, <1>7, <1>8, <1>10, <1>11 DEF Inv

\* A list read from its end has the same members, each where only one was.
LEMMA ReverseFacts ==
  ASSUME NEW S, NEW s \in Seq(S), \A i, j \in DOMAIN s : s[i] = s[j] => i = j
  PROVE  /\ Reverse(s) \in Seq(S) /\ Len(Reverse(s)) = Len(s) /\ ToSet(Reverse(s)) = ToSet(s)
         /\ \A i, j \in DOMAIN Reverse(s) : Reverse(s)[i] = Reverse(s)[j] => i = j
<1> DEFINE L == Len(s)
           r == Reverse(s)
<1>1. L \in Nat /\ DOMAIN s = 1..L /\ r = [i \in 1..L |-> s[(L - i) + 1]]
  BY DEF Reverse
<1> HIDE DEF L, r
<1>2. \A i \in 1..L : (L - i) + 1 \in 1..L /\ r[i] = s[(L - i) + 1] /\ i = (L - ((L - i) + 1)) + 1
  BY <1>1
<1>3. \A i \in 1..L : s[i] \in S
  BY <1>1
<1>4. r \in Seq(S) /\ Len(r) = L /\ DOMAIN r = 1..L
  BY <1>1, <1>2, <1>3
<1>5. \A i, j \in DOMAIN r : r[i] = r[j] => i = j
  <2> SUFFICES ASSUME NEW i \in 1..L, NEW j \in 1..L, r[i] = r[j] PROVE i = j
    BY <1>4
  <2>1. (L - i) + 1 = (L - j) + 1
    BY <1>1, <1>2
  <2> QED  BY <1>1, <2>1
<1>6. ToSet(r) = ToSet(s)
  <2>1. \A i \in 1..L : r[i] \in ToSet(s)
    BY <1>1, <1>2 DEF ToSet
  <2>2. \A i \in 1..L : s[i] \in ToSet(r)
    <3> SUFFICES ASSUME NEW i \in 1..L PROVE s[i] \in ToSet(r)
      OBVIOUS
    <3> DEFINE k == (L - i) + 1
    <3>1. k \in 1..L /\ i = (L - k) + 1
      BY <1>1
    <3> HIDE DEF k
    <3>2. r[k] = s[i] /\ k \in DOMAIN r
      BY <1>2, <1>4, <3>1
    <3> QED  BY <3>2 DEF ToSet
  <2>3. ToSet(r) \subseteq ToSet(s)
    <3> SUFFICES ASSUME NEW x \in ToSet(r) PROVE x \in ToSet(s)
      OBVIOUS
    <3>1. \E i \in 1..L : x = r[i]
      BY <1>4 DEF ToSet
    <3> QED  BY <2>1, <3>1
  <2>4. ToSet(s) \subseteq ToSet(r)
    <3> SUFFICES ASSUME NEW x \in ToSet(s) PROVE x \in ToSet(r)
      OBVIOUS
    <3>1. \E i \in 1..L : x = s[i]
      BY <1>1 DEF ToSet
    <3> QED  BY <2>2, <3>1
  <2> QED  BY <2>3, <2>4
<1> QED  BY <1>4, <1>5, <1>6 DEF L, r

\* Other orders of the children leave every tree as it is.
LEMMA TurnedPlants ==
  ASSUME NEW kids \in Kids, NEW low \in Kids, NEW at \in Places, Planted(kids, low, at),
         NEW low2 \in Kids,
         \A m \in Nodes : ToSet(low2[m]) = ToSet(low[m]) /\ Len(low2[m]) = Len(low[m]),
         \A m \in Nodes : \A i, j \in DOMAIN low2[m] : low2[m][i] = low2[m][j] => i = j
  PROVE  /\ Planted(kids, low2, at)
         /\ \A t, q \in Nodes \cup {None} \cup Surfaces : Grown(low, at, q, t) => Grown(low2, at, q, t)
<1>1. /\ Grounded(kids) /\ Grounded(low) /\ OneEach(low, Nodes)
      /\ \A n \in Nodes : at[n] = None => low[n] = <<>>
      /\ \A n \in Nodes : at[n] # None => ToSet(kids[n]) = ToSet(low[n]) /\ Len(kids[n]) = Len(low[n])
      /\ \A n \in Leaves : low[n] = <<>>
      /\ \A n \in Nodes : \A k \in ToSet(low[n]) : at[k] = at[n]
  BY LowGrounded DEF Planted
<1>2. \A m \in Nodes : low[m] = <<>> => low2[m] = <<>>
  <2> SUFFICES ASSUME NEW m \in Nodes, low[m] = <<>> PROVE low2[m] = <<>>
    OBVIOUS
  <2>1. low2[m] \in Seq(Nodes) /\ Len(low2[m]) = 0
    BY DEF Kids
  <2> QED  BY <2>1
<1>3. Grounded(low2)
  BY <1>1, GroundedFewer
<1>4. OneEach(low2, Nodes)
  <2> SUFFICES ASSUME NEW n \in Nodes, NEW m \in Nodes, NEW i \in DOMAIN low2[n],
                      NEW j \in DOMAIN low2[m], low2[n][i] = low2[m][j]
               PROVE  n = m /\ i = j
    BY DEF OneEach
  <2>1. low2[n][i] \in ToSet(low[n]) /\ low2[m][j] \in ToSet(low[m])
    BY KidsIn
  <2>2. PICK x \in DOMAIN low[n] : low[n][x] = low2[n][i]
    BY <2>1 DEF ToSet
  <2>3. PICK y \in DOMAIN low[m] : low[m][y] = low2[m][j]
    BY <2>1 DEF ToSet
  <2>4. n = m
    BY <1>1, <2>2, <2>3 DEF OneEach
  <2> QED  BY <2>4
<1>5. Planted(kids, low2, at)
  BY <1>1, <1>2, <1>4, TreeAssumption DEF Planted
<1>6. ASSUME NEW t, NEW q \in Nodes \cup {None} \cup Surfaces, Grown(low, at, q, t)
      PROVE  Grown(low2, at, q, t)
  <2>1. CASE q = None
    BY <1>6, <2>1 DEF Grown
  <2>2. CASE q # None
    <3>1. q \in Nodes /\ {n \in Nodes : at[n] = t} = Tree(low, q) /\ \A n \in Nodes : q \notin ToSet(low[n])
      BY <1>6, <2>2 DEF Grown
    <3>2. Tree(low2, q) = Tree(low, q)
      <4> DEFINE all == Nodes
      <4>1. all \in SUBSET Nodes /\ q \in all /\ \A x \in all : ToSet(low[x]) \subseteq all
        BY <3>1, KidsIn
      <4>2. \A x \in all : ToSet(low2[x]) = ToSet(low[x])
        OBVIOUS
      <4> HIDE DEF all
      <4> QED  BY <1>1, <1>3, <4>1, <4>2, TreesAlike
    <3> QED  BY <2>2, <3>1, <3>2 DEF Grown
  <2> QED  BY <2>1, <2>2
<1> QED  BY <1>5, <1>6

LEMMA MoveTabInv ==
  ASSUME Inv, NEW n \in Nodes, MoveTab(n)
  PROVE  Inv'
<1> DEFINE turned == Reverse(below[n])
           message == Report(n, "move", content[n], turned)
           low2 == below'
<1>1. /\ Emit(n, "move", content[n], turned)
      /\ below' = [below EXCEPT ![n] = turned]
      /\ UNCHANGED <<content, busy, spoiled>>
  BY DEF MoveTab
<1>2. Typing /\ Trees /\ Hearing /\ Picks /\ Selecting /\ Numbered /\ InOrderSent
  BY DEF Inv
<1>3. /\ content[n] \in Values /\ below[n] \in Seq(Nodes) /\ children \in Kids /\ below \in Kids
      /\ shown \in Places /\ root \in [Surfaces -> Nodes \cup {None}]
  BY <1>2 DEF Typing, ShellTypes, SdkTypes, Kids
<1>4. Planted(children, below, shown)
  BY <1>2 DEF Trees
<1>5. \A m \in Nodes : \A i, j \in DOMAIN below[m] : below[m][i] = below[m][j] => i = j
  BY <1>4 DEF Planted, OneEach
<1>6. /\ turned \in Seq(Nodes) /\ Len(turned) = Len(below[n]) /\ ToSet(turned) = ToSet(below[n])
      /\ \A i, j \in DOMAIN turned : turned[i] = turned[j] => i = j
  BY <1>3, <1>5, ReverseFacts
<1> HIDE DEF turned
<1>7. /\ inbox' \in Seq(Messages) /\ Len(inbox') <= MaxInbox
      /\ Joined(inbox', inbox, message)
      /\ shown[n] # None /\ raced' \in SUBSET Nodes
      /\ raced' = raced \ {n}
      /\ UNCHANGED <<children, value, picking, reset, place, holds, waiting, selection, outdated,
                     root, shown, asking, sent, reached, late>>
  BY <1>1, <1>3, <1>6, EmitFacts
<1>8. message.name = "move" /\ message.node = n /\ message.value = content[n] /\ message.order = turned
      /\ message.surface = shown[n]
  BY DEF Report
<1> HIDE DEF message
<1>9. below'[n] = turned /\ \A m \in Nodes : m # n => below'[m] = below[m]
  BY <1>1, <1>3 DEF Kids
<1>10. low2 \in Kids
  BY <1>1, <1>3, <1>6 DEF Kids
<1>11. Typing'
  BY <1>1, <1>2, <1>7, <1>10 DEF Typing, SdkTypes, ShellTypes, BetweenTypes
<1>12. Trees'
  <2>1. /\ \A m \in Nodes : ToSet(low2[m]) = ToSet(below[m]) /\ Len(low2[m]) = Len(below[m])
        /\ \A m \in Nodes : \A i, j \in DOMAIN low2[m] : low2[m][i] = low2[m][j] => i = j
    BY <1>5, <1>6, <1>9
  <2> HIDE DEF low2
  <2>2. /\ Planted(children, low2, shown)
        /\ \A t, q \in Nodes \cup {None} \cup Surfaces : Grown(below, shown, q, t) => Grown(low2, shown, q, t)
    BY <1>3, <1>4, <1>10, <2>1, TurnedPlants
  <2>3. \A t \in Surfaces : Grown(low2, shown, root[t], t)
    BY <1>2, <1>3, <2>2 DEF Trees
  <2> QED  BY <1>2, <1>7, <2>2, <2>3 DEF Trees, low2
<1>13. Numbered' /\ InOrderSent'
  BY <1>2, <1>7, SameNumbers
<1>14. Hearing'
  <2>1. \A i \in DOMAIN inbox' : inbox'[i].name # "answer" => IsInjective(inbox'[i].order)
    <3> SUFFICES ASSUME NEW i \in DOMAIN inbox', inbox'[i].name # "answer" PROVE IsInjective(inbox'[i].order)
      OBVIOUS
    <3>1. CASE i \in DOMAIN inbox
      BY <1>2, <1>7, <3>1 DEF Joined, Hearing
    <3>2. CASE i = Len(inbox) + 1
      BY <1>6, <1>7, <1>8, <3>2 DEF Joined, IsInjective
    <3> QED  BY <1>7, <3>1, <3>2 DEF Joined
  <2>2. ASSUME NEW m \in Nodes, shown'[m] # None, m \notin raced' PROVE Told(m)'
    <3>1. CASE m # n
      <4>1. Told(m)
        BY <1>2, <1>7, <2>2, <3>1 DEF Hearing
      <4> QED  BY <1>1, <1>7, <1>8, <1>9, <3>1, <4>1, JoinedTold
    <3>2. CASE m = n
      <4>0. PICK k : k = Len(inbox) + 1
        OBVIOUS
      <4>1. k \in DOMAIN inbox' /\ inbox'[k] = message /\ (\A i \in DOMAIN inbox' : i \in DOMAIN inbox \/ i = k)
            /\ (\A i \in DOMAIN inbox : i < k) /\ k \in Nat /\ DOMAIN inbox' \subseteq Nat
        BY <1>7, <4>0 DEF Joined
      <4>2. k \in Changes(n)'
        BY <1>8, <4>1 DEF Changes
      <4>3. ASSUME NEW j \in Changes(n)' PROVE j <= k
        <5>1. j \in DOMAIN inbox'
          BY <4>3 DEF Changes
        <5>2. j \in Nat /\ (j < k \/ j = k)
          BY <4>1, <5>1
        <5> QED  BY <4>1, <5>2
      <4>4. Tells(n, k)'
        BY <1>1, <1>7, <1>8, <1>9, <4>1 DEF Tells
      <4> QED  BY <3>2, <4>2, <4>3, <4>4 DEF Told
    <3> QED  BY <3>1, <3>2
  <2> QED  BY <2>1, <2>2 DEF Hearing
<1>15. /\ \A m \in Nodes : picking'[m] => selection'[m] # 0
       /\ \A m \in Nodes : shown'[m] = None => selection'[m] = 0
       /\ \A m \in Nodes : busy[m] => selection'[m] # 0
                               \/ \E i \in DOMAIN inbox' : Reported(inbox', m, "browse", shown'[m], i)
       /\ Single(asking', inbox')
       /\ \A m \in Nodes : selection'[m] # 0 => Pending(asking', inbox', selection'[m], m)
       /\ \A id \in spoiled \cup outdated' : \E m \in Nodes : Pending(asking', inbox', id, m)
       /\ \A m \in Nodes : selection'[m] # 0 /\ selection'[m] \in spoiled =>
                               Overtaken(outdated', inbox', selection'[m], m, shown'[m])
       /\ ~late'
  BY <1>7, <1>8, ReportKeeps
<1>16. Picks' /\ Selecting'
  BY <1>1, <1>15 DEF Picks, Selecting
<1> QED  BY <1>11, <1>12, <1>13, <1>14, <1>16 DEF Inv

LEMMA AnswerSelectorInv ==
  ASSUME Inv, NEW a \in asking, NEW v \in Typed \cup {None}, AnswerSelector(a, v)
  PROVE  Inv'
<1> DEFINE message == [name |-> "answer", node |-> a.node, id |-> a.id, value |-> v]
           box2 == inbox'
<1>1. /\ Len(inbox) < MaxInbox /\ asking' = asking \ {a} /\ box2 = Append(inbox, message)
      /\ UNCHANGED <<children, value, picking, reset, place, holds, waiting, selection, outdated,
                     root, shown, below, content, busy, sent, reached, raced, spoiled, late>>
  BY DEF AnswerSelector, sdk, shell
<1>2. Typing /\ Trees /\ Hearing /\ Picks /\ Selecting /\ Numbered /\ InOrderSent
  BY DEF Inv
<1>3. /\ a \in Selections /\ a = [id |-> a.id, node |-> a.node] /\ a.id \in 1..MaxSelections /\ a.node \in Nodes
      /\ asking \subseteq Selections
  BY <1>2 DEF Typing, BetweenTypes, Selections
<1>4. message \in Messages
  <2>1. v \in Values
    BY ValuesGiven
  <2>2. message \in Answers
    BY <1>3, <2>1 DEF Answers
  <2> QED  BY <2>2 DEF Messages
<1>5. inbox \in Seq(Messages) /\ Len(inbox) \in Nat /\ MaxInbox \in Nat
  BY <1>2, TreeAssumption DEF Typing, BetweenTypes
<1>6. message.name = "answer" /\ message.node = a.node /\ message.id = a.id
  OBVIOUS
<1> HIDE DEF message, box2
<1>7. box2 \in Seq(Messages) /\ Len(box2) = Len(inbox) + 1 /\ Joined(box2, inbox, message)
  BY <1>1, <1>4, <1>5, Appending
<1>8. Len(box2) <= MaxInbox
  BY <1>1, <1>5, <1>7
<1>9. Typing'
  BY <1>1, <1>2, <1>7, <1>8 DEF Typing, SdkTypes, ShellTypes, BetweenTypes, box2
<1>10. Trees' /\ Numbered' /\ InOrderSent'
  BY <1>1, <1>2, SamePlaces, SameNumbers
<1>11. Hearing'
  <2>1. \A i \in DOMAIN inbox' : inbox'[i].name # "answer" => IsInjective(inbox'[i].order)
    BY <1>2, <1>6, <1>7 DEF Joined, Hearing, box2
  <2>2. ASSUME NEW m \in Nodes, shown'[m] # None, m \notin raced' PROVE Told(m)'
    <3>1. Told(m)
      BY <1>1, <1>2, <2>2 DEF Hearing
    <3> QED  BY <1>1, <1>6, <1>7, <3>1, JoinedTold DEF box2
  <2> QED  BY <2>1, <2>2 DEF Hearing
<1>12. /\ \A ask, id, n : Pending(ask, inbox, id, n) => Pending(ask, box2, id, n)
       /\ \A n, name, s : (\E i \in DOMAIN inbox : Reported(inbox, n, name, s, i))
                             => \E i \in DOMAIN box2 : Reported(box2, n, name, s, i)
       /\ \A id, i : Answered(inbox, id, i) => Answered(box2, id, i)
       /\ \A id, i : Answered(box2, id, i) =>
                        Answered(inbox, id, i) \/ (i = Len(inbox) + 1 /\ id = a.id)
       /\ \A n, name, s, i : Reported(inbox, n, name, s, i) => Reported(box2, n, name, s, i)
  <2>1. \A id, i : Answered(box2, id, i) =>
                      Answered(inbox, id, i) \/ (i = Len(inbox) + 1 /\ message.name = "answer" /\ message.id = id)
    BY <1>7, JoinedKeeps
  <2>2. /\ \A ask, id, n : Pending(ask, inbox, id, n) => Pending(ask, box2, id, n)
        /\ \A n, name, s : (\E i \in DOMAIN inbox : Reported(inbox, n, name, s, i))
                              => \E i \in DOMAIN box2 : Reported(box2, n, name, s, i)
    BY <1>7, JoinedKeeps
  <2>3. /\ \A id, i : Answered(inbox, id, i) => Answered(box2, id, i)
        /\ \A n, name, s, i : Reported(inbox, n, name, s, i) => Reported(box2, n, name, s, i)
    BY <1>7, JoinedKeeps
  <2> QED  BY <1>6, <2>1, <2>2, <2>3
<1>13. Picks'
  BY <1>1, <1>2, <1>12 DEF Picks, box2
<1>14. /\ Single(asking, inbox) /\ ~late
       /\ \A n \in Nodes : selection[n] # 0 => Pending(asking, inbox, selection[n], n)
       /\ \A id \in spoiled \cup outdated : \E n \in Nodes : Pending(asking, inbox, id, n)
       /\ \A n \in Nodes : selection[n] # 0 /\ selection[n] \in spoiled =>
                               Overtaken(outdated, inbox, selection[n], n, shown[n])
  BY <1>2 DEF Selecting
<1>15. \A i \in DOMAIN inbox : ~Answered(inbox, a.id, i) /\ i \in DOMAIN box2 /\ i < Len(inbox) + 1
  BY <1>7, <1>14 DEF Single, Joined
<1>16. Single(asking', box2)
  <2>1. \A i, j \in DOMAIN box2, id \in 1..MaxSelections : Answered(box2, id, i) /\ Answered(box2, id, j) => i = j
    <3> SUFFICES ASSUME NEW i \in DOMAIN box2, NEW j \in DOMAIN box2, NEW id \in 1..MaxSelections,
                        Answered(box2, id, i), Answered(box2, id, j)
                 PROVE  i = j
      OBVIOUS
    <3>1. CASE id = a.id
      <4>1. \A k : ~Answered(inbox, a.id, k)
        BY <1>15 DEF Answered
      <4> QED  BY <1>12, <3>1, <4>1
    <3>2. CASE id # a.id
      <4>1. Answered(inbox, id, i) /\ Answered(inbox, id, j)
        BY <1>12, <3>2
      <4> QED  BY <1>14, <4>1 DEF Single, Answered
    <3> QED  BY <3>1, <3>2
  <2>2. \A b \in asking', i \in DOMAIN box2 : ~Answered(box2, b.id, i)
    <3> SUFFICES ASSUME NEW b \in asking', NEW i \in DOMAIN box2, Answered(box2, b.id, i) PROVE FALSE
      OBVIOUS
    <3>1. b \in asking /\ b # a
      BY <1>1
    <3>2. b.id # a.id
      BY <1>14, <3>1 DEF Single
    <3>3. Answered(inbox, b.id, i)
      BY <1>12, <3>2
    <3> QED  BY <1>14, <3>1, <3>3 DEF Single, Answered
  <2> QED  BY <1>1, <1>14, <2>1, <2>2 DEF Single
<1>17. ASSUME NEW id, NEW n \in Nodes, Pending(asking, inbox, id, n) PROVE Pending(asking', box2, id, n)
  <2>1. CASE [id |-> id, node |-> n] = a
    <3>1. id = a.id /\ n = a.node
      BY <1>3, <2>1
    <3>2. Len(inbox) + 1 \in DOMAIN box2 /\ box2[Len(inbox) + 1] = message
      BY <1>7 DEF Joined
    <3>3. Answered(box2, id, Len(inbox) + 1) /\ box2[Len(inbox) + 1].node = n
      BY <1>6, <3>1, <3>2 DEF Answered
    <3> QED  BY <3>2, <3>3 DEF Pending
  <2>2. CASE [id |-> id, node |-> n] # a
    <3>1. Pending(asking, box2, id, n)
      BY <1>12, <1>17
    <3> QED  BY <1>1, <2>2, <3>1 DEF Pending
  <2> QED  BY <2>1, <2>2
<1>18. ASSUME NEW id, NEW n \in Nodes, NEW s, Overtaken(outdated, inbox, id, n, s)
       PROVE  Overtaken(outdated, box2, id, n, s)
  <2>1. CASE id \in outdated
    BY <2>1 DEF Overtaken
  <2>2. CASE id \notin outdated
    <3>1. PICK i \in DOMAIN inbox : /\ Reported(inbox, n, "change", s, i)
                                    /\ \A j \in DOMAIN inbox : Answered(inbox, id, j) => i < j
      BY <1>18, <2>2 DEF Overtaken
    <3>2. i \in DOMAIN box2 /\ Reported(box2, n, "change", s, i) /\ i < Len(inbox) + 1
      BY <1>12, <1>15, <3>1
    <3>3. \A j \in DOMAIN box2 : Answered(box2, id, j) => i < j
      BY <1>12, <3>1, <3>2 DEF Answered
    <3> QED  BY <3>2, <3>3 DEF Overtaken
  <2> QED  BY <2>1, <2>2
<1>19. Selecting'
  <2>1. \A n \in Nodes : selection[n] # 0 => Pending(asking', box2, selection[n], n)
    BY <1>14, <1>17
  <2>2. \A id \in spoiled \cup outdated : \E n \in Nodes : Pending(asking', box2, id, n)
    BY <1>14, <1>17
  <2>3. \A n \in Nodes : selection[n] # 0 /\ selection[n] \in spoiled =>
                            Overtaken(outdated, box2, selection[n], n, shown[n])
    BY <1>14, <1>18
  <2> QED  BY <1>1, <1>14, <1>16, <2>1, <2>2, <2>3 DEF Selecting, box2
<1> QED  BY <1>9, <1>10, <1>11, <1>13, <1>19 DEF Inv

-----------------------------------------------------------------------------
(***************************************************************************)
(* What the SDK hears.                                                     *)
(***************************************************************************)

LEMMA TakeFacts ==
  ASSUME Inv, Take
  PROVE  /\ inbox' \in Seq(Messages) /\ Len(inbox') <= MaxInbox
         /\ Left(inbox', inbox)
         /\ Head(inbox) = inbox[1] /\ inbox[1] \in Messages /\ 1 \in DOMAIN inbox
         /\ \A i \in DOMAIN inbox' : inbox'[i].name # "answer" => IsInjective(inbox'[i].order)
<1> DEFINE box2 == inbox'
<1>1. Len(inbox) > 0 /\ box2 = Tail(inbox)
  BY DEF Take
<1>2. inbox \in Seq(Messages) /\ Len(inbox) <= MaxInbox /\ MaxInbox \in Nat
  BY TreeAssumption DEF Inv, Typing, BetweenTypes
<1> HIDE DEF box2
<1>3. /\ box2 \in Seq(Messages) /\ Len(box2) = Len(inbox) - 1
      /\ Head(inbox) = inbox[1] /\ inbox[1] \in Messages
      /\ Left(box2, inbox)
  BY <1>1, <1>2, Taking
<1>4. Len(box2) <= MaxInbox
  BY <1>1, <1>2, <1>3
<1>5. \A i \in DOMAIN box2 : box2[i].name # "answer" => IsInjective(box2[i].order)
  <2>1. \A i \in DOMAIN inbox : inbox[i].name # "answer" => IsInjective(inbox[i].order)
    BY DEF Inv, Hearing
  <2>2. \A i \in DOMAIN box2 : i + 1 \in DOMAIN inbox /\ box2[i] = inbox[i + 1]
    BY <1>3 DEF Left
  <2> QED  BY <2>1, <2>2
<1>6. 1 \in DOMAIN inbox
  BY <1>3 DEF Left
<1> QED  BY <1>3, <1>4, <1>5, <1>6 DEF box2

LEMMA ReportFields ==
  ASSUME NEW e \in Messages, e.name # "answer"
  PROVE  /\ e.node \in Nodes /\ e.value \in Values /\ e.order \in Seq(Nodes) /\ e.surface \in Surfaces
         /\ e.name \in {"change", "browse", "move"}
<1>1. e \in Reports
  BY DEF Messages, Answers
<1> QED  BY <1>1 DEF Reports

LEMMA AnswerFields ==
  ASSUME NEW e \in Messages, e.name = "answer"
  PROVE  e.node \in Nodes /\ e.value \in Values /\ e.id \in 1..MaxSelections
<1>1. e \in Answers
  BY DEF Messages, Reports
<1> QED  BY <1>1 DEF Answers

\* What a report that leaves the inbox leaves of the selections and of the buttons.
LEMMA TakeKeeps ==
  ASSUME Inv, Take, Head(inbox).name # "answer"
  PROVE  /\ Single(asking, inbox')
         /\ \A n \in Nodes : selection[n] # 0 => Pending(asking, inbox', selection[n], n)
         /\ \A id \in spoiled \cup outdated : \E n \in Nodes : Pending(asking, inbox', id, n)
         /\ \A n \in Nodes : selection[n] # 0 /\ selection[n] \in spoiled
                                /\ ~Reported(inbox, n, "change", shown[n], 1) =>
                                Overtaken(outdated, inbox', selection[n], n, shown[n])
         /\ ~late
         /\ \A n \in Nodes : picking[n] => selection[n] # 0
         /\ \A n \in Nodes : shown[n] = None => selection[n] = 0
         /\ \A n \in Nodes : busy[n] /\ ~Reported(inbox, n, "browse", shown[n], 1) =>
                                selection[n] # 0 \/ \E i \in DOMAIN inbox' : Reported(inbox', n, "browse", shown[n], i)
<1> DEFINE box2 == inbox'
<1>1. Left(box2, inbox) /\ Head(inbox) = inbox[1]
  BY TakeFacts
<1>2. Picks /\ Selecting
  BY DEF Inv
<1> HIDE DEF box2
<1>3. \A id : ~Answered(inbox, id, 1)
  BY <1>1 DEF Answered
<1>4. \A ask, id, n : Pending(ask, inbox, id, n) => Pending(ask, box2, id, n)
  BY <1>1, <1>3, LeftKeeps
<1>5. /\ \A ask : Single(ask, inbox) => Single(ask, box2)
      /\ \A old, id, n, s : Overtaken(old, inbox, id, n, s) /\ ~Reported(inbox, n, "change", s, 1)
                               => Overtaken(old, box2, id, n, s)
  BY <1>1, LeftKeeps
<1>6. \A n, name, s : (\E i \in DOMAIN inbox : Reported(inbox, n, name, s, i)) /\ ~Reported(inbox, n, name, s, 1)
                               => \E i \in DOMAIN box2 : Reported(box2, n, name, s, i)
  BY <1>1, LeftKeeps
<1>7. /\ Single(asking, box2) /\ ~late
      /\ \A n \in Nodes : selection[n] # 0 => Pending(asking, box2, selection[n], n)
      /\ \A id \in spoiled \cup outdated : \E n \in Nodes : Pending(asking, box2, id, n)
      /\ \A n \in Nodes : selection[n] # 0 /\ selection[n] \in spoiled
                                /\ ~Reported(inbox, n, "change", shown[n], 1) =>
                                Overtaken(outdated, box2, selection[n], n, shown[n])
  BY <1>2, <1>4, <1>5 DEF Selecting
<1>8. /\ \A n \in Nodes : picking[n] => selection[n] # 0
      /\ \A n \in Nodes : shown[n] = None => selection[n] = 0
      /\ \A n \in Nodes : busy[n] /\ ~Reported(inbox, n, "browse", shown[n], 1) =>
                                selection[n] # 0 \/ \E i \in DOMAIN box2 : Reported(box2, n, "browse", shown[n], i)
  BY <1>2, <1>6 DEF Picks
<1> QED  BY <1>7, <1>8 DEF box2

LEMMA UnheardInv ==
  ASSUME Inv, Unheard
  PROVE  Inv'
<1> DEFINE e == inbox[1]
<1>1. /\ Take /\ Head(inbox).name # "answer" /\ ~Heard(Head(inbox))
      /\ UNCHANGED <<children, value, picking, reset, place, holds, waiting, selection, outdated,
                     root, shown, below, content, busy, asking, sent, reached, raced, spoiled, late>>
  BY DEF Unheard, sdk, shell
<1>2. Typing /\ Trees /\ Hearing /\ Picks /\ Selecting /\ Numbered /\ InOrderSent
  BY DEF Inv
<1>3. /\ inbox' \in Seq(Messages) /\ Len(inbox') <= MaxInbox
      /\ Left(inbox', inbox)
      /\ Head(inbox) = e /\ e \in Messages
      /\ \A i \in DOMAIN inbox' : inbox'[i].name # "answer" => IsInjective(inbox'[i].order)
  BY <1>1, TakeFacts
<1>4. e.node \in Nodes /\ e.surface \in Surfaces
  BY <1>1, <1>3, ReportFields
<1>5. shown[e.node] # e.surface
  BY <1>1, <1>2, <1>3, <1>4 DEF Heard, Trees
<1>6. \A n, name : ~Reported(inbox, n, name, shown[n], 1)
  BY <1>5 DEF Reported
<1>7. Typing'
  BY <1>1, <1>2, <1>3 DEF Typing, SdkTypes, ShellTypes, BetweenTypes
<1>8. Trees' /\ Numbered' /\ InOrderSent'
  BY <1>1, <1>2, SamePlaces, SameNumbers
<1>9. Hearing'
  <2> SUFFICES ASSUME NEW m \in Nodes, shown'[m] # None, m \notin raced' PROVE Told(m)'
    BY <1>3 DEF Hearing
  <2>1. Told(m)
    BY <1>1, <1>2 DEF Hearing
  <2>2. Changes(m) # {1}
    <3> SUFFICES ASSUME Changes(m) = {1} PROVE FALSE
      OBVIOUS
    <3>1. Tells(m, 1) /\ e.node = m
      <4>1. 1 \in Changes(m)
        OBVIOUS
      <4> QED  BY <2>1, <4>1 DEF Told, Changes
    <3> QED  BY <1>5, <3>1 DEF Tells
  <2> QED  BY <1>1, <1>3, <2>1, <2>2, TakenTold
<1>10. /\ Single(asking, inbox')
       /\ \A n \in Nodes : selection[n] # 0 => Pending(asking, inbox', selection[n], n)
       /\ \A id \in spoiled \cup outdated : \E n \in Nodes : Pending(asking, inbox', id, n)
       /\ \A n \in Nodes : selection[n] # 0 /\ selection[n] \in spoiled
                                /\ ~Reported(inbox, n, "change", shown[n], 1) =>
                                Overtaken(outdated, inbox', selection[n], n, shown[n])
       /\ ~late
       /\ \A n \in Nodes : picking[n] => selection[n] # 0
       /\ \A n \in Nodes : shown[n] = None => selection[n] = 0
       /\ \A n \in Nodes : busy[n] /\ ~Reported(inbox, n, "browse", shown[n], 1) =>
                                selection[n] # 0 \/ \E i \in DOMAIN inbox' : Reported(inbox', n, "browse", shown[n], i)
  BY <1>1, TakeKeeps
<1>11. Picks' /\ Selecting'
  BY <1>1, <1>6, <1>10 DEF Picks, Selecting
<1> QED  BY <1>7, <1>8, <1>9, <1>11 DEF Inv

LEMMA HearChangeInv ==
  ASSUME Inv, HearChange
  PROVE  Inv'
<1> DEFINE e == inbox[1]
<1>1. /\ Take /\ Head(inbox).name = "change" /\ Heard(Head(inbox))
      /\ value' = [value EXCEPT ![Head(inbox).node] = Head(inbox).value]
      /\ outdated' = outdated \cup Waits({Head(inbox).node})
      /\ UNCHANGED <<children, picking, reset, place, holds, waiting, selection,
                     root, shown, below, content, busy, asking, sent, reached, raced, spoiled, late>>
  BY DEF HearChange, Outdate, shell
<1>2. Typing /\ Trees /\ Hearing /\ Picks /\ Selecting /\ Numbered /\ InOrderSent
  BY DEF Inv
<1>3. /\ inbox' \in Seq(Messages) /\ Len(inbox') <= MaxInbox
      /\ Left(inbox', inbox)
      /\ Head(inbox) = e /\ e \in Messages /\ 1 \in DOMAIN inbox
      /\ \A i \in DOMAIN inbox' : inbox'[i].name # "answer" => IsInjective(inbox'[i].order)
  BY <1>1, TakeFacts
<1>4. e.node \in Nodes /\ e.surface \in Surfaces /\ e.value \in Values /\ e.name = "change"
  BY <1>1, <1>3, ReportFields
<1>5. shown[e.node] = e.surface
  BY <1>1, <1>2, <1>3, <1>4 DEF Heard, Trees
<1>6. Typing'
  <2>1. value' \in [Nodes -> Values]
    BY <1>1, <1>2, <1>3, <1>4 DEF Typing, SdkTypes
  <2>2. outdated' \in SUBSET (1..MaxSelections)
    <3>1. Waits({e.node}) \in SUBSET (1..MaxSelections)
      BY <1>2, <1>4, WaitsTypes
    <3> QED  BY <1>1, <1>2, <1>3, <3>1 DEF Typing, SdkTypes
  <2> QED  BY <1>1, <1>2, <1>3, <2>1, <2>2 DEF Typing, SdkTypes, ShellTypes, BetweenTypes
<1>7. Trees' /\ Numbered' /\ InOrderSent'
  BY <1>1, <1>2, SamePlaces, SameNumbers
<1>8. Hearing'
  <2> SUFFICES ASSUME NEW m \in Nodes, shown'[m] # None, m \notin raced' PROVE Told(m)'
    BY <1>3 DEF Hearing
  <2>1. Told(m) /\ shown[m] # None
    BY <1>1, <1>2 DEF Hearing
  <2>2. 1 \notin Changes(m) => value'[m] = value[m]
    <3> SUFFICES ASSUME 1 \notin Changes(m) PROVE value'[m] = value[m]
      OBVIOUS
    <3>1. e.node # m
      BY <1>3, <1>4 DEF Changes
    <3> QED  BY <1>1, <1>2, <1>3, <3>1 DEF Typing, SdkTypes
  <2>3. Changes(m) = {1} => value'[m] = content[m] /\ children'[m] = below[m]
    <3> SUFFICES ASSUME Changes(m) = {1} PROVE value'[m] = content[m] /\ children'[m] = below[m]
      OBVIOUS
    <3>0. 1 \in Changes(m)
      OBVIOUS
    <3>1. Tells(m, 1) /\ e.node = m
      BY <2>1, <3>0 DEF Told, Changes
    <3>2. value'[m] = content[m] /\ m \in Leaves
      BY <1>1, <1>2, <1>3, <1>4, <3>1, TreeAssumption DEF Typing, SdkTypes, Tells
    <3>3. below[m] = <<>> /\ Len(children[m]) = Len(below[m]) /\ children[m] \in Seq(Nodes)
      BY <1>2, <2>1, <3>2 DEF Trees, Planted, Typing, SdkTypes, Kids
    <3>4. children[m] = <<>>
      BY <3>3
    <3> QED  BY <1>1, <3>2, <3>3, <3>4
  <2> QED  BY <1>1, <1>3, <2>1, <2>2, <2>3, TakenTold
<1>9. /\ Single(asking, inbox')
      /\ \A n \in Nodes : selection[n] # 0 => Pending(asking, inbox', selection[n], n)
      /\ \A id \in spoiled \cup outdated : \E n \in Nodes : Pending(asking, inbox', id, n)
      /\ \A n \in Nodes : selection[n] # 0 /\ selection[n] \in spoiled
                                /\ ~Reported(inbox, n, "change", shown[n], 1) =>
                                Overtaken(outdated, inbox', selection[n], n, shown[n])
      /\ ~late
      /\ \A n \in Nodes : picking[n] => selection[n] # 0
      /\ \A n \in Nodes : shown[n] = None => selection[n] = 0
      /\ \A n \in Nodes : busy[n] /\ ~Reported(inbox, n, "browse", shown[n], 1) =>
                                selection[n] # 0 \/ \E i \in DOMAIN inbox' : Reported(inbox', n, "browse", shown[n], i)
  BY <1>1, TakeKeeps
<1>10. \A n : ~Reported(inbox, n, "browse", shown[n], 1)
  BY <1>4 DEF Reported
<1>11. Picks'
  BY <1>1, <1>9, <1>10 DEF Picks
<1>12. Selecting'
  <2>1. \A id \in outdated' : \E n \in Nodes : Pending(asking, inbox', id, n)
    BY <1>1, <1>3, <1>4, <1>9 DEF Waits
  <2>2. ASSUME NEW n \in Nodes, selection[n] # 0, selection[n] \in spoiled
        PROVE  Overtaken(outdated', inbox', selection[n], n, shown[n])
    <3>1. CASE e.node = n
      <4>1. selection[n] \in outdated'
        BY <1>1, <1>3, <2>2, <3>1 DEF Waits
      <4> QED  BY <4>1 DEF Overtaken
    <3>2. CASE e.node # n
      <4>1. Overtaken(outdated, inbox', selection[n], n, shown[n])
        BY <1>9, <2>2, <3>2 DEF Reported
      <4> QED  BY <1>1, <4>1 DEF Overtaken
    <3> QED  BY <3>1, <3>2
  <2> QED  BY <1>1, <1>9, <2>1, <2>2 DEF Selecting
<1> QED  BY <1>6, <1>7, <1>8, <1>11, <1>12 DEF Inv

\* A list that names each member once is one of the sequences of its members.
LEMMA ListOnce ==
  ASSUME NEW S, NEW s \in Seq(S), \A i, j \in DOMAIN s : s[i] = s[j] => i = j
  PROVE  /\ IsFiniteSet(ToSet(s)) /\ Len(s) = Cardinality(ToSet(s))
         /\ s \in SetToSeqs(ToSet(s))
<1> DEFINE T == ToSet(s)
           L == Len(s)
           D == 1..L
<1>1. L \in Nat /\ DOMAIN s = D
  OBVIOUS
<1>2. IsFiniteSet(D) /\ Cardinality(D) = L
  <2> HIDE DEF L
  <2> QED  BY <1>1, FS_Interval
<1>3. s \in [D -> T]
  BY <1>1 DEF ToSet
<1> HIDE DEF D
<1>4. s \in Surjection(D, T)
  BY <1>1, <1>3 DEF Surjection, ToSet
<1>5. s \in Injection(D, T)
  BY <1>1, <1>3 DEF Injection, IsInjective
<1> HIDE DEF T
<1>6. IsFiniteSet(T) /\ Cardinality(T) = L
  BY <1>2, <1>4, <1>5, FS_Surjection
<1>7. s \in SetToSeqs(T)
  BY <1>1, <1>3, <1>6 DEF SetToSeqs, D
<1> QED  BY <1>6, <1>7 DEF T, L

\* What InOrder computes: the members an event names, each once, and all that the event
\* names where it names just the members.
LEMMA InOrderRight ==
  ASSUME NEW order \in Seq(Nodes), \A i, j \in DOMAIN order : order[i] = order[j] => i = j,
         NEW members \in SUBSET Nodes
  PROVE  /\ InOrder(order, members) \in Seq(Nodes)
         /\ ToSet(InOrder(order, members)) = members \cap ToSet(order)
         /\ Len(InOrder(order, members)) = Cardinality(members \cap ToSet(order))
         /\ \A i, j \in DOMAIN InOrder(order, members) :
               InOrder(order, members)[i] = InOrder(order, members)[j] => i = j
         /\ ToSet(order) = members => InOrder(order, members) = order
<1> DEFINE named == members \cap ToSet(order)
           key == [m \in named |-> CHOOSE i \in DOMAIN order : order[i] = m]
           s == InOrder(order, members)
<1>1. s = ByKey(named, key)
  BY DEF InOrder
<1>2. \A m \in named : key[m] \in DOMAIN order /\ order[key[m]] = m
  BY DEF ToSet
<1>3. IsFiniteSet(named) /\ named \in SUBSET Nodes
  <2>1. IsFiniteSet(Nodes)
    BY TreeAssumption
  <2> QED  BY <2>1, FS_Subset
<1>4. key \in [named -> Int]
  <2>1. \A m \in named : key[m] \in Int
    <3>1. DOMAIN order \subseteq Int
      OBVIOUS
    <3> HIDE DEF key, named
    <3> QED  BY <1>2, <3>1
  <2>2. key = [m \in named |-> key[m]]
    OBVIOUS
  <2> HIDE DEF key
  <2> QED  BY <2>1, <2>2
<1> HIDE DEF key, s, named
<1>5. \A x, y \in named : key[x] = key[y] => x = y
  BY <1>2
<1>6. s \in SetToSeqs(named) /\ Rising(s, key)
  BY <1>1, <1>3, <1>4, <1>5, ByKeyRight
<1>7. /\ s \in Seq(named) /\ Len(s) = Cardinality(named)
      /\ \A i, j \in DOMAIN s : s[i] = s[j] => i = j
      /\ ToSet(s) = named
  BY <1>3, <1>6, SeqOfSet
<1>8. s \in Seq(Nodes)
  BY <1>3, <1>7
<1>9. ToSet(order) = members => s = order
  <2> SUFFICES ASSUME ToSet(order) = members PROVE s = order
    OBVIOUS
  <2>1. named = ToSet(order)
    BY DEF named
  <2>2. order \in SetToSeqs(named)
    BY <2>1, ListOnce
  <2>3. Rising(order, key)
    <3> SUFFICES ASSUME NEW i \in DOMAIN order, NEW j \in DOMAIN order, i < j
                 PROVE  key[order[i]] < key[order[j]]
      BY DEF Rising
    <3>1. order[i] \in named /\ order[j] \in named
      BY <2>1 DEF ToSet
    <3>2. key[order[i]] = i /\ key[order[j]] = j
      BY <1>2, <3>1
    <3> QED  BY <3>2
  <2> QED  BY <1>3, <1>4, <1>6, <2>2, <2>3, RisingOnce
<1> QED  BY <1>7, <1>8, <1>9 DEF s, named

\* Another order of the children of a node, of the nodes it has.
LEMMA ReorderPlants ==
  ASSUME NEW kids \in Kids, NEW low, NEW at, Planted(kids, low, at), NEW kids2,
         \A m \in Nodes : ToSet(kids2[m]) = ToSet(kids[m]) /\ Len(kids2[m]) = Len(kids[m])
  PROVE  Planted(kids2, low, at)
<1>1. Grounded(kids2)
  BY GroundedFewer DEF Planted
<1> QED  BY <1>1 DEF Planted

LEMMA HearMoveInv ==
  ASSUME Inv, HearMove
  PROVE  Inv'
<1> DEFINE e == inbox[1]
           ordered == InOrder(e.order, ToSet(children[e.node]))
           low == below[e.node]
           kids2 == children'
<1>1. /\ Take /\ Head(inbox).name = "move" /\ Heard(Head(inbox))
      /\ value' = [value EXCEPT ![Head(inbox).node] = Head(inbox).value]
      /\ LET h == Head(inbox)
             o == InOrder(h.order, ToSet(children[h.node]))
         IN  children' = IF Len(o) = Len(children[h.node]) THEN [children EXCEPT ![h.node] = o] ELSE children
      /\ UNCHANGED <<picking, reset, place, holds, waiting, selection, outdated,
                     root, shown, below, content, busy, asking, sent, reached, raced, spoiled, late>>
  BY DEF HearMove, shell
<1>2. Typing /\ Trees /\ Hearing /\ Picks /\ Selecting /\ Numbered /\ InOrderSent
  BY DEF Inv
<1>3. /\ inbox' \in Seq(Messages) /\ Len(inbox') <= MaxInbox
      /\ Left(inbox', inbox)
      /\ Head(inbox) = e /\ e \in Messages /\ 1 \in DOMAIN inbox
      /\ \A i \in DOMAIN inbox' : inbox'[i].name # "answer" => IsInjective(inbox'[i].order)
  BY <1>1, TakeFacts
<1>4. e.node \in Nodes /\ e.surface \in Surfaces /\ e.value \in Values /\ e.name = "move" /\ e.order \in Seq(Nodes)
  BY <1>1, <1>3, ReportFields
<1>5. shown[e.node] = e.surface /\ shown[e.node] # None
  BY <1>1, <1>2, <1>3, <1>4, TreeAssumption DEF Heard, Trees
<1>6. /\ children \in Kids /\ below \in Kids /\ value \in [Nodes -> Values]
      /\ Planted(children, below, shown)
  BY <1>2 DEF Typing, SdkTypes, ShellTypes, Trees
<1>7. \A i, j \in DOMAIN e.order : e.order[i] = e.order[j] => i = j
  BY <1>2, <1>3, <1>4 DEF Hearing, IsInjective
<1>8. ToSet(children[e.node]) \in SUBSET Nodes
  BY <1>4, <1>6, KidsIn
<1>9. /\ ordered \in Seq(Nodes)
      /\ ToSet(ordered) = ToSet(children[e.node]) \cap ToSet(e.order)
      /\ Len(ordered) = Cardinality(ToSet(children[e.node]) \cap ToSet(e.order))
      /\ ToSet(e.order) = ToSet(children[e.node]) => ordered = e.order
  BY <1>4, <1>7, <1>8, InOrderRight
<1>10. children' = IF Len(ordered) = Len(children[e.node]) THEN [children EXCEPT ![e.node] = ordered] ELSE children
  BY <1>1, <1>3
<1>11. low \in Seq(Nodes) /\ ToSet(low) = ToSet(children[e.node]) /\ Len(low) = Len(children[e.node])
       /\ \A i, j \in DOMAIN low : low[i] = low[j] => i = j
  BY <1>4, <1>5, <1>6 DEF Planted, Kids, OneEach
<1>12. IsFiniteSet(ToSet(low)) /\ Len(low) = Cardinality(ToSet(low))
  BY <1>11, ListOnce
<1> HIDE DEF ordered, low, e
<1>13. Len(ordered) = Len(children[e.node]) => ToSet(ordered) = ToSet(children[e.node])
  <2> SUFFICES ASSUME Len(ordered) = Len(children[e.node]) PROVE ToSet(ordered) = ToSet(children[e.node])
    OBVIOUS
  <2> DEFINE all == ToSet(children[e.node])
             named == all \cap ToSet(e.order)
  <2>1. IsFiniteSet(all) /\ Cardinality(all) = Cardinality(named) /\ named \in SUBSET all /\ ToSet(ordered) = named
    BY <1>9, <1>11, <1>12
  <2> HIDE DEF all, named
  <2>2. all = named
    BY <2>1, FS_Subset
  <2> QED  BY <2>1, <2>2 DEF all
<1>14. \A m \in Nodes : m # e.node => children'[m] = children[m] /\ value'[m] = value[m]
  BY <1>1, <1>3, <1>4, <1>6, <1>10 DEF Kids
<1>15. value'[e.node] = e.value
  BY <1>1, <1>3, <1>4, <1>6
<1>16. kids2 \in Kids
  BY <1>4, <1>6, <1>9, <1>10 DEF Kids
<1>17. \A m \in Nodes : ToSet(kids2[m]) = ToSet(children[m]) /\ Len(kids2[m]) = Len(children[m])
  <2>1. ToSet(kids2[e.node]) = ToSet(children[e.node]) /\ Len(kids2[e.node]) = Len(children[e.node])
    BY <1>4, <1>6, <1>10, <1>13 DEF Kids
  <2> QED  BY <1>14, <2>1
<1>18. Trees'
  <2> HIDE DEF kids2
  <2>1. Planted(kids2, below, shown)
    BY <1>6, <1>17, ReorderPlants
  <2> QED  BY <1>1, <1>2, <2>1 DEF Trees, kids2
<1>19. Typing'
  <2>1. value' \in [Nodes -> Values]
    BY <1>1, <1>3, <1>4, <1>6
  <2> QED  BY <1>1, <1>2, <1>3, <1>16, <2>1 DEF Typing, SdkTypes, ShellTypes, BetweenTypes
<1>20. Numbered' /\ InOrderSent'
  BY <1>1, <1>2, SameNumbers
<1>21. Hearing'
  <2> SUFFICES ASSUME NEW m \in Nodes, shown'[m] # None, m \notin raced' PROVE Told(m)'
    BY <1>3 DEF Hearing
  <2>1. Told(m) /\ shown[m] # None
    BY <1>1, <1>2 DEF Hearing
  <2>2. 1 \notin Changes(m) => value'[m] = value[m] /\ children'[m] = children[m]
    <3> SUFFICES ASSUME 1 \notin Changes(m) PROVE value'[m] = value[m] /\ children'[m] = children[m]
      OBVIOUS
    <3>1. e.node # m
      BY <1>3, <1>4 DEF Changes, e
    <3> QED  BY <1>14, <3>1
  <2>3. Changes(m) = {1} => value'[m] = content[m] /\ children'[m] = below[m]
    <3> SUFFICES ASSUME Changes(m) = {1} PROVE value'[m] = content[m] /\ children'[m] = below[m]
      OBVIOUS
    <3>0. 1 \in Changes(m)
      OBVIOUS
    <3>1. Tells(m, 1) /\ e.node = m
      BY <2>1, <3>0 DEF Told, Changes, e
    <3>2. value'[m] = content[m] /\ e.order = low
      BY <1>4, <1>15, <3>1 DEF Tells, e, low
    <3>3. ordered = low
      BY <1>9, <1>11, <3>2
    <3>4. children'[m] = low
      BY <1>4, <1>6, <1>10, <1>11, <3>1, <3>3 DEF Kids
    <3> QED  BY <3>1, <3>2, <3>4 DEF low
  <2> QED  BY <1>1, <1>3, <2>1, <2>2, <2>3, TakenTold
<1>22. /\ Single(asking, inbox')
       /\ \A n \in Nodes : selection[n] # 0 => Pending(asking, inbox', selection[n], n)
       /\ \A id \in spoiled \cup outdated : \E n \in Nodes : Pending(asking, inbox', id, n)
       /\ \A n \in Nodes : selection[n] # 0 /\ selection[n] \in spoiled
                                /\ ~Reported(inbox, n, "change", shown[n], 1) =>
                                Overtaken(outdated, inbox', selection[n], n, shown[n])
       /\ ~late
       /\ \A n \in Nodes : picking[n] => selection[n] # 0
       /\ \A n \in Nodes : shown[n] = None => selection[n] = 0
       /\ \A n \in Nodes : busy[n] /\ ~Reported(inbox, n, "browse", shown[n], 1) =>
                                selection[n] # 0 \/ \E i \in DOMAIN inbox' : Reported(inbox', n, "browse", shown[n], i)
  BY <1>1, TakeKeeps
<1>23. \A n : ~Reported(inbox, n, "browse", shown[n], 1) /\ ~Reported(inbox, n, "change", shown[n], 1)
  BY <1>4 DEF Reported, e
<1>24. Picks' /\ Selecting'
  BY <1>1, <1>22, <1>23 DEF Picks, Selecting
<1> QED  BY <1>18, <1>19, <1>20, <1>21, <1>24 DEF Inv

\* What is asked is new: no part of the system knows it.
LEMMA UnknownFree ==
  ASSUME Inv, NEW id, id = Min((1..MaxSelections + 1) \ Known), id <= MaxSelections
  PROVE  /\ id \in 1..MaxSelections
         /\ \A n \in Nodes : ~Pending(asking, inbox, id, n)
         /\ \A a \in asking : a.id # id
         /\ \A i : ~Answered(inbox, id, i)
         /\ id \notin spoiled \cup outdated
<1> DEFINE free == (1..MaxSelections + 1) \ Known
<1>1. MaxSelections \in Nat
  BY TreeAssumption
<1>2. Typing /\ Selecting
  BY DEF Inv
<1>3. Known \subseteq 1..MaxSelections
  <2>1. Waits(Nodes) \subseteq 1..MaxSelections
    BY <1>2, WaitsTypes
  <2>2. {a.id : a \in asking} \subseteq 1..MaxSelections
    BY <1>2 DEF Typing, BetweenTypes, Selections
  <2>3. ASSUME NEW m \in ToSet(inbox), m.name = "answer" PROVE m.id \in 1..MaxSelections
    <3>1. m \in Messages
      BY <1>2 DEF Typing, BetweenTypes, ToSet
    <3> QED  BY <2>3, <3>1, AnswerFields
  <2> QED  BY <2>1, <2>2, <2>3 DEF Known
<1>4. id \in free
  <2>1. MaxSelections + 1 \in free
    BY <1>1, <1>3
  <2>2. free \in SUBSET Nat /\ free # {}
    BY <1>1, <2>1
  <2> HIDE DEF free
  <2>3. \E x \in free : \A y \in free : x <= y
    BY <2>2, LeastNumber
  <2>4. Min(free) \in free
    BY <2>3 DEF Min
  <2> QED  BY <2>4 DEF free
<1>5. id \in 1..MaxSelections /\ id \notin Known
  BY <1>1, <1>4
<1>6. \A a \in asking : a.id # id
  BY <1>5 DEF Known
<1>7. \A i : ~Answered(inbox, id, i)
  <2> SUFFICES ASSUME NEW i, Answered(inbox, id, i) PROVE FALSE
    OBVIOUS
  <2>1. inbox[i] \in ToSet(inbox) /\ inbox[i].name = "answer" /\ inbox[i].id = id
    BY DEF Answered, ToSet
  <2> QED  BY <1>5, <2>1 DEF Known
<1>8. \A n \in Nodes : ~Pending(asking, inbox, id, n)
  BY <1>6, <1>7 DEF Pending
<1>9. id \notin spoiled \cup outdated
  BY <1>2, <1>8 DEF Selecting
<1> QED  BY <1>5, <1>6, <1>7, <1>8, <1>9

\* One more selector, of a selection no message answers.
Asks(ask2, ask, id, n) == ask2 = ask \cup {[id |-> id, node |-> n]}
Unanswered(ask, box, id) == (\A a \in ask : a.id # id) /\ \A i : ~Answered(box, id, i)

LEMMA AskedKeeps ==
  ASSUME NEW ask, NEW box, Single(ask, box), NEW id, NEW n,
         Unanswered(ask, box, id), NEW ask2, Asks(ask2, ask, id, n)
  PROVE  /\ Single(ask2, box)
         /\ Pending(ask2, box, id, n)
         /\ \A other, m : Pending(ask, box, other, m) => Pending(ask2, box, other, m)
<1>1. \A a \in ask2 : a \in ask \/ a = [id |-> id, node |-> n]
  BY DEF Asks
<1>2. \A a \in ask2 : a \in ask \/ a.id = id
  BY <1>1
<1>3. \A a, b \in ask2 : a.id = b.id => a = b
  BY <1>1 DEF Single, Unanswered
<1>4. \A a \in ask2, i \in DOMAIN box : ~Answered(box, a.id, i)
  BY <1>2 DEF Single, Unanswered
<1>5. Single(ask2, box)
  BY <1>3, <1>4 DEF Single
<1> QED  BY <1>5 DEF Pending, Asks

LEMMA HearBrowseInv ==
  ASSUME Inv, HearBrowse
  PROVE  Inv'
<1> DEFINE e == inbox[1]
           n == e.node
           box2 == inbox'
<1>1. /\ Take /\ Head(inbox).name = "browse" /\ Heard(Head(inbox))
      /\ picking' = [picking EXCEPT ![Head(inbox).node] = TRUE]
      /\ UNCHANGED <<children, value, reset, place, holds, waiting, outdated,
                     root, shown, below, content, busy, sent, reached, raced, spoiled, late>>
  BY DEF HearBrowse, shell
<1>2. Typing /\ Trees /\ Hearing /\ Picks /\ Selecting /\ Numbered /\ InOrderSent
  BY DEF Inv
<1>3. /\ inbox' \in Seq(Messages) /\ Len(inbox') <= MaxInbox
      /\ Left(inbox', inbox)
      /\ Head(inbox) = e /\ e \in Messages /\ 1 \in DOMAIN inbox
      /\ \A i \in DOMAIN inbox' : inbox'[i].name # "answer" => IsInjective(inbox'[i].order)
  BY <1>1, TakeFacts
<1>4. n \in Nodes /\ e.surface \in Surfaces /\ e.name = "browse"
  BY <1>1, <1>3, ReportFields
<1>5. shown[n] = e.surface /\ shown[n] # None
  BY <1>1, <1>2, <1>3, <1>4, TreeAssumption DEF Heard, Trees
<1>6. \/ selection[n] # 0 /\ selection' = selection /\ asking' = asking
      \/ /\ selection[n] = 0
         /\ \E id : /\ id = Min((1..MaxSelections + 1) \ Known) /\ id <= MaxSelections
                    /\ selection' = [selection EXCEPT ![n] = id]
                    /\ asking' = asking \cup {[id |-> id, node |-> n]}
  BY <1>1, <1>3 DEF HearBrowse
<1>7. /\ Single(asking, box2)
      /\ \A m \in Nodes : selection[m] # 0 => Pending(asking, box2, selection[m], m)
      /\ \A id \in spoiled \cup outdated : \E m \in Nodes : Pending(asking, box2, id, m)
      /\ \A m \in Nodes : selection[m] # 0 /\ selection[m] \in spoiled
                                /\ ~Reported(inbox, m, "change", shown[m], 1) =>
                                Overtaken(outdated, box2, selection[m], m, shown[m])
      /\ ~late
      /\ \A m \in Nodes : picking[m] => selection[m] # 0
      /\ \A m \in Nodes : shown[m] = None => selection[m] = 0
      /\ \A m \in Nodes : busy[m] /\ ~Reported(inbox, m, "browse", shown[m], 1) =>
                                selection[m] # 0 \/ \E i \in DOMAIN box2 : Reported(box2, m, "browse", shown[m], i)
  BY <1>1, TakeKeeps
<1>8. picking \in [Nodes -> BOOLEAN] /\ selection \in [Nodes -> 0..MaxSelections] /\ asking \in SUBSET Selections
      /\ MaxSelections \in Nat
  BY <1>2, TreeAssumption DEF Typing, SdkTypes, BetweenTypes
<1>9. \A m : ~Reported(inbox, m, "change", shown[m], 1) /\ (m # n => ~Reported(inbox, m, "browse", shown[m], 1))
  BY <1>4 DEF Reported
<1> HIDE DEF e, n, box2
<1>10. /\ selection' \in [Nodes -> 0..MaxSelections] /\ asking' \in SUBSET Selections
       /\ selection'[n] # 0 /\ \A m \in Nodes : m # n => selection'[m] = selection[m]
       /\ Single(asking', box2)
       /\ \A m \in Nodes : selection'[m] # 0 => Pending(asking', box2, selection'[m], m)
       /\ \A id \in spoiled \cup outdated : \E m \in Nodes : Pending(asking', box2, id, m)
       /\ \A m \in Nodes : selection'[m] # 0 /\ selection'[m] \in spoiled =>
                                Overtaken(outdated, box2, selection'[m], m, shown[m])
  <2>1. CASE selection[n] # 0 /\ selection' = selection /\ asking' = asking
    BY <1>4, <1>7, <1>8, <1>9, <2>1
  <2>2. CASE /\ selection[n] = 0
             /\ \E id : /\ id = Min((1..MaxSelections + 1) \ Known) /\ id <= MaxSelections
                        /\ selection' = [selection EXCEPT ![n] = id]
                        /\ asking' = asking \cup {[id |-> id, node |-> n]}
    <3>1. PICK id : /\ id = Min((1..MaxSelections + 1) \ Known) /\ id <= MaxSelections
                    /\ selection' = [selection EXCEPT ![n] = id]
                    /\ asking' = asking \cup {[id |-> id, node |-> n]}
      BY <2>2
    <3>2. /\ id \in 1..MaxSelections
          /\ \A a \in asking : a.id # id
          /\ \A i : ~Answered(inbox, id, i)
          /\ id \notin spoiled \cup outdated
      BY <3>1, UnknownFree
    <3>3. \A i : ~Answered(box2, id, i)
      BY <1>3, <3>2 DEF Left, Answered, box2
    <3> DEFINE ask2 == asking'
    <3>4. ask2 = asking \cup {[id |-> id, node |-> n]} /\ Asks(ask2, asking, id, n)
      BY <3>1 DEF Asks
    <3>12. Unanswered(asking, box2, id)
      BY <3>2, <3>3 DEF Unanswered
    <3> HIDE DEF ask2
    <3>5. /\ Single(ask2, box2)
          /\ Pending(ask2, box2, id, n)
          /\ \A other, m : Pending(asking, box2, other, m) => Pending(ask2, box2, other, m)
      BY <1>7, <3>4, <3>12, AskedKeeps
    <3>6. selection'[n] = id /\ id # 0 /\ \A m \in Nodes : m # n => selection'[m] = selection[m]
      BY <1>4, <1>8, <3>1, <3>2
    <3>7. selection' \in [Nodes -> 0..MaxSelections]
      BY <1>4, <1>8, <3>1, <3>2
    <3>8. ask2 \in SUBSET Selections
      BY <1>4, <1>8, <3>2, <3>4 DEF Selections
    <3>9. \A m \in Nodes : selection'[m] # 0 => Pending(ask2, box2, selection'[m], m)
      BY <1>7, <3>5, <3>6
    <3>10. \A i \in spoiled \cup outdated : \E m \in Nodes : Pending(ask2, box2, i, m)
      BY <1>7, <3>5
    <3>11. \A m \in Nodes : selection'[m] # 0 /\ selection'[m] \in spoiled =>
                                Overtaken(outdated, box2, selection'[m], m, shown[m])
      BY <1>7, <1>9, <3>2, <3>6
    <3> QED  BY <3>5, <3>6, <3>7, <3>8, <3>9, <3>10, <3>11 DEF ask2
  <2> QED  BY <1>6, <2>1, <2>2
<1>11. Typing'
  <2>1. picking' \in [Nodes -> BOOLEAN]
    BY <1>1, <1>8
  <2> QED  BY <1>1, <1>2, <1>3, <1>10, <2>1 DEF Typing, SdkTypes, ShellTypes, BetweenTypes
<1>12. Trees' /\ Numbered' /\ InOrderSent'
  BY <1>1, <1>2, SamePlaces, SameNumbers
<1>13. Hearing'
  <2> SUFFICES ASSUME NEW m \in Nodes, shown'[m] # None, m \notin raced' PROVE Told(m)'
    BY <1>3 DEF Hearing
  <2>1. Told(m)
    BY <1>1, <1>2 DEF Hearing
  <2>2. Changes(m) # {1}
    <3> SUFFICES ASSUME Changes(m) = {1} PROVE FALSE
      OBVIOUS
    <3>1. 1 \in Changes(m)
      OBVIOUS
    <3> QED  BY <1>4, <3>1 DEF Changes, e
  <2> QED  BY <1>1, <1>3, <2>1, <2>2, TakenTold
<1>14. Picks'
  <2>1. \A m \in Nodes : picking'[m] => selection'[m] # 0
    BY <1>1, <1>3, <1>7, <1>8, <1>10 DEF n
  <2>2. \A m \in Nodes : shown[m] = None => selection'[m] = 0
    BY <1>5, <1>7, <1>10
  <2>3. \A m \in Nodes : busy[m] => selection'[m] # 0
                            \/ \E i \in DOMAIN box2 : Reported(box2, m, "browse", shown[m], i)
    BY <1>7, <1>9, <1>10
  <2> QED  BY <1>1, <2>1, <2>2, <2>3 DEF Picks, box2
<1>15. Selecting'
  BY <1>1, <1>7, <1>10 DEF Selecting, box2
<1> QED  BY <1>11, <1>12, <1>13, <1>14, <1>15 DEF Inv

LEMMA HearAnswerInv ==
  ASSUME Inv, HearAnswer
  PROVE  Inv'
<1> DEFINE e == inbox[1]
           n == e.node
           id == e.id
           box2 == inbox'
           takes == selection[n] = id /\ id \notin outdated /\ e.value # None
<1>1. /\ Take /\ Head(inbox).name = "answer"
      /\ UNCHANGED <<children, reset, place, holds, waiting, root, shown, below, asking, sent, reached>>
  BY DEF HearAnswer
<1>2. Typing /\ Trees /\ Hearing /\ Picks /\ Selecting /\ Numbered /\ InOrderSent
  BY DEF Inv
<1>3. /\ inbox' \in Seq(Messages) /\ Len(inbox') <= MaxInbox
      /\ Left(box2, inbox)
      /\ Head(inbox) = e /\ e \in Messages /\ 1 \in DOMAIN inbox
      /\ \A i \in DOMAIN inbox' : inbox'[i].name # "answer" => IsInjective(inbox'[i].order)
  BY <1>1, TakeFacts
<1>4. n \in Nodes /\ e.value \in Values /\ id \in 1..MaxSelections /\ e.name = "answer"
  BY <1>1, <1>3, AnswerFields
<1>5. /\ spoiled' = spoiled \ {id} /\ outdated' = outdated \ {id}
      /\ \/ selection[n] # id /\ selection' = selection /\ picking' = picking /\ busy' = busy
         \/ /\ selection[n] = id
            /\ selection' = [selection EXCEPT ![n] = 0]
            /\ picking' = [picking EXCEPT ![n] = FALSE]
            /\ busy' = [busy EXCEPT ![n] = FALSE]
  BY <1>3 DEF HearAnswer, Current
<1>6. \/ ~takes /\ value' = value /\ content' = content /\ raced' = raced /\ late' = late
      \/ /\ takes
         /\ value' = [value EXCEPT ![n] = e.value] /\ content' = [content EXCEPT ![n] = e.value]
         /\ raced' = raced \cup Raced({n}) /\ late' = (late \/ id \in spoiled)
  BY <1>3 DEF HearAnswer, Current
<1>7. /\ selection \in [Nodes -> 0..MaxSelections] /\ picking \in [Nodes -> BOOLEAN] /\ busy \in [Nodes -> BOOLEAN]
      /\ value \in [Nodes -> Values] /\ content \in [Nodes -> Values] /\ MaxSelections \in Nat
      /\ raced \in SUBSET Nodes
  BY <1>2, TreeAssumption DEF Typing, SdkTypes, ShellTypes, BetweenTypes
<1>8. Answered(inbox, id, 1) /\ \A i : Answered(inbox, i, 1) => i = id
  BY <1>3, <1>4 DEF Answered
<1>9. \A m, name, s : ~Reported(inbox, m, name, s, 1) \/ name = "answer"
  BY <1>4 DEF Reported
<1> HIDE DEF e, n, id, box2, takes
<1>10. \A m \in Nodes : m # n => selection'[m] = selection[m] /\ picking'[m] = picking[m] /\ busy'[m] = busy[m]
  BY <1>4, <1>5, <1>7
<1>11. selection'[n] # id /\ (selection'[n] # 0 => selection'[n] = selection[n] /\ selection[n] # id)
  BY <1>4, <1>5, <1>7
<1>12. /\ selection' \in [Nodes -> 0..MaxSelections] /\ picking' \in [Nodes -> BOOLEAN]
       /\ busy' \in [Nodes -> BOOLEAN]
  <2>1. CASE selection[n] # id
    BY <1>5, <1>7, <2>1
  <2>2. CASE selection[n] = id
    <3>1. selection' = [selection EXCEPT ![n] = 0] /\ 0 \in 0..MaxSelections
      BY <1>5, <1>7, <2>2
    <3>2. picking' = [picking EXCEPT ![n] = FALSE] /\ busy' = [busy EXCEPT ![n] = FALSE]
      BY <1>5, <2>2
    <3>3. selection' \in [Nodes -> 0..MaxSelections]
      BY <1>4, <1>7, <3>1
    <3>4. picking' \in [Nodes -> BOOLEAN]
      BY <1>4, <1>7, <3>2
    <3>5. busy' \in [Nodes -> BOOLEAN]
      BY <1>4, <1>7, <3>2
    <3> QED  BY <3>3, <3>4, <3>5
  <2> QED  BY <2>1, <2>2
<1>13. value' \in [Nodes -> Values] /\ content' \in [Nodes -> Values] /\ raced' \in SUBSET Nodes
  <2>1. Raced({n}) \in SUBSET Nodes
    BY <1>2, <1>4, RacedTypes
  <2> QED  BY <1>4, <1>6, <1>7, <2>1
<1>14. Single(asking, box2)
  BY <1>2, <1>3, LeftKeeps DEF Selecting
<1>15. \A i, m : Pending(asking, inbox, i, m) /\ ~(i = id /\ m = n) => Pending(asking, box2, i, m)
  <2>1. \A i, m : Pending(asking, inbox, i, m) /\ ~(Answered(inbox, i, 1) /\ inbox[1].node = m)
                     => Pending(asking, box2, i, m)
    BY <1>3, LeftKeeps
  <2> QED  BY <1>8, <2>1 DEF n, e
<1>16. \A old, i, m, s : Overtaken(old, inbox, i, m, s) => Overtaken(old, box2, i, m, s)
  <2>1. \A old, i, m, s : Overtaken(old, inbox, i, m, s) /\ ~Reported(inbox, m, "change", s, 1)
                             => Overtaken(old, box2, i, m, s)
    BY <1>3, LeftKeeps
  <2> QED  BY <1>9, <2>1
<1>17. \A m, s : (\E i \in DOMAIN inbox : Reported(inbox, m, "browse", s, i))
                    => \E i \in DOMAIN box2 : Reported(box2, m, "browse", s, i)
  <2>1. \A m, name, s : (\E i \in DOMAIN inbox : Reported(inbox, m, name, s, i)) /\ ~Reported(inbox, m, name, s, 1)
                           => \E i \in DOMAIN box2 : Reported(box2, m, name, s, i)
    BY <1>3, LeftKeeps
  <2> QED  BY <1>9, <2>1
<1>18. Typing'
  <2>1. spoiled' \in SUBSET (1..MaxSelections) /\ outdated' \in SUBSET (1..MaxSelections) /\ late' \in BOOLEAN
    BY <1>2, <1>5, <1>6 DEF Typing, SdkTypes, BetweenTypes
  <2> QED  BY <1>1, <1>2, <1>3, <1>12, <1>13, <2>1 DEF Typing, SdkTypes, ShellTypes, BetweenTypes
<1>19. Trees' /\ Numbered' /\ InOrderSent'
  BY <1>1, <1>2, SamePlaces, SameNumbers
<1>20. Hearing'
  <2> SUFFICES ASSUME NEW m \in Nodes, shown'[m] # None, m \notin raced' PROVE Told(m)'
    BY <1>3 DEF Hearing
  <2>1. Told(m)
    BY <1>1, <1>2, <1>6 DEF Hearing
  <2>2. 1 \notin Changes(m)
    BY <1>4 DEF Changes, e
  <2>3. CASE m = n /\ takes
    <3>1. m \notin Raced({n})
      BY <1>6, <2>3
    <3>2. ~InFlight(m)
      BY <2>3, <3>1 DEF Raced
    <3>3. Changes(m) = {}
      BY <3>2 DEF Changes, InFlight
    <3>4. Changes(m)' = {}
      <4>1. \A i \in Changes(m)' : i + 1 \in Changes(m)
        BY <1>3 DEF Changes, Left, box2
      <4> QED  BY <3>3, <4>1
    <3>5. value'[m] = content'[m]
      BY <1>4, <1>6, <1>7, <2>3
    <3>6. children'[m] = below'[m]
      BY <1>1, <2>1, <3>3 DEF Told
    <3> QED  BY <3>4, <3>5, <3>6 DEF Told
  <2>4. CASE ~(m = n /\ takes)
    <3>1. value'[m] = value[m] /\ content'[m] = content[m]
      BY <1>4, <1>6, <1>7, <2>4
    <3>2. Changes(m) # {1}
      BY <2>2
    <3> QED  BY <1>1, <1>3, <2>1, <2>2, <3>1, <3>2, TakenTold DEF box2
  <2> QED  BY <2>3, <2>4
<1>21. Picks'
  <2>1. \A m \in Nodes : picking'[m] => selection'[m] # 0
    BY <1>2, <1>4, <1>5, <1>7, <1>10 DEF Picks
  <2>2. \A m \in Nodes : shown[m] = None => selection'[m] = 0
    BY <1>2, <1>4, <1>5, <1>7, <1>10 DEF Picks
  <2>3. \A m \in Nodes : busy'[m] => busy[m] /\ selection'[m] = selection[m]
    BY <1>4, <1>5, <1>7, <1>10
  <2>4. \A m \in Nodes : busy'[m] => selection'[m] # 0
                            \/ \E i \in DOMAIN box2 : Reported(box2, m, "browse", shown[m], i)
    BY <1>2, <1>17, <2>3 DEF Picks
  <2> QED  BY <1>1, <2>1, <2>2, <2>4 DEF Picks, box2
<1>22. Selecting'
  <2>1. \A m \in Nodes : selection'[m] # 0 => selection'[m] = selection[m] /\ ~(selection[m] = id /\ m = n)
    BY <1>10, <1>11
  <2>2. \A m \in Nodes : selection'[m] # 0 => Pending(asking, box2, selection'[m], m)
    BY <1>2, <1>15, <2>1 DEF Selecting
  <2>3. \A i \in spoiled' \cup outdated' : \E m \in Nodes : Pending(asking, box2, i, m)
    BY <1>2, <1>5, <1>15 DEF Selecting
  <2>4. ASSUME NEW m \in Nodes, selection'[m] # 0, selection'[m] \in spoiled'
        PROVE  Overtaken(outdated', box2, selection'[m], m, shown[m])
    <3>1. selection'[m] = selection[m] /\ selection[m] \in spoiled /\ selection[m] # id
      BY <1>5, <2>1, <2>4
    <3>2. Overtaken(outdated, box2, selection[m], m, shown[m])
      BY <1>2, <1>16, <2>4, <3>1 DEF Selecting
    <3> QED  BY <1>5, <3>1, <3>2 DEF Overtaken
  <2>5. ~late'
    <3>1. ~late
      BY <1>2 DEF Selecting
    <3>2. ASSUME takes, id \in spoiled PROVE FALSE
      <4>1. Overtaken(outdated, inbox, id, n, shown[n]) /\ id \notin outdated
        BY <1>2, <1>4, <3>2 DEF Selecting, takes
      <4>2. PICK i \in DOMAIN inbox : /\ Reported(inbox, n, "change", shown[n], i)
                                      /\ \A j \in DOMAIN inbox : Answered(inbox, id, j) => i < j
        BY <4>1 DEF Overtaken
      <4>3. i < 1 /\ i \in Nat \ {0}
        BY <1>3, <1>8, <4>2 DEF Left
      <4> QED  BY <4>3
    <3> QED  BY <1>6, <3>1, <3>2
  <2> QED  BY <1>1, <1>14, <2>2, <2>3, <2>4, <2>5 DEF Selecting, box2
<1> QED  BY <1>18, <1>19, <1>20, <1>21, <1>22 DEF Inv

-----------------------------------------------------------------------------
(***************************************************************************)
(* The invariant holds.                                                    *)
(***************************************************************************)

LEMMA InitInv ==
  ASSUME Init
  PROVE  Inv
<1>1. /\ children = [n \in Nodes |-> <<>>] /\ below = [n \in Nodes |-> <<>>]
      /\ value = [n \in Nodes |-> 1] /\ content = [n \in Nodes |-> 1]
      /\ picking = [n \in Nodes |-> FALSE] /\ reset = [n \in Nodes |-> FALSE] /\ busy = [n \in Nodes |-> FALSE]
      /\ place = [n \in Nodes |-> None] /\ shown = [n \in Nodes |-> None]
      /\ holds = [s \in Surfaces |-> {}] /\ root = [s \in Surfaces |-> None]
      /\ waiting = {} /\ selection = [n \in Nodes |-> 0] /\ outdated = {}
      /\ inbox = <<>> /\ asking = {}
      /\ sent = 0 /\ reached = <<>> /\ raced = {}
      /\ spoiled = {} /\ late = FALSE
  BY DEF Init
<1>2. DOMAIN inbox = {} /\ DOMAIN reached = {} /\ Len(inbox) = 0 /\ Len(reached) = 0
  BY <1>1
<1>3. MaxInbox \in Nat /\ MaxSelections \in Nat /\ Leaves \subseteq Nodes /\ None \notin Surfaces
  BY TreeAssumption
<1>4. Typing
  <2>1. children \in Kids /\ below \in Kids /\ place \in Places /\ shown \in Places
    BY <1>1 DEF Kids, Places
  <2>2. value \in [Nodes -> Values] /\ content \in [Nodes -> Values]
    <3>1. 1 \in Values
      BY DEF Values
    <3> QED  BY <1>1, <3>1
  <2>3. /\ picking \in [Nodes -> BOOLEAN] /\ reset \in [Nodes -> BOOLEAN] /\ busy \in [Nodes -> BOOLEAN]
        /\ selection \in [Nodes -> 0..MaxSelections]
        /\ holds \in [Surfaces -> SUBSET Nodes] /\ root \in [Surfaces -> Nodes \cup {None}]
    BY <1>1, <1>3
  <2>4. inbox \in Seq(Messages) /\ Len(inbox) <= MaxInbox /\ reached \in Seq(Commands)
    BY <1>1, <1>2, <1>3
  <2> QED  BY <1>1, <2>1, <2>2, <2>3, <2>4 DEF Typing, SdkTypes, ShellTypes, BetweenTypes
<1>5. Trees
  <2>1. \A n \in Nodes : children[n] = <<>> /\ below[n] = <<>> /\ shown[n] = None
    BY <1>1
  <2>7. \A n \in Nodes : ToSet(below[n]) = {} /\ ToSet(children[n]) = {}
    BY <2>1, EmptyList
  <2>2. Grounded(children)
    BY <2>1, EmptyList DEF Grounded
  <2>3. OneEach(below, Nodes)
    BY <2>1 DEF OneEach
  <2>4. Planted(children, below, shown)
    <3>1. \A n \in Leaves : below[n] = <<>>
      BY <1>3, <2>1
    <3> QED  BY <2>1, <2>2, <2>3, <2>7, <3>1 DEF Planted
  <2>5. \A s \in Surfaces : Grown(below, shown, root[s], s)
    BY <1>1, <1>3 DEF Grown
  <2>6. place = shown /\ \A s \in Surfaces : holds[s] = {n \in Nodes : shown[n] = s}
    BY <1>1, <1>3
  <2> QED  BY <2>4, <2>5, <2>6 DEF Trees
<1>6. Hearing
  BY <1>1, <1>2 DEF Hearing
<1>7. Picks
  BY <1>1 DEF Picks
<1>8. Selecting
  <2>1. Single(asking, inbox)
    BY <1>1, <1>2 DEF Single
  <2> QED  BY <1>1, <2>1 DEF Selecting
<1>9. Numbered /\ InOrderSent
  <2>1. IsFiniteSet(waiting) /\ Cardinality(waiting) = 0
    BY <1>1, FS_EmptySet
  <2>2. 1..sent = {}
    BY <1>1
  <2> QED  BY <1>1, <1>2, <2>1, <2>2 DEF Numbered, InOrderSent
<1> QED  BY <1>4, <1>5, <1>6, <1>7, <1>8, <1>9 DEF Inv

LEMMA StutterInv ==
  ASSUME Inv, UNCHANGED vars
  PROVE  Inv'
<1>1. UNCHANGED <<children, value, picking, reset, place, holds, waiting, selection, outdated,
                  root, shown, below, content, busy, inbox, asking, sent, reached, raced, spoiled, late>>
  BY DEF vars, sdk, shell, ghosts
<1>2. Typing /\ Trees /\ Hearing /\ Picks /\ Selecting /\ Numbered /\ InOrderSent
  BY DEF Inv
<1>3. Trees' /\ Picks' /\ Selecting' /\ Numbered' /\ InOrderSent'
  BY <1>1, <1>2, SamePlaces, SamePicks, SameSelecting, SameNumbers
<1>4. Typing'
  BY <1>1, <1>2 DEF Typing, SdkTypes, ShellTypes, BetweenTypes
<1>5. Hearing'
  BY <1>1, <1>2 DEF Hearing, Told, Tells, Changes
<1> QED  BY <1>3, <1>4, <1>5 DEF Inv

\* Every step keeps the invariant.
LEMMA NextInv ==
  ASSUME Inv, [Next]_vars
  PROVE  Inv'
<1>1. \A n \in Nodes : \A o \in Offers[n] : o.value \in Values /\ o.kids \in Seq(Nodes)
  BY ValuesGiven
<1>2. CASE \E s \in Surfaces : Unmount(s)
  BY <1>2, UnmountInv
<1>3. CASE \E s \in Surfaces, r \in Roots : Mount(s, r)
  BY <1>3, MountInv
<1>4. CASE \E n \in Nodes : \E v \in Gives[n] : Set(n, v)
  BY <1>4, SetInv, ValuesGiven
<1>5. CASE \E n \in Nodes : \E o \in Offers[n] : Replace(n, o.kids, o.value)
  BY <1>1, <1>5, ReplaceInv
<1>6. CASE \E n \in Nodes : \E o \in Offers[n] : Arrange(n, o.kids, o.value)
  BY <1>1, <1>6, ArrangeInv
<1>7. CASE \E n \in Nodes : Command(n)
  BY <1>7, CommandInv
<1>8. CASE \E n \in Nodes : Browse(n)
  BY <1>8, BrowseInv
<1>9. CASE \E n \in Nodes : MoveTab(n)
  BY <1>9, MoveTabInv
<1>10. CASE \E n \in Nodes : \E v \in Typed : Edit(n, v)
  BY <1>10, EditInv
<1>11. CASE \E a \in asking, v \in Typed \cup {None} : AnswerSelector(a, v)
  BY <1>11, AnswerSelectorInv
<1>12. CASE Unheard \/ HearChange \/ HearMove \/ HearBrowse \/ HearAnswer
  BY <1>12, UnheardInv, HearChangeInv, HearMoveInv, HearBrowseInv, HearAnswerInv
<1>13. CASE UNCHANGED vars
  BY <1>13, StutterInv
<1> QED  BY <1>2, <1>3, <1>4, <1>5, <1>6, <1>7, <1>8, <1>9, <1>10, <1>11, <1>12, <1>13 DEF Next

\* The two sides know the same trees, every report on its way tells what the SDK does not know
\* yet, every selection is pending once, and every command waits for its node or has reached it.
THEOREM TreesInvariance == Spec => []Inv
<1>1. Init => Inv
  BY InitInv
<1>2. Inv /\ [Next]_vars => Inv'
  BY NextInv
<1> QED  BY <1>1, <1>2, PTL DEF Spec

-----------------------------------------------------------------------------
(***************************************************************************)
(* What it says of the program.                                            *)
(***************************************************************************)

LEMMA InvAgree ==
  ASSUME Inv
  PROVE  Agree
<1>1. Typing /\ Trees /\ Hearing /\ Numbered
  BY DEF Inv
<1>2. TypeOK
  <2>1. ASSUME NEW w \in waiting \cup ToSet(reached) PROVE w.number \in 1..sent /\ w.node \in Nodes
    <3>1. CASE w \in waiting
      BY <1>1, <3>1 DEF Numbered, Typing, SdkTypes, Commands
    <3>2. CASE w \in ToSet(reached)
      <4>1. PICK i \in DOMAIN reached : reached[i] = w
        BY <3>2 DEF ToSet
      <4>2. reached[i] \in Commands
        BY <1>1 DEF Typing, BetweenTypes
      <4> QED  BY <1>1, <4>1, <4>2 DEF Numbered, Commands
    <3> QED  BY <2>1, <3>1, <3>2
  <2> QED  BY <1>1, <2>1 DEF TypeOK, Typing, SdkTypes, ShellTypes, BetweenTypes, Kids, Places
<1>3. place = shown
  BY <1>1 DEF Trees
<1>4. ASSUME NEW s \in Surfaces
      PROVE  LET tree == IF root[s] = None THEN {} ELSE Tree(below, root[s])
             IN  holds[s] = tree /\ tree = {n \in Nodes : shown[n] = s}
  <2>1. holds[s] = {n \in Nodes : shown[n] = s} /\ Grown(below, shown, root[s], s)
    BY <1>1 DEF Trees
  <2>2. CASE root[s] = None
    BY <2>1, <2>2 DEF Grown
  <2>3. CASE root[s] # None
    BY <2>1, <2>3 DEF Grown
  <2> QED  BY <2>2, <2>3
<1>5. ASSUME NEW n \in Nodes, shown[n] # None, ~InFlight(n), n \notin raced
      PROVE  value[n] = content[n] /\ children[n] = below[n]
  <2>1. Told(n)
    BY <1>1, <1>5 DEF Hearing
  <2>2. Changes(n) = {}
    BY <1>5 DEF InFlight, Changes
  <2> QED  BY <2>1, <2>2 DEF Told
<1> QED  BY <1>2, <1>3, <1>4, <1>5 DEF Agree

LEMMA InvCommandsReach ==
  ASSUME Inv
  PROVE  CommandsReach
<1>1. Trees /\ Numbered /\ InOrderSent
  BY DEF Inv
<1>2. \A w \in waiting : place[w.node] = None
  BY <1>1 DEF Trees, Numbered
<1>3. waiting \cap ToSet(reached) = {}
  BY <1>1 DEF Numbered, ToSet
<1>4. {w.number : w \in waiting \cup ToSet(reached)} = 1..sent
  <2>1. ASSUME NEW w \in waiting \cup ToSet(reached) PROVE w.number \in 1..sent
    BY <1>1 DEF Numbered, ToSet
  <2>2. ASSUME NEW k \in 1..sent PROVE \E w \in waiting \cup ToSet(reached) : w.number = k
    <3>1. CASE \E w \in waiting : w.number = k
      BY <3>1
    <3>2. CASE \E i \in DOMAIN reached : reached[i].number = k
      <4>1. PICK i \in DOMAIN reached : reached[i].number = k
        BY <3>2
      <4>2. reached[i] \in ToSet(reached)
        BY DEF ToSet
      <4> QED  BY <4>1, <4>2
    <3> QED  BY <1>1, <3>1, <3>2 DEF Numbered
  <2> QED  BY <2>1, <2>2
<1> QED  BY <1>1, <1>2, <1>3, <1>4 DEF CommandsReach, Numbered, InOrderSent

LEMMA InvChoicesReal ==
  ASSUME Inv
  PROVE  ChoicesReal
<1>1. Picks /\ Selecting
  BY DEF Inv
<1>2. PickingReal
  BY <1>1 DEF Picks, PickingReal, Reported
<1> QED  BY <1>1, <1>2 DEF ChoicesReal, LateChoice, Selecting

\* The SDK and the shell know the same nodes on the same surfaces, those of the one tree each
\* surface shows, and the same value and children of each node no report is on its way from:
\* what ui.lua computes of the nodes that stay and leave is what SurfaceStore does.
THEOREM TreesAgree == Spec => []Agree
<1>1. Inv => Agree
  BY InvAgree
<1> QED  BY <1>1, TreesInvariance, PTL

\* Every command a plugin sends reaches the shell once or waits for a node no surface holds,
\* those of a node in the order they were sent.
THEOREM CommandsArrive == Spec => []CommandsReach
<1>1. Inv => CommandsReach
  BY InvCommandsReach
<1> QED  BY <1>1, TreesInvariance, PTL

\* No browse button stays dead after a remount, a move or a withdrawal, and no choice of a
\* selector sets a value that an edit or the end of its node overtook.
THEOREM ChoicesEndOnce == Spec => []ChoicesReal
<1>1. Inv => ChoicesReal
  BY InvChoicesReal
<1> QED  BY <1>1, TreesInvariance, PTL

\* What a step does to the nodes that stay on a surface when some node gets other children.
LEMMA ReplaceKeeps ==
  ASSUME Inv, NEW n \in Nodes, NEW kids \in Seq(Nodes), NEW v \in Values, Replace(n, kids, v),
         children' # children, NEW m \in Nodes, children'[m] = children[m], shown[m] # None, shown'[m] # None
  PROVE  content'[m] = content[m] /\ busy'[m] = busy[m]
<1> DEFINE made == MadeBy(children, n, kids)
           gone == GoneBy(children, below, n, kids)
           left == Leaving(n, ReachedBy(children, n, kids))
<1>1. /\ children' = [children EXCEPT ![n] = kids]
      /\ Build(place[n], made, gone, left) /\ Fill(made, gone, {n}, kids, v)
  BY DEF Replace, NamedBy, KeptBy, MadeBy, ReachedBy, GoneBy, CarriedBy, Kept
<1>2. \A k \in made : shown[k] = None
  BY ReplaceInv
<1>3. children \in Kids /\ busy \in [Nodes -> BOOLEAN]
  BY DEF Inv, Typing, SdkTypes, ShellTypes
<1> HIDE DEF made, gone, left
<1>4. m # n
  <2> SUFFICES ASSUME m = n PROVE children' = children
    OBVIOUS
  <2>1. kids = children[n]
    BY <1>1, <1>3 DEF Kids
  <2> QED  BY <1>1, <1>3, <2>1 DEF Kids
<1>5. m \notin made
  BY <1>2
<1>6. m \notin gone
  BY <1>1, <1>5 DEF Build
<1>7. content'[m] = content[m]
  BY <1>1, <1>4, <1>5, <1>6 DEF Fill
<1>8. busy'[m] = (busy[m] /\ m \notin gone)
  BY <1>1, <1>5 DEF Build
<1>9. busy[m] \in BOOLEAN
  BY <1>3
<1> QED  BY <1>6, <1>7, <1>8, <1>9

\* Only the actions that give a node children change any.
LEMMA ChildrenChange ==
  ASSUME Inv, [Next]_vars, children' # children
  PROVE  \/ \E n \in Nodes : \E o \in Offers[n] : Replace(n, o.kids, o.value)
         \/ UNCHANGED <<content, busy>>
<1>1. CASE \E s \in Surfaces : Unmount(s)
  BY <1>1 DEF Unmount
<1>2. CASE \E s \in Surfaces, r \in Roots : Mount(s, r)
  BY <1>2 DEF Mount
<1>3. CASE \E n \in Nodes : \E v \in Gives[n] : Set(n, v)
  BY <1>3 DEF Set
<1>4. CASE \E n \in Nodes : \E o \in Offers[n] : Replace(n, o.kids, o.value)
  BY <1>4
<1>5. CASE \E n \in Nodes : \E o \in Offers[n] : Arrange(n, o.kids, o.value)
  BY <1>5 DEF Arrange, shell
<1>6. CASE \E n \in Nodes : Command(n)
  BY <1>6 DEF Command
<1>7. CASE \E n \in Nodes : Browse(n)
  BY <1>7 DEF Browse, Emit, sdk
<1>8. CASE \E n \in Nodes : MoveTab(n)
  BY <1>8 DEF MoveTab, Emit, sdk
<1>9. CASE \E n \in Nodes : \E v \in Typed : Edit(n, v)
  BY <1>9 DEF Edit, Emit, sdk
<1>10. CASE \E a \in asking, v \in Typed \cup {None} : AnswerSelector(a, v)
  BY <1>10 DEF AnswerSelector, sdk
<1>11. CASE Unheard
  BY <1>11 DEF Unheard, sdk
<1>12. CASE HearChange
  BY <1>12 DEF HearChange
<1>13. CASE HearMove
  BY <1>13 DEF HearMove, shell
<1>14. CASE HearBrowse
  BY <1>14 DEF HearBrowse
<1>15. CASE HearAnswer
  BY <1>15 DEF HearAnswer
<1>16. CASE UNCHANGED vars
  BY <1>16 DEF vars, sdk
<1> QED  BY <1>1, <1>2, <1>3, <1>4, <1>5, <1>6, <1>7, <1>8, <1>9, <1>10, <1>11, <1>12, <1>13, <1>14, <1>15,
            <1>16 DEF Next

\* A step delivers one command, or those of the nodes it binds, in their order, or none.
LEMMA StepsInOrder ==
  ASSUME Inv, [Next]_vars
  PROVE  DeliversInOrder
<1>1. reached' = reached => DeliversInOrder
  BY DEF DeliversInOrder
<1>2. \A n \in Nodes : \A o \in Offers[n] : o.value \in Values /\ o.kids \in Seq(Nodes)
  BY ValuesGiven
<1>3. CASE \E s \in Surfaces : Unmount(s)
  BY <1>3, UnmountInv
<1>4. CASE \E s \in Surfaces, r \in Roots : Mount(s, r)
  BY <1>4, MountInv
<1>5. CASE \E n \in Nodes : \E v \in Gives[n] : Set(n, v)
  BY <1>1, <1>5 DEF Set
<1>6. CASE \E n \in Nodes : \E o \in Offers[n] : Replace(n, o.kids, o.value)
  BY <1>2, <1>6, ReplaceInv
<1>7. CASE \E n \in Nodes : \E o \in Offers[n] : Arrange(n, o.kids, o.value)
  BY <1>1, <1>7 DEF Arrange
<1>8. CASE \E n \in Nodes : Command(n)
  <2>1. Inv' /\ \A i, j \in DOMAIN reached' \ DOMAIN reached : i = j
    BY <1>8, CommandInv
  <2>2. DOMAIN reached' \subseteq Nat
    BY <2>1 DEF Inv, Typing, BetweenTypes
  <2> QED  BY <2>1, <2>2 DEF DeliversInOrder
<1>9. CASE \E n \in Nodes : Browse(n)
  BY <1>1, <1>9 DEF Browse, Emit
<1>10. CASE \E n \in Nodes : MoveTab(n)
  BY <1>1, <1>10 DEF MoveTab, Emit
<1>11. CASE \E n \in Nodes : \E v \in Typed : Edit(n, v)
  BY <1>1, <1>11 DEF Edit, Emit
<1>12. CASE \E a \in asking, v \in Typed \cup {None} : AnswerSelector(a, v)
  BY <1>1, <1>12 DEF AnswerSelector
<1>13. CASE Unheard \/ HearChange \/ HearMove \/ HearBrowse \/ HearAnswer
  <2>1. CASE Unheard
    BY <1>1, <2>1 DEF Unheard
  <2>2. CASE HearChange
    BY <1>1, <2>2 DEF HearChange
  <2>3. CASE HearMove
    BY <1>1, <2>3 DEF HearMove
  <2>4. CASE HearBrowse
    BY <1>1, <2>4 DEF HearBrowse
  <2>5. CASE HearAnswer
    BY <1>1, <2>5 DEF HearAnswer
  <2> QED  BY <1>13, <2>1, <2>2, <2>3, <2>4, <2>5
<1>14. CASE UNCHANGED vars
  BY <1>1, <1>14 DEF vars, ghosts
<1> QED  BY <1>3, <1>4, <1>5, <1>6, <1>7, <1>8, <1>9, <1>10, <1>11, <1>12, <1>13, <1>14 DEF Next

\* What a reader typed into a node that stays survives every change of the tree around it, and
\* the commands one mount delivers keep the order in which the plugin sent them.
THEOREM ChangesKeepOrder == Spec => KeptInOrder
<1>1. Inv /\ [Next]_vars =>
         [children' # children =>
            \A n \in Nodes : children'[n] = children[n] /\ shown[n] # None /\ shown'[n] # None
                               => content'[n] = content[n] /\ busy'[n] = busy[n]]_vars
  <2> SUFFICES ASSUME Inv, [Next]_vars, children' # children, NEW n \in Nodes,
                      children'[n] = children[n], shown[n] # None, shown'[n] # None
               PROVE  content'[n] = content[n] /\ busy'[n] = busy[n]
    OBVIOUS
  <2>1. CASE \E m \in Nodes : \E o \in Offers[m] : Replace(m, o.kids, o.value)
    BY <2>1, ValuesGiven, ReplaceKeeps
  <2>2. CASE UNCHANGED <<content, busy>>
    BY <2>2
  <2> QED  BY <2>1, <2>2, ChildrenChange
<1>2. Inv /\ [Next]_vars =>
         [\A i, j \in DOMAIN reached' \ DOMAIN reached :
            i < j => reached'[i].number < reached'[j].number]_vars
  BY StepsInOrder DEF DeliversInOrder
<1> QED  BY <1>1, <1>2, TreesInvariance, PTL DEF Spec, KeptInOrder, KeptAlive, MountsInOrder
=============================================================================
