----------------------------- MODULE SumsProofs -----------------------------
(***************************************************************************)
(* Sums over finite sets, for all functions and sets.  MapThenSumSet is a  *)
(* recursive function on the subsets of its set, which Fold names: its     *)
(* value at a subset does not depend on the set it was made for            *)
(* (FoldsAgree), which gives the recursion of SumOf and, by induction over *)
(* the subsets of a finite set, everything else.                           *)
(***************************************************************************)
EXTENDS Sums, Integers, FiniteSets, FiniteSetTheorems, WellFoundedInduction, TLAPS

\* A set of numbers has a least one.
LEMMA LeastNumber ==
  ASSUME NEW S \in SUBSET Nat, S # {}
  PROVE  \E n \in S : \A m \in S : n <= m
<1> DEFINE Below == {ss \in Nat \X Nat : ss[1] < ss[2]}
<1>1. IsWellFoundedOn(Below, Nat)
  BY NatLessThanWellFounded DEF OpToRel
<1>2. \A m, n \in Nat : m < n => <<m, n>> \in Below
  OBVIOUS
<1> HIDE DEF Below
<1>3. PICK n \in S : \A m \in S : <<m, n>> \notin Below
  BY <1>1, WFMin
<1>4. n \in Nat /\ \A m \in S : m \in Nat /\ ~(m < n)
  BY <1>2, <1>3
<1>5. \A m \in Nat : ~(m < n) => n <= m
  BY <1>4
<1>6. QED
  BY <1>3, <1>4, <1>5

\* Induction over the subsets of a finite set.
LEMMA SubsetInduction ==
  ASSUME NEW S, IsFiniteSet(S), NEW P,
         \A T \in SUBSET S : (\A U \in SUBSET T : U # T => U \in P) => T \in P
  PROVE  \A T \in SUBSET S : T \in P
<1> SUFFICES ASSUME NEW T0 \in SUBSET S, T0 \notin P PROVE FALSE
  OBVIOUS
<1> DEFINE Bad == {T \in SUBSET S : T \notin P}
           Sizes == {Cardinality(T) : T \in Bad}
<1>1. \A T \in SUBSET S : IsFiniteSet(T) /\ Cardinality(T) \in Nat
  BY FS_Subset, FS_CardinalityType
<1>2. Sizes \in SUBSET Nat /\ Sizes # {}
  BY <1>1
<1>3. PICK n \in Sizes : \A m \in Sizes : n <= m
  BY <1>2, LeastNumber
<1>4. PICK T \in Bad : n = Cardinality(T)
  BY <1>3
<1>5. ASSUME NEW U \in SUBSET T, U # T
      PROVE  U \in P
  <2>1. Cardinality(U) < Cardinality(T)
    BY <1>1, <1>4, <1>5, FS_Subset
  <2>2. U \in Bad => n <= Cardinality(U)
    BY <1>3
  <2>3. Cardinality(U) \in Nat /\ Cardinality(T) \in Nat
    BY <1>1, <1>4
  <2>4. QED
    BY <1>4, <2>1, <2>2, <2>3
<1>6. QED
  BY <1>4, <1>5

Some(s) == CHOOSE x \in s : TRUE

\* The recursion behind MapThenSumSet: a function on the subsets of S.
Folding(f, S, g) == g = [s \in SUBSET S |-> IF s = {} THEN 0 ELSE f[Some(s)] + g[s \ {Some(s)}]]
Fold(f, S) == CHOOSE g : Folding(f, S, g)

LEMMA SumIsFold == \A f, S : SumOf(f, S) = Fold(f, S)[S]
BY DEF SumOf, MapThenSumSet, MapThenFoldSet, Fold, Folding, Some

LEMMA SomeElement == \A s : s # {} => Some(s) \in s
BY DEF Some

LEMMA FoldsAgree ==
  ASSUME NEW f, NEW S, NEW T, NEW g, NEW h, IsFiniteSet(S), Folding(f, S, g), Folding(f, T, h),
         NEW w \in SUBSET S, w \in SUBSET T
  PROVE  g[w] = h[w]
<1> DEFINE P == {u \in SUBSET w : g[u] = h[u]}
<1>1. IsFiniteSet(w)
  BY FS_Subset
<1>2. ASSUME NEW u \in SUBSET w, \A v \in SUBSET u : v # u => v \in P
      PROVE  u \in P
  <2>1. CASE u = {}
    BY <2>1 DEF Folding
  <2>2. CASE u # {}
    <3>1. Some(u) \in u
      BY <2>2, SomeElement
    <3>2. u \ {Some(u)} \in P
      BY <1>2, <3>1
    <3>3. u \in SUBSET S /\ u \in SUBSET T
      OBVIOUS
    <3>4. g[u] = f[Some(u)] + g[u \ {Some(u)}] /\ h[u] = f[Some(u)] + h[u \ {Some(u)}]
      BY <2>2, <3>3 DEF Folding
    <3>5. QED
      BY <3>2, <3>4
  <2>3. QED
    BY <2>1, <2>2
<1> HIDE DEF P
<1>3. w \in P
  BY <1>1, <1>2, SubsetInduction
<1>4. QED
  BY <1>3 DEF P

LEMMA FoldExists ==
  ASSUME NEW f, NEW S, IsFiniteSet(S)
  PROVE  Folding(f, S, Fold(f, S))
<1> DEFINE P == {T \in SUBSET S : Folding(f, T, Fold(f, T))}
<1>1. ASSUME NEW T \in SUBSET S, \A U \in SUBSET T : U # T => U \in P
      PROVE  T \in P
  <2> DEFINE Rest(s) == s \ {Some(s)}
             g == [s \in SUBSET T |-> IF s = {} THEN 0 ELSE f[Some(s)] + Fold(f, Rest(s))[Rest(s)]]
  <2>1. ASSUME NEW u \in SUBSET T, u # T
        PROVE  g[u] = Fold(f, u)[u]
    <3>1. Folding(f, u, Fold(f, u))
      BY <1>1, <2>1
    <3>2. CASE u = {}
      BY <3>1, <3>2 DEF Folding
    <3>3. CASE u # {}
      <4>1. Some(u) \in u /\ Rest(u) \in SUBSET u /\ Rest(u) # T
        BY <2>1, <3>3, SomeElement
      <4>2. Folding(f, Rest(u), Fold(f, Rest(u)))
        BY <1>1, <4>1
      <4>3. IsFiniteSet(u)
        BY FS_Subset
      <4>4. Fold(f, u)[Rest(u)] = Fold(f, Rest(u))[Rest(u)]
        BY <3>1, <4>1, <4>2, <4>3, FoldsAgree
      <4>5. Fold(f, u)[u] = f[Some(u)] + Fold(f, u)[Rest(u)]
        BY <3>1, <3>3 DEF Folding
      <4>6. QED
        BY <3>3, <4>4, <4>5
    <3>4. QED
      BY <3>2, <3>3
  <2>2. ASSUME NEW s \in SUBSET T, s # {}
        PROVE  g[Rest(s)] = Fold(f, Rest(s))[Rest(s)]
    BY <2>1, <2>2, SomeElement
  <2>3. g = [s \in SUBSET T |-> IF s = {} THEN 0 ELSE f[Some(s)] + g[Rest(s)]]
    <3> DEFINE h == [s \in SUBSET T |-> IF s = {} THEN 0 ELSE f[Some(s)] + g[Rest(s)]]
    <3>1. \A s \in SUBSET T : g[s] = h[s]
      BY <2>2
    <3>2. QED
      BY <3>1, Zenon
  <2>4. Folding(f, T, g)
    BY <2>3 DEF Folding
  <2>5. Folding(f, T, Fold(f, T))
    BY <2>4 DEF Fold
  <2>6. QED
    BY <2>5
<1> HIDE DEF P
<1>2. S \in P
  BY <1>1, SubsetInduction
<1>3. QED
  BY <1>2 DEF P

\* The sum over no element, and over one more.
LEMMA SumRecursion ==
  ASSUME NEW f, NEW S, IsFiniteSet(S)
  PROVE  SumOf(f, S) = IF S = {} THEN 0 ELSE f[Some(S)] + SumOf(f, S \ {Some(S)})
<1>1. Folding(f, S, Fold(f, S)) /\ SumOf(f, S) = Fold(f, S)[S]
  BY FoldExists, SumIsFold
<1>2. CASE S = {}
  BY <1>1, <1>2 DEF Folding
<1>3. CASE S # {}
  <2> DEFINE T == S \ {Some(S)}
  <2>1. IsFiniteSet(T) /\ T \in SUBSET S
    BY FS_Subset
  <2>2. Folding(f, T, Fold(f, T)) /\ SumOf(f, T) = Fold(f, T)[T]
    BY <2>1, FoldExists, SumIsFold
  <2>3. Fold(f, S)[T] = Fold(f, T)[T]
    BY <1>1, <2>1, <2>2, FoldsAgree
  <2>4. Fold(f, S)[S] = f[Some(S)] + Fold(f, S)[T]
    BY <1>1, <1>3 DEF Folding
  <2>5. QED
    BY <1>1, <1>3, <2>2, <2>3, <2>4
<1>4. QED
  BY <1>2, <1>3

LEMMA SumType ==
  ASSUME NEW f, NEW S, IsFiniteSet(S), \A x \in S : f[x] \in Int
  PROVE  SumOf(f, S) \in Int
<1> DEFINE P == {T \in SUBSET S : SumOf(f, T) \in Int}
<1>1. ASSUME NEW T \in SUBSET S, \A U \in SUBSET T : U # T => U \in P
      PROVE  T \in P
  <2>1. SumOf(f, T) = IF T = {} THEN 0 ELSE f[Some(T)] + SumOf(f, T \ {Some(T)})
    BY FS_Subset, SumRecursion
  <2>2. T # {} => f[Some(T)] \in Int /\ SumOf(f, T \ {Some(T)}) \in Int
    BY <1>1, SomeElement
  <2>3. QED
    BY <2>1, <2>2
<1> HIDE DEF P
<1>2. S \in P
  BY <1>1, SubsetInduction
<1>3. QED
  BY <1>2 DEF P

\* Which element is taken first makes no difference.
LEMMA SumWithout ==
  ASSUME NEW f, NEW S, IsFiniteSet(S), \A x \in S : f[x] \in Int, NEW y \in S
  PROVE  SumOf(f, S) = f[y] + SumOf(f, S \ {y})
<1> DEFINE P == {T \in SUBSET S : \A x \in T : SumOf(f, T) = f[x] + SumOf(f, T \ {x})}
<1>1. ASSUME NEW T \in SUBSET S, \A U \in SUBSET T : U # T => U \in P
      PROVE  T \in P
  <2> SUFFICES ASSUME NEW x \in T PROVE SumOf(f, T) = f[x] + SumOf(f, T \ {x})
    OBVIOUS
  <2> DEFINE z == Some(T)
             R == T \ {x, z}
  <2>1. z \in T /\ SumOf(f, T) = f[z] + SumOf(f, T \ {z})
    BY FS_Subset, SumRecursion, SomeElement
  <2>2. CASE x = z
    BY <2>1, <2>2
  <2>3. CASE x # z
    <3>1. T \ {z} \in P /\ T \ {x} \in P
      BY <1>1, <2>1
    <3>2. SumOf(f, T \ {z}) = f[x] + SumOf(f, (T \ {z}) \ {x}) /\ SumOf(f, T \ {x}) = f[z] + SumOf(f, (T \ {x}) \ {z})
      BY <2>1, <2>3, <3>1
    <3>3. (T \ {z}) \ {x} = R /\ (T \ {x}) \ {z} = R
      OBVIOUS
    <3>4. IsFiniteSet(R) /\ SumOf(f, R) \in Int /\ f[x] \in Int /\ f[z] \in Int
      BY <2>1, FS_Subset, SumType
    <3>5. SumOf(f, T \ {z}) = f[x] + SumOf(f, R) /\ SumOf(f, T \ {x}) = f[z] + SumOf(f, R)
      BY <3>2, <3>3
    <3> HIDE DEF R, z
    <3>6. QED
      BY <2>1, <3>4, <3>5
  <2>4. QED
    BY <2>2, <2>3
<1> HIDE DEF P
<1>2. S \in P
  BY <1>1, SubsetInduction
<1>3. QED
  BY <1>2 DEF P

LEMMA SumWith ==
  ASSUME NEW f, NEW S, NEW y, IsFiniteSet(S), y \notin S, \A x \in S \cup {y} : f[x] \in Int
  PROVE  SumOf(f, S \cup {y}) = f[y] + SumOf(f, S)
<1>1. IsFiniteSet(S \cup {y}) /\ (S \cup {y}) \ {y} = S
  BY FS_AddElement
<1>2. SumOf(f, S \cup {y}) = f[y] + SumOf(f, (S \cup {y}) \ {y})
  BY <1>1, SumWithout
<1>3. QED
  BY <1>1, <1>2

LEMMA SumUnion ==
  ASSUME NEW f, NEW S, NEW T, IsFiniteSet(S), IsFiniteSet(T), S \cap T = {}, \A x \in S \cup T : f[x] \in Int
  PROVE  SumOf(f, S \cup T) = SumOf(f, S) + SumOf(f, T)
<1> DEFINE P == {U \in SUBSET T : SumOf(f, S \cup U) = SumOf(f, S) + SumOf(f, U)}
<1>1. ASSUME NEW U \in SUBSET T, \A V \in SUBSET U : V # U => V \in P
      PROVE  U \in P
  <2>1. CASE U = {}
    <3>1. SumOf(f, {}) = 0
      BY SumRecursion, FS_EmptySet
    <3>2. S \cup U = S /\ SumOf(f, S) \in Int
      BY <2>1, SumType
    <3>3. QED
      BY <2>1, <3>1, <3>2
  <2>2. CASE U # {}
    <3>1. PICK y \in U : TRUE
      BY <2>2
    <3> DEFINE V == U \ {y}
    <3>2. V \in P /\ V \in SUBSET T
      BY <1>1, <3>1
    <3>3. IsFiniteSet(U) /\ IsFiniteSet(V) /\ IsFiniteSet(S \cup V) /\ y \notin S \cup V /\ V \cup {y} = U /\ (S \cup V) \cup {y} = S \cup U
      BY <3>1, FS_Subset, FS_Union
    <3>4. SumOf(f, U) = f[y] + SumOf(f, V) /\ SumOf(f, S \cup U) = f[y] + SumOf(f, S \cup V)
      <4>1. \A x \in V \cup {y} : f[x] \in Int
        OBVIOUS
      <4>2. \A x \in (S \cup V) \cup {y} : f[x] \in Int
        OBVIOUS
      <4> HIDE DEF V
      <4>3. SumOf(f, V \cup {y}) = f[y] + SumOf(f, V)
        BY <3>3, <4>1, SumWith
      <4>4. SumOf(f, (S \cup V) \cup {y}) = f[y] + SumOf(f, S \cup V)
        BY <3>3, <4>2, SumWith
      <4>5. QED
        BY <3>3, <4>3, <4>4
    <3>5. f[y] \in Int /\ SumOf(f, V) \in Int /\ SumOf(f, S) \in Int
      BY <3>2, <3>3, SumType
    <3>6. SumOf(f, S \cup V) = SumOf(f, S) + SumOf(f, V)
      BY <3>2
    <3> HIDE DEF V
    <3>7. QED
      BY <3>4, <3>5, <3>6
  <2>3. QED
    BY <2>1, <2>2
<1> HIDE DEF P
<1>2. T \in P
  BY <1>1, SubsetInduction
<1>3. QED
  BY <1>2 DEF P

\* Where h is v.
Part(h, S, v) == {x \in S : h[x] = v}

\* Summing the parts of a partition of a set is summing the set.
LEMMA SumPartition ==
  ASSUME NEW f, NEW g, NEW h, NEW S, NEW V, IsFiniteSet(S), IsFiniteSet(V), \A x \in S : f[x] \in Int,
         \A x \in S : h[x] \in V, \A v \in V : g[v] = SumOf(f, Part(h, S, v))
  PROVE  SumOf(g, V) = SumOf(f, S)
<1> USE DEF Part
<1> DEFINE Over(W) == {x \in S : h[x] \in W}
           P == {W \in SUBSET V : SumOf(g, W) = SumOf(f, Over(W))}
<1>1. \A v \in V : g[v] \in Int
  <2> SUFFICES ASSUME NEW v \in V PROVE SumOf(f, {x \in S : h[x] = v}) \in Int
    OBVIOUS
  <2> DEFINE A == {x \in S : h[x] = v}
  <2>1. IsFiniteSet(A) /\ \A x \in A : f[x] \in Int
    BY FS_Subset
  <2> HIDE DEF A
  <2>2. SumOf(f, A) \in Int
    BY <2>1, SumType
  <2>3. QED
    BY <2>2 DEF A
<1>2. ASSUME NEW W \in SUBSET V, \A X \in SUBSET W : X # W => X \in P
      PROVE  W \in P
  <2>1. IsFiniteSet(W)
    BY FS_Subset
  <2>2. CASE W = {}
    <3>1. Over(W) = {}
      BY <2>2
    <3>2. SumOf(g, {}) = 0 /\ SumOf(f, {}) = 0
      BY SumRecursion, FS_EmptySet
    <3>3. QED
      BY <2>2, <3>1, <3>2
  <2>3. CASE W # {}
    <3>1. PICK v \in W : TRUE
      BY <2>3
    <3> DEFINE X == W \ {v}
               A == {x \in S : h[x] = v}
    <3>2. X \in P
      BY <1>2, <3>1
    <3>3. SumOf(g, W) = g[v] + SumOf(g, X)
      BY <1>1, <2>1, <3>1, SumWithout
    <3>4. Over(W) = A \cup Over(X) /\ A \cap Over(X) = {}
      BY <3>1
    <3>5. IsFiniteSet(A) /\ IsFiniteSet(Over(X))
      BY FS_Subset
    <3>6. \A x \in A \cup Over(X) : f[x] \in Int
      OBVIOUS
    <3>7. g[v] = SumOf(f, A) /\ SumOf(g, X) = SumOf(f, Over(X))
      BY <3>2
    <3> HIDE DEF A, X, Over
    <3>8. SumOf(f, A \cup Over(X)) = SumOf(f, A) + SumOf(f, Over(X))
      BY <3>4, <3>5, <3>6, SumUnion
    <3>9. QED
      BY <3>3, <3>4, <3>7, <3>8
  <2>4. QED
    BY <2>2, <2>3
<1>3. Over(V) = S
  OBVIOUS
<1> HIDE DEF P, Over, Part
<1>4. V \in P
  BY <1>2, SubsetInduction
<1>5. QED
  BY <1>3, <1>4 DEF P

\* A sum of k numbers up to m is at most m times k.
LEMMA SumBounds ==
  ASSUME NEW f, NEW S, IsFiniteSet(S), NEW m \in Nat, \A x \in S : f[x] \in 0..m
  PROVE  SumOf(f, S) \in Nat /\ SumOf(f, S) <= m * Cardinality(S)
<1> DEFINE P == {T \in SUBSET S : SumOf(f, T) \in Nat /\ SumOf(f, T) <= m * Cardinality(T)}
<1>1. ASSUME NEW T \in SUBSET S, \A U \in SUBSET T : U # T => U \in P
      PROVE  T \in P
  <2>1. IsFiniteSet(T) /\ SumOf(f, T) = IF T = {} THEN 0 ELSE f[Some(T)] + SumOf(f, T \ {Some(T)})
    BY FS_Subset, SumRecursion
  <2>2. CASE T = {}
    <3>1. Cardinality({}) = 0 /\ m * 0 = 0
      BY FS_EmptySet
    <3>2. QED
      BY <2>1, <2>2, <3>1
  <2>3. CASE T # {}
    <3> DEFINE y == Some(T)
               U == T \ {y}
    <3>1. y \in T
      BY <2>3, SomeElement
    <3>2. U \in P /\ IsFiniteSet(U)
      BY <1>1, <2>1, <3>1, FS_Subset
    <3>3. Cardinality(T) = Cardinality(U) + 1 /\ Cardinality(U) \in Nat
      BY <2>1, <3>1, <3>2, FS_RemoveElement, FS_CardinalityType
    <3>4. SumOf(f, T) = f[y] + SumOf(f, U) /\ f[y] \in 0..m
      BY <2>1, <2>3, <3>1
    <3>5. SumOf(f, U) \in Nat /\ SumOf(f, U) <= m * Cardinality(U)
      BY <3>2
    <3> HIDE DEF y, U, P
    <3>6. m * Cardinality(T) = m * Cardinality(U) + m /\ m * Cardinality(U) \in Nat
      BY <3>3
    <3>7. SumOf(f, T) \in Nat /\ SumOf(f, T) <= m * Cardinality(T)
      BY <3>4, <3>5, <3>6
    <3>8. QED
      BY <3>7 DEF P
  <2>4. QED
    BY <2>2, <2>3
<1> HIDE DEF P
<1>2. S \in P
  BY <1>1, SubsetInduction
<1>3. QED
  BY <1>2 DEF P

\* The mean of k numbers up to m is at most m.
LEMMA MeanBounds ==
  ASSUME NEW s \in Nat, NEW k \in Nat \ {0}, NEW m \in Nat, s <= m * k
  PROVE  s \div k \in 0..m
<1> DEFINE q == s \div k
<1>1. q \in Int /\ k * q <= s /\ s < k * q + k
  OBVIOUS
<1> HIDE DEF q
<1>2. 0 <= q
  BY <1>1
<1>3. q <= m
  <2>1. SUFFICES ASSUME q >= m + 1 PROVE FALSE
    BY <1>1
  <2>2. k * q >= k * (m + 1)
    BY <1>1, <2>1
  <2>3. k * (m + 1) = m * k + k
    OBVIOUS
  <2>4. QED
    BY <1>1, <2>2, <2>3
<1>4. QED
  BY <1>1, <1>2, <1>3 DEF q
=============================================================================
