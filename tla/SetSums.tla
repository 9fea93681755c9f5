-------------------------------- MODULE SetSums --------------------------------
(***************************************************************************)
(* Facts about sums over finite sets, and the induction they rest on.      *)
(***************************************************************************)
EXTENDS FiniteSetsExt, FiniteSetTheorems, TLAPS

\* What holds of a set whenever it holds of its strict subsets, holds of every finite set.
\* The property is the set F of the sets that have it.
LEMMA SubsetInduction ==
  ASSUME NEW S, IsFiniteSet(S), NEW F,
         \A T \in SUBSET S : (\A U \in SUBSET T : U # T => U \in F) => T \in F
  PROVE  SUBSET S \subseteq F
  <1> DEFINE B == {T \in SUBSET S : T \notin F}
  <1>1. IsWellFoundedOn(StrictSubsetOrdering(S), FiniteSubsetsOf(S))
    BY FS_StrictSubsetOrderingWellFounded
  <1>2. FiniteSubsetsOf(S) = SUBSET S
    BY FS_FiniteSubsetsOfFinite
  <1>3. ASSUME B # {} PROVE FALSE
    <2>1. B \subseteq FiniteSubsetsOf(S)
      BY <1>2
    <2> HIDE DEF B
    <2>2. PICK T \in B : \A U \in B : ~(<<U, T>> \in StrictSubsetOrdering(S))
      BY <1>1, <1>3, <2>1, WFMin
    <2> USE DEF B
    <2>. QED  BY <2>2 DEF StrictSubsetOrdering
  <1>. QED  BY <1>3

-------------------------------------------------------------------------------
(* The recursion behind MapThenSumSet. *)

Chosen(s) == CHOOSE x \in s : TRUE

\* g sums f over each subset of S, taking the elements in the order of Chosen.
Sums(f, S, g) ==
  g = [s \in SUBSET S |-> IF s = {} THEN 0 ELSE f[Chosen(s)] + g[s \ {Chosen(s)}]]

SumOver(f, S) == (CHOOSE g : Sums(f, S, g))[S]

LEMMA ChosenIn ==
  ASSUME NEW s, s # {}
  PROVE  Chosen(s) \in s
  BY DEF Chosen

LEMMA SumsUnfold ==
  ASSUME NEW f, NEW S, NEW g, Sums(f, S, g), NEW s \in SUBSET S
  PROVE  g[s] = IF s = {} THEN 0 ELSE f[Chosen(s)] + g[s \ {Chosen(s)}]
  BY DEF Sums

\* A sum does not depend on the set it was cut out of.
LEMMA SumsAgree ==
  ASSUME NEW f, NEW S, NEW T \in SUBSET S, IsFiniteSet(S), NEW g, NEW h,
         Sums(f, S, g), Sums(f, T, h)
  PROVE  \A U \in SUBSET T : g[U] = h[U]
  <1> DEFINE F == {U \in SUBSET T : g[U] = h[U]}
  <1>1. ASSUME NEW U \in SUBSET T, \A V \in SUBSET U : V # U => V \in F
        PROVE  U \in F
    <2>1. CASE U = {}
      BY <2>1, SumsUnfold
    <2>2. CASE U # {}
      <3>1. U \ {Chosen(U)} \in F
        BY <1>1, <2>2, ChosenIn
      <3>2. g[U] = f[Chosen(U)] + g[U \ {Chosen(U)}]
        BY <2>2, SumsUnfold
      <3>3. h[U] = f[Chosen(U)] + h[U \ {Chosen(U)}]
        BY <2>2, SumsUnfold
      <3>. QED  BY <3>1, <3>2, <3>3
    <2>. QED  BY <2>1, <2>2
  <1>2. IsFiniteSet(T)
    BY FS_Subset
  <1> HIDE DEF F
  <1>3. SUBSET T \subseteq F
    BY <1>1, <1>2, SubsetInduction
  <1>. QED  BY <1>3 DEF F

LEMMA SumsExist ==
  ASSUME NEW f, NEW S, IsFiniteSet(S)
  PROVE  \E g : Sums(f, S, g)
  <1> DEFINE F == {T \in SUBSET S : \E g : Sums(f, T, g)}
             sum(T) == SumOver(f, T)
  <1>1. ASSUME NEW T \in SUBSET S, \A U \in SUBSET T : U # T => U \in F
        PROVE  T \in F
    <2> DEFINE G == [s \in SUBSET T |->
                       IF s = {} THEN 0 ELSE f[Chosen(s)] + sum(s \ {Chosen(s)})]
    <2>1. ASSUME NEW U \in SUBSET T, U # T PROVE G[U] = sum(U)
      <3>1. PICK g : g = (CHOOSE h : Sums(f, U, h))
        OBVIOUS
      <3>2. Sums(f, U, g)
        BY <1>1, <2>1, <3>1
      <3>3. g[U] = sum(U)
        BY <3>1 DEF SumOver
      <3>4. CASE U = {}
        BY <3>2, <3>3, <3>4, SumsUnfold
      <3>5. CASE U # {}
        <4> DEFINE V == U \ {Chosen(U)}
        <4>1. V \in SUBSET U /\ V # U /\ V \in SUBSET T /\ V # T
          BY <3>5, ChosenIn
        <4>2. PICK h : h = (CHOOSE k : Sums(f, V, k))
          OBVIOUS
        <4>3. Sums(f, V, h) /\ h[V] = sum(V)
          BY <1>1, <4>1, <4>2 DEF SumOver
        <4>4. IsFiniteSet(U)
          BY FS_Subset
        <4>5. g[V] = h[V]
          <5> HIDE DEF V
          <5>1. \A W \in SUBSET V : g[W] = h[W]
            BY <3>2, <4>1, <4>3, <4>4, SumsAgree
          <5>. QED  BY <5>1
        <4>6. g[U] = f[Chosen(U)] + g[V]
          BY <3>2, <3>5, SumsUnfold
        <4>7. G[U] = f[Chosen(U)] + sum(V)
          BY <3>5
        <4>. QED  BY <3>3, <4>3, <4>5, <4>6, <4>7
      <3>. QED  BY <3>4, <3>5
    <2>2. ASSUME NEW s \in SUBSET T, s # {}
          PROVE  G[s \ {Chosen(s)}] = sum(s \ {Chosen(s)})
      BY <2>1, <2>2, ChosenIn
    <2>3. G = [s \in SUBSET T |-> IF s = {} THEN 0 ELSE f[Chosen(s)] + G[s \ {Chosen(s)}]]
      BY <2>2
    <2>. QED  BY <2>3 DEF Sums
  <1> HIDE DEF F
  <1>2. SUBSET S \subseteq F
    BY <1>1, SubsetInduction
  <1>. QED  BY <1>2 DEF F

\* SumOver is a sum, and so is every function that satisfies the recursion.
LEMMA SumOverIs ==
  ASSUME NEW f, NEW S, IsFiniteSet(S), NEW g, Sums(f, S, g)
  PROVE  \A T \in SUBSET S : g[T] = SumOver(f, T)
  <1>1. ASSUME NEW T \in SUBSET S PROVE g[T] = SumOver(f, T)
    <2>1. IsFiniteSet(T)
      BY FS_Subset
    <2>2. PICK h : h = (CHOOSE k : Sums(f, T, k))
      OBVIOUS
    <2>3. h[T] = SumOver(f, T)
      BY <2>2 DEF SumOver
    <2>4. Sums(f, T, h)
      BY <2>1, <2>2, SumsExist
    <2>5. \A U \in SUBSET T : g[U] = h[U]
      BY <2>4, SumsAgree
    <2>. QED  BY <2>3, <2>5
  <1>. QED  BY <1>1

LEMMA SumOverUnfold ==
  ASSUME NEW f, NEW S, IsFiniteSet(S)
  PROVE  SumOver(f, S) = IF S = {} THEN 0 ELSE f[Chosen(S)] + SumOver(f, S \ {Chosen(S)})
  <1>1. PICK g : Sums(f, S, g)
    BY SumsExist
  <1>2. \A T \in SUBSET S : g[T] = SumOver(f, T)
    BY <1>1, SumOverIs
  <1>3. g[S] = IF S = {} THEN 0 ELSE f[Chosen(S)] + g[S \ {Chosen(S)}]
    BY <1>1, SumsUnfold
  <1>. QED  BY <1>2, <1>3

LEMMA SumOverNat ==
  ASSUME NEW S, IsFiniteSet(S), NEW f, \A x \in S : f[x] \in Nat
  PROVE  SumOver(f, S) \in Nat
  <1> DEFINE F == {T \in SUBSET S : SumOver(f, T) \in Nat}
  <1>1. ASSUME NEW T \in SUBSET S, \A U \in SUBSET T : U # T => U \in F
        PROVE  T \in F
    <2>1. IsFiniteSet(T)
      BY FS_Subset
    <2>2. CASE T = {}
      <3>1. SumOver(f, T) = 0
        BY <2>1, <2>2, SumOverUnfold
      <3>. QED  BY <3>1
    <2>3. CASE T # {}
      <3>1. T \ {Chosen(T)} \in F /\ f[Chosen(T)] \in Nat
        BY <1>1, <2>3, ChosenIn
      <3>2. SumOver(f, T) = f[Chosen(T)] + SumOver(f, T \ {Chosen(T)})
        BY <2>1, <2>3, SumOverUnfold
      <3>. QED  BY <3>1, <3>2
    <2>. QED  BY <2>2, <2>3
  <1> HIDE DEF F
  <1>2. SUBSET S \subseteq F
    BY <1>1, SubsetInduction
  <1>. QED  BY <1>2 DEF F

\* Any element may be taken out first: the order of Chosen does not matter.
LEMMA SumOverRemove ==
  ASSUME NEW S, IsFiniteSet(S), NEW f, \A x \in S : f[x] \in Nat, NEW y \in S
  PROVE  SumOver(f, S) = f[y] + SumOver(f, S \ {y})
  <1> DEFINE F == {T \in SUBSET S : \A z \in T : SumOver(f, T) = f[z] + SumOver(f, T \ {z})}
  <1>1. ASSUME NEW T \in SUBSET S, \A U \in SUBSET T : U # T => U \in F
        PROVE  T \in F
    <2>1. ASSUME NEW z \in T PROVE SumOver(f, T) = f[z] + SumOver(f, T \ {z})
      <3> DEFINE x == Chosen(T)
                 r == SumOver(f, (T \ {x}) \ {z})
      <3>1. IsFiniteSet(T) /\ IsFiniteSet(T \ {x}) /\ IsFiniteSet((T \ {x}) \ {z})
        BY FS_Subset
      <3>2. x \in T
        BY <2>1, ChosenIn
      <3>3. SumOver(f, T) = f[x] + SumOver(f, T \ {x})
        BY <2>1, <3>1, SumOverUnfold
      <3> HIDE DEF x
      <3>4. CASE z = x
        BY <3>3, <3>4
      <3>5. CASE z # x
        <4>1. T \ {x} \in F /\ T \ {z} \in F /\ z \in T \ {x} /\ x \in T \ {z}
          BY <1>1, <2>1, <3>2, <3>5
        <4>2. SumOver(f, T \ {x}) = f[z] + SumOver(f, (T \ {x}) \ {z})
          BY <4>1
        <4>3. SumOver(f, T \ {z}) = f[x] + SumOver(f, (T \ {z}) \ {x})
          BY <4>1
        <4>4. (T \ {z}) \ {x} = (T \ {x}) \ {z}
          OBVIOUS
        <4>5. f[x] \in Nat /\ f[z] \in Nat /\ r \in Nat
          BY <2>1, <3>1, <3>2, SumOverNat
        <4>. QED  BY <3>3, <4>2, <4>3, <4>4, <4>5
      <3>. QED  BY <3>4, <3>5
    <2>. QED  BY <2>1
  <1> HIDE DEF F
  <1>2. SUBSET S \subseteq F
    BY <1>1, SubsetInduction
  <1>. QED  BY <1>2 DEF F

LEMMA SumOverAdd ==
  ASSUME NEW S, IsFiniteSet(S), NEW y, y \notin S, NEW f, \A x \in S \cup {y} : f[x] \in Nat
  PROVE  SumOver(f, S \cup {y}) = f[y] + SumOver(f, S)
  <1>1. IsFiniteSet(S \cup {y}) /\ (S \cup {y}) \ {y} = S
    BY FS_AddElement
  <1>. QED  BY <1>1, SumOverRemove

LEMMA SumOverBound ==
  ASSUME NEW S, IsFiniteSet(S), NEW b \in Nat, NEW f, \A x \in S : f[x] \in 0..b
  PROVE  SumOver(f, S) <= b * Cardinality(S)
  <1> DEFINE F == {T \in SUBSET S : SumOver(f, T) <= b * Cardinality(T)}
  <1>1. ASSUME NEW T \in SUBSET S, \A U \in SUBSET T : U # T => U \in F
        PROVE  T \in F
    <2>1. IsFiniteSet(T)
      BY FS_Subset
    <2>2. CASE T = {}
      <3>1. SumOver(f, T) = 0
        BY <2>1, <2>2, SumOverUnfold
      <3>2. Cardinality(T) = 0
        BY <2>2, FS_EmptySet
      <3>. QED  BY <3>1, <3>2
    <2>3. CASE T # {}
      <3> DEFINE U == T \ {Chosen(T)}
                 n == Cardinality(U)
      <3>1. U \in F /\ f[Chosen(T)] \in 0..b
        BY <1>1, <2>3, ChosenIn
      <3>2. SumOver(f, T) = f[Chosen(T)] + SumOver(f, U)
        BY <2>1, <2>3, SumOverUnfold
      <3>3. Cardinality(T) = n + 1 /\ n \in Nat /\ SumOver(f, U) \in Nat
        <4>1. IsFiniteSet(U) /\ Cardinality(U) = Cardinality(T) - 1
          BY <2>1, <2>3, ChosenIn, FS_RemoveElement
        <4>2. Cardinality(U) \in Nat /\ Cardinality(T) \in Nat
          BY <2>1, <4>1, FS_CardinalityType
        <4>3. SumOver(f, U) \in Nat
          BY <4>1, SumOverNat
        <4>. QED  BY <4>1, <4>2, <4>3
      <3>4. b * (n + 1) = b * n + b
        BY <3>3
      <3>5. SumOver(f, U) <= b * n
        BY <3>1
      <3> HIDE DEF U, n
      <3>6. b * n \in Nat
        BY <3>3
      <3>. QED  BY <3>1, <3>2, <3>3, <3>4, <3>5, <3>6
    <2>. QED  BY <2>2, <2>3
  <1> HIDE DEF F
  <1>2. SUBSET S \subseteq F
    BY <1>1, SubsetInduction
  <1>. QED  BY <1>2 DEF F

\* A sum of smaller terms is smaller.
LEMMA SumOverMono ==
  ASSUME NEW S, IsFiniteSet(S), NEW f, NEW g,
         \A x \in S : f[x] \in Nat /\ g[x] \in Nat /\ f[x] <= g[x]
  PROVE  SumOver(f, S) <= SumOver(g, S)
  <1> DEFINE F == {T \in SUBSET S : SumOver(f, T) <= SumOver(g, T)}
  <1>1. ASSUME NEW T \in SUBSET S, \A U \in SUBSET T : U # T => U \in F
        PROVE  T \in F
    <2>1. IsFiniteSet(T)
      BY FS_Subset
    <2>2. CASE T = {}
      <3>1. SumOver(f, T) = 0 /\ SumOver(g, T) = 0
        BY <2>1, <2>2, SumOverUnfold
      <3>. QED  BY <3>1
    <2>3. CASE T # {}
      <3> DEFINE x == Chosen(T)
                 R == T \ {x}
      <3>1. x \in T
        BY <2>3, ChosenIn
      <3>2. R \in F /\ IsFiniteSet(R) /\ R \subseteq S
        BY <1>1, <2>1, <3>1, FS_Subset
      <3>3. SumOver(f, T) = f[x] + SumOver(f, R) /\ SumOver(g, T) = g[x] + SumOver(g, R)
        BY <2>1, <2>3, SumOverUnfold
      <3>4. SumOver(f, R) \in Nat /\ SumOver(g, R) \in Nat
        BY <3>2, SumOverNat
      <3>5. f[x] \in Nat /\ g[x] \in Nat /\ f[x] <= g[x] /\ SumOver(f, R) <= SumOver(g, R)
        BY <3>1, <3>2
      <3>. HIDE DEF x, R
      <3>6. SumOver(f, T) <= SumOver(g, T)
        BY <3>3, <3>4, <3>5
      <3>. QED  BY <3>6
    <2>. QED  BY <2>2, <2>3
  <1>. HIDE DEF F
  <1>2. SUBSET S \subseteq F
    BY <1>1, SubsetInduction
  <1>. QED  BY <1>2 DEF F

\* What a sum gains when one of its terms changes and no other grows.
LEMMA SumOverChange ==
  ASSUME NEW S, IsFiniteSet(S), NEW f, NEW g, \A x \in S : f[x] \in Nat /\ g[x] \in Nat,
         NEW y \in S, \A x \in S \ {y} : g[x] <= f[x]
  PROVE  SumOver(g, S) + f[y] <= SumOver(f, S) + g[y]
  <1> DEFINE R == S \ {y}
  <1>1. IsFiniteSet(R)
    BY FS_Subset
  <1>2. SumOver(f, S) = f[y] + SumOver(f, R) /\ SumOver(g, S) = g[y] + SumOver(g, R)
    BY SumOverRemove
  <1>3. SumOver(f, R) \in Nat /\ SumOver(g, R) \in Nat
    BY <1>1, SumOverNat
  <1>4. SumOver(g, R) <= SumOver(f, R)
    BY <1>1, SumOverMono
  <1>. HIDE DEF R
  <1>5. f[y] \in Nat /\ g[y] \in Nat
    OBVIOUS
  <1>. QED  BY <1>2, <1>3, <1>4, <1>5

\* A sum with a term of its own bound.
LEMMA SumOverBoundBut ==
  ASSUME NEW S, IsFiniteSet(S), NEW b \in Nat, NEW f, \A x \in S : f[x] \in 0..b, NEW y \in S
  PROVE  SumOver(f, S) + b <= f[y] + b * Cardinality(S)
  <1> DEFINE R == S \ {y}
             k == Cardinality(R)
  <1>1. IsFiniteSet(R) /\ k \in Nat /\ Cardinality(S) = k + 1
    BY FS_RemoveElement, FS_CardinalityType, FS_Subset
  <1>2. SumOver(f, S) = f[y] + SumOver(f, R) /\ SumOver(f, R) \in Nat
    BY <1>1, SumOverRemove, SumOverNat
  <1>3. SumOver(f, R) <= b * k
    BY <1>1, SumOverBound
  <1>. HIDE DEF R, k
  <1>4. b * (k + 1) = b * k + b /\ b * k \in Nat /\ f[y] \in Nat
    BY <1>1
  <1>. QED  BY <1>1, <1>2, <1>3, <1>4

LEMMA MapThenSumSetIs ==
  ASSUME NEW f, NEW S, IsFiniteSet(S)
  PROVE  MapThenSumSet(LAMBDA x : f[x], S) = SumOver(f, S)
  BY DEF MapThenSumSet, MapThenFoldSet, SumOver, Sums, Chosen
===============================================================================
