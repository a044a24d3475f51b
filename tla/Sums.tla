-------------------------------- MODULE Sums --------------------------------
(***************************************************************************)
(* The sum of a function over a finite set, as the community modules       *)
(* compute it: the recursion they write has a solution, and only one, so   *)
(* the order in which elements are chosen does not matter.  Each lemma     *)
(* about every finite set is proved from its smallest counterexample.      *)
(***************************************************************************)
EXTENDS LeastElement, FiniteSetTheorems

Sum(f, S) == MapThenSumSet(LAMBDA x : f[x], S)

Pick(S) == CHOOSE x \in S : TRUE

\* g sums f over each of the sets in D.
SumsOver(f, D, g) ==
    g = [T \in D |-> IF T = {} THEN 0 ELSE f[Pick(T)] + g[T \ {Pick(T)}]]

LEMMA SumUnfolds ==
    ASSUME NEW f, NEW S
    PROVE  Sum(f, S) = (CHOOSE g : SumsOver(f, SUBSET S, g))[S]
  BY DEF Sum, MapThenSumSet, MapThenFoldSet, SumsOver, Pick

LEMMA SmallerSet ==
    ASSUME NEW T, IsFiniteSet(T), T # {}, NEW x \in T
    PROVE  /\ IsFiniteSet(T \ {x}) /\ Cardinality(T) \in Nat
           /\ Cardinality(T \ {x}) \in Nat /\ Cardinality(T \ {x}) = Cardinality(T) - 1
  BY FS_RemoveElement, FS_CardinalityType

LEMMA PickIn == \A T : T # {} => Pick(T) \in T
  BY DEF Pick

LEMMA SumExists ==
    ASSUME NEW f, NEW S, IsFiniteSet(S)
    PROVE  \E g : SumsOver(f, SUBSET S, g)
  <1> DEFINE Upto(n) == {T \in SUBSET S : Cardinality(T) <= n}
             Bad == {n \in Nat : ~\E g : SumsOver(f, Upto(n), g)}
  <1>1. \A T \in SUBSET S : IsFiniteSet(T) /\ Cardinality(T) \in Nat
                            /\ Cardinality(T) <= Cardinality(S)
    BY FS_Subset, FS_CardinalityType
  <1>2. 0 \notin Bad
    <2> DEFINE g == [T \in Upto(0) |-> 0]
    <2>1. \A T \in Upto(0) : T = {}
      BY <1>1, FS_EmptySet
    <2>2. SumsOver(f, Upto(0), g)
      BY <2>1 DEF SumsOver
    <2> QED
      BY <2>2
  <1>3. ASSUME NEW n \in Nat, n \notin Bad PROVE n + 1 \notin Bad
    <2>1. PICK g : SumsOver(f, Upto(n), g)
      BY <1>3
    <2> DEFINE value(T) == IF T = {} THEN 0 ELSE f[Pick(T)] + g[T \ {Pick(T)}]
               h == [T \in Upto(n + 1) |-> value(T)]
    <2>2. \A T \in Upto(n) : T \in Upto(n + 1) /\ g[T] = value(T)
      <3>1. \A T \in Upto(n) : T \in Upto(n + 1)
        BY <1>1
      <3>2. \A T \in Upto(n) : g[T] = value(T)
        <4> HIDE DEF Upto
        <4> QED
          BY <2>1 DEF SumsOver
      <3> QED
        BY <3>1, <3>2
    <2>3. \A T \in Upto(n) : h[T] = g[T]
      BY <2>2
    <2>4. \A T \in Upto(n + 1) : T # {} => T \ {Pick(T)} \in Upto(n)
      BY <1>1, PickIn, SmallerSet
    <2>5. \A T \in Upto(n + 1) :
             value(T) = IF T = {} THEN 0 ELSE f[Pick(T)] + h[T \ {Pick(T)}]
      BY <2>3, <2>4
    <2>6. h = [T \in Upto(n + 1) |-> IF T = {} THEN 0 ELSE f[Pick(T)] + h[T \ {Pick(T)}]]
      <3> HIDE DEF Upto
      <3> QED
        BY <2>5
    <2> QED
      BY <2>6 DEF SumsOver
  <1>4. Bad = {}
    <2> HIDE DEF Bad
    <2>1. SUFFICES ASSUME Bad # {}, NEW n \in Bad, \A m \in Bad : n <= m PROVE FALSE
      BY NatHasLeast DEF Bad
    <2>2. n \in Nat \ {0}
      BY <1>2, <2>1 DEF Bad
    <2>3. n - 1 \in Nat /\ n - 1 \notin Bad
      BY <2>1, <2>2
    <2> QED
      BY <1>3, <2>2, <2>3
  <1>5. Upto(Cardinality(S)) = SUBSET S /\ Cardinality(S) \in Nat
    BY <1>1
  <1> QED
    BY <1>4, <1>5

\* Two solutions agree wherever both are defined.
LEMMA SumUnique ==
    ASSUME NEW f, NEW S, NEW R, IsFiniteSet(S), NEW g, NEW h,
           SumsOver(f, SUBSET S, g), SumsOver(f, SUBSET R, h), NEW T \in SUBSET (S \cap R)
    PROVE  g[T] = h[T]
  <1> DEFINE Bad == {n \in Nat : \E V \in SUBSET (S \cap R) : Cardinality(V) = n /\ g[V] # h[V]}
  <1>1. \A V \in SUBSET (S \cap R) : IsFiniteSet(V) /\ Cardinality(V) \in Nat
    BY FS_Subset, FS_CardinalityType
  <1>2. \A V \in SUBSET (S \cap R) :
           /\ g[V] = IF V = {} THEN 0 ELSE f[Pick(V)] + g[V \ {Pick(V)}]
           /\ h[V] = IF V = {} THEN 0 ELSE f[Pick(V)] + h[V \ {Pick(V)}]
    BY DEF SumsOver
  <1>3. Bad = {}
    <2>1. SUFFICES ASSUME NEW n \in Bad, \A m \in Bad : n <= m PROVE FALSE
      BY NatHasLeast
    <2>2. PICK V \in SUBSET (S \cap R) : Cardinality(V) = n /\ g[V] # h[V]
      OBVIOUS
    <2>3. V # {} /\ g[V \ {Pick(V)}] # h[V \ {Pick(V)}]
      BY <1>2, <2>2
    <2>4. Cardinality(V \ {Pick(V)}) \in Nat /\ Cardinality(V \ {Pick(V)}) = n - 1
      BY <1>1, <2>2, <2>3, PickIn, SmallerSet
    <2>5. n - 1 \in Bad
      BY <2>3, <2>4
    <2> QED
      BY <2>1, <2>5
  <1> QED
    BY <1>1, <1>3

LEMMA SumStep ==
    ASSUME NEW f, NEW S, IsFiniteSet(S)
    PROVE  Sum(f, S) = IF S = {} THEN 0 ELSE f[Pick(S)] + Sum(f, S \ {Pick(S)})
  <1> DEFINE R == S \ {Pick(S)}
             g == CHOOSE g : SumsOver(f, SUBSET S, g)
             h == CHOOSE h : SumsOver(f, SUBSET R, h)
  <1>1. IsFiniteSet(R)
    BY FS_RemoveElement
  <1>2. SumsOver(f, SUBSET S, g) /\ SumsOver(f, SUBSET R, h)
    BY <1>1, SumExists
  <1>3. Sum(f, S) = g[S] /\ Sum(f, R) = h[R]
    BY SumUnfolds
  <1> HIDE DEF g, h
  <1>4. g[R] = h[R]
    <2>1. R \in SUBSET (S \cap R)
      OBVIOUS
    <2> HIDE DEF R
    <2> QED
      BY <1>2, <2>1, SumUnique
  <1>5. g[S] = IF S = {} THEN 0 ELSE f[Pick(S)] + g[R]
    BY <1>2 DEF SumsOver
  <1> QED
    BY <1>3, <1>4, <1>5

LEMMA SumNat ==
    ASSUME NEW D, NEW f \in [D -> Nat], NEW S \in SUBSET D, IsFiniteSet(S)
    PROVE  Sum(f, S) \in Nat
  <1> DEFINE Bad == {n \in Nat : \E V \in SUBSET S : Cardinality(V) = n /\ Sum(f, V) \notin Nat}
  <1>1. \A V \in SUBSET S : IsFiniteSet(V) /\ Cardinality(V) \in Nat
    BY FS_Subset, FS_CardinalityType
  <1>2. Bad = {}
    <2>1. SUFFICES ASSUME NEW n \in Bad, \A m \in Bad : n <= m PROVE FALSE
      BY NatHasLeast
    <2>2. PICK V \in SUBSET S : Cardinality(V) = n /\ Sum(f, V) \notin Nat
      OBVIOUS
    <2> DEFINE x == Pick(V)
    <2>3. V # {} /\ Sum(f, V) = f[x] + Sum(f, V \ {x})
      BY <1>1, <2>2, SumStep
    <2>4. x \in V
      BY <2>3, PickIn
    <2>5. Cardinality(V \ {x}) \in Nat /\ Cardinality(V \ {x}) = n - 1
      BY <1>1, <2>2, <2>4, SmallerSet
    <2> HIDE DEF x
    <2>6. Sum(f, V \ {x}) \notin Nat
      BY <2>2, <2>3, <2>4
    <2>7. n - 1 \in Bad
      BY <2>5, <2>6
    <2> QED
      BY <2>1, <2>7
  <1> QED
    BY <1>1, <1>2

LEMMA SumAdd ==
    ASSUME NEW D, NEW f \in [D -> Nat], NEW S \in SUBSET D, IsFiniteSet(S), NEW x \in S
    PROVE  Sum(f, S) = f[x] + Sum(f, S \ {x})
  <1> DEFINE Bad == {n \in Nat : \E V \in SUBSET S : \E y \in V :
                        Cardinality(V) = n /\ Sum(f, V) # f[y] + Sum(f, V \ {y})}
  <1>1. \A V \in SUBSET S : IsFiniteSet(V) /\ Cardinality(V) \in Nat
                            /\ Sum(f, V) \in Nat
    BY FS_Subset, FS_CardinalityType, SumNat
  <1>2. Bad = {}
    <2>1. SUFFICES ASSUME NEW n \in Bad, \A m \in Bad : n <= m PROVE FALSE
      BY NatHasLeast
    <2>2. PICK V \in SUBSET S : \E y \in V :
             Cardinality(V) = n /\ Sum(f, V) # f[y] + Sum(f, V \ {y})
      OBVIOUS
    <2>3. PICK y \in V : Cardinality(V) = n /\ Sum(f, V) # f[y] + Sum(f, V \ {y})
      BY <2>2
    <2> DEFINE z == Pick(V)
               both == (V \ {y}) \ {z}
    <2>4. z \in V /\ Sum(f, V) = f[z] + Sum(f, V \ {z})
      BY <1>1, <2>3, PickIn, SumStep
    <2> HIDE DEF z
    <2>5. z # y
      BY <2>3, <2>4
    <2>6. \A v \in V : Cardinality(V \ {v}) \in Nat /\ Cardinality(V \ {v}) = n - 1
      BY <1>1, <2>3, SmallerSet
    <2>7. \A v \in V, u \in V : u # v => Sum(f, V \ {v}) = f[u] + Sum(f, (V \ {v}) \ {u})
      <3>1. n - 1 \notin Bad
        BY <2>1
      <3>2. \A v \in V : n - 1 \in Nat /\ Cardinality(V \ {v}) = n - 1
        BY <2>6
      <3> QED
        BY <3>1, <3>2
    <2>8. /\ Sum(f, V \ {z}) = f[y] + Sum(f, both)
          /\ Sum(f, V \ {y}) = f[z] + Sum(f, both)
      <3>1. (V \ {z}) \ {y} = both
        OBVIOUS
      <3> QED
        BY <2>4, <2>5, <2>7, <3>1
    <2>9. f[y] \in Nat /\ f[z] \in Nat /\ Sum(f, both) \in Nat
      BY <1>1, <2>4
    <2> HIDE DEF both
    <2> QED
      BY <2>3, <2>4, <2>8, <2>9
  <1> QED
    BY <1>1, <1>2

LEMMA SumMonotone ==
    ASSUME NEW D, NEW f \in [D -> Nat], NEW S \in SUBSET D, IsFiniteSet(S), NEW R \in SUBSET S
    PROVE  Sum(f, R) <= Sum(f, S)
  <1> DEFINE Bad == {n \in Nat : \E V \in SUBSET S :
                        R \subseteq V /\ Cardinality(V) = n /\ ~(Sum(f, R) <= Sum(f, V))}
  <1>1. \A V \in SUBSET S : IsFiniteSet(V) /\ Cardinality(V) \in Nat
                            /\ Sum(f, V) \in Nat
    BY FS_Subset, FS_CardinalityType, SumNat
  <1>2. Bad = {}
    <2>1. Bad \in SUBSET Nat
      OBVIOUS
    <2>2. SUFFICES ASSUME NEW n \in Bad, \A m \in Bad : n <= m PROVE FALSE
      <3> HIDE DEF Bad
      <3> QED
        BY <2>1, NatHasLeast
    <2>3. PICK V \in SUBSET S :
             R \subseteq V /\ Cardinality(V) = n /\ ~(Sum(f, R) <= Sum(f, V))
      OBVIOUS
    <2>4. V # R
      BY <1>1, <2>3
    <2>5. PICK x \in V : x \notin R
      BY <2>3, <2>4
    <2>6. Sum(f, V) = f[x] + Sum(f, V \ {x}) /\ f[x] \in Nat
      BY <1>1, SumAdd
    <2>7. Cardinality(V \ {x}) \in Nat /\ Cardinality(V \ {x}) = n - 1
      BY <1>1, <2>3, SmallerSet
    <2>8. ~(Sum(f, R) <= Sum(f, V \ {x}))
      BY <1>1, <2>3, <2>6
    <2>9. n - 1 \in Bad
      BY <2>3, <2>5, <2>7, <2>8
    <2> QED
      BY <2>2, <2>9
  <1> QED
    BY <1>1, <1>2
=============================================================================
