---------------------------- MODULE CentsProofs ----------------------------
(***************************************************************************)
(* Lemmas about amounts: sums over a finite set, rounding, and shares that  *)
(* are rounded one by one.                                                 *)
(*                                                                         *)
(* Sum folds a function over the set, in an order that is not known; the    *)
(* lemmas show that it does not matter.  They are proved by induction on    *)
(* the set, and the induction by the least size of a counterexample.        *)
(***************************************************************************)
EXTENDS Cents, FiniteSetTheorems, WellFoundedInduction, TLAPS

\* The least of some numbers.
LEMMA Smallest ==
  ASSUME NEW T \in SUBSET Nat, T # {}
  PROVE  \E m \in T : \A k \in T : m <= k
<1>1. PICK R : R = {ss \in Nat \X Nat : ss[1] < ss[2]}
  OBVIOUS
<1>2. IsWellFoundedOn(R, Nat)
  BY <1>1, NatLessThanWellFounded DEF OpToRel
<1>3. PICK m \in T : \A k \in T : ~ (<<k, m>> \in R)
  BY <1>2, WFMin
<1>4. \A k \in T : k \in Nat /\ m \in Nat /\ ~ (k < m)
  BY <1>1, <1>3
<1>5. QED
  BY <1>4

\* Induction over the subsets of a finite set.
LEMMA SetsByOne ==
  ASSUME NEW S, IsFiniteSet(S), NEW F,
         \A T \in SUBSET S : (\A x \in T : T \ {x} \in F) => T \in F
  PROVE  \A T \in SUBSET S : T \in F
<1> DEFINE Left == {Cardinality(T) : T \in {U \in SUBSET S : U \notin F}}
<1>1. SUFFICES ASSUME NEW B \in SUBSET S, B \notin F PROVE FALSE
  OBVIOUS
<1>2. \A T \in SUBSET S : IsFiniteSet(T) /\ Cardinality(T) \in Nat
  BY FS_Subset, FS_CardinalityType
<1>3. Left \in SUBSET Nat /\ Left # {}
  BY <1>1, <1>2
<1>4. PICK m \in Left : \A k \in Left : m <= k
  <2> HIDE DEF Left
  <2>1. QED
    BY <1>3, Smallest
<1>5. PICK T \in SUBSET S : T \notin F /\ m = Cardinality(T)
  BY <1>4
<1>6. \A U \in SUBSET S : U \notin F => m <= Cardinality(U)
  BY <1>4
<1>7. ASSUME NEW x \in T PROVE T \ {x} \in F
  <2>1. Cardinality(T \ {x}) = Cardinality(T) - 1
    BY <1>2, FS_RemoveElement
  <2>2. QED
    BY <1>2, <1>5, <1>6, <2>1
<1>8. QED
  BY <1>5, <1>7

\* Finitely many numbers have a greatest.
LEMMA Greatest ==
  ASSUME NEW S \in SUBSET Int, IsFiniteSet(S), S # {}
  PROVE  \E m \in S : \A k \in S : k <= m
<1> DEFINE F == {T \in SUBSET S : T = {} \/ \E m \in T : \A k \in T : k <= m}
<1>1. ASSUME NEW T \in SUBSET S, \A x \in T : T \ {x} \in F PROVE T \in F
  <2>1. SUFFICES ASSUME NEW x \in T PROVE T \in F
    OBVIOUS
  <2>2. CASE T \ {x} = {}
    <3>1. x \in Int /\ \A k \in T : k <= x
      BY <2>2
    <3>2. QED
      BY <3>1
  <2>3. CASE T \ {x} # {}
    <3>1. PICK m \in T \ {x} : \A k \in T \ {x} : k <= m
      BY <1>1, <2>3
    <3>2. (\A k \in T : k <= m) \/ (\A k \in T : k <= x)
      <4>1. x \in Int /\ m \in Int /\ (\A k \in T : k \in Int)
        OBVIOUS
      <4>2. CASE x <= m
        BY <3>1, <4>2
      <4>3. CASE m <= x
        BY <3>1, <4>1, <4>3
      <4>4. QED
        BY <4>1, <4>2, <4>3
    <3>3. QED
      BY <3>2
  <2>4. QED
    BY <2>2, <2>3
<1>2. \A T \in SUBSET S : (\A x \in T : T \ {x} \in F) => T \in F
  BY <1>1
<1> HIDE DEF F
<1>3. S \in F
  BY <1>2, SetsByOne
<1>4. QED
  BY <1>3 DEF F

\* The fold behind Sum, as a function.
Folded(f, U, g) ==
  g = [s \in SUBSET U |-> IF s = {} THEN 0
                          ELSE LET x == CHOOSE x \in s : TRUE IN f[x] + g[s \ {x}]]

LEMMA SumUnfolds ==
  ASSUME NEW f, NEW S, \E g : Folded(f, S, g)
  PROVE  \E g : Folded(f, S, g) /\ Sum(f, S) = g[S]
<1>1. Sum(f, S) = (CHOOSE g : g = [s \in SUBSET S |-> IF s = {} THEN 0
         ELSE LET x == CHOOSE x \in s : TRUE IN f[x] + g[s \ {x}]])[S]
  BY DEF Sum, MapThenSumSet, MapThenFoldSet
<1>2. QED
  BY <1>1 DEF Folded
LEMMA FoldUnique ==
  ASSUME NEW f, NEW U, NEW V, IsFiniteSet(U), NEW g, NEW h, Folded(f, U, g), Folded(f, V, h)
  PROVE  \A T \in SUBSET U : T \subseteq V => g[T] = h[T]
<1> DEFINE F == {T \in SUBSET U : T \subseteq V => g[T] = h[T]}
<1>1. ASSUME NEW T \in SUBSET U, \A x \in T : T \ {x} \in F, T \subseteq V
      PROVE  g[T] = h[T]
  <2>1. CASE T = {}
    BY <1>1, <2>1 DEF Folded
  <2>2. CASE T # {}
    <3>1. PICK y : y = CHOOSE x \in T : TRUE
      OBVIOUS
    <3>2. y \in T
      BY <2>2, <3>1
    <3>3. g[T] = f[y] + g[T \ {y}] /\ h[T] = f[y] + h[T \ {y}]
      BY <1>1, <2>2, <3>1 DEF Folded
    <3>4. g[T \ {y}] = h[T \ {y}]
      BY <1>1, <3>2
    <3>5. QED
      BY <3>3, <3>4
  <2>3. QED
    BY <2>1, <2>2
<1>2. \A T \in SUBSET U : (\A x \in T : T \ {x} \in F) => T \in F
  BY <1>1
<1> HIDE DEF F
<1>3. \A T \in SUBSET U : T \in F
  BY <1>2, SetsByOne
<1>4. QED
  BY <1>3 DEF F

LEMMA FoldExists ==
  ASSUME NEW f, NEW S, IsFiniteSet(S), \A x \in S : f[x] \in Int
  PROVE  \E g \in [SUBSET S -> Int] : Folded(f, S, g)
<1> DEFINE F == {T \in SUBSET S : \E g \in [SUBSET T -> Int] : Folded(f, T, g)}
<1>1. ASSUME NEW T \in SUBSET S, \A x \in T : T \ {x} \in F PROVE T \in F
  <2>1. CASE T = {}
    <3>1. [s \in SUBSET {} |-> 0] \in [SUBSET {} -> Int] /\ Folded(f, {}, [s \in SUBSET {} |-> 0])
      BY DEF Folded
    <3>2. QED
      BY <2>1, <3>1
  <2>2. CASE T # {}
    <3> DEFINE H == [x \in T |-> CHOOSE g : g \in [SUBSET (T \ {x}) -> Int] /\ Folded(f, T \ {x}, g)]
    <3>1. \A x \in T : H[x] \in [SUBSET (T \ {x}) -> Int] /\ Folded(f, T \ {x}, H[x])
      BY <1>1
    <3> HIDE DEF H
    <3>2. \A x \in T, z \in T, s \in SUBSET T : x \notin s /\ z \notin s => H[x][s] = H[z][s]
      <4>1. SUFFICES ASSUME NEW x \in T, NEW z \in T, NEW s \in SUBSET T, x \notin s, z \notin s
                     PROVE  H[x][s] = H[z][s]
        OBVIOUS
      <4>2. PICK U, V, g, h : U = T \ {x} /\ V = T \ {z} /\ g = H[x] /\ h = H[z]
        OBVIOUS
      <4>3. Folded(f, U, g) /\ Folded(f, V, h) /\ s \in SUBSET U /\ s \subseteq V
        BY <3>1, <4>1, <4>2
      <4>4. IsFiniteSet(U)
        BY <4>2, FS_Subset
      <4>5. QED
        BY <4>2, <4>3, <4>4, FoldUnique
    <3>3. PICK y : y = CHOOSE x \in T : TRUE
      OBVIOUS
    <3>4. y \in T
      BY <2>2, <3>3
    <3> DEFINE out(s) == CHOOSE x \in T : x \notin s
    <3> DEFINE G == [s \in SUBSET T |-> IF s = T THEN f[y] + H[y][T \ {y}] ELSE H[out(s)][s]]
    <3>5. \A s \in SUBSET T : s # T => out(s) \in T /\ out(s) \notin s
      OBVIOUS
    <3> HIDE DEF out
    <3>6. ASSUME NEW s \in SUBSET T, NEW x \in T, x \notin s PROVE G[s] = H[x][s] /\ G[s] \in Int
      <4>1. s # T /\ G[s] = H[out(s)][s]
        BY <3>6
      <4>2. out(s) \in T /\ out(s) \notin s
        BY <3>5, <4>1
      <4>3. H[out(s)][s] = H[x][s]
        BY <3>2, <3>6, <4>2
      <4>4. PICK g : g = H[x]
        OBVIOUS
      <4>5. g \in [SUBSET (T \ {x}) -> Int] /\ s \in SUBSET (T \ {x})
        BY <3>1, <3>6, <4>4
      <4>6. QED
        BY <4>1, <4>3, <4>4, <4>5
    <3>7. G[T] = f[y] + G[T \ {y}] /\ G[T] \in Int
      <4>1. G[T \ {y}] = H[y][T \ {y}] /\ G[T \ {y}] \in Int
        BY <3>4, <3>6
      <4>2. f[y] \in Int
        BY <3>4
      <4>3. QED
        BY <4>1, <4>2
    <3>8. G \in [SUBSET T -> Int]
      BY <3>5, <3>6, <3>7
    <3>9. ASSUME NEW s \in SUBSET T
          PROVE  G[s] = IF s = {} THEN 0 ELSE LET x == CHOOSE x \in s : TRUE IN f[x] + G[s \ {x}]
      <4>1. CASE s = T
        BY <2>2, <3>3, <3>7, <4>1
      <4>2. CASE s # T
        <5>1. PICK x \in T : x \notin s
          BY <4>2
        <5>2. \A r \in SUBSET (T \ {x}) : G[r] = H[x][r]
          BY <3>6
        <5>3. H[x][s] = IF s = {} THEN 0 ELSE LET c == CHOOSE c \in s : TRUE IN f[c] + H[x][s \ {c}]
          <6>1. PICK g : g = H[x]
            OBVIOUS
          <6>2. Folded(f, T \ {x}, g) /\ s \in SUBSET (T \ {x})
            BY <3>1, <5>1, <6>1
          <6>3. g[s] = IF s = {} THEN 0 ELSE LET c == CHOOSE c \in s : TRUE IN f[c] + g[s \ {c}]
            BY <6>2 DEF Folded
          <6>4. QED
            BY <6>1, <6>3
        <5>4. \A c \in s : G[s \ {c}] = H[x][s \ {c}]
          BY <5>1, <5>2
        <5>5. G[s] = H[x][s]
          BY <5>1, <5>2
        <5>6. CASE s = {}
          BY <5>3, <5>5, <5>6
        <5>7. CASE s # {}
          <6>1. PICK c : c = CHOOSE e \in s : TRUE
            OBVIOUS
          <6>2. c \in s
            BY <5>7, <6>1
          <6>3. G[s] = f[c] + G[s \ {c}]
            BY <5>3, <5>4, <5>5, <5>7, <6>1, <6>2
          <6>4. QED
            BY <5>7, <6>1, <6>3
        <5>8. QED
          BY <5>6, <5>7
      <4>3. QED
        BY <4>1, <4>2
    <3>10. PICK K : K = G
      OBVIOUS
    <3>11. K = [s \in SUBSET T |-> K[s]]
      BY <3>10
    <3>12. Folded(f, T, K)
      <4>1. \A s \in SUBSET T :
              K[s] = IF s = {} THEN 0 ELSE LET x == CHOOSE x \in s : TRUE IN f[x] + K[s \ {x}]
        BY <3>9, <3>10
      <4> HIDE DEF G
      <4>2. QED
        BY <3>11, <4>1 DEF Folded
    <3>13. QED
      BY <3>8, <3>10, <3>12
  <2>3. QED
    BY <2>1, <2>2
<1> HIDE DEF F
<1>2. \A T \in SUBSET S : (\A x \in T : T \ {x} \in F) => T \in F
  BY <1>1
<1>3. \A T \in SUBSET S : T \in F
  BY <1>2, SetsByOne
<1>4. S \in F
  BY <1>3
<1>5. QED
  BY <1>4 DEF F

\* A sum is the value of one function on all subsets.
LEMMA SumFold ==
  ASSUME NEW f, NEW S, IsFiniteSet(S), \A x \in S : f[x] \in Int
  PROVE  /\ \A T \in SUBSET S : Sum(f, T) \in Int
         /\ \A T \in SUBSET S : T # {} =>
              \E y \in T : Sum(f, T) = f[y] + Sum(f, T \ {y})
<1>1. PICK g \in [SUBSET S -> Int] : Folded(f, S, g)
  BY FoldExists
<1>2. ASSUME NEW T \in SUBSET S PROVE Sum(f, T) = g[T]
  <2>1. IsFiniteSet(T) /\ \A x \in T : f[x] \in Int
    BY FS_Subset
  <2>2. \E h : Folded(f, T, h)
    BY <2>1, FoldExists
  <2>3. PICK h : Folded(f, T, h) /\ Sum(f, T) = h[T]
    BY <2>2, SumUnfolds
  <2>4. h[T] = g[T]
    BY <1>1, <2>1, <2>3, FoldUnique
  <2>5. QED
    BY <2>3, <2>4
<1>3. ASSUME NEW T \in SUBSET S, T # {}
      PROVE  \E y \in T : Sum(f, T) = f[y] + Sum(f, T \ {y})
  <2>1. PICK y : y = CHOOSE x \in T : TRUE
    OBVIOUS
  <2>2. y \in T
    BY <1>3, <2>1
  <2>3. g[T] = f[y] + g[T \ {y}]
    BY <1>1, <1>3, <2>1 DEF Folded
  <2>4. Sum(f, T) = g[T] /\ Sum(f, T \ {y}) = g[T \ {y}]
    BY <1>2
  <2>5. QED
    BY <2>2, <2>3, <2>4
<1>4. \A T \in SUBSET S : Sum(f, T) \in Int
  BY <1>2
<1>5. QED
  BY <1>3, <1>4

LEMMA SumEmpty == ASSUME NEW f PROVE Sum(f, {}) = 0
<1>1. IsFiniteSet({})
  BY FS_EmptySet
<1>2. \E g : Folded(f, {}, g)
  BY <1>1, FoldExists
<1>3. PICK g : Folded(f, {}, g) /\ Sum(f, {}) = g[{}]
  BY <1>2, SumUnfolds
<1>4. QED
  BY <1>3 DEF Folded

\* Any element may be taken out of a sum.
LEMMA SumTakes ==
  ASSUME NEW f, NEW S, IsFiniteSet(S), \A x \in S : f[x] \in Int, NEW a \in S
  PROVE  Sum(f, S) = f[a] + Sum(f, S \ {a})
<1> DEFINE F == {T \in SUBSET S : \A x \in T : Sum(f, T) = f[x] + Sum(f, T \ {x})}
<1>1. \A T \in SUBSET S : Sum(f, T) \in Int
  BY SumFold
<1>2. ASSUME NEW T \in SUBSET S, \A x \in T : T \ {x} \in F, NEW x \in T
      PROVE  Sum(f, T) = f[x] + Sum(f, T \ {x})
  <2>1. PICK y \in T : Sum(f, T) = f[y] + Sum(f, T \ {y})
    BY <1>2, SumFold
  <2>2. CASE x # y
    <3>1. Sum(f, T \ {y}) = f[x] + Sum(f, (T \ {y}) \ {x})
      BY <1>2, <2>2
    <3>2. Sum(f, T \ {x}) = f[y] + Sum(f, (T \ {x}) \ {y})
      BY <1>2, <2>2
    <3>3. (T \ {y}) \ {x} = (T \ {x}) \ {y}
      OBVIOUS
    <3>4. f[x] \in Int /\ f[y] \in Int /\ Sum(f, (T \ {x}) \ {y}) \in Int
      BY <1>1
    <3>5. PICK r \in Int : r = Sum(f, (T \ {x}) \ {y}) /\ r = Sum(f, (T \ {y}) \ {x})
      BY <3>3, <3>4
    <3>6. Sum(f, T) = f[y] + (f[x] + r) /\ Sum(f, T \ {x}) = f[y] + r
      BY <2>1, <3>1, <3>2, <3>5
    <3>7. QED
      BY <3>4, <3>6
  <2>3. QED
    BY <2>1, <2>2
<1>3. \A T \in SUBSET S : (\A x \in T : T \ {x} \in F) => T \in F
  BY <1>2
<1> HIDE DEF F
<1>4. \A T \in SUBSET S : T \in F
  BY <1>3, SetsByOne
<1>5. S \in F
  BY <1>4
<1>6. QED
  BY <1>5 DEF F

\* Sums of terms that are compared.
LEMMA SumCompare ==
  ASSUME NEW f, NEW g, NEW S, IsFiniteSet(S), \A x \in S : f[x] \in Int /\ g[x] \in Int /\ f[x] <= g[x]
  PROVE  Sum(f, S) <= Sum(g, S)
<1> DEFINE F == {T \in SUBSET S : Sum(f, T) <= Sum(g, T)}
<1>1. \A T \in SUBSET S : Sum(f, T) \in Int /\ Sum(g, T) \in Int
  BY SumFold
<1>2. ASSUME NEW T \in SUBSET S, \A x \in T : T \ {x} \in F
      PROVE  Sum(f, T) <= Sum(g, T)
  <2>1. CASE T = {}
    BY <2>1, SumEmpty
  <2>2. CASE T # {}
    <3>1. PICK y \in T : TRUE
      BY <2>2
    <3>2. IsFiniteSet(T) /\ \A x \in T : f[x] \in Int /\ g[x] \in Int
      BY FS_Subset
    <3>3. Sum(f, T) = f[y] + Sum(f, T \ {y}) /\ Sum(g, T) = g[y] + Sum(g, T \ {y})
      BY <3>2, SumTakes
    <3>4. Sum(f, T \ {y}) <= Sum(g, T \ {y})
      BY <1>2
    <3>5. f[y] <= g[y] /\ f[y] \in Int /\ g[y] \in Int
      OBVIOUS
    <3>6. Sum(f, T \ {y}) \in Int /\ Sum(g, T \ {y}) \in Int
      BY <1>1
    <3>7. QED
      BY <3>3, <3>4, <3>5, <3>6
  <2>3. QED
    BY <2>1, <2>2
<1>3. \A T \in SUBSET S : (\A x \in T : T \ {x} \in F) => T \in F
  BY <1>2
<1> HIDE DEF F
<1>4. \A T \in SUBSET S : T \in F
  BY <1>3, SetsByOne
<1>5. S \in F
  BY <1>4
<1>6. QED
  BY <1>5 DEF F

LEMMA SumSame ==
  ASSUME NEW f, NEW g, NEW S, IsFiniteSet(S), \A x \in S : f[x] \in Int /\ f[x] = g[x]
  PROVE  Sum(f, S) = Sum(g, S)
<1>1. \A x \in S : f[x] \in Int /\ g[x] \in Int /\ f[x] <= g[x] /\ g[x] <= f[x]
  OBVIOUS
<1>2. Sum(f, S) <= Sum(g, S) /\ Sum(g, S) <= Sum(f, S)
  BY <1>1, SumCompare
<1>3. Sum(f, S) \in Int /\ Sum(g, S) \in Int
  BY <1>1, SumFold
<1>4. QED
  BY <1>2, <1>3

\* A sum of sums.
LEMMA SumPlus ==
  ASSUME NEW f, NEW g, NEW h, NEW S, IsFiniteSet(S),
         \A x \in S : f[x] \in Int /\ g[x] \in Int /\ h[x] = f[x] + g[x]
  PROVE  Sum(h, S) = Sum(f, S) + Sum(g, S)
<1> DEFINE F == {T \in SUBSET S : Sum(h, T) = Sum(f, T) + Sum(g, T)}
<1>0. \A x \in S : h[x] \in Int
  OBVIOUS
<1>1. \A T \in SUBSET S : Sum(f, T) \in Int /\ Sum(g, T) \in Int /\ Sum(h, T) \in Int
  BY <1>0, SumFold
<1>2. ASSUME NEW T \in SUBSET S, \A x \in T : T \ {x} \in F
      PROVE  Sum(h, T) = Sum(f, T) + Sum(g, T)
  <2>1. CASE T = {}
    BY <2>1, SumEmpty
  <2>2. CASE T # {}
    <3>1. PICK y \in T : TRUE
      BY <2>2
    <3>2. IsFiniteSet(T) /\ \A x \in T : f[x] \in Int /\ g[x] \in Int /\ h[x] \in Int
      BY <1>0, FS_Subset
    <3>3. /\ Sum(f, T) = f[y] + Sum(f, T \ {y}) /\ Sum(g, T) = g[y] + Sum(g, T \ {y})
          /\ Sum(h, T) = h[y] + Sum(h, T \ {y})
      BY <3>2, SumTakes
    <3>4. Sum(h, T \ {y}) = Sum(f, T \ {y}) + Sum(g, T \ {y})
      BY <1>2
    <3>5. Sum(f, T \ {y}) \in Int /\ Sum(g, T \ {y}) \in Int
      BY <1>1
    <3>6. QED
      BY <3>2, <3>3, <3>4, <3>5
  <2>3. QED
    BY <2>1, <2>2
<1>3. \A T \in SUBSET S : (\A x \in T : T \ {x} \in F) => T \in F
  BY <1>2
<1> HIDE DEF F
<1>4. \A T \in SUBSET S : T \in F
  BY <1>3, SetsByOne
<1>5. S \in F
  BY <1>4
<1>6. QED
  BY <1>5 DEF F

\* A sum of equal terms.
LEMMA SumConstant ==
  ASSUME NEW f, NEW S, IsFiniteSet(S), NEW c \in Int, \A x \in S : f[x] = c
  PROVE  Sum(f, S) = c * Cardinality(S)
<1> DEFINE F == {T \in SUBSET S : Sum(f, T) = c * Cardinality(T)}
<1>1. ASSUME NEW T \in SUBSET S, \A x \in T : T \ {x} \in F
      PROVE  Sum(f, T) = c * Cardinality(T)
  <2>1. CASE T = {}
    <3>1. Sum(f, T) = 0 /\ Cardinality(T) = 0
      BY <2>1, SumEmpty, FS_EmptySet
    <3>2. QED
      BY <3>1
  <2>2. CASE T # {}
    <3>1. PICK y \in T : TRUE
      BY <2>2
    <3>2. IsFiniteSet(T) /\ \A x \in T : f[x] \in Int
      BY FS_Subset
    <3>3. Sum(f, T) = f[y] + Sum(f, T \ {y})
      BY <3>2, SumTakes
    <3>4. PICK n \in Nat : n = Cardinality(T)
      BY <3>2, FS_CardinalityType
    <3>5. Cardinality(T \ {y}) = n - 1
      BY <3>2, <3>4, FS_RemoveElement
    <3>6. Sum(f, T \ {y}) = c * Cardinality(T \ {y})
      BY <1>1
    <3>7. Sum(f, T) = c + c * (n - 1)
      BY <3>3, <3>5, <3>6
    <3>8. QED
      BY <3>4, <3>7
  <2>3. QED
    BY <2>1, <2>2
<1>2. \A T \in SUBSET S : (\A x \in T : T \ {x} \in F) => T \in F
  BY <1>1
<1> HIDE DEF F
<1>3. \A T \in SUBSET S : T \in F
  BY <1>2, SetsByOne
<1>4. S \in F
  BY <1>3
<1>5. QED
  BY <1>4 DEF F

\* A sum over two sets that have nothing in common.
LEMMA SumTwo ==
  ASSUME NEW f, NEW A, NEW B, IsFiniteSet(A), IsFiniteSet(B), A \cap B = {},
         \A x \in A \cup B : f[x] \in Int
  PROVE  Sum(f, A \cup B) = Sum(f, A) + Sum(f, B)
<1> DEFINE F == {T \in SUBSET A : Sum(f, T \cup B) = Sum(f, T) + Sum(f, B)}
<1>1. Sum(f, B) \in Int /\ \A T \in SUBSET A : Sum(f, T) \in Int
  BY SumFold
<1>2. IsFiniteSet(A \cup B)
  BY FS_Union
<1>3. ASSUME NEW T \in SUBSET A, \A x \in T : T \ {x} \in F
      PROVE  Sum(f, T \cup B) = Sum(f, T) + Sum(f, B)
  <2>1. CASE T = {}
    <3>1. Sum(f, T) = 0 /\ T \cup B = B
      BY <2>1, SumEmpty
    <3>2. Sum(f, T \cup B) = Sum(f, B)
      BY <3>1
    <3>3. QED
      BY <1>1, <3>1, <3>2
  <2>2. CASE T # {}
    <3>1. PICK y \in T : TRUE
      BY <2>2
    <3>2. /\ IsFiniteSet(T) /\ IsFiniteSet(T \cup B) /\ f[y] \in Int
          /\ \A x \in T : f[x] \in Int
          /\ \A x \in T \cup B : f[x] \in Int
      BY <1>2, FS_Subset, FS_Union
    <3>3. Sum(f, T) = f[y] + Sum(f, T \ {y})
      BY <3>2, SumTakes
    <3>4. Sum(f, T \cup B) = f[y] + Sum(f, (T \cup B) \ {y})
      BY <3>2, SumTakes
    <3>5. (T \cup B) \ {y} = (T \ {y}) \cup B
      OBVIOUS
    <3>6. Sum(f, (T \ {y}) \cup B) = Sum(f, T \ {y}) + Sum(f, B)
      BY <1>3
    <3>7. Sum(f, T \ {y}) \in Int
      BY <1>1
    <3>8. QED
      BY <1>1, <3>2, <3>3, <3>4, <3>5, <3>6, <3>7
  <2>3. QED
    BY <2>1, <2>2
<1>4. \A T \in SUBSET A : (\A x \in T : T \ {x} \in F) => T \in F
  BY <1>3
<1> HIDE DEF F
<1>5. \A T \in SUBSET A : T \in F
  BY <1>4, SetsByOne
<1>6. A \in F
  BY <1>5
<1>7. QED
  BY <1>6 DEF F

\* Terms that are not negative: part of a sum.
LEMMA SumWithin ==
  ASSUME NEW f, NEW S, IsFiniteSet(S), \A x \in S : f[x] \in Nat, NEW T \in SUBSET S
  PROVE  0 <= Sum(f, T) /\ Sum(f, T) <= Sum(f, S)
<1>1. ASSUME NEW U \in SUBSET S PROVE Sum(f, U) \in Int /\ 0 <= Sum(f, U)
  <2>1. PICK z : z = [x \in S |-> 0]
    OBVIOUS
  <2>2. IsFiniteSet(U) /\ \A x \in U : z[x] = 0 /\ z[x] \in Int /\ f[x] \in Int /\ z[x] <= f[x]
    BY <2>1, FS_Subset
  <2>3. Sum(z, U) <= Sum(f, U)
    BY <2>2, SumCompare
  <2>4. Sum(z, U) = 0 * Cardinality(U)
    BY <2>2, SumConstant
  <2>5. Sum(f, U) \in Int
    BY <2>2, SumFold
  <2>6. Cardinality(U) \in Nat
    BY <2>2, FS_CardinalityType
  <2>7. 0 * Cardinality(U) = 0
    BY <2>6
  <2>8. QED
    BY <2>3, <2>4, <2>5, <2>7
<1>2. IsFiniteSet(T) /\ IsFiniteSet(S \ T) /\ T \cap (S \ T) = {} /\ T \cup (S \ T) = S
  BY FS_Subset
<1>3. \A x \in T \cup (S \ T) : f[x] \in Int
  OBVIOUS
<1>4. Sum(f, T \cup (S \ T)) = Sum(f, T) + Sum(f, S \ T)
  BY <1>2, <1>3, SumTwo
<1>5. Sum(f, S) = Sum(f, T) + Sum(f, S \ T)
  BY <1>2, <1>4
<1>6. 0 <= Sum(f, S \ T) /\ Sum(f, S \ T) \in Int /\ 0 <= Sum(f, T) /\ Sum(f, T) \in Int
  BY <1>1
<1>7. QED
  BY <1>5, <1>6

\* A sum over groups of the sums over each.
LEMMA SumGrouped ==
  ASSUME NEW f, NEW S, IsFiniteSet(S), \A x \in S : f[x] \in Int,
         NEW R, IsFiniteSet(R), NEW of, \A x \in S : of[x] \in R,
         NEW G, \A r \in R : G[r] \in SUBSET S /\ \A x \in S : x \in G[r] <=> of[x] = r,
         NEW h, \A r \in R : h[r] = Sum(f, G[r])
  PROVE  Sum(h, R) = Sum(f, S)
<1> DEFINE In(P) == {x \in S : of[x] \in P}
<1> DEFINE F == {P \in SUBSET R : Sum(h, P) = Sum(f, In(P))}
<1>1. \A r \in R : h[r] \in Int
  <2>1. \A T \in SUBSET S : Sum(f, T) \in Int
    BY SumFold
  <2>2. QED
    BY <2>1
<1>2. ASSUME NEW P \in SUBSET R, \A r \in P : P \ {r} \in F
      PROVE  Sum(h, P) = Sum(f, In(P))
  <2>1. CASE P = {}
    <3>1. In(P) = {}
      BY <2>1
    <3>2. QED
      BY <2>1, <3>1, SumEmpty
  <2>2. CASE P # {}
    <3>1. PICK r \in P : TRUE
      BY <2>2
    <3>2. IsFiniteSet(P) /\ \A q \in P : h[q] \in Int
      BY <1>1, FS_Subset
    <3>3. Sum(h, P) = h[r] + Sum(h, P \ {r})
      BY <3>2, SumTakes
    <3>4. PICK A, B : A = G[r] /\ B = In(P \ {r})
      OBVIOUS
    <3>5. A \cap B = {} /\ A \cup B = In(P) /\ A \in SUBSET S /\ B \in SUBSET S
      BY <3>4
    <3>6. IsFiniteSet(A) /\ IsFiniteSet(B) /\ \A x \in A \cup B : f[x] \in Int
      BY <3>5, FS_Subset
    <3>7. Sum(f, A \cup B) = Sum(f, A) + Sum(f, B)
      BY <3>5, <3>6, SumTwo
    <3>8. Sum(h, P \ {r}) = Sum(f, B)
      BY <1>2, <3>4
    <3>9. h[r] = Sum(f, A)
      BY <3>4
    <3>10. QED
      BY <3>3, <3>5, <3>7, <3>8, <3>9
  <2>3. QED
    BY <2>1, <2>2
<1>3. \A P \in SUBSET R : (\A r \in P : P \ {r} \in F) => P \in F
  BY <1>2
<1>4. PICK V : V = F
  OBVIOUS
<1>5. \A P \in SUBSET R : (\A r \in P : P \ {r} \in V) => P \in V
  BY <1>3, <1>4
<1>6. \A P \in SUBSET R : P \in V
  BY <1>5, SetsByOne
<1>7. Sum(h, R) = Sum(f, In(R))
  BY <1>4, <1>6
<1>8. In(R) = S
  OBVIOUS
<1>9. QED
  BY <1>7, <1>8

\* One term of a sum is changed.
LEMMA SumChanged ==
  ASSUME NEW f, NEW g, NEW S, IsFiniteSet(S), NEW a \in S,
         \A x \in S : f[x] \in Int /\ g[x] \in Int /\ (x # a => g[x] = f[x])
  PROVE  Sum(g, S) = Sum(f, S) + (g[a] - f[a])
<1>1. Sum(f, S) = f[a] + Sum(f, S \ {a}) /\ Sum(g, S) = g[a] + Sum(g, S \ {a})
  BY SumTakes
<1>2. IsFiniteSet(S \ {a}) /\ \A x \in S \ {a} : f[x] \in Int /\ f[x] = g[x]
  BY FS_Subset
<1>3. Sum(f, S \ {a}) = Sum(g, S \ {a}) /\ Sum(f, S \ {a}) \in Int
  BY <1>2, SumSame, SumFold
<1>4. QED
  BY <1>1, <1>3

\* Rounding is off by half a cent at most, whichever way a tie goes.
LEMMA Rounded ==
  ASSUME NEW n \in Int, NEW d \in Nat \ {0}, NEW down
  PROVE  /\ RoundTo(n, d, down) \in Int
         /\ 2 * (d * RoundTo(n, d, down)) <= 2 * n + d
         /\ 2 * n - d <= 2 * (d * RoundTo(n, d, down))
<1>1. PICK m \in Int, e \in Nat \ {0} : m = 2 * n + d /\ e = 2 * d
  OBVIOUS
<1>2. PICK q \in Int : q = m \div e
  BY <1>1
<1>3. e * q <= m /\ m < e * q + e /\ (m % e = 0 => m = e * q)
  BY <1>1, <1>2
<1>4. RoundTo(n, d, down) = q \/ (RoundTo(n, d, down) = q - 1 /\ m = e * q)
  BY <1>1, <1>2, <1>3 DEF RoundTo, Tie
<1>5. e * q = 2 * (d * q) /\ e * (q - 1) = 2 * (d * (q - 1)) /\ e * (q - 1) = e * q - e
  BY <1>1, <1>2
<1>6. CASE RoundTo(n, d, down) = q
  BY <1>1, <1>2, <1>3, <1>5, <1>6
<1>7. CASE RoundTo(n, d, down) = q - 1 /\ m = e * q
  BY <1>1, <1>2, <1>5, <1>7
<1>8. QED
  BY <1>4, <1>6, <1>7

-----------------------------------------------------------------------------
(***************************************************************************)
(* Shares that are rounded.  A share of weight w in an amount favor that   *)
(* is divided over t is off by half a cent at most.                        *)
(***************************************************************************)

IsShare(r, w, favor, t) ==
  2 * (t * r) <= 2 * (w * favor) + t /\ 2 * (w * favor) - t <= 2 * (t * r)

LEMMA Cancel ==
  ASSUME NEW t \in Nat \ {0}, NEW a \in Int, NEW b \in Int, t * a <= t * b
  PROVE  a <= b
<1>1. SUFFICES ASSUME b + 1 <= a PROVE FALSE
  OBVIOUS
<1>2. PICK c \in Nat : a = (b + 1) + c
  <2>1. a - (b + 1) \in Nat /\ a = (b + 1) + (a - (b + 1))
    BY <1>1
  <2>2. QED
    BY <2>1
<1>3. t * a = t * b + t + t * c
  BY <1>2
<1>4. t * c >= 0 /\ t * b \in Int /\ t * c \in Int
  BY <1>2
<1>5. QED
  BY <1>3, <1>4

\* Shares together are off by half a cent for each.
LEMMA SharesTogether ==
  ASSUME NEW S, IsFiniteSet(S), NEW w, NEW r, NEW favor \in Int, NEW t \in Nat \ {0},
         \A x \in S : w[x] \in Int /\ r[x] \in Int /\ IsShare(r[x], w[x], favor, t)
  PROVE  /\ 2 * (t * Sum(r, S)) <= 2 * (Sum(w, S) * favor) + t * Cardinality(S)
         /\ 2 * (Sum(w, S) * favor) - t * Cardinality(S) <= 2 * (t * Sum(r, S))
<1> DEFINE Off(T) == /\ 2 * (t * Sum(r, T)) <= 2 * (Sum(w, T) * favor) + t * Cardinality(T)
                     /\ 2 * (Sum(w, T) * favor) - t * Cardinality(T) <= 2 * (t * Sum(r, T))
<1> DEFINE F == {T \in SUBSET S : Off(T)}
<1>1. \A T \in SUBSET S : Sum(r, T) \in Int /\ Sum(w, T) \in Int
  BY SumFold
<1>2. ASSUME NEW T \in SUBSET S, \A x \in T : T \ {x} \in F
      PROVE  Off(T)
  <2>1. CASE T = {}
    <3>1. Sum(r, T) = 0 /\ Sum(w, T) = 0 /\ Cardinality(T) = 0
      BY <2>1, SumEmpty, FS_EmptySet
    <3>2. QED
      BY <3>1
  <2>2. CASE T # {}
    <3>1. PICK y \in T : TRUE
      BY <2>2
    <3>2. /\ IsFiniteSet(T) /\ IsFiniteSet(T \ {y})
          /\ \A x \in T : r[x] \in Int /\ w[x] \in Int
      BY FS_Subset
    <3>3. Sum(r, T) = r[y] + Sum(r, T \ {y}) /\ Sum(w, T) = w[y] + Sum(w, T \ {y})
      BY <3>2, SumTakes
    <3>4. PICK i \in Int, j \in Int, R \in Int, W \in Int :
             i = r[y] /\ j = w[y] /\ R = Sum(r, T \ {y}) /\ W = Sum(w, T \ {y})
      BY <1>1, <3>2
    <3>5. PICK n \in Nat : n = Cardinality(T \ {y}) /\ Cardinality(T) = n + 1
      BY <3>2, FS_CardinalityType, FS_RemoveElement
    <3>6. 2 * (t * R) <= 2 * (W * favor) + t * n /\ 2 * (W * favor) - t * n <= 2 * (t * R)
      BY <1>2, <3>4, <3>5
    <3>7. 2 * (t * i) <= 2 * (j * favor) + t /\ 2 * (j * favor) - t <= 2 * (t * i)
      BY <3>4 DEF IsShare
    <3>8. /\ t * (i + R) = t * i + t * R /\ (j + W) * favor = j * favor + W * favor
          /\ t * (n + 1) = t * n + t
      OBVIOUS
    <3>9. PICK a \in Int, b \in Int, c \in Int, d \in Int, e \in Int :
            a = t * i /\ b = t * R /\ c = j * favor /\ d = W * favor /\ e = t * n
      OBVIOUS
    <3>10. /\ 2 * (t * (i + R)) <= 2 * ((j + W) * favor) + t * (n + 1)
           /\ 2 * ((j + W) * favor) - t * (n + 1) <= 2 * (t * (i + R))
      <4>1. 2 * (a + b) <= 2 * (c + d) + (e + t) /\ 2 * (c + d) - (e + t) <= 2 * (a + b)
        BY <3>6, <3>7, <3>9
      <4>2. QED
        BY <3>8, <3>9, <4>1
    <3>11. QED
      BY <3>3, <3>4, <3>5, <3>10
  <2>3. QED
    BY <2>1, <2>2
<1>3. \A T \in SUBSET S : (\A x \in T : T \ {x} \in F) => T \in F
  BY <1>2
<1>4. PICK G : G = F
  OBVIOUS
<1>5. \A T \in SUBSET S : (\A x \in T : T \ {x} \in G) => T \in G
  BY <1>3, <1>4
<1>6. \A T \in SUBSET S : T \in G
  BY <1>5, SetsByOne
<1>7. QED
  BY <1>4, <1>6

\* The weights are all there is to divide.
LEMMA SharesOfAll ==
  ASSUME NEW S, IsFiniteSet(S), NEW w, NEW r, NEW favor \in Int, NEW t \in Nat \ {0},
         \A x \in S : w[x] \in Int /\ r[x] \in Int /\ IsShare(r[x], w[x], favor, t),
         Sum(w, S) = t
  PROVE  2 * Magnitude(favor - Sum(r, S)) <= Cardinality(S)
<1>1. PICK R \in Int : R = Sum(r, S)
  BY SumFold
<1>2. PICK n \in Nat : n = Cardinality(S)
  BY FS_CardinalityType
<1>3. 2 * (t * R) <= 2 * (t * favor) + t * n /\ 2 * (t * favor) - t * n <= 2 * (t * R)
  BY <1>1, <1>2, SharesTogether
<1>4. t * (2 * R) <= t * (2 * favor + n) /\ t * (2 * favor) <= t * (2 * R + n)
  BY <1>3
<1>5. 2 * R <= 2 * favor + n /\ 2 * favor <= 2 * R + n
  <2>1. 2 * R \in Int /\ 2 * favor + n \in Int /\ 2 * favor \in Int /\ 2 * R + n \in Int
    OBVIOUS
  <2>2. QED
    BY <1>4, <2>1, Cancel
<1>6. 2 * Magnitude(favor - R) <= n
  BY <1>5 DEF Magnitude
<1>7. QED
  BY <1>1, <1>2, <1>6

\* The share of a group, and the shares of its members.
LEMMA SharesOfGroup ==
  ASSUME NEW S, IsFiniteSet(S), NEW w, NEW r, NEW favor \in Int, NEW t \in Nat \ {0},
         \A x \in S : w[x] \in Int /\ r[x] \in Int /\ IsShare(r[x], w[x], favor, t),
         NEW q \in Int, IsShare(q, Sum(w, S), favor, t)
  PROVE  2 * Magnitude(q - Sum(r, S)) <= Cardinality(S) + 1
<1>1. PICK R \in Int, W \in Int : R = Sum(r, S) /\ W = Sum(w, S)
  BY SumFold
<1>2. PICK n \in Nat : n = Cardinality(S)
  BY FS_CardinalityType
<1>3. 2 * (t * R) <= 2 * (W * favor) + t * n /\ 2 * (W * favor) - t * n <= 2 * (t * R)
  BY <1>1, <1>2, SharesTogether
<1>4. 2 * (t * q) <= 2 * (W * favor) + t /\ 2 * (W * favor) - t <= 2 * (t * q)
  BY <1>1 DEF IsShare
<1>5. 2 * (t * R) <= 2 * (t * q) + t + t * n /\ 2 * (t * q) <= 2 * (t * R) + t + t * n
  BY <1>3, <1>4
<1>6. t * (2 * R) <= t * (2 * q + 1 + n) /\ t * (2 * q) <= t * (2 * R + 1 + n)
  BY <1>5
<1>7. 2 * R <= 2 * q + 1 + n /\ 2 * q <= 2 * R + 1 + n
  <2>1. 2 * R \in Int /\ 2 * q + 1 + n \in Int /\ 2 * q \in Int /\ 2 * R + 1 + n \in Int
    OBVIOUS
  <2>2. QED
    BY <1>6, <2>1, Cancel
<1>8. 2 * Magnitude(q - R) <= n + 1
  BY <1>7 DEF Magnitude
<1>9. QED
  BY <1>1, <1>2, <1>8

\* A share lies between nothing and the weight, if no more than t is divided.
LEMMA ShareWithin ==
  ASSUME NEW w \in Nat, NEW r \in Int, NEW favor \in Nat, NEW t \in Nat \ {0}, favor <= t,
         IsShare(r, w, favor, t)
  PROVE  0 <= r /\ r <= w
<1>1. w * favor >= 0 /\ w * favor \in Int
  OBVIOUS
<1>2. w * favor <= t * w
  <2>1. PICK c \in Nat : t = favor + c
    <3>1. t - favor \in Nat /\ t = favor + (t - favor)
      OBVIOUS
    <3>2. QED
      BY <3>1
  <2>2. t * w = w * favor + c * w /\ c * w >= 0 /\ c * w \in Int
    BY <2>1
  <2>3. QED
    BY <1>1, <2>2
<1>3. t * 0 <= t * (2 * r + 1) /\ t * (2 * r) <= t * (2 * w + 1)
  BY <1>1, <1>2 DEF IsShare
<1>4. 0 <= 2 * r + 1 /\ 2 * r <= 2 * w + 1
  <2>1. 2 * r + 1 \in Int /\ 2 * r \in Int /\ 2 * w + 1 \in Int /\ 0 \in Int
    OBVIOUS
  <2>2. QED
    BY <1>3, <2>1, Cancel
<1>5. QED
  BY <1>4

\* Who weighs more has the greater share, and the greater rest.
LEMMA ShareGrows ==
  ASSUME NEW v \in Nat, NEW w \in Nat, v < w, NEW q \in Int, NEW r \in Int,
         NEW favor \in Nat, NEW t \in Nat \ {0}, favor <= t,
         IsShare(q, v, favor, t), IsShare(r, w, favor, t)
  PROVE  q <= r /\ v - q <= w - r
<1>1. PICK c \in Nat \ {0}, e \in Nat : w = v + c /\ t = favor + e
  <2>1. w - v \in Nat \ {0} /\ w = v + (w - v) /\ t - favor \in Nat /\ t = favor + (t - favor)
    OBVIOUS
  <2>2. QED
    BY <2>1
<1>2. w * favor = v * favor + c * favor /\ t * c = c * favor + c * e
  BY <1>1
<1>3. c * favor >= 0 /\ c * e >= 0 /\ c * favor \in Int /\ c * e \in Int /\ v * favor \in Int
  BY <1>1
<1>4. CASE favor = 0
  <2>1. v * favor = 0 /\ w * favor = 0
    BY <1>4
  <2>2. t * (2 * q) <= t * 1 /\ t * (0 - 1) <= t * (2 * q) /\ t * (2 * r) <= t * 1 /\ t * (0 - 1) <= t * (2 * r)
    BY <2>1 DEF IsShare
  <2>3. 2 * q <= 1 /\ 0 - 1 <= 2 * q /\ 2 * r <= 1 /\ 0 - 1 <= 2 * r
    <3>1. 2 * q \in Int /\ 2 * r \in Int /\ 1 \in Int /\ 0 - 1 \in Int
      OBVIOUS
    <3>2. QED
      BY <2>2, <3>1, Cancel
  <2>4. QED
    BY <2>3
<1>5. CASE e = 0
  <2>1. v * favor = t * v /\ w * favor = t * w
    BY <1>1, <1>5
  <2>2. /\ t * (2 * q) <= t * (2 * v + 1) /\ t * (2 * v - 1) <= t * (2 * q)
        /\ t * (2 * r) <= t * (2 * w + 1) /\ t * (2 * w - 1) <= t * (2 * r)
    BY <2>1 DEF IsShare
  <2>3. 2 * q <= 2 * v + 1 /\ 2 * v - 1 <= 2 * q /\ 2 * r <= 2 * w + 1 /\ 2 * w - 1 <= 2 * r
    <3>1. 2 * q \in Int /\ 2 * r \in Int /\ 2 * v + 1 \in Int /\ 2 * w + 1 \in Int
          /\ 2 * v - 1 \in Int /\ 2 * w - 1 \in Int
      OBVIOUS
    <3>2. QED
      BY <2>2, <3>1, Cancel
  <2>4. QED
    BY <2>3
<1>6. CASE favor > 0 /\ e > 0
  <2>1. c * favor > 0 /\ c * e > 0
    BY <1>1, <1>6
  <2>2. 2 * (t * q) < 2 * (t * r) + 2 * t
    BY <1>2, <1>3, <2>1 DEF IsShare
  <2>3. 2 * (t * r) < 2 * (t * q) + 2 * (t * c) + 2 * t
    BY <1>2, <1>3, <2>1 DEF IsShare
  <2>4. ASSUME r + 1 <= q PROVE FALSE
    <3>1. PICK a \in Nat : q = (r + 1) + a
      <4>1. q - (r + 1) \in Nat /\ q = (r + 1) + (q - (r + 1))
        BY <2>4
      <4>2. QED
        BY <4>1
    <3>2. t * q = t * r + t + t * a /\ t * a >= 0
      BY <3>1
    <3>3. QED
      BY <2>2, <3>2
  <2>5. ASSUME q + c + 1 <= r PROVE FALSE
    <3>1. PICK a \in Nat : r = (q + c + 1) + a
      <4>1. r - (q + c + 1) \in Nat /\ r = (q + c + 1) + (r - (q + c + 1))
        BY <2>5, <1>1
      <4>2. QED
        BY <4>1
    <3>2. t * r = t * q + t * c + t + t * a /\ t * a >= 0
      BY <3>1, <1>1
    <3>3. QED
      BY <2>3, <3>2
  <2>6. QED
    BY <1>1, <2>4, <2>5
<1>7. QED
  BY <1>1, <1>4, <1>5, <1>6
=============================================================================
