------------------------------ MODULE SumLemmas ------------------------------
(***************************************************************************)
(* Lemmas about sums over finite sets, for FiguresAddUp of DesksProofs,    *)
(* which rests on them.  A sum counts cells: the x of T has g[x] of them.  *)
(* No cell is counted in an order, so that neither is the sum, whatever    *)
(* order the fold takes; what follows is about sets.                       *)
(***************************************************************************)
EXTENDS Integers, FiniteSets, Functions, FiniteSetTheorems, WellFoundedInduction, TLAPS

Cells(g, T) == {c \in T \X Nat : c[2] \in 1..g[c[1]]}

\* What holds of a finite set as soon as it holds of its strict subsets:
\* induction, stated for a set of sets.
LEMMA LemmaSmaller ==
  ASSUME NEW D, IsFiniteSet(D), NEW Good,
         \A T \in SUBSET D : (\A U \in SUBSET T : U # T => U \in Good) => T \in Good
  PROVE  \A T \in SUBSET D : T \in Good
<1> DEFINE Bad == {T \in SUBSET D : T \notin Good}
<1>1. SUFFICES ASSUME Bad # {} PROVE FALSE
  OBVIOUS
<1>2. Bad \subseteq FiniteSubsetsOf(D)
  BY FS_Subset DEF FiniteSubsetsOf
<1>3. IsWellFoundedOn(StrictSubsetOrdering(D), FiniteSubsetsOf(D))
  BY FS_StrictSubsetOrderingWellFounded
<1> HIDE DEF Bad
<1>4. PICK T \in Bad : \A U \in Bad : ~ (<<U, T>> \in StrictSubsetOrdering(D))
  BY <1>1, <1>2, <1>3, WFMin
<1> USE DEF Bad
<1>5. \A U \in SUBSET T : U # T => U \in Good
  BY <1>4 DEF StrictSubsetOrdering
<1> QED  BY <1>4, <1>5

LEMMA LemmaSubsets ==
  ASSUME NEW D, IsFiniteSet(D), NEW Good, {} \in Good,
         \A T \in SUBSET D : \A x \in D \ T : T \in Good => T \cup {x} \in Good
  PROVE  D \in Good
<1>1. ASSUME NEW T \in SUBSET D, \A U \in SUBSET T : U # T => U \in Good
      PROVE  T \in Good
  <2>1. CASE T = {}
    BY <2>1
  <2>2. CASE T # {}
    <3>1. PICK x \in T : TRUE
      BY <2>2
    <3>2. T \ {x} \in Good
      BY <1>1, <3>1
    <3>3. T = (T \ {x}) \cup {x} /\ x \in D \ (T \ {x}) /\ T \ {x} \in SUBSET D
      BY <3>1
    <3> QED  BY <3>2, <3>3
  <2> QED  BY <2>1, <2>2
<1> QED  BY <1>1, LemmaSmaller

LEMMA LemmaCellsOne ==
  ASSUME NEW g, NEW x, g[x] \in Nat
  PROVE  IsFiniteSet(Cells(g, {x})) /\ Cardinality(Cells(g, {x})) = g[x]
<1> DEFINE n == g[x]
           f == [k \in 1..n |-> <<x, k>>]
<1>1. f \in Bijection(1..n, Cells(g, {x}))
  <2>1. f \in [1..n -> Cells(g, {x})]
    BY DEF Cells
  <2>2. \A c \in Cells(g, {x}) : c[2] \in 1..n /\ f[c[2]] = c
    BY DEF Cells
  <2>3. \A a, b \in 1..n : f[a] = f[b] => a = b
    OBVIOUS
  <2> QED  BY <2>1, <2>2, <2>3 DEF Bijection, Injection, Surjection, IsInjective
<1>2. IsFiniteSet(1..n) /\ Cardinality(1..n) = n
  BY FS_Interval
<1> QED  BY <1>1, <1>2, FS_Bijection DEF ExistsBijection

LEMMA LemmaCellsAdd ==
  ASSUME NEW g, NEW T, NEW U, T \cap U = {},
         IsFiniteSet(Cells(g, T)), IsFiniteSet(Cells(g, U))
  PROVE  /\ IsFiniteSet(Cells(g, T \cup U))
         /\ Cardinality(Cells(g, T \cup U)) = Cardinality(Cells(g, T)) + Cardinality(Cells(g, U))
<1>1. Cells(g, T \cup U) = Cells(g, T) \cup Cells(g, U)
  BY DEF Cells
<1>2. Cells(g, T) \cap Cells(g, U) = {}
  BY DEF Cells
<1>3. Cardinality(Cells(g, T)) \in Nat /\ Cardinality(Cells(g, U)) \in Nat
  BY FS_CardinalityType
<1> HIDE DEF Cells
<1>4. Cardinality({}) = 0
  BY FS_EmptySet
<1>5. /\ IsFiniteSet(Cells(g, T) \cup Cells(g, U))
      /\ Cardinality(Cells(g, T) \cup Cells(g, U))
           = Cardinality(Cells(g, T)) + Cardinality(Cells(g, U)) - Cardinality({})
  BY <1>2, FS_Union
<1>6. Cardinality(Cells(g, T) \cup Cells(g, U))
        = Cardinality(Cells(g, T)) + Cardinality(Cells(g, U))
  BY <1>3, <1>4, <1>5
<1> QED  BY <1>1, <1>5, <1>6, Zenon

LEMMA LemmaCellsFinite ==
  ASSUME NEW g, NEW D, IsFiniteSet(D), \A x \in D : g[x] \in Nat
  PROVE  IsFiniteSet(Cells(g, D))
<1> DEFINE Good == {T \in SUBSET D : IsFiniteSet(Cells(g, T))}
<1>1. {} \in Good
  <2>1. Cells(g, {}) = {}
    BY DEF Cells
  <2> QED  BY <2>1, FS_EmptySet
<1>2. ASSUME NEW T \in SUBSET D, NEW x \in D \ T, T \in Good
      PROVE  T \cup {x} \in Good
  BY <1>2, LemmaCellsOne, LemmaCellsAdd
<1> HIDE DEF Good
<1>3. D \in Good
  BY <1>1, <1>2, LemmaSubsets
<1> QED  BY <1>3 DEF Good

\* A sum is the number of its cells.
LEMMA SumIsCells ==
  ASSUME NEW g, NEW D, IsFiniteSet(D), \A x \in D : g[x] \in Nat
  PROVE  SumFunctionOnSet(g, D) = Cardinality(Cells(g, D))
<1> DEFINE some(s) == CHOOSE x \in s : TRUE
           Sums(f) == f = [s \in SUBSET D |-> IF s = {} THEN 0
                                              ELSE g[some(s)] + f[s \ {some(s)}]]
           cells == [s \in SUBSET D |-> Cardinality(Cells(g, s))]
<1>1. ASSUME NEW s \in SUBSET D
      PROVE  cells[s] = IF s = {} THEN 0 ELSE g[some(s)] + cells[s \ {some(s)}]
  <2>1. CASE s = {}
    <3>1. Cells(g, s) = {}
      BY <2>1 DEF Cells
    <3> QED  BY <2>1, <3>1, FS_EmptySet
  <2>2. CASE s # {}
    <3>1. some(s) \in s
      BY <2>2
    <3> DEFINE x == some(s)
               t == s \ {x}
    <3>2. x \in D /\ t \in SUBSET D /\ s = {x} \cup t /\ {x} \cap t = {}
      BY <3>1
    <3> HIDE DEF x
    <3>3. IsFiniteSet(Cells(g, {x})) /\ IsFiniteSet(Cells(g, t))
      BY <3>2, FS_Subset, LemmaCellsFinite, LemmaCellsOne
    <3>4. Cardinality(Cells(g, {x})) = g[x]
      BY <3>2, LemmaCellsOne
    <3>5. Cardinality(Cells(g, {x} \cup t)) = g[x] + Cardinality(Cells(g, t))
      BY <3>2, <3>3, <3>4, LemmaCellsAdd
    <3>6. cells[s] = g[x] + cells[t]
      BY <3>2, <3>5
    <3> QED  BY <2>2, <3>6 DEF x
  <2> QED  BY <2>1, <2>2
<1>2. Sums(cells)
  BY <1>1
<1> DEFINE iter == CHOOSE f : Sums(f)
<1>3. Sums(iter)
  BY <1>2
<1>4. SumFunctionOnSet(g, D) = iter[D]
  BY DEF SumFunctionOnSet, FoldFunctionOnSet, MapThenFoldSet
<1> HIDE DEF cells, iter
<1> DEFINE Good == {s \in SUBSET D : iter[s] = cells[s]}
<1>5. ASSUME NEW T \in SUBSET D, \A U \in SUBSET T : U # T => U \in Good
      PROVE  T \in Good
  <2>1. CASE T = {}
    BY <1>2, <1>3, <2>1
  <2>2. CASE T # {}
    <3>1. some(T) \in T
      BY <2>2
    <3>2. T \ {some(T)} \in Good
      BY <1>5, <3>1
    <3>3. iter[T] = g[some(T)] + iter[T \ {some(T)}]
      BY <1>3, <2>2
    <3>4. cells[T] = g[some(T)] + cells[T \ {some(T)}]
      BY <1>2, <2>2
    <3> QED  BY <3>2, <3>3, <3>4
  <2> QED  BY <2>1, <2>2
<1> HIDE DEF Good
<1>6. D \in Good
  BY <1>5, LemmaSmaller
<1> QED  BY <1>4, <1>6 DEF Good, cells

-----------------------------------------------------------------------------
\* What is added decides a sum, and not where it is written down.
LEMMA LemmaSumSame ==
  ASSUME NEW g, NEW h, NEW D, IsFiniteSet(D),
         \A x \in D : g[x] \in Nat /\ h[x] = g[x]
  PROVE  SumFunctionOnSet(g, D) = SumFunctionOnSet(h, D)
<1>1. Cells(g, D) = Cells(h, D)
  BY DEF Cells
<1> QED  BY <1>1, SumIsCells

LEMMA LemmaSumType ==
  ASSUME NEW g, NEW D, IsFiniteSet(D), \A x \in D : g[x] \in Nat
  PROVE  SumFunctionOnSet(g, D) \in Nat
BY SumIsCells, LemmaCellsFinite, FS_CardinalityType

LEMMA LemmaSumEmpty ==
  ASSUME NEW g
  PROVE  SumFunctionOnSet(g, {}) = 0
<1>1. Cells(g, {}) = {}
  BY DEF Cells
<1> QED  BY <1>1, SumIsCells, FS_EmptySet

LEMMA LemmaSumAdd ==
  ASSUME NEW g, NEW T, IsFiniteSet(T), NEW x, x \notin T,
         \A y \in T \cup {x} : g[y] \in Nat
  PROVE  SumFunctionOnSet(g, T \cup {x}) = SumFunctionOnSet(g, T) + g[x]
<1>1. T \cap {x} = {}
  OBVIOUS
<1>2. IsFiniteSet(T \cup {x})
  BY FS_AddElement
<1>3. IsFiniteSet(Cells(g, T)) /\ IsFiniteSet(Cells(g, {x}))
  BY LemmaCellsFinite, LemmaCellsOne
<1>4. Cardinality(Cells(g, T \cup {x})) = Cardinality(Cells(g, T)) + Cardinality(Cells(g, {x}))
  BY <1>1, <1>3, LemmaCellsAdd
<1>5. Cardinality(Cells(g, {x})) = g[x]
  BY LemmaCellsOne
<1>6. SumFunctionOnSet(g, T \cup {x}) = Cardinality(Cells(g, T \cup {x}))
  BY <1>2, SumIsCells
<1>7. SumFunctionOnSet(g, T) = Cardinality(Cells(g, T))
  BY SumIsCells
<1> QED  BY <1>4, <1>5, <1>6, <1>7

-----------------------------------------------------------------------------
LEMMA LemmaUnionFinite ==
  ASSUME NEW D, IsFiniteSet(D), NEW F, \A x \in D : IsFiniteSet(F[x])
  PROVE  IsFiniteSet(UNION {F[x] : x \in D})
<1> DEFINE of(T) == UNION {F[x] : x \in T}
           Good == {T \in SUBSET D : IsFiniteSet(of(T))}
<1>1. {} \in Good
  <2>1. of({}) = {}
    OBVIOUS
  <2> HIDE DEF of
  <2> QED  BY <2>1, FS_EmptySet
<1>2. ASSUME NEW T \in SUBSET D, NEW x \in D \ T, T \in Good
      PROVE  T \cup {x} \in Good
  <2>1. of(T \cup {x}) = of(T) \cup F[x]
    OBVIOUS
  <2> HIDE DEF of
  <2>2. IsFiniteSet(of(T) \cup F[x])
    BY <1>2, FS_Union
  <2> QED  BY <2>1, <2>2
<1> HIDE DEF Good
<1>3. D \in Good
  BY <1>1, <1>2, LemmaSubsets
<1> QED  BY <1>3 DEF Good

\* Sets counted one by one: whoever is in several of them is counted in
\* each, and nobody is where they are disjoint.
LEMMA SizesAddUp ==
  ASSUME NEW D, IsFiniteSet(D), NEW F, NEW size,
         \A x \in D : IsFiniteSet(F[x]) /\ size[x] = Cardinality(F[x])
  PROVE  /\ Cardinality(UNION {F[x] : x \in D}) <= SumFunctionOnSet(size, D)
         /\ (\A x, y \in D : x # y => F[x] \cap F[y] = {})
              => Cardinality(UNION {F[x] : x \in D}) = SumFunctionOnSet(size, D)
<1> DEFINE of(T) == UNION {F[x] : x \in T}
           Good == {T \in SUBSET D :
                      /\ Cardinality(of(T)) <= SumFunctionOnSet(size, T)
                      /\ (\A x, y \in D : x # y => F[x] \cap F[y] = {})
                           => Cardinality(of(T)) = SumFunctionOnSet(size, T)}
<1>1. \A x \in D : size[x] \in Nat
  BY FS_CardinalityType
<1>2. {} \in Good
  <2>1. of({}) = {}
    OBVIOUS
  <2>2. SumFunctionOnSet(size, {}) = 0 /\ Cardinality({}) = 0 /\ IsFiniteSet({})
    BY LemmaSumEmpty, FS_EmptySet
  <2> HIDE DEF of
  <2> QED  BY <2>1, <2>2
<1>3. ASSUME NEW T \in SUBSET D, NEW x \in D \ T, T \in Good
      PROVE  T \cup {x} \in Good
  <2>1. of(T \cup {x}) = of(T) \cup F[x]
    OBVIOUS
  <2>2. (\A y, z \in D : y # z => F[y] \cap F[z] = {}) => of(T) \cap F[x] = {}
    OBVIOUS
  <2>3. IsFiniteSet(of(T)) /\ IsFiniteSet(F[x]) /\ Cardinality(F[x]) = size[x]
    <3>1. IsFiniteSet(T)
      BY FS_Subset
    <3>2. \A y \in T : IsFiniteSet(F[y])
      OBVIOUS
    <3>3. IsFiniteSet(of(T))
      BY ONLY <3>1, <3>2, LemmaUnionFinite DEF of
    <3> QED  BY <3>3
  <2> HIDE DEF of
  <2>4. IsFiniteSet(of(T) \cup F[x]) /\ IsFiniteSet(of(T) \cap F[x])
    BY <2>3, FS_Union, FS_Intersection
  <2>5. Cardinality(of(T) \cup F[x])
          = Cardinality(of(T)) + Cardinality(F[x]) - Cardinality(of(T) \cap F[x])
    BY <2>3, FS_Union
  <2>6. Cardinality(of(T) \cap F[x]) \in Nat /\ Cardinality(of(T)) \in Nat /\ size[x] \in Nat
    BY <1>1, <2>3, <2>4, FS_CardinalityType
  <2>7. of(T) \cap F[x] = {} => Cardinality(of(T) \cap F[x]) = 0
    BY FS_EmptySet
  <2>8. SumFunctionOnSet(size, T \cup {x}) = SumFunctionOnSet(size, T) + size[x]
    BY <1>1, FS_Subset, LemmaSumAdd
  <2>9. SumFunctionOnSet(size, T) \in Nat
    BY <1>1, FS_Subset, LemmaSumType
  <2>10. Cardinality(of(T)) <= SumFunctionOnSet(size, T)
    BY <1>3
  <2>11. Cardinality(of(T) \cup F[x]) <= SumFunctionOnSet(size, T \cup {x})
    BY <2>3, <2>5, <2>6, <2>8, <2>9, <2>10
  <2>12. ASSUME \A y, z \in D : y # z => F[y] \cap F[z] = {}
         PROVE  Cardinality(of(T) \cup F[x]) = SumFunctionOnSet(size, T \cup {x})
    <3>1. Cardinality(of(T)) = SumFunctionOnSet(size, T)
      BY <1>3, <2>12
    <3>2. Cardinality(of(T) \cap F[x]) = 0
      BY <2>2, <2>7, <2>12
    <3> QED  BY <2>3, <2>5, <2>6, <2>8, <2>9, <3>1, <3>2
  <2> QED  BY <2>1, <2>11, <2>12
<1> HIDE DEF Good
<1>4. D \in Good
  BY <1>2, <1>3, LemmaSubsets
<1> QED  BY <1>4 DEF Good

\* A sum over a set is the sum of the sums over its parts.
LEMMA PartsAddUp ==
  ASSUME NEW D, IsFiniteSet(D), NEW F, NEW g, NEW sum,
         \A x \in D : IsFiniteSet(F[x]) /\ sum[x] = SumFunctionOnSet(g, F[x]),
         \A x \in D : \A y \in F[x] : g[y] \in Nat,
         \A x, y \in D : x # y => F[x] \cap F[y] = {}
  PROVE  SumFunctionOnSet(g, UNION {F[x] : x \in D}) = SumFunctionOnSet(sum, D)
<1> DEFINE all == UNION {F[x] : x \in D}
           C == [x \in D |-> Cells(g, F[x])]
<1>1. IsFiniteSet(all)
  BY LemmaUnionFinite
<1>2. \A y \in all : g[y] \in Nat
  OBVIOUS
<1>3. \A x \in D : IsFiniteSet(C[x]) /\ sum[x] = Cardinality(C[x])
  BY LemmaCellsFinite, SumIsCells
<1>4. \A x, y \in D : x # y => C[x] \cap C[y] = {}
  BY DEF Cells
<1>5. Cells(g, all) = UNION {C[x] : x \in D}
  BY DEF Cells
<1> HIDE DEF C
<1>6. Cardinality(UNION {C[x] : x \in D}) = SumFunctionOnSet(sum, D)
  BY <1>3, <1>4, SizesAddUp
<1> HIDE DEF all
<1>7. SumFunctionOnSet(g, all) = Cardinality(Cells(g, all))
  BY <1>1, <1>2, SumIsCells
<1> QED  BY <1>5, <1>6, <1>7 DEF all

-----------------------------------------------------------------------------
\* Numbers rounded down one by one: each loses less than one unit.
LEMMA RoundingAddsUp ==
  ASSUME NEW D, IsFiniteSet(D), NEW g, NEW h, NEW M \in Nat \ {0},
         \A x \in D : g[x] \in Nat /\ h[x] = g[x] \div M
  PROVE  /\ SumFunctionOnSet(h, D) <= SumFunctionOnSet(g, D) \div M
         /\ D # {} => SumFunctionOnSet(g, D) \div M < SumFunctionOnSet(h, D) + Cardinality(D)
<1> DEFINE A(T) == SumFunctionOnSet(g, T)
           B(T) == SumFunctionOnSet(h, T)
           Good == {T \in SUBSET D : /\ M * B(T) <= A(T)
                                     /\ A(T) <= M * B(T) + (M - 1) * Cardinality(T)}
<1>1. \A x \in D : /\ g[x] \in Nat /\ h[x] \in Nat
                   /\ M * h[x] <= g[x] /\ g[x] <= M * h[x] + (M - 1)
  OBVIOUS
<1>2. {} \in Good
  BY LemmaSumEmpty, FS_EmptySet
<1>3. ASSUME NEW T \in SUBSET D, NEW x \in D \ T, T \in Good
      PROVE  T \cup {x} \in Good
  <2>1. IsFiniteSet(T)
    BY FS_Subset
  <2>2. A(T) \in Nat /\ B(T) \in Nat /\ Cardinality(T) \in Nat
    BY <1>1, <2>1, LemmaSumType, FS_CardinalityType
  <2>3. A(T \cup {x}) = A(T) + g[x] /\ B(T \cup {x}) = B(T) + h[x]
    BY <1>1, <2>1, LemmaSumAdd
  <2>4. Cardinality(T \cup {x}) = Cardinality(T) + 1
    BY <2>1, FS_AddElement
  <2>5. M * B(T) <= A(T) /\ A(T) <= M * B(T) + (M - 1) * Cardinality(T)
    BY <1>3
  <2> HIDE DEF A, B
  <2>6. M * B(T \cup {x}) = M * B(T) + M * h[x]
    BY <1>1, <2>2, <2>3
  <2>7. (M - 1) * Cardinality(T \cup {x}) = (M - 1) * Cardinality(T) + (M - 1)
    BY <2>2, <2>4
  <2> DEFINE b == M * B(T)
             c == (M - 1) * Cardinality(T)
             d == M * h[x]
  <2>8. b \in Int /\ c \in Int /\ d \in Int /\ M - 1 \in Int
    BY <1>1, <2>2
  <2> HIDE DEF b, c, d
  <2>9. b + d <= A(T) + g[x] /\ A(T) + g[x] <= (b + d) + (c + (M - 1))
    BY <1>1, <2>2, <2>5, <2>8 DEF b, c, d
  <2> QED  BY <2>3, <2>6, <2>7, <2>9 DEF b, c, d
<1> HIDE DEF Good
<1>4. D \in Good
  BY <1>2, <1>3, LemmaSubsets
<1> DEFINE a == A(D)
           b == B(D)
           n == Cardinality(D)
           q == a \div M
<1>5. a \in Nat /\ b \in Nat /\ n \in Nat /\ (D # {} => n > 0)
  BY <1>1, LemmaSumType, FS_CardinalityType, FS_EmptySet
<1>6. M * b <= a /\ a <= M * b + (M - 1) * n
  BY <1>4 DEF Good
<1> HIDE DEF a, b, n
<1>7. q \in Nat /\ M * q <= a /\ a < M * (q + 1)
  BY <1>5
<1>8. b <= q
  <2>1. M * b < M * (q + 1)
    BY <1>5, <1>6, <1>7
  <2> QED  BY <1>5, <1>7, <2>1
<1>9. ASSUME D # {} PROVE q < b + n
  <2>1. n > 0
    BY <1>5, <1>9
  <2>2. (M - 1) * n = M * n - n
    BY <1>5
  <2>3. M * (b + n) = M * b + M * n
    BY <1>5
  <2> DEFINE mb == M * b
             mn == M * n
             mq == M * q
  <2>4. mb \in Int /\ mn \in Int /\ mq \in Int
    BY <1>5, <1>7
  <2>5. mq <= a /\ a <= mb + (mn - n)
    BY <1>6, <1>7, <2>2
  <2> HIDE DEF mb, mn, mq
  <2>6. mq < mb + mn
    BY <1>5, <2>1, <2>4, <2>5
  <2>7. M * q < M * (b + n)
    BY <2>3, <2>6 DEF mb, mn, mq
  <2> QED  BY <1>5, <1>7, <2>7
<1> QED  BY <1>8, <1>9 DEF a, b, n
=============================================================================
