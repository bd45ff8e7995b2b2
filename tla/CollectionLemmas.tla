-------------------------- MODULE CollectionLemmas --------------------------
(***************************************************************************)
(* Facts about the data the models are built from: sums over finite sets,  *)
(* and the entries of sequences.  Induction is by a least counterexample.  *)
(***************************************************************************)
EXTENDS Collections, FiniteSetTheorems, WellFoundedInduction, TLAPS

\* A nonempty collection of subsets of a finite set has one with no smaller one.
LEMMA SmallestSubset ==
    ASSUME NEW S, IsFiniteSet(S), NEW B, B \subseteq SUBSET S, B # {}
    PROVE  \E T \in B : \A x \in T : T \ {x} \notin B
<1>1. IsWellFoundedOn(StrictSubsetOrdering(S), FiniteSubsetsOf(S))
    BY FS_StrictSubsetOrderingWellFounded
<1>2. FiniteSubsetsOf(S) = SUBSET S
    BY FS_FiniteSubsetsOfFinite
<1>3. PICK T \in B : \A U \in B : ~(<<U, T>> \in StrictSubsetOrdering(S))
    BY <1>1, <1>2, WFMin
<1>4. \A U \in B : U \subseteq T => U = T
    BY <1>3 DEF StrictSubsetOrdering
<1> QED
    BY <1>4

\* A nonempty set of numbers has a least one.
LEMMA LeastNumber ==
    ASSUME NEW N \in SUBSET Nat, N # {}
    PROVE  \E n \in N : \A m \in N : n <= m
<1> DEFINE R == OpToRel(<, Nat)
<1>1. IsWellFoundedOn(R, Nat)
    BY NatLessThanWellFounded
<1>2. \A x, y \in Nat : <<x, y>> \in R <=> x < y
    BY DEF OpToRel
<1> HIDE DEF R
<1>3. PICK n \in N : \A m \in N : ~(<<m, n>> \in R)
    BY <1>1, WFMin
<1>4. \A m \in N : ~(m < n)
    BY <1>2, <1>3
<1>5. \A m \in N : n <= m
    BY <1>4
<1> QED
    BY <1>5

\* Induction over the numbers, for the set of those that have the property.
LEMMA Induction ==
    ASSUME NEW N \in SUBSET Nat, 0 \in N, \A n \in N : n + 1 \in N
    PROVE  N = Nat
<1> DEFINE Rest == Nat \ N
<1> SUFFICES ASSUME Rest # {} PROVE FALSE
    OBVIOUS
<1>1. PICK n \in Rest : \A m \in Rest : n <= m
    BY LeastNumber
<1>2. n - 1 \in Nat /\ n - 1 \notin Rest
    BY <1>1
<1> QED
    BY <1>2

\* Induction over the subsets of a finite set, for the set of those that have it.
LEMMA SetInduction ==
    ASSUME NEW S, IsFiniteSet(S), NEW B \in SUBSET SUBSET S, {} \in B,
           \A T \in B : \A x \in S \ T : T \cup {x} \in B
    PROVE  B = SUBSET S
<1> DEFINE Rest == (SUBSET S) \ B
<1> SUFFICES ASSUME Rest # {} PROVE FALSE
    OBVIOUS
<1>1. PICK T \in Rest : \A x \in T : T \ {x} \notin Rest
    BY SmallestSubset
<1>2. PICK x \in T : TRUE
    BY <1>1
<1>3. T \ {x} \in B /\ x \in S \ (T \ {x}) /\ (T \ {x}) \cup {x} = T
    BY <1>1, <1>2
<1> QED
    BY <1>3

LEMMA Negative == \A i \in Int : -i = 0 - i
OBVIOUS

LEMMA NoNegativeZero == -0 = 0
<1>1. 0 \in Int /\ 0 - 0 = 0
    OBVIOUS
<1> QED
    BY <1>1, Negative, Zenon

LEMMA SameShift ==
    ASSUME NEW a \in Int, NEW b \in Int, NEW c \in Int, a + c = b + c
    PROVE  a = b
OBVIOUS

\* The least of a set of numbers, by what it is chosen for.
LEMMA MinIsLeast ==
    ASSUME NEW S \in SUBSET Int, NEW x \in S, \A y \in S : x <= y
    PROVE  Min(S) = x
<1>1. \A y \in S : (\A z \in S : y <= z) => y = x
    OBVIOUS
<1> QED
    BY <1>1 DEF Min

\* The larger and the smaller of two numbers.
LEMMA Extremes ==
    ASSUME NEW a \in Int, NEW b \in Int
    PROVE  /\ Max({a, b}) = IF a <= b THEN b ELSE a
           /\ Min({a, b}) = IF a <= b THEN a ELSE b
<1>1. \A x, y \in {a, b} : x <= y /\ y <= x => x = y
    OBVIOUS
<1>2. ASSUME NEW m \in {a, b}, \A x \in {a, b} : m >= x PROVE Max({a, b}) = m
  <2>1. \A y \in {a, b} : (\A x \in {a, b} : y >= x) => y = m
    BY <1>1, <1>2
  <2> QED
    BY <1>2, <2>1 DEF Max
<1>3. ASSUME NEW m \in {a, b}, \A x \in {a, b} : m <= x PROVE Min({a, b}) = m
  <2>1. \A y \in {a, b} : (\A x \in {a, b} : y <= x) => y = m
    BY <1>1, <1>3
  <2> QED
    BY <1>3, <2>1 DEF Min
<1>4. CASE a <= b
    BY <1>2, <1>3, <1>4
<1>5. CASE ~(a <= b)
    BY <1>2, <1>3, <1>5
<1> QED
    BY <1>4, <1>5

\* A whole number of equal parts is the whole.
LEMMA AllParts ==
    ASSUME NEW n \in Nat \ {0}, NEW a \in Int
    PROVE  (n * a) \div n = a
<1> DEFINE b == n * a
           q == b \div n
<1>1. b \in Int /\ n \in Nat /\ n > 0
    OBVIOUS
<1>2. b = n * a
    OBVIOUS
<1> HIDE DEF b
<1>3. q \in Int /\ n * q <= b /\ b < n * q + n
    BY <1>1
<1> HIDE DEF q
<1>4. n * q <= n * a /\ n * a < n * (q + 1)
    BY <1>1, <1>2, <1>3
<1>5. \A x, y \in Int : n * x < n * y => x < y
    BY <1>1
<1>6. ~(a < q)
  <2> SUFFICES ASSUME a < q PROVE FALSE
    OBVIOUS
  <2>1. n * a < n * q
    BY <1>1, <1>3
  <2>2. n * a \in Int /\ n * q \in Int
    BY <1>1, <1>3
  <2> QED
    BY <1>4, <2>1, <2>2
<1>7. a < q + 1
    BY <1>3, <1>4, <1>5
<1> QED
    BY <1>3, <1>6, <1>7 DEF q, b

\* Fractions above a common one, by cross multiplication.
LEMMA FractionsChain ==
    ASSUME NEW a \in Int, NEW b \in Int, NEW c \in Int, NEW p \in Nat \ {0}, NEW q \in Nat \ {0},
           NEW r \in Nat \ {0}, a * q <= b * p, b * r <= c * q
    PROVE  a * r <= c * p
<1>1. (a * q) * r <= (b * p) * r /\ (b * r) * p <= (c * q) * p
  <2>1. \A x, y \in Int, z \in Nat : x <= y => x * z <= y * z
    OBVIOUS
  <2> QED
    BY <2>1
<1>2. /\ (a * q) * r = (a * r) * q /\ (b * p) * r = (b * r) * p
      /\ (c * q) * p = (c * p) * q
    OBVIOUS
<1>3. (a * r) * q <= (c * p) * q /\ a * r \in Int /\ c * p \in Int
    BY <1>1, <1>2
<1>4. \A x, y \in Int, z \in Nat \ {0} : x * z <= y * z => x <= y
    OBVIOUS
<1> QED
    BY <1>3, <1>4

\* A series each of whose values is above the last rises throughout.
LEMMA StepsRise ==
    ASSUME NEW f, NEW n \in Nat, \A i \in 1..n : f[i] \in Int,
           \A i \in 2..n : f[i - 1] < f[i]
    PROVE  \A i, j \in 1..n : i < j => f[i] < f[j]
<1> SUFFICES ASSUME NEW i \in 1..n, {j \in 1..n : i < j /\ ~(f[i] < f[j])} # {}
             PROVE  FALSE
    OBVIOUS
<1> DEFINE Bad == {j \in 1..n : i < j /\ ~(f[i] < f[j])}
<1>1. Bad \in SUBSET Nat /\ Bad # {}
    OBVIOUS
<1> HIDE DEF Bad
<1>2. PICK j \in Bad : \A k \in Bad : j <= k
    BY <1>1, LeastNumber
<1>3. j \in 1..n /\ i < j /\ ~(f[i] < f[j])
    BY <1>2 DEF Bad
<1>4. j \in 2..n /\ j - 1 \in 1..n /\ j - 1 < j /\ (j - 1 = i \/ i < j - 1)
    BY <1>3
<1>5. j - 1 \notin Bad
    BY <1>2, <1>4, <1>1
<1>6. f[j - 1] < f[j] /\ (j - 1 = i \/ f[i] < f[j - 1])
    BY <1>4, <1>5 DEF Bad
<1>7. f[i] \in Int /\ f[j - 1] \in Int /\ f[j] \in Int
    BY <1>3, <1>4
<1> QED
    BY <1>3, <1>6, <1>7

\* The values of a function on a finite set are finitely many.
LEMMA FiniteValues ==
    ASSUME NEW f, NEW S, IsFiniteSet(S)
    PROVE  IsFiniteSet({f[x] : x \in S})
<1> DEFINE T == {f[x] : x \in S}
           g == [x \in S |-> f[x]]
<1>1. g \in Surjection(S, T)
    BY DEF Surjection
<1> QED
    BY <1>1, FS_Surjection

-----------------------------------------------------------------------------
(* Sums                                                                    *)

Chosen(T) == CHOOSE x \in T : TRUE

\* The equation of the function that the library's fold defines.
SumStep(f, g, T) == IF T = {} THEN 0 ELSE f[Chosen(T)] + g[T \ {Chosen(T)}]

IsSum(g, f, S) == g = [T \in SUBSET S |-> SumStep(f, g, T)]

LEMMA SumIsChosen ==
    ASSUME NEW f, NEW S
    PROVE  SumOver(f, S) = (CHOOSE g : IsSum(g, f, S))[S]
BY DEF SumOver, MapThenSumSet, MapThenFoldSet, SumStep, IsSum, Chosen

\* The equation has a solution: one for the sets of up to n elements gives one
\* for those of n + 1.
LEMMA SumExists ==
    ASSUME NEW f, NEW S, IsFiniteSet(S)
    PROVE  \E g : IsSum(g, f, S)
<1> DEFINE Small(n) == {T \in SUBSET S : Cardinality(T) <= n}
           Solves(g, n) == g = [T \in Small(n) |-> SumStep(f, g, T)]
           Solvable(n) == \E g : Solves(g, n)
<1>1. \A T \in SUBSET S : IsFiniteSet(T) /\ Cardinality(T) \in Nat
    BY FS_Subset, FS_CardinalityType
<1>2. \E g : Solves(g, 0)
  <2>1. Small(0) = {{}}
    BY <1>1, FS_EmptySet
  <2>2. [T \in {{}} |-> 0] = [T \in {{}} |-> SumStep(f, [U \in {{}} |-> 0], T)]
    BY DEF SumStep
  <2> QED
    BY <2>1, <2>2
<1>3. ASSUME NEW n \in Nat, NEW g, Solves(g, n)
      PROVE  \E h : Solves(h, n + 1)
  <2> DEFINE h == [T \in Small(n + 1) |-> SumStep(f, g, T)]
  <2>1. \A T \in Small(n + 1) : T # {} =>
            /\ Chosen(T) \in T
            /\ T \ {Chosen(T)} \in Small(n)
    <3> SUFFICES ASSUME NEW T \in Small(n + 1), T # {}
                 PROVE  Chosen(T) \in T /\ T \ {Chosen(T)} \in Small(n)
      OBVIOUS
    <3>1. Chosen(T) \in T
      BY DEF Chosen
    <3>2. Cardinality(T \ {Chosen(T)}) = Cardinality(T) - 1
      BY <1>1, <3>1, FS_RemoveElement
    <3> QED
      BY <1>1, <3>1, <3>2
  <2>2. Small(n) \subseteq Small(n + 1)
    BY <1>1
  <2>3. \A T \in Small(n) : h[T] = g[T]
    BY <1>3, <2>2
  <2>4. \A T \in Small(n + 1) : SumStep(f, g, T) = SumStep(f, h, T)
    BY <2>1, <2>3 DEF SumStep
  <2> QED
    BY <2>4
<1>4. \A n \in Nat : Solvable(n)
  <2>1. Solvable(0)
    BY <1>2
  <2>2. \A n \in Nat : Solvable(n) => Solvable(n + 1)
    BY <1>3
  <2> HIDE DEF Solvable
  <2> DEFINE N == {n \in Nat : Solvable(n)}
  <2>3. N \in SUBSET Nat /\ 0 \in N /\ \A n \in N : n + 1 \in N
    BY <2>1, <2>2
  <2> HIDE DEF N
  <2>4. N = Nat
    BY <2>3, Induction
  <2> QED
    BY <2>4 DEF N
<1>5. Small(Cardinality(S)) = SUBSET S
    BY <1>1, FS_Subset
<1>6. \E g : Solves(g, Cardinality(S))
    BY <1>1, <1>4, FS_CardinalityType
<1> QED
    BY <1>5, <1>6 DEF IsSum

\* Two solutions agree where both are defined.
LEMMA SumUnique ==
    ASSUME NEW f, NEW S, IsFiniteSet(S), NEW R \in SUBSET S,
           NEW g, IsSum(g, f, S), NEW h, IsSum(h, f, R)
    PROVE  \A T \in SUBSET R : g[T] = h[T]
<1> DEFINE Differ == {T \in SUBSET R : g[T] # h[T]}
<1> SUFFICES ASSUME Differ # {} PROVE FALSE
    OBVIOUS
<1>1. IsFiniteSet(R) /\ Differ \subseteq SUBSET R
    BY FS_Subset
<1>2. PICK T \in Differ : \A x \in T : T \ {x} \notin Differ
    BY <1>1, SmallestSubset
<1>3. g[T] = SumStep(f, g, T) /\ h[T] = SumStep(f, h, T)
    BY DEF IsSum
<1>4. T # {} => g[T \ {Chosen(T)}] = h[T \ {Chosen(T)}]
    BY <1>2 DEF Chosen
<1> QED
    BY <1>3, <1>4 DEF SumStep

LEMMA SumUnfold ==
    ASSUME NEW f, NEW S, IsFiniteSet(S)
    PROVE  SumOver(f, S) = IF S = {} THEN 0 ELSE f[Chosen(S)] + SumOver(f, S \ {Chosen(S)})
<1> DEFINE R == S \ {Chosen(S)}
           g == CHOOSE g : IsSum(g, f, S)
           h == CHOOSE h : IsSum(h, f, R)
<1>1. IsFiniteSet(R) /\ R \in SUBSET S
    BY FS_Subset
<1>2. IsSum(g, f, S) /\ IsSum(h, f, R)
    BY <1>1, SumExists
<1>3. SumOver(f, S) = g[S] /\ SumOver(f, R) = h[R]
    BY SumIsChosen
<1> HIDE DEF g, h
<1>4. g[S] = SumStep(f, g, S)
    BY <1>2 DEF IsSum
<1>5. g[R] = h[R]
    BY <1>1, <1>2, SumUnique
<1> QED
    BY <1>3, <1>4, <1>5 DEF SumStep

LEMMA SumEmpty == ASSUME NEW f PROVE SumOver(f, {}) = 0
BY SumUnfold, FS_EmptySet

LEMMA SumType ==
    ASSUME NEW f, NEW S, IsFiniteSet(S), \A x \in S : f[x] \in Int
    PROVE  SumOver(f, S) \in Int
<1> DEFINE Bad == {T \in SUBSET S : SumOver(f, T) \notin Int}
<1> SUFFICES ASSUME Bad # {} PROVE FALSE
    OBVIOUS
<1>1. PICK T \in Bad : \A x \in T : T \ {x} \notin Bad
    BY SmallestSubset
<1>2. IsFiniteSet(T) /\ T \subseteq S
    BY FS_Subset
<1>3. T # {}
    BY SumEmpty
<1>4. Chosen(T) \in T
    BY <1>3 DEF Chosen
<1>5. SumOver(f, T) = f[Chosen(T)] + SumOver(f, T \ {Chosen(T)})
    BY <1>2, <1>3, SumUnfold
<1>6. SumOver(f, T \ {Chosen(T)}) \in Int /\ f[Chosen(T)] \in Int
    BY <1>1, <1>2, <1>4
<1> QED
    BY <1>5, <1>6

\* Any element may be taken out.
LEMMA SumTake ==
    ASSUME NEW f, NEW S, IsFiniteSet(S), \A x \in S : f[x] \in Int
    PROVE  \A x \in S : SumOver(f, S) = f[x] + SumOver(f, S \ {x})
<1> DEFINE Good(T) == \A x \in T : SumOver(f, T) = f[x] + SumOver(f, T \ {x})
           Bad == {T \in SUBSET S : ~Good(T)}
<1> SUFFICES ASSUME Bad # {} PROVE FALSE
    OBVIOUS
<1>1. PICK T \in Bad : \A x \in T : T \ {x} \notin Bad
    BY SmallestSubset
<1>2. IsFiniteSet(T) /\ T \subseteq S /\ \A U \in SUBSET T : IsFiniteSet(U)
    BY FS_Subset
<1>3. PICK x \in T : SumOver(f, T) # f[x] + SumOver(f, T \ {x})
    BY <1>1
<1> DEFINE c == Chosen(T)
           U == (T \ {c}) \ {x}
<1>4. c \in T /\ SumOver(f, T) = f[c] + SumOver(f, T \ {c})
    BY <1>2, <1>3, SumUnfold DEF Chosen
<1> HIDE DEF c
<1>5. c # x
    BY <1>3, <1>4
<1>6. SumOver(f, T \ {c}) = f[x] + SumOver(f, U)
  <2>1. Good(T \ {c})
    BY <1>1, <1>4
  <2> QED
    BY <1>3, <1>5, <2>1
<1>7. SumOver(f, T \ {x}) = f[c] + SumOver(f, U)
  <2>1. Good(T \ {x})
    BY <1>1, <1>3
  <2>2. (T \ {x}) \ {c} = U
    OBVIOUS
  <2> QED
    BY <1>4, <1>5, <2>1, <2>2
<1>8. f[c] \in Int /\ f[x] \in Int
    BY <1>2, <1>3, <1>4
<1>9. SumOver(f, U) \in Int
    BY <1>2, SumType
<1> HIDE DEF U
<1> QED
    BY <1>3, <1>4, <1>6, <1>7, <1>8, <1>9

LEMMA SumAdd ==
    ASSUME NEW f, NEW S, IsFiniteSet(S), NEW x, x \notin S, f[x] \in Int,
           \A y \in S : f[y] \in Int
    PROVE  SumOver(f, S \cup {x}) = f[x] + SumOver(f, S)
<1> DEFINE R == S \cup {x}
<1>1. IsFiniteSet(R) /\ (\A y \in R : f[y] \in Int) /\ x \in R /\ R \ {x} = S
    BY FS_AddElement
<1> HIDE DEF R
<1>2. SumOver(f, R) = f[x] + SumOver(f, S)
    BY <1>1, SumTake
<1> QED
    BY <1>2 DEF R

LEMMA SumSingle ==
    ASSUME NEW f, NEW x, f[x] \in Int
    PROVE  SumOver(f, {x}) = f[x]
<1>1. SumOver(f, {} \cup {x}) = f[x] + SumOver(f, {})
    BY FS_EmptySet, SumAdd
<1>2. {} \cup {x} = {x}
    OBVIOUS
<1> QED
    BY <1>1, <1>2, SumEmpty

\* The sum depends on the values at the elements of the set.
LEMMA SumSame ==
    ASSUME NEW f, NEW g, NEW S, IsFiniteSet(S), \A x \in S : f[x] = g[x]
    PROVE  SumOver(f, S) = SumOver(g, S)
<1> DEFINE Bad == {T \in SUBSET S : SumOver(f, T) # SumOver(g, T)}
<1> SUFFICES ASSUME Bad # {} PROVE FALSE
    OBVIOUS
<1>1. PICK T \in Bad : \A x \in T : T \ {x} \notin Bad
    BY SmallestSubset
<1>2. IsFiniteSet(T) /\ T \subseteq S
    BY FS_Subset
<1>3. T # {}
    BY SumEmpty
<1>4. Chosen(T) \in T
    BY <1>3 DEF Chosen
<1>5. /\ SumOver(f, T) = f[Chosen(T)] + SumOver(f, T \ {Chosen(T)})
      /\ SumOver(g, T) = g[Chosen(T)] + SumOver(g, T \ {Chosen(T)})
    BY <1>2, <1>3, SumUnfold
<1>6. SumOver(f, T \ {Chosen(T)}) = SumOver(g, T \ {Chosen(T)}) /\ f[Chosen(T)] = g[Chosen(T)]
    BY <1>1, <1>2, <1>4
<1> QED
    BY <1>1, <1>5, <1>6

\* One value changes.
LEMMA SumChange ==
    ASSUME NEW f, NEW g, NEW S, IsFiniteSet(S), NEW x \in S,
           \A y \in S : f[y] \in Int, g[x] \in Int,
           \A y \in S \ {x} : g[y] = f[y]
    PROVE  SumOver(g, S) = SumOver(f, S) - f[x] + g[x]
<1>1. IsFiniteSet(S \ {x}) /\ \A y \in S : g[y] \in Int
    BY FS_RemoveElement
<1>2. SumOver(f, S \ {x}) = SumOver(g, S \ {x})
    BY <1>1, SumSame
<1>3. /\ SumOver(f, S) = f[x] + SumOver(f, S \ {x})
      /\ SumOver(g, S) = g[x] + SumOver(g, S \ {x})
    BY <1>1, SumTake
<1>4. SumOver(f, S \ {x}) \in Int /\ f[x] \in Int /\ g[x] \in Int
    BY <1>1, SumType
<1> QED
    BY <1>2, <1>3, <1>4

LEMMA SumZero ==
    ASSUME NEW f, NEW S, IsFiniteSet(S), \A x \in S : f[x] = 0
    PROVE  SumOver(f, S) = 0
<1> DEFINE Bad == {T \in SUBSET S : SumOver(f, T) # 0}
<1> SUFFICES ASSUME Bad # {} PROVE FALSE
    OBVIOUS
<1>1. PICK T \in Bad : \A x \in T : T \ {x} \notin Bad
    BY SmallestSubset
<1>2. IsFiniteSet(T) /\ T \subseteq S
    BY FS_Subset
<1>3. T # {}
    BY SumEmpty
<1>4. Chosen(T) \in T
    BY <1>3 DEF Chosen
<1>5. SumOver(f, T) = f[Chosen(T)] + SumOver(f, T \ {Chosen(T)})
    BY <1>2, <1>3, SumUnfold
<1> QED
    BY <1>1, <1>2, <1>4, <1>5

\* Two sums over one set add up value by value.
LEMMA SumPlus ==
    ASSUME NEW f, NEW g, NEW h, NEW S, IsFiniteSet(S),
           \A x \in S : f[x] \in Int /\ g[x] \in Int /\ h[x] = f[x] + g[x]
    PROVE  SumOver(h, S) = SumOver(f, S) + SumOver(g, S)
<1> DEFINE Bad == {T \in SUBSET S : SumOver(h, T) # SumOver(f, T) + SumOver(g, T)}
<1> SUFFICES ASSUME Bad # {} PROVE FALSE
    OBVIOUS
<1>1. PICK T \in Bad : \A x \in T : T \ {x} \notin Bad
    BY SmallestSubset
<1>2. IsFiniteSet(T) /\ T \subseteq S
    BY FS_Subset
<1>3. T # {}
  <2>1. SumOver(f, {}) = 0 /\ SumOver(g, {}) = 0 /\ SumOver(h, {}) = 0
    BY SumEmpty
  <2>2. SumOver(h, {}) = SumOver(f, {}) + SumOver(g, {})
    BY <2>1
  <2> QED
    BY <2>2
<1> DEFINE c == Chosen(T)
           U == T \ {c}
<1>4. c \in T
    BY <1>3 DEF Chosen
<1>5. /\ SumOver(f, T) = f[c] + SumOver(f, U)
      /\ SumOver(g, T) = g[c] + SumOver(g, U)
      /\ SumOver(h, T) = h[c] + SumOver(h, U)
    BY <1>2, <1>3, SumUnfold
<1>6. IsFiniteSet(U) /\ U \in SUBSET S
    BY <1>2, FS_Subset
<1>7. SumOver(f, U) \in Int /\ SumOver(g, U) \in Int
    BY <1>6, SumType
<1>8. SumOver(h, U) = SumOver(f, U) + SumOver(g, U)
    BY <1>1, <1>4, <1>6
<1>9. f[c] \in Int /\ g[c] \in Int /\ h[c] = f[c] + g[c]
    BY <1>2, <1>4
<1>10. SumOver(h, T) # SumOver(f, T) + SumOver(g, T)
    BY <1>1
<1> HIDE DEF U, c
<1> QED
    BY <1>5, <1>7, <1>8, <1>9, <1>10

\* A sum of numbers none of which is negative is not negative.
LEMMA SumNatural ==
    ASSUME NEW f, NEW S, IsFiniteSet(S), \A x \in S : f[x] \in Nat
    PROVE  SumOver(f, S) \in Nat
<1> DEFINE Bad == {T \in SUBSET S : SumOver(f, T) \notin Nat}
<1> SUFFICES ASSUME Bad # {} PROVE FALSE
    OBVIOUS
<1>1. PICK T \in Bad : \A x \in T : T \ {x} \notin Bad
    BY SmallestSubset
<1>2. IsFiniteSet(T) /\ T \subseteq S
    BY FS_Subset
<1>3. T # {}
    BY SumEmpty
<1>4. Chosen(T) \in T
    BY <1>3 DEF Chosen
<1>5. SumOver(f, T) = f[Chosen(T)] + SumOver(f, T \ {Chosen(T)})
    BY <1>2, <1>3, SumUnfold
<1>6. SumOver(f, T \ {Chosen(T)}) \in Nat /\ f[Chosen(T)] \in Nat
    BY <1>1, <1>2, <1>4
<1> QED
    BY <1>1, <1>5, <1>6

\* A sum has its sign from some of its terms.
LEMMA SumSign ==
    ASSUME NEW f, NEW S, IsFiniteSet(S), \A x \in S : f[x] \in Int,
           NEW sign \in {-1, 1}, sign * SumOver(f, S) > 0
    PROVE  \E x \in S : sign * f[x] > 0
<1> SUFFICES ASSUME \A x \in S : ~(sign * f[x] > 0) PROVE FALSE
    OBVIOUS
<1> DEFINE Bad == {T \in SUBSET S : sign * SumOver(f, T) > 0}
<1>1. PICK T \in Bad : \A x \in T : T \ {x} \notin Bad
  <2>1. Bad \subseteq SUBSET S /\ S \in Bad
    OBVIOUS
  <2> HIDE DEF Bad
  <2> QED
    BY <2>1, SmallestSubset
<1>2. IsFiniteSet(T) /\ T \subseteq S /\ sign * SumOver(f, T) > 0
    BY <1>1, FS_Subset
<1>3. T # {}
  <2> SUFFICES ASSUME T = {} PROVE FALSE
    OBVIOUS
  <2>1. SumOver(f, T) = 0
    BY SumEmpty
  <2>2. sign * 0 = 0
    OBVIOUS
  <2> QED
    BY <1>2, <2>1, <2>2
<1>4. PICK x \in T : TRUE
    BY <1>3
<1>5. SumOver(f, T) = f[x] + SumOver(f, T \ {x})
    BY <1>2, SumTake
<1>6. IsFiniteSet(T \ {x}) /\ f[x] \in Int /\ SumOver(f, T \ {x}) \in Int
  <2>1. IsFiniteSet(T \ {x})
    BY <1>2, FS_RemoveElement
  <2> QED
    BY <1>2, <2>1, SumType
<1>7. ~(sign * f[x] > 0) /\ ~(sign * SumOver(f, T \ {x}) > 0)
    BY <1>1, <1>2
<1>8. sign * SumOver(f, T) > 0
    BY <1>2
<1> DEFINE a == f[x]
           b == SumOver(f, T \ {x})
           c == SumOver(f, T)
<1>9. a \in Int /\ b \in Int /\ c = a + b /\ ~(sign * a > 0) /\ ~(sign * b > 0) /\ sign * c > 0
    BY <1>5, <1>6, <1>7, <1>8
<1> HIDE DEF a, b, c
<1>10. CASE sign = 1
    BY <1>9, <1>10
<1>11. CASE sign = -1
    BY <1>9, <1>11
<1> QED
    BY <1>10, <1>11

\* A multiple of every term is that multiple of the sum.
LEMMA SumScale ==
    ASSUME NEW f, NEW g, NEW S, IsFiniteSet(S), NEW k \in Int,
           \A x \in S : f[x] \in Int /\ g[x] = f[x] * k
    PROVE  SumOver(g, S) = SumOver(f, S) * k
<1> DEFINE Bad == {T \in SUBSET S : SumOver(g, T) # SumOver(f, T) * k}
<1> SUFFICES ASSUME Bad # {} PROVE FALSE
    OBVIOUS
<1>1. PICK T \in Bad : \A x \in T : T \ {x} \notin Bad
    BY SmallestSubset
<1>2. IsFiniteSet(T) /\ T \subseteq S /\ SumOver(g, T) # SumOver(f, T) * k
    BY <1>1, FS_Subset
<1>3. T # {}
  <2>1. SumOver(f, {}) = 0 /\ SumOver(g, {}) = 0 /\ 0 * k = 0
    BY SumEmpty
  <2> QED
    BY <1>2, <2>1
<1> DEFINE c == Chosen(T)
           U == T \ {c}
<1>4. c \in T
    BY <1>3 DEF Chosen
<1>5. SumOver(f, T) = f[c] + SumOver(f, U) /\ SumOver(g, T) = g[c] + SumOver(g, U)
    BY <1>2, <1>3, SumUnfold
<1>6. IsFiniteSet(U) /\ U \in SUBSET S
    BY <1>2, FS_Subset
<1>7. SumOver(f, U) \in Int /\ f[c] \in Int /\ g[c] = f[c] * k
    BY <1>2, <1>4, <1>6, SumType
<1>8. SumOver(g, U) = SumOver(f, U) * k
    BY <1>1, <1>4, <1>6
<1> DEFINE a == f[c]
           b == SumOver(f, U)
<1>9. a \in Int /\ b \in Int /\ a * k + b * k # (a + b) * k
    BY <1>2, <1>5, <1>7, <1>8
<1> HIDE DEF a, b
<1> QED
    BY <1>9

\* A sum over a set that is split in two.
LEMMA SumSplit ==
    ASSUME NEW f, NEW R, NEW S, IsFiniteSet(R), IsFiniteSet(S), R \cap S = {},
           \A x \in R \cup S : f[x] \in Int
    PROVE  SumOver(f, R \cup S) = SumOver(f, R) + SumOver(f, S)
<1> DEFINE Bad == {T \in SUBSET S : SumOver(f, R \cup T) # SumOver(f, R) + SumOver(f, T)}
<1> SUFFICES ASSUME Bad # {} PROVE FALSE
    OBVIOUS
<1>0. SumOver(f, R) \in Int
    BY SumType
<1>1. PICK T \in Bad : \A x \in T : T \ {x} \notin Bad
    BY SmallestSubset
<1>2. /\ IsFiniteSet(T) /\ T \subseteq S
      /\ SumOver(f, R \cup T) # SumOver(f, R) + SumOver(f, T)
    BY <1>1, FS_Subset
<1>3. T # {}
  <2>1. SumOver(f, {}) = 0 /\ R \cup {} = R
    BY SumEmpty
  <2>2. SumOver(f, R \cup {}) = SumOver(f, R) + SumOver(f, {})
    BY <1>0, <2>1
  <2> QED
    BY <1>2, <2>2
<1>4. PICK c \in T : TRUE
    BY <1>3
<1> DEFINE U == T \ {c}
<1>5. IsFiniteSet(U) /\ U \in SUBSET S /\ U \notin Bad
    BY <1>1, <1>2, <1>4, FS_Subset
<1>6. /\ SumOver(f, R \cup U) = SumOver(f, R) + SumOver(f, U)
      /\ SumOver(f, U) \in Int /\ f[c] \in Int
    BY <1>2, <1>4, <1>5, SumType
<1>7. SumOver(f, T) = f[c] + SumOver(f, U)
    BY <1>2, SumTake
<1>8. SumOver(f, R \cup T) = f[c] + SumOver(f, R \cup U)
  <2>1. /\ IsFiniteSet(R \cup T) /\ c \in R \cup T /\ (R \cup T) \ {c} = R \cup U
        /\ \A x \in R \cup T : f[x] \in Int
    BY <1>2, <1>4, FS_Union
  <2> QED
    BY <2>1, SumTake
<1> DEFINE r == SumOver(f, R)
           u == SumOver(f, U)
           v == f[c]
<1>9. r \in Int /\ u \in Int /\ v \in Int /\ v + (r + u) # r + (v + u)
    BY <1>0, <1>2, <1>6, <1>7, <1>8
<1> HIDE DEF r, u, v
<1> QED
    BY <1>9

\* A sum of numbers none of which is below a bound.
LEMMA SumAtLeast ==
    ASSUME NEW f, NEW S, IsFiniteSet(S), NEW c \in Int, \A x \in S : f[x] \in Int /\ c <= f[x]
    PROVE  /\ SumOver(f, S) \in Int /\ Cardinality(S) \in Nat
           /\ Cardinality(S) * c <= SumOver(f, S)
<1>0. SumOver(f, S) \in Int /\ Cardinality(S) \in Nat
    BY SumType, FS_CardinalityType
<1> SUFFICES Cardinality(S) * c <= SumOver(f, S)
    BY <1>0
<1> DEFINE Bad == {T \in SUBSET S : ~(Cardinality(T) * c <= SumOver(f, T))}
<1> SUFFICES ASSUME Bad # {} PROVE FALSE
    OBVIOUS
<1>1. PICK T \in Bad : \A x \in T : T \ {x} \notin Bad
    BY SmallestSubset
<1>2. IsFiniteSet(T) /\ T \subseteq S /\ ~(Cardinality(T) * c <= SumOver(f, T))
    BY <1>1, FS_Subset
<1>3. T # {}
  <2>1. SumOver(f, {}) = 0 /\ Cardinality({}) = 0 /\ 0 * c <= 0
    BY SumEmpty, FS_EmptySet
  <2> QED
    BY <1>2, <2>1
<1>4. PICK x \in T : TRUE
    BY <1>3
<1> DEFINE U == T \ {x}
<1>5. IsFiniteSet(U) /\ U \in SUBSET S /\ U \notin Bad
    BY <1>1, <1>2, <1>4, FS_Subset
<1>6. /\ SumOver(f, U) \in Int /\ f[x] \in Int /\ c <= f[x]
      /\ Cardinality(U) * c <= SumOver(f, U)
    BY <1>2, <1>4, <1>5, SumType
<1>7. SumOver(f, T) = f[x] + SumOver(f, U)
    BY <1>2, SumTake
<1>8. Cardinality(U) \in Nat /\ Cardinality(T) = Cardinality(U) + 1
  <2>1. /\ Cardinality(U) \in Nat /\ Cardinality(T) \in Nat
        /\ Cardinality(U) = Cardinality(T) - 1
    BY <1>2, <1>4, <1>5, FS_CardinalityType, FS_RemoveElement
  <2> QED
    BY <2>1
<1> DEFINE n == Cardinality(U)
           u == SumOver(f, U)
           v == f[x]
<1>9. n \in Nat /\ u \in Int /\ v \in Int /\ c <= v /\ n * c <= u /\ ~((n + 1) * c <= v + u)
    BY <1>2, <1>6, <1>7, <1>8
<1> HIDE DEF n, u, v
<1> QED
    BY <1>9

\* A sum of numbers that are all above a bound, and of numbers that are all below one.
LEMMA SumAbove ==
    ASSUME NEW f, NEW S, IsFiniteSet(S), S # {}, NEW c \in Int,
           \A x \in S : f[x] \in Int /\ c < f[x]
    PROVE  Cardinality(S) * c < SumOver(f, S)
<1>1. \A x \in S : f[x] \in Int /\ c + 1 <= f[x]
    OBVIOUS
<1>2. /\ SumOver(f, S) \in Int /\ Cardinality(S) \in Nat
      /\ Cardinality(S) * (c + 1) <= SumOver(f, S)
    BY <1>1, SumAtLeast
<1>3. Cardinality(S) # 0
    BY FS_EmptySet
<1> DEFINE n == Cardinality(S)
           s == SumOver(f, S)
<1>4. s \in Int /\ n \in Nat \ {0} /\ n * (c + 1) <= s
    BY <1>2, <1>3
<1> HIDE DEF n, s
<1>5. n * (c + 1) = n * c + n /\ n * c \in Int
    BY <1>4
<1>6. n * c < s
    BY <1>4, <1>5
<1> QED
    BY <1>6 DEF n, s

\* A sum over 1..n, by its last term.
LEMMA SumFirst ==
    ASSUME NEW f, NEW n \in Nat \ {0}, \A i \in 1..n : f[i] \in Int
    PROVE  SumOver(f, 1..n) = SumOver(f, 1..(n - 1)) + f[n]
<1>1. IsFiniteSet(1..n) /\ n \in 1..n /\ (1..n) \ {n} = 1..(n - 1)
  <2>1. IsFiniteSet(1..n)
    BY FS_Interval
  <2> QED
    BY <2>1
<1>2. SumOver(f, 1..n) = f[n] + SumOver(f, 1..(n - 1))
    BY <1>1, SumTake
<1>3. SumOver(f, 1..(n - 1)) \in Int
  <2>1. IsFiniteSet(1..(n - 1)) /\ \A i \in 1..(n - 1) : f[i] \in Int
    BY <1>1, FS_Subset
  <2> QED
    BY <2>1, SumType
<1> QED
    BY <1>1, <1>2, <1>3

-----------------------------------------------------------------------------
(* Sequences                                                               *)

\* The equation of the function that Among is the last value of.
AmongStep(s, S, f, i) ==
    IF i = 0 THEN <<>>
    ELSE IF s[i] \in S THEN Append(f[i - 1], s[i])
    ELSE f[i - 1]

IsAmong(f, s, S) == f = [i \in 0..Len(s) |-> AmongStep(s, S, f, i)]

LEMMA AmongIsChosen ==
    ASSUME NEW s, NEW S
    PROVE  Among(s, S) = (CHOOSE f : IsAmong(f, s, S))[Len(s)]
BY DEF Among, AmongStep, IsAmong

LEMMA AmongExists ==
    ASSUME NEW s, NEW S, Len(s) \in Nat
    PROVE  \E f : IsAmong(f, s, S)
<1> DEFINE Solves(f, n) == f = [i \in 0..n |-> AmongStep(s, S, f, i)]
           Solvable(n) == \E f : Solves(f, n)
<1>1. \E f : Solves(f, 0)
  <2>1. [i \in 0..0 |-> <<>>] = [i \in 0..0 |-> AmongStep(s, S, [k \in 0..0 |-> <<>>], i)]
    BY DEF AmongStep
  <2> QED
    BY <2>1
<1>2. ASSUME NEW n \in Nat, NEW f, Solves(f, n)
      PROVE  \E g : Solves(g, n + 1)
  <2> DEFINE g == [i \in 0..(n + 1) |-> AmongStep(s, S, f, i)]
  <2>1. \A i \in 0..n : g[i] = f[i]
    BY <1>2
  <2>2. \A i \in 0..(n + 1) : AmongStep(s, S, f, i) = AmongStep(s, S, g, i)
    <3> SUFFICES ASSUME NEW i \in 0..(n + 1), i # 0 PROVE f[i - 1] = g[i - 1]
      BY DEF AmongStep
    <3>1. i - 1 \in 0..n
      BY <1>2
    <3> QED
      BY <2>1, <3>1
  <2> QED
    BY <2>2
<1>3. Solvable(0) /\ \A n \in Nat : Solvable(n) => Solvable(n + 1)
    BY <1>1, <1>2
<1> HIDE DEF Solvable
<1> DEFINE N == {n \in Nat : Solvable(n)}
<1>4. N \in SUBSET Nat /\ 0 \in N /\ \A n \in N : n + 1 \in N
    BY <1>3
<1> HIDE DEF N
<1>5. N = Nat
    BY <1>4, Induction
<1>6. Solvable(Len(s))
    BY <1>5 DEF N
<1> QED
    BY <1>6 DEF Solvable, IsAmong

\* A selection of a sequence is a sequence of entries of it.
LEMMA AmongType ==
    ASSUME NEW J, NEW s \in Seq(J), NEW S
    PROVE  Among(s, S) \in Seq(J) /\ ToSet(Among(s, S)) \subseteq ToSet(s) \cap S
<1> DEFINE f == CHOOSE g : IsAmong(g, s, S)
           E == ToSet(s) \cap S
<1>1. Len(s) \in Nat
    OBVIOUS
<1>2. IsAmong(f, s, S) /\ Among(s, S) = f[Len(s)]
    BY <1>1, AmongExists, AmongIsChosen
<1> HIDE DEF f
<1>3. \A i \in 1..Len(s) : s[i] \in S => s[i] \in E
    BY DEF ToSet
<1> HIDE DEF E
<1> DEFINE N == {n \in Nat : n <= Len(s) => f[n] \in Seq(E)}
<1>4. \A i \in 0..Len(s) : f[i] = AmongStep(s, S, f, i)
    BY <1>2 DEF IsAmong
<1>5. f[0] \in Seq(E)
  <2>1. 0 \in 0..Len(s)
    BY <1>1
  <2>2. f[0] = <<>>
    BY <1>4, <2>1, Zenon DEF AmongStep
  <2> QED
    BY <2>2
<1>6. ASSUME NEW n \in N, n + 1 <= Len(s) PROVE f[n + 1] \in Seq(E)
  <2>1. f[n] \in Seq(E) /\ n + 1 \in 1..Len(s) /\ n + 1 \in 0..Len(s) /\ (n + 1) - 1 = n /\ n + 1 # 0
    BY <1>1, <1>3, <1>6
  <2>2. f[n + 1] = IF s[n + 1] \in S THEN Append(f[n], s[n + 1]) ELSE f[n]
    BY <1>4, <2>1 DEF AmongStep
  <2> QED
    BY <1>3, <2>1, <2>2
<1>7. N \in SUBSET Nat /\ 0 \in N /\ \A n \in N : n + 1 \in N
    BY <1>5, <1>6
<1>8. f[Len(s)] \in Seq(E)
  <2> HIDE DEF N
  <2>1. N = Nat
    BY <1>7, Induction
  <2> QED
    BY <1>1, <2>1 DEF N
<1>9. E \subseteq J
    BY DEF E, ToSet
<1>10. \A t \in Seq(E) : t \in Seq(J) /\ ToSet(t) \subseteq E
    BY <1>9 DEF ToSet
<1> QED
    BY <1>2, <1>8, <1>10 DEF E

LEMMA InToSet ==
    ASSUME NEW J, NEW s \in Seq(J)
    PROVE  ToSet(s) = {s[i] : i \in 1..Len(s)}
BY DEF ToSet

\* The entries from position a + 1 to b.
LEMMA InSubSeq ==
    ASSUME NEW J, NEW s \in Seq(J), NEW b \in 0..Len(s), NEW a \in 0..b
    PROVE  /\ SubSeq(s, a + 1, b) \in Seq(J)
           /\ ToSet(SubSeq(s, a + 1, b)) = {s[i] : i \in (a + 1)..b}
<1> DEFINE t == SubSeq(s, a + 1, b)
<1>1. t \in Seq(J) /\ Len(t) = b - a /\ \A i \in 1..(b - a) : t[i] = s[a + i]
    OBVIOUS
<1> HIDE DEF t
<1>2. ToSet(t) = {t[i] : i \in 1..(b - a)}
    BY <1>1, InToSet
<1>3. ASSUME NEW x \in ToSet(t) PROVE x \in {s[i] : i \in (a + 1)..b}
  <2>1. PICK i \in 1..(b - a) : x = t[i]
    BY <1>2
  <2>2. a + i \in (a + 1)..b
    OBVIOUS
  <2> QED
    BY <1>1, <2>1, <2>2
<1>4. ASSUME NEW i \in (a + 1)..b PROVE s[i] \in ToSet(t)
  <2>1. i - a \in 1..(b - a) /\ a + (i - a) = i
    OBVIOUS
  <2> QED
    BY <1>1, <1>2, <2>1
<1> QED
    BY <1>1, <1>3, <1>4 DEF t

\* The entries from a position on are those up to a later one and those after it.
LEMMA SplitSet ==
    ASSUME NEW J, NEW s \in Seq(J), NEW b \in 0..Len(s), NEW a \in 0..b
    PROVE  /\ SubSeq(s, a + 1, b) \in Seq(J)
           /\ ToSet(SubSeq(s, a + 1, b)) \subseteq ToSet(s)
           /\ ToSet(SubSeq(s, a + 1, Len(s)))
                  = ToSet(SubSeq(s, a + 1, b)) \cup ToSet(SubSeq(s, b + 1, Len(s)))
<1>1. /\ Len(s) \in Nat /\ Len(s) \in 0..Len(s) /\ a \in 0..Len(s) /\ b \in 0..Len(s)
      /\ (a + 1)..b \subseteq 1..Len(s)
      /\ (a + 1)..Len(s) = ((a + 1)..b) \cup ((b + 1)..Len(s))
    OBVIOUS
<1>2. /\ SubSeq(s, a + 1, b) \in Seq(J)
      /\ ToSet(SubSeq(s, a + 1, b)) = {s[i] : i \in (a + 1)..b}
      /\ ToSet(SubSeq(s, a + 1, Len(s))) = {s[i] : i \in (a + 1)..Len(s)}
      /\ ToSet(SubSeq(s, b + 1, Len(s))) = {s[i] : i \in (b + 1)..Len(s)}
    BY <1>1, InSubSeq
<1>3. ToSet(s) = {s[i] : i \in 1..Len(s)}
    BY InToSet
<1> QED
    BY <1>1, <1>2, <1>3, Zenon

\* Appending an entry.
LEMMA AppendOne ==
    ASSUME NEW J, NEW s \in Seq(J), NEW x \in J
    PROVE  LET t == Append(s, x)
           IN  /\ t \in Seq(J) /\ Len(s) \in Nat /\ Len(t) = Len(s) + 1
               /\ t[Len(s) + 1] = x /\ \A i \in 1..Len(s) : t[i] = s[i]
OBVIOUS

LEMMA AppendTo ==
    ASSUME NEW J, NEW s \in Seq(J), NEW x \in J
    PROVE  /\ Append(s, x) \in Seq(J) /\ Len(Append(s, x)) = Len(s) + 1
           /\ ToSet(Append(s, x)) = ToSet(s) \cup {x}
<1> DEFINE t == Append(s, x)
           n == Len(s)
<1>1. /\ t \in Seq(J) /\ Len(t) = n + 1 /\ n \in Nat
      /\ t[n + 1] = x /\ \A i \in 1..n : t[i] = s[i]
      /\ 1..(n + 1) = (1..n) \cup {n + 1}
    OBVIOUS
<1> HIDE DEF t
<1>2. ToSet(s) = {s[i] : i \in 1..n} /\ ToSet(t) = {t[i] : i \in 1..(n + 1)}
    BY <1>1, InToSet
<1> HIDE DEF n
<1>3. {t[i] : i \in 1..(n + 1)} = {s[i] : i \in 1..n} \cup {x}
    BY <1>1
<1>4. ToSet(t) = ToSet(s) \cup {x}
    BY <1>2, <1>3, Zenon
<1> QED
    BY <1>1, <1>4 DEF t, n

\* The entries from a position on, before and after an entry is appended.
LEMMA AppendSet ==
    ASSUME NEW J, NEW s \in Seq(J), NEW x \in J, NEW a \in 0..Len(s)
    PROVE  ToSet(SubSeq(Append(s, x), a + 1, Len(Append(s, x))))
               = ToSet(SubSeq(s, a + 1, Len(s))) \cup {x}
<1> DEFINE t == Append(s, x)
           n == Len(s)
<1>1. /\ t \in Seq(J) /\ Len(t) = n + 1 /\ n \in Nat
      /\ t[n + 1] = x /\ \A i \in 1..n : t[i] = s[i]
    OBVIOUS
<1> HIDE DEF t
<1>2. /\ n \in 0..n /\ n + 1 \in 0..(n + 1) /\ a \in 0..(n + 1)
      /\ (a + 1)..(n + 1) = ((a + 1)..n) \cup {n + 1}
      /\ (a + 1)..n \subseteq 1..n
    BY <1>1
<1>3. /\ ToSet(SubSeq(t, a + 1, n + 1)) = {t[i] : i \in (a + 1)..(n + 1)}
      /\ ToSet(SubSeq(s, a + 1, n)) = {s[i] : i \in (a + 1)..n}
    BY <1>1, <1>2, InSubSeq
<1> HIDE DEF n
<1>4. ASSUME NEW I \in SUBSET (1..n)
      PROVE  {t[i] : i \in I \cup {n + 1}} = {s[i] : i \in I} \cup {x}
    BY <1>1, <1>4
<1>5. {t[i] : i \in (a + 1)..(n + 1)} = {s[i] : i \in (a + 1)..n} \cup {x}
    BY <1>2, <1>4, Zenon
<1>6. ToSet(SubSeq(t, a + 1, Len(t))) = ToSet(SubSeq(s, a + 1, n)) \cup {x}
    BY <1>1, <1>3, <1>5, Zenon
<1> QED
    BY <1>6 DEF t, n

\* The first a entries, which a later entry leaves as they are.
LEMMA FirstSet ==
    ASSUME NEW J, NEW s \in Seq(J), NEW a \in 0..Len(s)
    PROVE  /\ ToSet(SubSeq(s, 1, a)) = {s[i] : i \in 1..a}
           /\ ToSet(SubSeq(s, 1, a)) \subseteq ToSet(s)
<1>1. 0 \in 0..a /\ 0 + 1 = 1 /\ 1..a \subseteq 1..Len(s)
    OBVIOUS
<1>2. ToSet(SubSeq(s, 0 + 1, a)) = {s[i] : i \in (0 + 1)..a}
    BY <1>1, InSubSeq
<1>3. ToSet(SubSeq(s, 1, a)) = {s[i] : i \in 1..a}
    BY <1>1, <1>2, Zenon
<1> QED
    BY <1>1, <1>3, InToSet, Zenon

LEMMA AppendKeepsFirst ==
    ASSUME NEW J, NEW s \in Seq(J), NEW x \in J, NEW a \in 0..Len(s)
    PROVE  ToSet(SubSeq(Append(s, x), 1, a)) = ToSet(SubSeq(s, 1, a))
<1> DEFINE t == Append(s, x)
<1>1. /\ t \in Seq(J) /\ a \in 0..Len(t) /\ \A i \in 1..a : t[i] = s[i]
    OBVIOUS
<1> HIDE DEF t
<1>2. {t[i] : i \in 1..a} = {s[i] : i \in 1..a}
    BY <1>1
<1>3. /\ ToSet(SubSeq(t, 1, a)) = {t[i] : i \in 1..a}
      /\ ToSet(SubSeq(s, 1, a)) = {s[i] : i \in 1..a}
    BY <1>1, FirstSet
<1>4. ToSet(SubSeq(t, 1, a)) = ToSet(SubSeq(s, 1, a))
    BY <1>2, <1>3, Zenon
<1> QED
    BY <1>4 DEF t

LEMMA TailSet ==
    ASSUME NEW J, NEW s \in Seq(J), s # <<>>
    PROVE  /\ Head(s) \in ToSet(s) /\ Head(s) \in J /\ Tail(s) \in Seq(J)
           /\ ToSet(s) = ToSet(Tail(s)) \cup {Head(s)}
<1> DEFINE t == Tail(s)
<1>1. /\ t \in Seq(J) /\ Len(t) = Len(s) - 1 /\ Len(s) \in Nat /\ Len(s) >= 1
      /\ Head(s) = s[1] /\ s[1] \in J
      /\ \A i \in 1..(Len(s) - 1) : t[i] = s[i + 1] /\ i + 1 \in 1..Len(s)
    OBVIOUS
<1> HIDE DEF t
<1>2. ToSet(s) = {s[i] : i \in 1..Len(s)} /\ ToSet(t) = {t[i] : i \in 1..Len(t)}
    BY <1>1, InToSet
<1>3. Head(s) \in ToSet(s)
    BY <1>1, <1>2
<1>4. ToSet(t) \subseteq ToSet(s)
    BY <1>1, <1>2
<1>5. ASSUME NEW i \in 1..Len(s), s[i] # Head(s) PROVE s[i] \in ToSet(t)
  <2>1. i - 1 \in 1..Len(t) /\ t[i - 1] = s[i]
    BY <1>1, <1>5
  <2> QED
    BY <1>2, <2>1
<1>6. ToSet(s) = ToSet(t) \cup {Head(s)}
    BY <1>2, <1>3, <1>4, <1>5
<1> QED
    BY <1>1, <1>3, <1>6 DEF t

LEMMA FiniteEntries ==
    ASSUME NEW J, NEW s \in Seq(J)
    PROVE  IsFiniteSet(ToSet(s)) /\ s \in Seq(ToSet(s))
<1>1. Len(s) \in Nat /\ s \in [1..Len(s) -> J]
    OBVIOUS
<1>2. ToSet(s) = {s[i] : i \in 1..Len(s)}
    BY InToSet
<1> DEFINE n == Len(s)
           T == ToSet(s)
<1> HIDE DEF n, T
<1>3. s \in [1..n -> T] /\ \A x \in T : \E i \in 1..n : s[i] = x
    BY <1>1, <1>2 DEF n, T
<1>4. s \in Surjection(1..n, T)
    BY <1>3 DEF Surjection
<1>5. IsFiniteSet(1..n) /\ n \in Nat
    BY <1>1, FS_Interval DEF n
<1>6. IsFiniteSet(T)
    BY <1>4, <1>5, FS_Surjection
<1>7. s \in Seq(T)
    BY <1>3, <1>5
<1> QED
    BY <1>6, <1>7 DEF T

\* Entries that are all selected stay where they are.
LEMMA AmongPrefix ==
    ASSUME NEW J, NEW s \in Seq(J), NEW S, NEW k \in 0..Len(s), \A i \in 1..k : s[i] \in S
    PROVE  /\ Among(s, S) \in Seq(J)
           /\ Len(Among(s, S)) \in k..Len(s)
           /\ \A i \in 1..k : Among(s, S)[i] = s[i]
<1> DEFINE f == CHOOSE g : IsAmong(g, s, S)
           Good(n) == /\ f[n] \in Seq(J) /\ Len(f[n]) <= n
                      /\ \A i \in 1..k : i <= n => i <= Len(f[n]) /\ f[n][i] = s[i]
           N == {n \in Nat : n <= Len(s) => Good(n)}
<1>1. Len(s) \in Nat /\ \A i \in 1..Len(s) : s[i] \in J
    OBVIOUS
<1>2. IsAmong(f, s, S) /\ Among(s, S) = f[Len(s)]
    BY <1>1, AmongExists, AmongIsChosen
<1> HIDE DEF f
<1>3. \A i \in 0..Len(s) : f[i] = AmongStep(s, S, f, i)
    BY <1>2 DEF IsAmong
<1>4. Good(0)
  <2>1. 0 \in 0..Len(s)
    BY <1>1
  <2>2. f[0] = <<>>
    BY <1>3, <2>1, Zenon DEF AmongStep
  <2> QED
    BY <2>2
<1>5. ASSUME NEW n \in Nat, n + 1 <= Len(s), Good(n) PROVE Good(n + 1)
  <2>1. n + 1 \in 1..Len(s) /\ n + 1 \in 0..Len(s) /\ (n + 1) - 1 = n /\ n + 1 # 0
    BY <1>1, <1>5
  <2>2. f[n + 1] = IF s[n + 1] \in S THEN Append(f[n], s[n + 1]) ELSE f[n]
    BY <1>3, <2>1 DEF AmongStep
  <2> DEFINE t == f[n]
             x == s[n + 1]
  <2>3. /\ t \in Seq(J) /\ Len(t) <= n /\ x \in J /\ Len(t) \in Nat
        /\ \A i \in 1..k : i <= n => i <= Len(t) /\ t[i] = s[i]
        /\ f[n + 1] = IF x \in S THEN Append(t, x) ELSE t
        /\ n + 1 <= k => x \in S
    BY <1>1, <1>5, <2>1, <2>2
  <2>4. n <= k => Len(t) = n
    <3>1. CASE n = 0
      BY <2>3, <3>1
    <3>2. CASE n # 0
      BY <2>3, <3>2
    <3> QED
      BY <3>1, <3>2
  <2> HIDE DEF t, x
  <2>5. CASE x \in S
    <3>1. /\ f[n + 1] \in Seq(J) /\ Len(f[n + 1]) = Len(t) + 1
          /\ \A i \in 1..Len(t) : f[n + 1][i] = t[i]
          /\ f[n + 1][Len(t) + 1] = x
      BY <2>3, <2>5
    <3>2. ASSUME NEW i \in 1..k, i <= n + 1
          PROVE  i <= Len(f[n + 1]) /\ f[n + 1][i] = s[i]
      <4>1. CASE i <= n
        BY <2>3, <3>1, <4>1
      <4>2. CASE i = n + 1
        <5>1. Len(t) = n
          BY <2>4, <4>2
        <5> QED
          BY <3>1, <4>2, <5>1 DEF x
      <4> QED
        BY <3>2, <4>1, <4>2
    <3> QED
      BY <2>3, <3>1, <3>2
  <2>6. CASE x \notin S
    <3>1. f[n + 1] = t /\ ~(n + 1 <= k)
      BY <2>3, <2>6
    <3> QED
      BY <2>3, <3>1
  <2> QED
    BY <2>5, <2>6
<1> HIDE DEF Good
<1>6. N \in SUBSET Nat /\ 0 \in N /\ \A n \in N : n + 1 \in N
    BY <1>1, <1>4, <1>5
<1> HIDE DEF N
<1>7. N = Nat
    BY <1>6, Induction
<1>8. Good(Len(s))
    BY <1>1, <1>7 DEF N
<1> DEFINE a == Among(s, S)
<1>9. /\ a \in Seq(J) /\ Len(a) <= Len(s)
      /\ \A i \in 1..k : i <= Len(s) => i <= Len(a) /\ a[i] = s[i]
    BY <1>2, <1>8 DEF Good
<1> HIDE DEF a
<1>10. Len(a) >= k
  <2>1. CASE k = 0
    BY <1>9, <2>1
  <2>2. CASE k # 0
    BY <1>9, <2>2
  <2> QED
    BY <2>1, <2>2
<1> QED
    BY <1>9, <1>10 DEF a

-----------------------------------------------------------------------------
(* Sequences in which no entry occurs twice                                *)

LEMMA InjectiveAppend ==
    ASSUME NEW J, NEW s \in Seq(J), IsInjective(s), NEW x \in J \ ToSet(s)
    PROVE  IsInjective(Append(s, x))
<1> DEFINE t == Append(s, x)
<1>1. /\ Len(s) \in Nat /\ DOMAIN s = 1..Len(s) /\ DOMAIN t = 1..(Len(s) + 1)
      /\ t[Len(s) + 1] = x /\ \A i \in 1..Len(s) : t[i] = s[i]
    OBVIOUS
<1> HIDE DEF t
<1>2. \A i \in 1..Len(s) : s[i] # x
    BY InToSet
<1> QED
    BY <1>1, <1>2 DEF IsInjective, t

LEMMA InjectiveTail ==
    ASSUME NEW J, NEW s \in Seq(J), IsInjective(s), s # <<>>
    PROVE  IsInjective(Tail(s)) /\ Head(s) \notin ToSet(Tail(s))
<1> DEFINE t == Tail(s)
<1>1. /\ t \in Seq(J) /\ Len(s) \in Nat /\ Len(s) >= 1 /\ Len(t) = Len(s) - 1
      /\ DOMAIN s = 1..Len(s) /\ DOMAIN t = 1..(Len(s) - 1)
      /\ Head(s) = s[1]
      /\ \A i \in 1..(Len(s) - 1) : t[i] = s[i + 1] /\ i + 1 \in 1..Len(s) /\ i + 1 # 1
    OBVIOUS
<1> HIDE DEF t
<1>2. ToSet(t) = {t[i] : i \in 1..(Len(s) - 1)}
    BY <1>1, InToSet
<1>3. \A i, k \in DOMAIN s : s[i] = s[k] => i = k
    BY DEF IsInjective
<1>4. IsInjective(t)
    BY <1>1, <1>3 DEF IsInjective
<1>5. Head(s) \notin ToSet(t)
    BY <1>1, <1>2, <1>3
<1> QED
    BY <1>4, <1>5 DEF t

LEMMA InjectiveSubSeq ==
    ASSUME NEW J, NEW s \in Seq(J), IsInjective(s), NEW b \in 0..Len(s), NEW a \in 0..b
    PROVE  /\ IsInjective(SubSeq(s, a + 1, b))
           /\ ToSet(SubSeq(s, 1, a)) \cap ToSet(SubSeq(s, a + 1, b)) = {}
           /\ ToSet(SubSeq(s, 1, b)) = ToSet(SubSeq(s, 1, a)) \cup ToSet(SubSeq(s, a + 1, b))
<1> DEFINE t == SubSeq(s, a + 1, b)
<1>1. /\ DOMAIN t = 1..(b - a) /\ DOMAIN s = 1..Len(s) /\ Len(s) \in Nat
      /\ \A i \in 1..(b - a) : t[i] = s[a + i] /\ a + i \in 1..Len(s)
    OBVIOUS
<1>2. /\ 0 \in 0..a /\ a \in 0..Len(s) /\ 0 \in 0..b /\ 0 + 1 = 1
      /\ 1..b = (1..a) \cup ((a + 1)..b) /\ 1..b \subseteq 1..Len(s)
      /\ \A i \in 1..a : \A k \in (a + 1)..b : i # k
    OBVIOUS
<1>3. ToSet(t) = {s[i] : i \in (a + 1)..b}
    BY InSubSeq
<1>4. /\ ToSet(SubSeq(s, 1, a)) = {s[i] : i \in 1..a}
      /\ ToSet(SubSeq(s, 1, b)) = {s[i] : i \in 1..b}
    BY <1>2, FirstSet
<1>5. \A i, k \in 1..Len(s) : s[i] = s[k] => i = k
    BY <1>1 DEF IsInjective
<1>6. IsInjective(t)
  <2> HIDE DEF t
  <2> SUFFICES ASSUME NEW i \in 1..(b - a), NEW k \in 1..(b - a), t[i] = t[k]
               PROVE  i = k
    BY <1>1 DEF IsInjective
  <2>1. a + i = a + k
    BY <1>1, <1>5
  <2> QED
    BY <2>1
<1> HIDE DEF t
<1>7. ToSet(SubSeq(s, 1, a)) \cap ToSet(t) = {}
  <2> SUFFICES ASSUME NEW i \in 1..a, NEW k \in (a + 1)..b, s[i] = s[k] PROVE FALSE
    BY <1>3, <1>4, Zenon
  <2> QED
    BY <1>2, <1>5
<1>8. ToSet(SubSeq(s, 1, b)) = ToSet(SubSeq(s, 1, a)) \cup ToSet(t)
    BY <1>2, <1>3, <1>4, Zenon
<1> QED
    BY <1>6, <1>7, <1>8 DEF t

LEMMA InjectiveAmong ==
    ASSUME NEW J, NEW s \in Seq(J), IsInjective(s), NEW S
    PROVE  IsInjective(Among(s, S))
<1> DEFINE f == CHOOSE g : IsAmong(g, s, S)
           First(n) == {s[i] : i \in 1..n}
           Good(n) == f[n] \in Seq(J) /\ IsInjective(f[n]) /\ ToSet(f[n]) \subseteq First(n)
           N == {n \in Nat : n <= Len(s) => Good(n)}
<1>1. Len(s) \in Nat /\ DOMAIN s = 1..Len(s) /\ \A i \in 1..Len(s) : s[i] \in J
    OBVIOUS
<1>2. IsAmong(f, s, S) /\ Among(s, S) = f[Len(s)]
    BY <1>1, AmongExists, AmongIsChosen
<1> HIDE DEF f
<1>3. \A i \in 0..Len(s) : f[i] = AmongStep(s, S, f, i)
    BY <1>2 DEF IsAmong
<1>4. Good(0)
  <2>1. 0 \in 0..Len(s)
    BY <1>1
  <2>2. f[0] = <<>>
    BY <1>3, <2>1, Zenon DEF AmongStep
  <2> QED
    BY <2>2 DEF IsInjective, ToSet
<1>5. ASSUME NEW n \in Nat, n + 1 <= Len(s), Good(n) PROVE Good(n + 1)
  <2>1. /\ n + 1 \in 1..Len(s) /\ n + 1 \in 0..Len(s) /\ (n + 1) - 1 = n /\ n + 1 # 0
        /\ 1..(n + 1) = (1..n) \cup {n + 1} /\ 1..n \subseteq 1..Len(s)
        /\ \A i \in 1..n : i # n + 1
    BY <1>1, <1>5
  <2>2. f[n + 1] = IF s[n + 1] \in S THEN Append(f[n], s[n + 1]) ELSE f[n]
    BY <1>3, <2>1 DEF AmongStep
  <2>3. First(n + 1) = First(n) \cup {s[n + 1]}
    BY <2>1, Zenon
  <2>4. s[n + 1] \notin First(n) /\ s[n + 1] \in J
    BY <1>1, <2>1 DEF IsInjective
  <2> HIDE DEF First
  <2>5. CASE s[n + 1] \in S
    <3>1. f[n + 1] = Append(f[n], s[n + 1])
      BY <2>2, <2>5
    <3>2. f[n] \in Seq(J) /\ IsInjective(f[n]) /\ s[n + 1] \in J \ ToSet(f[n])
      BY <1>5, <2>4
    <3>3. IsInjective(f[n + 1])
      BY <3>1, <3>2, InjectiveAppend
    <3>4. f[n + 1] \in Seq(J) /\ ToSet(f[n + 1]) = ToSet(f[n]) \cup {s[n + 1]}
      BY <3>1, <3>2, AppendTo
    <3> QED
      BY <1>5, <2>3, <3>3, <3>4
  <2>6. CASE s[n + 1] \notin S
    BY <1>5, <2>2, <2>3, <2>6
  <2> QED
    BY <2>5, <2>6
<1> HIDE DEF Good
<1>6. N \in SUBSET Nat /\ 0 \in N /\ \A n \in N : n + 1 \in N
    BY <1>1, <1>4, <1>5
<1> HIDE DEF N
<1>7. N = Nat
    BY <1>6, Induction
<1>8. Good(Len(s))
    BY <1>1, <1>7 DEF N
<1> QED
    BY <1>2, <1>8 DEF Good

-----------------------------------------------------------------------------
(* Ranking                                                                 *)

Down(S, R, x) == {y \in S : y = x \/ <<y, x>> \in R}

\* In a strict total order of a finite set, the elements take the places from 1 on,
\* one each.
LEMMA RankingIsOneToOne ==
    ASSUME NEW S, IsFiniteSet(S), NEW R,
           \A x \in S : <<x, x>> \notin R,
           \A x, y, z \in S : <<x, y>> \in R /\ <<y, z>> \in R => <<x, z>> \in R,
           \A x, y \in S : x = y \/ <<x, y>> \in R \/ <<y, x>> \in R
    PROVE  /\ \A x \in S : Cardinality(Down(S, R, x)) \in 1..Cardinality(S)
           /\ \A i \in 1..Cardinality(S) : \E x \in S : Cardinality(Down(S, R, x)) = i
           /\ \A x, y \in S :
                 Cardinality(Down(S, R, x)) < Cardinality(Down(S, R, y)) <=> <<x, y>> \in R
<1> DEFINE place == [x \in S |-> Cardinality(Down(S, R, x))]
           n == Cardinality(S)
<1>1. \A x \in S : /\ Down(S, R, x) \subseteq S /\ x \in Down(S, R, x)
                   /\ IsFiniteSet(Down(S, R, x))
    BY FS_Subset DEF Down
<1>2. n \in Nat
    BY FS_CardinalityType
<1>3. \A x \in S : place[x] \in 1..n
  <2> SUFFICES ASSUME NEW x \in S PROVE place[x] \in 1..n
    OBVIOUS
  <2>1. Cardinality(Down(S, R, x)) \in Nat /\ Cardinality(Down(S, R, x)) # 0
    BY <1>1, FS_CardinalityType, FS_EmptySet
  <2>2. Cardinality(Down(S, R, x)) <= n
    BY <1>1, FS_Subset
  <2> QED
    BY <1>2, <2>1, <2>2
<1>4. ASSUME NEW x \in S, NEW y \in S, <<x, y>> \in R
      PROVE  place[x] < place[y]
  <2>1. Down(S, R, x) \subseteq Down(S, R, y) /\ y \notin Down(S, R, x)
    BY <1>4 DEF Down
  <2>2. Down(S, R, x) # Down(S, R, y)
    BY <1>1, <2>1
  <2> DEFINE D == Down(S, R, x)
             E == Down(S, R, y)
  <2>3. D \in SUBSET E /\ D # E /\ IsFiniteSet(E)
    BY <1>1, <2>1, <2>2
  <2> HIDE DEF D, E
  <2>4. Cardinality(D) <= Cardinality(E) /\ Cardinality(D) # Cardinality(E)
    BY <2>3, FS_Subset
  <2>5. place[x] = Cardinality(D) /\ place[y] = Cardinality(E)
    BY DEF D, E
  <2> HIDE DEF place
  <2> QED
    BY <1>2, <1>3, <2>4, <2>5
<1> HIDE DEF n
<1>5. \A x, y \in S : place[x] < place[y] <=> <<x, y>> \in R
  <2> HIDE DEF place
  <2> SUFFICES ASSUME NEW x \in S, NEW y \in S, place[x] < place[y] PROVE <<x, y>> \in R
    BY <1>4
  <2>1. x # y /\ ~(place[y] < place[x])
    BY <1>2, <1>3
  <2> QED
    BY <1>4, <2>1
<1>6. place \in Surjection(S, 1..n)
  <2>1. place \in [S -> 1..n]
    BY <1>3
  <2>2. \A x, y \in S : place[x] = place[y] => x = y
    <3> HIDE DEF place
    <3> SUFFICES ASSUME NEW x \in S, NEW y \in S, place[x] = place[y], x # y PROVE FALSE
      OBVIOUS
    <3>1. place[x] < place[y] \/ place[y] < place[x]
      BY <1>4
    <3> QED
      BY <1>2, <1>3, <3>1
  <2> HIDE DEF place
  <2>3. place \in Injection(S, 1..n)
    BY <2>1, <2>2 DEF Injection, IsInjective
  <2>4. IsFiniteSet(1..n) /\ Cardinality(1..n) = n
    BY <1>2, FS_Interval
  <2> QED
    BY <2>3, <2>4, FS_Injection DEF n
<1>7. \A i \in 1..n : \E x \in S : place[x] = i
  <2> HIDE DEF place
  <2> QED
    BY <1>6 DEF Surjection
<1>8. \A x \in S : place[x] = Cardinality(Down(S, R, x))
    OBVIOUS
<1> HIDE DEF place
<1> QED
    BY <1>3, <1>5, <1>7, <1>8 DEF n

=============================================================================
