---------------------------- MODULE HistoryProofs ----------------------------
(* Theorems about the programs that work on histories: the trainer with the   *)
(* server that loads its files, and the backtests.                            *)
EXTENDS Programs, FiniteSetTheorems, SequenceTheorems, WellFoundedInduction, TLAPS

(* A non-empty finite set has a first element in any total preorder.  This is *)
(* induction on finite sets, by the smallest subset that has none.            *)
LEMMA FirstElement ==
    ASSUME NEW S, IsFiniteSet(S), NEW R,
           \A x, y \in S : <<x, y>> \in R \/ <<y, x>> \in R,
           \A x, y, z \in S : <<x, y>> \in R /\ <<y, z>> \in R => <<x, z>> \in R,
           S # {}
    PROVE  \E x \in S : \A y \in S : <<x, y>> \in R
<1> DEFINE Has(U) == \E x \in U : \A y \in U : <<x, y>> \in R
           Lacks == {U \in SUBSET S : U # {} /\ ~Has(U)}
           Order == StrictSubsetOrdering(S)
<1>1. IsWellFoundedOn(Order, SUBSET S)
  BY FS_FiniteSubsetsOfFinite, FS_StrictSubsetOrderingWellFounded
<1>2. SUFFICES ASSUME Lacks # {} PROVE FALSE
  OBVIOUS
<1>3. Lacks \subseteq SUBSET S
  OBVIOUS
<1>4. PICK U \in Lacks : \A V \in Lacks : ~(<<V, U>> \in Order)
  <2> HIDE DEF Lacks, Order
  <2> QED
    BY <1>1, <1>2, <1>3, WFMin
<1>5. PICK x \in U : TRUE
  BY <1>4
<1>6. U \ {x} \notin Lacks
  <2>1. <<U \ {x}, U>> \in Order
    BY <1>4, <1>5 DEF StrictSubsetOrdering
  <2> QED
    BY <1>4, <2>1
<1>7. CASE U = {x}
  <2>1. <<x, x>> \in R
    BY <1>4, <1>5
  <2> QED
    BY <1>4, <1>7, <2>1
<1>8. CASE U # {x}
  <2>1. PICK y \in U \ {x} : \A z \in U \ {x} : <<y, z>> \in R
    BY <1>4, <1>5, <1>6, <1>8
  <2>2. /\ x \in S /\ y \in S /\ U \subseteq S
        /\ <<x, x>> \in R /\ (<<x, y>> \in R \/ <<y, x>> \in R)
    BY <1>4, <1>5, <2>1
  <2>3. CASE <<x, y>> \in R
    BY <1>4, <1>5, <2>1, <2>2, <2>3
  <2>4. CASE <<y, x>> \in R
    BY <1>4, <1>5, <2>1, <2>2, <2>4
  <2> QED
    BY <2>2, <2>3, <2>4
<1> QED
  BY <1>7, <1>8

(* A non-empty finite set of integers has a least and a greatest element,     *)
(* which Min and Max name.                                                    *)
LEMMA Extremes ==
    ASSUME NEW S \in SUBSET Int, IsFiniteSet(S), S # {}
    PROVE  /\ Min(S) \in S /\ \A y \in S : Min(S) <= y
           /\ Max(S) \in S /\ \A y \in S : Max(S) >= y
<1>1. \E x \in S : \A y \in S : x <= y
  <2> DEFINE R == {p \in S \X S : p[1] <= p[2]}
  <2>1. /\ \A x, y \in S : <<x, y>> \in R \/ <<y, x>> \in R
        /\ \A x, y, z \in S : <<x, y>> \in R /\ <<y, z>> \in R => <<x, z>> \in R
    OBVIOUS
  <2>2. \A x, y : <<x, y>> \in R => x <= y
    OBVIOUS
  <2> HIDE DEF R
  <2>3. \E x \in S : \A y \in S : <<x, y>> \in R
    BY <2>1, FirstElement
  <2> QED
    BY <2>2, <2>3
<1>2. \E x \in S : \A y \in S : x >= y
  <2> DEFINE R == {p \in S \X S : p[1] >= p[2]}
  <2>1. /\ \A x, y \in S : <<x, y>> \in R \/ <<y, x>> \in R
        /\ \A x, y, z \in S : <<x, y>> \in R /\ <<y, z>> \in R => <<x, z>> \in R
    OBVIOUS
  <2>2. \A x, y : <<x, y>> \in R => x >= y
    OBVIOUS
  <2> HIDE DEF R
  <2>3. \E x \in S : \A y \in S : <<x, y>> \in R
    BY <2>1, FirstElement
  <2> QED
    BY <2>2, <2>3
<1> QED
  BY <1>1, <1>2 DEF Min, Max

-----------------------------------------------------------------------------
(* Sums over finite sets.                                                     *)

(* Of some subsets of a finite set, one contains none of the others.          *)
LEMMA SmallestSubset ==
    ASSUME NEW S, IsFiniteSet(S), NEW X \in SUBSET (SUBSET S), X # {}
    PROVE  \E U \in X : \A V \in SUBSET U : V # U => V \notin X
<1>1. IsWellFoundedOn(StrictSubsetOrdering(S), SUBSET S)
  BY FS_FiniteSubsetsOfFinite, FS_StrictSubsetOrderingWellFounded
<1>2. PICK U \in X : \A V \in X : ~(<<V, U>> \in StrictSubsetOrdering(S))
  BY <1>1, WFMin
<1> QED
  BY <1>2 DEF StrictSubsetOrdering

(* The sum of a function over a set is defined through its sums over all the  *)
(* subsets; these are the equations of those.                                 *)
Total(f, S) == SumFunctionOnSet(f, S)
Chosen(s) == CHOOSE x \in s : TRUE
Sums(f, S, g) == [s \in SUBSET S |-> IF s = {} THEN 0 ELSE f[Chosen(s)] + g[s \ {Chosen(s)}]]

LEMMA TotalIsSum ==
    ASSUME NEW f, NEW S
    PROVE  Total(f, S) = (CHOOSE g : g = Sums(f, S, g))[S]
  BY DEF Total, SumFunctionOnSet, FoldFunctionOnSet, MapThenFoldSet, Sums, Chosen

(* The equations have a solution: else there is a least size up to which they *)
(* have none.                                                                 *)
LEMMA SumsExist ==
    ASSUME NEW f, NEW S, IsFiniteSet(S)
    PROVE  \E g : g = Sums(f, S, g)
<1> DEFINE val(g, s) == IF s = {} THEN 0 ELSE f[Chosen(s)] + g[s \ {Chosen(s)}]
           Solves(g, n) == \A s \in SUBSET S : Cardinality(s) <= n => g[s] = val(g, s)
           Bad == {n \in 0..Cardinality(S) : \A g : ~Solves(g, n)}
<1>1. Cardinality(S) \in Nat
  BY FS_CardinalityType
<1>2. ASSUME NEW s \in SUBSET S
      PROVE  /\ Cardinality(s) \in Nat /\ Cardinality(s) <= Cardinality(S)
             /\ Cardinality(s) = 0 => s = {}
             /\ s # {} => Chosen(s) \in s /\ Cardinality(s \ {Chosen(s)}) = Cardinality(s) - 1
  <2>1. IsFiniteSet(s) /\ Cardinality(s) <= Cardinality(S)
    BY FS_Subset
  <2>2. s # {} => Chosen(s) \in s
    BY DEF Chosen
  <2> QED
    BY <2>1, <2>2, FS_CardinalityType, FS_EmptySet, FS_RemoveElement
<1>3. ASSUME NEW n \in Nat, NEW g, n = 0 \/ Solves(g, n - 1)
      PROVE  \E h : Solves(h, n)
  <2> DEFINE h == [s \in SUBSET S |-> val(g, s)]
  <2> HIDE DEF val
  <2>1. ASSUME NEW s \in SUBSET S, Cardinality(s) <= n
        PROVE  val(g, s) = val(h, s)
    <3>1. CASE s = {}
      BY <3>1 DEF val
    <3>2. CASE s # {}
      <4> DEFINE t == s \ {Chosen(s)}
      <4>1. t \in SUBSET S /\ Cardinality(t) <= n - 1 /\ n # 0
        BY <1>2, <2>1, <3>2
      <4>2. g[t] = val(g, t) /\ h[t] = val(g, t)
        BY <1>3, <4>1
      <4> QED
        BY <3>2, <4>2 DEF val
    <3> QED
      BY <3>1, <3>2
  <2>2. Solves(h, n)
    BY <2>1
  <2> HIDE DEF h
  <2> QED
    BY <2>2
<1>4. Bad = {}
  <2> SUFFICES ASSUME Bad # {} PROVE FALSE
    OBVIOUS
  <2> DEFINE n == Min(Bad)
  <2>1. Bad \in SUBSET (0..Cardinality(S)) /\ Bad \in SUBSET Int
    BY <1>1
  <2>2. IsFiniteSet(0..Cardinality(S))
    BY <1>1, FS_Interval
  <2>3. n \in Bad /\ \A m \in Bad : n <= m
    <3> HIDE DEF Bad
    <3> QED
      BY <2>1, <2>2, FS_Subset, Extremes
  <2> HIDE DEF n, Solves
  <2>4. n \in Nat /\ n <= Cardinality(S) /\ \A g : ~Solves(g, n)
    BY <1>1, <2>3
  <2>5. n = 0 \/ \E g : Solves(g, n - 1)
    <3> SUFFICES ASSUME n # 0, \A g : ~Solves(g, n - 1) PROVE FALSE
      OBVIOUS
    <3>1. n - 1 \in 0..Cardinality(S)
      BY <1>1, <2>4
    <3>2. n - 1 \in Bad
      BY <3>1
    <3> QED
      BY <2>3, <2>4, <3>2
  <2> HIDE DEF Bad
  <2> QED
    BY <1>3, <2>4, <2>5
<1>5. PICK g : Solves(g, Cardinality(S))
  <2>1. Cardinality(S) \in 0..Cardinality(S)
    BY <1>1
  <2> HIDE DEF Solves
  <2> QED
    BY <1>4, <2>1
<1> DEFINE h == [s \in SUBSET S |-> g[s]]
<1>6. ASSUME NEW s \in SUBSET S PROVE h[s] = val(h, s)
  <2>1. g[s] = val(g, s)
    BY <1>2, <1>5
  <2>2. s \ {Chosen(s)} \in SUBSET S
    OBVIOUS
  <2> QED
    BY <2>1, <2>2
<1>7. h = Sums(f, S, h)
  BY <1>6 DEF Sums
<1> QED
  BY <1>7

(* What solves the equations of a set solves those of a subset.               *)
LEMMA SumsAgree ==
    ASSUME NEW f, NEW S, IsFiniteSet(S), NEW T \in SUBSET S,
           NEW g, g = Sums(f, S, g), NEW h, h = Sums(f, T, h)
    PROVE  g[T] = h[T]
<1> DEFINE Bad == {U \in SUBSET T : g[U] # h[U]}
<1> SUFFICES ASSUME Bad # {} PROVE FALSE
  OBVIOUS
<1>1. IsFiniteSet(T)
  BY FS_Subset
<1>2. PICK U \in Bad : \A V \in SUBSET U : V # U => V \notin Bad
  <2>1. Bad \in SUBSET (SUBSET T)
    OBVIOUS
  <2> HIDE DEF Bad
  <2> QED
    BY <1>1, <2>1, SmallestSubset
<1>3. U \in SUBSET T /\ U \in SUBSET S /\ g[U] # h[U]
  BY <1>2
<1>4. /\ g[U] = IF U = {} THEN 0 ELSE f[Chosen(U)] + g[U \ {Chosen(U)}]
      /\ h[U] = IF U = {} THEN 0 ELSE f[Chosen(U)] + h[U \ {Chosen(U)}]
  BY <1>3 DEF Sums
<1>5. U # {}
  BY <1>3, <1>4
<1>6. Chosen(U) \in U
  BY <1>5 DEF Chosen
<1>7. U \ {Chosen(U)} \notin Bad
  BY <1>2, <1>6
<1>8. g[U \ {Chosen(U)}] = h[U \ {Chosen(U)}]
  BY <1>3, <1>7
<1> QED
  BY <1>3, <1>4, <1>5, <1>8

(* The sum over nothing, and over something by the element taken first.       *)
LEMMA TotalEmpty == ASSUME NEW f PROVE Total(f, {}) = 0
<1> DEFINE solution == CHOOSE g : g = Sums(f, {}, g)
<1>1. solution = Sums(f, {}, solution)
  BY SumsExist, FS_EmptySet
<1> HIDE DEF solution
<1>2. solution[{}] = 0
  BY <1>1 DEF Sums
<1> QED
  BY <1>2, TotalIsSum DEF solution

LEMMA TotalStep ==
    ASSUME NEW f, NEW S, IsFiniteSet(S)
    PROVE  S # {} => Chosen(S) \in S /\ Total(f, S) = f[Chosen(S)] + Total(f, S \ {Chosen(S)})
<1> DEFINE solution(T) == CHOOSE g : g = Sums(f, T, g)
<1>1. ASSUME NEW T, IsFiniteSet(T)
      PROVE  solution(T) = Sums(f, T, solution(T)) /\ Total(f, T) = solution(T)[T]
  BY <1>1, SumsExist, TotalIsSum
<1> HIDE DEF solution
<1>2. ASSUME S # {}
      PROVE  Chosen(S) \in S /\ Total(f, S) = f[Chosen(S)] + Total(f, S \ {Chosen(S)})
  <2> DEFINE T == S \ {Chosen(S)}
  <2>1. Chosen(S) \in S
    BY <1>2 DEF Chosen
  <2>2. IsFiniteSet(T) /\ T \in SUBSET S
    BY FS_Subset
  <2>3. solution(S)[S] = f[Chosen(S)] + solution(S)[T]
    BY <1>1, <1>2 DEF Sums
  <2>4. solution(S)[T] = solution(T)[T]
    <3> HIDE DEF T
    <3> QED
      BY <1>1, <2>2, SumsAgree
  <2> QED
    BY <1>1, <2>1, <2>2, <2>3, <2>4
<1> QED
  BY <1>2

(* Induction on the subsets of a finite set, by the element taken first.      *)
LEMMA SubsetInduction ==
    ASSUME NEW S, IsFiniteSet(S), NEW X, {} \in X,
           \A U \in SUBSET S : U # {} /\ Chosen(U) \in U /\ U \ {Chosen(U)} \in X => U \in X
    PROVE  S \in X
<1> DEFINE Bad == {U \in SUBSET S : U \notin X}
<1> SUFFICES ASSUME Bad # {} PROVE FALSE
  OBVIOUS
<1>1. PICK U \in Bad : \A V \in SUBSET U : V # U => V \notin Bad
  <2>1. Bad \in SUBSET (SUBSET S)
    OBVIOUS
  <2> HIDE DEF Bad
  <2> QED
    BY <2>1, SmallestSubset
<1>2. U \in SUBSET S /\ U \notin X /\ U # {}
  BY <1>1
<1>3. Chosen(U) \in U
  BY <1>2 DEF Chosen
<1>4. U \ {Chosen(U)} \in X
  BY <1>1, <1>2, <1>3
<1> QED
  BY <1>2, <1>3, <1>4

(* The sum of integers is one, and adds up in any order.                      *)
LEMMA TotalInt ==
    ASSUME NEW f, NEW S, IsFiniteSet(S), \A x \in S : f[x] \in Int
    PROVE  Total(f, S) \in Int
<1> DEFINE X == {U \in SUBSET S : Total(f, U) \in Int}
<1>1. {} \in X
  BY TotalEmpty
<1>2. ASSUME NEW U \in SUBSET S, U # {}, Chosen(U) \in U, U \ {Chosen(U)} \in X
      PROVE  U \in X
  <2>1. Total(f, U) = f[Chosen(U)] + Total(f, U \ {Chosen(U)})
    BY <1>2, TotalStep, FS_Subset
  <2> QED
    BY <1>2, <2>1
<1>3. S \in X
  <2> HIDE DEF X
  <2> QED
    BY <1>1, <1>2, SubsetInduction
<1> QED
  BY <1>3

LEMMA TotalAny ==
    ASSUME NEW f, NEW S, IsFiniteSet(S), \A x \in S : f[x] \in Int, NEW x \in S
    PROVE  Total(f, S) = f[x] + Total(f, S \ {x})
<1> DEFINE Bad == {U \in SUBSET S : \E y \in U : Total(f, U) # f[y] + Total(f, U \ {y})}
<1> SUFFICES ASSUME Bad # {} PROVE FALSE
  OBVIOUS
<1>1. PICK U \in Bad : \A V \in SUBSET U : V # U => V \notin Bad
  <2>1. Bad \in SUBSET (SUBSET S)
    OBVIOUS
  <2> HIDE DEF Bad
  <2> QED
    BY <2>1, SmallestSubset
<1>2. U \in SUBSET S /\ IsFiniteSet(U)
  BY <1>1, FS_Subset
<1>3. PICK y \in U : Total(f, U) # f[y] + Total(f, U \ {y})
  BY <1>1
<1> DEFINE z == Chosen(U)
           rest == (U \ {y}) \ {z}
<1>4. z \in U /\ Total(f, U) = f[z] + Total(f, U \ {z})
  BY <1>2, <1>3, TotalStep
<1>5. z # y
  BY <1>3, <1>4
<1> HIDE DEF z
<1>6. U \ {y} \notin Bad /\ U \ {z} \notin Bad
  BY <1>1, <1>3, <1>4
<1>7. Total(f, U \ {y}) = f[z] + Total(f, rest)
  BY <1>2, <1>4, <1>5, <1>6
<1>8. (U \ {z}) \ {y} = rest
  OBVIOUS
<1>9. Total(f, U \ {z}) = f[y] + Total(f, rest)
  BY <1>2, <1>3, <1>5, <1>6, <1>8
<1>10. f[y] \in Int /\ f[z] \in Int /\ Total(f, rest) \in Int
  <2>1. rest \in SUBSET S /\ IsFiniteSet(rest)
    BY <1>2, FS_Subset
  <2>2. \A w \in rest : f[w] \in Int
    BY <2>1
  <2> HIDE DEF rest
  <2> QED
    BY <1>2, <1>3, <1>4, <2>1, <2>2, TotalInt
<1> HIDE DEF rest
<1> QED
  BY <1>3, <1>4, <1>7, <1>9, <1>10

(* A sum of naturals is a natural, and not less than any of them.             *)
LEMMA TotalNat ==
    ASSUME NEW f, NEW S, IsFiniteSet(S), \A x \in S : f[x] \in Nat
    PROVE  Total(f, S) \in Nat /\ \A x \in S : f[x] <= Total(f, S)
<1> DEFINE X == {U \in SUBSET S : Total(f, U) \in Nat}
<1>1. ASSUME NEW T \in SUBSET S PROVE Total(f, T) \in Nat
  <2>1. {} \in X
    BY TotalEmpty
  <2>2. ASSUME NEW U \in SUBSET T, U # {}, Chosen(U) \in U, U \ {Chosen(U)} \in X
        PROVE  U \in X
    <3>1. Total(f, U) = f[Chosen(U)] + Total(f, U \ {Chosen(U)})
      BY <2>2, TotalStep, FS_Subset
    <3> QED
      BY <2>2, <3>1
  <2>3. T \in X
    <3>1. IsFiniteSet(T)
      BY FS_Subset
    <3> HIDE DEF X
    <3> QED
      BY <2>1, <2>2, <3>1, SubsetInduction
  <2> QED
    BY <2>3
<1>2. ASSUME NEW x \in S PROVE f[x] <= Total(f, S)
  <2>1. Total(f, S) = f[x] + Total(f, S \ {x}) /\ f[x] \in Nat
    BY TotalAny
  <2>2. Total(f, S \ {x}) \in Nat
    BY <1>1
  <2> QED
    BY <2>1, <2>2
<1> QED
  BY <1>1, <1>2

(* Two sums are the sum of the sums.                                          *)
LEMMA TotalPlus ==
    ASSUME NEW f, NEW g, NEW h, NEW S, IsFiniteSet(S),
           \A x \in S : f[x] \in Int /\ g[x] \in Int /\ h[x] = f[x] + g[x]
    PROVE  Total(h, S) = Total(f, S) + Total(g, S)
<1> DEFINE X == {U \in SUBSET S : Total(h, U) = Total(f, U) + Total(g, U)}
<1>1. {} \in X
  BY TotalEmpty
<1>2. ASSUME NEW U \in SUBSET S, U # {}, Chosen(U) \in U, U \ {Chosen(U)} \in X
      PROVE  U \in X
  <2> DEFINE z == Chosen(U)
             T == U \ {z}
  <2>1. IsFiniteSet(U) /\ IsFiniteSet(T) /\ T \in SUBSET S
    BY FS_Subset
  <2>2. /\ Total(f, U) = f[z] + Total(f, T) /\ Total(g, U) = g[z] + Total(g, T)
        /\ Total(h, U) = h[z] + Total(h, T)
    BY <1>2, <2>1, TotalStep
  <2>3. Total(f, T) \in Int /\ Total(g, T) \in Int
    <3> HIDE DEF T
    <3> QED
      BY <2>1, TotalInt
  <2>4. Total(h, T) = Total(f, T) + Total(g, T)
    BY <1>2
  <2>5. f[z] \in Int /\ g[z] \in Int /\ h[z] = f[z] + g[z]
    BY <1>2
  <2> HIDE DEF T, z
  <2>6. Total(h, U) = Total(f, U) + Total(g, U)
    BY <2>2, <2>3, <2>4, <2>5
  <2> QED
    BY <2>6
<1>3. S \in X
  <2> HIDE DEF X
  <2> QED
    BY <1>1, <1>2, SubsetInduction
<1> QED
  BY <1>3

(* Equal values have equal sums, and values of zero do not count.             *)
LEMMA TotalOn ==
    ASSUME NEW f, NEW g, NEW S, IsFiniteSet(S), NEW T \in SUBSET S,
           \A x \in T : f[x] \in Int /\ f[x] = g[x],
           \A x \in S \ T : f[x] = 0
    PROVE  Total(f, S) = Total(g, T)
<1> DEFINE X == {U \in SUBSET S : Total(f, U) = Total(g, U \intersect T)}
<1>1. {} \in X
  <2>1. {} \intersect T = {}
    OBVIOUS
  <2> QED
    BY <2>1, TotalEmpty
<1>2. ASSUME NEW U \in SUBSET S, U # {}, Chosen(U) \in U, U \ {Chosen(U)} \in X
      PROVE  U \in X
  <2> DEFINE z == Chosen(U)
             V == U \ {z}
  <2>1. IsFiniteSet(U) /\ IsFiniteSet(V) /\ V \in SUBSET S
    BY FS_Subset
  <2>2. Total(f, U) = f[z] + Total(f, V) /\ Total(f, V) = Total(g, V \intersect T)
    BY <1>2, <2>1, TotalStep
  <2>3. CASE z \in T
    <3>1. (U \intersect T) \ {z} = V \intersect T /\ z \in U \intersect T
      BY <1>2, <2>3
    <3>2. IsFiniteSet(U \intersect T)
      BY <2>1, FS_Subset
    <3>3. \A x \in U \intersect T : g[x] \in Int
      OBVIOUS
    <3>4. Total(g, U \intersect T) = g[z] + Total(g, V \intersect T)
      <4> HIDE DEF z, V
      <4> QED
        BY <3>1, <3>2, <3>3, TotalAny
    <3> QED
      BY <2>2, <2>3, <3>4
  <2>4. CASE z \notin T
    <3>1. U \intersect T = V \intersect T /\ f[z] = 0
      BY <1>2, <2>4
    <3>2. Total(f, V) \in Int
      <4> HIDE DEF V
      <4>1. \A x \in V : f[x] \in Int
        BY <2>1
      <4> QED
        BY <2>1, <4>1, TotalInt
    <3> HIDE DEF z, V
    <3>3. Total(f, U) = Total(f, V)
      BY <2>2, <3>1, <3>2
    <3> QED
      BY <2>2, <3>1, <3>3
  <2> QED
    BY <2>3, <2>4
<1>3. S \in X
  <2> HIDE DEF X
  <2> QED
    BY <1>1, <1>2, SubsetInduction
<1>4. S \intersect T = T
  OBVIOUS
<1> QED
  BY <1>3, <1>4

(* A common factor.                                                           *)
LEMMA TotalTimes ==
    ASSUME NEW f, NEW g, NEW S, IsFiniteSet(S), NEW c \in Int,
           \A x \in S : f[x] \in Int /\ g[x] = c * f[x]
    PROVE  Total(g, S) = c * Total(f, S)
<1> DEFINE X == {U \in SUBSET S : Total(g, U) = c * Total(f, U)}
<1>1. {} \in X
  BY TotalEmpty
<1>2. ASSUME NEW U \in SUBSET S, U # {}, Chosen(U) \in U, U \ {Chosen(U)} \in X
      PROVE  U \in X
  <2> DEFINE z == Chosen(U)
             T == U \ {z}
  <2>1. IsFiniteSet(U) /\ IsFiniteSet(T) /\ T \in SUBSET S
    BY FS_Subset
  <2>2. Total(f, U) = f[z] + Total(f, T) /\ Total(g, U) = g[z] + Total(g, T)
    BY <1>2, <2>1, TotalStep
  <2>3. Total(f, T) \in Int
    <3> HIDE DEF T
    <3> QED
      BY <2>1, TotalInt
  <2>4. Total(g, T) = c * Total(f, T) /\ f[z] \in Int /\ g[z] = c * f[z]
    BY <1>2
  <2> HIDE DEF T, z
  <2>5. c * f[z] + c * Total(f, T) = c * (f[z] + Total(f, T))
    BY <2>3, <2>4
  <2>6. Total(g, U) = c * Total(f, U)
    BY <2>2, <2>4, <2>5
  <2> QED
    BY <2>6
<1>3. S \in X
  <2> HIDE DEF X
  <2> QED
    BY <1>1, <1>2, SubsetInduction
<1> QED
  BY <1>3

(* The same value for every element.                                          *)
LEMMA TotalSame ==
    ASSUME NEW f, NEW S, IsFiniteSet(S), NEW c \in Int, \A x \in S : f[x] = c
    PROVE  Total(f, S) = Cardinality(S) * c
<1> DEFINE X == {U \in SUBSET S : Total(f, U) = Cardinality(U) * c}
<1>1. {} \in X
  BY TotalEmpty, FS_EmptySet
<1>2. ASSUME NEW U \in SUBSET S, U # {}, Chosen(U) \in U, U \ {Chosen(U)} \in X
      PROVE  U \in X
  <2> DEFINE z == Chosen(U)
             T == U \ {z}
  <2>1. IsFiniteSet(U) /\ IsFiniteSet(T)
    BY FS_Subset
  <2>2. Total(f, U) = f[z] + Total(f, T) /\ f[z] = c
    BY <1>2, <2>1, TotalStep
  <2>3. Cardinality(T) \in Nat /\ Cardinality(T) = Cardinality(U) - 1 /\ Cardinality(U) \in Nat
    BY <1>2, <2>1, FS_RemoveElement, FS_CardinalityType
  <2>4. Total(f, T) = Cardinality(T) * c
    BY <1>2
  <2> HIDE DEF T, z
  <2>5. c + (Cardinality(U) - 1) * c = Cardinality(U) * c
    BY <2>3
  <2>6. Total(f, U) = Cardinality(U) * c
    BY <2>2, <2>3, <2>4, <2>5
  <2> QED
    BY <2>6
<1>3. S \in X
  <2> HIDE DEF X
  <2> QED
    BY <1>1, <1>2, SubsetInduction
<1> QED
  BY <1>3

(* A part of a sum of naturals is not more than all of it.                    *)
LEMMA TotalOfPart ==
    ASSUME NEW f, NEW S, IsFiniteSet(S), NEW T \in SUBSET S, \A x \in S : f[x] \in Nat
    PROVE  Total(f, T) <= Total(f, S)
<1> DEFINE in == [x \in S |-> IF x \in T THEN f[x] ELSE 0]
           out == [x \in S |-> IF x \in T THEN 0 ELSE f[x]]
<1>1. /\ \A x \in S : in[x] \in Nat /\ out[x] \in Nat /\ f[x] = in[x] + out[x]
      /\ \A x \in T : in[x] = f[x]
      /\ \A x \in S \ T : in[x] = 0
  OBVIOUS
<1> HIDE DEF in, out
<1>2. Total(f, S) = Total(in, S) + Total(out, S)
  BY <1>1, TotalPlus
<1>3. Total(in, S) = Total(f, T)
  <2>1. \A x \in S \ T : in[x] = 0
    BY <1>1
  <2>2. \A x \in T : in[x] \in Int /\ in[x] = f[x]
    BY <1>1
  <2> QED
    BY <2>1, <2>2, TotalOn
<1>4. Total(in, S) \in Nat /\ Total(out, S) \in Nat
  BY <1>1, TotalNat
<1> QED
  BY <1>2, <1>3, <1>4

(* A table adds up by its rows as by its columns.                             *)
LEMMA TotalTable ==
    ASSUME NEW I, IsFiniteSet(I), NEW B, IsFiniteSet(B), NEW F \in [I -> [B -> Int]],
           NEW R, R = [i \in I |-> Total(F[i], B)],
           NEW C, C = [b \in B |-> Total([i \in I |-> F[i][b]], I)]
    PROVE  Total(C, B) = Total(R, I)
<1> DEFINE column(b) == [i \in I |-> F[i][b]]
           Cols(U) == [b \in B |-> Total(column(b), U)]
           X == {U \in SUBSET I : Total(Cols(U), B) = Total(R, U)}
<1>1. {} \in X
  <2>1. \A b \in B : Cols({})[b] = 0
    BY TotalEmpty
  <2> HIDE DEF Cols
  <2>2. Total(Cols({}), B) = Cardinality(B) * 0 /\ Cardinality(B) \in Nat
    BY <2>1, TotalSame, FS_CardinalityType
  <2>3. Total(R, {}) = 0
    BY TotalEmpty
  <2> QED
    BY <2>2, <2>3
<1>2. ASSUME NEW U \in SUBSET I, U # {}, Chosen(U) \in U, U \ {Chosen(U)} \in X
      PROVE  U \in X
  <2> DEFINE z == Chosen(U)
             T == U \ {z}
  <2>1. IsFiniteSet(U) /\ IsFiniteSet(T) /\ T \in SUBSET I /\ z \in I
    BY <1>2, FS_Subset
  <2>2. Total(R, U) = R[z] + Total(R, T) /\ R[z] = Total(F[z], B)
    BY <1>2, <2>1, TotalStep
  <2>3. Total(Cols(T), B) = Total(R, T)
    BY <1>2
  <2>4. ASSUME NEW b \in B
        PROVE  F[z][b] \in Int /\ Cols(T)[b] \in Int /\ Cols(U)[b] = F[z][b] + Cols(T)[b]
    <3>1. Total(column(b), U) = column(b)[z] + Total(column(b), T)
      <4> HIDE DEF column
      <4> QED
        BY <1>2, <2>1, TotalStep
    <3>2. column(b)[z] = F[z][b] /\ F[z][b] \in Int
      BY <2>1
    <3>3. \A i \in T : column(b)[i] \in Int
      BY <2>1
    <3>4. Total(column(b), T) \in Int
      <4> HIDE DEF column, T
      <4> QED
        BY <2>1, <3>3, TotalInt
    <3> HIDE DEF column, T, z
    <3> QED
      BY <3>1, <3>2, <3>4
  <2> HIDE DEF Cols, T, z
  <2>5. Total(Cols(U), B) = Total(F[z], B) + Total(Cols(T), B)
    BY <2>4, TotalPlus
  <2>6. Total(Cols(U), B) = Total(R, U)
    BY <2>2, <2>3, <2>5
  <2> QED
    BY <2>6
<1>3. I \in X
  <2> HIDE DEF X
  <2> QED
    BY <1>1, <1>2, SubsetInduction
<1>4. Cols(I) = C
  OBVIOUS
<1> QED
  BY <1>3, <1>4

-----------------------------------------------------------------------------
(* The trainer and the server.                                                *)

Paths == {PathOf(p) : p \in PairSet}

(* The examples in work, numbered by candles; there are enough of them.       *)
ExamplesOK ==
    stage \in {"fitted", "writing"} =>
        /\ plan # <<>>
        /\ DOMAIN examples \subseteq Nat /\ IsFiniteSet(DOMAIN examples)
        /\ Cardinality(DOMAIN examples) >= MinExamples

(* Each file holds nothing, a torn write, or a model of its own pair.         *)
FilesOK ==
    /\ DOMAIN disk = Paths
    /\ \A path \in Paths : disk[path] \notin {NoModel, Torn} =>
          disk[path].pair \in PairSet /\ PathOf(disk[path].pair) = path

TrainInv ==
    /\ plan \in Seq(PairSet) /\ DOMAIN cache = PairSet
    /\ ExamplesOK /\ FilesOK /\ ServedWhole /\ HoldoutUnseen

(* The file name determines the pair.                                         *)
LEMMA PathDetermines ==
    ASSUME NEW p \in PairSet, NEW q \in PairSet, PathOf(p) = PathOf(q)
    PROVE  p = q
<1>1. /\ p = [symbol |-> p.symbol, timeframe |-> p.timeframe]
      /\ q = [symbol |-> q.symbol, timeframe |-> q.timeframe]
  BY PairsAssumption DEF PairSet
<1>2. p.symbol = q.symbol /\ p.timeframe = q.timeframe
  BY DEF PathOf
<1> QED
  BY <1>1, <1>2

(* The first 80 percent of at least one row are not all of them, and every    *)
(* row of the rest is later.                                                  *)
LEMMA SplitByTime ==
    ASSUME NEW table, DOMAIN table \subseteq Nat, IsFiniteSet(DOMAIN table),
           Cardinality(DOMAIN table) > 0
    PROVE  /\ DOMAIN table \ TrainingRows(table) # {}
           /\ \A i \in TrainingRows(table), j \in DOMAIN table \ TrainingRows(table) : i < j
<1> DEFINE D == DOMAIN table
           n == Cardinality(D)
           cut == (4 * n) \div 5
<1>1. n \in Nat /\ n > 0 /\ D # {} /\ cut < n
  <2>1. n \in Nat /\ n > 0
    BY FS_CardinalityType
  <2>2. D # {}
    BY <2>1, FS_EmptySet
  <2> QED
    BY <2>1, <2>2
<1>2. ASSUME NEW i \in D
      PROVE  /\ IsFiniteSet({j \in D : j < i}) /\ Rank(table, i) \in Nat
  BY FS_Subset, FS_CardinalityType DEF Rank
<1>3. ASSUME NEW i \in D, NEW j \in D, j <= i
      PROVE  Rank(table, j) <= Rank(table, i)
  <2>1. {k \in D : k < j} \subseteq {k \in D : k < i}
    BY <1>3
  <2> QED
    BY <1>2, <2>1, FS_Subset DEF Rank
<1>4. ASSUME NEW i \in TrainingRows(table), NEW j \in D \ TrainingRows(table)
      PROVE  i < j
  <2>1. i \in D /\ Rank(table, i) < cut /\ ~(Rank(table, j) < cut)
    BY DEF TrainingRows
  <2>2. /\ Rank(table, i) \in Nat /\ Rank(table, j) \in Nat
        /\ i \in Nat /\ j \in Nat
    BY <1>2, <2>1
  <2>4. cut \in Int
    BY <1>1
  <2>3. ~(j <= i)
    <3> HIDE DEF cut
    <3> QED
      BY <1>3, <2>1, <2>2, <2>4
  <2> QED
    BY <2>2, <2>3
<1>5. D \ TrainingRows(table) # {}
  <2> DEFINE last == Max(D)
  <2>1. last \in D /\ \A k \in D : last >= k
    BY <1>1, Extremes
  <2> HIDE DEF last
  <2>2. D \ {last} = {k \in D : k < last}
    BY <2>1
  <2>3. Rank(table, last) = n - 1
    BY <2>1, <2>2, FS_RemoveElement DEF Rank
  <2>4. ~(Rank(table, last) < cut)
    BY <1>1, <2>3
  <2> QED
    BY <2>1, <2>4 DEF TrainingRows
<1> QED
  BY <1>4, <1>5

(* There is no model and no answer at the start.                              *)
LEMMA TrainStart == TrainInit => TrainInv
<1> SUFFICES ASSUME TrainInit PROVE TrainInv
  OBVIOUS
<1>1. plan \in Seq(PairSet) /\ DOMAIN cache = PairSet /\ ExamplesOK
  BY PairsAssumption DEF TrainInit, PairSet, ExamplesOK
<1>2. DOMAIN disk = Paths /\ \A path \in Paths : disk[path] = NoModel
  BY DEF TrainInit, Paths
<1>3. \A p \in PairSet : cache[p] = Unread
  BY DEF TrainInit
<1> QED
  BY <1>1, <1>2, <1>3 DEF TrainInv, FilesOK, ServedWhole, HoldoutUnseen

(* The examples of a history are numbered by its candles.                     *)
LEMMA ExamplesType ==
    ASSUME NEW candles \in TrainingHistories
    PROVE  /\ DOMAIN Examples(candles) \subseteq Nat
           /\ IsFiniteSet(DOMAIN Examples(candles))
           /\ Cardinality(DOMAIN Examples(candles)) \in Nat
<1> DEFINE D == DOMAIN Examples(candles)
<1>1. Len(candles) \in Nat
  BY TrainingAssumption, LenProperties
<1>2. D \subseteq (TrainingWindow + 1)..Len(candles)
  BY DEF Examples
<1>3. IsFiniteSet((TrainingWindow + 1)..Len(candles))
  BY <1>1, TrainingAssumption, FS_Interval
<1>4. D \subseteq Nat
  BY <1>1, <1>2, TrainingAssumption
<1> HIDE DEF D
<1>5. IsFiniteSet(D) /\ Cardinality(D) \in Nat
  BY <1>2, <1>3, FS_Subset, FS_CardinalityType
<1> QED
  BY <1>4, <1>5 DEF D

(* fetch_history, and the examples made of it.                                *)
LEMMA FetchTrains == TrainInv /\ FetchExamples => TrainInv'
<1> SUFFICES ASSUME TrainInv, FetchExamples PROVE TrainInv'
  OBVIOUS
<1>1. plan \in Seq(PairSet) /\ plan # <<>> /\ UNCHANGED <<disk, cache>>
  BY DEF TrainInv, FetchExamples
<1>2. PICK candles \in TrainingHistories :
        IF Cardinality(DOMAIN Examples(candles)) < MinExamples
        THEN plan' = Tail(plan) /\ UNCHANGED <<examples, stage>>
        ELSE examples' = Examples(candles) /\ stage' = "fitted" /\ UNCHANGED plan
  BY DEF FetchExamples
<1>3. plan' \in Seq(PairSet)
  BY <1>1, <1>2, HeadTailProperties
<1>4. ExamplesOK'
  <2>1. CASE Cardinality(DOMAIN Examples(candles)) < MinExamples
    BY <1>2, <2>1 DEF ExamplesOK, FetchExamples
  <2>2. CASE ~(Cardinality(DOMAIN Examples(candles)) < MinExamples)
    <3>1. examples' = Examples(candles) /\ plan' = plan
      BY <1>2, <2>2
    <3>2. Cardinality(DOMAIN Examples(candles)) >= MinExamples
      BY <2>2, ExamplesType, TrainingAssumption
    <3> QED
      BY <1>1, <3>1, <3>2, ExamplesType DEF ExamplesOK
  <2> QED
    BY <2>1, <2>2
<1> QED
  BY <1>1, <1>3, <1>4 DEF TrainInv, FilesOK, ServedWhole, HoldoutUnseen

(* A write of the model file of the first pair, torn or to its end.           *)
LEMMA DumpTrains == TrainInv /\ (DumpStart \/ DumpEnd) => TrainInv'
<1> SUFFICES ASSUME TrainInv, DumpStart \/ DumpEnd PROVE TrainInv'
  OBVIOUS
<1> DEFINE path == PathOf(plan[1])
<1>1. /\ plan \in Seq(PairSet) /\ plan # <<>> /\ plan[1] \in PairSet /\ path \in Paths
      /\ DOMAIN examples \subseteq Nat /\ IsFiniteSet(DOMAIN examples)
      /\ Cardinality(DOMAIN examples) >= MinExamples
  <2>1. /\ plan \in Seq(PairSet) /\ plan # <<>>
        /\ DOMAIN examples \subseteq Nat /\ IsFiniteSet(DOMAIN examples)
        /\ Cardinality(DOMAIN examples) >= MinExamples
    BY DEF TrainInv, ExamplesOK, DumpStart, DumpEnd
  <2> QED
    BY <2>1, ElementOfSeq, EmptySeq, LenProperties DEF Paths
<1>2. CASE DumpStart
  <2>1. /\ disk' = [disk EXCEPT ![path] = Torn] /\ UNCHANGED <<plan, examples, cache>>
        /\ stage' = "writing" /\ stage = "fitted"
    BY <1>2 DEF DumpStart
  <2>2. ExamplesOK'
    BY <1>1, <2>1 DEF ExamplesOK
  <2>3. DOMAIN disk' = Paths /\ \A q \in Paths : disk'[q] = disk[q] \/ disk'[q] = Torn
    BY <2>1 DEF TrainInv, FilesOK
  <2> QED
    BY <2>1, <2>2, <2>3 DEF TrainInv, FilesOK, ServedWhole, HoldoutUnseen
<1>3. CASE DumpEnd
  <2> DEFINE model == Model(plan[1], examples)
  <2>1. /\ disk' = [disk EXCEPT ![path] = model] /\ plan' = Tail(plan)
        /\ stage' = "fetch" /\ UNCHANGED cache
    BY <1>3 DEF DumpEnd
  <2>2. plan' \in Seq(PairSet) /\ ExamplesOK'
    BY <1>1, <2>1, HeadTailProperties DEF ExamplesOK
  <2>3. model.pair = plan[1] /\ model.holdout # {}
        /\ \A i \in model.train, j \in model.holdout : i < j
    <3>1. Cardinality(DOMAIN examples) > 0
      BY <1>1, TrainingAssumption, FS_CardinalityType
    <3> QED
      BY <1>1, <3>1, SplitByTime DEF Model
  <2> HIDE DEF model
  <2>4. /\ DOMAIN disk' = Paths /\ disk'[path] = model
        /\ \A q \in Paths \ {path} : disk'[q] = disk[q]
    BY <1>1, <2>1 DEF TrainInv, FilesOK
  <2>5. FilesOK'
    BY <1>1, <2>3, <2>4 DEF TrainInv, FilesOK
  <2>6. HoldoutUnseen'
    BY <1>1, <2>3, <2>4 DEF TrainInv, FilesOK, HoldoutUnseen
  <2> QED
    BY <2>1, <2>2, <2>5, <2>6 DEF TrainInv, ServedWhole
<1> QED
  BY <1>2, <1>3

(* A prediction may read a file into the cache.                               *)
LEMMA EvaluateTrains == TrainInv /\ Evaluate => TrainInv'
<1> SUFFICES ASSUME TrainInv, Evaluate PROVE TrainInv'
  OBVIOUS
<1>1. UNCHANGED <<plan, examples, stage, disk>>
  BY DEF Evaluate
<1>2. \/ UNCHANGED cache
      \/ \E pair \in PairSet : cache' = [cache EXCEPT ![pair] = Known(pair)]
  BY DEF Evaluate
<1>3. ASSUME NEW pair \in PairSet, cache' = [cache EXCEPT ![pair] = Known(pair)]
      PROVE  DOMAIN cache' = PairSet /\ ServedWhole'
  <2>1. /\ DOMAIN cache' = PairSet /\ cache'[pair] = Known(pair)
        /\ \A p \in PairSet \ {pair} : cache'[p] = cache[p]
    BY <1>3 DEF TrainInv
  <2>2. Known(pair) \notin {Unread, NoModel} => Known(pair) # Torn /\ Known(pair).pair = pair
    <3>1. CASE cache[pair] # Unread
      BY <3>1 DEF Known, TrainInv, ServedWhole
    <3>2. CASE cache[pair] = Unread /\ Known(pair) # NoModel
      <4>1. PathOf(pair) \in Paths /\ Known(pair) = disk[PathOf(pair)] /\ Known(pair) # Torn
        BY <3>2 DEF Known, Load, Paths
      <4>2. Known(pair).pair \in PairSet /\ PathOf(Known(pair).pair) = PathOf(pair)
        BY <3>2, <4>1 DEF TrainInv, FilesOK
      <4> QED
        BY <4>1, <4>2, PathDetermines
    <3> QED
      BY <3>1, <3>2
  <2> QED
    BY <2>1, <2>2 DEF TrainInv, ServedWhole
<1>4. DOMAIN cache' = PairSet /\ ServedWhole'
  BY <1>2, <1>3 DEF TrainInv, ServedWhole
<1> QED
  BY <1>1, <1>4 DEF TrainInv, ExamplesOK, FilesOK, HoldoutUnseen

(* Every step of the trainer and of the server keeps the invariant.           *)
LEMMA TrainStep == TrainInv /\ [Next]_vars => TrainInv'
<1> SUFFICES ASSUME TrainInv, [Next]_vars PROVE TrainInv'
  OBVIOUS
<1>1. CASE UNCHANGED tvars
  BY <1>1 DEF tvars, TrainInv, ExamplesOK, FilesOK, ServedWhole, HoldoutUnseen
<1>2. CASE TrainingDies
  BY <1>2 DEF TrainingDies, TrainInv, ExamplesOK, FilesOK, ServedWhole, HoldoutUnseen
<1>3. CASE ServingRestart
  BY <1>3 DEF ServingRestart, TrainInv, ExamplesOK, FilesOK, ServedWhole, HoldoutUnseen
<1> QED
  BY <1>1, <1>2, <1>3, FetchTrains, DumpTrains, EvaluateTrains DEF Next, TrainNext, vars

(* A prediction is made from a whole model file of its own pair, or from      *)
(* none, however the trainer is interrupted while the server loads (ml/       *)
(* train.py:108, prediction/ml_strategy.py:74-82).                            *)
THEOREM ModelsServedWhole == Spec => []ServedWhole
<1>1. TrainInv => ServedWhole
  BY DEF TrainInv
<1>2. Init => TrainInv
  BY TrainStart DEF Init
<1> QED
  BY <1>1, <1>2, TrainStep, PTL DEF Spec

(* A model is scored on candles that are all later than those it was fitted   *)
(* to, and on at least one (ml/train.py:90-105).                              *)
THEOREM HoldoutIsLater == Spec => []HoldoutUnseen
<1>1. TrainInv => HoldoutUnseen
  BY DEF TrainInv
<1>2. Init => TrainInv
  BY TrainStart DEF Init
<1> QED
  BY <1>1, <1>2, TrainStep, PTL DEF Spec

-----------------------------------------------------------------------------
(* The confidence of a prediction.                                            *)

(* An indicator has one value if any.                                         *)
VotesOnce(f) == \A known \in {f.trend, f.rsi, f.momentum} : \A v, w \in known : v = w

(* Full confidence by rule takes every vote, all of them on one side.         *)
LEMMA AllVotesAgree ==
    ASSUME NEW f, VotesOnce(f), RuleBased(f).confidence = 100
    PROVE  /\ f.structure = RuleBased(f).direction
           /\ \E side \in {1, -1} : /\ Sign(StructureVote(f)) = side
                                    /\ f.trend \union f.rsi \union f.momentum \subseteq {side}
<1>1. /\ StructureVote(f) \in {-2, 0, 2}
      /\ StructureVote(f) = 2 => f.structure = "bullish"
      /\ StructureVote(f) = -2 => f.structure = "bearish"
  BY DEF StructureVote
<1>2. \A known \in {f.trend, f.rsi, f.momentum} :
        /\ Vote(known) \in {-1, 0, 1}
        /\ Vote(known) = 1 => known = {1}
        /\ Vote(known) = -1 => known = {-1}
  BY DEF Vote, VotesOnce
<1>3. /\ Vote(f.trend) \in {-1, 0, 1} /\ Vote(f.rsi) \in {-1, 0, 1} /\ Vote(f.momentum) \in {-1, 0, 1}
      /\ Score(f) = StructureVote(f) + Vote(f.trend) + Vote(f.rsi) + Vote(f.momentum)
  BY <1>2 DEF Score
<1>4. Score(f) \in Int /\ 20 * Distance(Score(f), 0) = 100
  BY <1>1, <1>3 DEF RuleBased, CallOf, Call
<1>5. Score(f) = 5 \/ Score(f) = -5
  BY <1>4 DEF Distance
<1>6. CASE Score(f) = 5
  <2>1. StructureVote(f) = 2 /\ Vote(f.trend) = 1 /\ Vote(f.rsi) = 1 /\ Vote(f.momentum) = 1
    BY <1>1, <1>3, <1>6
  <2>2. f.structure = RuleBased(f).direction
    BY <1>1, <1>6, <2>1 DEF RuleBased, CallOf, Call
  <2>3. f.trend = {1} /\ f.rsi = {1} /\ f.momentum = {1} /\ Sign(StructureVote(f)) = 1
    BY <1>2, <2>1 DEF Sign
  <2> QED
    BY <2>2, <2>3
<1>7. CASE Score(f) = -5
  <2>1. StructureVote(f) = -2 /\ Vote(f.trend) = -1 /\ Vote(f.rsi) = -1 /\ Vote(f.momentum) = -1
    BY <1>1, <1>3, <1>7
  <2>2. f.structure = RuleBased(f).direction
    BY <1>1, <1>7, <2>1 DEF RuleBased, CallOf, Call
  <2>3. f.trend = {-1} /\ f.rsi = {-1} /\ f.momentum = {-1} /\ Sign(StructureVote(f)) = -1
    BY <1>2, <2>1 DEF Sign
  <2> QED
    BY <2>2, <2>3
<1> QED
  BY <1>5, <1>6, <1>7

(* A model gives confidence only when it is there, has seen a rise and every  *)
(* indicator is there to ask it with.                                         *)
LEMMA ModelHasGrounds ==
    ASSUME NEW model, NEW f, NEW call \in MlCalls(model, f), call.confidence > 0
    PROVE  HasVector(f) /\ TRUE \in model.labels
<1>1. Call("neutral", 0).confidence = 0
  BY DEF Call
<1>2. model # NoModel /\ HasVector(f)
  BY <1>1 DEF MlCalls
<1>3. PICK up \in UpProbabilities(model) : call = FromProbability(up)
  BY <1>2 DEF MlCalls
<1>4. up # 50
  BY <1>1, <1>3 DEF FromProbability, Distance
<1> QED
  BY <1>2, <1>3, <1>4 DEF UpProbabilities

(* An answer is sure of itself only on grounds, whichever strategy gave it.   *)
LEMMA EvaluateEarns == Evaluate => ConfidenceEarned'
<1> SUFFICES ASSUME Evaluate PROVE ConfidenceEarned'
  OBVIOUS
<1>1. PICK pair \in PairSet, w \in LiveWindows :
        LET f == FeatureSet(w)
        IN  IF strategy = "rule_based"
            THEN answer' = [pair |-> pair, features |-> {f}, call |-> RuleBased(f), model |-> Unread]
            ELSE \E call \in MlCalls(Known(pair), f) :
                    answer' = [pair |-> pair, features |-> {f}, call |-> call, model |-> Known(pair)]
  BY DEF Evaluate
<1> DEFINE f == FeatureSet(w)
<1>2. strategy' = strategy
  BY DEF Evaluate
<1>3. VotesOnce(f)
  BY DEF FeatureSet, Trend, Rsi, Momentum, Given, VotesOnce
<1> HIDE DEF f
<1>4. CASE strategy = "rule_based"
  <2>1. answer'.features = {f} /\ answer'.call = RuleBased(f)
    BY <1>1, <1>4 DEF f
  <2>2. RuleBased(f).confidence = 100
          => /\ f.structure = RuleBased(f).direction
             /\ \E side \in {1, -1} : /\ Sign(StructureVote(f)) = side
                                      /\ f.trend \union f.rsi \union f.momentum \subseteq {side}
    BY <1>3, AllVotesAgree
  <2> QED
    BY <1>2, <1>4, <2>1, <2>2 DEF ConfidenceEarned
<1>5. CASE strategy # "rule_based"
  <2>1. PICK call \in MlCalls(Known(pair), f) :
          answer' = [pair |-> pair, features |-> {f}, call |-> call, model |-> Known(pair)]
    BY <1>1, <1>5 DEF f
  <2>2. answer'.features = {f} /\ answer'.call = call /\ answer'.model = Known(pair)
    BY <2>1
  <2>3. call.confidence > 0 => HasVector(f) /\ TRUE \in Known(pair).labels
    BY ModelHasGrounds
  <2> QED
    BY <1>2, <1>5, <2>2, <2>3 DEF ConfidenceEarned
<1> QED
  BY <1>4, <1>5

(* A prediction is never surer than what it stands on, for every history:     *)
(* full confidence by rule takes the structure's vote and no indicator        *)
(* against it (prediction/rule_based.py:35-112), confidence by model a whole  *)
(* vector and a model that knows a rise (prediction/ml_strategy.py:33-72).    *)
THEOREM ConfidenceOnGrounds == Spec => []ConfidenceEarned
<1>1. Init => ConfidenceEarned
  BY DEF Init, TrainInit, NoAnswer, ConfidenceEarned
<1>2. ConfidenceEarned /\ [Next]_vars => ConfidenceEarned'
  <2>1. CASE UNCHANGED <<strategy, answer>>
    BY <2>1 DEF ConfidenceEarned
  <2>2. CASE ServingRestart
    BY <2>2 DEF ServingRestart, NoAnswer, ConfidenceEarned
  <2> QED
    BY <2>1, <2>2, EvaluateEarns
    DEF Next, TrainNext, FetchExamples, DumpStart, DumpEnd, TrainingDies, vars, tvars
<1> QED
  BY <1>1, <1>2, PTL DEF Spec

-----------------------------------------------------------------------------
(* The jobs of the backtest program.                                          *)

Jobs == UNION {Range(Agenda(kind)) : kind \in Kinds}

Done == [i \in DOMAIN rows |-> rows[i].job]

AgendaInv == agenda \in Seq(Jobs) /\ rows \in Seq(Range(rows)) /\ Done \in Seq(Jobs) /\ RunsKept

(* The agenda is a list: the runs of a symbol, for every symbol.              *)
LEMMA AgendaIsList ==
    ASSUME NEW kind \in Kinds
    PROVE  Agenda(kind) \in Seq(Jobs)
<1> DEFINE runs == RunsOf(kind)
           R == {"none"} \union Range(Timeframes)
           n == Len(Symbols) * Len(runs)
<1>1. runs \in Seq(R)
  <2>1. <<>> \in Seq(R) /\ <<"none">> \in Seq(R) /\ Timeframes \in Seq(R)
    BY SettingsAssumption, SeqMonotonic, EmptySeq
  <2> HIDE DEF R
  <2> QED
    BY <2>1, ConcatProperties DEF RunsOf
<1>2. n \in Nat
  <2>1. Len(Symbols) \in Nat /\ Len(runs) \in Nat
    BY <1>1, SettingsAssumption, LenProperties
  <2> HIDE DEF runs
  <2> QED
    BY <2>1
<1>3. DOMAIN Agenda(kind) = 1..n
  BY DEF Agenda
<1>4. \A i \in 1..n : Agenda(kind)[i] \in Jobs
  BY <1>3 DEF Jobs, Range
<1>5. Agenda(kind) \in [1..n -> Jobs]
  <2>1. Agenda(kind) = [i \in 1..n |-> Agenda(kind)[i]]
    BY <1>3 DEF Agenda
  <2> QED
    BY <1>4, <2>1
<1> QED
  BY <1>2, <1>5, SeqDef

(* A run that is persisted leaves the agenda for the table.                   *)
LEMMA PersistKeeps == AgendaInv /\ Persist => AgendaInv'
<1> SUFFICES ASSUME AgendaInv, Persist PROVE AgendaInv'
  OBVIOUS
<1> DEFINE row == [job |-> agenda[1], summary |-> Summary]
<1>1. /\ agenda \in Seq(Jobs) /\ agenda # <<>> /\ Done \in Seq(Jobs)
      /\ agenda' = Tail(agenda) /\ rows' = Append(rows, row)
  BY DEF AgendaInv, Persist, WalkEnded
<1>2. agenda[1] \in Jobs /\ agenda' \in Seq(Jobs) /\ Len(agenda) \in Nat \ {0}
  BY <1>1, HeadTailProperties, EmptySeq
<1> HIDE DEF row
<1>3. rows' \in Seq(Range(rows) \union {row}) /\ rows \in Seq(Range(rows) \union {row})
  <2>1. rows \in Seq(Range(rows) \union {row})
    BY SeqMonotonic DEF AgendaInv
  <2> QED
    BY <1>1, <2>1, AppendProperties
<1>4. /\ Len(rows) \in Nat /\ Len(rows') = Len(rows) + 1
      /\ DOMAIN rows = 1..Len(rows) /\ DOMAIN rows' = 1..(Len(rows) + 1)
      /\ \A i \in 1..Len(rows) : rows'[i] = rows[i]
      /\ rows'[Len(rows) + 1] = row
  BY <1>1, <1>3, AppendProperties, LenProperties
<1>5. row.job = agenda[1]
  BY DEF row
<1>6. Done' = Append(Done, agenda[1])
  <2>1. Len(Done) = Len(rows) /\ DOMAIN Done = 1..Len(rows)
    BY <1>1, <1>4, LenProperties DEF Done
  <2>2. Append(Done, agenda[1]) \in Seq(Jobs) /\ Len(Append(Done, agenda[1])) = Len(rows) + 1
    BY <1>1, <1>2, <2>1, AppendProperties
  <2>3. DOMAIN Append(Done, agenda[1]) = 1..(Len(rows) + 1)
    BY <2>2, LenProperties
  <2>4. ASSUME NEW i \in 1..(Len(rows) + 1)
        PROVE  Append(Done, agenda[1])[i] = rows'[i].job
    <3>1. CASE i = Len(rows) + 1
      BY <1>1, <1>2, <1>4, <1>5, <2>1, <3>1, AppendProperties
    <3>2. CASE i # Len(rows) + 1
      <4>1. i \in 1..Len(rows)
        BY <1>4, <3>2
      <4>2. Append(Done, agenda[1])[i] = Done[i]
        BY <1>1, <1>2, <2>1, <4>1, AppendProperties
      <4> QED
        BY <1>4, <4>1, <4>2 DEF Done
    <3> QED
      BY <3>1, <3>2
  <2>5. Done' = [i \in 1..(Len(rows) + 1) |-> rows'[i].job]
    BY <1>4 DEF Done
  <2>6. Append(Done, agenda[1]) = [i \in 1..(Len(rows) + 1) |-> Append(Done, agenda[1])[i]]
    BY <2>2, <2>3, LenProperties
  <2> QED
    BY <2>4, <2>5, <2>6
<1>7. Done' \in Seq(Jobs)
  BY <1>1, <1>2, <1>6, AppendProperties
<1>8. Done' \o agenda' = Done \o agenda
  <2>1. agenda = <<agenda[1]>> \o agenda'
    <3>1. <<agenda[1]>> \in Seq(Jobs) /\ Len(<<agenda[1]>>) = 1 /\ <<agenda[1]>>[1] = agenda[1]
      BY <1>2
    <3>2. Len(agenda') = Len(agenda) - 1 /\ \A i \in 1..Len(agenda') : agenda'[i] = agenda[i + 1]
      BY <1>1, HeadTailProperties
    <3>3. /\ <<agenda[1]>> \o agenda' \in Seq(Jobs)
          /\ Len(<<agenda[1]>> \o agenda') = Len(agenda)
          /\ \A i \in 1..Len(agenda) : (<<agenda[1]>> \o agenda')[i] = agenda[i]
      BY <1>2, <3>1, <3>2, ConcatProperties
    <3> QED
      BY <1>1, <3>3, SeqEqual
  <2>2. Done' = Done \o <<agenda[1]>>
    BY <1>1, <1>2, <1>6, AppendIsConcat
  <2>3. <<agenda[1]>> \in Seq(Jobs)
    BY <1>2
  <2> QED
    BY <1>1, <1>2, <2>1, <2>2, <2>3, ConcatAssociative
<1>9. rows' \in Seq(Range(rows'))
  BY <1>3, SeqOfRange
<1> QED
  BY <1>2, <1>7, <1>8, <1>9 DEF AgendaInv, RunsKept, Done

(* Every run that the settings ask for is persisted once and in its turn, or  *)
(* is still to do, wherever a fetch or a commit ends the program              *)
(* (backtesting/cli.py:53-107).                                               *)
THEOREM EveryRunKept == Spec => []RunsKept
<1>1. Init => AgendaInv
  <2> SUFFICES ASSUME Init PROVE AgendaInv
    OBVIOUS
  <2>1. PICK kind \in Kinds : agenda = Agenda(kind)
    BY DEF Init, CliInit
  <2>2. rows = <<>> /\ Done = <<>>
    BY DEF Init, CliInit, Done
  <2>3. Done \o agenda = Agenda(kind)
    BY <2>1, <2>2, AgendaIsList, ConcatEmptySeq
  <2> QED
    BY <2>1, <2>2, <2>3, AgendaIsList, EmptySeq DEF AgendaInv, RunsKept, Done
<1>2. AgendaInv /\ [Next]_vars => AgendaInv'
  <2>1. CASE UNCHANGED <<agenda, rows>>
    BY <2>1 DEF AgendaInv, RunsKept, Done
  <2> QED
    BY <2>1, PersistKeeps
    DEF Next, CliNext, Fetch4h, Fetch1h, FetchFine, FetchFails, WalkSignal, WalkPrediction,
        PersistFails, vars, cvars
<1>3. AgendaInv => RunsKept
  BY DEF AgendaInv
<1> QED
  BY <1>1, <1>2, <1>3, PTL DEF Spec

-----------------------------------------------------------------------------
(* The walk of a prediction backtest.                                         *)

IsKind(kind) == agenda # <<>> /\ agenda[1].kind = kind

WalkTyped ==
    /\ walked \in Nat
    /\ tally \in [{"correct", "incorrect", "neutral"} -> Nat]
    /\ DOMAIN history = {"h4", "h1", "fine"}

(* Nothing is walked or called before the histories are there.                *)
Untallied == walked = 0 /\ tally = NoCalls
WalkStarts == fetched # 3 => Untallied

BlindInv ==
    /\ WalkTyped /\ WalkStarts
    /\ IsKind("prediction") /\ fetched = 3 => history.fine \in Histories
    /\ TallyBlind

(* The larger of two numbers.                                                *)
LEMMA MaxOfTwo ==
    ASSUME NEW a \in Int, NEW b \in Int
    PROVE  Max({a, b}) = IF a > b THEN a ELSE b
<1>1. IsFiniteSet({a, b})
  <2>1. {a, b} = {a} \union {b}
    OBVIOUS
  <2>2. IsFiniteSet({a})
    BY FS_Singleton
  <2>3. IsFiniteSet({a} \union {b})
    BY <2>2, FS_AddElement
  <2> QED
    BY <2>1, <2>3
<1>2. Max({a, b}) \in {a, b} /\ \A y \in {a, b} : Max({a, b}) >= y
  BY <1>1, Extremes
<1> QED
  BY <1>2

(* One more element is one more to count, if it counts.                       *)
LEMMA CountOne ==
    ASSUME NEW J, IsFiniteSet(J), NEW x, x \notin J, NEW A
    PROVE  /\ Cardinality({k \in J : k \in A}) \in Nat
           /\ Cardinality({k \in J \union {x} : k \in A})
                = Cardinality({k \in J : k \in A}) + (IF x \in A THEN 1 ELSE 0)
<1> DEFINE K == {k \in J : k \in A}
<1>1. IsFiniteSet(K) /\ Cardinality(K) \in Nat
  BY FS_Subset, FS_CardinalityType
<1>2. CASE x \in A
  <2>1. {k \in J \union {x} : k \in A} = K \union {x} /\ x \notin K
    BY <1>2
  <2> QED
    BY <1>1, <1>2, <2>1, FS_AddElement
<1>3. CASE x \notin A
  <2>1. {k \in J \union {x} : k \in A} = K
    BY <1>3
  <2>2. Cardinality(K) + (IF x \in A THEN 1 ELSE 0) = Cardinality(K)
    <3> HIDE DEF K
    <3> QED
      BY <1>1, <1>3
  <2> QED
    BY <1>1, <2>1, <2>2
<1> QED
  BY <1>2, <1>3

(* Where no candle is walked there is nothing to tally.                       *)
LEMMA TallyOfNone == Untallied => TallyBlind
<1> SUFFICES ASSUME Untallied PROVE TallyBlind
  OBVIOUS
<1> DEFINE judged == {i \in (PredictionWindow + 1)..Len(history.fine) : i <= walked}
<1>1. judged = {}
  BY WindowsAssumption DEF Untallied
<1> HIDE DEF judged
<1>2. Cardinality(judged) = 0
  BY <1>1, FS_EmptySet
<1>3. \A S : S \subseteq judged => Cardinality(S) = 0
  BY <1>1, FS_EmptySet
<1>4. tally.correct = 0 /\ tally.incorrect = 0 /\ tally.neutral = 0
  BY DEF Untallied, NoCalls
<1> DEFINE direction(i) ==
             RuleBased(FeatureSet(
                [k \in 1..PredictionWindow |-> history.fine[i - PredictionWindow + k - 1]])).direction
           rose(i) == history.fine[i].close > history.fine[i - 1].close
           Neutral == {i \in judged : direction(i) = "neutral"}
           Right == {i \in judged : \/ direction(i) = "bullish" /\ rose(i)
                                    \/ direction(i) = "bearish" /\ ~rose(i)}
<1>5. Cardinality(Neutral) = 0 /\ Cardinality(Right) = 0
  <2>1. Neutral \subseteq judged /\ Right \subseteq judged
    <3> HIDE DEF direction, rose
    <3> QED
      OBVIOUS
  <2> HIDE DEF Neutral, Right
  <2> QED
    BY <1>3, <2>1
<1> QED
  BY <1>2, <1>4, <1>5 DEF TallyBlind, judged

(* The window in front of a candle is what blind reads.                       *)
LEMMA BeforeIsBlind ==
    ASSUME NEW candles, candles \in Seq(Range(candles)),
           NEW i \in (PredictionWindow + 1)..Len(candles)
    PROVE  Before(candles, i) = [k \in 1..PredictionWindow |-> candles[i - PredictionWindow + k - 1]]
<1> DEFINE P == PredictionWindow
<1>1. /\ P \in Nat \ {0} /\ Len(candles) \in Nat /\ i \in Int /\ i - P \in Int /\ i - 1 \in Int
      /\ 1 <= i - P /\ i - 1 <= Len(candles) /\ (i - 1) - (i - P) + 1 = P
  BY WindowsAssumption, LenProperties
<1>2. \A j \in (i - P)..(i - 1) : candles[j] \in Range(candles)
  BY <1>1, ElementOfSeq
<1>3. /\ Before(candles, i) \in Seq(Range(candles)) /\ Len(Before(candles, i)) = P
      /\ \A k \in 1..P : Before(candles, i)[k] = candles[(i - P) + k - 1]
  <2> DEFINE window == SubSeq(candles, i - P, i - 1)
  <2>1. i - P \in Int /\ i - 1 \in Int
    BY <1>1
  <2>2. /\ window \in Seq(Range(candles))
        /\ Len(window) = IF i - P <= i - 1 THEN (i - 1) - (i - P) + 1 ELSE 0
        /\ \A k \in 1..((i - 1) - (i - P) + 1) : window[k] = candles[(i - P) + k - 1]
    <3> HIDE DEF P
    <3> QED
      BY <1>2, <2>1, SubSeqProperties
  <2>3. Before(candles, i) = window
    BY DEF Before
  <2> HIDE DEF window, P
  <2> QED
    BY <1>1, <2>2, <2>3
<1>4. Before(candles, i) = [k \in 1..P |-> Before(candles, i)[k]]
  BY <1>3, LenProperties
<1> QED
  BY <1>3, <1>4

(* The call on the candle that is walked counts, as it should, and no other.  *)
LEMMA WalkTallies == BlindInv /\ WalkPrediction => BlindInv'
<1> SUFFICES ASSUME BlindInv, WalkPrediction PROVE BlindInv'
  OBVIOUS
<1> DEFINE P == PredictionWindow
           candles == history.fine
           n == Len(candles)
           i == Max({walked, P}) + 1
           call == RuleBased(FeatureSet(Before(candles, i)))
           direction(k) == RuleBased(FeatureSet([b \in 1..P |-> candles[k - P + b - 1]])).direction
           rose(k) == candles[k].close > candles[k - 1].close
           judged == {k \in (P + 1)..n : k <= walked}
           Neutral == {k \in (P + 1)..n : direction(k) = "neutral"}
           Right == {k \in (P + 1)..n : \/ direction(k) = "bullish" /\ rose(k)
                                        \/ direction(k) = "bearish" /\ ~rose(k)}
<1>1. /\ IsKind("prediction") /\ fetched = 3 /\ i <= n /\ walked' = i
      /\ tally' = [tally EXCEPT ![Scored(call, Rises(candles, i))] = @ + 1]
      /\ UNCHANGED <<agenda, fetched, history>>
  BY DEF WalkPrediction, Running, IsKind
<1>2. /\ P \in Nat \ {0} /\ walked \in Nat /\ candles \in Seq(Range(candles)) /\ n \in Nat
      /\ i \in (P + 1)..n /\ i > walked /\ i \in Nat
      /\ walked <= P \/ i = walked + 1
      /\ walked > P \/ i = P + 1
  <2>1. P \in Nat \ {0} /\ walked \in Nat /\ candles \in Seq(Range(candles)) /\ n \in Nat
    BY <1>1, WindowsAssumption, CandlesAssumption, LenProperties DEF BlindInv, WalkTyped
  <2>2. i = (IF walked > P THEN walked ELSE P) + 1
    BY <2>1, MaxOfTwo
  <2> HIDE DEF i, P, n
  <2> QED
    BY <1>1, <2>1, <2>2
<1>3. direction(i) = call.direction
  BY <1>2, BeforeIsBlind
<1>4. call.direction \in {"bullish", "bearish", "neutral"}
  BY DEF RuleBased, CallOf, Call
<1>5. Rises(candles, i) = rose(i) /\ rose(i) \in BOOLEAN
  BY DEF Rises
<1>6. /\ i \notin judged /\ IsFiniteSet(judged)
      /\ {k \in (P + 1)..n : k <= walked'} = judged \union {i}
  <2> HIDE DEF i, P, n
  <2>1. i \notin judged /\ {k \in (P + 1)..n : k <= walked'} = judged \union {i}
    BY <1>1, <1>2
  <2>2. IsFiniteSet((P + 1)..n)
    BY <1>2, FS_Interval
  <2> QED
    BY <2>1, <2>2, FS_Subset
<1>7. /\ i \in Neutral <=> call.direction = "neutral"
      /\ i \in Right <=> \/ call.direction = "bullish" /\ rose(i)
                         \/ call.direction = "bearish" /\ ~rose(i)
  <2> HIDE DEF i, P, n, direction, rose, call
  <2> QED
    BY <1>2, <1>3
<1> DEFINE known(J) ==
             /\ tally.neutral = Cardinality({k \in J : k \in Neutral})
             /\ tally.correct = Cardinality({k \in J : k \in Right})
             /\ tally.correct + tally.incorrect + tally.neutral = Cardinality(J)
           shown(J) ==
             /\ tally'.neutral = Cardinality({k \in J : k \in Neutral})
             /\ tally'.correct = Cardinality({k \in J : k \in Right})
             /\ tally'.correct + tally'.incorrect + tally'.neutral = Cardinality(J)
<1>8. known(judged)
  <2>1. /\ {k \in judged : k \in Neutral} = {k \in judged : direction(k) = "neutral"}
        /\ {k \in judged : k \in Right} = {k \in judged : \/ direction(k) = "bullish" /\ rose(k)
                                                          \/ direction(k) = "bearish" /\ ~rose(k)}
    <3> HIDE DEF P, n, i, call, direction, rose
    <3> QED
      OBVIOUS
  <2> QED
    BY <1>1, <2>1 DEF BlindInv, TallyBlind, IsKind
<1>9. shown(judged \union {i}) /\ tally' \in [{"correct", "incorrect", "neutral"} -> Nat]
  <2> HIDE DEF i, judged, Neutral, Right, rose, call
  <2>1. /\ Cardinality({k \in judged \union {i} : k \in Neutral})
             = Cardinality({k \in judged : k \in Neutral}) + (IF i \in Neutral THEN 1 ELSE 0)
        /\ Cardinality({k \in judged \union {i} : k \in Right})
             = Cardinality({k \in judged : k \in Right}) + (IF i \in Right THEN 1 ELSE 0)
        /\ Cardinality(judged \union {i}) = Cardinality(judged) + 1
        /\ Cardinality(judged) \in Nat
    BY <1>6, CountOne, FS_AddElement, FS_CardinalityType
  <2>2. tally \in [{"correct", "incorrect", "neutral"} -> Nat]
    BY DEF BlindInv, WalkTyped
  <2>3. CASE call.direction = "neutral"
    <3>1. Scored(call, Rises(candles, i)) = "neutral" /\ i \in Neutral /\ i \notin Right
      BY <1>7, <2>3 DEF Scored
    <3>2. /\ tally' \in [{"correct", "incorrect", "neutral"} -> Nat]
          /\ tally'.neutral = tally.neutral + 1
          /\ tally'.correct = tally.correct /\ tally'.incorrect = tally.incorrect
      BY <1>1, <2>2, <3>1
    <3> QED
      BY <1>8, <2>1, <2>2, <3>1, <3>2
  <2>4. CASE call.direction # "neutral" /\ i \in Right
    <3>1. Scored(call, Rises(candles, i)) = "correct" /\ i \notin Neutral
      BY <1>4, <1>5, <1>7, <2>4 DEF Scored
    <3>2. /\ tally' \in [{"correct", "incorrect", "neutral"} -> Nat]
          /\ tally'.correct = tally.correct + 1
          /\ tally'.neutral = tally.neutral /\ tally'.incorrect = tally.incorrect
      BY <1>1, <2>2, <3>1
    <3> QED
      BY <1>8, <2>1, <2>2, <2>4, <3>1, <3>2
  <2>5. CASE call.direction # "neutral" /\ i \notin Right
    <3>1. Scored(call, Rises(candles, i)) = "incorrect" /\ i \notin Neutral
      BY <1>4, <1>5, <1>7, <2>5 DEF Scored
    <3>2. /\ tally' \in [{"correct", "incorrect", "neutral"} -> Nat]
          /\ tally'.incorrect = tally.incorrect + 1
          /\ tally'.neutral = tally.neutral /\ tally'.correct = tally.correct
      BY <1>1, <2>2, <3>1
    <3> QED
      BY <1>8, <2>1, <2>2, <2>5, <3>1, <3>2
  <2> QED
    BY <2>3, <2>4, <2>5
<1>10. TallyBlind'
  <2> DEFINE J == {k \in (P + 1)..n : k <= walked'}
  <2>1. shown(J)
    BY <1>6, <1>9
  <2>2. /\ {k \in J : k \in Neutral} = {k \in J : direction(k) = "neutral"}
        /\ {k \in J : k \in Right} = {k \in J : \/ direction(k) = "bullish" /\ rose(k)
                                                \/ direction(k) = "bearish" /\ ~rose(k)}
    <3> HIDE DEF P, n, direction, rose
    <3> QED
      OBVIOUS
  <2>3. /\ tally'.neutral = Cardinality({k \in J : direction(k) = "neutral"})
        /\ tally'.correct = Cardinality({k \in J : \/ direction(k) = "bullish" /\ rose(k)
                                                   \/ direction(k) = "bearish" /\ ~rose(k)})
        /\ tally'.correct + tally'.incorrect + tally'.neutral = Cardinality(J)
    <3> HIDE DEF Neutral, Right, J, direction, rose
    <3> QED
      BY <2>1, <2>2
  <2>4. history' = history
    BY <1>1
  <2> HIDE DEF i, call
  <2> QED
    BY <2>3, <2>4 DEF TallyBlind
<1>11. WalkTyped' /\ WalkStarts' /\ (history'.fine \in Histories)
  BY <1>1, <1>2, <1>9 DEF BlindInv, WalkTyped, WalkStarts
<1> QED
  BY <1>10, <1>11 DEF BlindInv

(* A history is fetched: there is nothing to tally yet.                       *)
LEMMA FetchTallies == BlindInv /\ (Fetch4h \/ Fetch1h \/ FetchFine) => BlindInv'
<1> SUFFICES ASSUME BlindInv, Fetch4h \/ Fetch1h \/ FetchFine PROVE BlindInv'
  OBVIOUS
<1>1. fetched # 3 /\ UNCHANGED <<agenda, walked, tally>> /\ DOMAIN history' = DOMAIN history
  BY DEF Fetch4h, Fetch1h, FetchFine, BlindInv, WalkTyped
<1>2. Untallied' /\ WalkTyped' /\ WalkStarts'
  BY <1>1 DEF BlindInv, WalkTyped, WalkStarts, Untallied
<1>3. TallyBlind'
  BY <1>2, TallyOfNone, PTL
<1>4. (IsKind("prediction") /\ fetched = 3 => history.fine \in Histories)'
  BY DEF Fetch4h, Fetch1h, FetchFine, IsKind, Running, BlindInv, WalkTyped
<1> QED
  BY <1>2, <1>3, <1>4 DEF BlindInv

(* A run that ends leaves an empty tally to the next.                         *)
LEMMA PersistTallies == Persist => BlindInv'
<1> SUFFICES ASSUME Persist PROVE BlindInv'
  OBVIOUS
<1>1. fetched' = 0 /\ Untallied' /\ history' = NoHistory
  BY DEF Persist, Untallied
<1>2. TallyBlind'
  BY <1>1, TallyOfNone, PTL
<1> QED
  BY <1>1, <1>2 DEF Untallied, BlindInv, WalkTyped, WalkStarts, NoCalls, NoHistory

(* A signal run has no tally.                                                 *)
LEMMA SignalWalkTallies == BlindInv /\ WalkSignal => BlindInv'
<1> SUFFICES ASSUME BlindInv, WalkSignal PROVE BlindInv'
  OBVIOUS
<1>1. /\ IsKind("signal") /\ fetched = 3 /\ walked' = walked + 1
      /\ UNCHANGED <<agenda, fetched, tally>>
  BY DEF WalkSignal, Running, IsKind
<1>2. DOMAIN history' = DOMAIN history
  BY DEF WalkSignal
<1>3. ~IsKind("prediction")'
  BY <1>1 DEF IsKind
<1> QED
  BY <1>1, <1>2, <1>3 DEF BlindInv, WalkTyped, WalkStarts, Untallied, TallyBlind, IsKind

(* No job has walked or called anything at the start.                         *)
LEMMA BlindStart == Init => BlindInv
  BY TallyOfNone DEF Init, CliInit, BlindInv, WalkTyped, WalkStarts, Untallied, NoCalls, NoHistory

(* Every step of the program keeps the tally blind.                           *)
LEMMA BlindStep == BlindInv /\ [Next]_vars => BlindInv'
<1>1. CASE UNCHANGED <<agenda, fetched, history, walked, tally>>
  BY <1>1 DEF BlindInv, WalkTyped, WalkStarts, Untallied, TallyBlind, IsKind
<1> QED
  BY <1>1, FetchTallies, WalkTallies, SignalWalkTallies, PersistTallies
  DEF Next, CliNext, FetchFails, PersistFails, vars, cvars

(* The invariant of the walk always holds.                                    *)
LEMMA BlindAlways == Spec => []BlindInv
<1> QED
  BY BlindStart, BlindStep, PTL DEF Spec

(* The accuracy that a prediction backtest reports is that of calls made from *)
(* the window before the candle that judges each, every judged candle once    *)
(* (backtesting/prediction_backtest.py:57-75).                                *)
THEOREM CallsMadeBlind == Spec => []TallyBlind
<1>1. BlindInv => TallyBlind
  BY DEF BlindInv
<1> QED
  BY <1>1, BlindAlways, PTL

-----------------------------------------------------------------------------
(* The walk of a signal backtest.                                             *)

(* A signal as the walk keeps it.                                             *)
IsEntry(e) ==
    /\ DOMAIN e = {"setup", "opened", "status", "closed"}
    /\ e.opened \in Int /\ e.setup.after < e.opened

(* The signals of a walk, by when they were entered; only the last is open.   *)
LedgerOK(signals, now) ==
    /\ signals \in Seq(Range(signals))
    /\ \A i \in 1..Len(signals) : IsEntry(signals[i]) /\ signals[i].opened <= now
    /\ \A i \in 1..Len(signals), j \in 1..Len(signals) :
          j < i => signals[j].status # "open" /\ signals[j].opened < signals[i].opened

(* The window of a signal walk ends with the candle it stands on.             *)
FineSeen ==
    IsKind("signal") =>
        /\ history.fine \in Seq(Range(history.fine))
        /\ \A c \in Range(history.fine) : c.at \in Int /\ c.at <= walked

TapInv == LedgerOK(ledger, walked) /\ FineSeen

(* Signals kept in this order are entered by fresh taps.                      *)
LEMMA LedgerIsFresh == LedgerOK(ledger, walked) => TapsFresh
<1> SUFFICES ASSUME LedgerOK(ledger, walked) PROVE TapsFresh
  OBVIOUS
<1>1. DOMAIN ledger = 1..Len(ledger) /\ Len(ledger) \in Nat
  BY LenProperties DEF LedgerOK
<1> QED
  BY <1>1 DEF LedgerOK, IsEntry, TapsFresh

(* A slice is of the elements of what it is taken from.                       *)
LEMMA SliceType ==
    ASSUME NEW S, NEW s \in Seq(S), NEW p \in 0..Len(s), NEW n \in Nat
    PROVE  Slice(s, p, n) \in Seq(S)
<1>1. Len(s) \in Nat /\ p \in Int /\ p <= Len(s) /\ p - n + 1 \in Int
  BY LenProperties
<1>2. Max({1, p - n + 1}) \in Int /\ Max({1, p - n + 1}) >= 1
  BY <1>1, MaxOfTwo
<1> DEFINE m == Max({1, p - n + 1})
<1>3. \A i \in m..p : s[i] \in S
  <2> HIDE DEF m
  <2>1. \A i \in m..p : i \in 1..Len(s)
    BY <1>1, <1>2 DEF m
  <2> QED
    BY <2>1, ElementOfSeq
<1> QED
  BY <1>1, <1>2, <1>3, SubSeqProperties DEF Slice

(* A set of at most one element as a sequence.                                *)
LEMMA SequenceOfOne ==
    ASSUME NEW S, \A x, y \in S : x = y
    PROVE  \/ S = {} /\ SetToSeq(S) = <<>>
           \/ \E x \in S : SetToSeq(S) = <<x>>
<1>1. CASE S = {}
  <2>1. Cardinality(S) = 0
    BY <1>1, FS_EmptySet
  <2>2. <<>> \in [1..Cardinality(S) -> S] /\ IsInjective(<<>>)
    BY <2>1 DEF IsInjective
  <2>3. SetToSeq(S) \in [1..Cardinality(S) -> S]
    BY <2>2 DEF SetToSeq
  <2>4. SetToSeq(S) = <<>>
    BY <2>1, <2>3
  <2> QED
    BY <1>1, <2>4
<1>2. CASE S # {}
  <2>1. PICK x \in S : S = {x}
    BY <1>2
  <2>2. Cardinality(S) = 1
    BY <2>1, FS_Singleton
  <2>3. <<x>> \in [1..Cardinality(S) -> S] /\ IsInjective(<<x>>)
    BY <2>2 DEF IsInjective
  <2>4. SetToSeq(S) \in [1..Cardinality(S) -> S]
    BY <2>3 DEF SetToSeq
  <2>5. SetToSeq(S) = <<x>>
    BY <2>1, <2>2, <2>4
  <2> QED
    BY <2>5
<1> QED
  BY <1>1, <1>2

(* build_signal finds one signal or none.                                     *)
LEMMA BuiltOnce ==
    ASSUME NEW w4h, NEW w1h, NEW w15, NEW eligible
    PROVE  \A x, y \in BuildSignal(w4h, w1h, w15, eligible) : x = y
<1>1. ASSUME NEW S, NEW e PROVE \A x, y \in Some(S, e) : x = y
  BY DEF Some
<1>2. \A x, y \in Bias(w4h) : x = y
  BY <1>1 DEF Bias
<1>3. ASSUME NEW bias PROVE \A x, y \in Setup(bias, w1h) : x = y
  <2> DEFINE points == SwingPoints(w1h)
             sweeps == Sweeps(points, w1h)
             breaks == StructureBreaks(points, w1h)
             weak == WeakPoints(points, sweeps, breaks)
             best(leg, zones) == Some(zones, BestZone(zones, SubSeq(w1h, leg.from, leg.to)))
             with(leg, zone) ==
               {[bias |-> bias, leg |-> leg, low |-> zone.low, high |-> zone.high,
                 stop |-> Stop(bias, w1h, leg), target |-> Unit * price, after |-> w1h[leg.to].at] :
                   price \in Targets(bias, weak, zone)}
             legs == Leg(bias, w1h, sweeps, breaks)
             all(leg) == UNION {with(leg, zone) : zone \in best(leg, Zones(bias, w1h, leg))}
  <2>1. Setup(bias, w1h) = UNION {all(leg) : leg \in legs}
    BY DEF Setup
  <2>2. \A x, y \in legs : x = y
    BY DEF Leg
  <2>3. ASSUME NEW leg, NEW zone PROVE \A x, y \in with(leg, zone) : x = y
    <3>1. \A x, y \in Targets(bias, weak, zone) : x = y
      BY <1>1 DEF Targets
    <3> HIDE DEF weak
    <3> QED
      BY <3>1
  <2>4. ASSUME NEW leg PROVE \A x, y \in best(leg, Zones(bias, w1h, leg)) : x = y
    BY <1>1
  <2> HIDE DEF with, best, legs
  <2>5. ASSUME NEW leg PROVE \A x, y \in all(leg) : x = y
    BY <2>3, <2>4
  <2> HIDE DEF all
  <2> QED
    BY <2>1, <2>2, <2>5
<1>4. \A x, y \in UNION {Setup(bias, w1h) : bias \in Bias(w4h)} : x = y
  BY <1>2, <1>3
<1> DEFINE setups == UNION {Setup(bias, w1h) : bias \in Bias(w4h)}
<1> HIDE DEF setups
<1>5. \A x, y \in setups : x = y
  BY <1>4 DEF setups
<1> QED
  BY <1>5 DEF BuildSignal, setups

(* Grading closes the last signal or leaves it open, and changes nothing of   *)
(* what a signal was entered for.                                             *)
LEMMA GradedShape ==
    ASSUME NEW signals, signals \in Seq(Range(signals)),
           \A i \in 1..Len(signals) : IsEntry(signals[i]), NEW c
    PROVE  /\ Graded(signals, c) \in Seq(Range(Graded(signals, c)))
           /\ Len(Graded(signals, c)) = Len(signals)
           /\ \A i \in 1..Len(signals) : /\ IsEntry(Graded(signals, c)[i])
                                         /\ Graded(signals, c)[i].opened = signals[i].opened
                                         /\ Graded(signals, c)[i].setup = signals[i].setup
           /\ \A i \in 1..(Len(signals) - 1) : Graded(signals, c)[i] = signals[i]
<1> DEFINE n == Len(signals)
           status == Grade(Last(signals), c, Expiry)
           closing == [Last(signals) EXCEPT !.status = status, !.closed = c.at]
           S == Range(signals) \union {closing}
           closed == Front(signals) \o <<closing>>
<1>1. \/ Graded(signals, c) = signals
      \/ signals # <<>> /\ Graded(signals, c) = closed
  BY DEF Graded, HasOpen
<1>2. CASE signals # <<>> /\ Graded(signals, c) = closed
  <2>1. /\ n \in Nat \ {0} /\ signals \in Seq(S) /\ \A i \in 1..n : signals[i] \in S
        /\ Last(signals) = signals[n]
    <3>1. signals \in Seq(S)
      BY SeqMonotonic
    <3> QED
      BY <1>2, <3>1, EmptySeq, ElementOfSeq DEF Last
  <2>2. IsEntry(closing) /\ closing.opened = signals[n].opened /\ closing.setup = signals[n].setup
    BY <2>1 DEF IsEntry
  <2> HIDE DEF closing
  <2>3. Front(signals) \in Seq(S) /\ Len(Front(signals)) = n - 1
        /\ \A i \in 1..(n - 1) : Front(signals)[i] = signals[i]
    <3> HIDE DEF n, S
    <3>1. \A i \in 1..(n - 1) : signals[i] \in S
      BY <2>1
    <3>2. 1 \in Int /\ n - 1 \in Int
      BY <2>1
    <3> DEFINE front == SubSeq(signals, 1, n - 1)
    <3>3. /\ front \in Seq(S)
          /\ Len(front) = IF 1 <= n - 1 THEN n - 1 - 1 + 1 ELSE 0
          /\ \A i \in 1..(n - 1 - 1 + 1) : front[i] = signals[1 + i - 1]
      BY <3>1, <3>2, SubSeqProperties
    <3>4. Front(signals) = front
      BY DEF Front, n
    <3> HIDE DEF front
    <3>5. \A i \in 1..(n - 1) : i \in 1..(n - 1 - 1 + 1) /\ 1 + i - 1 = i
      BY <2>1
    <3>6. Len(front) = n - 1
      BY <2>1, <3>3
    <3>7. \A i \in 1..(n - 1) : front[i] = signals[i]
      BY <3>3, <3>5
    <3> QED
      BY <3>3, <3>4, <3>6, <3>7
  <2>4. <<closing>> \in Seq(S) /\ Len(<<closing>>) = 1 /\ <<closing>>[1] = closing
    BY DEF S
  <2>5. /\ closed \in Seq(S) /\ Len(closed) = n
        /\ \A i \in 1..(n - 1) : closed[i] = signals[i]
        /\ closed[n] = closing
    <3> HIDE DEF n, S
    <3>1. /\ closed \in Seq(S) /\ Len(closed) = (n - 1) + 1
          /\ \A i \in 1..((n - 1) + 1) :
                closed[i] = IF i <= n - 1 THEN Front(signals)[i] ELSE <<closing>>[i - (n - 1)]
      BY <2>3, <2>4, ConcatProperties
    <3> HIDE DEF closed
    <3> QED
      BY <2>1, <2>3, <2>4, <3>1
  <2>6. closed \in Seq(Range(closed))
    BY <2>5, SeqOfRange
  <2> HIDE DEF closed, S
  <2>7. ASSUME NEW i \in 1..n
        PROVE  /\ IsEntry(closed[i]) /\ closed[i].opened = signals[i].opened
               /\ closed[i].setup = signals[i].setup
    <3>1. CASE i = n
      BY <2>2, <2>5, <3>1
    <3>2. CASE i # n
      <4>1. i \in 1..(n - 1)
        BY <2>1, <3>2
      <4> QED
        BY <2>5, <4>1
    <3> QED
      BY <3>1, <3>2
  <2> QED
    BY <1>2, <2>5, <2>6, <2>7
<1> HIDE DEF closed
<1>3. CASE Graded(signals, c) = signals
  <2>1. n \in Nat
    BY LenProperties
  <2> QED
    BY <1>3, <2>1
<1> QED
  BY <1>1, <1>2, <1>3

(* Closing the last signal, or leaving it open, keeps the order.              *)
LEMMA GradedOK ==
    ASSUME NEW signals, NEW now, LedgerOK(signals, now), NEW c
    PROVE  LedgerOK(Graded(signals, c), now)
<1> DEFINE n == Len(signals)
           graded == Graded(signals, c)
<1>1. n \in Nat
  BY LenProperties DEF LedgerOK
<1>2. /\ graded \in Seq(Range(graded)) /\ Len(graded) = n
      /\ \A i \in 1..n : IsEntry(graded[i]) /\ graded[i].opened = signals[i].opened
      /\ \A i \in 1..(n - 1) : graded[i] = signals[i]
  BY GradedShape DEF LedgerOK
<1>3. /\ \A i \in 1..n : signals[i].opened <= now
      /\ \A i \in 1..n, j \in 1..n :
            j < i => signals[j].status # "open" /\ signals[j].opened < signals[i].opened
  BY DEF LedgerOK
<1> HIDE DEF n, graded
<1>4. ASSUME NEW i \in 1..n, NEW j \in 1..n, j < i
      PROVE  graded[j].status # "open" /\ graded[j].opened < graded[i].opened
  <2>1. j \in 1..(n - 1)
    BY <1>1, <1>4
  <2>2. graded[j] = signals[j]
    BY <1>2, <2>1
  <2> QED
    BY <1>2, <1>3, <1>4, <2>2
<1> QED
  BY <1>2, <1>3, <1>4 DEF LedgerOK, graded

(* A signal that is entered later than a ledger without an open one.          *)
LEMMA EnteredOK ==
    ASSUME NEW signals, NEW now \in Int, LedgerOK(signals, now), NEW e, IsEntry(e),
           e.opened <= now + 1, ~HasOpen(signals),
           \A t \in UsedTap(signals) : e.opened > t
    PROVE  LedgerOK(signals \o <<e>>, now + 1)
<1> DEFINE n == Len(signals)
           S == Range(signals) \union {e}
           longer == signals \o <<e>>
<1>1. n \in Nat /\ signals \in Seq(S)
  <2>1. signals \in Seq(Range(signals))
    BY DEF LedgerOK
  <2> QED
    BY <2>1, SeqMonotonic, LenProperties
<1>2. <<e>> \in Seq(S) /\ Len(<<e>>) = 1 /\ <<e>>[1] = e
  OBVIOUS
<1>3. /\ longer \in Seq(S) /\ Len(longer) = n + 1
      /\ \A i \in 1..n : longer[i] = signals[i]
      /\ longer[n + 1] = e
  <2> HIDE DEF S, n
  <2>1. /\ longer \in Seq(S) /\ Len(longer) = n + 1
        /\ \A i \in 1..(n + 1) : longer[i] = IF i <= n THEN signals[i] ELSE <<e>>[i - n]
    BY <1>1, <1>2, ConcatProperties DEF n
  <2> HIDE DEF longer
  <2> QED
    BY <1>1, <1>2, <2>1
<1>4. longer \in Seq(Range(longer))
  BY <1>3, SeqOfRange
<1>5. /\ \A i \in 1..n : IsEntry(signals[i]) /\ signals[i].opened <= now
      /\ \A i \in 1..n, j \in 1..n :
            j < i => signals[j].status # "open" /\ signals[j].opened < signals[i].opened
  BY DEF LedgerOK
<1>6. n # 0 => signals[n].status # "open" /\ signals[n].opened < e.opened
  <2>1. n # 0 => signals # <<>>
    BY <1>1, EmptySeq
  <2>2. signals # <<>> => signals[n].status # "open"
    BY DEF HasOpen, Last
  <2>3. signals # <<>> => e.opened > signals[n].opened
    BY DEF UsedTap, Last
  <2>4. n # 0 => signals[n].opened \in Int /\ e.opened \in Int
    BY <1>1, <1>5 DEF IsEntry
  <2> QED
    BY <2>1, <2>2, <2>3, <2>4
<1> HIDE DEF n, S, longer
<1>7. ASSUME NEW i \in 1..(n + 1)
      PROVE  IsEntry(longer[i]) /\ longer[i].opened <= now + 1
  <2>1. CASE i = n + 1
    BY <1>3, <2>1
  <2>2. CASE i # n + 1
    <3>1. i \in 1..n
      BY <1>1, <2>2
    <3>2. longer[i] = signals[i] /\ IsEntry(signals[i]) /\ signals[i].opened <= now
      BY <1>3, <1>5, <3>1
    <3> QED
      BY <3>2 DEF IsEntry
  <2> QED
    BY <2>1, <2>2
<1>8. ASSUME NEW i \in 1..(n + 1), NEW j \in 1..(n + 1), j < i
      PROVE  longer[j].status # "open" /\ longer[j].opened < longer[i].opened
  <2>1. j \in 1..n /\ n # 0 /\ longer[j] = signals[j] /\ n \in 1..n
    BY <1>1, <1>3, <1>8
  <2>2. CASE i = n + 1
    <3>1. CASE j = n
      BY <1>3, <1>6, <2>1, <2>2, <3>1
    <3>2. CASE j # n
      <4>1. j < n
        BY <1>1, <2>1, <3>2
      <4>2. signals[j].status # "open" /\ signals[j].opened < signals[n].opened
        BY <1>5, <2>1, <4>1
      <4>3. /\ signals[j].opened \in Int /\ signals[n].opened \in Int /\ e.opened \in Int
            /\ signals[n].opened < e.opened
        BY <1>5, <1>6, <2>1 DEF IsEntry
      <4> QED
        BY <1>3, <2>1, <2>2, <4>2, <4>3
    <3> QED
      BY <3>1, <3>2
  <2>3. CASE i # n + 1
    <3>1. i \in 1..n /\ longer[i] = signals[i]
      BY <1>1, <1>3, <2>3
    <3> QED
      BY <1>5, <1>8, <2>1, <3>1
  <2> QED
    BY <2>2, <2>3
<1> QED
  BY <1>3, <1>4, <1>7, <1>8 DEF LedgerOK, longer

(* The tap that enters a signal is an eligible candle of the window, newer    *)
(* than the leg.                                                              *)
LEMMA TapTaken ==
    ASSUME NEW w4h, NEW w1h, NEW w15, NEW used, NEW now \in Int,
           w15 \in Seq(Range(w15)), \A c \in Range(w15) : c.at \in Int /\ c.at <= now,
           NEW e \in BuildSignal(w4h, w1h, w15, Eligible(w15, used))
    PROVE  IsEntry(e) /\ e.opened <= now /\ \A t \in used : e.opened > t
<1>1. PICK s : /\ e = [setup |-> s, opened |-> w15[Max(Taps(s, w15, Eligible(w15, used)))].at,
                       status |-> "open", closed |-> 0]
               /\ Taps(s, w15, Eligible(w15, used)) # {}
  BY DEF BuildSignal
<1> DEFINE taps == Taps(s, w15, Eligible(w15, used))
<1>2. /\ taps \subseteq 1..Len(w15) /\ Len(w15) \in Nat
      /\ \A i \in taps : w15[i].at > s.after /\ \A t \in used : w15[i].at > t
  BY LenProperties DEF Taps, Eligible
<1>3. Max(taps) \in taps
  <2>1. taps # {}
    BY <1>1
  <2> HIDE DEF taps
  <2>2. IsFiniteSet(1..Len(w15))
    <3>1. 1 \in Int /\ Len(w15) \in Int
      BY <1>2
    <3> QED
      BY <3>1, FS_Interval
  <2>3. taps \in SUBSET (1..Len(w15)) /\ taps \in SUBSET Int
    BY <1>2
  <2>4. IsFiniteSet(taps)
    BY <2>2, <2>3, FS_Subset
  <2> QED
    BY <2>1, <2>3, <2>4, Extremes
<1> DEFINE tap == w15[Max(taps)]
<1>4. e.opened = tap.at /\ e.setup = s /\ DOMAIN e = {"setup", "opened", "status", "closed"}
  BY <1>1
<1> HIDE DEF taps
<1>5. tap \in Range(w15)
  BY <1>2, <1>3, ElementOfSeq
<1> QED
  BY <1>2, <1>3, <1>4, <1>5 DEF IsEntry

(* A candle of a signal walk.                                                 *)
LEMMA WalkEnters == BlindInv /\ TapInv /\ WalkSignal => TapInv'
<1> SUFFICES ASSUME BlindInv, TapInv, WalkSignal PROVE TapInv'
  OBVIOUS
<1>1. PICK shape \in Candles15 :
        LET c == [shape EXCEPT !.at = walked + 1]
            fine == Slice(Append(history.fine, c), Len(history.fine) + 1, Window15)
            graded == Graded(ledger, c)
            opened == IF HasOpen(graded) THEN {} ELSE Opened(history, fine, graded, c)
        IN  /\ history' = [history EXCEPT !.fine = fine]
            /\ ledger' = graded \o SetToSeq(opened)
  BY DEF WalkSignal
<1> DEFINE c == [shape EXCEPT !.at = walked + 1]
           fine == Slice(Append(history.fine, c), Len(history.fine) + 1, Window15)
           graded == Graded(ledger, c)
           opened == IF HasOpen(graded) THEN {} ELSE Opened(history, fine, graded, c)
<1>2. /\ IsKind("signal") /\ walked' = walked + 1 /\ walked \in Nat /\ history'.fine = fine
      /\ agenda' = agenda
  BY <1>1 DEF WalkSignal, Running, IsKind, BlindInv, WalkTyped
<1>3. c.at = walked + 1
  BY CandlesAssumption DEF IsCandle
<1>4. fine \in Seq(Range(fine)) /\ \A x \in Range(fine) : x.at \in Int /\ x.at <= walked + 1
  <2> DEFINE S == Range(history.fine) \union {c}
             longer == Append(history.fine, c)
  <2>1. history.fine \in Seq(S) /\ c \in S
    BY <1>2, SeqMonotonic DEF TapInv, FineSeen
  <2>2. \A x \in S : x.at \in Int /\ x.at <= walked + 1
    <3>1. \A x \in Range(history.fine) : x.at \in Int /\ x.at <= walked
      BY <1>2 DEF TapInv, FineSeen
    <3> HIDE DEF c
    <3> QED
      BY <1>2, <1>3, <3>1
  <2> HIDE DEF S, c
  <2>3. longer \in Seq(S) /\ Len(longer) = Len(history.fine) + 1 /\ Len(longer) \in Nat
    BY <2>1, AppendProperties, LenProperties
  <2>4. fine \in Seq(S)
    <3>1. Len(history.fine) + 1 \in 0..Len(longer) /\ Window15 \in Nat
      BY <2>3, WindowsAssumption
    <3> QED
      BY <2>3, <3>1, SliceType
  <2> HIDE DEF fine
  <2>5. fine \in Seq(Range(fine)) /\ Range(fine) \subseteq S
    BY <2>4, SeqOfRange, RangeOfSeq
  <2> QED
    BY <2>2, <2>5
<1>5. LedgerOK(graded, walked)
  BY GradedOK DEF TapInv
<1>6. \A x, y \in opened : x = y
  <2> HIDE DEF c, fine, graded
  <2> QED
    BY BuiltOnce DEF Opened
<1>7. CASE opened = {} /\ SetToSeq(opened) = <<>>
  <2> HIDE DEF c, fine, opened
  <2>1. graded \in Seq(Range(graded))
    BY <1>5 DEF LedgerOK
  <2>2. ledger' = graded
    BY <1>1, <1>7, <2>1, ConcatEmptySeq DEF c, fine, opened
  <2> HIDE DEF graded
  <2>3. LedgerOK(graded, walked + 1)
    BY <1>2, <1>5 DEF LedgerOK, IsEntry
  <2> QED
    BY <1>2, <1>4, <2>2, <2>3 DEF TapInv, FineSeen
<1>8. ASSUME NEW e \in opened, SetToSeq(opened) = <<e>>
      PROVE  TapInv'
  <2>1. ~HasOpen(graded)
    BY <1>8
  <2>2. PICK w4h, w1h : e \in BuildSignal(w4h, w1h, fine, Eligible(fine, UsedTap(graded)))
    <3>1. e \in Opened(history, fine, graded, c)
      BY <1>8
    <3> HIDE DEF c, fine, graded, opened
    <3> QED
      BY <3>1 DEF Opened
  <2> HIDE DEF c, fine, graded, opened
  <2>3. walked + 1 \in Int
    BY <1>2
  <2>4. IsEntry(e) /\ e.opened <= walked + 1 /\ \A t \in UsedTap(graded) : e.opened > t
    BY <1>4, <2>2, <2>3, TapTaken
  <2>5. LedgerOK(graded \o <<e>>, walked + 1)
    BY <1>2, <1>5, <2>1, <2>4, EnteredOK
  <2>6. ledger' = graded \o <<e>>
    BY <1>1, <1>8 DEF c, fine, graded, opened
  <2> QED
    BY <1>2, <1>4, <2>5, <2>6 DEF TapInv, FineSeen
<1> HIDE DEF opened
<1> QED
  BY <1>6, <1>7, <1>8, SequenceOfOne

(* The walk of a prediction backtest passes its candles and enters nothing.   *)
LEMMA PassesTaps == BlindInv /\ TapInv /\ WalkPrediction => TapInv'
<1> SUFFICES ASSUME BlindInv, TapInv, WalkPrediction PROVE TapInv'
  OBVIOUS
<1>1. /\ IsKind("prediction") /\ UNCHANGED <<agenda, history, ledger>>
      /\ walked' = Max({walked, PredictionWindow}) + 1
  BY DEF WalkPrediction, Running, IsKind
<1>2. walked \in Nat /\ walked' \in Nat /\ walked <= walked'
  <2>1. walked \in Nat /\ PredictionWindow \in Nat
    BY WindowsAssumption DEF BlindInv, WalkTyped
  <2> QED
    BY <1>1, <2>1, MaxOfTwo
<1>3. LedgerOK(ledger, walked')
  BY <1>2 DEF TapInv, LedgerOK, IsEntry
<1> QED
  BY <1>1, <1>3 DEF TapInv, FineSeen, IsKind

(* The invariant of the signal walk always holds.                             *)
LEMMA TapsAlways == Spec => []TapInv
<1>1. Init => TapInv
  BY EmptySeq, LenProperties DEF Init, CliInit, TapInv, LedgerOK, FineSeen, NoHistory, Range
<1>2. BlindInv /\ TapInv /\ [Next]_vars => TapInv'
  <2>1. CASE UNCHANGED <<agenda, history, walked, ledger>>
    BY <2>1 DEF TapInv, LedgerOK, FineSeen, IsKind
  <2>2. CASE Fetch4h \/ Fetch1h \/ FetchFine
    <3>1. UNCHANGED <<agenda, walked, ledger>>
      BY <2>2 DEF Fetch4h, Fetch1h, FetchFine
    <3>2. IsKind("signal") => history'.fine = history.fine
      <4>1. CASE Fetch4h
        BY <4>1 DEF Fetch4h, BlindInv, WalkTyped
      <4>2. CASE Fetch1h
        BY <4>2 DEF Fetch1h, BlindInv, WalkTyped
      <4>3. CASE FetchFine
        BY <4>3 DEF FetchFine, Running, IsKind
      <4> QED
        BY <2>2, <4>1, <4>2, <4>3
    <3> QED
      BY <3>1, <3>2 DEF BlindInv, TapInv, FineSeen, IsKind
  <2>3. CASE Persist
    BY <2>3, EmptySeq, LenProperties DEF Persist, TapInv, LedgerOK, FineSeen, NoHistory, Range
  <2> QED
    BY <2>1, <2>2, <2>3, WalkEnters, PassesTaps
    DEF Next, CliNext, FetchFails, PersistFails, vars, cvars
<1> QED
  BY <1>1, <1>2, BlindAlways, PTL DEF Spec

(* A signal of the backtest is entered by a candle behind its leg that has    *)
(* closed by then, later than the candle that entered the signal before it,   *)
(* which is resolved: no tap is used twice and no two signals are open at     *)
(* once (backtesting/signal_backtest.py:73-120,                               *)
(* prediction/signal_builder.py, eligible_entry_candles and _check_entry).    *)
THEOREM EntriesAreFresh == Spec => []TapsFresh
<1>1. TapInv => TapsFresh
  BY LedgerIsFresh DEF TapInv
<1> QED
  BY <1>1, TapsAlways, PTL

-----------------------------------------------------------------------------
(* The target of a signal.                                                    *)

IsWindow(w) == w \in Seq(Range(w)) /\ \A c \in Range(w) : IsCandle(c)

(* What every candle of a window has.                                         *)
LEMMA WindowType ==
    ASSUME NEW w, IsWindow(w)
    PROVE  /\ Len(w) \in Nat /\ DOMAIN w = 1..Len(w)
           /\ \A i \in 1..Len(w) : /\ IsCandle(w[i]) /\ w[i].at \in Int
                                   /\ \A kind : Level(w[i], kind) \in Int
<1>1. Len(w) \in Nat /\ DOMAIN w = 1..Len(w)
  BY LenProperties DEF IsWindow
<1>2. ASSUME NEW i \in 1..Len(w) PROVE IsCandle(w[i])
  BY ElementOfSeq DEF IsWindow
<1> QED
  BY <1>1, <1>2 DEF IsCandle, Level

(* The values of a function on a finite set are finitely many.                *)
LEMMA ImageFinite ==
    ASSUME NEW S, IsFiniteSet(S), NEW R, NEW f \in [S -> R], NEW T, T \subseteq {f[x] : x \in S}
    PROVE  IsFiniteSet(T)
<1> DEFINE U == {f[x] : x \in S}
<1>1. f \in Surjection(S, U)
  BY DEF Surjection
<1> HIDE DEF U
<1>2. IsFiniteSet(U)
  BY <1>1, FS_Surjection
<1> QED
  BY <1>2, FS_Subset DEF U

(* The swing points of a window are finitely many, each at the price of its   *)
(* candle.                                                                    *)
LEMMA PointsType ==
    ASSUME NEW w, IsWindow(w)
    PROVE  /\ IsFiniteSet(SwingPoints(w))
           /\ \A p \in SwingPoints(w) :
                 p.index \in 1..Len(w) /\ p.price = Level(w[p.index], p.kind) /\ p.price \in Int
<1> DEFINE X == ((1 + Lookback)..(Len(w) - Lookback)) \X {"high", "low"}
           f == [x \in X |-> Point(w, x)]
<1>1. Len(w) \in Nat /\ Lookback \in Nat
  BY WindowType, PeriodsAssumption
<1>2. IsFiniteSet(X)
  <2>1. IsFiniteSet((1 + Lookback)..(Len(w) - Lookback))
    BY <1>1, FS_Interval
  <2>2. IsFiniteSet({"high", "low"})
    <3>1. IsFiniteSet({"low"})
      BY FS_Singleton
    <3>2. IsFiniteSet({"low"} \union {"high"})
      BY <3>1, FS_AddElement
    <3>3. {"high", "low"} = {"low"} \union {"high"}
      OBVIOUS
    <3> QED
      BY <3>2, <3>3
  <2> QED
    BY <2>1, <2>2, FS_Product
<1>3. SwingPoints(w) \subseteq {f[x] : x \in X}
  BY DEF SwingPoints
<1>4. IsFiniteSet(SwingPoints(w))
  <2>1. f \in [X -> {Point(w, x) : x \in X}]
    OBVIOUS
  <2> HIDE DEF f, X
  <2> QED
    BY <1>2, <1>3, <2>1, ImageFinite
<1>5. ASSUME NEW p \in SwingPoints(w)
      PROVE  p.index \in 1..Len(w) /\ p.price = Level(w[p.index], p.kind) /\ p.price \in Int
  <2>1. PICK x \in X : p = Point(w, x)
    BY DEF SwingPoints
  <2>2. p.index = x[1] /\ p.kind = x[2] /\ p.price = Level(w[x[1]], x[2])
    BY <2>1 DEF Point
  <2>3. x[1] \in 1..Len(w)
    BY <1>1
  <2> QED
    BY <2>2, <2>3, WindowType
<1> QED
  BY <1>4, <1>5

(* An untested point is one that no later candle of the window has passed,    *)
(* not even by its wick.                                                      *)
LEMMA WeakUntouched ==
    ASSUME NEW w, IsWindow(w), NEW points, points = SwingPoints(w),
           NEW p \in WeakPoints(points, Sweeps(points, w), StructureBreaks(points, w)),
           NEW k \in (p.index + 1)..Len(w)
    PROVE  p \in points /\ ~Beyond(p.kind, Level(w[k], p.kind), p.price)
<1> DEFINE touches == {i \in After(p, w) : \/ Beyond(p.kind, w[i].close, p.price)
                                           \/ Beyond(p.kind, Level(w[i], p.kind), p.price)}
           through == {i \in After(p, w) : Beyond(p.kind, w[i].close, p.price)}
           first == Min(touches)
<1>1. /\ p \in points
      /\ \A s \in Sweeps(points, w) : s.point # p
      /\ \A b \in StructureBreaks(points, w) : b.point # p
  BY DEF WeakPoints
<1>2. touches # {} => first \in touches
  <2>1. p.index \in Int /\ Len(w) \in Int
    BY <1>1, PointsType, WindowType
  <2>2. After(p, w) \subseteq Int /\ IsFiniteSet(After(p, w))
    BY <2>1, FS_Interval DEF After
  <2>3. touches \in SUBSET After(p, w)
    OBVIOUS
  <2> HIDE DEF touches
  <2>4. touches \in SUBSET Int /\ IsFiniteSet(touches)
    BY <2>2, <2>3, FS_Subset
  <2> QED
    BY <2>4, Extremes
<1>3. ~(touches # {} /\ ~Beyond(p.kind, w[first].close, p.price))
  <2> SUFFICES ASSUME touches # {}, ~Beyond(p.kind, w[first].close, p.price) PROVE FALSE
    OBVIOUS
  <2>1. [point |-> p, at |-> first] \in Sweeps(points, w)
    BY <1>1 DEF Sweeps
  <2> QED
    BY <1>1, <2>1
<1>4. through = {}
  <2> SUFFICES ASSUME through # {} PROVE FALSE
    OBVIOUS
  <2> DEFINE passed(q) == {i \in After(q, w) : Beyond(q.kind, w[i].close, q.price)}
             broken == {q \in points : passed(q) # {}}
             earlier(q) == {x \in broken : Walked(x, q)}
             event(q) == IF earlier(q) # {} /\ LastWalked(earlier(q)).kind = q.kind THEN "bos" ELSE "choch"
             break(q) == [event |-> event(q), point |-> q, at |-> Min(passed(q))]
  <2>1. \E b \in StructureBreaks(points, w) : b.point = p
    <3>1. StructureBreaks(points, w) = {break(q) : q \in broken}
      BY DEF StructureBreaks
    <3>2. p \in broken
      BY <1>1
    <3>3. break(p).point = p
      OBVIOUS
    <3> HIDE DEF break, broken
    <3> QED
      BY <3>1, <3>2, <3>3
  <2> QED
    BY <1>1, <2>1
<1>5. touches = {}
  <2> SUFFICES ASSUME touches # {} PROVE FALSE
    OBVIOUS
  <2>1. first \in touches
    BY <1>2
  <2>2. Beyond(p.kind, w[first].close, p.price)
    BY <1>3
  <2> HIDE DEF first
  <2>3. first \in through
    BY <2>1, <2>2
  <2> QED
    BY <1>4, <2>3
<1>6. k \in After(p, w)
  BY DEF After
<1> QED
  BY <1>1, <1>5, <1>6

(* Prices are compared alike in whole and in parts.                           *)
LEMMA InParts ==
    ASSUME NEW u \in Nat \ {0}, NEW a \in Int, NEW b \in Int, NEW kind,
           Beyond(kind, u * a, u * b)
    PROVE  Beyond(kind, a, b)
<1>1. ASSUME NEW x \in Int, NEW y \in Int, x <= y PROVE u * x <= u * y
  <2>1. y - x \in Nat
    BY <1>1
  <2>2. u * (y - x) \in Nat
    BY <2>1
  <2>3. u * (y - x) = u * y - u * x
    OBVIOUS
  <2> QED
    BY <2>2, <2>3
<1>2. a <= b => u * a <= u * b
  BY <1>1
<1>3. b <= a => u * b <= u * a
  BY <1>1
<1>4. u * a \in Int /\ u * b \in Int
  OBVIOUS
<1> QED
  BY <1>2, <1>3, <1>4 DEF Beyond

(* The target of a setup is an untested point of the window.                  *)
LEMMA SetupTarget ==
    ASSUME NEW w, IsWindow(w), NEW bias, NEW s \in Setup(bias, w)
    PROVE  \E j \in DOMAIN w :
              /\ Unit * Level(w[j], s.bias) = s.target
              /\ \A k \in (j + 1)..Len(w) : ~Beyond(s.bias, Unit * Level(w[k], s.bias), s.target)
<1> DEFINE points == SwingPoints(w)
           weak == WeakPoints(points, Sweeps(points, w), StructureBreaks(points, w))
<1>0. PICK zone : \E price \in Targets(bias, weak, zone) : s.bias = bias /\ s.target = Unit * price
  <2> DEFINE sweeps == Sweeps(points, w)
             breaks == StructureBreaks(points, w)
             best(leg, zones) == Some(zones, BestZone(zones, SubSeq(w, leg.from, leg.to)))
             with(leg, z) ==
               {[bias |-> bias, leg |-> leg, low |-> z.low, high |-> z.high,
                 stop |-> Stop(bias, w, leg), target |-> Unit * x, after |-> w[leg.to].at] :
                   x \in Targets(bias, weak, z)}
  <2>1. Setup(bias, w) = UNION {UNION {with(leg, z) : z \in best(leg, Zones(bias, w, leg))} :
                                  leg \in Leg(bias, w, sweeps, breaks)}
    BY DEF Setup
  <2> HIDE DEF with, best, sweeps, breaks
  <2>2. PICK leg, z : s \in with(leg, z)
    BY <2>1
  <2>3. \E x \in Targets(bias, weak, z) : s.bias = bias /\ s.target = Unit * x
    <3> HIDE DEF weak
    <3> QED
      BY <2>2 DEF with
  <2> QED
    BY <2>3
<1>1. PICK price \in Targets(bias, weak, zone) : s.bias = bias /\ s.target = Unit * price
  BY <1>0
<1>2. PICK p \in weak : p.kind = bias /\ p.price = price
  <2> DEFINE edge == IF bias = "high" THEN zone.high ELSE zone.low
             facing == {q \in weak : q.kind = bias /\ Beyond(bias, Unit * q.price, edge)}
             beyond == {q.price : q \in facing}
  <2>1. facing \in SUBSET points
    BY DEF WeakPoints
  <2>2. IsFiniteSet(points) /\ \A q \in points : q.price \in Int
    BY PointsType
  <2> HIDE DEF facing, points, weak
  <2>3. IsFiniteSet(facing)
    BY <2>1, <2>2, FS_Subset
  <2>4. IsFiniteSet(beyond)
    <3> DEFINE f == [q \in facing |-> q.price]
    <3>1. f \in [facing -> beyond] /\ beyond \subseteq {f[x] : x \in facing}
      OBVIOUS
    <3> HIDE DEF f, beyond
    <3> QED
      BY <2>3, <3>1, ImageFinite
  <2>5. beyond \in SUBSET Int
    BY <2>1, <2>2
  <2>6. beyond # {} /\ (price = Min(beyond) \/ price = Max(beyond))
    BY <1>1 DEF Targets, Some, facing
  <2>7. price \in beyond
    <3> HIDE DEF beyond
    <3> QED
      BY <2>4, <2>5, <2>6, Extremes
  <2> QED
    BY <2>7 DEF facing
<1>3. p \in points
  BY DEF WeakPoints
<1>4. /\ p.index \in 1..Len(w) /\ price = Level(w[p.index], bias) /\ price \in Int
      /\ \A k \in (p.index + 1)..Len(w) : ~Beyond(bias, Level(w[k], bias), price)
  BY <1>2, <1>3, PointsType, WeakUntouched
<1>5. Unit \in Nat \ {0}
  BY PeriodsAssumption DEF Unit
<1>6. ASSUME NEW k \in (p.index + 1)..Len(w)
      PROVE  ~Beyond(bias, Unit * Level(w[k], bias), Unit * price)
  <2>1. k \in 1..Len(w)
    BY <1>4
  <2>2. Level(w[k], bias) \in Int
    BY <2>1, WindowType
  <2> QED
    BY <1>4, <1>5, <2>2, InParts
<1> HIDE DEF points, weak
<1> QED
  BY <1>1, <1>4, <1>6, WindowType

(* How far a coarse history has been seen.                                    *)
LEMMA AsOfWindow ==
    ASSUME NEW candles, IsWindow(candles), NEW time, NEW n \in Nat
    PROVE  IsWindow(AsOf(candles, time, n)) /\ AsOf(candles, time, n) \in Seq(Range(candles))
<1> DEFINE seen == {i \in DOMAIN candles : \A j \in 1..i : candles[j].at <= time}
<1>1. Len(candles) \in Nat /\ DOMAIN candles = 1..Len(candles) /\ candles \in Seq(Range(candles))
  BY WindowType DEF IsWindow
<1>2. Cardinality(seen) \in 0..Len(candles)
  <2>1. seen \in SUBSET (1..Len(candles))
    BY <1>1
  <2> HIDE DEF seen
  <2>2. IsFiniteSet(1..Len(candles)) /\ Cardinality(1..Len(candles)) = Len(candles)
    <3>1. 1 \in Int /\ Len(candles) \in Int /\ Len(candles) >= 0
      BY <1>1
    <3>2. /\ IsFiniteSet(1..Len(candles))
          /\ Cardinality(1..Len(candles)) = IF 1 > Len(candles) THEN 0 ELSE Len(candles) - 1 + 1
      BY <3>1, FS_Interval
    <3> QED
      BY <3>1, <3>2
  <2>3. Cardinality(seen) \in Nat /\ Cardinality(seen) <= Len(candles)
    BY <2>1, <2>2, FS_Subset, FS_CardinalityType
  <2> QED
    BY <1>1, <2>3
<1>3. Pointer(candles, time) = Cardinality(seen)
  BY DEF Pointer
<1> HIDE DEF seen
<1>4. AsOf(candles, time, n) \in Seq(Range(candles))
  BY <1>1, <1>2, <1>3, SliceType DEF AsOf
<1> QED
  BY <1>4, SeqOfRange, RangeOfSeq DEF IsWindow

TargetInv ==
    /\ fetched # 3 => ledger = <<>>
    /\ IsWindow(history.h1)
    /\ TargetUntested

(* A walk starts before any candle.                                           *)
LEMMA EmptyWindow == IsWindow(<<>>)
  BY EmptySeq DEF IsWindow, Range

(* The only signal that is entered by the candle walked is the last, just     *)
(* built.                                                                     *)
LEMMA WalkTargets == BlindInv /\ TapInv /\ TapInv' /\ TargetInv /\ WalkSignal => TargetInv'
<1> SUFFICES ASSUME BlindInv, TapInv, TapInv', TargetInv, WalkSignal PROVE TargetInv'
  OBVIOUS
<1>1. PICK shape \in Candles15 :
        LET c == [shape EXCEPT !.at = walked + 1]
            fine == Slice(Append(history.fine, c), Len(history.fine) + 1, Window15)
            graded == Graded(ledger, c)
            opened == IF HasOpen(graded) THEN {} ELSE Opened(history, fine, graded, c)
        IN  /\ history' = [history EXCEPT !.fine = fine]
            /\ ledger' = graded \o SetToSeq(opened)
  BY DEF WalkSignal
<1> DEFINE c == [shape EXCEPT !.at = walked + 1]
           fine == Slice(Append(history.fine, c), Len(history.fine) + 1, Window15)
           graded == Graded(ledger, c)
           opened == IF HasOpen(graded) THEN {} ELSE Opened(history, fine, graded, c)
           n == Len(graded)
<1>2. /\ fetched' = 3 /\ walked' = walked + 1 /\ walked \in Nat
      /\ history'.h1 = history.h1
  BY <1>1 DEF WalkSignal, BlindInv, WalkTyped
<1>3. c.at = walked + 1
  BY CandlesAssumption DEF IsCandle
<1>4. LedgerOK(graded, walked)
  BY GradedOK DEF TapInv
<1>5. \A x, y \in opened : x = y
  <2> HIDE DEF c, fine, graded
  <2> QED
    BY BuiltOnce DEF Opened
<1>6. /\ graded \in Seq(Range(graded)) /\ n \in Nat
      /\ \A i \in 1..n : graded[i].opened < walked + 1
  <2> HIDE DEF graded
  <2> QED
    BY <1>2, <1>4, LenProperties DEF LedgerOK, IsEntry
<1> DEFINE w == AsOf(history'.h1, walked', Window1h)
           untested(s) ==
             \E j \in DOMAIN w :
                /\ Unit * Level(w[j], s.bias) = s.target
                /\ \A k \in (j + 1)..Len(w) : ~Beyond(s.bias, Unit * Level(w[k], s.bias), s.target)
<1>7. ASSUME NEW e \in opened PROVE untested(e.setup)
  <2>1. PICK bias : e.setup \in Setup(bias, Seen1h(history, c))
    <3>1. e \in Opened(history, fine, graded, c)
      OBVIOUS
    <3> HIDE DEF c, fine, graded, opened, w
    <3>2. PICK w4h : e \in BuildSignal(w4h, Seen1h(history, c), fine, Eligible(fine, UsedTap(graded)))
      BY <3>1 DEF Opened
    <3> QED
      BY <3>2 DEF BuildSignal
  <2>2. Seen1h(history, c) = w
    BY <1>2, <1>3 DEF Seen1h
  <2>3. IsWindow(w)
    BY <1>2, AsOfWindow, WindowsAssumption DEF TargetInv
  <2> HIDE DEF w, c, opened
  <2> QED
    BY <2>1, <2>2, <2>3, SetupTarget
<1>8. \A i \in DOMAIN ledger' : ledger'[i].opened = walked' => untested(ledger'[i].setup)
  <2>1. CASE opened = {} /\ SetToSeq(opened) = <<>>
    <3> HIDE DEF c, fine, opened
    <3>1. ledger' = graded
      BY <1>1, <1>6, <2>1, ConcatEmptySeq DEF c, fine, opened
    <3> HIDE DEF graded, w
    <3>2. \A i \in DOMAIN graded : graded[i].opened # walked + 1
      <4>1. DOMAIN graded = 1..n
        BY <1>6, LenProperties
      <4>2. \A i \in 1..n : graded[i].opened \in Int
        BY <1>4 DEF LedgerOK, IsEntry
      <4> QED
        BY <1>2, <1>6, <4>1, <4>2
    <3> HIDE DEF untested
    <3> QED
      BY <1>2, <3>1, <3>2
  <2>2. ASSUME NEW e \in opened, SetToSeq(opened) = <<e>>
        PROVE  \A i \in DOMAIN ledger' : ledger'[i].opened = walked' => untested(ledger'[i].setup)
    <3>1. untested(e.setup)
      BY <1>7
    <3>2. ledger' = graded \o <<e>>
      BY <1>1, <2>2 DEF c, fine, opened
    <3> DEFINE S == Range(graded) \union {e}
    <3> HIDE DEF graded, c, fine, opened, w, untested
    <3>3. graded \in Seq(S) /\ <<e>> \in Seq(S) /\ Len(<<e>>) = 1 /\ <<e>>[1] = e
      BY <1>6, SeqMonotonic
    <3>4. /\ ledger' \in Seq(S) /\ Len(ledger') = n + 1
          /\ \A i \in 1..(n + 1) : ledger'[i] = IF i <= n THEN graded[i] ELSE <<e>>[i - n]
      <4> HIDE DEF S
      <4> QED
        BY <3>2, <3>3, ConcatProperties
    <3>5. DOMAIN ledger' = 1..(n + 1)
      BY <3>4, LenProperties
    <3>6. ASSUME NEW i \in 1..(n + 1), ledger'[i].opened = walked'
          PROVE  untested(ledger'[i].setup)
      <4>1. CASE i <= n
        <5>1. i \in 1..n /\ ledger'[i] = graded[i]
          BY <1>6, <3>4, <4>1
        <5>2. graded[i].opened \in Int /\ graded[i].opened < walked + 1
          BY <1>4, <1>6, <5>1 DEF LedgerOK, IsEntry
        <5> QED
          BY <1>2, <3>6, <5>1, <5>2
      <4>2. CASE ~(i <= n)
        <5>1. i = n + 1 /\ ledger'[i] = e
          BY <1>6, <3>3, <3>4, <4>2
        <5> QED
          BY <3>1, <5>1
      <4> QED
        BY <4>1, <4>2
    <3> QED
      BY <3>5, <3>6
  <2> HIDE DEF opened, untested
  <2> QED
    BY <1>5, <2>1, <2>2, SequenceOfOne
<1>9. TargetUntested'
  <2> HIDE DEF c, fine, graded, opened
  <2> QED
    BY <1>8 DEF TargetUntested
<1> QED
  BY <1>2, <1>9 DEF TargetInv

(* The invariant behind the targets always holds.                             *)
LEMMA TargetsAlways == Spec => []TargetInv
<1>1. Init => TargetInv
  BY EmptyWindow DEF Init, CliInit, TargetInv, TargetUntested, NoHistory
<1>2. BlindInv /\ TapInv /\ TapInv' /\ TargetInv /\ [Next]_vars => TargetInv'
  <2> SUFFICES ASSUME BlindInv, TapInv, TapInv', TargetInv, [Next]_vars PROVE TargetInv'
    OBVIOUS
  <2>1. CASE UNCHANGED <<fetched, history, walked, ledger>>
    BY <2>1 DEF TargetInv, TargetUntested
  <2>2. CASE Fetch4h \/ Fetch1h \/ FetchFine
    <3>1. fetched # 3 /\ ledger' = <<>>
      BY <2>2 DEF Fetch4h, Fetch1h, FetchFine, TargetInv
    <3>2. IsWindow(history'.h1)
      <4>1. CASE Fetch4h
        BY <4>1 DEF Fetch4h, BlindInv, WalkTyped, TargetInv
      <4>2. CASE Fetch1h
        <5>1. PICK h \in Histories1h : history' = [history EXCEPT !.h1 = h]
          BY <4>2 DEF Fetch1h
        <5>2. history'.h1 = h
          BY <5>1 DEF BlindInv, WalkTyped
        <5> QED
          BY <5>2, CandlesAssumption DEF IsWindow
      <4>3. CASE FetchFine
        BY <4>3 DEF FetchFine, BlindInv, WalkTyped, TargetInv
      <4> QED
        BY <2>2, <4>1, <4>2, <4>3
    <3>3. TargetUntested'
      BY <3>1 DEF TargetUntested
    <3> QED
      BY <3>1, <3>2, <3>3 DEF TargetInv
  <2>3. CASE Persist
    BY <2>3, EmptyWindow DEF Persist, TargetInv, TargetUntested, NoHistory
  <2>4. CASE WalkPrediction
    <3>1. /\ fetched' = 3 /\ UNCHANGED <<history, ledger>>
          /\ walked' = Max({walked, PredictionWindow}) + 1
      BY <2>4 DEF WalkPrediction
    <3>2. walked \in Nat /\ walked < walked' /\ walked' \in Nat
      <4>1. walked \in Nat /\ PredictionWindow \in Nat
        BY WindowsAssumption DEF BlindInv, WalkTyped
      <4> QED
        BY <3>1, <4>1, MaxOfTwo
    <3>3. \A i \in DOMAIN ledger : ledger[i].opened \in Int /\ ledger[i].opened <= walked
      BY LenProperties DEF TapInv, LedgerOK, IsEntry
    <3>4. TargetUntested'
      BY <3>1, <3>2, <3>3 DEF TargetUntested
    <3> QED
      BY <3>1, <3>4 DEF TargetInv
  <2> QED
    BY <2>1, <2>2, <2>3, <2>4, WalkTargets
    DEF Next, CliNext, FetchFails, PersistFails, vars, cvars
<1> QED
  BY <1>1, <1>2, BlindAlways, TapsAlways, PTL DEF Spec

(* The target of a signal is liquidity that is still there: a swing point of  *)
(* the hourly window that no later candle of it has traded beyond             *)
(* (features/structure.py, weak_points, and prediction/signal_builder.py,     *)
(* _find_target).                                                             *)
THEOREM TargetIsResting == Spec => []TargetUntested
<1>1. TargetInv => TargetUntested
  BY DEF TargetInv
<1> QED
  BY <1>1, TargetsAlways, PTL

-----------------------------------------------------------------------------
(* The structure of a window that moves on.                                   *)

(* Closed candles in the order of time, which run_signal_backtest asks of     *)
(* every list it is given.                                                    *)
Ascending(candles) == \A i \in DOMAIN candles, j \in DOMAIN candles : i < j => candles[i].at < candles[j].at

(* A window without its d oldest candles, and with newer ones.                *)
Moved(old, new, d) ==
    /\ IsWindow(old) /\ IsWindow(new) /\ d \in Nat
    /\ \A i \in 1..Len(old) : i > d => i - d \in 1..Len(new) /\ new[i - d] = old[i]

(* What is not older than a time has Lookback candles in front of it.         *)
HasRoom(old, d, since) ==
    \A i \in (1 + Lookback)..Len(old) : old[i].at >= since => i - d >= 1 + Lookback

(* A swing point is one in both windows.                                      *)
LEMMA PointMoves ==
    ASSUME NEW old, NEW new, NEW d, Moved(old, new, d), Len(old) - d <= Len(new),
           NEW since, HasRoom(old, d, since),
           NEW p \in SwingPoints(old), old[p.index].at >= since
    PROVE  /\ p.index \in 1..Len(old) /\ p.index > d
           /\ \E q \in SwingPoints(new) : q.index = p.index - d /\ q.kind = p.kind /\ q.price = p.price
<1> DEFINE L == Lookback
           around(i) == ((i - L)..(i + L)) \ {i}
<1>1. /\ L \in Nat \ {0} /\ d \in Nat /\ Len(old) \in Nat /\ Len(new) \in Nat
      /\ \A i \in 1..Len(old) : i > d => i - d \in 1..Len(new) /\ new[i - d] = old[i]
  BY PeriodsAssumption, WindowType DEF Moved
<1>2. PICK x \in ((1 + L)..(Len(old) - L)) \X {"high", "low"} :
        p = Point(old, x) /\ IsExtreme(old, x, around(x[1]))
  BY DEF SwingPoints
<1> DEFINE i == x[1]
           kind == x[2]
           y == <<i - d, kind>>
<1>3. /\ i \in (1 + L)..(Len(old) - L) /\ kind \in {"high", "low"}
      /\ p = [index |-> i, kind |-> kind, price |-> Level(old[i], kind)]
  BY <1>2 DEF Point
<1>4. i - d >= 1 + L /\ i \in 1..Len(old) /\ i > d
  <2>1. i \in (1 + L)..Len(old) /\ i \in 1..Len(old) /\ old[i].at >= since
    BY <1>1, <1>3
  <2>2. i - d >= 1 + L
    BY <2>1 DEF HasRoom
  <2> QED
    BY <1>1, <2>1, <2>2
<1> HIDE DEF i, kind
<1>5. new[i - d] = old[i] /\ i - d \in 1..Len(new)
  BY <1>1, <1>4
<1>6. i - d \in (1 + L)..(Len(new) - L)
  BY <1>1, <1>3, <1>4
<1>7. ASSUME NEW j \in around(i - d)
      PROVE  Beyond(kind, Level(new[i - d], kind), Level(new[j], kind))
  <2>1. j + d \in around(i) /\ j + d \in 1..Len(old) /\ j + d > d
    BY <1>1, <1>3, <1>4
  <2>2. new[j] = old[j + d]
    BY <1>1, <2>1
  <2>3. Beyond(kind, Level(old[i], kind), Level(old[j + d], kind))
    BY <1>2, <2>1 DEF IsExtreme, i, kind
  <2> QED
    BY <1>5, <2>2, <2>3
<1>8. IsExtreme(new, y, around(y[1]))
  BY <1>7 DEF IsExtreme
<1>9. y \in ((1 + L)..(Len(new) - L)) \X {"high", "low"}
  BY <1>3, <1>6
<1>10. LET q == Point(new, y) IN q.index = p.index - d /\ q.kind = p.kind /\ q.price = p.price
  BY <1>3, <1>5 DEF Point
<1>11. Point(new, y) \in SwingPoints(new)
  <2> HIDE DEF y
  <2> QED
    BY <1>8, <1>9 DEF SwingPoints
<1> QED
  BY <1>3, <1>4, <1>5, <1>10, <1>11

(* The candles behind the candle i that are among those of C.                 *)
Ahead(w, i, C) == {k \in (i + 1)..Len(w) : w[k] \in C}

(* The first of them is the same candle in both windows.                      *)
LEMMA FirstMoves ==
    ASSUME NEW old, NEW new, NEW d, Moved(old, new, d), Len(old) - d <= Len(new),
           NEW i \in 1..Len(old), i > d, NEW C,
           NEW A, A = Ahead(old, i, C), A # {},
           NEW B, B = Ahead(new, i - d, C)
    PROVE  /\ B # {} /\ Min(B) = Min(A) - d /\ Min(A) \in 1..Len(old)
           /\ new[Min(B)] = old[Min(A)]
<1>1. /\ d \in Nat /\ Len(old) \in Nat /\ Len(new) \in Nat
      /\ \A k \in 1..Len(old) : k > d => k - d \in 1..Len(new) /\ new[k - d] = old[k]
  BY WindowType DEF Moved
<1>2. /\ A = {k \in (i + 1)..Len(old) : old[k] \in C}
      /\ B = {k \in (i - d + 1)..Len(new) : new[k] \in C}
  BY DEF Ahead
<1>3. A \in SUBSET Int /\ B \in SUBSET Int
  BY <1>1, <1>2
<1>4. IsFiniteSet(A) /\ IsFiniteSet(B)
  <2>1. ASSUME NEW a \in Int, NEW b \in Int, NEW S, S \in SUBSET (a..b) PROVE IsFiniteSet(S)
    <3>1. IsFiniteSet(a..b)
      BY FS_Interval
    <3> QED
      BY <2>1, <3>1, FS_Subset
  <2>2. A \in SUBSET ((i + 1)..Len(old)) /\ B \in SUBSET ((i - d + 1)..Len(new))
    BY <1>2
  <2>3. i + 1 \in Int /\ Len(old) \in Int /\ i - d + 1 \in Int /\ Len(new) \in Int
    BY <1>1
  <2> QED
    BY <2>1, <2>2, <2>3
<1> DEFINE m == Min(A)
<1>5. m \in A /\ \A k \in A : m <= k
  BY <1>3, <1>4, Extremes
<1> HIDE DEF m
<1>6. m \in 1..Len(old) /\ m > d /\ m - d \in B /\ new[m - d] = old[m]
  <2>1. m \in (i + 1)..Len(old) /\ old[m] \in C
    BY <1>2, <1>5
  <2>2. m \in 1..Len(old) /\ m > d
    BY <1>1, <2>1
  <2>3. m - d \in 1..Len(new) /\ new[m - d] = old[m]
    BY <1>1, <2>2
  <2>4. m - d \in (i - d + 1)..Len(new)
    BY <1>1, <2>1, <2>3
  <2> QED
    BY <1>2, <2>1, <2>2, <2>3, <2>4
<1>7. ASSUME NEW k \in B PROVE m - d <= k
  <2>1. CASE k + d \in 1..Len(old)
    <3>1. k + d > d /\ k + d \in (i + 1)..Len(old)
      BY <1>1, <1>2, <2>1
    <3>2. new[k] = old[k + d]
      BY <1>1, <1>2, <2>1, <3>1
    <3>3. new[k] \in C
      BY <1>2
    <3>4. k + d \in A
      BY <1>2, <3>1, <3>2, <3>3
    <3> QED
      BY <1>1, <1>2, <1>5, <3>4
  <2>2. CASE k + d \notin 1..Len(old)
    BY <1>1, <1>2, <1>6, <2>2
  <2> QED
    BY <2>1, <2>2
<1>8. B # {} /\ Min(B) \in B /\ \A k \in B : Min(B) <= k
  BY <1>3, <1>4, <1>6, Extremes
<1>9. Min(B) = m - d
  <2>1. Min(B) \in Int /\ m \in Int /\ Min(B) <= m - d /\ m - d <= Min(B)
    BY <1>3, <1>5, <1>6, <1>7, <1>8
  <2> QED
    BY <1>1, <2>1
<1> QED
  BY <1>6, <1>8, <1>9 DEF m

(* Where a later window shows the candles of an earlier one.                  *)
LEMMA WindowMoves ==
    ASSUME NEW h, IsWindow(h), Ascending(h), NEW time \in Int, NEW n \in Nat \ {0},
           NEW old, old = AsOf(h, time, n), NEW new, new = AsOf(h, time + 1, n)
    PROVE  \E d : /\ Moved(old, new, d) /\ Len(old) - d <= Len(new)
                  /\ HasRoom(old, d, new[1 + Lookback].at)
<1> DEFINE seen(t) == {i \in DOMAIN h : \A j \in 1..i : h[j].at <= t}
           p == Pointer(h, time)
           q == Pointer(h, time + 1)
           a == Max({1, p - n + 1})
           b == Max({1, q - n + 1})
           d == b - a
<1>1. /\ Len(h) \in Nat /\ DOMAIN h = 1..Len(h) /\ h \in Seq(Range(h))
      /\ \A i \in 1..Len(h) : h[i].at \in Int
  BY WindowType DEF IsWindow
<1>2. p \in Nat /\ q \in Nat /\ p <= q /\ q <= Len(h)
  <2>1. seen(time) \in SUBSET seen(time + 1)
    <3>1. ASSUME NEW i \in seen(time), NEW j \in 1..i PROVE h[j].at <= time + 1
      <4>1. j \in 1..Len(h) /\ h[j].at <= time
        BY <1>1
      <4> QED
        BY <1>1, <4>1
    <3> QED
      BY <3>1
  <2>2. seen(time + 1) \in SUBSET (1..Len(h))
    BY <1>1
  <2>3. IsFiniteSet(1..Len(h)) /\ Cardinality(1..Len(h)) = Len(h)
    <3>1. 1 \in Int /\ Len(h) \in Int /\ Len(h) >= 0
      BY <1>1
    <3>2. IsFiniteSet(1..Len(h)) /\ Cardinality(1..Len(h)) = IF 1 > Len(h) THEN 0 ELSE Len(h) - 1 + 1
      BY <3>1, FS_Interval
    <3> QED
      BY <3>1, <3>2
  <2>4. p = Cardinality(seen(time)) /\ q = Cardinality(seen(time + 1))
    BY DEF Pointer
  <2> HIDE DEF seen
  <2>5. IsFiniteSet(seen(time + 1)) /\ Cardinality(seen(time + 1)) <= Len(h)
    BY <2>2, <2>3, FS_Subset
  <2>6. IsFiniteSet(seen(time)) /\ Cardinality(seen(time)) <= Cardinality(seen(time + 1))
    BY <2>1, <2>5, FS_Subset
  <2>7. Cardinality(seen(time)) \in Nat /\ Cardinality(seen(time + 1)) \in Nat
    BY <2>5, <2>6, FS_CardinalityType
  <2> QED
    BY <2>4, <2>5, <2>6, <2>7
<1> HIDE DEF seen, p, q
<1>3. /\ a \in Nat \ {0} /\ b \in Nat \ {0} /\ a <= b /\ p - a <= q - b
      /\ a = (IF 1 > p - n + 1 THEN 1 ELSE p - n + 1)
      /\ b = (IF 1 > q - n + 1 THEN 1 ELSE q - n + 1)
  <2>1. a = (IF 1 > p - n + 1 THEN 1 ELSE p - n + 1)
    BY <1>2, MaxOfTwo
  <2>2. b = (IF 1 > q - n + 1 THEN 1 ELSE q - n + 1)
    BY <1>2, MaxOfTwo
  <2> HIDE DEF a, b
  <2> QED
    BY <1>2, <2>1, <2>2
<1> HIDE DEF a, b
<1>4. /\ old = SubSeq(h, a, p) /\ new = SubSeq(h, b, q)
      /\ IsWindow(old) /\ IsWindow(new)
  BY AsOfWindow DEF AsOf, Slice, a, b, p, q
<1>5. /\ Len(old) = IF a <= p THEN p - a + 1 ELSE 0
      /\ \A i \in 1..(p - a + 1) : old[i] = h[a + i - 1]
  <2>1. \A i \in a..p : h[i] \in Range(h)
    <3>1. \A i \in a..p : i \in 1..Len(h)
      BY <1>1, <1>2, <1>3
    <3> QED
      BY <1>1, <3>1, ElementOfSeq
  <2>2. a \in Int /\ p \in Int
    BY <1>2, <1>3
  <2> QED
    BY <1>4, <2>1, <2>2, SubSeqProperties
<1>6. /\ Len(new) = IF b <= q THEN q - b + 1 ELSE 0
      /\ \A i \in 1..(q - b + 1) : new[i] = h[b + i - 1]
  <2>1. \A i \in b..q : h[i] \in Range(h)
    <3>1. \A i \in b..q : i \in 1..Len(h)
      BY <1>1, <1>2, <1>3
    <3> QED
      BY <1>1, <3>1, ElementOfSeq
  <2>2. b \in Int /\ q \in Int
    BY <1>2, <1>3
  <2> QED
    BY <1>4, <2>1, <2>2, SubSeqProperties
<1>7. d \in Nat /\ Len(old) \in Nat /\ Len(new) \in Nat /\ Len(old) <= Len(new)
  BY <1>2, <1>3, <1>5, <1>6
<1>8. ASSUME NEW i \in 1..Len(old), i > d
      PROVE  i - d \in 1..Len(new) /\ new[i - d] = old[i]
  <2>1. /\ i \in 1..(p - a + 1) /\ i - d \in 1..(q - b + 1) /\ i - d \in 1..Len(new)
        /\ b + (i - d) - 1 = a + i - 1
    BY <1>2, <1>3, <1>5, <1>6, <1>7, <1>8
  <2> HIDE DEF d
  <2> QED
    BY <1>5, <1>6, <2>1
<1>9. ASSUME NEW i \in (1 + Lookback)..Len(old), old[i].at >= new[1 + Lookback].at
      PROVE  i - d >= 1 + Lookback
  <2>1. Lookback \in Nat \ {0}
    BY PeriodsAssumption
  <2>2. /\ 1 + Lookback \in 1..(q - b + 1) /\ i \in 1..(p - a + 1)
        /\ a + i - 1 \in 1..Len(h) /\ b + Lookback \in 1..Len(h)
        /\ b + (1 + Lookback) - 1 = b + Lookback
    BY <1>2, <1>3, <1>5, <1>6, <1>7, <2>1
  <2>3. old[i] = h[a + i - 1] /\ new[1 + Lookback] = h[b + Lookback]
    BY <1>5, <1>6, <2>2
  <2>4. h[a + i - 1].at \in Int /\ h[b + Lookback].at \in Int
    BY <1>1, <2>2
  <2>5. ~(a + i - 1 < b + Lookback)
    <3> SUFFICES ASSUME a + i - 1 < b + Lookback PROVE FALSE
      OBVIOUS
    <3>1. h[a + i - 1].at < h[b + Lookback].at
      BY <1>1, <2>2 DEF Ascending
    <3> QED
      BY <1>9, <2>3, <2>4, <3>1
  <2>6. a \in Int /\ b \in Int /\ i \in Int /\ Lookback \in Int
    BY <1>3, <1>7, <2>1
  <2> QED
    BY <2>5, <2>6
<1> HIDE DEF d
<1>10. Moved(old, new, d)
  BY <1>4, <1>7, <1>8 DEF Moved
<1>11. HasRoom(old, d, new[1 + Lookback].at)
  BY <1>9 DEF HasRoom
<1>12. Len(old) - d <= Len(new)
  BY <1>7
<1> QED
  BY <1>10, <1>11, <1>12

(* A swing point, sweep or break of a window is one of a window that moved on,*)
(* if its candles are still in it.                                            *)
LEMMA StructureStays ==
    ASSUME NEW old, NEW new, NEW d, Moved(old, new, d), Len(old) - d <= Len(new),
           NEW since, HasRoom(old, d, since),
           NEW field \in {"points", "sweeps", "breaks"}
    PROVE  Structure(old, since)[field] \subseteq Structure(new, since)[field]
<1> DEFINE P(w) == {p \in SwingPoints(w) : w[p.index].at >= since}
           times(w, S) == {<<w[x.point.index].at, x.point.kind, w[x.at].at>> : x \in S}
           touches(w, p) == {i \in After(p, w) : \/ Beyond(p.kind, w[i].close, p.price)
                                                 \/ Beyond(p.kind, Level(w[i], p.kind), p.price)}
           through(w, p) == {i \in After(p, w) : Beyond(p.kind, w[i].close, p.price)}
<1>1. ASSUME NEW w
      PROVE  /\ Structure(w, since).points = {<<w[p.index].at, p.kind>> : p \in P(w)}
             /\ Structure(w, since).sweeps = times(w, Sweeps(P(w), w))
             /\ Structure(w, since).breaks = times(w, StructureBreaks(P(w), w))
  BY DEF Structure
<1>2. ASSUME NEW p \in P(old)
      PROVE  /\ p.index \in 1..Len(old) /\ p.index > d
             /\ \E q \in P(new) : /\ q.index = p.index - d /\ q.kind = p.kind /\ q.price = p.price
                                  /\ new[q.index] = old[p.index]
  <2>1. /\ p \in SwingPoints(old) /\ old[p.index].at >= since
    OBVIOUS
  <2>2. /\ p.index \in 1..Len(old) /\ p.index > d
        /\ \E q \in SwingPoints(new) : q.index = p.index - d /\ q.kind = p.kind /\ q.price = p.price
    BY <2>1, PointMoves
  <2>3. new[p.index - d] = old[p.index]
    BY <2>2 DEF Moved
  <2> QED
    BY <2>1, <2>2, <2>3
<1>3. ASSUME NEW w
      PROVE  /\ \A x \in Sweeps(P(w), w) :
                   \E p \in P(w) : /\ touches(w, p) # {} /\ x.point = p /\ x.at = Min(touches(w, p))
                                   /\ ~Beyond(p.kind, w[Min(touches(w, p))].close, p.price)
             /\ \A p \in P(w) : touches(w, p) # {} /\ ~Beyond(p.kind, w[Min(touches(w, p))].close, p.price)
                   => [point |-> p, at |-> Min(touches(w, p))] \in Sweeps(P(w), w)
  <2>1. Sweeps(P(w), w)
          = {[point |-> p, at |-> Min(touches(w, p))] :
               p \in {q \in P(w) : /\ touches(w, q) # {}
                                   /\ ~Beyond(q.kind, w[Min(touches(w, q))].close, q.price)}}
    <3> HIDE DEF P
    <3> QED
      BY DEF Sweeps
  <2> HIDE DEF P, touches
  <2> QED
    BY <2>1
<1>4. ASSUME NEW w
      PROVE  /\ \A x \in StructureBreaks(P(w), w) :
                   \E p \in P(w) : through(w, p) # {} /\ x.point = p /\ x.at = Min(through(w, p))
             /\ \A p \in P(w) : through(w, p) # {}
                   => \E x \in StructureBreaks(P(w), w) : x.point = p /\ x.at = Min(through(w, p))
  <2>1. PICK event :
          StructureBreaks(P(w), w)
            = {[event |-> event[p], point |-> p, at |-> Min(through(w, p))] :
                 p \in {q \in P(w) : through(w, q) # {}}}
    <3> DEFINE broken == {p \in P(w) : through(w, p) # {}}
               earlier(p) == {q \in broken : Walked(q, p)}
               kind(p) == IF earlier(p) # {} /\ LastWalked(earlier(p)).kind = p.kind THEN "bos" ELSE "choch"
               event == [p \in broken |-> kind(p)]
    <3>1. StructureBreaks(P(w), w)
            = {[event |-> kind(p), point |-> p, at |-> Min(through(w, p))] : p \in broken}
      <4> HIDE DEF P
      <4> QED
        BY DEF StructureBreaks
    <3> HIDE DEF P, through, kind
    <3>2. StructureBreaks(P(w), w)
            = {[event |-> event[p], point |-> p, at |-> Min(through(w, p))] : p \in broken}
      BY <3>1
    <3> QED
      BY <3>2
  <2> HIDE DEF P, through
  <2>2. ASSUME NEW x \in StructureBreaks(P(w), w)
        PROVE  \E p \in P(w) : through(w, p) # {} /\ x.point = p /\ x.at = Min(through(w, p))
    BY <2>1
  <2>3. ASSUME NEW p \in P(w), through(w, p) # {}
        PROVE  \E x \in StructureBreaks(P(w), w) : x.point = p /\ x.at = Min(through(w, p))
    <3>1. [event |-> event[p], point |-> p, at |-> Min(through(w, p))] \in StructureBreaks(P(w), w)
      BY <2>1, <2>3
    <3> QED
      BY <3>1
  <2> QED
    BY <2>2, <2>3
<1>5. /\ d \in Nat
      /\ \A k \in 1..Len(old) : old[k] \in Range(old)
      /\ \A k \in 1..Len(new) : new[k] \in Range(new)
  BY WindowType, ElementOfSeq DEF Moved, IsWindow
<1>6. CASE field = "points"
  <2> SUFFICES ASSUME NEW p \in P(old)
               PROVE  <<old[p.index].at, p.kind>> \in {<<new[q.index].at, q.kind>> : q \in P(new)}
    BY <1>1, <1>6
  <2>1. PICK q \in P(new) : q.kind = p.kind /\ new[q.index] = old[p.index]
    BY <1>2
  <2> HIDE DEF P
  <2> QED
    BY <2>1
<1>7. CASE field = "sweeps"
  <2> HIDE DEF P
  <2> SUFFICES ASSUME NEW x \in Sweeps(P(old), old)
               PROVE  <<old[x.point.index].at, x.point.kind, old[x.at].at>>
                        \in times(new, Sweeps(P(new), new))
    <3>1. /\ Structure(old, since)[field] = times(old, Sweeps(P(old), old))
          /\ Structure(new, since)[field] = times(new, Sweeps(P(new), new))
      BY <1>1, <1>7
    <3> QED
      BY <3>1
  <2>1. PICK p \in P(old) : /\ touches(old, p) # {} /\ x.point = p /\ x.at = Min(touches(old, p))
                            /\ ~Beyond(p.kind, old[Min(touches(old, p))].close, p.price)
    <3> HIDE DEF touches
    <3> QED
      BY <1>3
  <2>2. /\ p.index \in 1..Len(old) /\ p.index > d
        /\ \E q \in P(new) : /\ q.index = p.index - d /\ q.kind = p.kind /\ q.price = p.price
                             /\ new[q.index] = old[p.index]
    BY <1>2
  <2>3. PICK q \in P(new) : /\ q.index = p.index - d /\ q.kind = p.kind /\ q.price = p.price
                            /\ new[q.index] = old[p.index]
    BY <2>2
  <2> DEFINE C == {c \in Range(old) \union Range(new) :
                     \/ Beyond(p.kind, c.close, p.price)
                     \/ Beyond(p.kind, Level(c, p.kind), p.price)}
             A == touches(old, p)
             B == touches(new, q)
  <2>4. A = Ahead(old, p.index, C)
    BY <1>5, <2>2 DEF After, Ahead
  <2>5. B = Ahead(new, p.index - d, C)
    BY <1>5, <2>2, <2>3 DEF After, Ahead
  <2>6. A # {}
    BY <2>1
  <2> HIDE DEF A, B, C
  <2>7. B # {} /\ Min(B) = Min(A) - d /\ new[Min(B)] = old[Min(A)]
    BY <2>2, <2>4, <2>5, <2>6, FirstMoves
  <2>8. [point |-> q, at |-> Min(B)] \in Sweeps(P(new), new)
    <3>1. touches(new, q) # {} /\ ~Beyond(q.kind, new[Min(touches(new, q))].close, q.price)
      <4> HIDE DEF touches
      <4> QED
        BY <2>1, <2>3, <2>7 DEF A, B
    <3> HIDE DEF touches
    <3> QED
      BY <1>3, <3>1 DEF B
  <2>9. <<old[x.point.index].at, x.point.kind, old[x.at].at>>
          = <<new[q.index].at, q.kind, new[Min(B)].at>>
    <3> HIDE DEF touches
    <3> QED
      BY <2>1, <2>3, <2>7 DEF A
  <2> HIDE DEF touches
  <2> QED
    BY <2>8, <2>9
<1>8. CASE field = "breaks"
  <2> HIDE DEF P
  <2> SUFFICES ASSUME NEW x \in StructureBreaks(P(old), old)
               PROVE  <<old[x.point.index].at, x.point.kind, old[x.at].at>>
                        \in times(new, StructureBreaks(P(new), new))
    <3>1. /\ Structure(old, since)[field] = times(old, StructureBreaks(P(old), old))
          /\ Structure(new, since)[field] = times(new, StructureBreaks(P(new), new))
      BY <1>1, <1>8
    <3> QED
      BY <3>1
  <2>1. PICK p \in P(old) : through(old, p) # {} /\ x.point = p /\ x.at = Min(through(old, p))
    <3> HIDE DEF through
    <3> QED
      BY <1>4
  <2>2. /\ p.index \in 1..Len(old) /\ p.index > d
        /\ \E q \in P(new) : /\ q.index = p.index - d /\ q.kind = p.kind /\ q.price = p.price
                             /\ new[q.index] = old[p.index]
    BY <1>2
  <2>3. PICK q \in P(new) : /\ q.index = p.index - d /\ q.kind = p.kind /\ q.price = p.price
                            /\ new[q.index] = old[p.index]
    BY <2>2
  <2> DEFINE C == {c \in Range(old) \union Range(new) : Beyond(p.kind, c.close, p.price)}
             A == through(old, p)
             B == through(new, q)
  <2>4. A = Ahead(old, p.index, C)
    BY <1>5, <2>2 DEF After, Ahead
  <2>5. B = Ahead(new, p.index - d, C)
    BY <1>5, <2>2, <2>3 DEF After, Ahead
  <2>6. A # {}
    BY <2>1
  <2> HIDE DEF A, B, C
  <2>7. B # {} /\ Min(B) = Min(A) - d /\ new[Min(B)] = old[Min(A)]
    BY <2>2, <2>4, <2>5, <2>6, FirstMoves
  <2>8. PICK y \in StructureBreaks(P(new), new) : y.point = q /\ y.at = Min(B)
    <3>1. through(new, q) # {}
      BY <2>7 DEF B
    <3> HIDE DEF through
    <3> QED
      BY <1>4, <3>1 DEF B
  <2>9. <<old[x.point.index].at, x.point.kind, old[x.at].at>>
          = <<new[y.point.index].at, y.point.kind, new[y.at].at>>
    <3> HIDE DEF through
    <3> QED
      BY <2>1, <2>3, <2>7, <2>8 DEF A
  <2> HIDE DEF through
  <2> QED
    BY <2>8, <2>9
<1> QED
  BY <1>6, <1>7, <1>8

(* Candles in the order of time, which is what run_signal_backtest asks of    *)
(* every list it is given (backtesting/signal_backtest.py:66).                *)
OrderedHistories == \A h \in Histories1h : Ascending(h)

(* The hourly history of a walk is one of those.                              *)
HistoryOrdered == Ascending(history.h1)

LEMMA OrderedAlways == ASSUME OrderedHistories PROVE Spec => []HistoryOrdered
<1>1. Ascending(<<>>)
  BY DEF Ascending
<1>2. Init => HistoryOrdered
  BY <1>1 DEF Init, CliInit, HistoryOrdered, NoHistory
<1>3. BlindInv /\ HistoryOrdered /\ [Next]_vars => HistoryOrdered'
  <2> SUFFICES ASSUME BlindInv, HistoryOrdered, [Next]_vars PROVE HistoryOrdered'
    OBVIOUS
  <2>1. CASE Fetch1h
    <3>1. PICK h \in Histories1h : history' = [history EXCEPT !.h1 = h]
      BY <2>1 DEF Fetch1h
    <3>2. history'.h1 = h
      BY <3>1 DEF BlindInv, WalkTyped
    <3> QED
      BY <3>2 DEF HistoryOrdered, OrderedHistories
  <2>2. CASE Persist
    BY <1>1, <2>2 DEF Persist, HistoryOrdered, NoHistory
  <2>3. CASE history'.h1 = history.h1
    BY <2>3 DEF HistoryOrdered
  <2>4. CASE Fetch4h \/ FetchFine \/ WalkSignal
    <3>1. history'.h1 = history.h1
      BY <2>4 DEF Fetch4h, FetchFine, WalkSignal, BlindInv, WalkTyped
    <3> QED
      BY <2>3, <3>1
  <2> QED
    BY <2>1, <2>2, <2>3, <2>4
    DEF Next, CliNext, FetchFails, PersistFails, WalkPrediction, vars, cvars
<1> QED
  BY <1>2, <1>3, BlindAlways, PTL DEF Spec

(* A swing point, sweep or break that the walk of a signal backtest has found *)
(* is found again as its hourly window moves on, until its candles leave the  *)
(* window: the code reads structure from closed candles only and waits for    *)
(* the Lookback candles that confirm a point (features/structure.py,          *)
(* find_swing_points, detect_liquidity_sweeps, detect_structure_breaks).      *)
THEOREM StructureKept == ASSUME OrderedHistories PROVE Spec => NothingRepaints
<1> DEFINE now == AsOf(history.h1, walked, Window1h)
           next == AsOf(history.h1, walked + 1, Window1h)
           Kept == \A field \in {"points", "sweeps", "breaks"} :
                      Structure(now, next[1 + Lookback].at)[field]
                        \subseteq Structure(next, next[1 + Lookback].at)[field]
<1>1. ASSUME BlindInv, TargetInv, HistoryOrdered PROVE Kept
  <2>1. PICK d : /\ Moved(now, next, d) /\ Len(now) - d <= Len(next)
                 /\ HasRoom(now, d, next[1 + Lookback].at)
    <3>1. walked \in Int /\ Window1h \in Nat \ {0}
      BY <1>1, WindowsAssumption DEF BlindInv, WalkTyped
    <3> QED
      BY <1>1, <3>1, WindowMoves DEF TargetInv, HistoryOrdered
  <2> HIDE DEF now, next
  <2> QED
    BY <2>1, StructureStays
<1>2. BlindInv /\ TargetInv /\ HistoryOrdered
        => [agenda # <<>> /\ agenda[1].kind = "signal" /\ walked' = walked + 1 =>
               LET old == AsOf(history.h1, walked, Window1h)
                   new == AsOf(history.h1, walked + 1, Window1h)
                   since == new[1 + Lookback].at
               IN  \A field \in {"points", "sweeps", "breaks"} :
                       Structure(old, since)[field] \subseteq Structure(new, since)[field]]_cvars
  BY <1>1
<1> QED
  BY <1>2, BlindAlways, TargetsAlways, OrderedAlways, PTL DEF NothingRepaints

-----------------------------------------------------------------------------
(* The volume of a leg by price.                                              *)

(* The candles of a leg lie between its two prices.                           *)
LEMMA RangeShape ==
    ASSUME NEW leg, IsWindow(leg), leg # <<>>
    PROVE  /\ RangeLow(leg) \in Int /\ RangeHigh(leg) \in Int /\ RangeLow(leg) <= RangeHigh(leg)
           /\ \A i \in 1..Len(leg) : /\ RangeLow(leg) <= leg[i].low /\ leg[i].low <= leg[i].high
                                     /\ leg[i].high <= RangeHigh(leg)
<1> DEFINE I == 1..Len(leg)
           lows == {leg[i].low : i \in DOMAIN leg}
           highs == {leg[i].high : i \in DOMAIN leg}
<1>1. /\ Len(leg) \in Nat /\ DOMAIN leg = I /\ IsFiniteSet(I) /\ 1 \in I
      /\ \A i \in I : leg[i].low \in Int /\ leg[i].high \in Int /\ leg[i].low <= leg[i].high
  <2>1. Len(leg) \in Nat /\ DOMAIN leg = I /\ \A i \in I : IsCandle(leg[i])
    BY WindowType
  <2>2. Len(leg) # 0
    BY EmptySeq DEF IsWindow
  <2>3. IsFiniteSet(I)
    BY <2>1, FS_Interval
  <2>4. \A i \in I : leg[i].low \in Int /\ leg[i].high \in Int /\ leg[i].low <= leg[i].high
    BY <2>1 DEF IsCandle
  <2> QED
    BY <2>1, <2>2, <2>3, <2>4
<1>2. /\ lows \in SUBSET Int /\ lows # {} /\ highs \in SUBSET Int /\ highs # {}
      /\ \A i \in I : leg[i].low \in lows /\ leg[i].high \in highs
  BY <1>1
<1>3. IsFiniteSet(lows) /\ IsFiniteSet(highs)
  <2> DEFINE f == [i \in I |-> leg[i].low]
             g == [i \in I |-> leg[i].high]
  <2>1. f \in [I -> lows] /\ lows \subseteq {f[i] : i \in I}
    BY <1>1
  <2>2. g \in [I -> highs] /\ highs \subseteq {g[i] : i \in I}
    BY <1>1
  <2>3. IsFiniteSet(I)
    BY <1>1
  <2> HIDE DEF f, g, lows, highs, I
  <2>4. IsFiniteSet(lows)
    BY <2>1, <2>3, ImageFinite
  <2>5. IsFiniteSet(highs)
    BY <2>2, <2>3, ImageFinite
  <2> QED
    BY <2>4, <2>5
<1>4. /\ RangeLow(leg) \in lows /\ \A x \in lows : RangeLow(leg) <= x
      /\ RangeHigh(leg) \in highs /\ \A x \in highs : RangeHigh(leg) >= x
  <2>1. RangeLow(leg) = Min(lows) /\ RangeHigh(leg) = Max(highs)
    BY DEF RangeLow, RangeHigh
  <2> HIDE DEF lows, highs
  <2> QED
    BY <1>2, <1>3, <2>1, Extremes
<1> HIDE DEF lows, highs
<1>5. RangeLow(leg) \in Int /\ RangeHigh(leg) \in Int
  BY <1>2, <1>4
<1>6. \A i \in I : RangeLow(leg) <= leg[i].low /\ leg[i].low <= leg[i].high /\ leg[i].high <= RangeHigh(leg)
  BY <1>1, <1>2, <1>4
<1> QED
  BY <1>1, <1>5, <1>6

(* The bins of a candle that does not stand flat at the top are some, those   *)
(* of one that does are none.                                                 *)
LEMMA SpanShape ==
    ASSUME NEW low \in Int, NEW range \in Nat \ {0}, NEW c,
           c.low \in Int, c.high \in Int, low <= c.low, c.low <= c.high, c.high <= low + range
    PROVE  /\ IsFiniteSet(Span(c, low, range)) /\ Span(c, low, range) \in SUBSET Bins
           /\ Cardinality(Span(c, low, range)) \in 0..BinCount
           /\ Cardinality(Span(c, low, range)) = 0 <=> c.low = low + range
<1> DEFINE span == Span(c, low, range)
           x == c.low - low
           y == c.high - low
           first == (x * BinCount) \div range
           last == (y * BinCount) \div range
<1>1. BinCount \in Nat \ {0}
  BY BinsAssumption
<1>2. Bins = 0..(BinCount - 1) /\ IsFiniteSet(Bins) /\ Cardinality(Bins) = BinCount
  <2>1. 0 \in Int /\ BinCount - 1 \in Int /\ 0 <= BinCount - 1
    BY <1>1
  <2>2. /\ IsFiniteSet(0..(BinCount - 1))
        /\ Cardinality(0..(BinCount - 1)) = IF 0 > BinCount - 1 THEN 0 ELSE BinCount - 1 - 0 + 1
    BY <2>1, FS_Interval
  <2> QED
    BY <1>1, <2>1, <2>2 DEF Bins
<1>3. span = {b \in Bins : first <= b /\ b <= last}
  BY DEF Span
<1>4. span \in SUBSET Bins
  BY <1>3
<1>5. IsFiniteSet(span) /\ Cardinality(span) \in 0..BinCount /\ (Cardinality(span) = 0 <=> span = {})
  <2> HIDE DEF span
  <2>1. IsFiniteSet(span) /\ Cardinality(span) <= BinCount
    BY <1>2, <1>4, FS_Subset
  <2> QED
    BY <1>1, <2>1, FS_CardinalityType, FS_EmptySet
<1>6. x \in Nat /\ y \in Nat /\ x <= y /\ y <= range /\ (x = range <=> c.low = low + range)
  OBVIOUS
<1> HIDE DEF x, y
<1>7. x * BinCount \in Nat /\ y * BinCount \in Nat /\ x * BinCount <= y * BinCount
  <2>1. (y - x) * BinCount \in Nat /\ x * BinCount \in Nat
    BY <1>1, <1>6
  <2>2. (y - x) * BinCount = y * BinCount - x * BinCount /\ y * BinCount \in Int
    BY <1>1, <1>6
  <2> QED
    BY <2>1, <2>2
<1>8. first \in Nat /\ last \in Nat /\ first <= last
  <2>1. ASSUME NEW a \in Nat, NEW b \in Nat, a <= b
        PROVE  a \div range \in Nat /\ b \div range \in Nat /\ a \div range <= b \div range
    BY <2>1
  <2> QED
    BY <1>7, <2>1
<1>9. CASE x = range
  <2>1. x * BinCount = range * BinCount
    BY <1>9
  <2>2. (range * BinCount) \div range = BinCount
    BY <1>1
  <2>3. first = BinCount
    BY <2>1, <2>2
  <2> HIDE DEF first, last, span
  <2>4. span = {}
    BY <1>1, <1>2, <1>3, <2>3
  <2> QED
    BY <1>4, <1>5, <1>6, <1>9, <2>4 DEF span
<1>10. CASE x # range
  <2>1. x * BinCount < range * BinCount
    <3>1. (range - x - 1) * BinCount \in Nat
      BY <1>1, <1>6, <1>10
    <3>2. (range - x - 1) * BinCount = range * BinCount - x * BinCount - BinCount
      BY <1>1, <1>6
    <3>3. range * BinCount \in Nat
      BY <1>1
    <3> QED
      BY <1>1, <1>7, <3>1, <3>2, <3>3
  <2>2. \A a \in Nat, k \in Nat : a < range * k => a \div range < k
    OBVIOUS
  <2>3. first < BinCount
    BY <1>1, <1>7, <2>1, <2>2
  <2> HIDE DEF first, last, span
  <2>4. first \in span
    BY <1>1, <1>2, <1>3, <1>8, <2>3
  <2> QED
    BY <1>4, <1>5, <1>6, <1>10, <2>4 DEF span
<1> QED
  BY <1>9, <1>10

(* The same value for some elements, and nothing for the others.              *)
LEMMA TotalOfSome ==
    ASSUME NEW S, IsFiniteSet(S), NEW T \in SUBSET S, NEW c \in Int,
           NEW f, \A x \in T : f[x] = c, \A x \in S \ T : f[x] = 0
    PROVE  Total(f, S) = Cardinality(T) * c
<1> DEFINE g == [x \in T |-> c]
<1>1. \A x \in T : g[x] = c
  OBVIOUS
<1> HIDE DEF g
<1>2. Total(f, S) = Total(g, T)
  BY <1>1, TotalOn
<1>3. IsFiniteSet(T)
  BY FS_Subset
<1> QED
  BY <1>1, <1>2, <1>3, TotalSame

(* What a candle of a leg adds to each bin: its whole volume, in equal parts. *)
Share(leg, i, b) ==
    LET span == Span(leg[i], RangeLow(leg), RangeHigh(leg) - RangeLow(leg))
    IN  IF b \in span THEN (Shares \div Cardinality(span)) * leg[i].volume ELSE 0

LEMMA ShareShape ==
    ASSUME NEW leg, IsWindow(leg), HasProfile(leg), NEW i \in 1..Len(leg)
    PROVE  /\ [b \in Bins |-> Share(leg, i, b)] \in [Bins -> Nat]
           /\ Total([b \in Bins |-> Share(leg, i, b)], Bins)
                = IF leg[i].low < RangeHigh(leg) THEN Shares * leg[i].volume ELSE 0
<1> DEFINE low == RangeLow(leg)
           range == RangeHigh(leg) - RangeLow(leg)
           span == Span(leg[i], low, range)
           n == Cardinality(span)
           part == (Shares \div n) * leg[i].volume
           f == [b \in Bins |-> Share(leg, i, b)]
<1>1. /\ low \in Int /\ range \in Nat \ {0} /\ RangeHigh(leg) \in Int
      /\ low <= leg[i].low /\ leg[i].low <= leg[i].high /\ leg[i].high <= low + range
  BY RangeShape DEF HasProfile
<1>2. leg[i].low \in Int /\ leg[i].high \in Int /\ leg[i].volume \in Nat
  BY WindowType DEF IsCandle
<1> HIDE DEF low, range
<1>3. /\ IsFiniteSet(span) /\ span \in SUBSET Bins /\ n \in 0..BinCount
      /\ n = 0 <=> leg[i].low = low + range
  BY <1>1, <1>2, SpanShape
<1>4. f = [b \in Bins |-> IF b \in span THEN part ELSE 0]
  BY DEF Share, low, range
<1>5. IsFiniteSet(Bins) /\ BinCount \in Nat
  BY BinsAssumption, FS_Interval DEF Bins
<1> HIDE DEF span, n, f
<1>6. CASE n = 0
  <2>1. span = {}
    BY <1>3, <1>6, FS_EmptySet DEF n
  <2>2. f \in [Bins -> Nat] /\ \A b \in Bins : f[b] = 0
    BY <1>4, <2>1
  <2>3. Total(f, Bins) = Cardinality(Bins) * 0 /\ Cardinality(Bins) \in Nat
    BY <1>5, <2>2, TotalSame, FS_CardinalityType
  <2>4. ~(leg[i].low < RangeHigh(leg))
    BY <1>1, <1>2, <1>3, <1>6 DEF low, range
  <2> QED
    BY <2>2, <2>3, <2>4 DEF f
<1>7. CASE n # 0
  <2>1. PICK k \in 1..Shares : n * k = Shares
    <3>1. n \in 1..BinCount
      BY <1>3, <1>5, <1>7
    <3> QED
      BY <3>1, BinsAssumption
  <2>2. k \in Nat /\ n \in Nat \ {0} /\ Shares \in Nat
    BY <1>3, <1>5, <1>7, <2>1, BinsAssumption
  <2>3. Shares \div n = k
    <3>1. (n * k) \div n = k
      BY <2>2
    <3> QED
      BY <2>1, <3>1
  <2>4. part = k * leg[i].volume /\ part \in Nat
    BY <1>2, <2>2, <2>3
  <2> HIDE DEF part
  <2>5. f \in [Bins -> Nat]
    BY <1>4, <2>4
  <2>6. Total(f, Bins) = n * part
    <3>1. IsFiniteSet(Bins) /\ span \in SUBSET Bins
      BY <1>3, <1>5
    <3>2. (\A b \in span : f[b] = part) /\ (\A b \in Bins \ span : f[b] = 0)
      BY <1>3, <1>4
    <3>3. Total(f, Bins) = Cardinality(span) * part
      BY <2>4, <3>1, <3>2, TotalOfSome
    <3> QED
      BY <3>3 DEF n
  <2>7. n * (k * leg[i].volume) = (n * k) * leg[i].volume
    BY <1>2, <2>2
  <2>8. leg[i].low < RangeHigh(leg)
    BY <1>1, <1>2, <1>3, <1>7 DEF low, range
  <2> QED
    BY <2>1, <2>4, <2>5, <2>6, <2>7, <2>8 DEF f
<1> QED
  BY <1>6, <1>7

(* A profile adds up to the volume of all candles that have a bin.            *)
LEMMA ProfileShape ==
    ASSUME NEW leg, IsWindow(leg), HasProfile(leg)
    PROVE  /\ Profile(leg) \in [Bins -> Nat]
           /\ Total(Profile(leg), Bins)
                = Shares * Total([i \in DOMAIN leg |-> leg[i].volume],
                                 {i \in DOMAIN leg : leg[i].low < RangeHigh(leg)})
<1> DEFINE I == DOMAIN leg
           F == [i \in I |-> [b \in Bins |-> Share(leg, i, b)]]
           R == [i \in I |-> Total(F[i], Bins)]
           column(b) == [i \in I |-> F[i][b]]
           counted == {i \in I : leg[i].low < RangeHigh(leg)}
           volume == [i \in I |-> leg[i].volume]
           scaled == [i \in I |-> Shares * leg[i].volume]
<1>1. I = 1..Len(leg) /\ IsFiniteSet(I) /\ \A i \in I : leg[i].volume \in Nat
  <2>1. Len(leg) \in Nat /\ I = 1..Len(leg)
    BY WindowType
  <2> QED
    <3>1. IsFiniteSet(1..Len(leg))
      BY <2>1, FS_Interval
    <3>2. \A i \in 1..Len(leg) : IsCandle(leg[i])
      BY WindowType
    <3> QED
      BY <2>1, <3>1, <3>2 DEF IsCandle
<1>2. IsFiniteSet(Bins) /\ Shares \in Nat
  BY BinsAssumption, FS_Interval DEF Bins
<1>3. ASSUME NEW i \in I
      PROVE  /\ F[i] \in [Bins -> Nat]
             /\ R[i] = IF leg[i].low < RangeHigh(leg) THEN scaled[i] ELSE 0
  <2>1. F[i] = [b \in Bins |-> Share(leg, i, b)] /\ i \in 1..Len(leg)
    BY <1>1
  <2>2. /\ F[i] \in [Bins -> Nat]
        /\ Total(F[i], Bins) = IF leg[i].low < RangeHigh(leg) THEN Shares * leg[i].volume ELSE 0
    <3> HIDE DEF F
    <3> QED
      BY <2>1, ShareShape
  <2> HIDE DEF F
  <2> QED
    BY <2>2
<1>4. F \in [I -> [Bins -> Int]] /\ F \in [I -> [Bins -> Nat]]
  <2>1. F = [i \in I |-> F[i]]
    OBVIOUS
  <2>2. \A i \in I : F[i] \in [Bins -> Nat] /\ F[i] \in [Bins -> Int]
    <3>1. ASSUME NEW f \in [Bins -> Nat] PROVE f \in [Bins -> Int]
      OBVIOUS
    <3> HIDE DEF F
    <3> QED
      BY <1>3, <3>1
  <2> HIDE DEF F
  <2> QED
    BY <2>1, <2>2
<1>5. Profile(leg) = [b \in Bins |-> Total(column(b), I)]
  <2> DEFINE row(b) == [i \in I |-> Share(leg, i, b)]
  <2>1. \A b \in Bins : column(b) = row(b)
    OBVIOUS
  <2>2. Profile(leg) = [b \in Bins |-> Total(row(b), I)]
    BY DEF Profile, Share, Total, SumFunction
  <2> HIDE DEF column, row
  <2> QED
    BY <2>1, <2>2
<1>6. Profile(leg) \in [Bins -> Nat]
  <2>1. ASSUME NEW b \in Bins PROVE Total(column(b), I) \in Nat
    <3>1. \A i \in I : column(b)[i] \in Nat
      BY <1>4
    <3> HIDE DEF column
    <3> QED
      BY <1>1, <3>1, TotalNat
  <2> HIDE DEF column
  <2> QED
    BY <1>5, <2>1
<1>7. Total(Profile(leg), Bins) = Total(R, I)
  <2>1. /\ R = [i \in I |-> Total(F[i], Bins)]
        /\ Profile(leg) = [b \in Bins |-> Total([i \in I |-> F[i][b]], I)]
    <3> HIDE DEF F
    <3> QED
      BY <1>5
  <2>2. IsFiniteSet(I) /\ IsFiniteSet(Bins) /\ F \in [I -> [Bins -> Int]]
    BY <1>1, <1>2, <1>4
  <2> HIDE DEF F, R, I
  <2> QED
    BY <2>1, <2>2, TotalTable
<1>8. Total(R, I) = Total(scaled, counted)
  <2>1. \A i \in counted : R[i] = scaled[i] /\ R[i] \in Int
    <3>1. \A i \in I : scaled[i] \in Int
      BY <1>1, <1>2
    <3> HIDE DEF R, scaled
    <3> QED
      BY <1>3, <3>1
  <2>2. \A i \in I \ counted : R[i] = 0
    BY <1>3
  <2>3. counted \in SUBSET I /\ IsFiniteSet(I)
    BY <1>1
  <2> HIDE DEF R, scaled, counted, I
  <2> QED
    BY <2>1, <2>2, <2>3, TotalOn
<1>9. Total(scaled, counted) = Shares * Total(volume, counted)
  <2>1. counted \in SUBSET I /\ \A i \in counted : volume[i] \in Int /\ scaled[i] = Shares * volume[i]
    BY <1>1
  <2>2. IsFiniteSet(counted)
    BY <1>1, <2>1, FS_Subset
  <2> HIDE DEF scaled, volume, counted
  <2> QED
    BY <1>2, <2>1, <2>2, TotalTimes
<1> QED
  BY <1>6, <1>7, <1>8, <1>9

(* The fullest price is that of a bin that no other one exceeds.              *)
LEMMA PocShape ==
    ASSUME NEW bins \in [Bins -> Nat]
    PROVE  PocBin(bins) \in Bins /\ \A b \in Bins : bins[b] <= bins[PocBin(bins)]
<1> DEFINE full == {b \in Bins : \A c \in Bins : bins[c] <= bins[b]}
           R == {x \in Bins \X Bins : bins[x[2]] <= bins[x[1]]}
<1>1. IsFiniteSet(Bins) /\ Bins \in SUBSET Int /\ Bins # {}
  <2>1. BinCount \in Nat \ {0}
    BY BinsAssumption
  <2>2. IsFiniteSet(0..(BinCount - 1))
    BY <2>1, FS_Interval
  <2>3. 0 \in 0..(BinCount - 1)
    BY <2>1
  <2> QED
    BY <2>2, <2>3 DEF Bins
<1>2. full # {}
  <2>1. /\ \A b, c \in Bins : <<b, c>> \in R \/ <<c, b>> \in R
        /\ \A b, c, d \in Bins : <<b, c>> \in R /\ <<c, d>> \in R => <<b, d>> \in R
    OBVIOUS
  <2>2. \A b, c \in Bins : <<b, c>> \in R => bins[c] <= bins[b]
    OBVIOUS
  <2> HIDE DEF R
  <2>3. \E b \in Bins : \A c \in Bins : <<b, c>> \in R
    BY <1>1, <2>1, FirstElement
  <2> QED
    BY <2>2, <2>3
<1>3. full \in SUBSET Bins /\ PocBin(bins) = Min(full)
  BY DEF PocBin
<1>4. PocBin(bins) \in full
  <2> HIDE DEF full
  <2>1. IsFiniteSet(full) /\ full \in SUBSET Int
    BY <1>1, <1>3, FS_Subset
  <2> QED
    BY <1>2, <1>3, <2>1, Extremes
<1> QED
  BY <1>4

(* The area around a fullest bin is defined through those around all pairs of *)
(* bins; these are the equations of those.                                    *)
VolumeAt(bins, b) == IF b \in Bins THEN bins[b] ELSE -1
Grown(bins, g, from, to) ==
    IF Enough(bins, from, to) \/ (from = 0 /\ to = BinCount - 1) THEN <<from, to>>
    ELSE IF to + 1 \in Bins /\ VolumeAt(bins, to + 1) >= VolumeAt(bins, from - 1) THEN g[<<from, to + 1>>]
    ELSE g[<<from - 1, to>>]
Areas(bins, g) == [ends \in Bins \X Bins |-> Grown(bins, g, ends[1], ends[2])]

LEMMA AreaIsGrown ==
    ASSUME NEW bins
    PROVE  ValueArea(bins) = (CHOOSE g : g = Areas(bins, g))[<<PocBin(bins), PocBin(bins)>>]
  BY DEF ValueArea, Areas, Grown, VolumeAt

(* How many bins lie outside.                                                 *)
Outside(ends) == ends[1] + (BinCount - 1 - ends[2])

(* An area that does not take the bin above has one below to take.            *)
LEMMA CanGrow ==
    ASSUME NEW bins \in [Bins -> Nat], NEW from \in Bins, NEW to \in Bins,
           ~(from = 0 /\ to = BinCount - 1)
    PROVE  \/ to + 1 \in Bins /\ VolumeAt(bins, to + 1) >= VolumeAt(bins, from - 1)
           \/ from - 1 \in Bins
<1>1. BinCount \in Nat \ {0} /\ Bins = 0..(BinCount - 1)
  BY BinsAssumption DEF Bins
<1>2. from # 0 => from - 1 \in Bins
  BY <1>1
<1>3. from = 0 => to + 1 \in Bins
  BY <1>1
<1>4. \A b \in Bins : VolumeAt(bins, b) \in Nat
  BY DEF VolumeAt
<1>5. from - 1 \notin Bins => VolumeAt(bins, from - 1) = -1
  BY DEF VolumeAt
<1>6. CASE from - 1 \notin Bins
  <2>1. to + 1 \in Bins /\ VolumeAt(bins, to + 1) \in Nat
    BY <1>2, <1>3, <1>4, <1>6
  <2> QED
    BY <1>5, <1>6, <2>1
<1> QED
  BY <1>6

(* An area that must grow can, by the next bin above or the next below.       *)
LEMMA GrowsInside ==
    ASSUME NEW bins \in [Bins -> Nat], NEW from \in Bins, NEW to \in Bins, NEW g
    PROVE  /\ Outside(<<from, to>>) \in Nat
           /\ \/ Grown(bins, g, from, to) = <<from, to>> /\ (Enough(bins, from, to) \/ (from = 0 /\ to = BinCount - 1))
              \/ /\ ~Enough(bins, from, to) /\ to + 1 \in Bins
                 /\ Grown(bins, g, from, to) = g[<<from, to + 1>>]
                 /\ Outside(<<from, to + 1>>) = Outside(<<from, to>>) - 1
              \/ /\ ~Enough(bins, from, to) /\ from - 1 \in Bins
                 /\ Grown(bins, g, from, to) = g[<<from - 1, to>>]
                 /\ Outside(<<from - 1, to>>) = Outside(<<from, to>>) - 1
<1>1. BinCount \in Nat \ {0} /\ Bins = 0..(BinCount - 1)
  BY BinsAssumption DEF Bins
<1>2. Outside(<<from, to>>) \in Nat
  BY <1>1 DEF Outside
<1>3. CASE Enough(bins, from, to) \/ (from = 0 /\ to = BinCount - 1)
  BY <1>2, <1>3 DEF Grown
<1>4. CASE ~Enough(bins, from, to) /\ ~(from = 0 /\ to = BinCount - 1)
  <2>1. CASE to + 1 \in Bins /\ VolumeAt(bins, to + 1) >= VolumeAt(bins, from - 1)
    <3>1. Outside(<<from, to + 1>>) = Outside(<<from, to>>) - 1
      BY <1>1 DEF Outside
    <3> QED
      BY <1>2, <1>4, <2>1, <3>1 DEF Grown
  <2>2. CASE ~(to + 1 \in Bins /\ VolumeAt(bins, to + 1) >= VolumeAt(bins, from - 1))
    <3>1. from - 1 \in Bins
      BY <1>4, <2>2, CanGrow
    <3>2. Outside(<<from - 1, to>>) = Outside(<<from, to>>) - 1
      BY <1>1 DEF Outside
    <3> QED
      BY <1>2, <1>4, <2>2, <3>1, <3>2 DEF Grown
  <2> QED
    BY <2>1, <2>2
<1> QED
  BY <1>3, <1>4

(* The equations have a solution, found from the widest areas inward.         *)
LEMMA AreasExist ==
    ASSUME NEW bins \in [Bins -> Nat]
    PROVE  \E g : g = Areas(bins, g)
<1> DEFINE val(g, x) == Grown(bins, g, x[1], x[2])
           Pairs2 == Bins \X Bins
           Solves(g, n) == \A x \in Pairs2 : Outside(x) <= n => g[x] = val(g, x)
           most == 2 * BinCount
           Bad == {n \in 0..most : \A g : ~Solves(g, n)}
<1>1. most \in Nat /\ \A x \in Pairs2 : Outside(x) \in Nat /\ Outside(x) <= most
  BY BinsAssumption DEF Bins, Outside
<1>2. ASSUME NEW n \in Nat, NEW g, n = 0 \/ Solves(g, n - 1)
      PROVE  \E h : Solves(h, n)
  <2> DEFINE h == [x \in Pairs2 |-> val(g, x)]
  <2> HIDE DEF val
  <2>1. ASSUME NEW x \in Pairs2, Outside(x) <= n
        PROVE  val(g, x) = val(h, x)
    <3> DEFINE from == x[1]
               to == x[2]
    <3>1. from \in Bins /\ to \in Bins /\ x = <<from, to>>
      OBVIOUS
    <3>2. ASSUME NEW y \in Pairs2, Outside(y) = Outside(x) - 1
          PROVE  g[y] = h[y]
      <4>1. Outside(y) <= n - 1 /\ n # 0
        BY <1>1, <2>1, <3>2
      <4>2. g[y] = val(g, y) /\ h[y] = val(g, y)
        BY <1>2, <4>1
      <4> QED
        BY <4>2
    <3>3. val(g, x) = Grown(bins, g, from, to) /\ val(h, x) = Grown(bins, h, from, to)
      BY DEF val
    <3> HIDE DEF h, from, to
    <3>4. \/ Grown(bins, g, from, to) = <<from, to>> /\ (Enough(bins, from, to) \/ (from = 0 /\ to = BinCount - 1))
          \/ ~Enough(bins, from, to) /\ to + 1 \in Bins /\ Outside(<<from, to + 1>>) = Outside(x) - 1
          \/ ~Enough(bins, from, to) /\ from - 1 \in Bins /\ Outside(<<from - 1, to>>) = Outside(x) - 1
      BY <3>1, GrowsInside
    <3>5. /\ to + 1 \in Bins /\ Outside(<<from, to + 1>>) = Outside(x) - 1
               => g[<<from, to + 1>>] = h[<<from, to + 1>>]
          /\ from - 1 \in Bins /\ Outside(<<from - 1, to>>) = Outside(x) - 1
               => g[<<from - 1, to>>] = h[<<from - 1, to>>]
      BY <3>1, <3>2
    <3>6. Grown(bins, g, from, to) = Grown(bins, h, from, to)
      <4>1. CASE Enough(bins, from, to) \/ (from = 0 /\ to = BinCount - 1)
        BY <4>1 DEF Grown
      <4>2. CASE ~(Enough(bins, from, to) \/ (from = 0 /\ to = BinCount - 1))
        <5>1. Outside(<<from, to + 1>>) = Outside(x) - 1 /\ Outside(<<from - 1, to>>) = Outside(x) - 1
          BY <3>1, BinsAssumption DEF Outside, Bins
        <5>2. (to + 1 \in Bins /\ VolumeAt(bins, to + 1) >= VolumeAt(bins, from - 1)) \/ from - 1 \in Bins
          BY <3>1, <4>2, CanGrow
        <5> QED
          BY <3>5, <4>2, <5>1, <5>2 DEF Grown
      <4> QED
        BY <4>1, <4>2
    <3> QED
      BY <3>3, <3>6
  <2>2. Solves(h, n)
    BY <2>1
  <2> HIDE DEF h, Solves
  <2> QED
    BY <2>2
<1>3. Bad = {}
  <2> SUFFICES ASSUME Bad # {} PROVE FALSE
    OBVIOUS
  <2> DEFINE n == Min(Bad)
  <2>1. Bad \in SUBSET (0..most) /\ Bad \in SUBSET Int
    BY <1>1
  <2>2. IsFiniteSet(0..most)
    BY <1>1, FS_Interval
  <2>3. n \in Bad /\ \A m \in Bad : n <= m
    <3> HIDE DEF Bad, most
    <3> QED
      BY <2>1, <2>2, FS_Subset, Extremes
  <2> HIDE DEF n, Solves, most
  <2>4. n \in Nat /\ n <= most /\ \A g : ~Solves(g, n)
    BY <1>1, <2>3
  <2>5. n = 0 \/ \E g : Solves(g, n - 1)
    <3> SUFFICES ASSUME n # 0, \A g : ~Solves(g, n - 1) PROVE FALSE
      OBVIOUS
    <3>1. n - 1 \in 0..most
      BY <1>1, <2>4
    <3>2. n - 1 \in Bad
      BY <3>1
    <3> QED
      BY <2>3, <2>4, <3>2
  <2> HIDE DEF Bad
  <2> QED
    BY <1>2, <2>4, <2>5
<1>4. PICK g : Solves(g, most)
  <2>1. most \in 0..most
    BY <1>1
  <2> HIDE DEF Solves, most
  <2> QED
    BY <1>3, <2>1
<1> DEFINE h == [x \in Pairs2 |-> g[x]]
<1>5. ASSUME NEW x \in Pairs2 PROVE h[x] = val(h, x)
  <2> DEFINE from == x[1]
             to == x[2]
  <2>1. from \in Bins /\ to \in Bins /\ g[x] = Grown(bins, g, from, to)
    BY <1>1, <1>4
  <2>2. /\ to + 1 \in Bins => h[<<from, to + 1>>] = g[<<from, to + 1>>]
        /\ from - 1 \in Bins => h[<<from - 1, to>>] = g[<<from - 1, to>>]
    BY <2>1
  <2> HIDE DEF from, to, h
  <2>3. Grown(bins, h, from, to) = Grown(bins, g, from, to)
    BY <2>1, <2>2, GrowsInside DEF Grown
  <2> QED
    BY <2>1, <2>3 DEF h, from, to
<1>6. h = Areas(bins, h)
  BY <1>5 DEF Areas
<1> QED
  BY <1>6

(* What is asked of the area around two bins.                                 *)
Reaches(bins, from, to, area) ==
    /\ area[1] \in Bins /\ area[2] \in Bins /\ area[1] <= from /\ to <= area[2]
    /\ Enough(bins, area[1], area[2])
    /\ \/ area = <<from, to>>
       \/ area[1] < from /\ ~Enough(bins, area[1] + 1, area[2])
       \/ area[2] > to /\ ~Enough(bins, area[1], area[2] - 1)

(* The volume between two bins, and that of all of them.                      *)
LEMMA VolumeShape ==
    ASSUME NEW bins \in [Bins -> Nat]
    PROVE  /\ \A from, to \in Bins : VolumeIn(bins, from, to) \in Nat
           /\ VolumeIn(bins, 0, BinCount - 1) = Total(bins, Bins)
           /\ VolumeIn(bins, 0, BinCount - 1) \in Nat
<1>1. BinCount \in Nat \ {0} /\ Bins = 0..(BinCount - 1)
  BY BinsAssumption DEF Bins
<1>2. ASSUME NEW from \in Bins, NEW to \in Bins
      PROVE  VolumeIn(bins, from, to) \in Nat
  <2>1. from \in Int /\ to \in Int /\ \A b \in from..to : bins[b] \in Nat
    BY <1>1
  <2>2. IsFiniteSet(from..to)
    BY <2>1, FS_Interval
  <2>3. Total(bins, from..to) \in Nat
    BY <2>1, <2>2, TotalNat
  <2> QED
    BY <2>3 DEF VolumeIn, Total
<1>3. 0 \in Bins /\ BinCount - 1 \in Bins
  BY <1>1
<1>4. VolumeIn(bins, 0, BinCount - 1) = Total(bins, Bins)
  BY <1>1 DEF VolumeIn, Total
<1> QED
  BY <1>2, <1>3, <1>4

(* What the areas of all pairs of bins reach, by how many bins lie outside.   *)
LEMMA AreasReach ==
    ASSUME NEW bins \in [Bins -> Nat], NEW g,
           \A from, to \in Bins : g[<<from, to>>] = Grown(bins, g, from, to)
    PROVE  \A from, to \in Bins : Reaches(bins, from, to, g[<<from, to>>])
<1> DEFINE most == 2 * BinCount
           fails(from, to) == ~Reaches(bins, from, to, g[<<from, to>>])
           Bad == {n \in 0..most : \E from, to \in Bins : Outside(<<from, to>>) = n /\ fails(from, to)}
<1>1. /\ BinCount \in Nat \ {0} /\ Bins = 0..(BinCount - 1) /\ most \in Nat
      /\ \A from, to \in Bins : Outside(<<from, to>>) \in 0..most
  BY BinsAssumption DEF Bins, Outside
<1>2. Bad = {}
  <2> SUFFICES ASSUME Bad # {} PROVE FALSE
    OBVIOUS
  <2> DEFINE n == Min(Bad)
  <2>1. Bad \in SUBSET (0..most) /\ Bad \in SUBSET Int
    BY <1>1
  <2>2. IsFiniteSet(0..most)
    <3>1. 0 \in Int /\ most \in Int
      BY <1>1
    <3> QED
      BY <3>1, FS_Interval
  <2>3. n \in Bad /\ \A m \in Bad : n <= m
    <3> HIDE DEF Bad, most
    <3> QED
      BY <2>1, <2>2, FS_Subset, Extremes
  <2>4. \E from, to \in Bins : Outside(<<from, to>>) = n /\ fails(from, to)
    <3> HIDE DEF n
    <3> QED
      BY <2>3
  <2> HIDE DEF n
  <2>5. PICK from \in Bins, to \in Bins : Outside(<<from, to>>) = n /\ fails(from, to)
    BY <2>4
  <2>6. ASSUME NEW a \in Bins, NEW b \in Bins, Outside(<<a, b>>) = n - 1
        PROVE  Reaches(bins, a, b, g[<<a, b>>])
    <3>1. fails(a, b) => n - 1 \in Bad
      <4>1. n - 1 \in 0..most
        BY <1>1, <2>6
      <4> QED
        BY <2>6, <4>1
    <3>2. n \in Int
      BY <2>1, <2>3
    <3> HIDE DEF Bad
    <3> QED
      BY <2>3, <3>1, <3>2
  <2> HIDE DEF Bad
  <2>7. g[<<from, to>>] = Grown(bins, g, from, to) /\ ~Reaches(bins, from, to, g[<<from, to>>])
    BY <2>5
  <2>8. CASE /\ g[<<from, to>>] = <<from, to>>
             /\ Enough(bins, from, to) \/ (from = 0 /\ to = BinCount - 1)
    <3>1. Enough(bins, from, to)
      <4>1. VolumeIn(bins, 0, BinCount - 1) \in Nat
        BY VolumeShape
      <4>2. Enough(bins, 0, BinCount - 1)
        BY <4>1 DEF Enough
      <4> QED
        BY <2>8, <4>2
    <3>2. from \in Int /\ to \in Int
      BY <1>1
    <3>3. Reaches(bins, from, to, <<from, to>>)
      BY <3>1, <3>2 DEF Reaches
    <3> QED
      BY <2>7, <2>8, <3>3
  <2>9. CASE /\ ~Enough(bins, from, to) /\ to + 1 \in Bins
             /\ g[<<from, to>>] = g[<<from, to + 1>>]
             /\ Outside(<<from, to + 1>>) = n - 1
    <3> DEFINE area == g[<<from, to + 1>>]
    <3>1. Reaches(bins, from, to + 1, area)
      BY <2>6, <2>9
    <3> HIDE DEF area
    <3>2. from \in Int /\ to \in Int /\ (to + 1) - 1 = to /\ (area[2] \in Bins => area[2] \in Int)
      BY <1>1
    <3>3. area = <<from, to + 1>> => area[2] > to /\ ~Enough(bins, area[1], area[2] - 1)
      BY <2>9, <3>2
    <3>4. Reaches(bins, from, to, area)
      BY <3>1, <3>2, <3>3 DEF Reaches
    <3> QED
      BY <2>7, <2>9, <3>4 DEF area
  <2>10. CASE /\ ~Enough(bins, from, to) /\ from - 1 \in Bins
              /\ g[<<from, to>>] = g[<<from - 1, to>>]
              /\ Outside(<<from - 1, to>>) = n - 1
    <3> DEFINE area == g[<<from - 1, to>>]
    <3>1. Reaches(bins, from - 1, to, area)
      BY <2>6, <2>10
    <3> HIDE DEF area
    <3>2. from \in Int /\ to \in Int /\ (from - 1) + 1 = from /\ (area[1] \in Bins => area[1] \in Int)
      BY <1>1
    <3>3. area = <<from - 1, to>> => area[1] < from /\ ~Enough(bins, area[1] + 1, area[2])
      BY <2>10, <3>2
    <3>4. Reaches(bins, from, to, area)
      BY <3>1, <3>2, <3>3 DEF Reaches
    <3> QED
      BY <2>7, <2>10, <3>4 DEF area
  <2> QED
    BY <2>5, <2>7, <2>8, <2>9, <2>10, GrowsInside
<1> QED
  BY <1>1, <1>2

(* The area around the fullest bin.                                           *)
LEMMA ValueAreaShape ==
    ASSUME NEW bins \in [Bins -> Nat]
    PROVE  Reaches(bins, PocBin(bins), PocBin(bins), ValueArea(bins))
<1> DEFINE g == CHOOSE g : g = Areas(bins, g)
           poc == PocBin(bins)
<1>1. g = Areas(bins, g)
  BY AreasExist
<1> HIDE DEF g
<1>2. \A from, to \in Bins : g[<<from, to>>] = Grown(bins, g, from, to)
  <2> SUFFICES ASSUME NEW from \in Bins, NEW to \in Bins
               PROVE  g[<<from, to>>] = Grown(bins, g, from, to)
    OBVIOUS
  <2>1. Areas(bins, g)[<<from, to>>] = Grown(bins, g, from, to)
    BY DEF Areas
  <2> QED
    BY <1>1, <2>1
<1>3. poc \in Bins
  BY PocShape
<1>4. ValueArea(bins) = g[<<poc, poc>>]
  BY AreaIsGrown DEF g
<1> HIDE DEF poc
<1>5. Reaches(bins, poc, poc, g[<<poc, poc>>])
  BY <1>2, <1>3, AreasReach
<1> QED
  BY <1>4, <1>5 DEF poc

(* A stretch of a history is a window.                                        *)
LEMMA StretchWindow ==
    ASSUME NEW h, IsWindow(h), NEW from \in DOMAIN h, NEW to \in DOMAIN h
    PROVE  IsWindow(SubSeq(h, from, to))
<1>1. Len(h) \in Nat /\ DOMAIN h = 1..Len(h) /\ h \in Seq(Range(h))
  BY WindowType DEF IsWindow
<1>2. SubSeq(h, from, to) \in Seq(Range(h))
  <2>1. \A i \in from..to : i \in 1..Len(h)
    BY <1>1
  <2> QED
    BY <1>1, <2>1, SubSeqProperties
<1> QED
  BY <1>2, SeqOfRange, RangeOfSeq DEF IsWindow

(* What TLC checks of the profiles, in the sums of the lemmas.                *)
LEMMA StretchHasProfile ==
    ASSUME NEW leg \in {s \in Stretches : HasProfile(s)}, IsWindow(history.h1)
    PROVE  IsWindow(leg) /\ HasProfile(leg) /\ Profile(leg) \in [Bins -> Nat]
<1>1. PICK from \in DOMAIN history.h1 : leg = SubSeq(history.h1, from, Len(history.h1))
  BY DEF Stretches
<1>2. Len(history.h1) \in DOMAIN history.h1
  BY WindowType
<1>3. IsWindow(leg)
  BY <1>1, <1>2, StretchWindow
<1> QED
  BY <1>3, ProfileShape

(* No volume of a leg is counted twice by the bins of its profile, and none   *)
(* is lost where no candle stands flat at the very top                        *)
(* (features/volume_profile.py, _distribute_volume).                          *)
THEOREM ProfileKeepsVolume == Spec => []VolumeKept
<1>1. TargetInv => VolumeKept
  <2> SUFFICES ASSUME TargetInv, NEW leg \in {s \in Stretches : HasProfile(s)}
               PROVE  LET kept == VolumeIn(Profile(leg), 0, BinCount - 1)
                      IN  /\ kept <= Volume(leg)
                          /\ (\A i \in DOMAIN leg : leg[i].low < RangeHigh(leg)) => kept = Volume(leg)
    BY DEF VolumeKept
  <2> DEFINE volume == [i \in DOMAIN leg |-> leg[i].volume]
             counted == {i \in DOMAIN leg : leg[i].low < RangeHigh(leg)}
             kept == VolumeIn(Profile(leg), 0, BinCount - 1)
  <2>1. IsWindow(leg) /\ HasProfile(leg) /\ Profile(leg) \in [Bins -> Nat]
    BY StretchHasProfile DEF TargetInv
  <2>2. VolumeIn(Profile(leg), 0, BinCount - 1) = Total(Profile(leg), Bins)
    BY <2>1, VolumeShape
  <2>3. kept = Shares * Total(volume, counted)
    BY <2>1, <2>2, ProfileShape
  <2>4. Volume(leg) = Shares * Total(volume, DOMAIN leg)
    BY DEF Volume, SumFunction, Total
  <2>5. IsFiniteSet(DOMAIN leg) /\ \A i \in DOMAIN leg : volume[i] \in Nat
    <3>1. Len(leg) \in Nat /\ DOMAIN leg = 1..Len(leg) /\ \A i \in DOMAIN leg : IsCandle(leg[i])
      BY <2>1, WindowType
    <3>2. IsFiniteSet(1..Len(leg))
      BY <3>1, FS_Interval
    <3> QED
      BY <3>1, <3>2 DEF IsCandle
  <2>6. counted \in SUBSET DOMAIN leg
    OBVIOUS
  <2>7. (\A i \in DOMAIN leg : leg[i].low < RangeHigh(leg)) => counted = DOMAIN leg
    OBVIOUS
  <2> HIDE DEF volume, counted, kept
  <2>8. Total(volume, counted) <= Total(volume, DOMAIN leg)
    BY <2>5, <2>6, TotalOfPart
  <2>9. Total(volume, counted) \in Nat /\ Total(volume, DOMAIN leg) \in Nat
    <3>1. IsFiniteSet(counted)
      BY <2>5, <2>6, FS_Subset
    <3> QED
      BY <2>5, <2>6, <3>1, TotalNat
  <2>10. kept <= Volume(leg)
    <3>1. \A x, y \in Nat : x <= y => Shares * x <= Shares * y
      BY BinsAssumption
    <3> QED
      BY <2>3, <2>4, <2>8, <2>9, <3>1
  <2> QED
    BY <2>3, <2>4, <2>7, <2>10 DEF kept
<1> QED
  BY <1>1, TargetsAlways, PTL

(* The value area of every leg holds its fullest bin and 70 percent of the    *)
(* volume, and is no wider than it must be                                    *)
(* (features/volume_profile.py, _expand_value_area).                          *)
THEOREM ValueAreaIsTight == Spec => []ValueAreaHolds
<1>1. TargetInv => ValueAreaHolds
  <2> SUFFICES ASSUME TargetInv, NEW leg \in {s \in Stretches : HasProfile(s)}
               PROVE  LET bins == Profile(leg)
                          area == ValueArea(bins)
                          poc == PocBin(bins)
                          holds(from, to) == 100 * VolumeIn(bins, from, to) >= 70 * VolumeIn(bins, 0, BinCount - 1)
                      IN  /\ area[1] <= poc /\ poc <= area[2] /\ holds(area[1], area[2])
                          /\ \/ area = <<poc, poc>>
                             \/ area[1] < poc /\ ~holds(area[1] + 1, area[2])
                             \/ area[2] > poc /\ ~holds(area[1], area[2] - 1)
    BY DEF ValueAreaHolds
  <2> DEFINE bins == Profile(leg)
             area == ValueArea(bins)
             poc == PocBin(bins)
             holds(from, to) == 100 * VolumeIn(bins, from, to) >= 70 * VolumeIn(bins, 0, BinCount - 1)
  <2>1. bins \in [Bins -> Nat]
    BY StretchHasProfile DEF TargetInv
  <2> HIDE DEF bins
  <2>2. poc \in Bins /\ Reaches(bins, poc, poc, area)
    BY <2>1, PocShape, ValueAreaShape
  <2>3. Bins = 0..(BinCount - 1) /\ BinCount \in Nat
    BY BinsAssumption DEF Bins
  <2>4. ASSUME NEW from \in Bins, NEW to \in Bins
        PROVE  Enough(bins, from, to) <=> holds(from, to)
    <3>1. VolumeIn(bins, from, to) \in Nat /\ VolumeIn(bins, 0, BinCount - 1) \in Nat
      BY <2>1, VolumeShape
    <3> QED
      BY <3>1 DEF Enough
  <2> HIDE DEF holds, area, poc
  <2>5. /\ area[1] < poc => area[1] + 1 \in Bins
        /\ area[2] > poc => area[2] - 1 \in Bins
    BY <2>2, <2>3 DEF Reaches
  <2>6. /\ area[1] <= poc /\ poc <= area[2] /\ holds(area[1], area[2])
        /\ \/ area = <<poc, poc>>
           \/ area[1] < poc /\ ~holds(area[1] + 1, area[2])
           \/ area[2] > poc /\ ~holds(area[1], area[2] - 1)
    BY <2>2, <2>4, <2>5 DEF Reaches
  <2> QED
    BY <2>6 DEF holds, area, poc, bins
<1> QED
  BY <1>1, TargetsAlways, PTL

-----------------------------------------------------------------------------
(* The entry, the stop and the target of a signal.                            *)

(* A swing point is its candle and its kind.                                  *)
LEMMA PointShape ==
    ASSUME NEW w, IsWindow(w), NEW p \in SwingPoints(w)
    PROVE  /\ p.index \in 1..Len(w) /\ p.kind \in {"high", "low"} /\ p.price \in Int
           /\ p = [index |-> p.index, kind |-> p.kind, price |-> Level(w[p.index], p.kind)]
<1>1. PICK x \in ((1 + Lookback)..(Len(w) - Lookback)) \X {"high", "low"} : p = Point(w, x)
  BY DEF SwingPoints
<1>2. x[2] \in {"high", "low"} /\ p = [index |-> x[1], kind |-> x[2], price |-> Level(w[x[1]], x[2])]
  BY <1>1 DEF Point
<1> QED
  BY <1>2, PointsType

(* Of some points, one is walked last.                                        *)
LEMMA LastIsOne ==
    ASSUME NEW w, IsWindow(w), NEW S \in SUBSET SwingPoints(w), S # {}
    PROVE  LastWalked(S) \in S
<1> DEFINE R == {x \in S \X S : x[2] = x[1] \/ Walked(x[2], x[1])}
<1>1. ASSUME NEW p \in S, NEW q \in S
      PROVE  p = q \/ Walked(p, q) \/ Walked(q, p)
  <2>1. /\ p.index \in Int /\ q.index \in Int
        /\ p.kind \in {"high", "low"} /\ q.kind \in {"high", "low"}
        /\ p.index = q.index /\ p.kind = q.kind => p = q
    BY PointShape, WindowType
  <2> QED
    BY <2>1 DEF Walked
<1>2. ASSUME NEW p \in S, NEW q \in S, NEW r \in S, Walked(p, q), Walked(q, r)
      PROVE  Walked(p, r)
  <2>1. p.index \in Int /\ q.index \in Int /\ r.index \in Int
    BY PointShape, WindowType
  <2> QED
    BY <1>2, <2>1 DEF Walked
<1>3. /\ \A p, q \in S : <<p, q>> \in R \/ <<q, p>> \in R
      /\ \A p, q, r \in S : <<p, q>> \in R /\ <<q, r>> \in R => <<p, r>> \in R
  BY <1>1, <1>2
<1>4. IsFiniteSet(S)
  BY PointsType, FS_Subset
<1>5. \A p, q \in S : <<p, q>> \in R => q = p \/ Walked(q, p)
  OBVIOUS
<1> HIDE DEF R
<1>6. \E p \in S : \A q \in S : <<p, q>> \in R
  BY <1>3, <1>4, FirstElement
<1>7. \E p \in S : \A q \in S : q = p \/ Walked(q, p)
  BY <1>5, <1>6
<1> QED
  BY <1>7 DEF LastWalked

(* So is one of some sweeps or breaks.                                        *)
LEMMA LatestIsOne ==
    ASSUME NEW w, IsWindow(w), NEW S, S # {}, \A x \in S : x.point \in SwingPoints(w)
    PROVE  Latest(S) \in S
<1> DEFINE T == {y.point : y \in S}
<1>1. T \in SUBSET SwingPoints(w) /\ T # {}
  OBVIOUS
<1>2. LastWalked(T) \in T
  <2> HIDE DEF T
  <2> QED
    BY <1>1, LastIsOne
<1>3. \E x \in S : x.point = LastWalked(T)
  BY <1>2
<1> QED
  BY <1>3 DEF Latest

(* The candle of a sweep passes the swept level by its wick alone, and so it  *)
(* has a range.                                                               *)
LEMMA SweepShape ==
    ASSUME NEW w, IsWindow(w), NEW s \in Sweeps(SwingPoints(w), w)
    PROVE  /\ s.point \in SwingPoints(w) /\ s.at \in 1..Len(w)
           /\ w[s.at].high > w[s.at].low
<1> DEFINE touches(p) == {i \in After(p, w) : \/ Beyond(p.kind, w[i].close, p.price)
                                              \/ Beyond(p.kind, Level(w[i], p.kind), p.price)}
<1>1. PICK p \in SwingPoints(w) : /\ s.point = p /\ s.at = Min(touches(p)) /\ touches(p) # {}
                                  /\ ~Beyond(p.kind, w[Min(touches(p))].close, p.price)
  <2>1. Sweeps(SwingPoints(w), w)
          = {[point |-> p, at |-> Min(touches(p))] :
               p \in {q \in SwingPoints(w) : /\ touches(q) # {}
                                             /\ ~Beyond(q.kind, w[Min(touches(q))].close, q.price)}}
    BY DEF Sweeps
  <2> HIDE DEF touches
  <2> QED
    BY <2>1
<1>2. p.index \in 1..Len(w) /\ Len(w) \in Nat /\ p.price \in Int
  BY PointShape, WindowType
<1>3. touches(p) \in SUBSET ((p.index + 1)..Len(w))
  BY DEF After
<1>4. s.at \in touches(p)
  <2>1. p.index + 1 \in Int /\ Len(w) \in Int
    BY <1>2
  <2>2. IsFiniteSet((p.index + 1)..Len(w)) /\ (p.index + 1)..Len(w) \in SUBSET Int
    BY <2>1, FS_Interval
  <2> HIDE DEF touches
  <2>3. IsFiniteSet(touches(p)) /\ touches(p) \in SUBSET Int
    BY <1>3, <2>2, FS_Subset
  <2> QED
    BY <1>1, <2>3, Extremes
<1>5. s.at \in 1..Len(w)
  BY <1>2, <1>3, <1>4
<1>6. /\ ~Beyond(p.kind, w[s.at].close, p.price)
      /\ Beyond(p.kind, Level(w[s.at], p.kind), p.price)
  BY <1>1, <1>4
<1>7. IsCandle(w[s.at])
  BY <1>5, WindowType
<1>8. w[s.at].high > w[s.at].low
  BY <1>2, <1>6, <1>7 DEF IsCandle, Beyond, Level
<1> QED
  BY <1>1, <1>5, <1>8

LEMMA BreakShape ==
    ASSUME NEW w, IsWindow(w), NEW b \in StructureBreaks(SwingPoints(w), w)
    PROVE  b.point \in SwingPoints(w) /\ b.at \in 1..Len(w)
<1> DEFINE through(p) == {i \in After(p, w) : Beyond(p.kind, w[i].close, p.price)}
<1>1. PICK p \in SwingPoints(w) : b.point = p /\ b.at = Min(through(p)) /\ through(p) # {}
  <2> DEFINE broken == {p \in SwingPoints(w) : through(p) # {}}
             earlier(p) == {q \in broken : Walked(q, p)}
             event(p) == IF earlier(p) # {} /\ LastWalked(earlier(p)).kind = p.kind THEN "bos" ELSE "choch"
  <2>1. StructureBreaks(SwingPoints(w), w)
          = {[event |-> event(p), point |-> p, at |-> Min(through(p))] : p \in broken}
    BY DEF StructureBreaks
  <2> HIDE DEF through, event
  <2> QED
    BY <2>1
<1>2. p.index \in 1..Len(w) /\ Len(w) \in Nat
  BY PointShape, WindowType
<1>3. through(p) \in SUBSET ((p.index + 1)..Len(w))
  BY DEF After
<1>4. b.at \in through(p)
  <2>1. p.index + 1 \in Int /\ Len(w) \in Int
    BY <1>2
  <2>2. IsFiniteSet((p.index + 1)..Len(w)) /\ (p.index + 1)..Len(w) \in SUBSET Int
    BY <2>1, FS_Interval
  <2> HIDE DEF through
  <2>3. IsFiniteSet(through(p)) /\ through(p) \in SUBSET Int
    BY <1>3, <2>2, FS_Subset
  <2> QED
    BY <1>1, <2>3, Extremes
<1> QED
  BY <1>1, <1>2, <1>3, <1>4

(* A leg runs between two candles of the window, from one with a range.       *)
LEMMA LegShape ==
    ASSUME NEW w, IsWindow(w), NEW bias,
           NEW leg \in Leg(bias, w, Sweeps(SwingPoints(w), w), StructureBreaks(SwingPoints(w), w))
    PROVE  /\ bias \in {"high", "low"}
           /\ leg.from \in 1..Len(w) /\ leg.to \in 1..Len(w) /\ leg.from < leg.to
           /\ leg.start = Level(w[leg.from], Other(bias)) /\ leg.start \in Int
           /\ leg.end = Level(w[leg.to], bias) /\ leg.end \in Int
           /\ w[leg.from].high > w[leg.from].low
<1> DEFINE sweeps == Sweeps(SwingPoints(w), w)
           breaks == StructureBreaks(SwingPoints(w), w)
           broken == {b \in breaks : b.point.kind = bias}
           break == Latest(broken)
           swept == {s \in sweeps : s.point.kind = Other(bias) /\ s.at < break.at}
           sweep == Latest(swept)
           tail == break.at..Len(w)
           ends == {i \in tail : \A j \in tail : ~Beyond(bias, Level(w[j], bias), Level(w[i], bias))}
           end == Min(ends)
<1>1. /\ broken # {} /\ swept # {}
      /\ leg.from = sweep.at /\ leg.to = end
      /\ leg.start = Level(w[sweep.at], Other(bias)) /\ leg.end = Level(w[end], bias)
  <2>1. Leg(bias, w, sweeps, breaks)
          = IF broken = {} \/ swept = {} THEN {}
            ELSE {[event |-> break.event, from |-> sweep.at, to |-> end,
                   start |-> Level(w[sweep.at], Other(bias)), end |-> Level(w[end], bias)]}
    BY DEF Leg
  <2> HIDE DEF sweeps, breaks, broken, swept, break, sweep, end
  <2> QED
    BY <2>1 DEF sweeps, breaks
<1>2. break \in broken /\ break.at \in 1..Len(w)
  <2>1. \A b \in broken : b.point \in SwingPoints(w) /\ b.at \in 1..Len(w)
    BY BreakShape
  <2> HIDE DEF broken
  <2> QED
    BY <1>1, <2>1, LatestIsOne
<1>0. bias \in {"high", "low"}
  <2>1. break.point.kind = bias /\ break.point \in SwingPoints(w)
    BY <1>2, BreakShape
  <2> QED
    BY <2>1, PointShape
<1> HIDE DEF break
<1>3. sweep \in swept
  <2>1. \A s \in swept : s.point \in SwingPoints(w)
    BY SweepShape
  <2> HIDE DEF swept
  <2> QED
    BY <1>1, <2>1, LatestIsOne
<1> HIDE DEF sweep
<1>4. sweep.at \in 1..Len(w) /\ sweep.at < break.at /\ w[sweep.at].high > w[sweep.at].low
  BY <1>3, SweepShape
<1>5. Len(w) \in Nat /\ \A i \in 1..Len(w) : \A kind : Level(w[i], kind) \in Int
  BY WindowType
<1>6. /\ tail \in SUBSET (1..Len(w)) /\ tail \in SUBSET Int /\ tail # {} /\ IsFiniteSet(tail)
      /\ \A i \in tail : break.at <= i
  <2>1. break.at \in Int /\ Len(w) \in Int /\ break.at <= Len(w) /\ 1 <= break.at
    BY <1>2, <1>5
  <2>2. IsFiniteSet(break.at..Len(w))
    BY <2>1, FS_Interval
  <2> QED
    BY <2>1, <2>2
<1>7. ends # {}
  <2> DEFINE R == {x \in tail \X tail : ~Beyond(bias, Level(w[x[2]], bias), Level(w[x[1]], bias))}
  <2>1. /\ \A i, j \in tail : <<i, j>> \in R \/ <<j, i>> \in R
        /\ \A i, j, k \in tail : <<i, j>> \in R /\ <<j, k>> \in R => <<i, k>> \in R
    <3>1. \A i \in tail : Level(w[i], bias) \in Int
      BY <1>5, <1>6
    <3> HIDE DEF tail
    <3> QED
      BY <3>1 DEF Beyond
  <2>2. \A i, j \in tail : <<i, j>> \in R => ~Beyond(bias, Level(w[j], bias), Level(w[i], bias))
    OBVIOUS
  <2> HIDE DEF R, tail
  <2>3. \E i \in tail : \A j \in tail : <<i, j>> \in R
    BY <1>6, <2>1, FirstElement
  <2> QED
    BY <2>2, <2>3
<1>8. end \in tail
  <2>1. ends \in SUBSET tail
    OBVIOUS
  <2> HIDE DEF ends, tail
  <2>2. IsFiniteSet(ends) /\ ends \in SUBSET Int
    BY <1>6, <2>1, FS_Subset
  <2> QED
    BY <1>7, <2>1, <2>2, Extremes
<1> HIDE DEF end
<1>9. end \in 1..Len(w) /\ break.at <= end
  BY <1>6, <1>8
<1> HIDE DEF broken, swept
<1>10. leg.from \in 1..Len(w) /\ leg.to \in 1..Len(w) /\ leg.from < leg.to
  BY <1>1, <1>2, <1>4, <1>5, <1>9
<1>11. leg.start \in Int /\ leg.end \in Int
  BY <1>1, <1>4, <1>5, <1>9
<1> QED
  BY <1>0, <1>1, <1>4, <1>10, <1>11

(* The stop is behind the swept candle: the averages count its own range, and *)
(* without them the price itself is the measure.                              *)
LEMMA AtrPositive ==
    ASSUME NEW w, IsWindow(w), NEW i \in 1..Len(w), HasAtr(i), w[i].high > w[i].low
    PROVE  AtrSum(w, i) \in Nat \ {0}
<1> DEFINE ranges == [j \in DOMAIN w |-> TrueRange(w, j)]
           S == (i - AtrPeriod + 1)..i
<1>1. AtrPeriod \in Nat \ {0} /\ i >= AtrPeriod /\ Len(w) \in Nat /\ DOMAIN w = 1..Len(w) /\ i \in Int
  BY PeriodsAssumption, WindowType DEF HasAtr
<1>2. ASSUME NEW j \in 1..Len(w)
      PROVE  TrueRange(w, j) \in Int /\ TrueRange(w, j) >= w[j].high - w[j].low /\ w[j].high - w[j].low \in Nat
  <2> DEFINE own == w[j].high - w[j].low
             up == Distance(w[j].high, w[j - 1].close)
             down == Distance(w[j].low, w[j - 1].close)
  <2>1. own \in Nat /\ w[j].high \in Int /\ w[j].low \in Int
    <3>1. IsCandle(w[j])
      BY WindowType
    <3> QED
      BY <3>1 DEF IsCandle
  <2>2. CASE j = 1
    <3>1. TrueRange(w, j) = own
      BY <2>2 DEF TrueRange
    <3> QED
      BY <2>1, <3>1
  <2>3. CASE j # 1
    <3>1. j - 1 \in 1..Len(w)
      BY <1>1, <2>3
    <3>2. w[j - 1].close \in Int
      BY <3>1, WindowType DEF IsCandle
    <3>3. up \in Int /\ down \in Int
      <4>1. \A a \in Int, b \in Int : Distance(a, b) \in Int
        BY DEF Distance
      <4> QED
        BY <2>1, <3>2, <4>1
    <3>4. TrueRange(w, j) = Max({own, up, down})
      BY <2>3 DEF TrueRange
    <3> HIDE DEF own, up, down
    <3>5. {own, up, down} \in SUBSET Int /\ own \in {own, up, down} /\ {own, up, down} # {}
      BY <2>1, <3>3
    <3>6. IsFiniteSet({own, up, down})
      <4>1. {own, up, down} = ({own} \union {up}) \union {down}
        OBVIOUS
      <4>2. IsFiniteSet({own}) /\ IsFiniteSet({up}) /\ IsFiniteSet({down})
        BY FS_Singleton
      <4>3. IsFiniteSet({own} \union {up})
        BY <4>2, FS_Union
      <4>4. IsFiniteSet(({own} \union {up}) \union {down})
        BY <4>2, <4>3, FS_Union
      <4> QED
        BY <4>1, <4>4
    <3>7. Max({own, up, down}) \in {own, up, down} /\ Max({own, up, down}) >= own
      BY <3>5, <3>6, Extremes
    <3>8. Max({own, up, down}) \in Int
      BY <3>5, <3>7
    <3> QED
      BY <2>1, <3>4, <3>7, <3>8 DEF own
  <2> QED
    BY <2>2, <2>3
<1>3. IsFiniteSet(S) /\ i \in S /\ S \in SUBSET (1..Len(w))
  <2>1. i - AtrPeriod + 1 \in Int /\ i \in Int /\ i - AtrPeriod + 1 <= i /\ i - AtrPeriod + 1 >= 1 /\ i <= Len(w)
    BY <1>1
  <2>2. IsFiniteSet((i - AtrPeriod + 1)..i)
    BY <2>1, FS_Interval
  <2> QED
    BY <1>1, <2>1, <2>2
<1>4. \A j \in 1..Len(w) : ranges[j] = TrueRange(w, j)
  BY <1>1
<1>5. \A j \in S : ranges[j] \in Nat
  <2> HIDE DEF ranges, S
  <2>1. \A j \in 1..Len(w) : TrueRange(w, j) \in Nat
    BY <1>2
  <2> QED
    BY <1>3, <1>4, <2>1
<1>6. Total(ranges, S) \in Nat /\ ranges[i] <= Total(ranges, S)
  <2> HIDE DEF ranges, S
  <2> QED
    BY <1>3, <1>5, TotalNat
<1>7. AtrSum(w, i) = Total(ranges, S)
  BY DEF AtrSum, Total
<1> HIDE DEF ranges, S
<1>8. ranges[i] > 0 /\ ranges[i] \in Int
  <2>1. w[i].high - w[i].low > 0
    BY WindowType DEF IsCandle
  <2> QED
    BY <1>2, <1>4, <2>1
<1> QED
  BY <1>6, <1>7, <1>8

LEMMA StopBehind ==
    ASSUME NEW w, IsWindow(w), NEW bias \in {"high", "low"}, NEW leg,
           leg.from \in 1..Len(w), w[leg.from].high > w[leg.from].low,
           leg.start \in Int, leg.start # 0
    PROVE  /\ Stop(bias, w, leg) \in Int
           /\ Beyond(Other(bias), Stop(bias, w, leg), Unit * leg.start)
<1> DEFINE buffer == IF HasAtr(leg.from) THEN (Unit \div (4 * AtrPeriod)) * AtrSum(w, leg.from)
                     ELSE (Unit \div 1000) * Distance(leg.start, 0)
<1>1. AtrPeriod \in Nat \ {0} /\ Unit = 2000 * AtrPeriod
  BY PeriodsAssumption DEF Unit
<1>2. Unit \div (4 * AtrPeriod) = 500 /\ Unit \div 1000 = 2 * AtrPeriod
  <2>1. (2000 * AtrPeriod) \div (4 * AtrPeriod) = 500
    BY <1>1
  <2>2. (2000 * AtrPeriod) \div 1000 = 2 * AtrPeriod
    BY <1>1
  <2> QED
    BY <1>1, <2>1, <2>2
<1>3. buffer \in Nat \ {0}
  <2>1. CASE HasAtr(leg.from)
    <3>1. AtrSum(w, leg.from) \in Nat \ {0}
      BY <2>1, AtrPositive
    <3>2. buffer = 500 * AtrSum(w, leg.from)
      BY <1>2, <2>1
    <3> QED
      BY <3>1, <3>2
  <2>2. CASE ~HasAtr(leg.from)
    <3>1. Distance(leg.start, 0) \in Nat \ {0}
      BY DEF Distance
    <3>2. \A a \in Nat \ {0}, b \in Nat \ {0} : a * b \in Nat \ {0}
      OBVIOUS
    <3>3. buffer = (2 * AtrPeriod) * Distance(leg.start, 0) /\ 2 * AtrPeriod \in Nat \ {0}
      BY <1>1, <1>2, <2>2
    <3> QED
      BY <3>1, <3>2, <3>3
  <2> QED
    BY <2>1, <2>2
<1>4. Stop(bias, w, leg) = IF bias = "high" THEN Unit * leg.start - buffer ELSE Unit * leg.start + buffer
  BY DEF Stop
<1> HIDE DEF buffer
<1>5. Unit * leg.start \in Int
  BY <1>1
<1> QED
  BY <1>3, <1>4, <1>5 DEF Beyond, Other

(* The smaller of two numbers.                                                *)
LEMMA MinOfTwo ==
    ASSUME NEW a \in Int, NEW b \in Int
    PROVE  Min({a, b}) = IF a < b THEN a ELSE b
<1>1. IsFiniteSet({a, b})
  <2>1. {a, b} = {a} \union {b}
    OBVIOUS
  <2>2. IsFiniteSet({a}) /\ IsFiniteSet({b})
    BY FS_Singleton
  <2> QED
    BY <2>1, <2>2, FS_Union
<1>2. {a, b} \in SUBSET Int /\ {a, b} # {} /\ a \in {a, b} /\ b \in {a, b}
  OBVIOUS
<1>3. Min({a, b}) \in {a, b} /\ Min({a, b}) <= a /\ Min({a, b}) <= b
  BY <1>1, <1>2, Extremes
<1> QED
  BY <1>3

(* The bounds of the OTE zone.                                                *)
LEMMA OteShape ==
    ASSUME NEW start \in Int, NEW end \in Int, NEW kind \in {"high", "low"}
    PROVE  /\ OteZone(start, end, kind).low \in Int /\ OteZone(start, end, kind).high \in Int
           /\ kind = "high" =>
                /\ OteZone(start, end, kind).low = Unit * end - 2 * AtrPeriod * (790 * Distance(start, end))
                /\ OteZone(start, end, kind).high = Unit * end - 2 * AtrPeriod * (705 * Distance(start, end))
           /\ kind = "low" =>
                /\ OteZone(start, end, kind).low = Unit * end + 2 * AtrPeriod * (705 * Distance(start, end))
                /\ OteZone(start, end, kind).high = Unit * end + 2 * AtrPeriod * (790 * Distance(start, end))
<1> DEFINE ote == OteZone(start, end, kind)
           d == Distance(start, end)
           back(ratio) == 2 * AtrPeriod * (ratio * d)
           price(ratio) == IF kind = "high" THEN Unit * end - back(ratio) ELSE Unit * end + back(ratio)
<1>1. AtrPeriod \in Nat \ {0} /\ Unit = 2000 * AtrPeriod /\ Unit \div 1000 = 2 * AtrPeriod /\ Unit * end \in Int
  <2>1. AtrPeriod \in Nat \ {0} /\ Unit = 2000 * AtrPeriod
    BY PeriodsAssumption DEF Unit
  <2>2. (2000 * AtrPeriod) \div 1000 = 2 * AtrPeriod
    BY <2>1
  <2> QED
    BY <2>1, <2>2
<1>2. d \in Nat
  BY DEF Distance
<1>3. /\ (Unit \div 1000) * 705 * d = back(705) /\ (Unit \div 1000) * 790 * d = back(790)
  <2> HIDE DEF d
  <2>1. \A a \in Int, b \in Int, c \in Int : (a * b) * c = a * (b * c)
    OBVIOUS
  <2> QED
    BY <1>1, <1>2, <2>1
<1>4. /\ ote.low = Min({price(705), price(790)})
      /\ ote.high = Max({price(705), price(790)})
  <2> DEFINE way(ratio) == (Unit \div 1000) * ratio * d
             at(ratio) == IF kind = "high" THEN Unit * end - way(ratio) ELSE Unit * end + way(ratio)
  <2>1. ote = [low |-> Min({at(705), at(790)}), high |-> Max({at(705), at(790)})]
    BY DEF OteZone
  <2>2. at(705) = price(705) /\ at(790) = price(790)
    BY <1>3
  <2> HIDE DEF ote, at, price
  <2> QED
    BY <2>1, <2>2
<1> HIDE DEF d
<1>5. back(705) \in Nat /\ back(790) \in Nat /\ back(705) <= back(790)
  <2>1. AtrPeriod * d \in Nat
    BY <1>1, <1>2
  <2>2. back(705) = 1410 * (AtrPeriod * d) /\ back(790) = 1580 * (AtrPeriod * d)
    BY <1>1, <1>2
  <2> QED
    BY <2>1, <2>2
<1> HIDE DEF back
<1>6. price(705) \in Int /\ price(790) \in Int
  BY <1>1, <1>5
<1>7. ASSUME NEW a \in Int, NEW b \in Int
      PROVE  Min({a, b}) = (IF a < b THEN a ELSE b) /\ Max({a, b}) = (IF a > b THEN a ELSE b)
  BY MinOfTwo, MaxOfTwo
<1>8. CASE kind = "high"
  <2>1. price(705) = Unit * end - back(705) /\ price(790) = Unit * end - back(790)
    BY <1>8
  <2> HIDE DEF price, ote
  <2>2. ote.low = price(790) /\ ote.high = price(705)
    BY <1>1, <1>4, <1>5, <1>6, <1>7, <2>1
  <2> QED
    BY <1>1, <1>5, <1>8, <2>1, <2>2 DEF ote, back, d
<1>9. CASE kind = "low"
  <2>1. price(705) = Unit * end + back(705) /\ price(790) = Unit * end + back(790)
    BY <1>9
  <2> HIDE DEF price, ote
  <2>2. ote.low = price(705) /\ ote.high = price(790)
    BY <1>1, <1>4, <1>5, <1>6, <1>7, <2>1
  <2> QED
    BY <1>1, <1>5, <1>9, <2>1, <2>2 DEF ote, back, d
<1> QED
  BY <1>8, <1>9

(* An order block or a gap is found at one place of the code's lists, and by  *)
(* its place it is known.                                                     *)
IsPoi(z) ==
    /\ z = [index |-> z.index, low |-> z.low, high |-> z.high, poi |-> z.poi, found |-> z.found]
    /\ z.low \in Int /\ z.high \in Int

LEMMA BlockShape ==
    ASSUME NEW w, IsWindow(w), NEW kind
    PROVE  /\ \A z \in OrderBlocks(w, kind) : IsPoi(z) /\ z.found \in 1..Len(w)
           /\ \A y, z \in OrderBlocks(w, kind) : y.found = z.found => y = z
<1> DEFINE opposing(i) == {j \in 1..(i - 1) : Closes(w[j], Other(kind))}
           block(i) == [index |-> Max(opposing(i)), low |-> w[Max(opposing(i))].low,
                        high |-> w[Max(opposing(i))].high, poi |-> "order_block", found |-> i]
           I == {i \in 2..Len(w) : Closes(w[i], kind) /\ opposing(i) # {} /\ Impulsive(w, i)}
<1>1. OrderBlocks(w, kind) = {block(i) : i \in I}
  BY DEF OrderBlocks
<1>2. Len(w) \in Nat
  BY WindowType
<1>3. ASSUME NEW i \in I PROVE Max(opposing(i)) \in 1..Len(w)
  <2>1. i \in Int /\ i - 1 \in Int /\ 1 \in Int /\ i <= Len(w) /\ opposing(i) # {}
    BY <1>2
  <2>2. opposing(i) \in SUBSET (1..(i - 1)) /\ IsFiniteSet(1..(i - 1))
    BY <2>1, FS_Interval
  <2> HIDE DEF opposing
  <2>3. opposing(i) \in SUBSET Int /\ IsFiniteSet(opposing(i))
    BY <2>2, FS_Subset
  <2>4. Max(opposing(i)) \in opposing(i)
    BY <2>1, <2>3, Extremes
  <2> QED
    BY <1>2, <2>1, <2>2, <2>4
<1>4. ASSUME NEW i \in I PROVE IsPoi(block(i)) /\ block(i).found = i /\ i \in 1..Len(w)
  <2>1. w[Max(opposing(i))].low \in Int /\ w[Max(opposing(i))].high \in Int
    <3>1. IsCandle(w[Max(opposing(i))])
      BY <1>3, WindowType
    <3> QED
      BY <3>1 DEF IsCandle
  <2>2. i \in 1..Len(w)
    BY <1>2
  <2> HIDE DEF opposing
  <2> QED
    BY <2>1, <2>2 DEF IsPoi
<1> HIDE DEF block, I
<1> QED
  BY <1>1, <1>4

LEMMA GapShape ==
    ASSUME NEW w, IsWindow(w), NEW kind
    PROVE  /\ \A z \in FairValueGaps(w, kind) : IsPoi(z) /\ z.found \in (Len(w) + 1)..(2 * Len(w))
           /\ \A y, z \in FairValueGaps(w, kind) : y.found = z.found => y = z
<1> DEFINE first(i) == Level(w[i - 2], kind)
           third(i) == Level(w[i], Other(kind))
           gap(i) == [index |-> i, low |-> Min({first(i), third(i)}), high |-> Max({first(i), third(i)}),
                      poi |-> "fair_value_gap", found |-> Len(w) + i]
           I == {i \in 3..Len(w) : Beyond(kind, third(i), first(i))}
<1>1. FairValueGaps(w, kind) = {gap(i) : i \in I}
  BY DEF FairValueGaps
<1>2. Len(w) \in Nat
  BY WindowType
<1>3. ASSUME NEW i \in I
      PROVE  IsPoi(gap(i)) /\ gap(i).found = Len(w) + i /\ i \in 1..Len(w)
  <2>1. i \in 1..Len(w) /\ i - 2 \in 1..Len(w)
    BY <1>2
  <2>2. first(i) \in Int /\ third(i) \in Int
    BY <2>1, WindowType
  <2> HIDE DEF first, third
  <2>3. Min({first(i), third(i)}) \in Int /\ Max({first(i), third(i)}) \in Int
    BY <2>2, MinOfTwo, MaxOfTwo
  <2> QED
    BY <2>1, <2>3 DEF IsPoi
<1> HIDE DEF gap, I
<1>4. \A i \in I : gap(i).found \in (Len(w) + 1)..(2 * Len(w))
  BY <1>2, <1>3
<1>5. \A i, j \in I : gap(i).found = gap(j).found => i = j
  BY <1>2, <1>3
<1> QED
  BY <1>1, <1>3, <1>4, <1>5

(* The zones of a leg lie in its OTE zone.                                    *)
LEMMA ZonesShape ==
    ASSUME NEW w, IsWindow(w), NEW bias \in {"high", "low"}, NEW leg,
           leg.start \in Int, leg.end \in Int
    PROVE  LET zones == Zones(bias, w, leg)
               ote == OteZone(leg.start, leg.end, bias)
           IN  /\ IsFiniteSet(zones)
               /\ \A z \in zones : /\ z.low \in Int /\ z.high \in Int /\ z.low < z.high
                                   /\ ote.low <= z.low /\ z.high <= ote.high
                                   /\ z.found \in 1..(2 * Len(w))
               /\ \A y, z \in zones : y.found = z.found => y = z
<1> DEFINE zones == Zones(bias, w, leg)
           ote == OteZone(leg.start, leg.end, bias)
           pois == OrderBlocks(w, bias) \union FairValueGaps(w, bias)
           candidates == {z \in pois : leg.from <= z.index /\ z.index <= leg.to}
           cut(z) == [z EXCEPT !.low = Max({Unit * z.low, ote.low}), !.high = Min({Unit * z.high, ote.high})]
<1>1. zones = {z \in {cut(c) : c \in candidates} : z.low < z.high}
  BY DEF Zones
<1>2. Len(w) \in Nat
  BY WindowType
<1>3. /\ \A z \in pois : IsPoi(z) /\ z.found \in 1..(2 * Len(w))
      /\ \A y, z \in pois : y.found = z.found => y = z
  <2>1. \A z \in OrderBlocks(w, bias) : IsPoi(z) /\ z.found \in 1..Len(w)
    BY BlockShape
  <2>2. \A z \in FairValueGaps(w, bias) : IsPoi(z) /\ z.found \in (Len(w) + 1)..(2 * Len(w))
    BY GapShape
  <2>3. \A z \in pois : IsPoi(z) /\ z.found \in 1..(2 * Len(w))
    BY <1>2, <2>1, <2>2
  <2>4. \A y, z \in OrderBlocks(w, bias) : y.found = z.found => y = z
    BY BlockShape
  <2>5. \A y, z \in FairValueGaps(w, bias) : y.found = z.found => y = z
    BY GapShape
  <2>6. \A y \in OrderBlocks(w, bias), z \in FairValueGaps(w, bias) : y.found # z.found
    BY <1>2, <2>1, <2>2
  <2> QED
    BY <2>3, <2>4, <2>5, <2>6
<1>4. ote.low \in Int /\ ote.high \in Int
  BY OteShape
<1> HIDE DEF ote, pois
<1>5. ASSUME NEW c \in candidates
      PROVE  /\ cut(c).found = c.found
             /\ cut(c).low \in Int /\ cut(c).high \in Int
             /\ ote.low <= cut(c).low /\ cut(c).high <= ote.high
  <2>1. IsPoi(c)
    BY <1>3
  <2>2. Unit * c.low \in Int /\ Unit * c.high \in Int
    <3>1. Unit \in Int
      BY PeriodsAssumption DEF Unit
    <3> QED
      BY <2>1, <3>1 DEF IsPoi
  <2>3. /\ cut(c).found = c.found
        /\ cut(c).low = Max({Unit * c.low, ote.low})
        /\ cut(c).high = Min({Unit * c.high, ote.high})
    BY <2>1 DEF IsPoi
  <2> HIDE DEF cut
  <2>4. Max({Unit * c.low, ote.low}) \in Int /\ ote.low <= Max({Unit * c.low, ote.low})
    BY <1>4, <2>2, MaxOfTwo
  <2>5. Min({Unit * c.high, ote.high}) \in Int /\ Min({Unit * c.high, ote.high}) <= ote.high
    BY <1>4, <2>2, MinOfTwo
  <2> QED
    BY <2>3, <2>4, <2>5
<1>6. \A z \in zones : \E c \in candidates : z = cut(c)
  BY <1>1
<1> HIDE DEF cut
<1>7. \A z \in zones : /\ z.low \in Int /\ z.high \in Int /\ z.low < z.high
                       /\ ote.low <= z.low /\ z.high <= ote.high
                       /\ z.found \in 1..(2 * Len(w))
  BY <1>1, <1>3, <1>5, <1>6
<1>8. \A y, z \in zones : y.found = z.found => y = z
  BY <1>3, <1>5, <1>6
<1> HIDE DEF zones
<1>9. IsFiniteSet(zones)
  <2> DEFINE S == {n \in 1..(2 * Len(w)) : \E z \in zones : z.found = n}
             f == [n \in S |-> CHOOSE z \in zones : z.found = n]
  <2>1. IsFiniteSet(S)
    <3>1. 1 \in Int /\ 2 * Len(w) \in Int
      BY <1>2
    <3>2. IsFiniteSet(1..(2 * Len(w)))
      BY <3>1, FS_Interval
    <3> QED
      BY <3>2, FS_Subset
  <2>2. f \in [S -> zones]
    OBVIOUS
  <2>3. \A z \in zones : z.found \in S /\ f[z.found] = z
    BY <1>7, <1>8
  <2>4. zones \subseteq {f[n] : n \in S}
    <3> HIDE DEF f, S
    <3> QED
      BY <2>3
  <2> HIDE DEF f, S
  <2> QED
    BY <2>1, <2>2, <2>4, ImageFinite
<1> QED
  BY <1>7, <1>8, <1>9 DEF zones, ote

(* One of the zones is the best.                                              *)
LEMMA BestIsOne ==
    ASSUME NEW w, IsWindow(w), NEW bias \in {"high", "low"}, NEW leg,
           leg.start \in Int, leg.end \in Int,
           leg.from \in 1..Len(w), leg.to \in 1..Len(w),
           Zones(bias, w, leg) # {}
    PROVE  BestZone(Zones(bias, w, leg), SubSeq(w, leg.from, leg.to)) \in Zones(bias, w, leg)
<1> DEFINE zones == Zones(bias, w, leg)
           traded == SubSeq(w, leg.from, leg.to)
           away(z) == Distance(BinCount * (z.low + z.high), Unit * PocPrice(traded))
           better(z, y) == \/ z = y
                           \/ HasProfile(traded) /\ away(z) < away(y)
                           \/ (HasProfile(traded) => away(z) = away(y)) /\ z.found < y.found
<1>1. /\ IsFiniteSet(zones)
      /\ \A z \in zones : z.low \in Int /\ z.high \in Int /\ z.found \in Int
      /\ \A y, z \in zones : y.found = z.found => y = z
  <2>1. \A n \in 1..(2 * Len(w)) : n \in Int
    OBVIOUS
  <2> QED
    BY <2>1, ZonesShape
<1>2. ASSUME HasProfile(traded), NEW z \in zones PROVE away(z) \in Int
  <2>1. IsWindow(traded)
    BY StretchWindow, WindowType
  <2>2. traded # <<>>
    BY <1>2 DEF HasProfile
  <2> HIDE DEF traded, zones
  <2>3. PocPrice(traded) \in Int
    <3>1. RangeLow(traded) \in Int /\ RangeHigh(traded) \in Int
      BY <2>1, <2>2, RangeShape
    <3>2. PocBin(Profile(traded)) \in Bins
      BY <1>2, <2>1, ProfileShape, PocShape
    <3>3. PocBin(Profile(traded)) \in Int /\ BinCount \in Int
      BY <3>2, BinsAssumption DEF Bins
    <3> QED
      BY <3>1, <3>3 DEF PocPrice
  <2>4. \A a \in Int, b \in Int : Distance(a, b) \in Int
    BY DEF Distance
  <2>5. BinCount * (z.low + z.high) \in Int /\ Unit * PocPrice(traded) \in Int
    <3>1. BinCount \in Int /\ Unit \in Int
      BY BinsAssumption, PeriodsAssumption DEF Unit
    <3> QED
      BY <1>1, <2>3, <3>1
  <2> QED
    BY <2>4, <2>5
<1> HIDE DEF zones, traded, away
<1> DEFINE R == {x \in zones \X zones : better(x[1], x[2])}
<1>3. /\ \A y, z \in zones : <<y, z>> \in R \/ <<z, y>> \in R
      /\ \A x, y, z \in zones : <<x, y>> \in R /\ <<y, z>> \in R => <<x, z>> \in R
  <2>1. \A y, z \in zones : better(y, z) \/ better(z, y)
    <3>1. CASE HasProfile(traded)
      BY <1>1, <1>2, <3>1
    <3>2. CASE ~HasProfile(traded)
      BY <1>1, <3>2
    <3> QED
      BY <3>1, <3>2
  <2>2. \A x, y, z \in zones : better(x, y) /\ better(y, z) => better(x, z)
    <3>1. CASE HasProfile(traded)
      BY <1>1, <1>2, <3>1
    <3>2. CASE ~HasProfile(traded)
      BY <1>1, <3>2
    <3> QED
      BY <3>1, <3>2
  <2> QED
    BY <2>1, <2>2
<1>4. \A y, z \in zones : <<y, z>> \in R => better(y, z)
  OBVIOUS
<1> HIDE DEF R
<1>5. \E z \in zones : \A y \in zones : <<z, y>> \in R
  <2>1. zones # {}
    BY DEF zones
  <2> QED
    BY <1>1, <1>3, <2>1, FirstElement
<1>6. \E z \in zones : \A y \in zones : better(z, y)
  BY <1>4, <1>5
<1>7. BestZone(zones, traded) = CHOOSE z \in zones : \A y \in zones : better(z, y)
  BY DEF BestZone, away
<1> HIDE DEF better
<1>8. BestZone(zones, traded) \in zones
  BY <1>6, <1>7
<1> QED
  BY <1>8 DEF zones, traded

(* What EntryInsideLeg asks of a signal.                                      *)
InsideLeg(s) ==
    LET sign == IF s.bias = "high" THEN 1 ELSE -1
        length == sign * (s.leg.end - s.leg.start)
        back(price) == sign * (Unit * s.leg.end - price)
    IN  length > 0 =>
            /\ s.low < s.high
            /\ \A price \in {s.low, s.high} :
                  /\ 705 * Unit * length <= 1000 * back(price)
                  /\ 1000 * back(price) <= 790 * Unit * length
                  /\ Beyond(s.bias, s.target, price)
            /\ Beyond(Other(s.bias), s.stop, Unit * s.leg.start)
            /\ 10 * sign * (2 * s.target - Middle(s)) >= 18 * sign * (Middle(s) - 2 * s.stop)

Positive(w) == \A i \in DOMAIN w : w[i].low > 0

(* What a setup is made of.                                                   *)
LEMMA SetupParts ==
    ASSUME NEW w, IsWindow(w), Positive(w), NEW bias, NEW s \in Setup(bias, w)
    PROVE  /\ bias \in {"high", "low"} /\ s.bias = bias
           /\ s.leg.start \in Int /\ s.leg.end \in Int
           /\ s.low \in Int /\ s.high \in Int /\ s.low < s.high
           /\ OteZone(s.leg.start, s.leg.end, bias).low <= s.low
           /\ s.high <= OteZone(s.leg.start, s.leg.end, bias).high
           /\ s.stop \in Int /\ Beyond(Other(bias), s.stop, Unit * s.leg.start)
           /\ s.target \in Int /\ Beyond(bias, s.target, IF bias = "high" THEN s.high ELSE s.low)
<1> DEFINE points == SwingPoints(w)
           sweeps == Sweeps(points, w)
           breaks == StructureBreaks(points, w)
           weak == WeakPoints(points, sweeps, breaks)
           best(leg, zones) == Some(zones, BestZone(zones, SubSeq(w, leg.from, leg.to)))
           with(leg, z) ==
             {[bias |-> bias, leg |-> leg, low |-> z.low, high |-> z.high,
               stop |-> Stop(bias, w, leg), target |-> Unit * x, after |-> w[leg.to].at] :
                 x \in Targets(bias, weak, z)}
           legs == Leg(bias, w, sweeps, breaks)
<1>1. PICK leg \in legs : s \in UNION {with(leg, z) : z \in best(leg, Zones(bias, w, leg))}
  <2>1. Setup(bias, w) = UNION {UNION {with(l, z) : z \in best(l, Zones(bias, w, l))} : l \in legs}
    BY DEF Setup
  <2> HIDE DEF with, best, legs
  <2> QED
    BY <2>1
<1>0. PICK z \in best(leg, Zones(bias, w, leg)) : s \in with(leg, z)
  <2> HIDE DEF with, best, legs
  <2> QED
    BY <1>1
<1>2. PICK x \in Targets(bias, weak, z) :
        /\ s.bias = bias /\ s.leg = leg /\ s.low = z.low /\ s.high = z.high
        /\ s.stop = Stop(bias, w, leg) /\ s.target = Unit * x
  <2> HIDE DEF weak, legs, best
  <2> QED
    BY <1>0
<1>3. /\ bias \in {"high", "low"}
      /\ leg.from \in 1..Len(w) /\ leg.to \in 1..Len(w)
      /\ leg.start = Level(w[leg.from], Other(bias)) /\ leg.start \in Int /\ leg.end \in Int
      /\ w[leg.from].high > w[leg.from].low
  <2>1. leg \in Leg(bias, w, Sweeps(SwingPoints(w), w), StructureBreaks(SwingPoints(w), w))
    OBVIOUS
  <2> HIDE DEF legs, best, with
  <2> QED
    BY <2>1, LegShape
<1>4. z \in Zones(bias, w, leg)
  <2> HIDE DEF legs, with
  <2>1. z = BestZone(Zones(bias, w, leg), SubSeq(w, leg.from, leg.to)) /\ Zones(bias, w, leg) # {}
    BY DEF Some
  <2> QED
    BY <1>3, <2>1, BestIsOne
<1> HIDE DEF legs, best, with, weak
<1>5. /\ z.low \in Int /\ z.high \in Int /\ z.low < z.high
      /\ OteZone(leg.start, leg.end, bias).low <= z.low
      /\ z.high <= OteZone(leg.start, leg.end, bias).high
  BY <1>3, <1>4, ZonesShape
<1>6. s.stop \in Int /\ Beyond(Other(bias), s.stop, Unit * leg.start)
  <2>1. leg.start # 0
    <3>1. w[leg.from].low > 0 /\ w[leg.from].low \in Int /\ w[leg.from].high \in Int
      BY <1>3, WindowType DEF Positive, IsCandle
    <3> QED
      BY <1>3, <3>1 DEF Level
  <2> QED
    BY <1>2, <1>3, <2>1, StopBehind
<1>7. s.target \in Int /\ Beyond(bias, s.target, IF bias = "high" THEN z.high ELSE z.low)
  <2> DEFINE edge == IF bias = "high" THEN z.high ELSE z.low
             facing == {q \in weak : q.kind = bias /\ Beyond(bias, Unit * q.price, edge)}
             beyond == {q.price : q \in facing}
  <2>1. facing \in SUBSET points
    BY DEF WeakPoints, weak
  <2>2. IsFiniteSet(points) /\ \A q \in points : q.price \in Int
    BY PointsType
  <2> HIDE DEF facing, points
  <2>3. IsFiniteSet(facing)
    BY <2>1, <2>2, FS_Subset
  <2>4. IsFiniteSet(beyond)
    <3> DEFINE f == [q \in facing |-> q.price]
    <3>1. f \in [facing -> beyond] /\ beyond \subseteq {f[q] : q \in facing}
      OBVIOUS
    <3> HIDE DEF f, beyond
    <3> QED
      BY <2>3, <3>1, ImageFinite
  <2>5. beyond \in SUBSET Int
    BY <2>1, <2>2
  <2>6. beyond # {} /\ (x = Min(beyond) \/ x = Max(beyond))
    BY <1>2 DEF Targets, Some, facing
  <2>7. x \in beyond
    <3> HIDE DEF beyond
    <3> QED
      BY <2>4, <2>5, <2>6, Extremes
  <2>8. x \in Int /\ Beyond(bias, Unit * x, edge)
    <3> HIDE DEF edge
    <3> QED
      BY <2>5, <2>7 DEF facing
  <2>9. Unit \in Int
    BY PeriodsAssumption DEF Unit
  <2> QED
    BY <1>2, <2>8, <2>9
<1> QED
  BY <1>2, <1>3, <1>5, <1>6, <1>7

(* The arithmetic of the entry zone and of the reward.                        *)
LEMMA SetupInside ==
    ASSUME NEW w, IsWindow(w), Positive(w), NEW bias, NEW s \in Setup(bias, w), WorthIt(s)
    PROVE  InsideLeg(s)
<1> DEFINE sign == IF s.bias = "high" THEN 1 ELSE -1
           length == sign * (s.leg.end - s.leg.start)
           back(price) == sign * (Unit * s.leg.end - price)
           ote == OteZone(s.leg.start, s.leg.end, bias)
           part == AtrPeriod * length
<1>1. /\ bias \in {"high", "low"} /\ s.bias = bias
      /\ s.leg.start \in Int /\ s.leg.end \in Int
      /\ s.low \in Int /\ s.high \in Int /\ s.low < s.high
      /\ ote.low <= s.low /\ s.high <= ote.high
      /\ s.stop \in Int /\ Beyond(Other(bias), s.stop, Unit * s.leg.start)
      /\ s.target \in Int /\ Beyond(bias, s.target, IF bias = "high" THEN s.high ELSE s.low)
  BY SetupParts
<1>2. SUFFICES ASSUME length > 0
               PROVE  /\ \A price \in {s.low, s.high} :
                            /\ 705 * Unit * length <= 1000 * back(price)
                            /\ 1000 * back(price) <= 790 * Unit * length
                            /\ Beyond(s.bias, s.target, price)
                      /\ 10 * sign * (2 * s.target - Middle(s)) >= 18 * sign * (Middle(s) - 2 * s.stop)
  BY <1>1 DEF InsideLeg
<1>3. AtrPeriod \in Nat \ {0} /\ Unit = 2000 * AtrPeriod /\ Unit * s.leg.end \in Int
  BY <1>1, PeriodsAssumption DEF Unit
<1>4. length = Distance(s.leg.start, s.leg.end) /\ length \in Nat
  BY <1>1, <1>2 DEF Distance
<1>5. part \in Nat
  BY <1>3, <1>4
<1>6. /\ ote.low \in Int /\ ote.high \in Int
      /\ bias = "high" => /\ ote.low = Unit * s.leg.end - 2 * AtrPeriod * (790 * length)
                          /\ ote.high = Unit * s.leg.end - 2 * AtrPeriod * (705 * length)
      /\ bias = "low" => /\ ote.low = Unit * s.leg.end + 2 * AtrPeriod * (705 * length)
                         /\ ote.high = Unit * s.leg.end + 2 * AtrPeriod * (790 * length)
  <2> DEFINE start == s.leg.start
             end == s.leg.end
             d == Distance(start, end)
  <2>1. /\ ote.low \in Int /\ ote.high \in Int
        /\ bias = "high" => /\ ote.low = Unit * end - 2 * AtrPeriod * (790 * d)
                            /\ ote.high = Unit * end - 2 * AtrPeriod * (705 * d)
        /\ bias = "low" => /\ ote.low = Unit * end + 2 * AtrPeriod * (705 * d)
                           /\ ote.high = Unit * end + 2 * AtrPeriod * (790 * d)
    <3>1. start \in Int /\ end \in Int /\ bias \in {"high", "low"} /\ ote = OteZone(start, end, bias)
      BY <1>1
    <3> HIDE DEF ote, start, end
    <3> QED
      BY <3>1, OteShape
  <2>2. length = d
    BY <1>4
  <2> HIDE DEF length, ote, d
  <2> QED
    BY <2>1, <2>2
<1> HIDE DEF ote
<1>7. /\ 2 * AtrPeriod * (790 * length) = 1580 * part /\ 2 * AtrPeriod * (705 * length) = 1410 * part
      /\ 705 * Unit * length = 1410000 * part /\ 790 * Unit * length = 1580000 * part
  <2> HIDE DEF length
  <2> QED
    BY <1>3, <1>4
<1> HIDE DEF length, part
<1>8. ASSUME NEW price \in {s.low, s.high}
      PROVE  /\ 705 * Unit * length <= 1000 * back(price)
             /\ 1000 * back(price) <= 790 * Unit * length
             /\ Beyond(s.bias, s.target, price)
  <2>1. price \in Int /\ s.low <= price /\ price <= s.high
    BY <1>1
  <2>2. CASE bias = "high"
    <3>1. back(price) = Unit * s.leg.end - price
      BY <1>1, <1>3, <2>1, <2>2
    <3> HIDE DEF back
    <3>2. 1410 * part <= back(price) /\ back(price) <= 1580 * part /\ back(price) \in Int
      BY <1>1, <1>3, <1>5, <1>6, <1>7, <2>1, <2>2, <3>1
    <3>3. Beyond(s.bias, s.target, price)
      BY <1>1, <2>1, <2>2 DEF Beyond
    <3> QED
      BY <1>5, <1>7, <3>2, <3>3
  <2>3. CASE bias = "low"
    <3>1. back(price) = price - Unit * s.leg.end
      BY <1>1, <1>3, <2>1, <2>3
    <3> HIDE DEF back
    <3>2. 1410 * part <= back(price) /\ back(price) <= 1580 * part /\ back(price) \in Int
      BY <1>1, <1>3, <1>5, <1>6, <1>7, <2>1, <2>3, <3>1
    <3>3. Beyond(s.bias, s.target, price)
      BY <1>1, <2>1, <2>3 DEF Beyond
    <3> QED
      BY <1>5, <1>7, <3>2, <3>3
  <2> QED
    BY <1>1, <2>2, <2>3
<1>9. 10 * sign * (2 * s.target - Middle(s)) >= 18 * sign * (Middle(s) - 2 * s.stop)
  <2>1. Middle(s) \in Int /\ 2 * s.target \in Int /\ 2 * s.stop \in Int
    BY <1>1 DEF Middle
  <2>2. Reward(s) = sign * (2 * s.target - Middle(s))
    BY <1>1, <2>1 DEF Reward
  <2>3. Risk(s) >= sign * (Middle(s) - 2 * s.stop) /\ Risk(s) \in Int
    BY <1>1, <2>1 DEF Risk, Distance
  <2>4. 5 * Reward(s) >= 9 * Risk(s)
    BY DEF WorthIt
  <2>5. CASE bias = "high"
    <3>1. sign = 1
      BY <1>1, <2>5
    <3> HIDE DEF sign
    <3> QED
      BY <2>1, <2>2, <2>3, <2>4, <3>1
  <2>6. CASE bias = "low"
    <3>1. sign = -1
      BY <1>1, <2>6
    <3> HIDE DEF sign
    <3> QED
      BY <2>1, <2>2, <2>3, <2>4, <3>1
  <2> QED
    BY <1>1, <2>5, <2>6
<1> QED
  BY <1>8, <1>9

(* After a candle of a signal walk the ledger is the one before, graded, and  *)
(* at most one signal that is worth its risk, of a setup of the hourly window *)
(* of that candle.                                                            *)
LEMMA WalkAdds ==
    ASSUME BlindInv, TapInv, WalkSignal, NEW k \in DOMAIN ledger'
    PROVE  \/ k \in DOMAIN ledger /\ ledger'[k].setup = ledger[k].setup
           \/ \E bias : ledger'[k].setup \in {s \in Setup(bias, AsOf(history.h1, walked + 1, Window1h)) : WorthIt(s)}
<1>1. PICK shape \in Candles15 :
        LET c == [shape EXCEPT !.at = walked + 1]
            fine == Slice(Append(history.fine, c), Len(history.fine) + 1, Window15)
            graded == Graded(ledger, c)
            opened == IF HasOpen(graded) THEN {} ELSE Opened(history, fine, graded, c)
        IN  /\ history' = [history EXCEPT !.fine = fine]
            /\ ledger' = graded \o SetToSeq(opened)
  BY DEF WalkSignal
<1> DEFINE c == [shape EXCEPT !.at = walked + 1]
           fine == Slice(Append(history.fine, c), Len(history.fine) + 1, Window15)
           graded == Graded(ledger, c)
           opened == IF HasOpen(graded) THEN {} ELSE Opened(history, fine, graded, c)
           n == Len(ledger)
           hourly == AsOf(history.h1, walked + 1, Window1h)
<1>2. c.at = walked + 1
  BY CandlesAssumption DEF IsCandle
<1>3. ledger' = graded \o SetToSeq(opened)
  BY <1>1
<1> HIDE DEF c, fine
<1>4. /\ n \in Nat /\ DOMAIN ledger = 1..n
      /\ graded \in Seq(Range(graded)) /\ Len(graded) = n
      /\ \A i \in 1..n : graded[i].setup = ledger[i].setup
  <2>1. ledger \in Seq(Range(ledger)) /\ \A i \in 1..n : IsEntry(ledger[i])
    BY DEF TapInv, LedgerOK
  <2>2. n \in Nat /\ DOMAIN ledger = 1..n
    BY <2>1, LenProperties
  <2> QED
    BY <2>1, <2>2, GradedShape
<1>5. ASSUME NEW e \in opened
      PROVE  \E bias : e.setup \in {s \in Setup(bias, hourly) : WorthIt(s)}
  <2>1. e \in Opened(history, fine, graded, c)
    OBVIOUS
  <2> HIDE DEF graded, opened
  <2>2. PICK w4h : e \in BuildSignal(w4h, Seen1h(history, c), fine, Eligible(fine, UsedTap(graded)))
    BY <2>1 DEF Opened
  <2>3. PICK s : /\ s \in UNION {Setup(bias, Seen1h(history, c)) : bias \in Bias(w4h)}
                 /\ WorthIt(s) /\ e.setup = s
    BY <2>2 DEF BuildSignal
  <2>4. Seen1h(history, c) = hourly
    BY <1>2 DEF Seen1h
  <2> HIDE DEF hourly
  <2>5. PICK bias : s \in Setup(bias, hourly)
    BY <2>3, <2>4
  <2> QED
    BY <2>3, <2>5
<1>6. \A x, y \in opened : x = y
  <2> HIDE DEF graded
  <2> QED
    BY BuiltOnce DEF Opened
<1> HIDE DEF opened, graded, hourly
<1>7. CASE opened = {} /\ SetToSeq(opened) = <<>>
  <2>1. ledger' = graded
    BY <1>3, <1>4, <1>7, ConcatEmptySeq
  <2>2. DOMAIN graded = 1..n
    BY <1>4, LenProperties
  <2> QED
    BY <1>4, <2>1, <2>2
<1>8. ASSUME NEW e \in opened, SetToSeq(opened) = <<e>>
      PROVE  \/ k \in DOMAIN ledger /\ ledger'[k].setup = ledger[k].setup
             \/ ledger'[k] = e
  <2> DEFINE S == Range(graded) \union {e}
  <2>1. graded \in Seq(S) /\ <<e>> \in Seq(S) /\ Len(<<e>>) = 1 /\ <<e>>[1] = e
    BY <1>4, SeqMonotonic
  <2>2. /\ graded \o <<e>> \in Seq(S) /\ Len(graded \o <<e>>) = n + 1
        /\ \A i \in 1..(n + 1) : (graded \o <<e>>)[i] = IF i <= n THEN graded[i] ELSE <<e>>[i - n]
    <3> HIDE DEF S
    <3> QED
      BY <1>4, <2>1, ConcatProperties
  <2>3. ledger' = graded \o <<e>>
    BY <1>3, <1>8
  <2>4. DOMAIN ledger' = 1..(n + 1)
    BY <2>2, <2>3, LenProperties
  <2>5. CASE k <= n
    <3>1. k \in 1..n /\ ledger'[k] = graded[k]
      BY <1>4, <2>2, <2>3, <2>4, <2>5
    <3> QED
      BY <1>4, <3>1
  <2>6. CASE ~(k <= n)
    <3>1. k = n + 1 /\ k - n = 1 /\ k \in 1..(n + 1)
      BY <1>4, <2>4, <2>6
    <3> QED
      BY <2>1, <2>2, <2>3, <2>6, <3>1
  <2> QED
    BY <1>4, <2>4, <2>5, <2>6
<1> QED
  BY <1>5, <1>6, <1>7, <1>8, SequenceOfOne DEF hourly

(* Prices are above zero, as quotes of a market are.                          *)
PositivePrices == \A h \in Histories1h : Positive(h)

HistoryPositive == Positive(history.h1)

LEMMA PositiveAlways == ASSUME PositivePrices PROVE Spec => []HistoryPositive
<1>1. Positive(<<>>)
  BY DEF Positive
<1>2. Init => HistoryPositive
  BY <1>1 DEF Init, CliInit, HistoryPositive, NoHistory
<1>3. BlindInv /\ HistoryPositive /\ [Next]_vars => HistoryPositive'
  <2> SUFFICES ASSUME BlindInv, HistoryPositive, [Next]_vars PROVE HistoryPositive'
    OBVIOUS
  <2>1. CASE Fetch1h
    <3>1. PICK h \in Histories1h : history' = [history EXCEPT !.h1 = h]
      BY <2>1 DEF Fetch1h
    <3>2. history'.h1 = h
      BY <3>1 DEF BlindInv, WalkTyped
    <3> QED
      BY <3>2 DEF HistoryPositive, PositivePrices
  <2>2. CASE Persist
    BY <1>1, <2>2 DEF Persist, HistoryPositive, NoHistory
  <2>3. CASE history'.h1 = history.h1
    BY <2>3 DEF HistoryPositive
  <2>4. CASE Fetch4h \/ FetchFine \/ WalkSignal
    <3>1. history'.h1 = history.h1
      BY <2>4 DEF Fetch4h, FetchFine, WalkSignal, BlindInv, WalkTyped
    <3> QED
      BY <2>3, <3>1
  <2> QED
    BY <2>1, <2>2, <2>3, <2>4
    DEF Next, CliNext, FetchFails, PersistFails, WalkPrediction, vars, cvars
<1> QED
  BY <1>2, <1>3, BlindAlways, PTL DEF Spec

(* So are those of the part of a history that has been seen.                  *)
LEMMA SeenPositive ==
    ASSUME NEW h, IsWindow(h), Positive(h), NEW time, NEW n \in Nat
    PROVE  Positive(AsOf(h, time, n))
<1> DEFINE seen == AsOf(h, time, n)
<1>1. Len(h) \in Nat /\ DOMAIN h = 1..Len(h) /\ h \in Seq(Range(h))
  BY WindowType DEF IsWindow
<1>2. \A c \in Range(h) : c.low > 0
  BY DEF Positive, Range
<1>3. seen \in Seq(Range(h))
  BY AsOfWindow
<1> HIDE DEF seen
<1>4. \A i \in DOMAIN seen : seen[i] \in Range(h)
  <2>1. DOMAIN seen = 1..Len(seen)
    BY <1>3, LenProperties
  <2> QED
    BY <1>3, <2>1, ElementOfSeq
<1> QED
  BY <1>2, <1>4 DEF Positive, seen

EntryInv == \A i \in DOMAIN ledger : InsideLeg(ledger[i].setup)

(* Where prices are above zero, every signal of a backtest whose leg runs in  *)
(* the direction of the trade enters 70.5 to 79 percent back into the leg,    *)
(* with its stop behind the swept candle, its target beyond the zone and 1.8  *)
(* times the risk to win (prediction/signal_builder.py, _find_setup,          *)
(* _compute_stop, _find_target, _assemble_signal).                            *)
THEOREM EntriesInsideLegs == ASSUME PositivePrices PROVE Spec => []EntryInsideLeg
<1>1. Init => EntryInv
  BY DEF Init, CliInit, EntryInv
<1>2. BlindInv /\ TapInv /\ TargetInv /\ HistoryPositive /\ EntryInv /\ [Next]_vars => EntryInv'
  <2> SUFFICES ASSUME BlindInv, TapInv, TargetInv, HistoryPositive, EntryInv, [Next]_vars PROVE EntryInv'
    OBVIOUS
  <2>1. CASE WalkSignal
    <3> SUFFICES ASSUME NEW k \in DOMAIN ledger' PROVE InsideLeg(ledger'[k].setup)
      BY DEF EntryInv
    <3> DEFINE hourly == AsOf(history.h1, walked + 1, Window1h)
               s == ledger'[k].setup
    <3>1. \/ k \in DOMAIN ledger /\ s = ledger[k].setup
          \/ \E bias : s \in {x \in Setup(bias, hourly) : WorthIt(x)}
      BY <2>1, WalkAdds
    <3>2. IsWindow(hourly) /\ Positive(hourly)
      BY AsOfWindow, SeenPositive, WindowsAssumption DEF TargetInv, HistoryPositive
    <3> HIDE DEF hourly, s
    <3>3. ASSUME NEW bias, s \in {x \in Setup(bias, hourly) : WorthIt(x)} PROVE InsideLeg(s)
      BY <3>2, <3>3, SetupInside
    <3>4. k \in DOMAIN ledger => InsideLeg(ledger[k].setup)
      BY DEF EntryInv
    <3> QED
      BY <3>1, <3>3, <3>4 DEF s
  <2>2. CASE ledger' = <<>>
    BY <2>2 DEF EntryInv
  <2>3. CASE ledger' = ledger
    BY <2>3 DEF EntryInv
  <2> QED
    BY <2>1, <2>2, <2>3
    DEF Next, CliNext, Fetch4h, Fetch1h, FetchFine, FetchFails, WalkPrediction, Persist, PersistFails, vars, cvars
<1>3. EntryInv => EntryInsideLeg
  BY DEF EntryInv, InsideLeg, EntryInsideLeg
<1> QED
  BY <1>1, <1>2, <1>3, BlindAlways, TapsAlways, TargetsAlways, PositiveAlways, PTL DEF Spec
=============================================================================
