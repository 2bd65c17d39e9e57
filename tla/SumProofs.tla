------------------------------ MODULE SumProofs ------------------------------
(***************************************************************************)
(* Facts about the recursive definitions of the community modules that the *)
(* models use: SumFunction and SumFunctionOnSet, the fold of a sequence or *)
(* a set of operators, and recursion on the naturals.  None of them can    *)
(* cite an induction theorem, whose predicate is a parameter: each argues  *)
(* about a least counterexample, or first shows that a function with the   *)
(* recursive equation exists, so that the CHOOSE behind the definition     *)
(* denotes it.                                                             *)
(***************************************************************************)
EXTENDS Integers, Sequences, Functions, FiniteSets, FiniteSetTheorems,
        FunctionTheorems, NaturalsInduction, WellFoundedInduction, TLAPS

(* The element that a fold of a set takes first.                           *)
OneOf(s) == CHOOSE x \in s : TRUE

(* One step of the recursion of a sum over s, given the sums of smaller sets.*)
SumStep(f, g, s) == IF s = {} THEN 0 ELSE f[OneOf(s)] + g[s \ {OneOf(s)}]

(* g gives every set of D the sum of f over it.                            *)
IsSumOn(f, g, D) == g = [s \in D |-> SumStep(f, g, s)]

(* The function that the fold's definition chooses.                        *)
PartialSums(f, S) == CHOOSE g : IsSumOn(f, g, SUBSET S)

(* The subsets of S of at most n elements.                                 *)
UpTo(S, n) == {s \in SUBSET S : Cardinality(s) <= n}

-----------------------------------------------------------------------------
(* The sum of f over S is what the chosen function gives S.                *)
LEMMA SumIsPartial ==
  ASSUME NEW f, NEW S
  PROVE SumFunctionOnSet(f, S) = PartialSums(f, S)[S]
BY DEF SumFunctionOnSet, FoldFunctionOnSet, MapThenFoldSet, PartialSums, IsSumOn, SumStep, OneOf

(* A set that has elements has the one taken first.                        *)
LEMMA AnyIsIn == ASSUME NEW s, s # {} PROVE OneOf(s) \in s
BY DEF OneOf

(* A set of naturals that is not empty has a least element.                *)
LEMMA LeastOf ==
  ASSUME NEW S \in SUBSET Nat, S # {}
  PROVE  \E i \in S : \A j \in S : i <= j
<1> DEFINE R == {ss \in Nat \X Nat : ss[1] < ss[2]}
<1>1. IsWellFoundedOn(R, Nat)
  BY NatLessThanWellFounded DEF OpToRel
<1>2. PICK i \in S : \A j \in S : ~(<<j, i>> \in R)
  <2> HIDE DEF R
  <2> QED
    BY <1>1, WFMin
<1>3. ASSUME NEW j \in S PROVE i <= j
  <2>1. <<j, i>> \in R <=> j < i
    OBVIOUS
  <2>2. j \in Nat /\ i \in Nat /\ ~(<<j, i>> \in R)
    BY <1>2
  <2> HIDE DEF R
  <2> QED
    BY <2>1, <2>2
<1> QED
  BY <1>3

(* Taking one element out of a finite set of at most n + 1 leaves at most n.  *)
LEMMA OneFewer ==
  ASSUME NEW S, IsFiniteSet(S), NEW n \in Nat, NEW s \in UpTo(S, n + 1), NEW x \in s
  PROVE  s \ {x} \in UpTo(S, n)
<1>1. s \in SUBSET S /\ IsFiniteSet(s) /\ Cardinality(s) <= n + 1
  BY FS_Subset DEF UpTo
<1>2. Cardinality(s) \in Nat /\ Cardinality(s \ {x}) = Cardinality(s) - 1
  BY <1>1, FS_CardinalityType, FS_RemoveElement
<1> QED
  BY <1>1, <1>2 DEF UpTo

(* The sums over the subsets of a finite set exist, whatever their size.   *)
LEMMA SumsUpToExist ==
  ASSUME NEW f, NEW S, IsFiniteSet(S)
  PROVE  \A n \in Nat : \E g : IsSumOn(f, g, UpTo(S, n))
<1> DEFINE Bad == {n \in Nat : ~ \E g : IsSumOn(f, g, UpTo(S, n))}
<1> SUFFICES ASSUME Bad # {} PROVE FALSE
  OBVIOUS
<1>1. PICK m \in Bad : \A j \in Bad : m <= j
  <2>1. Bad \in SUBSET Nat
    OBVIOUS
  <2> HIDE DEF Bad
  <2> QED
    BY <2>1, LeastOf
<1>2. m # 0
  <2> SUFFICES ASSUME m = 0 PROVE FALSE
    OBVIOUS
  <2> DEFINE g == [s \in UpTo(S, 0) |-> 0]
  <2>1. ASSUME NEW s \in UpTo(S, 0) PROVE s = {}
    <3>1. IsFiniteSet(s) /\ Cardinality(s) <= 0
      BY FS_Subset DEF UpTo
    <3> QED
      BY <3>1, FS_CardinalityType, FS_EmptySet
  <2>2. IsSumOn(f, g, UpTo(S, 0))
    BY <2>1 DEF IsSumOn, SumStep
  <2> QED
    BY <2>2
<1>3. PICK n \in Nat : m = n + 1 /\ n \notin Bad
  <2>1. m \in Nat /\ m - 1 \in Nat /\ m = (m - 1) + 1 /\ ~(m <= m - 1)
    BY <1>2
  <2> HIDE DEF Bad
  <2> QED
    BY <1>1, <2>1
<1>4. PICK h : IsSumOn(f, h, UpTo(S, n))
  BY <1>3
<1> DEFINE g == [s \in UpTo(S, n + 1) |-> SumStep(f, h, s)]
<1>5. ASSUME NEW s \in UpTo(S, n + 1) PROVE SumStep(f, h, s) = SumStep(f, g, s)
  <2>1. CASE s = {}
    BY <2>1 DEF SumStep
  <2>2. CASE s # {}
    <3> DEFINE t == s \ {OneOf(s)}
    <3>1. t \in UpTo(S, n)
      BY <2>2, AnyIsIn, OneFewer
    <3>2. h[t] = SumStep(f, h, t)
      <4> HIDE DEF t
      <4> QED
        BY <1>4, <3>1 DEF IsSumOn
    <3>3. t \in UpTo(S, n + 1)
      <4>1. t \in SUBSET S /\ Cardinality(t) <= n /\ Cardinality(t) \in Nat
        BY <3>1, FS_Subset, FS_CardinalityType DEF UpTo
      <4> QED
        BY <4>1 DEF UpTo
    <3>4. g[t] = h[t]
      BY <3>2, <3>3
    <3> QED
      BY <2>2, <3>4 DEF SumStep
  <2> QED
    BY <2>1, <2>2
<1>6. IsSumOn(f, g, UpTo(S, n + 1))
  BY <1>5 DEF IsSumOn
<1> QED
  BY <1>3, <1>6

(* So the function that is chosen obeys the recursive equation.            *)
LEMMA PartialSumsAreSums ==
  ASSUME NEW f, NEW S, IsFiniteSet(S)
  PROVE  IsSumOn(f, PartialSums(f, S), SUBSET S)
<1>1. UpTo(S, Cardinality(S)) = SUBSET S
  BY FS_Subset, FS_CardinalityType DEF UpTo
<1>2. \E g : IsSumOn(f, g, SUBSET S)
  <2>1. Cardinality(S) \in Nat
    BY FS_CardinalityType
  <2>2. \E g : IsSumOn(f, g, UpTo(S, Cardinality(S)))
    BY <2>1, SumsUpToExist
  <2> QED
    BY <1>1, <2>2
<1> QED
  BY <1>2 DEF PartialSums

(* Two recursions over f agree wherever both are defined.                    *)
LEMMA SumsAgree ==
  ASSUME NEW f, NEW S, NEW T, NEW g, NEW h, IsFiniteSet(S), T \in SUBSET S,
         IsSumOn(f, g, SUBSET S), IsSumOn(f, h, SUBSET T)
  PROVE  \A s \in SUBSET T : g[s] = h[s]
<1> DEFINE Bad == {n \in Nat : \E s \in SUBSET T : Cardinality(s) = n /\ g[s] # h[s]}
<1> SUFFICES ASSUME NEW s0 \in SUBSET T, g[s0] # h[s0] PROVE FALSE
  OBVIOUS
<1>1. PICK m \in Bad : \A j \in Bad : m <= j
  <2>1. Bad \in SUBSET Nat
    OBVIOUS
  <2>2. Cardinality(s0) \in Bad
    BY FS_Subset, FS_CardinalityType
  <2> HIDE DEF Bad
  <2> QED
    BY <2>1, <2>2, LeastOf
<1>2. PICK s \in SUBSET T : Cardinality(s) = m /\ g[s] # h[s]
  OBVIOUS
<1>3. g[s] = SumStep(f, g, s) /\ h[s] = SumStep(f, h, s)
  BY DEF IsSumOn
<1>4. s # {}
  BY <1>2, <1>3 DEF SumStep
<1> DEFINE t == s \ {OneOf(s)}
<1>5. /\ t \in SUBSET T
      /\ m \in Nat
      /\ Cardinality(t) \in Nat
      /\ Cardinality(t) = m - 1
  BY <1>2, <1>4, AnyIsIn, FS_Subset, FS_CardinalityType, FS_RemoveElement
<1>6. g[t] = h[t]
  <2>1. Cardinality(t) \notin Bad
    <3>1. ~(m <= Cardinality(t))
      <4> HIDE DEF Bad, t
      <4> QED
        BY <1>5
    <3> HIDE DEF Bad
    <3> QED
      BY <1>1, <3>1
  <2> HIDE DEF t
  <2> QED
    BY <1>5, <2>1
<1> QED
  BY <1>2, <1>3, <1>4, <1>6 DEF SumStep

-----------------------------------------------------------------------------
(* The sum over no element is zero.                                        *)
LEMMA SumEmpty == ASSUME NEW f PROVE SumFunctionOnSet(f, {}) = 0
<1>1. IsFiniteSet({})
  BY FS_EmptySet
<1>2. IsSumOn(f, PartialSums(f, {}), SUBSET {})
  BY <1>1, PartialSumsAreSums
<1>3. PartialSums(f, {})[{}] = 0
  BY <1>2 DEF IsSumOn, SumStep
<1> QED
  BY <1>3, SumIsPartial

(* The sum over a set is the term of the element taken first plus the      *)
(* rest.                                                                   *)
LEMMA SumNonempty ==
  ASSUME NEW f, NEW S, IsFiniteSet(S), S # {}
  PROVE  SumFunctionOnSet(f, S) = f[OneOf(S)] + SumFunctionOnSet(f, S \ {OneOf(S)})
<1> DEFINE T == S \ {OneOf(S)}
           g == PartialSums(f, S)
           h == PartialSums(f, T)
<1>1. IsFiniteSet(T) /\ T \in SUBSET S
  BY FS_Subset
<1>2. IsSumOn(f, g, SUBSET S) /\ IsSumOn(f, h, SUBSET T)
  BY <1>1, PartialSumsAreSums
<1>3. g[T] = h[T]
  <2> HIDE DEF T, g, h
  <2>1. \A s \in SUBSET T : g[s] = h[s]
    BY <1>1, <1>2, SumsAgree
  <2> QED
    BY <2>1
<1>4. g[S] = f[OneOf(S)] + g[T]
  <2> HIDE DEF g
  <2> QED
    BY <1>2 DEF IsSumOn, SumStep
<1>5. SumFunctionOnSet(f, S) = g[S] /\ SumFunctionOnSet(f, T) = h[T]
  BY SumIsPartial
<1> HIDE DEF g, h
<1> QED
  BY <1>3, <1>4, <1>5

(* A sum of integers is an integer.                                        *)
LEMMA SumType ==
  ASSUME NEW f, NEW S, IsFiniteSet(S), \A i \in S : f[i] \in Int
  PROVE  SumFunctionOnSet(f, S) \in Int
<1> DEFINE Bad == {n \in Nat : \E s \in SUBSET S : Cardinality(s) = n /\ SumFunctionOnSet(f, s) \notin Int}
<1> SUFFICES ASSUME SumFunctionOnSet(f, S) \notin Int PROVE FALSE
  OBVIOUS
<1>1. PICK m \in Bad : \A j \in Bad : m <= j
  <2>1. Bad \in SUBSET Nat
    OBVIOUS
  <2>2. Cardinality(S) \in Bad
    BY FS_CardinalityType
  <2> HIDE DEF Bad
  <2> QED
    BY <2>1, <2>2, LeastOf
<1>2. PICK s \in SUBSET S : Cardinality(s) = m /\ SumFunctionOnSet(f, s) \notin Int
  OBVIOUS
<1>3. s # {}
  BY <1>2, SumEmpty
<1>4. IsFiniteSet(s)
  BY FS_Subset
<1> DEFINE x == OneOf(s)
           t == s \ {x}
<1>5. x \in s /\ t \in SUBSET S /\ f[x] \in Int
  BY <1>3, AnyIsIn
<1>6. m \in Nat /\ Cardinality(t) \in Nat /\ Cardinality(t) = m - 1
  BY <1>2, <1>4, <1>5, FS_Subset, FS_CardinalityType, FS_RemoveElement
<1>7. SumFunctionOnSet(f, s) = f[x] + SumFunctionOnSet(f, t)
  BY <1>3, <1>4, SumNonempty
<1> HIDE DEF x, t
<1>8. SumFunctionOnSet(f, t) \in Int
  <2>1. ~(m <= Cardinality(t))
    <3> HIDE DEF Bad
    <3> QED
      BY <1>6
  <2>2. Cardinality(t) \notin Bad
    <3> HIDE DEF Bad
    <3> QED
      BY <1>1, <2>1
  <2> QED
    BY <1>5, <1>6, <2>2
<1> QED
  BY <1>2, <1>5, <1>7, <1>8

(* Any element may be taken out first.                                       *)
LEMMA SumOneOut ==
  ASSUME NEW f, NEW S, IsFiniteSet(S), \A i \in S : f[i] \in Int, NEW x \in S
  PROVE  SumFunctionOnSet(f, S) = f[x] + SumFunctionOnSet(f, S \ {x})
<1> DEFINE Out(s, y) == SumFunctionOnSet(f, s) = f[y] + SumFunctionOnSet(f, s \ {y})
           Bad == {n \in Nat : \E s \in SUBSET S : Cardinality(s) = n /\ \E y \in s : ~Out(s, y)}
<1> SUFFICES ASSUME ~Out(S, x) PROVE FALSE
  OBVIOUS
<1>1. PICK m \in Bad : \A j \in Bad : m <= j
  <2>1. Bad \in SUBSET Nat
    OBVIOUS
  <2>2. Cardinality(S) \in Bad
    BY FS_CardinalityType
  <2> HIDE DEF Bad
  <2> QED
    BY <2>1, <2>2, LeastOf
<1>2. PICK s \in SUBSET S : Cardinality(s) = m /\ \E y \in s : ~Out(s, y)
  OBVIOUS
<1>20. PICK y \in s : ~Out(s, y)
  BY <1>2
<1>3. IsFiniteSet(s) /\ s # {}
  BY <1>20, FS_Subset
<1> DEFINE z == OneOf(s)
<1>4. z \in s /\ Out(s, z)
  BY <1>3, AnyIsIn, SumNonempty
<1>5. z # y
  BY <1>20, <1>4
<1> HIDE DEF z
<1> DEFINE t == s \ {z}
           u == s \ {y}
           v == (s \ {z}) \ {y}
<1>6. /\ m \in Nat
      /\ Cardinality(t) \in Nat /\ Cardinality(t) < m
      /\ Cardinality(u) \in Nat /\ Cardinality(u) < m
  BY <1>2, <1>3, <1>4, FS_Subset, FS_CardinalityType, FS_RemoveElement
<1>7. ASSUME NEW n \in Nat, n < m PROVE n \notin Bad
  <2>1. m \in Nat /\ ~(m <= n)
    BY <1>6, <1>7
  <2> HIDE DEF Bad
  <2> QED
    BY <1>1, <2>1
<1>8. t \in SUBSET S /\ y \in t /\ u \in SUBSET S /\ z \in u /\ u \ {z} = v /\ t \ {y} = v
  BY <1>4, <1>5
<1>9. Out(t, y)
  <2>1. Cardinality(t) \notin Bad
    <3> HIDE DEF Bad, t
    <3> QED
      BY <1>6, <1>7
  <2> HIDE DEF Out, t
  <2> QED
    BY <1>6, <1>8, <2>1
<1>10. Out(u, z)
  <2>1. Cardinality(u) \notin Bad
    <3> HIDE DEF Bad, u
    <3> QED
      BY <1>6, <1>7
  <2> HIDE DEF Out, u
  <2> QED
    BY <1>6, <1>8, <2>1
<1>11. SumFunctionOnSet(f, t) = f[y] + SumFunctionOnSet(f, v)
  BY <1>8, <1>9
<1>12. SumFunctionOnSet(f, u) = f[z] + SumFunctionOnSet(f, v)
  <2> HIDE DEF u, v
  <2> QED
    BY <1>8, <1>10
<1>13. SumFunctionOnSet(f, s) = f[z] + SumFunctionOnSet(f, t)
  BY <1>4
<1>14. f[y] \in Int /\ f[z] \in Int /\ SumFunctionOnSet(f, v) \in Int
  <2>1. v \in SUBSET S /\ IsFiniteSet(v)
    BY FS_Subset
  <2> HIDE DEF v
  <2>2. SumFunctionOnSet(f, v) \in Int
    BY <2>1, SumType
  <2> QED
    BY <1>4, <2>2
<1>15. SumFunctionOnSet(f, s) = f[y] + SumFunctionOnSet(f, u)
  <2> HIDE DEF u, v, t
  <2> QED
    BY <1>11, <1>12, <1>13, <1>14
<1> QED
  BY <1>20, <1>15

(* The sum looks at nothing but the terms.                                   *)
LEMMA SumSameTerms ==
  ASSUME NEW f, NEW g, NEW S, IsFiniteSet(S), \A i \in S : f[i] = g[i]
  PROVE  SumFunctionOnSet(f, S) = SumFunctionOnSet(g, S)
<1> DEFINE Bad == {n \in Nat : \E s \in SUBSET S :
                     Cardinality(s) = n /\ SumFunctionOnSet(f, s) # SumFunctionOnSet(g, s)}
<1> SUFFICES ASSUME SumFunctionOnSet(f, S) # SumFunctionOnSet(g, S) PROVE FALSE
  OBVIOUS
<1>1. PICK m \in Bad : \A j \in Bad : m <= j
  <2>1. Bad \in SUBSET Nat
    OBVIOUS
  <2>2. Cardinality(S) \in Bad
    BY FS_CardinalityType
  <2> HIDE DEF Bad
  <2> QED
    BY <2>1, <2>2, LeastOf
<1>2. PICK s \in SUBSET S : Cardinality(s) = m /\ SumFunctionOnSet(f, s) # SumFunctionOnSet(g, s)
  OBVIOUS
<1>3. s # {}
  BY <1>2, SumEmpty
<1>4. IsFiniteSet(s)
  BY FS_Subset
<1> DEFINE x == OneOf(s)
           t == s \ {x}
<1>5. x \in s /\ t \in SUBSET S /\ f[x] = g[x]
  BY <1>3, AnyIsIn
<1>6. m \in Nat /\ Cardinality(t) \in Nat /\ Cardinality(t) = m - 1
  BY <1>2, <1>4, <1>5, FS_Subset, FS_CardinalityType, FS_RemoveElement
<1>7. /\ SumFunctionOnSet(f, s) = f[x] + SumFunctionOnSet(f, t)
      /\ SumFunctionOnSet(g, s) = g[x] + SumFunctionOnSet(g, t)
  BY <1>3, <1>4, SumNonempty
<1> HIDE DEF x, t
<1>8. SumFunctionOnSet(f, t) = SumFunctionOnSet(g, t)
  <2>1. ~(m <= Cardinality(t))
    <3> HIDE DEF Bad
    <3> QED
      BY <1>6
  <2>2. Cardinality(t) \notin Bad
    <3> HIDE DEF Bad
    <3> QED
      BY <1>1, <2>1
  <2> QED
    BY <1>5, <1>6, <2>2
<1> QED
  BY <1>2, <1>5, <1>7, <1>8

(* A sum of zeros is zero.                                                 *)
LEMMA SumOfZeros ==
  ASSUME NEW f, NEW S, IsFiniteSet(S), \A i \in S : f[i] = 0
  PROVE  SumFunctionOnSet(f, S) = 0
<1> DEFINE Bad == {n \in Nat : \E s \in SUBSET S : Cardinality(s) = n /\ SumFunctionOnSet(f, s) # 0}
<1> SUFFICES ASSUME SumFunctionOnSet(f, S) # 0 PROVE FALSE
  OBVIOUS
<1>1. PICK m \in Bad : \A j \in Bad : m <= j
  <2>1. Bad \in SUBSET Nat
    OBVIOUS
  <2>2. Cardinality(S) \in Bad
    BY FS_CardinalityType
  <2> HIDE DEF Bad
  <2> QED
    BY <2>1, <2>2, LeastOf
<1>2. PICK s \in SUBSET S : Cardinality(s) = m /\ SumFunctionOnSet(f, s) # 0
  OBVIOUS
<1>3. s # {}
  BY <1>2, SumEmpty
<1>4. IsFiniteSet(s)
  BY FS_Subset
<1> DEFINE x == OneOf(s)
           t == s \ {x}
<1>5. x \in s /\ t \in SUBSET S /\ f[x] = 0
  BY <1>3, AnyIsIn
<1>6. m \in Nat /\ Cardinality(t) \in Nat /\ Cardinality(t) = m - 1
  BY <1>2, <1>4, <1>5, FS_Subset, FS_CardinalityType, FS_RemoveElement
<1>7. SumFunctionOnSet(f, s) = f[x] + SumFunctionOnSet(f, t)
  BY <1>3, <1>4, SumNonempty
<1> HIDE DEF x, t
<1>8. SumFunctionOnSet(f, t) = 0
  <2>1. ~(m <= Cardinality(t))
    <3> HIDE DEF Bad
    <3> QED
      BY <1>6
  <2>2. Cardinality(t) \notin Bad
    <3> HIDE DEF Bad
    <3> QED
      BY <1>1, <2>1
  <2> QED
    BY <1>5, <1>6, <2>2
<1> QED
  BY <1>2, <1>5, <1>7, <1>8

(* One term changes: the sum moves by the difference.                        *)
LEMMA SumOneChanged ==
  ASSUME NEW f, NEW g, NEW S, IsFiniteSet(S), NEW x \in S,
         \A i \in S : f[i] \in Int /\ g[i] \in Int,
         \A i \in S \ {x} : f[i] = g[i]
  PROVE  SumFunctionOnSet(g, S) = SumFunctionOnSet(f, S) - f[x] + g[x]
<1> DEFINE T == S \ {x}
<1>1. IsFiniteSet(T)
  BY FS_Subset
<1>2. SumFunctionOnSet(f, T) = SumFunctionOnSet(g, T)
  <2>1. \A i \in T : f[i] = g[i]
    OBVIOUS
  <2> HIDE DEF T
  <2> QED
    BY <1>1, <2>1, SumSameTerms
<1>3. SumFunctionOnSet(f, T) \in Int
  <2>1. \A i \in T : f[i] \in Int
    OBVIOUS
  <2> HIDE DEF T
  <2> QED
    BY <1>1, <2>1, SumType
<1>4. SumFunctionOnSet(f, S) = f[x] + SumFunctionOnSet(f, T)
  BY SumOneOut
<1>5. SumFunctionOnSet(g, S) = g[x] + SumFunctionOnSet(g, T)
  BY SumOneOut
<1> HIDE DEF T
<1> QED
  BY <1>2, <1>3, <1>4, <1>5

(* Larger terms have the larger sum.                                         *)
LEMMA SumMonotone ==
  ASSUME NEW f, NEW g, NEW S, IsFiniteSet(S),
         \A i \in S : f[i] \in Int /\ g[i] \in Int /\ f[i] <= g[i]
  PROVE  SumFunctionOnSet(f, S) <= SumFunctionOnSet(g, S)
<1> DEFINE Bad == {n \in Nat : \E s \in SUBSET S :
                     Cardinality(s) = n /\ ~(SumFunctionOnSet(f, s) <= SumFunctionOnSet(g, s))}
<1> SUFFICES ASSUME ~(SumFunctionOnSet(f, S) <= SumFunctionOnSet(g, S)) PROVE FALSE
  OBVIOUS
<1>1. PICK m \in Bad : \A j \in Bad : m <= j
  <2>1. Bad \in SUBSET Nat
    OBVIOUS
  <2>2. Cardinality(S) \in Bad
    BY FS_CardinalityType
  <2> HIDE DEF Bad
  <2> QED
    BY <2>1, <2>2, LeastOf
<1>2. PICK s \in SUBSET S : Cardinality(s) = m /\ ~(SumFunctionOnSet(f, s) <= SumFunctionOnSet(g, s))
  OBVIOUS
<1>3. s # {}
  BY <1>2, SumEmpty
<1>4. IsFiniteSet(s)
  BY FS_Subset
<1> DEFINE x == OneOf(s)
           t == s \ {x}
<1>5. x \in s /\ t \in SUBSET S /\ f[x] \in Int /\ g[x] \in Int /\ f[x] <= g[x]
  BY <1>3, AnyIsIn
<1>6. m \in Nat /\ Cardinality(t) \in Nat /\ Cardinality(t) = m - 1
  BY <1>2, <1>4, <1>5, FS_Subset, FS_CardinalityType, FS_RemoveElement
<1>7. /\ SumFunctionOnSet(f, s) = f[x] + SumFunctionOnSet(f, t)
      /\ SumFunctionOnSet(g, s) = g[x] + SumFunctionOnSet(g, t)
  BY <1>3, <1>4, SumNonempty
<1>9. SumFunctionOnSet(f, t) \in Int /\ SumFunctionOnSet(g, t) \in Int
  <2>1. IsFiniteSet(t) /\ \A i \in t : f[i] \in Int /\ g[i] \in Int
    BY <1>5, FS_Subset
  <2> HIDE DEF t
  <2> QED
    BY <2>1, SumType
<1> HIDE DEF x, t
<1>8. SumFunctionOnSet(f, t) <= SumFunctionOnSet(g, t)
  <2>1. ~(m <= Cardinality(t))
    <3> HIDE DEF Bad
    <3> QED
      BY <1>6
  <2>2. Cardinality(t) \notin Bad
    <3> HIDE DEF Bad
    <3> QED
      BY <1>1, <2>1
  <2> QED
    BY <1>5, <1>6, <2>2
<1> QED
  BY <1>2, <1>5, <1>7, <1>8, <1>9


(* The product by a number that is one higher.                             *)
LEMMA OneTimesMore == ASSUME NEW n \in Int, NEW b \in Int PROVE (n + 1) * b = n * b + b /\ n * b \in Int
OBVIOUS

(* No sum is above the number of its terms times a bound of each.            *)
LEMMA SumBounded ==
  ASSUME NEW f, NEW S, IsFiniteSet(S), NEW b \in Int, \A i \in S : f[i] \in Int /\ f[i] <= b
  PROVE  SumFunctionOnSet(f, S) <= Cardinality(S) * b
<1> DEFINE Over(s) == ~(SumFunctionOnSet(f, s) <= Cardinality(s) * b)
           Bad == {n \in Nat : \E s \in SUBSET S : Cardinality(s) = n /\ Over(s)}
<1> SUFFICES ASSUME Over(S) PROVE FALSE
  OBVIOUS
<1>1. PICK m \in Bad : \A j \in Bad : m <= j
  <2>1. Bad \in SUBSET Nat
    OBVIOUS
  <2>2. Cardinality(S) \in Bad
    BY FS_CardinalityType
  <2> HIDE DEF Bad
  <2> QED
    BY <2>1, <2>2, LeastOf
<1>2. PICK s \in SUBSET S : Cardinality(s) = m /\ Over(s)
  OBVIOUS
<1>3. s # {}
  <2> SUFFICES ASSUME s = {} PROVE FALSE
    OBVIOUS
  <2>1. Cardinality(s) = 0 /\ SumFunctionOnSet(f, s) = 0
    BY SumEmpty, FS_EmptySet
  <2>2. 0 * b = 0
    OBVIOUS
  <2> QED
    BY <1>2, <2>1, <2>2
<1>4. IsFiniteSet(s)
  BY FS_Subset
<1> DEFINE x == OneOf(s)
           t == s \ {x}
<1>5. x \in s /\ t \in SUBSET S /\ f[x] \in Int /\ f[x] <= b
  BY <1>3, AnyIsIn
<1>6. m \in Nat /\ Cardinality(t) \in Nat /\ Cardinality(t) = m - 1
  BY <1>2, <1>4, <1>5, FS_Subset, FS_CardinalityType, FS_RemoveElement
<1>7. SumFunctionOnSet(f, s) = f[x] + SumFunctionOnSet(f, t)
  BY <1>3, <1>4, SumNonempty
<1>9. SumFunctionOnSet(f, t) \in Int
  <2>1. IsFiniteSet(t) /\ \A i \in t : f[i] \in Int
    BY <1>5, FS_Subset
  <2> HIDE DEF t
  <2> QED
    BY <2>1, SumType
<1> HIDE DEF x, t
<1>8. SumFunctionOnSet(f, t) <= Cardinality(t) * b
  <2>1. ~(m <= Cardinality(t))
    <3> HIDE DEF Bad
    <3> QED
      BY <1>6
  <2>2. Cardinality(t) \notin Bad
    <3> HIDE DEF Bad
    <3> QED
      BY <1>1, <2>1
  <2> QED
    BY <1>5, <1>6, <2>2
<1>10. m * b = Cardinality(t) * b + b /\ Cardinality(t) * b \in Int
  <2>1. m = Cardinality(t) + 1 /\ Cardinality(t) \in Int
    BY <1>6
  <2> QED
    BY <2>1, OneTimesMore
<1>11. SumFunctionOnSet(f, s) <= m * b
  <2> DEFINE y == Cardinality(t) * b
             z == SumFunctionOnSet(f, t)
  <2>1. SumFunctionOnSet(f, s) = f[x] + z /\ z <= y /\ z \in Int /\ y \in Int /\ m * b = y + b
    BY <1>7, <1>8, <1>9, <1>10
  <2> HIDE DEF y, z
  <2> QED
    BY <1>5, <2>1
<1> QED
  BY <1>2, <1>11

-----------------------------------------------------------------------------
(* The sum over 1 .. n + 1 is the sum over 1 .. n plus the last term.      *)
LEMMA SumUpToNext ==
  ASSUME NEW f, NEW n \in Nat, NEW k, k = n + 1, \A i \in 1 .. k : f[i] \in Int
  PROVE  /\ SumFunctionOnSet(f, 1 .. k) = f[k] + SumFunctionOnSet(f, 1 .. n)
         /\ SumFunctionOnSet(f, 1 .. n) \in Int
<1> DEFINE A == 1 .. k
           B == 1 .. n
<1>1. /\ A \ {k} = B
      /\ k \in A
      /\ \A i \in A : f[i] \in Int
      /\ \A i \in B : f[i] \in Int
  OBVIOUS
<1>2. IsFiniteSet(A) /\ IsFiniteSet(B)
  <2>1. 1 \in Int /\ n \in Int /\ k \in Int
    OBVIOUS
  <2> QED
    BY <2>1, FS_Interval
<1> HIDE DEF A, B
<1>3. SumFunctionOnSet(f, A) = f[k] + SumFunctionOnSet(f, A \ {k})
  BY <1>1, <1>2, SumOneOut
<1>4. SumFunctionOnSet(f, B) \in Int
  BY <1>1, <1>2, SumType
<1> QED
  BY <1>1, <1>3, <1>4 DEF A, B

(* The sum of the empty sequence is zero.                                  *)
LEMMA SumOfNothing == SumFunction(<<>>) = 0
<1>1. DOMAIN <<>> = {}
  OBVIOUS
<1> QED
  BY <1>1, SumEmpty DEF SumFunction

(* The sum of a sequence of integers is an integer.                        *)
LEMMA SequenceSumType ==
  ASSUME NEW s \in Seq(Int)
  PROVE  SumFunction(s) \in Int
<1>1. DOMAIN s = 1 .. Len(s) /\ Len(s) \in Nat
  OBVIOUS
<1>2. IsFiniteSet(DOMAIN s) /\ \A i \in DOMAIN s : s[i] \in Int
  BY <1>1, FS_Interval
<1> QED
  BY <1>2, SumType DEF SumFunction

(* Appending a number to a sequence adds it to the sum.                    *)
LEMMA SumAppended ==
  ASSUME NEW s \in Seq(Int), NEW r \in Int
  PROVE  SumFunction(s \o <<r>>) = SumFunction(s) + r
<1> DEFINE q == s \o <<r>>
           n == Len(s)
<1>1. n \in Nat /\ DOMAIN s = 1 .. n
  OBVIOUS
<1>2. /\ q \in Seq(Int) /\ Len(q) = n + 1 /\ DOMAIN q = 1 .. n + 1
      /\ q[n + 1] = r /\ \A i \in 1 .. n : q[i] = s[i]
  OBVIOUS
<1> HIDE DEF n, q
<1> DEFINE k == n + 1
<1>3. k = n + 1 /\ \A i \in 1 .. k : q[i] \in Int
  BY <1>2
<1> HIDE DEF k
<1>4. SumFunctionOnSet(q, 1 .. k) = q[k] + SumFunctionOnSet(q, 1 .. n)
  BY <1>1, <1>3, SumUpToNext
<1>5. IsFiniteSet(1 .. n)
  BY <1>1, FS_Interval
<1>7. SumFunctionOnSet(q, 1 .. n) = SumFunctionOnSet(s, 1 .. n)
  BY <1>2, <1>5, SumSameTerms
<1>8. SumFunction(s) \in Int /\ SumFunction(s) = SumFunctionOnSet(s, 1 .. n)
  BY <1>1, SequenceSumType DEF SumFunction
<1>9. SumFunction(q) = SumFunctionOnSet(q, 1 .. k) /\ q[k] = r
  BY <1>2, <1>3 DEF SumFunction
<1> DEFINE x == SumFunctionOnSet(q, 1 .. n)
<1>10. SumFunction(q) = SumFunction(s) + r
  <2>1. SumFunction(q) = r + x /\ SumFunction(s) = x /\ x \in Int /\ r \in Int
    BY <1>4, <1>7, <1>8, <1>9
  <2> HIDE DEF x
  <2> QED
    BY <2>1
<1> QED
  BY <1>10 DEF q

(* The sum of a sequence is its head plus the sum of its tail.             *)
LEMMA SumOfTail ==
  ASSUME NEW s \in Seq(Int), s # <<>>
  PROVE  SumFunction(s) = Head(s) + SumFunction(Tail(s))
<1> DEFINE u == Tail(s)
           n == Len(s)
           Short(k) == SumFunctionOnSet(s, 1 .. k + 1) = s[1] + SumFunctionOnSet(u, 1 .. k)
           Bad == {k \in Nat : k + 1 <= n /\ ~Short(k)}
<1>1. /\ n \in Nat /\ n >= 1 /\ DOMAIN s = 1 .. n
      /\ u \in Seq(Int) /\ Len(u) = n - 1 /\ DOMAIN u = 1 .. n - 1
      /\ \A i \in 1 .. n - 1 : u[i] = s[i + 1]
      /\ Head(s) = s[1]
  OBVIOUS
<1> HIDE DEF u, n
<1>2. \A i \in 1 .. n : s[i] \in Int
  BY <1>1
<1>3. \A i \in 1 .. n - 1 : u[i] \in Int
  BY <1>1
<1>4. Bad = {}
  <2> SUFFICES ASSUME Bad # {} PROVE FALSE
    OBVIOUS
  <2>1. PICK m \in Bad : \A j \in Bad : m <= j
    <3>1. Bad \in SUBSET Nat
      OBVIOUS
    <3> HIDE DEF Bad
    <3> QED
      BY <3>1, LeastOf
  <2>2. m \in Nat /\ m + 1 <= n /\ ~Short(m)
    BY <2>1
  <2>3. m # 0
    <3> SUFFICES ASSUME m = 0 PROVE FALSE
      OBVIOUS
    <3>1. 0 \in Nat /\ 1 = 0 + 1 /\ \A i \in 1 .. 1 : s[i] \in Int
      BY <1>1, <1>2
    <3>2. /\ SumFunctionOnSet(s, 1 .. 1) = s[1] + SumFunctionOnSet(s, 1 .. 0)
      BY <3>1, SumUpToNext
    <3>3. 1 .. 0 = {} /\ m + 1 = 1
      OBVIOUS
    <3> QED
      BY <2>2, <3>2, <3>3, SumEmpty
  <2>4. m - 1 \in Nat /\ (m - 1) + 1 = m /\ m <= n /\ ~(m <= m - 1)
    BY <1>1, <2>2, <2>3
  <2>5. Short(m - 1)
    <3>1. m - 1 \notin Bad
      <4> HIDE DEF Bad
      <4> QED
        BY <2>1, <2>4
    <3> HIDE DEF Short
    <3> QED
      BY <1>1, <2>4, <3>1
  <2>6. SumFunctionOnSet(s, 1 .. m) = s[1] + SumFunctionOnSet(u, 1 .. m - 1)
    BY <2>4, <2>5
  <2>7. /\ m + 1 \in Int /\ \A i \in 1 .. m + 1 : s[i] \in Int
        /\ \A i \in 1 .. m : u[i] \in Int
        /\ u[m] = s[m + 1] /\ s[m + 1] \in Int /\ s[1] \in Int
    BY <1>1, <1>2, <1>3, <2>2, <2>4
  <2> DEFINE k == m + 1
             l == m - 1
  <2>8. k = m + 1 /\ l \in Nat /\ m = l + 1 /\ (\A i \in 1 .. k : s[i] \in Int) /\ u[m] = s[k] /\ s[k] \in Int
    BY <2>4, <2>7
  <2>80. /\ SumFunctionOnSet(s, 1 .. m) = s[1] + SumFunctionOnSet(u, 1 .. l)
         /\ SumFunctionOnSet(s, 1 .. k) # s[1] + SumFunctionOnSet(u, 1 .. m)
    BY <2>2, <2>6
  <2> HIDE DEF k, l
  <2>9. SumFunctionOnSet(s, 1 .. k) = s[k] + SumFunctionOnSet(s, 1 .. m)
    BY <2>2, <2>8, SumUpToNext
  <2>10. SumFunctionOnSet(u, 1 .. m) = u[m] + SumFunctionOnSet(u, 1 .. l) /\ SumFunctionOnSet(u, 1 .. l) \in Int
    BY <2>7, <2>8, SumUpToNext
  <2> DEFINE x == SumFunctionOnSet(u, 1 .. l)
             y == s[k]
             z == s[1]
  <2>11. /\ SumFunctionOnSet(s, 1 .. k) = y + (z + x)
         /\ SumFunctionOnSet(s, 1 .. k) # z + (y + x)
         /\ x \in Int /\ y \in Int /\ z \in Int
    BY <2>7, <2>8, <2>80, <2>9, <2>10
  <2> HIDE DEF x, y, z
  <2> QED
    BY <2>11
<1>5. n - 1 \in Nat /\ (n - 1) + 1 = n
  BY <1>1
<1>6. Short(n - 1)
  <2> HIDE DEF Short
  <2> QED
    BY <1>1, <1>4, <1>5
<1>7. SumFunctionOnSet(s, 1 .. n) = s[1] + SumFunctionOnSet(u, 1 .. n - 1)
  BY <1>5, <1>6
<1>8. SumFunction(s) = Head(s) + SumFunction(u)
  BY <1>1, <1>7 DEF SumFunction
<1> QED
  BY <1>8 DEF u
-----------------------------------------------------------------------------
(* Folds of a set into V: F[x] takes what the others gave one step further. *)
FoldStep(F, b, g, s) == IF s = {} THEN b ELSE F[OneOf(s)][g[s \ {OneOf(s)}]]

(* g gives every set of D the fold of the functions F, from b, over it.    *)
IsFoldOn(F, b, g, D) == g = [s \in D |-> FoldStep(F, b, g, s)]

(* The folds over the subsets of a finite set exist, whatever their size.  *)
LEMMA FoldsUpToExist ==
  ASSUME NEW F, NEW b, NEW S, IsFiniteSet(S)
  PROVE  \A n \in Nat : \E g : IsFoldOn(F, b, g, UpTo(S, n))
<1> DEFINE Bad == {n \in Nat : ~ \E g : IsFoldOn(F, b, g, UpTo(S, n))}
<1> SUFFICES ASSUME Bad # {} PROVE FALSE
  OBVIOUS
<1>1. PICK m \in Bad : \A j \in Bad : m <= j
  <2>1. Bad \in SUBSET Nat
    OBVIOUS
  <2> HIDE DEF Bad
  <2> QED
    BY <2>1, LeastOf
<1>2. m # 0
  <2> SUFFICES ASSUME m = 0 PROVE FALSE
    OBVIOUS
  <2> DEFINE g == [s \in UpTo(S, 0) |-> b]
  <2>1. ASSUME NEW s \in UpTo(S, 0) PROVE s = {}
    <3>1. IsFiniteSet(s) /\ Cardinality(s) <= 0
      BY FS_Subset DEF UpTo
    <3> QED
      BY <3>1, FS_CardinalityType, FS_EmptySet
  <2>2. IsFoldOn(F, b, g, UpTo(S, 0))
    BY <2>1 DEF IsFoldOn, FoldStep
  <2> QED
    BY <2>2
<1>3. PICK n \in Nat : m = n + 1 /\ n \notin Bad
  <2>1. m \in Nat /\ m - 1 \in Nat /\ m = (m - 1) + 1 /\ ~(m <= m - 1)
    BY <1>2
  <2> HIDE DEF Bad
  <2> QED
    BY <1>1, <2>1
<1>4. PICK h : IsFoldOn(F, b, h, UpTo(S, n))
  BY <1>3
<1> DEFINE g == [s \in UpTo(S, n + 1) |-> FoldStep(F, b, h, s)]
<1>5. ASSUME NEW s \in UpTo(S, n + 1) PROVE FoldStep(F, b, h, s) = FoldStep(F, b, g, s)
  <2>1. CASE s = {}
    BY <2>1 DEF FoldStep
  <2>2. CASE s # {}
    <3> DEFINE t == s \ {OneOf(s)}
    <3>1. t \in UpTo(S, n)
      BY <2>2, AnyIsIn, OneFewer
    <3>2. h[t] = FoldStep(F, b, h, t)
      <4> HIDE DEF t
      <4> QED
        BY <1>4, <3>1 DEF IsFoldOn
    <3>3. t \in UpTo(S, n + 1)
      <4>1. t \in SUBSET S /\ Cardinality(t) <= n /\ Cardinality(t) \in Nat
        BY <3>1, FS_Subset, FS_CardinalityType DEF UpTo
      <4> QED
        BY <4>1 DEF UpTo
    <3>4. g[t] = h[t]
      BY <3>2, <3>3
    <3> QED
      BY <2>2, <3>4 DEF FoldStep
  <2> QED
    BY <2>1, <2>2
<1>6. IsFoldOn(F, b, g, UpTo(S, n + 1))
  BY <1>5 DEF IsFoldOn
<1> QED
  BY <1>3, <1>6

(* So one function gives every subset of a finite set its fold.            *)
LEMMA FoldsExist ==
  ASSUME NEW F, NEW b, NEW S, IsFiniteSet(S)
  PROVE  \E g : IsFoldOn(F, b, g, SUBSET S)
<1>1. UpTo(S, Cardinality(S)) = SUBSET S
  BY FS_Subset, FS_CardinalityType DEF UpTo
<1>2. Cardinality(S) \in Nat
  BY FS_CardinalityType
<1>3. \E g : IsFoldOn(F, b, g, UpTo(S, Cardinality(S)))
  BY <1>2, FoldsUpToExist
<1> QED
  BY <1>1, <1>3

(* A fold of functions from V to V that starts in V stays in V.            *)
LEMMA FoldsAreTyped ==
  ASSUME NEW S, IsFiniteSet(S), NEW V, NEW b \in V, NEW F \in [S -> [V -> V]],
         NEW g, IsFoldOn(F, b, g, SUBSET S)
  PROVE  \A s \in SUBSET S : g[s] \in V
<1> DEFINE Bad == {n \in Nat : \E s \in SUBSET S : Cardinality(s) = n /\ g[s] \notin V}
<1> SUFFICES ASSUME NEW s0 \in SUBSET S, g[s0] \notin V PROVE FALSE
  OBVIOUS
<1>1. PICK m \in Bad : \A j \in Bad : m <= j
  <2>1. Bad \in SUBSET Nat
    OBVIOUS
  <2>2. Cardinality(s0) \in Bad
    BY FS_Subset, FS_CardinalityType
  <2> HIDE DEF Bad
  <2> QED
    BY <2>1, <2>2, LeastOf
<1>2. PICK s \in SUBSET S : Cardinality(s) = m /\ g[s] \notin V
  OBVIOUS
<1>3. g[s] = FoldStep(F, b, g, s)
  BY DEF IsFoldOn
<1>4. s # {}
  BY <1>2, <1>3 DEF FoldStep
<1> DEFINE t == s \ {OneOf(s)}
<1>5. /\ t \in SUBSET S
      /\ m \in Nat
      /\ Cardinality(t) \in Nat
      /\ Cardinality(t) = m - 1
  BY <1>2, <1>4, AnyIsIn, FS_Subset, FS_CardinalityType, FS_RemoveElement
<1>6. g[t] \in V
  <2>1. Cardinality(t) \notin Bad
    <3>1. ~(m <= Cardinality(t))
      <4> HIDE DEF Bad, t
      <4> QED
        BY <1>5
    <3> HIDE DEF Bad
    <3> QED
      BY <1>1, <3>1
  <2> HIDE DEF t
  <2> QED
    BY <1>5, <2>1
<1>7. OneOf(s) \in S
  BY <1>4, AnyIsIn
<1>8. g[s] = F[OneOf(s)][g[t]]
  BY <1>3, <1>4 DEF FoldStep
<1> HIDE DEF t
<1> QED
  BY <1>2, <1>6, <1>7, <1>8

(* The same along the indices of a sequence.                                *)
RecStep(F, b, g, i) == IF i = 0 THEN b ELSE F[i][g[i - 1]]

(* g is the recursion from b by the functions F, up to n.                  *)
IsRecursionTo(F, b, g, n) == g = [i \in 0 .. n |-> RecStep(F, b, g, i)]

(* A recursion on the naturals exists, up to any bound.                    *)
LEMMA RecursionsExist ==
  ASSUME NEW F, NEW b, NEW N \in Nat
  PROVE  \E g : IsRecursionTo(F, b, g, N)
<1> DEFINE Bad == {n \in Nat : ~ \E g : IsRecursionTo(F, b, g, n)}
<1> SUFFICES ASSUME Bad # {} PROVE FALSE
  OBVIOUS
<1>1. PICK m \in Bad : \A j \in Bad : m <= j
  <2>1. Bad \in SUBSET Nat
    OBVIOUS
  <2> HIDE DEF Bad
  <2> QED
    BY <2>1, LeastOf
<1>2. m # 0
  <2> SUFFICES ASSUME m = 0 PROVE FALSE
    OBVIOUS
  <2> DEFINE g == [i \in 0 .. 0 |-> b]
  <2>1. IsRecursionTo(F, b, g, 0)
    <3>1. \A i \in 0 .. 0 : RecStep(F, b, g, i) = b
      BY DEF RecStep
    <3> QED
      BY <3>1 DEF IsRecursionTo
  <2> QED
    BY <2>1
<1>3. PICK n \in Nat : m = n + 1 /\ n \notin Bad
  <2>1. m \in Nat /\ m - 1 \in Nat /\ m = (m - 1) + 1 /\ ~(m <= m - 1)
    BY <1>2
  <2> HIDE DEF Bad
  <2> QED
    BY <1>1, <2>1
<1>4. PICK h : IsRecursionTo(F, b, h, n)
  BY <1>3
<1> DEFINE g == [i \in 0 .. n + 1 |-> RecStep(F, b, h, i)]
<1>5. ASSUME NEW i \in 0 .. n + 1 PROVE RecStep(F, b, h, i) = RecStep(F, b, g, i)
  <2>1. CASE i = 0
    BY <2>1 DEF RecStep
  <2>2. CASE i # 0
    <3>1. i - 1 \in 0 .. n /\ i - 1 \in 0 .. n + 1
      BY <2>2
    <3>2. h[i - 1] = RecStep(F, b, h, i - 1)
      BY <1>4, <3>1 DEF IsRecursionTo
    <3>3. g[i - 1] = h[i - 1]
      BY <3>1, <3>2
    <3> HIDE DEF g
    <3> QED
      BY <2>2, <3>3 DEF RecStep
  <2> QED
    BY <2>1, <2>2
<1>6. IsRecursionTo(F, b, g, n + 1)
  BY <1>5 DEF IsRecursionTo
<1> QED
  BY <1>3, <1>6

(* A recursion by functions from V to V that starts in V stays in V.       *)
LEMMA RecursionsAreTyped ==
  ASSUME NEW N \in Nat, NEW V, NEW b \in V, NEW F \in [1 .. N -> [V -> V]],
         NEW g, IsRecursionTo(F, b, g, N)
  PROVE  \A i \in 0 .. N : g[i] \in V
<1> DEFINE Bad == {i \in Nat : i <= N /\ g[i] \notin V}
<1> SUFFICES ASSUME NEW j \in 0 .. N, g[j] \notin V PROVE FALSE
  OBVIOUS
<1>1. PICK m \in Bad : \A k \in Bad : m <= k
  <2>1. Bad \in SUBSET Nat /\ j \in Bad
    OBVIOUS
  <2> HIDE DEF Bad
  <2> QED
    BY <2>1, LeastOf
<1>2. m \in 0 .. N /\ g[m] \notin V /\ g[m] = RecStep(F, b, g, m)
  BY DEF IsRecursionTo
<1>3. m # 0
  BY <1>2 DEF RecStep
<1>4. m - 1 \in Nat /\ m - 1 <= N /\ ~(m <= m - 1) /\ m \in 1 .. N
  BY <1>2, <1>3
<1>5. g[m - 1] \in V
  <2>1. m - 1 \notin Bad
    <3> HIDE DEF Bad
    <3> QED
      BY <1>1, <1>4
  <2> QED
    BY <1>4, <2>1
<1>6. g[m] = F[m][g[m - 1]]
  BY <1>2, <1>3 DEF RecStep
<1> HIDE DEF Bad
<1> QED
  BY <1>2, <1>4, <1>5, <1>6

-----------------------------------------------------------------------------
(* A strict order of a finite set, as a set of pairs, and the rank of an   *)
(* element: how many come before it.                                       *)
StrictOrder(R, S) ==
  /\ \A x \in S : <<x, x>> \notin R
  /\ \A x, y \in S : x # y => <<x, y>> \in R \/ <<y, x>> \in R
  /\ \A x, y, z \in S : <<x, y>> \in R /\ <<y, z>> \in R => <<x, z>> \in R
AheadOf(R, S, x) == {y \in S : <<y, x>> \in R}
RankOf(R, S, x) == Cardinality(AheadOf(R, S, x))

(* Fewer come before what comes earlier.                                   *)
LEMMA RanksAreOrdered ==
  ASSUME NEW S, IsFiniteSet(S), NEW R, StrictOrder(R, S), NEW x \in S, NEW y \in S
  PROVE  /\ RankOf(R, S, x) \in Nat /\ RankOf(R, S, x) < Cardinality(S)
         /\ <<x, y>> \in R => RankOf(R, S, x) < RankOf(R, S, y)
<1>1. \A z \in S : AheadOf(R, S, z) \in SUBSET (S \ {z})
  BY DEF StrictOrder, AheadOf
<1>2. \A z \in S : /\ IsFiniteSet(S \ {z}) /\ Cardinality(S \ {z}) = Cardinality(S) - 1
                   /\ Cardinality(S) \in Nat
  BY FS_RemoveElement, FS_CardinalityType
<1>3. \A z \in S : IsFiniteSet(AheadOf(R, S, z)) /\ RankOf(R, S, z) \in Nat
                   /\ RankOf(R, S, z) <= Cardinality(S) - 1
  <2> TAKE z \in S
  <2>1. IsFiniteSet(AheadOf(R, S, z)) /\ Cardinality(AheadOf(R, S, z)) <= Cardinality(S \ {z})
    BY <1>1, <1>2, FS_Subset
  <2>2. Cardinality(AheadOf(R, S, z)) \in Nat
    BY <2>1, FS_CardinalityType
  <2> QED
    BY <1>2, <2>1, <2>2 DEF RankOf
<1>4. ASSUME <<x, y>> \in R PROVE RankOf(R, S, x) < RankOf(R, S, y)
  <2>1. AheadOf(R, S, x) \in SUBSET AheadOf(R, S, y) /\ AheadOf(R, S, x) # AheadOf(R, S, y)
    BY <1>4 DEF StrictOrder, AheadOf
  <2>2. /\ Cardinality(AheadOf(R, S, x)) <= Cardinality(AheadOf(R, S, y))
        /\ Cardinality(AheadOf(R, S, y)) # Cardinality(AheadOf(R, S, x))
    BY <1>3, <2>1, FS_Subset
  <2> QED
    BY <1>3, <2>2 DEF RankOf
<1> QED
  <2>1. RankOf(R, S, x) \in Nat /\ RankOf(R, S, x) <= Cardinality(S) - 1 /\ Cardinality(S) \in Nat
    BY <1>2, <1>3
  <2> QED
    BY <1>4, <2>1

(* Every rank is that of one element.                                      *)
LEMMA RanksAreTaken ==
  ASSUME NEW S, IsFiniteSet(S), NEW R, StrictOrder(R, S)
  PROVE  /\ \A x, y \in S : RankOf(R, S, x) = RankOf(R, S, y) => x = y
         /\ \A k \in 0 .. Cardinality(S) - 1 : \E x \in S : RankOf(R, S, x) = k
<1> DEFINE T == 0 .. Cardinality(S) - 1
           f == [x \in S |-> RankOf(R, S, x)]
<1>1. PICK n \in Nat : n = Cardinality(S)
  BY FS_CardinalityType
<1>2. \A x, y \in S : RankOf(R, S, x) = RankOf(R, S, y) => x = y
  <2> TAKE x, y \in S
  <2> HAVE RankOf(R, S, x) = RankOf(R, S, y)
  <2>1. RankOf(R, S, x) \in Nat /\ RankOf(R, S, y) \in Nat
    BY RanksAreOrdered
  <2>2. <<x, y>> \in R => RankOf(R, S, x) < RankOf(R, S, y)
    BY RanksAreOrdered
  <2>3. <<y, x>> \in R => RankOf(R, S, y) < RankOf(R, S, x)
    BY RanksAreOrdered
  <2> QED
    BY <2>1, <2>2, <2>3 DEF StrictOrder
<1>3. IsFiniteSet(T) /\ Cardinality(T) = Cardinality(S)
  <2>1. IsFiniteSet(0 .. n - 1) /\ Cardinality(0 .. n - 1) = IF 0 > n - 1 THEN 0 ELSE n - 1 - 0 + 1
    BY FS_Interval
  <2> QED
    BY <1>1, <2>1
<1>4. f \in [S -> T]
  <2>1. ASSUME NEW x \in S PROVE RankOf(R, S, x) \in T
    <3>1. PICK r : r = RankOf(R, S, x)
      OBVIOUS
    <3>2. r \in Nat /\ r < n
      BY <1>1, <3>1, RanksAreOrdered
    <3> QED
      BY <1>1, <3>1, <3>2
  <2> QED
    BY <2>1
<1>5. f \in Injection(S, T)
  BY <1>2, <1>4 DEF Injection, IsInjective
<1>6. f \in Surjection(S, T)
  <2> HIDE DEF f, T
  <2> QED
    BY <1>3, <1>5, FS_Injection
<1>7. \A k \in T : \E x \in S : f[x] = k
  BY <1>6 DEF Surjection
<1> QED
  BY <1>2, <1>7

(* So as many elements as k have a rank below k.                           *)
LEMMA FirstRanks ==
  ASSUME NEW S, IsFiniteSet(S), NEW R, StrictOrder(R, S), NEW k \in 0 .. Cardinality(S)
  PROVE  Cardinality({x \in S : RankOf(R, S, x) < k}) = k
<1> DEFINE top == {x \in S : RankOf(R, S, x) < k}
           T == 0 .. k - 1
           f == [x \in top |-> RankOf(R, S, x)]
<1>1. PICK n \in Nat : n = Cardinality(S)
  BY FS_CardinalityType
<1>2. k \in Nat /\ k <= n
  BY <1>1
<1>3. IsFiniteSet(T) /\ Cardinality(T) = k
  <2>1. IsFiniteSet(0 .. k - 1) /\ Cardinality(0 .. k - 1) = IF 0 > k - 1 THEN 0 ELSE k - 1 - 0 + 1
    BY <1>2, FS_Interval
  <2> QED
    BY <1>2, <2>1
<1>4. f \in [top -> T]
  <2>1. ASSUME NEW x \in top PROVE RankOf(R, S, x) \in T
    <3>1. PICK r : r = RankOf(R, S, x)
      OBVIOUS
    <3>2. r \in Nat
      BY <3>1, RanksAreOrdered
    <3> QED
      BY <1>2, <3>1, <3>2
  <2> QED
    BY <2>1
<1>5. \A x, y \in top : f[x] = f[y] => x = y
  BY RanksAreTaken
<1>6. \A j \in T : \E x \in top : f[x] = j
  <2> TAKE j \in T
  <2>1. j \in 0 .. Cardinality(S) - 1 /\ j < k
    BY <1>1, <1>2
  <2>2. PICK x \in S : RankOf(R, S, x) = j
    BY <2>1, RanksAreTaken
  <2>3. x \in top
    BY <2>1, <2>2
  <2> QED
    BY <2>2, <2>3
<1>7. f \in Injection(top, T) /\ f \in Surjection(top, T)
  BY <1>4, <1>5, <1>6 DEF Injection, Surjection, IsInjective
<1>8. Cardinality(top) = Cardinality(T)
  <2> HIDE DEF f, top, T
  <2> QED
    BY <1>3, <1>7, FS_Injection
<1> QED
  BY <1>3, <1>8

Raised(f, S, T) == [x \in S |-> IF x \in T THEN f[x] + 1 ELSE f[x]]

(* Adding one to the terms of T adds the number of T to the sum.           *)
LEMMA SumOfRaised ==
  ASSUME NEW S, IsFiniteSet(S), NEW f, \A x \in S : f[x] \in Int, NEW T \in SUBSET S
  PROVE  SumFunctionOnSet(Raised(f, S, T), S) = SumFunctionOnSet(f, S) + Cardinality(T)
<1> DEFINE Good(U) == SumFunctionOnSet(Raised(f, S, U), S) = SumFunctionOnSet(f, S) + Cardinality(U)
           Bad == {n \in Nat : \E U \in SUBSET S : Cardinality(U) = n /\ ~Good(U)}
<1>1. \A U \in SUBSET S : IsFiniteSet(U) /\ Cardinality(U) \in Nat
  BY FS_Subset, FS_CardinalityType
<1>2. SumFunctionOnSet(f, S) \in Int
  BY SumType
<1>3. Good({})
  <2>1. \A x \in S : Raised(f, S, {})[x] = f[x]
    BY DEF Raised
  <2>2. SumFunctionOnSet(Raised(f, S, {}), S) = SumFunctionOnSet(f, S)
    BY <2>1, SumSameTerms
  <2>3. Cardinality({}) = 0
    BY FS_EmptySet
  <2> QED
    BY <1>2, <2>2, <2>3
<1>4. ASSUME NEW n \in Bad, \A m \in Bad : n <= m PROVE FALSE
  <2>1. PICK U \in SUBSET S : Cardinality(U) = n /\ ~Good(U)
    BY <1>4
  <2>2. PICK x : x \in U
    BY <1>3, <2>1
  <2>3. PICK V : V = U \ {x}
    OBVIOUS
  <2>4. V \in SUBSET S /\ Cardinality(V) = n - 1 /\ n \in Nat /\ n - 1 \in Nat
    <3>1. IsFiniteSet(U) /\ Cardinality(V) = Cardinality(U) - 1
      BY <1>1, <2>2, <2>3, FS_RemoveElement
    <3>2. V \in SUBSET S
      BY <2>3
    <3>3. Cardinality(V) \in Nat
      BY <1>1, <3>2
    <3> QED
      BY <2>1, <3>1, <3>2, <3>3
  <2>5. Good(V)
    <3>1. n - 1 \notin Bad
      BY <1>4, <2>4
    <3> QED
      BY <2>4, <3>1
  <2>6. PICK g : g = Raised(f, S, V)
    OBVIOUS
  <2>7. PICK h : h = Raised(f, S, U)
    OBVIOUS
  <2>8. /\ \A i \in S : g[i] \in Int /\ h[i] \in Int
        /\ \A i \in S \ {x} : g[i] = h[i]
        /\ h[x] = g[x] + 1 /\ x \in S
    BY <2>2, <2>3, <2>6, <2>7 DEF Raised
  <2>9. SumFunctionOnSet(h, S) = SumFunctionOnSet(g, S) - g[x] + h[x]
    <3> HIDE DEF Bad, Good
    <3> QED
      BY <2>8, SumOneChanged
  <2>10. SumFunctionOnSet(g, S) = SumFunctionOnSet(f, S) + (n - 1)
    BY <2>4, <2>5, <2>6
  <2>11. PICK k : k = SumFunctionOnSet(f, S)
    OBVIOUS
  <2>12. SumFunctionOnSet(h, S) = k + n
    BY <1>2, <2>2, <2>4, <2>8, <2>9, <2>10, <2>11
  <2> QED
    BY <2>1, <2>7, <2>11, <2>12
<1>5. Bad = {}
  <2>1. Bad \in SUBSET Nat
    OBVIOUS
  <2> HIDE DEF Bad
  <2> QED
    BY <1>4, <2>1, LeastOf
<1> QED
  BY <1>1, <1>5

=============================================================================
