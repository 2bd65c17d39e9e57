--------------------------- MODULE CustomerProofs ---------------------------
(***************************************************************************)
(* What a customer asks for and what vendors answer: the lemmas behind the *)
(* theorems that IntelligenceProofs states about Targeting, CsvMapping,    *)
(* Adapters and Surfaces.  Each component has an inductive invariant       *)
(* (TargetingInv, CsvInv, AdaptersInv, SurfacesInv), a lemma that its      *)
(* initial states satisfy it, one that every step keeps it, and what       *)
(* follows from it.                                                        *)
(***************************************************************************)
EXTENDS Targeting, Adapters, CsvMapping, Surfaces, AcquisitionProofs

-----------------------------------------------------------------------------
(* The six dimensions.                                                     *)
LEMMA SixDimensions ==
  /\ Dimensions = {"employee_count", "industry", "title_seniority", "title_function",
                   "buying_intent", "recent_trigger_event"}
  /\ IsFiniteSet(Dimensions) /\ Cardinality(Dimensions) = 6
  /\ \A a, b \in Dimensions : Position(a) \in Nat /\ (Position(a) = Position(b) => a = b)
<1>1. DOMAIN SCORING_DIMENSIONS = 1 .. 6
  BY DEF SCORING_DIMENSIONS
<1>2. Dimensions = {"employee_count", "industry", "title_seniority", "title_function",
                    "buying_intent", "recent_trigger_event"}
  <2>1. Range(SCORING_DIMENSIONS) = {SCORING_DIMENSIONS[i] : i \in 1 .. 6}
    BY <1>1 DEF Range
  <2>2. /\ SCORING_DIMENSIONS[1] = "employee_count" /\ SCORING_DIMENSIONS[2] = "industry"
        /\ SCORING_DIMENSIONS[3] = "title_seniority" /\ SCORING_DIMENSIONS[4] = "title_function"
        /\ SCORING_DIMENSIONS[5] = "buying_intent"
        /\ SCORING_DIMENSIONS[6] = "recent_trigger_event"
    BY DEF SCORING_DIMENSIONS
  <2>3. 1 .. 6 = {1, 2, 3, 4, 5, 6}
    OBVIOUS
  <2> QED
    BY <2>1, <2>2, <2>3 DEF Dimensions
<1>3. \A a \in Dimensions : /\ Position(a) \in 1 .. 6 /\ SCORING_DIMENSIONS[Position(a)] = a
  <2> TAKE a \in Dimensions
  <2>1. \E i \in DOMAIN SCORING_DIMENSIONS : SCORING_DIMENSIONS[i] = a
    BY DEF Dimensions, Range
  <2> QED
    BY <1>1, <2>1 DEF Position
<1>4. IsFiniteSet(Dimensions) /\ Cardinality(Dimensions) = 6
  <2> DEFINE D1 == {} \cup {"employee_count"}
             D2 == D1 \cup {"industry"}
             D3 == D2 \cup {"title_seniority"}
             D4 == D3 \cup {"title_function"}
             D5 == D4 \cup {"buying_intent"}
             D6 == D5 \cup {"recent_trigger_event"}
  <2>1. IsFiniteSet({}) /\ Cardinality({}) = 0
    BY FS_EmptySet
  <2>2. IsFiniteSet(D1) /\ Cardinality(D1) = 1
    BY <2>1, FS_AddElement
  <2>3. IsFiniteSet(D2) /\ Cardinality(D2) = 2
    <3>1. "industry" \notin D1
      OBVIOUS
    <3> HIDE DEF D1
    <3> QED
      BY <2>2, <3>1, FS_AddElement
  <2>4. IsFiniteSet(D3) /\ Cardinality(D3) = 3
    <3>1. "title_seniority" \notin D2
      OBVIOUS
    <3> HIDE DEF D2
    <3> QED
      BY <2>3, <3>1, FS_AddElement
  <2>5. IsFiniteSet(D4) /\ Cardinality(D4) = 4
    <3>1. "title_function" \notin D3
      OBVIOUS
    <3> HIDE DEF D3
    <3> QED
      BY <2>4, <3>1, FS_AddElement
  <2>6. IsFiniteSet(D5) /\ Cardinality(D5) = 5
    <3>1. "buying_intent" \notin D4
      OBVIOUS
    <3> HIDE DEF D4
    <3> QED
      BY <2>5, <3>1, FS_AddElement
  <2>7. IsFiniteSet(D6) /\ Cardinality(D6) = 6
    <3>1. "recent_trigger_event" \notin D5
      OBVIOUS
    <3> HIDE DEF D5
    <3> QED
      BY <2>6, <3>1, FS_AddElement
  <2>8. Dimensions = D6
    BY <1>2
  <2> QED
    BY <2>7, <2>8
<1> QED
  BY <1>2, <1>3, <1>4

(* A sum over the dimensions is that of six terms.                         *)
LEMMA SumOverDimensions ==
  ASSUME NEW f, \A dim \in Dimensions : f[dim] \in Int
  PROVE  SumFunctionOnSet(f, Dimensions) =
           f["employee_count"] + f["industry"] + f["title_seniority"] + f["title_function"]
             + f["buying_intent"] + f["recent_trigger_event"]
<1> DEFINE S1 == Dimensions \ {"employee_count"}
           S2 == S1 \ {"industry"}
           S3 == S2 \ {"title_seniority"}
           S4 == S3 \ {"title_function"}
           S5 == S4 \ {"buying_intent"}
           S6 == S5 \ {"recent_trigger_event"}
<1>1. /\ S1 \in SUBSET Dimensions /\ S2 \in SUBSET Dimensions /\ S3 \in SUBSET Dimensions
      /\ S4 \in SUBSET Dimensions /\ S5 \in SUBSET Dimensions /\ S6 = {}
      /\ "employee_count" \in Dimensions /\ "industry" \in S1 /\ "title_seniority" \in S2
      /\ "title_function" \in S3 /\ "buying_intent" \in S4 /\ "recent_trigger_event" \in S5
  BY SixDimensions
<1>2. \A S \in SUBSET Dimensions :
        /\ IsFiniteSet(S) /\ (\A i \in S : f[i] \in Int)
        /\ SumFunctionOnSet(f, S) \in Int
        /\ \A x \in S : SumFunctionOnSet(f, S) = f[x] + SumFunctionOnSet(f, S \ {x})
  <2> TAKE S \in SUBSET Dimensions
  <2>1. IsFiniteSet(S) /\ (\A i \in S : f[i] \in Int)
    BY SixDimensions, FS_Subset
  <2> QED
    BY <2>1, SumOneOut, SumType
<1>3. SumFunctionOnSet(f, S6) = 0
  BY <1>1, SumEmpty
<1> DEFINE s(S) == SumFunctionOnSet(f, S)
<1> HIDE DEF S1, S2, S3, S4, S5, S6
<1>4. s(Dimensions) = f["employee_count"] + s(S1)
  BY <1>1, <1>2 DEF S1
<1>5. s(S1) = f["industry"] + s(S2)
  BY <1>1, <1>2 DEF S2
<1>6. s(S2) = f["title_seniority"] + s(S3)
  BY <1>1, <1>2 DEF S3
<1>7. s(S3) = f["title_function"] + s(S4)
  BY <1>1, <1>2 DEF S4
<1>8. s(S4) = f["buying_intent"] + s(S5)
  BY <1>1, <1>2 DEF S5
<1>9. s(S5) = f["recent_trigger_event"] + s(S6)
  BY <1>1, <1>2 DEF S6
<1>10. /\ f["employee_count"] \in Int /\ f["industry"] \in Int /\ f["title_seniority"] \in Int
       /\ f["title_function"] \in Int /\ f["buying_intent"] \in Int
       /\ f["recent_trigger_event"] \in Int
  BY SixDimensions
<1> QED
  BY <1>3, <1>4, <1>5, <1>6, <1>7, <1>8, <1>9, <1>10

-----------------------------------------------------------------------------
(* allocate_ceilings, in parts.                                            *)
Levels == [Dimensions -> Range(LEVELS)]
Wanted(levels) == [dim \in Dimensions |-> PREFERENCE_WEIGHTS[levels[dim]]]
WeightOf(levels) ==
  IF SumFunction(Wanted(levels)) = 0
  THEN [dim \in Dimensions |-> PREFERENCE_WEIGHTS["medium"]] ELSE Wanted(levels)
TotalOf(levels) == SumFunction(WeightOf(levels))
BaseOf(levels) == [dim \in Dimensions |-> (100 * WeightOf(levels)[dim]) \div TotalOf(levels)]
RestOf(levels) == [dim \in Dimensions |-> (100 * WeightOf(levels)[dim]) % TotalOf(levels)]
LeftOf(levels) == 100 - SumFunction(BaseOf(levels))
(* Who has a larger remainder, or stands before one with as large a one.   *)
ByRemainder(rest) ==
  {p \in Dimensions \X Dimensions :
     rest[p[1]] > rest[p[2]]
       \/ (rest[p[1]] = rest[p[2]] /\ Position(p[1]) < Position(p[2]))}

(* allocate_ceilings: floors, remainders and the shares that are left.     *)
LEMMA AllocationInParts ==
  ASSUME NEW levels, NEW dim \in Dimensions
  PROVE  AllocateCeilings(levels)[dim] =
           IF RankOf(ByRemainder(RestOf(levels)), Dimensions, dim) < LeftOf(levels)
           THEN BaseOf(levels)[dim] + 1 ELSE BaseOf(levels)[dim]
<1> DEFINE rest == RestOf(levels)
           ahead == {other \in Dimensions :
                       \/ rest[other] > rest[dim]
                       \/ rest[other] = rest[dim] /\ Position(other) < Position(dim)}
<1>1. ahead = AheadOf(ByRemainder(rest), Dimensions, dim)
  BY DEF AheadOf, ByRemainder
<1>2. AllocateCeilings(levels)[dim] =
        IF Cardinality(ahead) < LeftOf(levels)
        THEN BaseOf(levels)[dim] + 1 ELSE BaseOf(levels)[dim]
  BY DEF AllocateCeilings, Wanted, WeightOf, TotalOf, BaseOf, RestOf, LeftOf
<1> QED
  BY <1>1, <1>2 DEF RankOf

(* A number is its quotient times the divisor, and the remainder.          *)
LEMMA DividedIsWhole ==
  ASSUME NEW x \in Nat, NEW d \in Nat \ {0}
  PROVE  /\ x \div d \in Nat /\ x % d \in Nat /\ x % d < d
         /\ x = d * (x \div d) + (x % d)
OBVIOUS

(* The weights, one by one.                                                *)
LEMMA LevelsHaveWeights ==
  /\ Range(LEVELS) = {"none", "low", "medium", "high", "critical"}
  /\ DOMAIN LEVELS = 1 .. 5 /\ Len(LEVELS) = 5
  /\ \A level \in Range(LEVELS) :
       /\ PREFERENCE_WEIGHTS[level] \in 0 .. 7
       /\ Index(level) \in 1 .. 5 /\ LEVELS[Index(level)] = level
  /\ \A a, b \in Range(LEVELS) :
       /\ Index(a) > Index(b) <=> PREFERENCE_WEIGHTS[a] > PREFERENCE_WEIGHTS[b]
       /\ Index(a) = Index(b) <=> a = b
<1>1. DOMAIN LEVELS = 1 .. 5 /\ Len(LEVELS) = 5
  BY DEF LEVELS
<1>2. 1 .. 5 = {1, 2, 3, 4, 5}
  OBVIOUS
<1>3. /\ LEVELS[1] = "none" /\ LEVELS[2] = "low" /\ LEVELS[3] = "medium"
      /\ LEVELS[4] = "high" /\ LEVELS[5] = "critical"
  BY DEF LEVELS
<1>4. Range(LEVELS) = {"none", "low", "medium", "high", "critical"}
  <2>1. Range(LEVELS) = {LEVELS[i] : i \in {1, 2, 3, 4, 5}}
    BY <1>1, <1>2 DEF Range
  <2> QED
    BY <1>3, <2>1
<1>5. /\ Index("none") = 1 /\ Index("low") = 2 /\ Index("medium") = 3
      /\ Index("high") = 4 /\ Index("critical") = 5
  <2>1. \A i \in 1 .. 5 : Index(LEVELS[i]) = i
    <3> TAKE i \in 1 .. 5
    <3>1. \A j \in 1 .. 5 : LEVELS[j] = LEVELS[i] => j = i
      BY <1>2, <1>3
    <3> QED
      BY <1>1, <3>1 DEF Index
  <2> QED
    BY <1>3, <2>1
<1>6. /\ PREFERENCE_WEIGHTS["none"] = 0 /\ PREFERENCE_WEIGHTS["low"] = 1
      /\ PREFERENCE_WEIGHTS["medium"] = 2 /\ PREFERENCE_WEIGHTS["high"] = 4
      /\ PREFERENCE_WEIGHTS["critical"] = 7
  BY DEF PREFERENCE_WEIGHTS
<1>7. \A level \in Range(LEVELS) :
        /\ PREFERENCE_WEIGHTS[level] \in 0 .. 7
        /\ Index(level) \in 1 .. 5 /\ LEVELS[Index(level)] = level
  BY <1>3, <1>4, <1>5, <1>6
<1>8. \A a, b \in Range(LEVELS) :
        /\ Index(a) > Index(b) <=> PREFERENCE_WEIGHTS[a] > PREFERENCE_WEIGHTS[b]
        /\ Index(a) = Index(b) <=> a = b
  BY <1>4, <1>5, <1>6
<1> QED
  BY <1>1, <1>4, <1>7, <1>8

(* Somebody weighs something; what weighs more in words does in numbers,   *)
(* and where indifference is read in, all weigh the same.                  *)
LEMMA WeightsAreWhole ==
  ASSUME NEW levels \in Levels
  PROVE  /\ \A dim \in Dimensions : WeightOf(levels)[dim] \in Nat
         /\ TotalOf(levels) \in Nat \ {0}
         /\ TotalOf(levels) = SumFunctionOnSet(WeightOf(levels), Dimensions)
         /\ \A a, b \in Dimensions :
              /\ Index(levels[a]) > Index(levels[b]) =>
                   WeightOf(levels)[a] > WeightOf(levels)[b]
              /\ Index(levels[a]) = Index(levels[b]) =>
                   WeightOf(levels)[a] = WeightOf(levels)[b]
<1> DEFINE w == Wanted(levels)
           even == [dim \in Dimensions |-> PREFERENCE_WEIGHTS["medium"]]
<1>1. \A dim \in Dimensions : w[dim] = PREFERENCE_WEIGHTS[levels[dim]] /\ levels[dim] \in Range(LEVELS)
  BY DEF Wanted, Levels
<1>2. \A dim \in Dimensions : w[dim] \in Nat /\ w[dim] \in Int
  BY <1>1, LevelsHaveWeights
<1>3. \A dim \in Dimensions : even[dim] = 2
  BY DEF PREFERENCE_WEIGHTS
<1>4. SumFunction(w) = SumFunctionOnSet(w, Dimensions)
  BY DEF SumFunction, Wanted
<1>5. SumFunction(even) = SumFunctionOnSet(even, Dimensions)
  BY DEF SumFunction
<1>6. SumFunction(w) \in Nat
  BY <1>2, <1>4, SixDimensions, SumOfNaturals
<1>7. SumFunction(even) = 12
  <2>1. \A dim \in Dimensions : even[dim] \in Int
    BY <1>3
  <2>2. SumFunctionOnSet(even, Dimensions) =
          even["employee_count"] + even["industry"] + even["title_seniority"] + even["title_function"]
             + even["buying_intent"] + even["recent_trigger_event"]
    <3> HIDE DEF even
    <3> QED
      BY <2>1, SumOverDimensions
  <2> HIDE DEF even
  <2> QED
    BY <1>3, <1>5, <2>2, SixDimensions
<1>8. CASE SumFunction(w) # 0
  <2>1. WeightOf(levels) = w
    BY <1>8 DEF WeightOf
  <2> HIDE DEF w
  <2> QED
    BY <1>1, <1>2, <1>4, <1>6, <1>8, <2>1, LevelsHaveWeights DEF TotalOf
<1>9. CASE SumFunction(w) = 0
  <2>1. WeightOf(levels) = even
    BY <1>9 DEF WeightOf
  <2>2. \A dim \in Dimensions : w[dim] = 0
    <3>1. SumFunctionOnSet(w, Dimensions) =
            w["employee_count"] + w["industry"] + w["title_seniority"] + w["title_function"]
             + w["buying_intent"] + w["recent_trigger_event"]
      <4> HIDE DEF w
      <4> QED
        BY <1>2, SumOverDimensions
    <3> HIDE DEF w
    <3>2. /\ w["employee_count"] \in Nat /\ w["industry"] \in Nat /\ w["title_seniority"] \in Nat
          /\ w["title_function"] \in Nat /\ w["buying_intent"] \in Nat
          /\ w["recent_trigger_event"] \in Nat
      BY <1>2, SixDimensions
    <3>3. /\ w["employee_count"] = 0 /\ w["industry"] = 0 /\ w["title_seniority"] = 0
          /\ w["title_function"] = 0 /\ w["buying_intent"] = 0
          /\ w["recent_trigger_event"] = 0
      <4>1. w["employee_count"] + w["industry"] + w["title_seniority"] + w["title_function"]
             + w["buying_intent"] + w["recent_trigger_event"] = 0
        BY <1>4, <1>9, <3>1
      <4>2. PICK a, b, c, d, e, f :
              /\ a = w["employee_count"] /\ b = w["industry"] /\ c = w["title_seniority"]
              /\ d = w["title_function"] /\ e = w["buying_intent"] /\ f = w["recent_trigger_event"]
        OBVIOUS
      <4>3. a + b + c + d + e + f = 0
        BY <4>1, <4>2
      <4>4. a \in Nat /\ b \in Nat /\ c \in Nat /\ d \in Nat /\ e \in Nat /\ f \in Nat
        BY <3>2, <4>2
      <4>5. a = 0 /\ b = 0 /\ c = 0 /\ d = 0 /\ e = 0 /\ f = 0
        BY <4>3, <4>4
      <4> QED
        BY <4>2, <4>5
    <3> QED
      BY <3>3, SixDimensions
  <2>3. \A a, b \in Dimensions : ~(Index(levels[a]) > Index(levels[b]))
    <3> TAKE a, b \in Dimensions
    <3>1. PREFERENCE_WEIGHTS[levels[a]] = 0 /\ PREFERENCE_WEIGHTS[levels[b]] = 0
      BY <1>1, <2>2
    <3> QED
      BY <1>1, <3>1, LevelsHaveWeights
  <2> HIDE DEF w, even
  <2>4. TotalOf(levels) = 12 /\ TotalOf(levels) = SumFunctionOnSet(WeightOf(levels), Dimensions)
    BY <1>5, <1>7, <2>1 DEF TotalOf
  <2>5. \A dim \in Dimensions : WeightOf(levels)[dim] = 2
    BY <1>3, <2>1
  <2> QED
    BY <2>3, <2>4, <2>5
<1> QED
  BY <1>8, <1>9

(* By remainder, ties by position, is a strict order.                      *)
LEMMA RemaindersAreOrdered ==
  ASSUME NEW rest, \A dim \in Dimensions : rest[dim] \in Nat
  PROVE  StrictOrder(ByRemainder(rest), Dimensions)
<1> DEFINE R == ByRemainder(rest)
<1>1. \A a, b \in Dimensions :
        <<a, b>> \in R <=> (rest[a] > rest[b] \/ (rest[a] = rest[b] /\ Position(a) < Position(b)))
  <2> TAKE a, b \in Dimensions
  <2>1. <<a, b>> \in Dimensions \X Dimensions /\ <<a, b>>[1] = a /\ <<a, b>>[2] = b
    OBVIOUS
  <2> QED
    BY <2>1 DEF ByRemainder
<1>2. \A a, b \in Dimensions : Position(a) \in Nat /\ (Position(a) = Position(b) => a = b)
  BY SixDimensions
<1> HIDE DEF R
<1>3. \A x \in Dimensions : <<x, x>> \notin R
  BY <1>1, <1>2
<1>4. \A x, y \in Dimensions : x # y => <<x, y>> \in R \/ <<y, x>> \in R
  <2> TAKE x, y \in Dimensions
  <2>1. rest[x] \in Nat /\ rest[y] \in Nat /\ Position(x) \in Nat /\ Position(y) \in Nat
        /\ (Position(x) = Position(y) => x = y)
    BY <1>2
  <2>2. /\ <<x, y>> \in R <=> (rest[x] > rest[y] \/ (rest[x] = rest[y] /\ Position(x) < Position(y)))
        /\ <<y, x>> \in R <=> (rest[y] > rest[x] \/ (rest[y] = rest[x] /\ Position(y) < Position(x)))
    BY <1>1
  <2> QED
    BY <2>1, <2>2
<1>5. \A x, y, z \in Dimensions : <<x, y>> \in R /\ <<y, z>> \in R => <<x, z>> \in R
  <2> TAKE x, y, z \in Dimensions
  <2>1. /\ rest[x] \in Nat /\ rest[y] \in Nat /\ rest[z] \in Nat
        /\ Position(x) \in Nat /\ Position(y) \in Nat /\ Position(z) \in Nat
    BY <1>2
  <2>2. /\ <<x, y>> \in R <=> (rest[x] > rest[y] \/ (rest[x] = rest[y] /\ Position(x) < Position(y)))
        /\ <<y, z>> \in R <=> (rest[y] > rest[z] \/ (rest[y] = rest[z] /\ Position(y) < Position(z)))
        /\ <<x, z>> \in R <=> (rest[x] > rest[z] \/ (rest[x] = rest[z] /\ Position(x) < Position(z)))
    BY <1>1
  <2> QED
    BY <2>1, <2>2
<1> QED
  BY <1>3, <1>4, <1>5 DEF StrictOrder, R

(* What is left after the whole shares is less than one point each.        *)
LEMMA LessThanSixAreLeft ==
  ASSUME NEW t \in Nat \ {0}, NEW l \in Int, NEW r \in Nat, t * l = r, r < 6 * t
  PROVE  l \in 0 .. 5
<1>1. l >= 0
  <2> SUFFICES ASSUME l <= -1 PROVE FALSE
    OBVIOUS
  <2>1. PICK k \in Nat : k = -1 - l
    OBVIOUS
  <2>2. t * l = -t - t * k /\ t * k \in Nat
    BY <2>1
  <2> QED
    BY <2>2
<1>2. l <= 5
  <2> SUFFICES ASSUME l >= 6 PROVE FALSE
    OBVIOUS
  <2>1. PICK k \in Nat : k = l - 6
    OBVIOUS
  <2>2. t * l = 6 * t + t * k /\ t * k \in Nat
    BY <2>1
  <2> QED
    BY <2>2
<1> QED
  BY <1>1, <1>2

(* The floors of six shares miss a hundred by less than six points.        *)
LEMMA SixSharesAndRemainders ==
  ASSUME NEW t \in Nat \ {0},
         NEW b1 \in Nat, NEW b2 \in Nat, NEW b3 \in Nat, NEW b4 \in Nat, NEW b5 \in Nat, NEW b6 \in Nat,
         NEW r1 \in Nat, NEW r2 \in Nat, NEW r3 \in Nat, NEW r4 \in Nat, NEW r5 \in Nat, NEW r6 \in Nat,
         NEW w1 \in Nat, NEW w2 \in Nat, NEW w3 \in Nat, NEW w4 \in Nat, NEW w5 \in Nat, NEW w6 \in Nat,
         /\ 100 * w1 = t * b1 + r1 /\ r1 < t
         /\ 100 * w2 = t * b2 + r2 /\ r2 < t
         /\ 100 * w3 = t * b3 + r3 /\ r3 < t
         /\ 100 * w4 = t * b4 + r4 /\ r4 < t
         /\ 100 * w5 = t * b5 + r5 /\ r5 < t
         /\ 100 * w6 = t * b6 + r6 /\ r6 < t,
         t = w1 + w2 + w3 + w4 + w5 + w6
  PROVE  100 - (b1 + b2 + b3 + b4 + b5 + b6) \in 0 .. 5
<1> DEFINE l == 100 - (b1 + b2 + b3 + b4 + b5 + b6)
           r == r1 + r2 + r3 + r4 + r5 + r6
<1>1. l \in Int /\ r \in Nat /\ r < 6 * t
  OBVIOUS
<1>2. t * (b1 + b2 + b3 + b4 + b5 + b6) = t * b1 + t * b2 + t * b3 + t * b4 + t * b5 + t * b6
  OBVIOUS
<1>3. t * l = 100 * t - t * (b1 + b2 + b3 + b4 + b5 + b6)
  OBVIOUS
<1>4. t * b1 \in Nat /\ t * b2 \in Nat /\ t * b3 \in Nat /\ t * b4 \in Nat /\ t * b5 \in Nat
      /\ t * b6 \in Nat
  OBVIOUS
<1>5. t * l = r
  BY <1>2, <1>3, <1>4
<1> HIDE DEF l, r
<1>6. l \in 0 .. 5
  BY <1>1, <1>5, LessThanSixAreLeft
<1> QED
  BY <1>6 DEF l

(* The whole shares and the remainders of the weights.                     *)
LEMMA SharesAreWhole ==
  ASSUME NEW levels \in Levels
  PROVE  /\ \A dim \in Dimensions :
              /\ BaseOf(levels)[dim] \in Nat /\ RestOf(levels)[dim] \in Nat
              /\ RestOf(levels)[dim] < TotalOf(levels)
              /\ 100 * WeightOf(levels)[dim] =
                   TotalOf(levels) * BaseOf(levels)[dim] + RestOf(levels)[dim]
         /\ LeftOf(levels) \in 0 .. 5
         /\ SumFunctionOnSet(BaseOf(levels), Dimensions) = 100 - LeftOf(levels)
<1> DEFINE w == WeightOf(levels)
           t == TotalOf(levels)
           b == BaseOf(levels)
           r == RestOf(levels)
<1>1. t \in Nat \ {0} /\ \A dim \in Dimensions : w[dim] \in Nat /\ w[dim] \in Int
  BY WeightsAreWhole
<1>2. \A dim \in Dimensions :
        /\ b[dim] \in Nat /\ r[dim] \in Nat /\ r[dim] < t
        /\ 100 * w[dim] = t * b[dim] + r[dim]
  <2> TAKE dim \in Dimensions
  <2>1. b[dim] = (100 * w[dim]) \div t /\ r[dim] = (100 * w[dim]) % t
    BY DEF BaseOf, RestOf
  <2>2. PICK x \in Nat : x = 100 * w[dim]
    BY <1>1
  <2> HIDE DEF w, t, b, r
  <2>3. /\ x \div t \in Nat /\ x % t \in Nat /\ x % t < t
        /\ x = t * (x \div t) + (x % t)
    BY <1>1, DividedIsWhole
  <2> QED
    BY <2>1, <2>2, <2>3
<1>3. SumFunction(b) = SumFunctionOnSet(b, Dimensions)
  BY DEF SumFunction, BaseOf
<1>4. LeftOf(levels) = 100 - SumFunction(b)
  BY DEF LeftOf
<1>5. t = SumFunctionOnSet(w, Dimensions)
  BY WeightsAreWhole
<1> HIDE DEF w, t, b, r
<1>6. SumFunctionOnSet(b, Dimensions) =
        b["employee_count"] + b["industry"] + b["title_seniority"] + b["title_function"]
          + b["buying_intent"] + b["recent_trigger_event"]
  BY <1>2, SumOverDimensions
<1>7. SumFunctionOnSet(w, Dimensions) =
        w["employee_count"] + w["industry"] + w["title_seniority"] + w["title_function"]
          + w["buying_intent"] + w["recent_trigger_event"]
  BY <1>1, SumOverDimensions
<1>8. SumFunctionOnSet(b, Dimensions) \in Int
  BY <1>2, SixDimensions, SumOfNaturals
<1>9. 100 - SumFunctionOnSet(b, Dimensions) \in 0 .. 5
  <2> DEFINE one == "employee_count"
             two == "industry"
             three == "title_seniority"
             four == "title_function"
             five == "buying_intent"
             six == "recent_trigger_event"
  <2>1. one \in Dimensions /\ two \in Dimensions /\ three \in Dimensions /\ four \in Dimensions
        /\ five \in Dimensions /\ six \in Dimensions
    BY SixDimensions
  <2> HIDE DEF one, two, three, four, five, six
  <2>2. PICK b1, b2, b3, b4, b5, b6 :
          b1 = b[one] /\ b2 = b[two] /\ b3 = b[three] /\ b4 = b[four] /\ b5 = b[five] /\ b6 = b[six]
    OBVIOUS
  <2>3. PICK r1, r2, r3, r4, r5, r6 :
          r1 = r[one] /\ r2 = r[two] /\ r3 = r[three] /\ r4 = r[four] /\ r5 = r[five] /\ r6 = r[six]
    OBVIOUS
  <2>4. PICK w1, w2, w3, w4, w5, w6 :
          w1 = w[one] /\ w2 = w[two] /\ w3 = w[three] /\ w4 = w[four] /\ w5 = w[five] /\ w6 = w[six]
    OBVIOUS
  <2>5. /\ b1 \in Nat /\ b2 \in Nat /\ b3 \in Nat /\ b4 \in Nat /\ b5 \in Nat /\ b6 \in Nat
        /\ r1 \in Nat /\ r2 \in Nat /\ r3 \in Nat /\ r4 \in Nat /\ r5 \in Nat /\ r6 \in Nat
    BY <1>2, <2>1, <2>2, <2>3
  <2>6. w1 \in Nat /\ w2 \in Nat /\ w3 \in Nat /\ w4 \in Nat /\ w5 \in Nat /\ w6 \in Nat
    BY <1>1, <2>1, <2>4
  <2>7. /\ 100 * w1 = t * b1 + r1 /\ r1 < t
        /\ 100 * w2 = t * b2 + r2 /\ r2 < t
        /\ 100 * w3 = t * b3 + r3 /\ r3 < t
        /\ 100 * w4 = t * b4 + r4 /\ r4 < t
        /\ 100 * w5 = t * b5 + r5 /\ r5 < t
        /\ 100 * w6 = t * b6 + r6 /\ r6 < t
    BY <1>2, <2>1, <2>2, <2>3, <2>4
  <2>8. t = w1 + w2 + w3 + w4 + w5 + w6
    BY <1>5, <1>7, <2>4 DEF one, two, three, four, five, six
  <2>9. SumFunctionOnSet(b, Dimensions) = b1 + b2 + b3 + b4 + b5 + b6
    BY <1>6, <2>2 DEF one, two, three, four, five, six
  <2>10. 100 - (b1 + b2 + b3 + b4 + b5 + b6) \in 0 .. 5
    BY <1>1, <2>5, <2>6, <2>7, <2>8, SixSharesAndRemainders
  <2> QED
    BY <2>9, <2>10
<1>10. LeftOf(levels) \in 0 .. 5 /\ SumFunctionOnSet(b, Dimensions) = 100 - LeftOf(levels)
  BY <1>3, <1>4, <1>8, <1>9
<1> QED
  BY <1>2, <1>10 DEF w, t, b, r

(* A larger weight has no smaller share, and at the same share a larger    *)
(* remainder.                                                              *)
LEMMA SharesKeepOrder ==
  ASSUME NEW t \in Nat \ {0}, NEW b1 \in Nat, NEW b2 \in Nat, NEW r1 \in Nat, NEW r2 \in Nat,
         NEW w1 \in Nat, NEW w2 \in Nat,
         100 * w1 = t * b1 + r1, 100 * w2 = t * b2 + r2, r1 < t, r2 < t
  PROVE  /\ w1 > w2 => b1 > b2 \/ (b1 = b2 /\ r1 > r2)
         /\ w1 = w2 => b1 = b2
<1>1. \A c, d, p, q \in Nat : p < t /\ q < t /\ c < d => t * c + p < t * d + q
  <2> TAKE c, d, p, q \in Nat
  <2> HAVE p < t /\ q < t /\ c < d
  <2>1. PICK k \in Nat : d = c + 1 + k
    <3>1. d - c - 1 \in Nat
      OBVIOUS
    <3>2. d = c + 1 + (d - c - 1)
      OBVIOUS
    <3> QED
      BY <3>1, <3>2
  <2>2. t * d = t * c + t + t * k /\ t * k \in Nat /\ t * c \in Nat
    BY <2>1
  <2> QED
    BY <2>2
<1>2. b1 < b2 => 100 * w1 < 100 * w2
  BY <1>1
<1>3. b2 < b1 => 100 * w2 < 100 * w1
  BY <1>1
<1>4. b1 = b2 /\ w1 > w2 => r1 > r2
  <2> HAVE b1 = b2 /\ w1 > w2
  <2>1. PICK n \in Nat : n = t * b1
    OBVIOUS
  <2>2. n = t * b2
    BY <2>1
  <2> QED
    BY <2>1, <2>2
<1> QED
  BY <1>2, <1>3, <1>4

(* normalization.py: the points add up to 100, and what matters more gets  *)
(* no fewer.                                                               *)
LEMMA AllocationIsFair ==
  ASSUME NEW levels \in Levels
  PROVE  /\ AllocateCeilings(levels) \in [Dimensions -> 0 .. 100]
         /\ SumFunctionOnSet(AllocateCeilings(levels), Dimensions) = 100
         /\ \A a, b \in Dimensions :
              /\ Index(levels[a]) > Index(levels[b]) =>
                   AllocateCeilings(levels)[a] >= AllocateCeilings(levels)[b]
              /\ Index(levels[a]) = Index(levels[b]) =>
                   AllocateCeilings(levels)[a] <= AllocateCeilings(levels)[b] + 1
<1> DEFINE c == AllocateCeilings(levels)
           b == BaseOf(levels)
           r == RestOf(levels)
           R == ByRemainder(RestOf(levels))
           left == LeftOf(levels)
           rank(dim) == RankOf(R, Dimensions, dim)
           top == {dim \in Dimensions : RankOf(R, Dimensions, dim) < LeftOf(levels)}
<1>1. /\ \A dim \in Dimensions : b[dim] \in Nat /\ b[dim] \in Int /\ r[dim] \in Nat
      /\ left \in 0 .. 5
      /\ SumFunctionOnSet(b, Dimensions) = 100 - left
  BY SharesAreWhole
<1>2. StrictOrder(R, Dimensions)
  BY <1>1, RemaindersAreOrdered
<1>3. \A dim \in Dimensions : c[dim] = IF rank(dim) < left THEN b[dim] + 1 ELSE b[dim]
  BY AllocationInParts
<1>4. DOMAIN c = Dimensions /\ c = [dim \in Dimensions |-> c[dim]]
  BY DEF AllocateCeilings
<1>5. \A x, y \in Dimensions :
        /\ rank(x) \in Nat
        /\ <<x, y>> \in R => rank(x) < rank(y)
  <2> HIDE DEF R
  <2> TAKE x, y \in Dimensions
  <2>1. RankOf(R, Dimensions, x) \in Nat
        /\ (<<x, y>> \in R => RankOf(R, Dimensions, x) < RankOf(R, Dimensions, y))
    BY <1>2, SixDimensions, RanksAreOrdered
  <2> QED
    BY <2>1
<1>6. SumFunctionOnSet(c, Dimensions) = 100
  <2>1. \A dim \in Dimensions : c[dim] = Raised(b, Dimensions, top)[dim]
    BY <1>3 DEF Raised
  <2>2. SumFunctionOnSet(c, Dimensions) = SumFunctionOnSet(Raised(b, Dimensions, top), Dimensions)
    <3> HIDE DEF c, top, b
    <3> QED
      BY <2>1, SixDimensions, SumSameTerms
  <2>3. top \in SUBSET Dimensions
    OBVIOUS
  <2>4. SumFunctionOnSet(Raised(b, Dimensions, top), Dimensions) =
          SumFunctionOnSet(b, Dimensions) + Cardinality(top)
    <3>1. \A x \in Dimensions : b[x] \in Int
      BY <1>1
    <3>2. IsFiniteSet(Dimensions)
      BY SixDimensions
    <3> HIDE DEF top, b
    <3> QED
      BY <2>3, <3>1, <3>2, SumOfRaised
  <2>5. Cardinality(top) = left
    <3>1. left \in 0 .. Cardinality(Dimensions)
      BY <1>1, SixDimensions
    <3> HIDE DEF R
    <3> QED
      BY <1>2, <3>1, SixDimensions, FirstRanks
  <2> HIDE DEF c, top, b, left
  <2> QED
    BY <1>1, <2>2, <2>4, <2>5
<1>7. \A dim \in Dimensions : c[dim] \in Nat /\ b[dim] <= c[dim] /\ c[dim] <= b[dim] + 1
  <2> HIDE DEF c, b, left, rank
  <2> QED
    BY <1>1, <1>3
<1>8. \A dim \in Dimensions : c[dim] <= 100
  <2> TAKE dim \in Dimensions
  <2>1. \A x \in Dimensions : c[x] \in Int
    BY <1>7
  <2>2. IsFiniteSet(Dimensions \ {dim}) /\ \A x \in Dimensions \ {dim} : c[x] \in Nat
    BY <1>7, SixDimensions, FS_Subset
  <2> HIDE DEF c
  <2>3. SumFunctionOnSet(c, Dimensions) = c[dim] + SumFunctionOnSet(c, Dimensions \ {dim})
    BY <2>1, SixDimensions, SumOneOut
  <2>4. SumFunctionOnSet(c, Dimensions \ {dim}) \in Nat
    BY <2>2, SumOfNaturals
  <2>5. c[dim] \in Nat
    BY <1>7
  <2> QED
    BY <1>6, <2>3, <2>4, <2>5
<1>9. ASSUME NEW x \in Dimensions, NEW y \in Dimensions
      PROVE  /\ Index(levels[x]) > Index(levels[y]) => c[x] >= c[y]
             /\ Index(levels[x]) = Index(levels[y]) => c[x] <= c[y] + 1
  <2> DEFINE w == WeightOf(levels)
             t == TotalOf(levels)
  <2>1. /\ t \in Nat \ {0} /\ w[x] \in Nat /\ w[y] \in Nat
        /\ Index(levels[x]) > Index(levels[y]) => w[x] > w[y]
        /\ Index(levels[x]) = Index(levels[y]) => w[x] = w[y]
    BY WeightsAreWhole
  <2>2. /\ b[x] \in Nat /\ r[x] \in Nat /\ r[x] < t /\ 100 * w[x] = t * b[x] + r[x]
        /\ b[y] \in Nat /\ r[y] \in Nat /\ r[y] < t /\ 100 * w[y] = t * b[y] + r[y]
    BY SharesAreWhole
  <2>3. <<x, y>> \in R <=> (r[x] > r[y] \/ (r[x] = r[y] /\ Position(x) < Position(y)))
    <3>1. <<x, y>> \in Dimensions \X Dimensions /\ <<x, y>>[1] = x /\ <<x, y>>[2] = y
      OBVIOUS
    <3> QED
      BY <3>1 DEF ByRemainder
  <2> HIDE DEF w, t, r, R, b, c
  <2>4. /\ w[x] > w[y] => b[x] > b[y] \/ (b[x] = b[y] /\ r[x] > r[y])
        /\ w[x] = w[y] => b[x] = b[y]
    <3>1. PICK w1, w2, b1, b2, r1, r2 :
            w1 = w[x] /\ w2 = w[y] /\ b1 = b[x] /\ b2 = b[y] /\ r1 = r[x] /\ r2 = r[y]
      OBVIOUS
    <3>2. /\ b1 \in Nat /\ b2 \in Nat /\ r1 \in Nat /\ r2 \in Nat /\ w1 \in Nat /\ w2 \in Nat
          /\ 100 * w1 = t * b1 + r1 /\ 100 * w2 = t * b2 + r2 /\ r1 < t /\ r2 < t
      BY <2>1, <2>2, <3>1
    <3>3. /\ w1 > w2 => b1 > b2 \/ (b1 = b2 /\ r1 > r2)
          /\ w1 = w2 => b1 = b2
      BY <2>1, <3>2, SharesKeepOrder
    <3> QED
      BY <3>1, <3>3
  <2>5. /\ c[x] \in Nat /\ b[x] <= c[x] /\ c[x] <= b[x] + 1
        /\ c[y] \in Nat /\ b[y] <= c[y] /\ c[y] <= b[y] + 1
    BY <1>7
  <2>6. ASSUME b[x] = b[y], r[x] > r[y] PROVE c[x] >= c[y]
    <3>1. rank(x) < rank(y) /\ rank(x) \in Nat /\ rank(y) \in Nat
      BY <1>5, <2>3, <2>6
    <3> HIDE DEF rank, left
    <3>2. /\ c[x] = IF rank(x) < left THEN b[x] + 1 ELSE b[x]
          /\ c[y] = IF rank(y) < left THEN b[y] + 1 ELSE b[y]
      BY <1>3
    <3>3. left \in Nat
      BY <1>1
    <3> QED
      BY <2>2, <2>6, <3>1, <3>2, <3>3
  <2> QED
    BY <2>1, <2>2, <2>4, <2>5, <2>6
<1>10. c \in [Dimensions -> 0 .. 100]
  BY <1>4, <1>7, <1>8
<1> QED
  BY <1>6, <1>9, <1>10

-----------------------------------------------------------------------------
(* build_scoring_config.                                                   *)

(* The greatest of a set that is bounded by one of its members.            *)
LEMMA GreatestIs ==
  ASSUME NEW S \in SUBSET Int, NEW m \in S, \A x \in S : x <= m
  PROVE  Max(S) = m
<1>1. \A x \in S : m >= x
  OBVIOUS
<1>2. Max(S) \in S /\ \A y \in S : Max(S) >= y
  BY <1>1 DEF Max
<1>3. Max(S) \in Int /\ m \in Int /\ Max(S) >= m /\ m >= Max(S)
  BY <1>1, <1>2
<1> QED
  BY <1>3

(* A table in which something earns the ceiling and nothing more has it as *)
(* its maximum.                                                            *)
LEMMA CeilingIsEarned ==
  ASSUME NEW config, NEW f, NEW ceiling \in Nat,
         \E v \in DOMAIN config.points[f] : config.points[f][v] = ceiling,
         \A v \in DOMAIN config.points[f] :
           config.points[f][v] \in Nat /\ config.points[f][v] <= ceiling
  PROVE  MaxFieldPoints(config, f) = ceiling
<1> DEFINE S == {0} \cup Range(config.points[f])
<1>1. S \in SUBSET Int /\ ceiling \in S /\ \A x \in S : x <= ceiling
  BY DEF Range
<1> HIDE DEF S
<1>2. Max(S) = ceiling
  BY <1>1, GreatestIs
<1> QED
  BY <1>2 DEF S, MaxFieldPoints

(* Rounding a half up never exceeds what was halved.                       *)
LEMMA HalfIsLess == ASSUME NEW n \in Nat PROVE n \div 2 \in Nat /\ n \div 2 <= n
OBVIOUS

(* The best category of a dimension earns its whole ceiling.               *)
LEMMA CategoriesEarnTheCeiling ==
  ASSUME NEW preferred, NEW acceptable, NEW ceiling \in Nat, NEW fallback, fallback # {}
  PROVE  LET points == CategoryPoints(preferred, acceptable, ceiling, fallback)
         IN  /\ \E v \in DOMAIN points : points[v] = ceiling
             /\ \A v \in DOMAIN points : points[v] \in Nat /\ points[v] <= ceiling
<1> DEFINE top == IF preferred # {} THEN preferred
                  ELSE IF acceptable # {} THEN acceptable ELSE fallback
           points == [category \in top \cup acceptable |->
                        IF category \in top THEN ceiling ELSE ceiling \div 2]
<1>1. CategoryPoints(preferred, acceptable, ceiling, fallback) = points
  BY DEF CategoryPoints
<1>2. top # {}
  OBVIOUS
<1> HIDE DEF top
<1>3. PICK category : category \in top
  BY <1>2
<1>4. category \in DOMAIN points /\ points[category] = ceiling
  BY <1>3
<1>5. \A v \in DOMAIN points : points[v] \in Nat /\ points[v] <= ceiling
  BY HalfIsLess
<1> QED
  BY <1>1, <1>4, <1>5

(* The bands of head counts, in order.                                     *)
LEMMA FiveBands ==
  /\ DOMAIN EMPLOYEE_BANDS = 1 .. 5
  /\ {"e50", "e200"} \subseteq Range(EMPLOYEE_BANDS)
<1>1. DOMAIN EMPLOYEE_BANDS = 1 .. 5
  BY DEF EMPLOYEE_BANDS
<1>2. EMPLOYEE_BANDS[2] = "e50" /\ EMPLOYEE_BANDS[3] = "e200" /\ 2 \in 1 .. 5 /\ 3 \in 1 .. 5
  BY DEF EMPLOYEE_BANDS
<1> QED
  BY <1>1, <1>2 DEF Range

(* Some band is preferred, whatever is avoided.                            *)
LEMMA SomeBandIsPreferred ==
  ASSUME NEW bands
  PROVE  PreferredBands(bands) # {} /\ PreferredBands(bands) \subseteq Range(EMPLOYEE_BANDS)
<1> DEFINE all  == Range(EMPLOYEE_BANDS)
           view == [b \in all |-> IF b \in DOMAIN bands THEN bands[b] ELSE "acceptable"]
           liked == {b \in all : view[b] = "preferred"}
           spare == {b \in {"e50", "e200"} : view[b] # "avoid"}
           open == {i \in DOMAIN EMPLOYEE_BANDS : view[EMPLOYEE_BANDS[i]] = "acceptable"}
<1>1. PreferredBands(bands) =
        IF liked # {} THEN liked
        ELSE IF spare # {} THEN spare
        ELSE IF open # {} THEN {EMPLOYEE_BANDS[Min(open)]} ELSE {"e200"}
  BY DEF PreferredBands
<1>2. liked \subseteq all /\ spare \subseteq all
  BY FiveBands
<1>3. open # {} => EMPLOYEE_BANDS[Min(open)] \in all
  <2> HAVE open # {}
  <2>1. open \in SUBSET Nat /\ open \subseteq 1 .. 5
    BY FiveBands
  <2>2. Min(open) \in open
    <3> HIDE DEF open
    <3>1. \E i \in open : \A j \in open : i <= j
      BY <2>1, LeastOf
    <3> QED
      BY <3>1 DEF Min
  <2> QED
    BY <2>2 DEF Range
<1> HIDE DEF liked, spare, open
<1> QED
  BY <1>1, <1>2, <1>3, FiveBands

(* The preferred bands earn the ceiling, the others at most that.          *)
LEMMA BandsEarnTheCeiling ==
  ASSUME NEW bands, NEW ceiling \in Nat
  PROVE  LET points == EmployeeBands(bands, ceiling)
         IN  /\ \E v \in DOMAIN points : points[v] = ceiling
             /\ \A v \in DOMAIN points : points[v] \in Nat /\ points[v] <= ceiling
<1> DEFINE points == [b \in Range(EMPLOYEE_BANDS) |->
                        IF b \in PreferredBands(bands) THEN ceiling
                        ELSE IF b \in DOMAIN bands /\ bands[b] = "avoid" THEN 0
                        ELSE ceiling \div 2]
<1>1. EmployeeBands(bands, ceiling) = points
  BY DEF EmployeeBands
<1>2. PICK b : b \in PreferredBands(bands) /\ b \in Range(EMPLOYEE_BANDS)
  BY SomeBandIsPreferred
<1>3. b \in DOMAIN points /\ points[b] = ceiling
  BY <1>2
<1>4. \A v \in DOMAIN points : points[v] \in Nat /\ points[v] <= ceiling
  BY HalfIsLess
<1> QED
  BY <1>1, <1>3, <1>4

(* Of every dimension a lead can earn what was allocated.                  *)
LEMMA CeilingsAreAllocated ==
  ASSUME NEW draft, draft.levels \in Levels, NEW objective, NEW dim \in Dimensions
  PROVE  MaxFieldPoints(BuildScoringConfig(draft, objective), dim) = AllocateCeilings(draft.levels)[dim]
<1> DEFINE config == BuildScoringConfig(draft, objective)
           c == AllocateCeilings(draft.levels)
<1>1. \A d \in Dimensions : c[d] \in Nat
  BY AllocationIsFair
<1>2. config.points[dim] =
        IF dim \in Listed
        THEN CategoryPoints(draft.preferred[dim], draft.acceptable[dim], c[dim], FALLBACK[dim])
        ELSE [employee_count |-> EmployeeBands(draft.bands, c["employee_count"]),
              buying_intent |-> [full |-> c["buying_intent"]],
              recent_trigger_event |-> [yes |-> c["recent_trigger_event"]]][dim]
  <2> HIDE DEF c
  <2> QED
    BY DEF BuildScoringConfig, c
<1> HIDE DEF config, c
<1>3. /\ \E v \in DOMAIN config.points[dim] : config.points[dim][v] = c[dim]
      /\ \A v \in DOMAIN config.points[dim] :
           config.points[dim][v] \in Nat /\ config.points[dim][v] <= c[dim]
  <2>1. CASE dim \in Listed
    <3>1. FALLBACK[dim] # {}
      BY <2>1 DEF Listed, FALLBACK
    <3> QED
      BY <1>1, <1>2, <2>1, <3>1, CategoriesEarnTheCeiling
  <2>2. CASE dim = "employee_count"
    <3>1. config.points[dim] = EmployeeBands(draft.bands, c[dim])
      BY <1>2, <2>2 DEF Listed
    <3> QED
      BY <1>1, <3>1, BandsEarnTheCeiling
  <2>3. CASE dim = "buying_intent"
    <3>1. config.points[dim] = [full |-> c[dim]]
      BY <1>2, <2>3 DEF Listed
    <3>2. c[dim] \in Nat
      BY <1>1
    <3> QED
      BY <3>1, <3>2
  <2>4. CASE dim = "recent_trigger_event"
    <3>1. config.points[dim] = [yes |-> c[dim]]
      BY <1>2, <2>4 DEF Listed
    <3>2. c[dim] \in Nat
      BY <1>1
    <3> QED
      BY <3>1, <3>2
  <2> QED
    BY <2>1, <2>2, <2>3, <2>4, SixDimensions DEF Listed
<1>4. MaxFieldPoints(config, dim) = c[dim]
  <2>1. c[dim] \in Nat
    BY <1>1
  <2>2. PICK n \in Nat : n = c[dim]
    BY <2>1
  <2>3. MaxFieldPoints(config, dim) = n
    BY <1>3, <2>2, CeilingIsEarned
  <2> QED
    BY <2>2, <2>3
<1> QED
  BY <1>4 DEF config, c

(* What every draft becomes can be stored, and keeps what it says.         *)
LEMMA DraftsAreValid ==
  ASSUME NEW draft, draft.levels \in Levels, NEW objective \in DOMAIN OBJECTIVE_THRESHOLDS
  PROVE  /\ ValidConfig(BuildScoringConfig(draft, objective))
         /\ OrderKept(PointsOf(BuildScoringConfig(draft, objective)),
                      [dim \in Dimensions |-> Index(draft.levels[dim])])
<1> DEFINE config == BuildScoringConfig(draft, objective)
           c == AllocateCeilings(draft.levels)
           top == [dim \in Dimensions |-> MaxFieldPoints(config, dim)]
<1>1. \A dim \in Dimensions : top[dim] = c[dim]
  BY CeilingsAreAllocated
<1>2. SumFunctionOnSet(c, Dimensions) = 100
  BY AllocationIsFair
<1>3. CeilingTotal(config) = 100
  <2>1. CeilingTotal(config) = SumFunctionOnSet(top, Dimensions)
    BY DEF CeilingTotal, SumFunction
  <2> HIDE DEF config, c, top
  <2>2. SumFunctionOnSet(top, Dimensions) = SumFunctionOnSet(c, Dimensions)
    BY <1>1, SixDimensions, SumSameTerms
  <2> QED
    BY <1>2, <2>1, <2>2
<1>4. /\ config.qualify = OBJECTIVE_THRESHOLDS[objective][1]
      /\ config.reject = OBJECTIVE_THRESHOLDS[objective][2]
  BY DEF BuildScoringConfig
<1>5. 0 <= config.reject /\ config.reject < config.qualify /\ config.qualify <= 100
  <2> HIDE DEF config
  <2> QED
    BY <1>4 DEF OBJECTIVE_THRESHOLDS
<1>6. OrderKept(PointsOf(config), [dim \in Dimensions |-> Index(draft.levels[dim])])
  <2>1. PointsOf(config) = top
    BY DEF PointsOf
  <2>2. \A a, b \in Dimensions :
          /\ Index(draft.levels[a]) > Index(draft.levels[b]) => c[a] >= c[b]
          /\ Index(draft.levels[a]) = Index(draft.levels[b]) => c[a] <= c[b] + 1
    BY AllocationIsFair
  <2> HIDE DEF config, c, top
  <2> QED
    BY <1>1, <2>1, <2>2 DEF OrderKept
<1> QED
  BY <1>3, <1>5, <1>6 DEF ValidConfig

(* The configuration of an organization that described nothing.            *)
LEMMA ReferenceIsValid == ValidConfig(REFERENCE_CONFIG)
<1> DEFINE top == [dim \in Dimensions |-> MaxFieldPoints(REFERENCE_CONFIG, dim)]
<1>1. /\ MaxFieldPoints(REFERENCE_CONFIG, "employee_count") = 20
      /\ MaxFieldPoints(REFERENCE_CONFIG, "industry") = 15
      /\ MaxFieldPoints(REFERENCE_CONFIG, "title_seniority") = 20
  <2>1. MaxFieldPoints(REFERENCE_CONFIG, "employee_count") = 20
    <3> DEFINE p == REFERENCE_CONFIG.points["employee_count"]
    <3>1. p = [e10 |-> 2, e50 |-> 10, e200 |-> 20, e1000 |-> 18, more |-> 8]
      BY DEF REFERENCE_CONFIG
    <3> HIDE DEF p
    <3>2. /\ \E v \in DOMAIN p : p[v] = 20
          /\ \A v \in DOMAIN p : p[v] \in Nat /\ p[v] <= 20
      BY <3>1
    <3> QED
      BY <3>2, CeilingIsEarned DEF p
  <2>2. MaxFieldPoints(REFERENCE_CONFIG, "industry") = 15
    <3> DEFINE p == REFERENCE_CONFIG.points["industry"]
    <3>1. p = [software |-> 15, fintech |-> 15, healthtech |-> 13, ecommerce |-> 12,
               logistics |-> 8, manufacturing |-> 7, education |-> 5, nonprofit |-> 2]
      BY DEF REFERENCE_CONFIG
    <3> HIDE DEF p
    <3>2. /\ \E v \in DOMAIN p : p[v] = 15
          /\ \A v \in DOMAIN p : p[v] \in Nat /\ p[v] <= 15
      BY <3>1
    <3> QED
      BY <3>2, CeilingIsEarned DEF p
  <2>3. MaxFieldPoints(REFERENCE_CONFIG, "title_seniority") = 20
    <3> DEFINE p == REFERENCE_CONFIG.points["title_seniority"]
    <3>1. p = [c_level |-> 20, vp |-> 18, director |-> 14, manager |-> 8, ic |-> 2]
      BY DEF REFERENCE_CONFIG
    <3> HIDE DEF p
    <3>2. /\ \E v \in DOMAIN p : p[v] = 20
          /\ \A v \in DOMAIN p : p[v] \in Nat /\ p[v] <= 20
      BY <3>1
    <3> QED
      BY <3>2, CeilingIsEarned DEF p
  <2> QED
    BY <2>1, <2>2, <2>3
<1>2. /\ MaxFieldPoints(REFERENCE_CONFIG, "title_function") = 15
      /\ MaxFieldPoints(REFERENCE_CONFIG, "buying_intent") = 20
      /\ MaxFieldPoints(REFERENCE_CONFIG, "recent_trigger_event") = 10
  <2>1. MaxFieldPoints(REFERENCE_CONFIG, "title_function") = 15
    <3> DEFINE p == REFERENCE_CONFIG.points["title_function"]
    <3>1. p = [data |-> 15, engineering |-> 14, operations |-> 9, marketing |-> 5,
               sales |-> 5, finance |-> 4, rest |-> 2]
      BY DEF REFERENCE_CONFIG
    <3> HIDE DEF p
    <3>2. /\ \E v \in DOMAIN p : p[v] = 15
          /\ \A v \in DOMAIN p : p[v] \in Nat /\ p[v] <= 15
      BY <3>1
    <3> QED
      BY <3>2, CeilingIsEarned DEF p
  <2>2. MaxFieldPoints(REFERENCE_CONFIG, "buying_intent") = 20
    <3> DEFINE p == REFERENCE_CONFIG.points["buying_intent"]
    <3>1. p = [half |-> 10, full |-> 20]
      BY DEF REFERENCE_CONFIG
    <3> HIDE DEF p
    <3>2. /\ \E v \in DOMAIN p : p[v] = 20
          /\ \A v \in DOMAIN p : p[v] \in Nat /\ p[v] <= 20
      BY <3>1
    <3> QED
      BY <3>2, CeilingIsEarned DEF p
  <2>3. MaxFieldPoints(REFERENCE_CONFIG, "recent_trigger_event") = 10
    <3> DEFINE p == REFERENCE_CONFIG.points["recent_trigger_event"]
    <3>1. p = [yes |-> 10]
      BY DEF REFERENCE_CONFIG
    <3> HIDE DEF p
    <3>2. /\ \E v \in DOMAIN p : p[v] = 10
          /\ \A v \in DOMAIN p : p[v] \in Nat /\ p[v] <= 10
      BY <3>1
    <3> QED
      BY <3>2, CeilingIsEarned DEF p
  <2> QED
    BY <2>1, <2>2, <2>3
<1>3. CeilingTotal(REFERENCE_CONFIG) = SumFunctionOnSet(top, Dimensions)
  BY DEF CeilingTotal, SumFunction
<1>4. /\ top["employee_count"] = 20 /\ top["industry"] = 15 /\ top["title_seniority"] = 20
      /\ top["title_function"] = 15 /\ top["buying_intent"] = 20 /\ top["recent_trigger_event"] = 10
  BY <1>1, <1>2, SixDimensions
<1> HIDE DEF top
<1>5. \A dim \in Dimensions : top[dim] \in Int
  BY <1>4, SixDimensions
<1>6. SumFunctionOnSet(top, Dimensions) =
        top["employee_count"] + top["industry"] + top["title_seniority"] + top["title_function"]
          + top["buying_intent"] + top["recent_trigger_event"]
  BY <1>5, SumOverDimensions
<1>7. CeilingTotal(REFERENCE_CONFIG) = 100
  BY <1>3, <1>4, <1>6
<1>8. REFERENCE_CONFIG.reject = 55 /\ REFERENCE_CONFIG.qualify = 65
  BY DEF REFERENCE_CONFIG
<1> QED
  BY <1>7, <1>8 DEF ValidConfig

-----------------------------------------------------------------------------
(* The strongest group.                                                    *)

(* Where any two compare and comparisons chain, somebody is first.         *)
LEMMA SomebodyIsFirst ==
  ASSUME NEW S, IsFiniteSet(S), S # {}, NEW R,
         \A x, y \in S : <<x, y>> \in R \/ <<y, x>> \in R,
         \A x, y, z \in S : <<x, y>> \in R /\ <<y, z>> \in R => <<x, z>> \in R
  PROVE  \E x \in S : \A y \in S : <<x, y>> \in R
<1> DEFINE Led(T) == \E x \in T : \A y \in T : <<x, y>> \in R
           Bad == {n \in Nat : \E T \in SUBSET S : Cardinality(T) = n /\ T # {} /\ ~Led(T)}
<1>1. \A T \in SUBSET S : IsFiniteSet(T) /\ Cardinality(T) \in Nat
  BY FS_Subset, FS_CardinalityType
<1>2. ASSUME NEW n \in Bad, \A m \in Bad : n <= m PROVE FALSE
  <2>1. PICK T \in SUBSET S : Cardinality(T) = n /\ T # {} /\ ~Led(T)
    BY <1>2
  <2>2. PICK x : x \in T
    BY <2>1
  <2>3. PICK V : V = T \ {x}
    OBVIOUS
  <2>4. V \in SUBSET S /\ Cardinality(V) = n - 1 /\ n \in Nat /\ n - 1 \in Nat
    <3>1. IsFiniteSet(T) /\ Cardinality(V) = Cardinality(T) - 1
      BY <1>1, <2>2, <2>3, FS_RemoveElement
    <3>2. V \in SUBSET S
      BY <2>3
    <3>3. Cardinality(V) \in Nat
      BY <1>1, <3>2
    <3> QED
      BY <2>1, <3>1, <3>2, <3>3
  <2>5. V # {}
    <3> SUFFICES ASSUME V = {} PROVE FALSE
      OBVIOUS
    <3>1. T = {x} /\ x \in S
      BY <2>2, <2>3
    <3>2. Led(T)
      BY <3>1
    <3> QED
      BY <2>1, <3>2
  <2>6. Led(V)
    <3>1. n - 1 \notin Bad
      BY <1>2, <2>4
    <3> QED
      BY <2>4, <2>5, <3>1
  <2>7. PICK v \in V : \A y \in V : <<v, y>> \in R
    BY <2>6
  <2>8. v \in S /\ x \in S /\ v \in T
    BY <2>2, <2>3
  <2>9. <<v, v>> \in R /\ <<x, x>> \in R
    BY <2>8
  <2>10. CASE <<v, x>> \in R
    <3>1. \A y \in T : <<v, y>> \in R
      BY <2>3, <2>7, <2>10
    <3> QED
      BY <2>1, <2>8, <3>1
  <2>11. CASE <<x, v>> \in R
    <3>1. \A y \in T : <<x, y>> \in R
      <4> TAKE y \in T
      <4>1. CASE y = x
        BY <2>9, <4>1
      <4>2. CASE y # x
        <5>1. y \in V /\ y \in S
          BY <2>3, <4>2
        <5> QED
          BY <2>7, <2>8, <2>11, <5>1
      <4> QED
        BY <4>1, <4>2
    <3> QED
      BY <2>1, <2>2, <3>1
  <2> QED
    BY <2>8, <2>10, <2>11
<1>3. Bad = {}
  <2>1. Bad \in SUBSET Nat
    OBVIOUS
  <2> HIDE DEF Bad
  <2> QED
    BY <1>2, <2>1, LeastOf
<1>4. Led(S)
  <2>1. Cardinality(S) \notin Bad
    BY <1>3
  <2> QED
    BY <1>1, <2>1
<1> QED
  BY <1>4

(* Fractions with positive denominators compare transitively.              *)
LEMMA FractionsChain ==
  ASSUME NEW a \in Nat, NEW b \in Nat, NEW c \in Nat,
         NEW x \in Nat \ {0}, NEW y \in Nat \ {0}, NEW z \in Nat \ {0},
         a * y >= b * x, b * z >= c * y
  PROVE  a * z >= c * x
<1>1. \A i, j, k \in Nat : i >= j => i * k >= j * k
  <2> TAKE i, j, k \in Nat
  <2> HAVE i >= j
  <2>1. PICK d \in Nat : d = i - j
    OBVIOUS
  <2>2. i * k = j * k + d * k /\ d * k \in Nat /\ j * k \in Nat
    BY <2>1
  <2> QED
    BY <2>2
<1>2. a * y \in Nat /\ b * x \in Nat /\ b * z \in Nat /\ c * y \in Nat /\ a * z \in Nat /\ c * x \in Nat
  OBVIOUS
<1>3. (a * y) * z >= (b * x) * z
  BY <1>1, <1>2
<1>4. (b * z) * x >= (c * y) * x
  BY <1>1, <1>2
<1>5. /\ (a * y) * z = (a * z) * y
      /\ (b * x) * z = (b * z) * x
      /\ (c * y) * x = (c * x) * y
  OBVIOUS
<1>6. (a * z) * y >= (c * x) * y
  <2> DEFINE p == (a * y) * z
             q == (b * x) * z
             r == (c * y) * x
  <2>1. p \in Nat /\ q \in Nat /\ r \in Nat
    BY <1>2
  <2>2. p >= q /\ q >= r
    BY <1>3, <1>4, <1>5
  <2> HIDE DEF p, q, r
  <2>3. p >= r
    BY <2>1, <2>2
  <2> QED
    BY <1>5, <2>3 DEF p, r
<1>7. PICK m, n \in Nat : m = a * z /\ n = c * x
  BY <1>2
<1>8. m * y >= n * y
  BY <1>6, <1>7
<1>9. m >= n
  <2> SUFFICES ASSUME m < n PROVE FALSE
    BY <1>7
  <2>1. PICK d \in Nat : n = m + 1 + d
    <3>1. n - m - 1 \in Nat /\ n = m + 1 + (n - m - 1)
      OBVIOUS
    <3> QED
      BY <3>1
  <2>2. n * y = m * y + y + d * y /\ d * y \in Nat /\ m * y \in Nat
    BY <2>1
  <2> QED
    BY <1>8, <2>2
<1> QED
  BY <1>7, <1>9

(* The distance between two bands.                                         *)
LEMMA DistancesAreNatural ==
  ASSUME NEW a \in Int
  PROVE  (IF a < 0 THEN -a ELSE a) \in Nat
OBVIOUS

(* The outcomes of a group are counted in naturals.                        *)
LEMMA GroupsAreCounted ==
  ASSUME NEW file, FileIsGrouped(file), NEW g \in file.groups
  PROVE  /\ Rows(g) \in Nat /\ Rows(file) \in Nat /\ Difference(g, file) \in Int
         /\ AbsDifference(g, file) \in Nat
<1>1. g.pos \in Nat /\ g.neg \in Nat /\ file.pos \in Nat /\ file.neg \in Nat
  BY DEF FileIsGrouped, Groups
<1>2. Rows(g) \in Nat /\ Rows(file) \in Nat
  BY <1>1 DEF Rows
<1>3. PICK m \in Nat : m = Rows(g)
  BY <1>2
<1>4. PICK n \in Nat : n = Rows(file)
  BY <1>2
<1>5. g.pos * n \in Int /\ file.pos * m \in Int
  BY <1>1
<1>6. Difference(g, file) = g.pos * n - file.pos * m
  BY <1>3, <1>4 DEF Difference
<1>7. Difference(g, file) \in Int
  BY <1>5, <1>6
<1>8. AbsDifference(g, file) \in Nat
  BY <1>7, DistancesAreNatural DEF AbsDifference
<1> QED
  BY <1>2, <1>7, <1>8

(* Among groups that count there is a strongest.                           *)
LEMMA StrongestIsOneOfThem ==
  ASSUME NEW file, FileIsGrouped(file), NEW S \in SUBSET Actionable(file), S # {}
  PROVE  Strongest(S, file) \in S
<1> DEFINE R == {p \in S \X S : Precedes(p[1], p[2], file)}
           d(g) == AbsDifference(g, file)
           n(g) == Rows(g)
           strong(g) == ClassifySignal(g, file) = "strong"
<1>1. IsFiniteSet(S) /\ S \in SUBSET file.groups
  <2>1. S \in SUBSET file.groups
    BY DEF Actionable
  <2>2. IsFiniteSet(file.groups)
    BY DEF FileIsGrouped
  <2> QED
    BY <2>1, <2>2, FS_Subset
<1>2. \A g \in S : n(g) \in Nat \ {0} /\ d(g) \in Nat
  <2> TAKE g \in S
  <2>1. Rows(g) \in Nat /\ d(g) \in Nat
    BY <1>1, GroupsAreCounted
  <2>2. ClassifySignal(g, file) \in {"moderate", "strong"}
    BY DEF Actionable
  <2>3. ~(Rows(g) < 8)
    BY <2>2 DEF ClassifySignal
  <2> QED
    BY <2>1, <2>3
<1>3. \A g, h \in S :
        /\ <<g, h>> \in R <=> Precedes(g, h, file)
        /\ Precedes(g, h, file) <=>
             ((strong(g) /\ ~strong(h))
                \/ ((strong(g) <=> strong(h)) /\ d(g) * n(h) >= d(h) * n(g)))
  <2> TAKE g, h \in S
  <2>1. <<g, h>> \in S \X S /\ <<g, h>>[1] = g /\ <<g, h>>[2] = h
    OBVIOUS
  <2>2. <<g, h>> \in R <=> Precedes(g, h, file)
    BY <2>1
  <2>3. Precedes(g, h, file) <=>
          ((strong(g) /\ ~strong(h))
             \/ ((strong(g) <=> strong(h)) /\ d(g) * n(h) >= d(h) * n(g)))
    BY DEF Precedes
  <2> QED
    BY <2>2, <2>3
<1> HIDE DEF R, d, n, strong
<1>4. \A x, y \in S : <<x, y>> \in R \/ <<y, x>> \in R
  <2> TAKE x, y \in S
  <2>1. PICK p \in Nat : p = d(x) * n(y)
    BY <1>2
  <2>2. PICK q \in Nat : q = d(y) * n(x)
    BY <1>2
  <2>3. p >= q \/ q >= p
    OBVIOUS
  <2> QED
    BY <1>3, <2>1, <2>2, <2>3
<1>5. \A x, y, z \in S : <<x, y>> \in R /\ <<y, z>> \in R => <<x, z>> \in R
  <2> TAKE x, y, z \in S
  <2> HAVE <<x, y>> \in R /\ <<y, z>> \in R
  <2>1. d(x) * n(y) >= d(y) * n(x) /\ d(y) * n(z) >= d(z) * n(y) => d(x) * n(z) >= d(z) * n(x)
    <3>1. PICK a, b, c \in Nat : a = d(x) /\ b = d(y) /\ c = d(z)
      BY <1>2
    <3>2. PICK u, v, w \in Nat \ {0} : u = n(x) /\ v = n(y) /\ w = n(z)
      BY <1>2
    <3>3. a * v >= b * u /\ b * w >= c * v => a * w >= c * u
      BY FractionsChain
    <3> QED
      BY <3>1, <3>2, <3>3
  <2> QED
    BY <1>3, <2>1
<1>6. \E x \in S : \A y \in S : <<x, y>> \in R
  BY <1>1, <1>4, <1>5, SomebodyIsFirst
<1>7. \E g \in S : \A h \in S : Precedes(g, h, file)
  BY <1>3, <1>6
<1> QED
  BY <1>7 DEF Strongest

-----------------------------------------------------------------------------
(* What a suggestion changes.                                              *)

(* A promotion is of a dimension that is not critical, by one level, with  *)
(* its strongest news.                                                     *)
LEMMA NudgesArePromotions ==
  ASSUME NEW file, NEW draft, NEW c \in Nudges(file, draft)
  PROVE  /\ c.kind = "dimension_importance" /\ c.target = c.dim
         /\ c.to = Shift(draft.levels[c.dim], 1)
         /\ \E g \in News(file, draft) : g.dim = c.dim
         /\ Improves(Strongest({g \in News(file, draft) : g.dim = c.dim}, file), file)
<1> DEFINE news(dim) == {g \in News(file, draft) : g.dim = dim}
           dims == {dim \in {g.dim : g \in News(file, draft)} :
                      /\ Improves(Strongest(news(dim), file), file)
                      /\ draft.levels[dim] # "critical"}
           nudge(dim) == [kind |-> "dimension_importance", dim |-> dim, target |-> dim,
                          to |-> Shift(draft.levels[dim], 1)]
<1>1. Nudges(file, draft) = {nudge(dim) : dim \in dims}
  BY DEF Nudges
<1>2. \A dim \in dims : /\ \E g \in News(file, draft) : g.dim = dim
                       /\ Improves(Strongest(news(dim), file), file)
  OBVIOUS
<1> HIDE DEF dims, news
<1>3. PICK dim \in dims : c = nudge(dim)
  BY <1>1
<1>4. c.dim = dim /\ c.kind = "dimension_importance" /\ c.target = dim
      /\ c.to = Shift(draft.levels[dim], 1)
  BY <1>3
<1> HIDE DEF nudge
<1> QED
  BY <1>2, <1>4 DEF news

(* A change of a list or a band is that of one group with news.            *)
LEMMA ChangesAreNews ==
  ASSUME NEW file, NEW draft, FileIsGrouped(file)
  PROVE  /\ \A g \in News(file, draft) :
              \E c \in DeriveChanges(file, draft) :
                /\ c.kind = IF g.dim = "industry" THEN "industry" ELSE "employee_band"
                /\ c.dim = g.dim /\ c.target = g.key
                /\ c.to = IF Improves(g, file) THEN "preferred" ELSE "acceptable"
         /\ \A c \in DeriveChanges(file, draft) : c.kind # "dimension_importance" =>
              \E g \in News(file, draft) :
                /\ c.kind = IF g.dim = "industry" THEN "industry" ELSE "employee_band"
                /\ c.dim = g.dim /\ c.target = g.key
                /\ c.to = IF Improves(g, file) THEN "preferred" ELSE "acceptable"
         /\ \A c \in DeriveChanges(file, draft) : c.kind = "dimension_importance" =>
              /\ c \in Nudges(file, draft)
<1> DEFINE change(g) ==
             [kind |-> IF g.dim = "industry" THEN "industry" ELSE "employee_band",
              dim |-> g.dim, target |-> g.key,
              to |-> IF Improves(g, file) THEN "preferred" ELSE "acceptable"]
<1>1. DeriveChanges(file, draft) = {change(g) : g \in News(file, draft)} \cup Nudges(file, draft)
  BY DEF DeriveChanges
<1>2. \A c \in Nudges(file, draft) : c.kind = "dimension_importance"
  BY NudgesArePromotions
<1>3. \A g : /\ change(g).kind = IF g.dim = "industry" THEN "industry" ELSE "employee_band"
             /\ change(g).dim = g.dim /\ change(g).target = g.key
             /\ change(g).to = IF Improves(g, file) THEN "preferred" ELSE "acceptable"
             /\ change(g).kind # "dimension_importance"
  OBVIOUS
<1> HIDE DEF change
<1> QED
  BY <1>1, <1>2, <1>3

(* A dimension is promoted with the strongest group of it.                 *)
LEMMA NudgesHaveNews ==
  ASSUME NEW file, NEW draft, FileIsGrouped(file), NEW c \in Nudges(file, draft)
  PROVE  \E d \in DeriveChanges(file, draft) :
           d.kind # "dimension_importance" /\ d.dim = c.dim /\ d.to = "preferred"
<1> DEFINE news(dim) == {g \in News(file, draft) : g.dim = dim}
<1>1. PICK dim : /\ dim = c.dim
                 /\ \E g \in News(file, draft) : g.dim = dim
                 /\ Improves(Strongest(news(dim), file), file)
  BY NudgesArePromotions
<1>2. news(dim) # {}
  BY <1>1
<1>3. news(dim) \in SUBSET Actionable(file)
  BY DEF News
<1>4. PICK g : g = Strongest(news(dim), file)
  OBVIOUS
<1>5. g \in news(dim)
  <2> HIDE DEF news
  <2> QED
    BY <1>2, <1>3, <1>4, StrongestIsOneOfThem
<1>6. PICK d \in DeriveChanges(file, draft) :
        /\ d.kind = IF g.dim = "industry" THEN "industry" ELSE "employee_band"
        /\ d.dim = g.dim
        /\ d.to = IF Improves(g, file) THEN "preferred" ELSE "acceptable"
  BY <1>5, ChangesAreNews
<1>7. d.kind # "dimension_importance" /\ d.dim = c.dim /\ d.to = "preferred"
  BY <1>1, <1>4, <1>5, <1>6
<1> QED
  BY <1>7

-----------------------------------------------------------------------------
(* apply_changes and canonicalize.                                         *)
Bands == UNION {[B -> {"preferred", "acceptable", "avoid"}] : B \in SUBSET Range(EMPLOYEE_BANDS)}
PartialLevels == UNION {[S -> Range(LEVELS)] : S \in SUBSET Dimensions}
Lists == [Listed -> SUBSET STRING]
IsCanonical(draft) == draft \in DraftRecords /\ draft.levels \in Levels

(* The fields of a draft.                                                  *)
LEMMA DraftFields ==
  /\ \A d \in DraftRecords :
       /\ d.bands \in Bands /\ d.preferred \in Lists /\ d.acceptable \in Lists
       /\ d.levels \in PartialLevels
       /\ d = [bands |-> d.bands, preferred |-> d.preferred, acceptable |-> d.acceptable,
               levels |-> d.levels]
  /\ \A b \in Bands, p \in Lists, a \in Lists, l \in PartialLevels :
       [bands |-> b, preferred |-> p, acceptable |-> a, levels |-> l] \in DraftRecords
  /\ Levels \subseteq PartialLevels
<1>1. DraftRecords = [bands : Bands, preferred : Lists, acceptable : Lists, levels : PartialLevels]
  BY DEF DraftRecords, Bands, Lists, PartialLevels
<1>2. Levels \subseteq PartialLevels
  BY DEF Levels, PartialLevels
<1>3. \A d \in [bands : Bands, preferred : Lists, acceptable : Lists, levels : PartialLevels] :
        d = [bands |-> d.bands, preferred |-> d.preferred, acceptable |-> d.acceptable,
             levels |-> d.levels]
  OBVIOUS
<1> QED
  BY <1>1, <1>2, <1>3

(* Levels given for some dimensions are levels for these.                  *)
LEMMA PartialLevelsAreLevels ==
  ASSUME NEW l \in PartialLevels, NEW dim \in DOMAIN l
  PROVE  l[dim] \in Range(LEVELS)
<1>1. PICK S \in SUBSET Dimensions : l \in [S -> Range(LEVELS)]
  BY DEF PartialLevels
<1> QED
  BY <1>1

(* What canonicalizing a draft leaves of it.                               *)
LEMMA CanonicalizeIs ==
  ASSUME NEW draft \in DraftRecords
  PROVE  /\ IsCanonical(Canonicalize(draft))
         /\ Canonicalize(draft).bands = draft.bands
         /\ Canonicalize(draft).preferred = draft.preferred
<1> DEFINE levels == [dim \in Dimensions |->
                        IF dim \in DOMAIN draft.levels THEN draft.levels[dim] ELSE "medium"]
           acceptable == [dim \in Listed |-> draft.acceptable[dim] \ draft.preferred[dim]]
<1>1. Canonicalize(draft) =
        [bands |-> draft.bands, preferred |-> draft.preferred, acceptable |-> acceptable,
         levels |-> levels]
  <2>1. Canonicalize(draft) = [draft EXCEPT !.levels = levels, !.acceptable = acceptable]
    BY DEF Canonicalize
  <2>2. draft = [bands |-> draft.bands, preferred |-> draft.preferred,
                 acceptable |-> draft.acceptable, levels |-> draft.levels]
    BY DraftFields
  <2> HIDE DEF levels, acceptable
  <2> QED
    BY <2>1, <2>2
<1>2. levels \in Levels
  <2>1. "medium" \in Range(LEVELS)
    BY LevelsHaveWeights
  <2>2. \A dim \in DOMAIN draft.levels : draft.levels[dim] \in Range(LEVELS)
    BY DraftFields, PartialLevelsAreLevels
  <2> QED
    BY <2>1, <2>2 DEF Levels
<1>3. acceptable \in Lists
  <2>1. draft.acceptable \in Lists
    BY DraftFields
  <2> QED
    BY <2>1 DEF Lists
<1>4. draft.bands \in Bands /\ draft.preferred \in Lists
  BY DraftFields
<1> HIDE DEF levels, acceptable
<1> QED
  BY <1>1, <1>2, <1>3, <1>4, DraftFields DEF IsCanonical

(* What applying suggested changes leaves of a draft.                      *)
LEMMA ApplyChangesIs ==
  ASSUME NEW draft \in DraftRecords, draft.levels \in Levels, NEW changes
  PROVE  LET up     == Targets(changes, "industry", "preferred")
             down   == Targets(changes, "industry", "acceptable")
             bands  == {c \in changes : c.kind = "employee_band"}
             nudges == {c \in changes : c.kind = "dimension_importance"}
             to(set, target) == (CHOOSE c \in set : c.target = target).to
             targets(set) == {c.target : c \in set}
         IN  ApplyChanges(draft, changes) =
               [bands |-> [b \in DOMAIN draft.bands \cup targets(bands) |->
                             IF b \in targets(bands) THEN to(bands, b) ELSE draft.bands[b]],
                preferred |-> [draft.preferred EXCEPT !["industry"] = (@ \cup up) \ down],
                acceptable |-> [draft.acceptable EXCEPT !["industry"] = (@ \ up) \cup down],
                levels |-> [dim \in Dimensions |->
                              IF dim \in targets(nudges) THEN to(nudges, dim) ELSE draft.levels[dim]]]
<1> DEFINE up     == Targets(changes, "industry", "preferred")
           down   == Targets(changes, "industry", "acceptable")
           bands  == {c \in changes : c.kind = "employee_band"}
           nudges == {c \in changes : c.kind = "dimension_importance"}
           to(set, target) == (CHOOSE c \in set : c.target = target).to
           targets(set) == {c.target : c \in set}
<1>1. ApplyChanges(draft, changes) =
        [draft EXCEPT
         !.preferred["industry"]  = (@ \cup up) \ down,
         !.acceptable["industry"] = (@ \ up) \cup down,
         !.bands  = [b \in DOMAIN @ \cup targets(bands) |->
                       IF b \in targets(bands) THEN to(bands, b) ELSE @[b]],
         !.levels = [dim \in Dimensions |->
                       IF dim \in targets(nudges) THEN to(nudges, dim) ELSE @[dim]]]
  BY DEF ApplyChanges
<1>2. draft = [bands |-> draft.bands, preferred |-> draft.preferred,
               acceptable |-> draft.acceptable, levels |-> draft.levels]
  BY DraftFields
<1> HIDE DEF up, down, bands, nudges, to, targets
<1>3. ApplyChanges(draft, changes) =
        [bands |-> [b \in DOMAIN draft.bands \cup targets(bands) |->
                      IF b \in targets(bands) THEN to(bands, b) ELSE draft.bands[b]],
         preferred |-> [draft.preferred EXCEPT !["industry"] = (@ \cup up) \ down],
         acceptable |-> [draft.acceptable EXCEPT !["industry"] = (@ \ up) \cup down],
         levels |-> [dim \in Dimensions |->
                       IF dim \in targets(nudges) THEN to(nudges, dim) ELSE draft.levels[dim]]]
  BY <1>1, <1>2
<1> QED
  BY <1>3 DEF up, down, bands, nudges, to, targets

(* A level moved by one step is a level.                                   *)
LEMMA ShiftIsALevel == ASSUME NEW level \in Range(LEVELS) PROVE Shift(level, 1) \in Range(LEVELS)
<1> DEFINE a == Min({5, Index(level) + 1})
<1>1. Index(level) \in 1 .. 5
  BY LevelsHaveWeights
<1>2. PICK i \in 1 .. 5 : i = Index(level)
  BY <1>1
<1>3. a \in {5, i + 1} /\ a <= 5 /\ a <= i + 1
  <2>1. PICK k : k = i + 1
    OBVIOUS
  <2>2. a = Min({5, k}) /\ k \in Int
    BY <1>2, <2>1
  <2> HIDE DEF a
  <2>3. Min({5, k}) \in {5, k} /\ Min({5, k}) <= 5 /\ Min({5, k}) <= k
    BY <2>2, SmallerOfTwo
  <2> QED
    BY <2>1, <2>2, <2>3
<1>4. PICK m : m = a
  OBVIOUS
<1>5. m \in 2 .. 5
  BY <1>2, <1>3, <1>4
<1>6. Max({1, m}) \in {1, m}
  BY <1>5, GreaterOfTwo
<1>7. Shift(level, 1) = LEVELS[Max({1, m})]
  BY <1>4, LevelsHaveWeights DEF Shift
<1>8. Max({1, m}) \in 1 .. 5
  BY <1>5, <1>6
<1> QED
  BY <1>7, <1>8, LevelsHaveWeights DEF Range

(* A group has news unless it has the place the results would give it.     *)
LEMMA NewsIs ==
  ASSUME NEW file, NEW draft
  PROVE  \A g : g \in News(file, draft) <=>
                  g \in Actionable(file) /\ ~(Improves(g, file) <=> Favoured(g, draft))
<1>1. \A g : Improves(g, file) \in BOOLEAN
  BY DEF Improves
<1>2. \A g : Favoured(g, draft) \in BOOLEAN
  <2> TAKE g
  <2>1. CASE g.dim = "employee_count"
    <3>1. Favoured(g, draft) = (g.key \in DOMAIN draft.bands /\ draft.bands[g.key] = "preferred")
      BY <2>1 DEF Favoured
    <3>2. (g.key \in DOMAIN draft.bands /\ draft.bands[g.key] = "preferred") \in BOOLEAN
      OBVIOUS
    <3> QED
      BY <3>1, <3>2
  <2>2. CASE g.dim # "employee_count"
    <3>1. Favoured(g, draft) = (g.key \in draft.preferred["industry"])
      BY <2>2 DEF Favoured
    <3> QED
      BY <3>1
  <2> QED
    BY <2>1, <2>2
<1>3. \A g : Improves(g, file) # Favoured(g, draft) <=> ~(Improves(g, file) <=> Favoured(g, draft))
  BY <1>1, <1>2
<1> QED
  BY <1>3 DEF News

(* Of two groups with news only one is about a band or an industry.        *)
LEMMA OneChangeEach ==
  ASSUME NEW file, FileIsGrouped(file), NEW draft,
         NEW g \in Actionable(file), NEW c \in DeriveChanges(file, draft),
         c.target = g.key,
         c.kind = IF g.dim = "industry" THEN "industry" ELSE "employee_band"
  PROVE  /\ g \in News(file, draft)
         /\ c.to = IF Improves(g, file) THEN "preferred" ELSE "acceptable"
<1>1. PICK h \in News(file, draft) :
        /\ c.kind = IF h.dim = "industry" THEN "industry" ELSE "employee_band"
        /\ c.target = h.key
        /\ c.to = IF Improves(h, file) THEN "preferred" ELSE "acceptable"
  BY ChangesAreNews
<1>2. g \in file.groups /\ h \in file.groups
  BY DEF Actionable, News
<1>3. g.dim \in {"employee_count", "industry"} /\ h.dim \in {"employee_count", "industry"}
  BY <1>2 DEF FileIsGrouped, Groups
<1>4. g.dim = h.dim /\ g.key = h.key
  BY <1>1, <1>3
<1>5. g = h
  BY <1>2, <1>4 DEF FileIsGrouped
<1> QED
  BY <1>1, <1>5

(* proposals.py: an accepted suggestion leaves the file nothing to say.    *)
LEMMA AcceptedIsLearned ==
  ASSUME NEW file, FileIsGrouped(file), NEW draft, IsCanonical(draft)
  PROVE  LET next == Canonicalize(ApplyChanges(draft, DeriveChanges(file, draft)))
         IN  IsCanonical(next) /\ DeriveChanges(file, next) = {}
<1> DEFINE changes == DeriveChanges(file, draft)
           up     == Targets(changes, "industry", "preferred")
           down   == Targets(changes, "industry", "acceptable")
           bands  == {c \in changes : c.kind = "employee_band"}
           nudges == {c \in changes : c.kind = "dimension_importance"}
           to(set, target) == (CHOOSE c \in set : c.target = target).to
           targets(set) == {c.target : c \in set}
           newBands == [b \in DOMAIN draft.bands \cup targets(bands) |->
                          IF b \in targets(bands) THEN to(bands, b) ELSE draft.bands[b]]
           newPreferred == [draft.preferred EXCEPT !["industry"] = (@ \cup up) \ down]
           newAcceptable == [draft.acceptable EXCEPT !["industry"] = (@ \ up) \cup down]
           newLevels == [dim \in Dimensions |->
                           IF dim \in targets(nudges) THEN to(nudges, dim) ELSE draft.levels[dim]]
           applied == ApplyChanges(draft, changes)
           next == Canonicalize(applied)
<1>1. draft \in DraftRecords /\ draft.levels \in Levels
  BY DEF IsCanonical
<1>2. applied = [bands |-> newBands, preferred |-> newPreferred, acceptable |-> newAcceptable,
                 levels |-> newLevels]
  <2> HIDE DEF changes
  <2> QED
    BY <1>1, ApplyChangesIs
<1>3. \A g \in News(file, draft) :
        \E c \in changes :
          /\ c.kind = IF g.dim = "industry" THEN "industry" ELSE "employee_band"
          /\ c.target = g.key
          /\ c.to = IF Improves(g, file) THEN "preferred" ELSE "acceptable"
  BY ChangesAreNews
<1>4. \A c \in changes : c.kind # "dimension_importance" =>
        \E g \in News(file, draft) :
          /\ c.kind = IF g.dim = "industry" THEN "industry" ELSE "employee_band"
          /\ c.target = g.key
          /\ c.to = IF Improves(g, file) THEN "preferred" ELSE "acceptable"
  BY ChangesAreNews
<1>5. \A g \in News(file, draft) : /\ g.dim \in {"employee_count", "industry"} /\ g.key \in STRING
                                   /\ g.dim = "employee_count" => g.key \in Range(EMPLOYEE_BANDS)
  BY DEF News, Actionable, FileIsGrouped, Groups
<1>6. \A g \in Actionable(file), c \in changes :
        c.target = g.key /\ c.kind = (IF g.dim = "industry" THEN "industry" ELSE "employee_band") =>
          /\ g \in News(file, draft)
          /\ c.to = IF Improves(g, file) THEN "preferred" ELSE "acceptable"
  BY OneChangeEach
<1>7. \A c \in nudges : /\ c.target = c.dim /\ c.to = Shift(draft.levels[c.dim], 1)
                        /\ c.dim \in Dimensions
  <2> TAKE c \in nudges
  <2>1. c \in Nudges(file, draft)
    BY ChangesAreNews
  <2>2. /\ c.target = c.dim /\ c.to = Shift(draft.levels[c.dim], 1)
        /\ \E g \in News(file, draft) : g.dim = c.dim
    BY <2>1, NudgesArePromotions
  <2>3. c.dim \in {"employee_count", "industry"}
    BY <1>5, <2>2
  <2> QED
    BY <2>2, <2>3, SixDimensions
<1> HIDE DEF changes
<1>8. /\ up = {c.target : c \in {d \in changes : d.kind = "industry" /\ d.to = "preferred"}}
      /\ down = {c.target : c \in {d \in changes : d.kind = "industry" /\ d.to = "acceptable"}}
  BY DEF Targets
<1> HIDE DEF up, down
<1>9. \A b \in targets(bands) : \E c \in bands : c.target = b /\ to(bands, b) = c.to
  OBVIOUS
<1>10. newBands \in Bands
  <2>1. targets(bands) \in SUBSET Range(EMPLOYEE_BANDS)
    <3> SUFFICES ASSUME NEW c \in bands PROVE c.target \in Range(EMPLOYEE_BANDS)
      OBVIOUS
    <3> QED
      BY <1>4, <1>5
  <2>2. \A b \in targets(bands) : to(bands, b) \in {"preferred", "acceptable"}
    <3> TAKE b \in targets(bands)
    <3>1. PICK c \in bands : c.target = b /\ to(bands, b) = c.to
      BY <1>9
    <3> HIDE DEF to
    <3> QED
      BY <1>4, <3>1
  <2>3. PICK B \in SUBSET Range(EMPLOYEE_BANDS) :
          draft.bands \in [B -> {"preferred", "acceptable", "avoid"}]
    BY <1>1, DraftFields DEF Bands
  <2> HIDE DEF to, targets, bands
  <2>4. newBands \in [B \cup targets(bands) -> {"preferred", "acceptable", "avoid"}]
    BY <2>2, <2>3
  <2>5. B \cup targets(bands) \in SUBSET Range(EMPLOYEE_BANDS)
    BY <2>1, <2>3
  <2> HIDE DEF newBands
  <2> QED
    BY <2>4, <2>5 DEF Bands
<1>11. up \in SUBSET STRING /\ down \in SUBSET STRING
  <2>1. \A c \in changes : c.kind = "industry" => c.target \in STRING
    BY <1>4, <1>5
  <2> QED
    BY <1>8, <2>1
<1>12. newPreferred \in Lists /\ newAcceptable \in Lists
  <2>1. draft.preferred \in Lists /\ draft.acceptable \in Lists
    BY <1>1, DraftFields
  <2> QED
    BY <1>11, <2>1 DEF Lists
<1>13. newLevels \in Levels
  <2>1. \A dim \in Dimensions : draft.levels[dim] \in Range(LEVELS)
    BY <1>1 DEF Levels
  <2>2. \A dim \in targets(nudges) : to(nudges, dim) \in Range(LEVELS)
    <3> TAKE dim \in targets(nudges)
    <3>1. PICK c \in nudges : c.target = dim /\ to(nudges, dim) = c.to
      OBVIOUS
    <3> HIDE DEF to, nudges
    <3> QED
      BY <1>7, <2>1, <3>1, ShiftIsALevel
  <2> HIDE DEF to, targets, nudges
  <2> QED
    BY <2>1, <2>2 DEF Levels
<1>14. applied \in DraftRecords
  <2> HIDE DEF newBands, newPreferred, newAcceptable, newLevels, applied
  <2> QED
    BY <1>2, <1>10, <1>12, <1>13, DraftFields
<1>15. IsCanonical(next) /\ next.bands = newBands /\ next.preferred = newPreferred
  <2> HIDE DEF newBands, newPreferred, newAcceptable, newLevels, applied
  <2> QED
    BY <1>2, <1>14, CanonicalizeIs
<1>16. ASSUME NEW g \in Actionable(file) PROVE Improves(g, file) <=> Favoured(g, next)
  <2>1. g.dim \in {"employee_count", "industry"}
    BY DEF Actionable, FileIsGrouped, Groups
  <2>2. g \notin News(file, draft) => (Improves(g, file) <=> Favoured(g, draft))
    BY NewsIs
  <2>3. CASE g.dim = "industry"
    <3>1. Favoured(g, next) <=> g.key \in newPreferred["industry"]
      BY <1>15, <2>3 DEF Favoured
    <3>2. Favoured(g, draft) <=> g.key \in draft.preferred["industry"]
      BY <2>3 DEF Favoured
    <3>3. newPreferred["industry"] = (draft.preferred["industry"] \cup up) \ down
      <4>1. draft.preferred \in Lists /\ "industry" \in Listed
        BY <1>1, DraftFields DEF Listed
      <4> QED
        BY <4>1 DEF Lists
    <3>4. g.key \in up => g \in News(file, draft) /\ Improves(g, file)
      BY <1>6, <1>8, <2>3
    <3>5. g.key \in down => g \in News(file, draft) /\ ~Improves(g, file)
      BY <1>6, <1>8, <2>3
    <3>6. g \in News(file, draft) => IF Improves(g, file) THEN g.key \in up ELSE g.key \in down
      BY <1>3, <1>8, <2>3
    <3> HIDE DEF newPreferred, next
    <3> QED
      BY <2>2, <3>1, <3>2, <3>3, <3>4, <3>5, <3>6
  <2>4. CASE g.dim = "employee_count"
    <3>1. Favoured(g, next) <=> (g.key \in DOMAIN newBands /\ newBands[g.key] = "preferred")
      BY <1>15, <2>4 DEF Favoured
    <3>2. Favoured(g, draft) <=> (g.key \in DOMAIN draft.bands /\ draft.bands[g.key] = "preferred")
      BY <2>4 DEF Favoured
    <3>3. CASE g.key \in targets(bands)
      <4>1. PICK c \in bands : c.target = g.key /\ to(bands, g.key) = c.to
        BY <1>9, <3>3
      <4>2. newBands[g.key] = c.to /\ g.key \in DOMAIN newBands
        BY <3>3, <4>1
      <4>3. c.to = IF Improves(g, file) THEN "preferred" ELSE "acceptable"
        BY <1>6, <2>4, <4>1
      <4> HIDE DEF newBands, next
      <4> QED
        BY <3>1, <4>2, <4>3
    <3>4. CASE g.key \notin targets(bands)
      <4>1. g \notin News(file, draft)
        BY <1>3, <2>4, <3>4
      <4>2. (g.key \in DOMAIN newBands <=> g.key \in DOMAIN draft.bands)
            /\ (g.key \in DOMAIN newBands => newBands[g.key] = draft.bands[g.key])
        BY <3>4
      <4> HIDE DEF newBands, next
      <4> QED
        BY <2>2, <3>1, <3>2, <4>1, <4>2
    <3> QED
      BY <3>3, <3>4
  <2> QED
    BY <2>1, <2>3, <2>4
<1>17. News(file, next) = {}
  <2> HIDE DEF next
  <2> QED
    BY <1>16, NewsIs
<1>18. DeriveChanges(file, next) = {}
  <2> HIDE DEF next
  <2>1. \A c \in Nudges(file, next) : FALSE
    BY <1>17, NudgesArePromotions
  <2> QED
    BY <1>17, <2>1 DEF DeriveChanges
<1> QED
  BY <1>15, <1>18 DEF changes

-----------------------------------------------------------------------------
(* The profile.  An open suggestion is what its file says of the active    *)
(* draft, and a file learned from says nothing of it any more.             *)
TargetingInv ==
  /\ targeting.objective \in DOMAIN OBJECTIVE_THRESHOLDS
  /\ targeting.draft # NoDraft => IsCanonical(targeting.draft)
  /\ suggestion # NoSuggestion =>
       /\ targeting.draft # NoDraft
       /\ suggestion.file \in DOMAIN OutcomeFiles
       /\ suggestion.changes = DeriveChanges(OutcomeFiles[suggestion.file], targeting.draft)
  /\ learned # 0 =>
       /\ targeting.draft # NoDraft
       /\ learned \in DOMAIN OutcomeFiles
       /\ DeriveChanges(OutcomeFiles[learned], targeting.draft) = {}

(* No draft is the mark for none.                                          *)
LEMMA DraftsAreNotNoDraft == \A d \in DraftRecords : d # NoDraft
<1>1. \A d \in DraftRecords : "bands" \in DOMAIN d
  BY DEF DraftRecords
<1>2. "bands" \notin DOMAIN NoDraft
  BY DEF NoDraft
<1> QED
  BY <1>1, <1>2

(* Nothing is proposed at first.                                           *)
LEMMA TargetingBegins == TargetingInit => TargetingInv
<1> SUFFICES ASSUME TargetingInit PROVE TargetingInv
  OBVIOUS
<1>1. targeting.objective \in DOMAIN OBJECTIVE_THRESHOLDS /\ targeting.draft = NoDraft
  BY DEF TargetingInit, OBJECTIVE_THRESHOLDS
<1> QED
  BY <1>1 DEF TargetingInit, TargetingInv

(* A confirmed draft keeps the invariant,                                  *)
LEMMA ConfirmStays ==
  ASSUME TargetingInv, NEW draft \in Drafts, NEW objective \in DOMAIN OBJECTIVE_THRESHOLDS,
         ConfirmDraft(draft, objective)
  PROVE  TargetingInv'
<1>1. draft \in DraftRecords
  BY TargetingAssumption
<1>2. targeting' = [draft |-> Canonicalize(draft), objective |-> objective]
  BY DEF ConfirmDraft, Version
<1>3. suggestion' = NoSuggestion /\ learned' = 0
  BY DEF ConfirmDraft
<1>4. IsCanonical(Canonicalize(draft))
  BY <1>1, CanonicalizeIs
<1>5. IsCanonical(targeting.draft)' <=> IsCanonical(targeting'.draft)
  BY DEF IsCanonical, DraftRecords, Levels
<1> QED
  BY <1>2, <1>3, <1>4, <1>5 DEF TargetingInv

(* so does the analysis of outcomes,                                       *)
LEMMA AnalyzeStays ==
  ASSUME TargetingInv, NEW i \in DOMAIN OutcomeFiles, AnalyzeOutcomes(i)
  PROVE  TargetingInv'
<1>1. /\ targeting.draft # NoDraft
      /\ suggestion' = [file |-> i, changes |-> DeriveChanges(OutcomeFiles[i], targeting.draft)]
      /\ UNCHANGED <<targeting, learned>>
  BY DEF AnalyzeOutcomes
<1>2. suggestion'.file = i /\ suggestion'.changes = DeriveChanges(OutcomeFiles[i], targeting.draft)
  BY <1>1
<1> QED
  BY <1>1, <1>2 DEF TargetingInv

(* and so do accepted suggestions.                                         *)
LEMMA AcceptStays ==
  ASSUME TargetingInv, AcceptSuggestion
  PROVE  TargetingInv'
<1> DEFINE file == OutcomeFiles[suggestion.file]
           next == Canonicalize(ApplyChanges(targeting.draft, suggestion.changes))
<1>1. /\ suggestion # NoSuggestion
      /\ targeting' = [draft |-> next, objective |-> targeting.objective]
      /\ learned' = suggestion.file /\ suggestion' = NoSuggestion
  BY DEF AcceptSuggestion, Version
<1>2. /\ IsCanonical(targeting.draft) /\ suggestion.file \in DOMAIN OutcomeFiles
      /\ suggestion.changes = DeriveChanges(file, targeting.draft)
      /\ targeting.objective \in DOMAIN OBJECTIVE_THRESHOLDS
  BY <1>1 DEF TargetingInv
<1>3. FileIsGrouped(file)
  BY <1>2, TargetingAssumption
<1>4. next = Canonicalize(ApplyChanges(targeting.draft, DeriveChanges(file, targeting.draft)))
  BY <1>2
<1> HIDE DEF next, file
<1>5. IsCanonical(next) /\ DeriveChanges(file, next) = {}
  BY <1>2, <1>3, <1>4, AcceptedIsLearned
<1>6. targeting'.draft = next /\ targeting'.objective = targeting.objective
  BY <1>1
<1>7. next # NoDraft
  BY <1>5, DraftsAreNotNoDraft DEF IsCanonical
<1>9. (IsCanonical(targeting.draft))' <=> IsCanonical(next)
  BY <1>6 DEF IsCanonical, DraftRecords, Levels
<1>10. DeriveChanges(OutcomeFiles[learned'], targeting'.draft) = {}
  BY <1>1, <1>5, <1>6 DEF file
<1> QED
  BY <1>1, <1>2, <1>5, <1>6, <1>7, <1>9, <1>10 DEF TargetingInv

(* Every step of targeting keeps its invariant,                            *)
LEMMA TargetingStays == TargetingInv /\ (TargetingNext \/ UNCHANGED targetingVars) => TargetingInv'
<1> SUFFICES ASSUME TargetingInv, TargetingNext \/ UNCHANGED targetingVars PROVE TargetingInv'
  OBVIOUS
<1>1. ASSUME NEW draft \in Drafts, NEW objective \in DOMAIN OBJECTIVE_THRESHOLDS,
             ConfirmDraft(draft, objective)
      PROVE  TargetingInv'
  BY <1>1, ConfirmStays
<1>2. ASSUME NEW i \in DOMAIN OutcomeFiles, AnalyzeOutcomes(i) PROVE TargetingInv'
  BY <1>2, AnalyzeStays
<1>3. CASE RejectSuggestion
  BY <1>3 DEF RejectSuggestion, TargetingInv
<1>4. CASE AcceptSuggestion
  BY <1>4, AcceptStays
<1>5. CASE UNCHANGED targetingVars
  BY <1>5 DEF TargetingInv, targetingVars
<1> QED
  BY <1>1, <1>2, <1>3, <1>4, <1>5 DEF TargetingNext

(* which makes the profile in use sound.                                   *)
LEMMA ProfileStaysSound == TargetingInv => ProfileIsSound
<1> SUFFICES ASSUME TargetingInv PROVE ProfileIsSound
  OBVIOUS
<1>1. EveryDraftIsValid /\ ImportanceIsKept
  <2>1. CASE targeting.draft = NoDraft
    <3>1. ConfigOfVersion(targeting) = REFERENCE_CONFIG
      BY <2>1 DEF ConfigOfVersion
    <3> QED
      BY <2>1, <3>1, ReferenceIsValid DEF EveryDraftIsValid, ImportanceIsKept
  <2>2. CASE targeting.draft # NoDraft
    <3>1. ConfigOfVersion(targeting) = BuildScoringConfig(targeting.draft, targeting.objective)
      BY <2>2 DEF ConfigOfVersion
    <3>2. targeting.draft.levels \in Levels /\ targeting.objective \in DOMAIN OBJECTIVE_THRESHOLDS
      BY <2>2 DEF TargetingInv, IsCanonical
    <3>3. /\ ValidConfig(BuildScoringConfig(targeting.draft, targeting.objective))
          /\ OrderKept(PointsOf(BuildScoringConfig(targeting.draft, targeting.objective)),
                       [dim \in Dimensions |-> Index(targeting.draft.levels[dim])])
      BY <3>2, DraftsAreValid
    <3> QED
      BY <3>1, <3>3 DEF EveryDraftIsValid, ImportanceIsKept
  <2> QED
    BY <2>1, <2>2
<1>2. LearnsOnce
  BY DEF TargetingInv, LearnsOnce
<1>3. NoNudgeAlone
  <2>1. CASE suggestion = NoSuggestion
    BY <2>1 DEF NoNudgeAlone, NoSuggestion
  <2>2. CASE suggestion # NoSuggestion
    <3> DEFINE file == OutcomeFiles[suggestion.file]
    <3>1. suggestion.changes = DeriveChanges(file, targeting.draft) /\ suggestion.file \in DOMAIN OutcomeFiles
      BY <2>2 DEF TargetingInv
    <3>2. FileIsGrouped(file)
      BY <3>1, TargetingAssumption
    <3> HIDE DEF file
    <3>3. \A c \in DeriveChanges(file, targeting.draft) :
            c.kind = "dimension_importance" =>
              \E d \in DeriveChanges(file, targeting.draft) :
                d.kind # "dimension_importance" /\ d.dim = c.dim /\ d.to = "preferred"
      BY <3>2, ChangesAreNews, NudgesHaveNews
    <3> QED
      BY <3>1, <3>3 DEF NoNudgeAlone
  <2> QED
    BY <2>1, <2>2
<1> QED
  BY <1>1, <1>2, <1>3 DEF ProfileIsSound

-----------------------------------------------------------------------------
(* csv_mapping.py: the columns of a preview name headers of its file, one  *)
(* meaning each, and what the tables say stays.                            *)
PreviewIsOf(columns, headers) ==
  /\ IsFiniteSet(DOMAIN columns)
  /\ \A i \in DOMAIN columns :
       /\ columns[i].source \in Present(headers)
       /\ columns[i].field \in CANONICAL_FIELDS \cup {NoField}
       /\ ProposeColumn(columns[i].source).field \in {columns[i].field, NoField}
  /\ \A i, j \in DOMAIN columns :
       columns[i].source = columns[j].source => columns[i].field = columns[j].field

CsvInv ==
  /\ csv = [at |-> csv.at, file |-> csv.file, preview |-> csv.preview, of |-> csv.of,
            sent |-> csv.sent, used |-> csv.used]
  /\ csv.file \in CsvFiles
  /\ PreviewIsOf(csv.preview, csv.of.headers)
  /\ ReadAsConfirmed

(* The proposal for one column is about that column.                       *)
LEMMA ColumnsAreProposed ==
  ASSUME NEW h
  PROVE  /\ ProposeColumn(h).source = h
         /\ ProposeColumn(h).field \in CANONICAL_FIELDS \cup {NoField}
         /\ ProposeColumn(h).confidence = "ambiguous" => ProposeColumn(h).field = NoField
<1>1. \A s, f, c : /\ Column(s, f, c).source = s /\ Column(s, f, c).field = f
                   /\ Column(s, f, c).confidence = c
  BY DEF Column
<1>2. \A e \in DOMAIN EXACT : EXACT[e] \in CANONICAL_FIELDS
  BY DEF EXACT, CANONICAL_FIELDS
<1>3. \A e \in DOMAIN HIGH : HIGH[e] \in CANONICAL_FIELDS
  BY DEF HIGH, CANONICAL_FIELDS
<1>4. CASE h \in DOMAIN EXACT
  <2>1. ProposeColumn(h) = Column(h, EXACT[h], "exact")
    BY <1>4 DEF ProposeColumn, EXACT, HIGH, AMBIGUOUS
  <2> QED
    BY <1>1, <1>2, <1>4, <2>1
<1>5. CASE h \notin DOMAIN EXACT /\ h \in DOMAIN HIGH
  <2>1. ProposeColumn(h) = Column(h, HIGH[h], "high")
    BY <1>5 DEF ProposeColumn, EXACT, HIGH, AMBIGUOUS
  <2> QED
    BY <1>1, <1>3, <1>5, <2>1
<1>6. CASE h \notin DOMAIN EXACT /\ h \notin DOMAIN HIGH
  <2>1. \/ ProposeColumn(h) = Column(h, NoField, "ambiguous")
        \/ ProposeColumn(h) = Column(h, NoField, "unmapped")
    BY <1>6 DEF ProposeColumn
  <2> QED
    BY <1>1, <2>1
<1> QED
  BY <1>4, <1>5, <1>6

(* A preview has columns of its file only, one meaning each.               *)
LEMMA ProposalsAreOfTheFile ==
  ASSUME NEW headers \in Seq(STRING)
  PROVE  PreviewIsOf(ProposeMapping(headers), headers)
<1> DEFINE columns == ProposeMapping(headers)
<1>1. DOMAIN columns = Told(headers) /\ \A i \in Told(headers) : columns[i] = ProposeColumn(headers[i])
  BY DEF ProposeMapping
<1>2. IsFiniteSet(Told(headers))
  <2>1. PICK n : n = Len(headers)
    OBVIOUS
  <2>2. n \in Nat /\ DOMAIN headers = 1 .. n
    BY <2>1
  <2>3. IsFiniteSet(1 .. n)
    BY <2>2, FS_Interval
  <2>4. Told(headers) \in SUBSET (1 .. n)
    BY <2>2 DEF Told
  <2> QED
    BY <2>3, <2>4, FS_Subset
<1>3. \A i \in Told(headers) : headers[i] \in Present(headers)
  BY DEF Told, Present, Range
<1> HIDE DEF columns
<1>4. \A i \in Told(headers) :
        /\ columns[i].source = headers[i]
        /\ columns[i].field = ProposeColumn(headers[i]).field
        /\ columns[i].field \in CANONICAL_FIELDS \cup {NoField}
  BY <1>1, ColumnsAreProposed
<1>5. PreviewIsOf(columns, headers)
  BY <1>1, <1>2, <1>3, <1>4 DEF PreviewIsOf
<1> QED
  BY <1>5 DEF columns

(* What the model says of a column is said of all columns of its header.   *)
LEMMA MergedIsOfTheFile ==
  ASSUME NEW headers \in Seq(STRING), NEW answers \in ModelAnswers(ProposeMapping(headers))
  PROVE  PreviewIsOf(MergeLlmMapping(ProposeMapping(headers), answers), headers)
<1> DEFINE columns == ProposeMapping(headers)
           merged == MergeLlmMapping(columns, answers)
           open(i) == columns[i].confidence = "ambiguous" /\ columns[i].source \in DOMAIN answers
<1>1. PreviewIsOf(columns, headers)
  BY ProposalsAreOfTheFile
<1>2. DOMAIN columns = Told(headers) /\ \A i \in Told(headers) : columns[i] = ProposeColumn(headers[i])
  BY DEF ProposeMapping
<1>3. DOMAIN merged = DOMAIN columns
      /\ \A i \in DOMAIN columns :
           merged[i] = IF open(i) THEN Merged(columns[i], answers[columns[i].source]) ELSE columns[i]
  BY DEF MergeLlmMapping
<1>4. \A x \in DOMAIN answers : answers[x].field \in CANONICAL_FIELDS \cup {NoField}
  <2>1. PICK S : answers \in [S -> Readings]
    BY DEF ModelAnswers
  <2>2. \A x \in DOMAIN answers : answers[x] \in Readings
    BY <2>1
  <2> QED
    BY <2>2, CsvAssumption
<1>5. \A column, answer : /\ Merged(column, answer).source = column.source
                          /\ Merged(column, answer).field = answer.field
  <2> TAKE column, answer
  <2>1. \E conf : Merged(column, answer) = Column(column.source, answer.field, conf)
    <3>1. CASE answer.field = NoField
      <4>1. Merged(column, answer) = Column(column.source, NoField, "unmapped")
        BY <3>1 DEF Merged
      <4> QED
        BY <3>1, <4>1
    <3>2. CASE answer.field # NoField
      <4>1. \/ Merged(column, answer) = Column(column.source, answer.field, "high")
            \/ Merged(column, answer) = Column(column.source, answer.field, "ambiguous")
        BY <3>2 DEF Merged
      <4> QED
        BY <4>1
    <3> QED
      BY <3>1, <3>2
  <2> QED
    BY <2>1 DEF Column
<1> HIDE DEF columns, merged
<1>6. \A i \in DOMAIN columns :
        /\ merged[i].source = columns[i].source
        /\ open(i) => merged[i].field = answers[columns[i].source].field
        /\ ~open(i) => merged[i].field = columns[i].field
  BY <1>3, <1>5
<1>7. ASSUME NEW i \in DOMAIN columns
      PROVE  /\ merged[i].source \in Present(headers)
             /\ merged[i].field \in CANONICAL_FIELDS \cup {NoField}
             /\ ProposeColumn(merged[i].source).field \in {merged[i].field, NoField}
  <2>1. CASE open(i)
    <3>1. ProposeColumn(columns[i].source) = columns[i]
      BY <1>2, ColumnsAreProposed
    <3>2. ProposeColumn(columns[i].source).field = NoField
      BY <2>1, <3>1, ColumnsAreProposed
    <3> QED
      BY <1>1, <1>4, <1>6, <2>1, <3>2 DEF PreviewIsOf
  <2>2. CASE ~open(i)
    BY <1>1, <1>6, <2>2 DEF PreviewIsOf
  <2> QED
    BY <2>1, <2>2
<1>8. ASSUME NEW i \in DOMAIN columns, NEW j \in DOMAIN columns, merged[i].source = merged[j].source
      PROVE  merged[i].field = merged[j].field
  <2>1. columns[i].source = columns[j].source
    BY <1>6, <1>8
  <2>2. columns[i] = columns[j]
    BY <1>2, <2>1, ColumnsAreProposed
  <2> QED
    BY <1>6, <2>2
<1>9. IsFiniteSet(DOMAIN merged)
  BY <1>1, <1>3 DEF PreviewIsOf
<1> QED
  <2>1. PreviewIsOf(merged, headers)
    BY <1>3, <1>7, <1>8, <1>9 DEF PreviewIsOf
  <2> QED
    BY <2>1 DEF columns, merged

(* No file has been previewed at first.                                    *)
LEMMA CsvBegins == CsvInit => CsvInv
<1> SUFFICES ASSUME CsvInit PROVE CsvInv
  OBVIOUS
<1>1. PICK file \in CsvFiles :
        csv = [at |-> "open", file |-> file, preview |-> NoPreview, of |-> file,
               sent |-> NotSent, used |-> << >>]
  BY DEF CsvInit
<1>2. csv.at = "open" /\ csv.preview = << >>
  BY <1>1 DEF NoPreview
<1>3. DOMAIN csv.preview = {}
  BY <1>2
<1>4. PreviewIsOf(csv.preview, csv.of.headers)
  <2>1. IsFiniteSet({})
    BY FS_EmptySet
  <2> QED
    BY <1>3, <2>1 DEF PreviewIsOf
<1>5. ReadAsConfirmed
  BY <1>2 DEF ReadAsConfirmed
<1> QED
  BY <1>1, <1>4, <1>5 DEF CsvInv

(* A preview that stays is the preview of the same file.                   *)
LEMMA PreviewsRest ==
  PreviewIsOf(csv'.preview, csv'.of.headers) => PreviewIsOf(csv.preview, csv.of.headers)'
  BY DEF PreviewIsOf, Present, ProposeColumn, Blank, EXACT, HIGH, AMBIGUOUS, Column, NoField,
         CANONICAL_FIELDS

(* A refused upload changes nothing that was shown.                        *)
LEMMA RefusedStays == ASSUME CsvInv, RefuseUpload PROVE CsvInv'
<1>1. csv' = [at |-> "refused", file |-> csv.file, preview |-> csv.preview, of |-> csv.of,
              sent |-> NotSent, used |-> csv.used]
  BY DEF CsvInv, RefuseUpload
<1>2. csv.file \in CsvFiles /\ PreviewIsOf(csv.preview, csv.of.headers)
  BY DEF CsvInv
<1>3. ReadAsConfirmed'
  BY <1>1 DEF ReadAsConfirmed
<1>4. csv'.preview = csv.preview /\ csv'.of = csv.of
  BY <1>1
<1>5. PreviewIsOf(csv.preview, csv.of.headers)'
  <2>1. PreviewIsOf(csv'.preview, csv'.of.headers)
    BY <1>2, <1>4
  <2> QED
    BY <2>1, PreviewsRest
<1> QED
  BY <1>1, <1>2, <1>3, <1>5 DEF CsvInv

(* A new preview is of the file, whatever the model answers.               *)
LEMMA PreviewStays == ASSUME CsvInv, PreviewMapping PROVE CsvInv'
<1> DEFINE columns == ProposeMapping(csv.file.headers)
<1>1. csv.file \in CsvFiles /\ csv.file.headers \in Seq(STRING)
  BY CsvAssumption DEF CsvInv
<1>2. ASSUME NEW shown, PreviewIsOf(shown, csv.file.headers),
             csv' = [csv EXCEPT !.at = "open", !.preview = shown, !.of = csv.file, !.sent = NotSent]
      PROVE  CsvInv'
  <2>1. csv' = [at |-> "open", file |-> csv.file, preview |-> shown, of |-> csv.file,
                sent |-> NotSent, used |-> csv.used]
    BY <1>2 DEF CsvInv
  <2>2. ReadAsConfirmed'
    BY <2>1 DEF ReadAsConfirmed
  <2>3. PreviewIsOf(csv.preview, csv.of.headers)'
    <3>1. csv'.preview = shown /\ csv'.of.headers = csv.file.headers
      BY <2>1
    <3>2. PreviewIsOf(csv'.preview, csv'.of.headers)
      BY <1>2, <3>1
    <3> QED
      BY <3>2, PreviewsRest
  <2> QED
    BY <1>1, <2>1, <2>2, <2>3 DEF CsvInv
<1>3. \/ RefuseUpload
      \/ csv' = [csv EXCEPT !.at = "open", !.preview = columns, !.of = csv.file, !.sent = NotSent]
      \/ \E answers \in ModelAnswers(columns) :
           csv' = [csv EXCEPT !.at = "open", !.preview = MergeLlmMapping(columns, answers),
                              !.of = csv.file, !.sent = NotSent]
  BY DEF PreviewMapping
<1>4. CASE RefuseUpload
  BY <1>4, RefusedStays
<1>5. CASE csv' = [csv EXCEPT !.at = "open", !.preview = columns, !.of = csv.file, !.sent = NotSent]
  <2>1. PreviewIsOf(columns, csv.file.headers)
    BY <1>1, ProposalsAreOfTheFile
  <2> QED
    BY <1>2, <1>5, <2>1
<1>6. ASSUME NEW answers \in ModelAnswers(columns),
             csv' = [csv EXCEPT !.at = "open", !.preview = MergeLlmMapping(columns, answers),
                                !.of = csv.file, !.sent = NotSent]
      PROVE  CsvInv'
  <2>1. PreviewIsOf(MergeLlmMapping(columns, answers), csv.file.headers)
    BY <1>1, MergedIsOfTheFile
  <2> QED
    BY <1>2, <1>6, <2>1
<1> QED
  BY <1>3, <1>4, <1>5, <1>6

(* The customer's corrections keep one meaning per column.                 *)
LEMMA EditStays == ASSUME CsvInv, EditFile PROVE CsvInv'
<1>1. PICK file \in CsvFiles : csv' = [csv EXCEPT !.file = file]
  BY DEF EditFile
<1>2. csv.at # "ingested"
  BY DEF EditFile
<1>3. csv' = [at |-> csv.at, file |-> file, preview |-> csv.preview, of |-> csv.of,
              sent |-> csv.sent, used |-> csv.used]
  BY <1>1 DEF CsvInv
<1>4. ReadAsConfirmed'
  BY <1>2, <1>3 DEF ReadAsConfirmed
<1>5. PreviewIsOf(csv.preview, csv.of.headers)
  BY DEF CsvInv
<1>6. PreviewIsOf(csv.preview, csv.of.headers)'
  <2>1. csv'.preview = csv.preview /\ csv'.of = csv.of
    BY <1>3
  <2> QED
    BY <1>5, <2>1, PreviewsRest
<1> QED
  BY <1>3, <1>4, <1>6 DEF CsvInv
(* A mapping without a problem is read as it was sent.                     *)
LEMMA CleanMapsAreTaken ==
  ASSUME NEW headers, NEW sent, sent = [f \in DOMAIN sent |-> sent[f]], ~HasProblem(headers, sent)
  PROVE  /\ Resolve(headers, Sent(sent)) = sent
         /\ \A f, g \in DOMAIN sent : sent[f] = sent[g] => f = g
         /\ Range(sent) \subseteq Present(headers)
         /\ "email" \in DOMAIN sent
<1>1. \A f \in DOMAIN sent : f \in CANONICAL_FIELDS /\ sent[f] \in Present(headers)
  BY DEF HasProblem
<1>2. {f \in DOMAIN sent \cap CANONICAL_FIELDS : sent[f] \in Present(headers)} = DOMAIN sent
  BY <1>1
<1>3. DOMAIN Valid(headers, sent) = DOMAIN sent
  BY <1>2 DEF Valid, Restrict
<1>4. "email" \in DOMAIN sent
      /\ \A f, g \in DOMAIN sent : sent[f] = sent[g] => f = g
  BY <1>3 DEF HasProblem
<1>5. Resolve(headers, Sent(sent)) = sent
  <2>1. Sent(sent) # NotSent /\ Sent(sent)[1] = sent
    BY DEF Sent, NotSent
  <2>2. {f \in DOMAIN sent : sent[f] \in Present(headers)} = DOMAIN sent
    BY <1>1
  <2>3. Resolve(headers, Sent(sent)) = [f \in DOMAIN sent |-> sent[f]]
    BY <2>1, <2>2 DEF Resolve, Restrict
  <2> QED
    BY <2>3
<1>6. Range(sent) \subseteq Present(headers)
  BY <1>1 DEF Range
<1> QED
  BY <1>4, <1>5, <1>6

(* The aliases of batches.py give every field a column of its own.         *)
LEMMA AliasesAreTaken ==
  ASSUME NEW headers
  PROVE  /\ \A f, g \in DOMAIN MapColumns(headers) :
              MapColumns(headers)[f] = MapColumns(headers)[g] => f = g
         /\ Range(MapColumns(headers)) \subseteq Present(headers)
<1> DEFINE map == MapColumns(headers)
           found(f) == {i \in DOMAIN COLUMN_ALIASES[f] : COLUMN_ALIASES[f][i] \in Present(headers)}
<1>1. DOMAIN COLUMN_ALIASES = {"email", "full_name", "company_name"}
      /\ \A f \in DOMAIN COLUMN_ALIASES : DOMAIN COLUMN_ALIASES[f] = {1}
      /\ COLUMN_ALIASES["email"][1] = "email" /\ COLUMN_ALIASES["full_name"][1] = "name"
      /\ COLUMN_ALIASES["company_name"][1] = "company"
  BY DEF COLUMN_ALIASES
<1>2. DOMAIN map = {f \in DOMAIN COLUMN_ALIASES : found(f) # {}}
      /\ \A f \in DOMAIN map : map[f] = COLUMN_ALIASES[f][Min(found(f))]
  BY DEF MapColumns
<1> HIDE DEF map
<1>3. ASSUME NEW f \in DOMAIN map
      PROVE  f \in DOMAIN COLUMN_ALIASES /\ map[f] = COLUMN_ALIASES[f][1] /\ map[f] \in Present(headers)
  <2>1. found(f) = {1}
    BY <1>1, <1>2
  <2>2. Min(found(f)) = 1
    <3>1. Min({1}) = 1
      BY DEF Min
    <3> QED
      BY <2>1, <3>1
  <2> QED
    BY <1>1, <1>2, <2>1, <2>2
<1>4. \A f, g \in DOMAIN map : map[f] = map[g] => f = g
  BY <1>1, <1>3
<1>5. Range(map) \subseteq Present(headers)
  BY <1>3 DEF Range
<1> QED
  BY <1>4, <1>5 DEF map

(* What a caller may send is a map of headers.                             *)
LEMMA OffersAreMaps ==
  ASSUME NEW columns
  PROVE  BuildFieldMap(columns) = [f \in DOMAIN BuildFieldMap(columns) |-> BuildFieldMap(columns)[f]]
  BY DEF BuildFieldMap

(* A file read as confirmed stays read as confirmed.                       *)
LEMMA ReadingRests ==
  /\ csv'.sent # NotSent => csv'.used = csv'.sent[1]
  /\ \A f, g \in DOMAIN csv'.used : csv'.used[f] = csv'.used[g] => f = g
  /\ Range(csv'.used) \subseteq Present(csv'.file.headers)
  /\ "email" \in DOMAIN csv'.used \cap CANONICAL_FIELDS
  => ReadAsConfirmed'
<1>1. NotSent' = NotSent /\ CANONICAL_FIELDS' = CANONICAL_FIELDS
  BY DEF NotSent, CANONICAL_FIELDS
<1>2. (Range(csv.used) \subseteq Present(csv.file.headers))'
      <=> (Range(csv'.used) \subseteq Present(csv'.file.headers))
  BY DEF Range, Present, Blank
<1> QED
  BY <1>1, <1>2 DEF ReadAsConfirmed

(* An upload is read by the mapping that was sent, or by none.             *)
LEMMA UploadStays == ASSUME CsvInv, UploadFile PROVE CsvInv'
<1> DEFINE headers == csv.file.headers
<1>1. PICK sent \in {NotSent, Sent(BuildFieldMap(csv.preview))} \cup {Sent(c) : c \in Corrections} :
        LET resolved == Resolve(headers, sent)
            accepted == /\ sent = NotSent \/ ~HasProblem(headers, sent[1])
                        /\ Parses(csv.file, resolved)
        IN  IF accepted
            THEN csv' = [csv EXCEPT !.at = "ingested", !.sent = sent, !.used = resolved]
            ELSE RefuseUpload
  BY DEF UploadFile
<1>2. CASE RefuseUpload
  BY <1>2, RefusedStays
<1>3. CASE /\ sent = NotSent \/ ~HasProblem(headers, sent[1])
           /\ Parses(csv.file, Resolve(headers, sent))
           /\ csv' = [csv EXCEPT !.at = "ingested", !.sent = sent, !.used = Resolve(headers, sent)]
  <2>1. csv' = [at |-> "ingested", file |-> csv.file, preview |-> csv.preview, of |-> csv.of,
                sent |-> sent, used |-> Resolve(headers, sent)]
    BY <1>3 DEF CsvInv
  <2>2. PICK used : used = Resolve(headers, sent)
    OBVIOUS
  <2>3. "email" \in DOMAIN used /\ "email" \in CANONICAL_FIELDS
    BY <1>3, <2>2 DEF Parses, CANONICAL_FIELDS
  <2>4. /\ sent # NotSent => used = sent[1]
        /\ \A f, g \in DOMAIN used : used[f] = used[g] => f = g
        /\ Range(used) \subseteq Present(headers)
    <3>1. CASE sent = NotSent
      <4>1. used = MapColumns(headers)
        BY <2>2, <3>1 DEF Resolve
      <4> QED
        BY <3>1, <4>1, AliasesAreTaken
    <3>2. CASE sent # NotSent
      <4>1. PICK map : sent = Sent(map) /\ map = [f \in DOMAIN map |-> map[f]]
        BY <3>2, OffersAreMaps, CsvAssumption
      <4>2. sent[1] = map
        BY <4>1 DEF Sent
      <4>3. ~HasProblem(headers, map)
        BY <1>3, <3>2, <4>2
      <4>4. used = map /\ (\A f, g \in DOMAIN map : map[f] = map[g] => f = g)
            /\ Range(map) \subseteq Present(headers)
        BY <2>2, <4>1, <4>3, CleanMapsAreTaken
      <4> QED
        BY <4>2, <4>4
    <3> QED
      BY <3>1, <3>2
  <2>5. ReadAsConfirmed'
    <3>1. csv'.used = used /\ csv'.sent = sent /\ csv'.file.headers = headers
      BY <2>1, <2>2
    <3> QED
      BY <2>3, <2>4, <3>1, ReadingRests
  <2>6. csv.file \in CsvFiles /\ PreviewIsOf(csv.preview, csv.of.headers)
    BY DEF CsvInv
  <2>7. PreviewIsOf(csv.preview, csv.of.headers)'
    <3>1. csv'.preview = csv.preview /\ csv'.of = csv.of
      BY <2>1
    <3> QED
      BY <2>6, <3>1, PreviewsRest
  <2> QED
    BY <2>1, <2>5, <2>6, <2>7 DEF CsvInv
<1> QED
  BY <1>1, <1>2, <1>3

(* Every step keeps the invariant of the mapping,                          *)
LEMMA CsvStays == CsvInv /\ (CsvNext \/ UNCHANGED csv) => CsvInv'
<1> SUFFICES ASSUME CsvInv, CsvNext \/ UNCHANGED csv PROVE CsvInv'
  OBVIOUS
<1>1. CASE UNCHANGED csv
  <2>1. csv' = csv
    BY <1>1
  <2>2. PreviewIsOf(csv.preview, csv.of.headers)'
    BY <2>1, PreviewsRest DEF CsvInv
  <2>3. ReadAsConfirmed'
    <3>1. csv.at = "ingested" =>
            /\ csv.sent # NotSent => csv.used = csv.sent[1]
            /\ \A f, g \in DOMAIN csv.used : csv.used[f] = csv.used[g] => f = g
            /\ Range(csv.used) \subseteq Present(csv.file.headers)
            /\ "email" \in DOMAIN csv.used \cap CANONICAL_FIELDS
      BY DEF ReadAsConfirmed, CsvInv
    <3>2. csv.at # "ingested" => ReadAsConfirmed'
      BY <2>1 DEF ReadAsConfirmed
    <3> QED
      BY <2>1, <3>1, <3>2, ReadingRests
  <2> QED
    BY <2>1, <2>2, <2>3 DEF CsvInv
<1> QED
  BY <1>1, PreviewStays, EditStays, UploadStays DEF CsvNext

(* A preview without conflicts offers every field it found.                *)
LEMMA OffersAreComplete ==
  ASSUME NEW columns, NEW headers, PreviewIsOf(columns, headers), ~RequiresConfirmation(columns),
         NEW i \in DOMAIN columns, columns[i].field # NoField
  PROVE  /\ columns[i].field \in DOMAIN BuildFieldMap(columns)
         /\ BuildFieldMap(columns)[columns[i].field] = columns[i].source
<1> DEFINE f == columns[i].field
           claims == Claiming(columns, f)
<1>1. f \in CANONICAL_FIELDS
  BY DEF PreviewIsOf
<1>2. IsFiniteSet(claims) /\ i \in claims
  <2>1. claims \in SUBSET DOMAIN columns
    BY DEF Claiming
  <2> QED
    BY <2>1, FS_Subset DEF PreviewIsOf, Claiming
<1>3. ~(Cardinality(claims) > 1)
  BY <1>1 DEF RequiresConfirmation, Conflicts
<1>4. Cardinality(claims) = 1
  <2>1. PICK n : n = Cardinality(claims)
    OBVIOUS
  <2>2. n \in Nat /\ n # 0
    BY <1>2, <2>1, FS_CardinalityType, FS_EmptySet
  <2> QED
    BY <1>3, <2>1, <2>2
<1>5. PICK x : claims = {x}
  BY <1>2, <1>4, FS_Singleton
<1>6. (CHOOSE j \in claims : TRUE) = i
  BY <1>2, <1>5
<1> QED
  BY <1>1, <1>4, <1>6 DEF BuildFieldMap

(* What the customer can confirm of a preview is free of problems,         *)
LEMMA OffersAreClean ==
  ASSUME NEW columns, NEW headers, PreviewIsOf(columns, headers), UsableMapping(columns)
  PROVE  ~HasProblem(headers, BuildFieldMap(columns))
<1> DEFINE map == BuildFieldMap(columns)
<1>1. ASSUME NEW f \in DOMAIN map
      PROVE  f \in CANONICAL_FIELDS /\ \E i \in DOMAIN columns : columns[i].field = f /\ map[f] = columns[i].source
  <2>1. f \in CANONICAL_FIELDS /\ Cardinality(Claiming(columns, f)) = 1
        /\ map[f] = columns[CHOOSE i \in Claiming(columns, f) : TRUE].source
    BY DEF BuildFieldMap
  <2>2. IsFiniteSet(Claiming(columns, f))
    <3>1. Claiming(columns, f) \in SUBSET DOMAIN columns
      BY DEF Claiming
    <3> QED
      BY <3>1, FS_Subset DEF PreviewIsOf
  <2>3. PICK x : Claiming(columns, f) = {x}
    BY <2>1, <2>2, FS_Singleton
  <2>4. (CHOOSE i \in Claiming(columns, f) : TRUE) \in Claiming(columns, f)
    BY <2>3
  <2> QED
    BY <2>1, <2>4 DEF Claiming
<1> HIDE DEF map
<1>2. \A f \in DOMAIN map : f \in CANONICAL_FIELDS /\ map[f] \in Present(headers)
  BY <1>1 DEF PreviewIsOf
<1>3. \A f, g \in DOMAIN map : map[f] = map[g] => f = g
  BY <1>1 DEF PreviewIsOf
<1>4. "email" \in DOMAIN map
  BY DEF UsableMapping, map
<1>5. DOMAIN Valid(headers, map) = DOMAIN map
  <2>1. {f \in DOMAIN map \cap CANONICAL_FIELDS : map[f] \in Present(headers)} = DOMAIN map
    BY <1>2
  <2> QED
    BY <2>1 DEF Valid, Restrict
<1>6. ~HasProblem(headers, map)
  BY <1>2, <1>3, <1>4, <1>5 DEF HasProblem
<1> QED
  BY <1>6 DEF map

(* so an upload is read as it was confirmed.                               *)
LEMMA UploadStaysAsConfirmed == CsvInv => UploadIsAsConfirmed
<1> SUFFICES ASSUME CsvInv PROVE UploadIsAsConfirmed
  OBVIOUS
<1> DEFINE map == BuildFieldMap(csv.preview)
<1>1. PreviewIsOf(csv.preview, csv.of.headers) /\ ReadAsConfirmed
  BY DEF CsvInv
<1>2. ASSUME ~RequiresConfirmation(csv.preview), csv.at = "ingested", csv.sent = Sent(map),
             NEW i \in DOMAIN csv.preview,
             NEW f \in {csv.preview[i].field, ProposeColumn(csv.preview[i].source).field}, f # NoField
      PROVE  f \in DOMAIN csv.used /\ csv.used[f] = csv.preview[i].source
  <2>1. csv.used = map
    <3>1. csv.sent # NotSent /\ csv.sent[1] = map
      BY <1>2 DEF Sent, NotSent
    <3> QED
      BY <1>1, <1>2, <3>1 DEF ReadAsConfirmed
  <2>2. f = csv.preview[i].field
    BY <1>1, <1>2 DEF PreviewIsOf
  <2>3. f \in DOMAIN map /\ map[f] = csv.preview[i].source
    BY <1>1, <1>2, <2>2, OffersAreComplete
  <2> QED
    BY <2>1, <2>3
<1>3. UsableMapping(csv.preview) => ~HasProblem(csv.of.headers, map)
  BY <1>1, OffersAreClean
<1>4. EchoLosesNothing
  BY <1>2, <1>3 DEF EchoLosesNothing
<1> QED
  BY <1>1, <1>4 DEF UploadIsAsConfirmed

-----------------------------------------------------------------------------
(* taxonomy.py: what a text means is a word of the tables, if it means     *)
(* anything.                                                               *)

(* The least of a set of naturals.                                         *)
LEMMA LeastIsMember ==
  ASSUME NEW S, S \in SUBSET Nat, S # {}
  PROVE  Min(S) \in S /\ \A x \in S : Min(S) <= x
<1>1. \E n \in S : \A m \in S : n <= m
  BY LeastOf
<1> QED
  BY <1>1 DEF Min

(* The first rule that matches gives one of the rules' values.             *)
LEMMA FirstMatches ==
  ASSUME NEW text, NEW rules, DOMAIN rules \in SUBSET Nat
  PROVE  FirstMatch(text, rules) \in {r.value : r \in Range(rules)} \cup {Unmapped}
<1> DEFINE found == {i \in DOMAIN rules : rules[i].phrases \cap text # {}}
<1>1. CASE found = {}
  BY <1>1 DEF FirstMatch
<1>2. CASE found # {}
  <2>1. Min(found) \in found
    BY <1>2, LeastIsMember
  <2>2. FirstMatch(text, rules) = rules[Min(found)].value
    BY <1>2 DEF FirstMatch
  <2>3. rules[Min(found)] \in Range(rules)
    BY <2>1 DEF Range
  <2> QED
    BY <2>2, <2>3
<1> QED
  BY <1>1, <1>2

(* An alias gives one of the table's values.                               *)
LEMMA AliasMatches ==
  ASSUME NEW text, NEW aliases
  PROVE  /\ ByAlias(text, aliases) \in Range(aliases) \cup {Unmapped}
         /\ \A p \in DOMAIN aliases : text = {p} => ByAlias(text, aliases) = aliases[p]
         /\ text = {} => ByAlias(text, aliases) = Unmapped
<1>1. CASE \E p \in DOMAIN aliases : text = {p}
  <2>1. PICK p \in DOMAIN aliases : text = {p}
    BY <1>1
  <2>2. (CHOOSE q \in DOMAIN aliases : text = {q}) = p
    BY <2>1
  <2>3. ByAlias(text, aliases) = aliases[p]
    BY <1>1, <2>2 DEF ByAlias
  <2> QED
    BY <2>1, <2>3 DEF Range
<1>2. CASE ~\E p \in DOMAIN aliases : text = {p}
  BY <1>2 DEF ByAlias
<1> QED
  BY <1>1, <1>2

(* Aliases of industries give values that the rules give too.              *)
LEMMA IndustryTables ==
  /\ DOMAIN INDUSTRY_RULES = 1 .. 8
  /\ Range(INDUSTRY_ALIASES) \subseteq CANONICAL_BY_FIELD["industry"]
  /\ {r.value : r \in Range(INDUSTRY_RULES)} = CANONICAL_BY_FIELD["industry"]
<1>1. DOMAIN INDUSTRY_RULES = 1 .. 8
  BY DEF INDUSTRY_RULES
<1>2. CANONICAL_BY_FIELD["industry"] = {r.value : r \in Range(INDUSTRY_RULES)}
  BY DEF CANONICAL_BY_FIELD
<1>3. INDUSTRY_RULES[5].value = "software" /\ INDUSTRY_RULES[8].value = "retail"
      /\ INDUSTRY_RULES[4].value = "financial_services"
  BY DEF INDUSTRY_RULES, Rule
<1>4. {"software", "retail", "financial_services"} \subseteq {r.value : r \in Range(INDUSTRY_RULES)}
  <2>1. \A i \in 1 .. 8 : INDUSTRY_RULES[i] \in Range(INDUSTRY_RULES)
    BY <1>1 DEF Range
  <2> HIDE DEF INDUSTRY_RULES
  <2> QED
    BY <1>3, <2>1
<1>5. Range(INDUSTRY_ALIASES) \subseteq {"software", "retail", "financial_services"}
  BY DEF INDUSTRY_ALIASES, Range
<1> QED
  BY <1>1, <1>2, <1>4, <1>5

(* Rungs are aliases of themselves, so a parsed title maps again.          *)
LEMMA SeniorityTables ==
  /\ DOMAIN SENIORITY_TITLE_RULES = 1 .. 6
  /\ CANONICAL_BY_FIELD["title_seniority"] = Range(SENIORITY_ALIASES)
  /\ Range(SENIORITY_ALIASES) = {"c_level", "vp", "director", "manager", "ic"}
  /\ {r.value : r \in Range(SENIORITY_TITLE_RULES)} \subseteq {"c_level", "vp", "director", "manager", "ic"}
  /\ \A v \in Range(SENIORITY_ALIASES) : v \in DOMAIN SENIORITY_ALIASES /\ SENIORITY_ALIASES[v] = v
<1>1. DOMAIN SENIORITY_TITLE_RULES = 1 .. 6
  BY DEF SENIORITY_TITLE_RULES
<1>2. CANONICAL_BY_FIELD["title_seniority"] = Range(SENIORITY_ALIASES)
  BY DEF CANONICAL_BY_FIELD
<1>3. Range(SENIORITY_ALIASES) = {"c_level", "vp", "director", "manager", "ic"}
  BY DEF SENIORITY_ALIASES, Range
<1>4. {r.value : r \in Range(SENIORITY_TITLE_RULES)} \subseteq {"c_level", "vp", "director", "manager", "ic"}
  <2>1. /\ SENIORITY_TITLE_RULES[1].value = "vp" /\ SENIORITY_TITLE_RULES[2].value = "c_level"
        /\ SENIORITY_TITLE_RULES[3].value = "vp" /\ SENIORITY_TITLE_RULES[4].value = "director"
        /\ SENIORITY_TITLE_RULES[5].value = "manager" /\ SENIORITY_TITLE_RULES[6].value = "ic"
    BY DEF SENIORITY_TITLE_RULES, Rule
  <2>2. Range(SENIORITY_TITLE_RULES) = {SENIORITY_TITLE_RULES[i] : i \in 1 .. 6}
    BY <1>1 DEF Range
  <2>3. 1 .. 6 = {1, 2, 3, 4, 5, 6}
    OBVIOUS
  <2>4. {r.value : r \in Range(SENIORITY_TITLE_RULES)} = {SENIORITY_TITLE_RULES[i].value : i \in {1, 2, 3, 4, 5, 6}}
    BY <2>2, <2>3
  <2> QED
    BY <2>1, <2>4
<1>5. \A v \in {"c_level", "vp", "director", "manager", "ic"} :
        v \in DOMAIN SENIORITY_ALIASES /\ SENIORITY_ALIASES[v] = v
  BY DEF SENIORITY_ALIASES
<1> QED
  BY <1>1, <1>2, <1>3, <1>4, <1>5

(* Functions are aliases of themselves.                                    *)
LEMMA FunctionTables ==
  /\ DOMAIN FUNCTION_TITLE_RULES = 1 .. 7
  /\ CANONICAL_BY_FIELD["title_function"] = {r.value : r \in Range(FUNCTION_TITLE_RULES)}
  /\ {r.value : r \in Range(FUNCTION_TITLE_RULES)}
       = {"operations", "data", "engineering", "marketing", "sales", "finance", "rest"}
  /\ Range(FUNCTION_ALIASES)
       = {"operations", "data", "engineering", "marketing", "sales", "finance", "rest"}
  /\ \A v \in Range(FUNCTION_ALIASES) : v \in DOMAIN FUNCTION_ALIASES /\ FUNCTION_ALIASES[v] = v
<1> DEFINE V == {"operations", "data", "engineering", "marketing", "sales", "finance", "rest"}
<1>1. DOMAIN FUNCTION_TITLE_RULES = 1 .. 7
  BY DEF FUNCTION_TITLE_RULES
<1>2. CANONICAL_BY_FIELD["title_function"] = {r.value : r \in Range(FUNCTION_TITLE_RULES)}
  BY DEF CANONICAL_BY_FIELD
<1>3. Range(FUNCTION_ALIASES) = V
  BY DEF FUNCTION_ALIASES, Range
<1>4. {r.value : r \in Range(FUNCTION_TITLE_RULES)} = V
  <2>1. /\ FUNCTION_TITLE_RULES[1].value = "operations" /\ FUNCTION_TITLE_RULES[2].value = "data"
        /\ FUNCTION_TITLE_RULES[3].value = "engineering" /\ FUNCTION_TITLE_RULES[4].value = "marketing"
        /\ FUNCTION_TITLE_RULES[5].value = "sales" /\ FUNCTION_TITLE_RULES[6].value = "finance"
        /\ FUNCTION_TITLE_RULES[7].value = "rest"
    BY DEF FUNCTION_TITLE_RULES, Rule
  <2>2. Range(FUNCTION_TITLE_RULES) = {FUNCTION_TITLE_RULES[i] : i \in 1 .. 7}
    BY <1>1 DEF Range
  <2>3. 1 .. 7 = {1, 2, 3, 4, 5, 6, 7}
    OBVIOUS
  <2>4. {r.value : r \in Range(FUNCTION_TITLE_RULES)} = {FUNCTION_TITLE_RULES[i].value : i \in {1, 2, 3, 4, 5, 6, 7}}
    BY <2>2, <2>3
  <2> QED
    BY <2>1, <2>4
<1>5. \A v \in V : v \in DOMAIN FUNCTION_ALIASES /\ FUNCTION_ALIASES[v] = v
  BY DEF FUNCTION_ALIASES
<1> QED
  BY <1>1, <1>2, <1>3, <1>4, <1>5

(* Size classes are those of the reference profile.                        *)
LEMMA SizesAreClasses ==
  ASSUME NEW n
  PROVE  SizeClass(n) \in {"e10", "e50", "e200", "e1000", "more"}
<1>1. \/ SizeClass(n) = "e10" \/ SizeClass(n) = "e50" \/ SizeClass(n) = "e200"
      \/ SizeClass(n) = "e1000" \/ SizeClass(n) = "more"
  BY DEF SizeClass
<1> QED
  BY <1>1

(* Every meaning is canonical, or none.                                    *)
LEMMA MeaningsAreCanonical ==
  ASSUME NEW f \in {"employee_count", "industry", "title_seniority", "title_function"}, NEW raw
  PROVE  Meaning(f, raw) \in CANONICAL_BY_FIELD[f] \cup {Unmapped}
<1>1. CASE f = "employee_count"
  <2>1. Meaning(f, raw) = NormalizeEmployeeCount(raw)
    BY <1>1 DEF Meaning
  <2>2. NormalizeEmployeeCount(raw) \in {"e10", "e50", "e200", "e1000", "more"} \cup {Unmapped}
    BY SizesAreClasses DEF NormalizeEmployeeCount
  <2>3. CANONICAL_BY_FIELD["employee_count"] = {"e10", "e50", "e200", "e1000", "more"}
    BY DEF CANONICAL_BY_FIELD, REFERENCE_CONFIG
  <2> QED
    BY <1>1, <2>1, <2>2, <2>3
<1>2. CASE f = "industry"
  <2>1. Meaning(f, raw) = NormalizeIndustry(raw)
    BY <1>2 DEF Meaning
  <2>2. \/ NormalizeIndustry(raw) = ByAlias(raw, INDUSTRY_ALIASES)
        \/ NormalizeIndustry(raw) = FirstMatch(raw, INDUSTRY_RULES)
    BY DEF NormalizeIndustry, AliasThenRules
  <2>3. ByAlias(raw, INDUSTRY_ALIASES) \in Range(INDUSTRY_ALIASES) \cup {Unmapped}
    BY AliasMatches
  <2>4. FirstMatch(raw, INDUSTRY_RULES) \in {r.value : r \in Range(INDUSTRY_RULES)} \cup {Unmapped}
    <3>1. DOMAIN INDUSTRY_RULES \in SUBSET Nat
      BY IndustryTables
    <3> QED
      BY <3>1, FirstMatches
  <2> QED
    BY <1>2, <2>1, <2>2, <2>3, <2>4, IndustryTables
<1>3. CASE f = "title_seniority"
  <2>1. Meaning(f, raw) = ByAlias(raw, SENIORITY_ALIASES)
    BY <1>3 DEF Meaning, NormalizeSeniority
  <2> QED
    BY <1>3, <2>1, AliasMatches, SeniorityTables
<1>4. CASE f = "title_function"
  <2>1. Meaning(f, raw) = ByAlias(raw, FUNCTION_ALIASES)
    BY <1>4 DEF Meaning, NormalizeFunction
  <2> QED
    BY <1>4, <2>1, AliasMatches, FunctionTables
<1> QED
  BY <1>1, <1>2, <1>3, <1>4

(* A canonical word is its own alias; a title that says nothing to the     *)
(* rules says nothing to the aliases either.                               *)
LEMMA TitlesAreRead ==
  ASSUME NEW text
  PROVE  /\ SeniorityFromTitle(text) # Unmapped =>
              NormalizeSeniority({SeniorityFromTitle(text)}) = SeniorityFromTitle(text)
         /\ SeniorityFromTitle(text) = Unmapped => NormalizeSeniority(text) = Unmapped
         /\ FunctionFromTitle(text) # Unmapped =>
              NormalizeFunction({FunctionFromTitle(text)}) = FunctionFromTitle(text)
         /\ FunctionFromTitle(text) = Unmapped => NormalizeFunction(text) = Unmapped
<1>1. SeniorityFromTitle(text) \in Range(SENIORITY_ALIASES) \cup {Unmapped}
  <2>1. \/ SeniorityFromTitle(text) = ByAlias(text, SENIORITY_ALIASES)
        \/ SeniorityFromTitle(text) = FirstMatch(text, SENIORITY_TITLE_RULES)
    BY DEF SeniorityFromTitle, AliasThenRules
  <2>2. ByAlias(text, SENIORITY_ALIASES) \in Range(SENIORITY_ALIASES) \cup {Unmapped}
    BY AliasMatches
  <2>3. DOMAIN SENIORITY_TITLE_RULES \in SUBSET Nat
    BY SeniorityTables
  <2>4. FirstMatch(text, SENIORITY_TITLE_RULES)
          \in {r.value : r \in Range(SENIORITY_TITLE_RULES)} \cup {Unmapped}
    BY <2>3, FirstMatches
  <2> QED
    BY <2>1, <2>2, <2>4, SeniorityTables
<1>2. FunctionFromTitle(text) \in Range(FUNCTION_ALIASES) \cup {Unmapped}
  <2>1. \/ FunctionFromTitle(text) = ByAlias(text, FUNCTION_ALIASES)
        \/ FunctionFromTitle(text) = FirstMatch(text, FUNCTION_TITLE_RULES)
    BY DEF FunctionFromTitle, AliasThenRules
  <2>2. ByAlias(text, FUNCTION_ALIASES) \in Range(FUNCTION_ALIASES) \cup {Unmapped}
    BY AliasMatches
  <2>3. DOMAIN FUNCTION_TITLE_RULES \in SUBSET Nat
    BY FunctionTables
  <2>4. FirstMatch(text, FUNCTION_TITLE_RULES)
          \in {r.value : r \in Range(FUNCTION_TITLE_RULES)} \cup {Unmapped}
    BY <2>3, FirstMatches
  <2> QED
    BY <2>1, <2>2, <2>4, FunctionTables
<1>3. SeniorityFromTitle(text) # Unmapped =>
        NormalizeSeniority({SeniorityFromTitle(text)}) = SeniorityFromTitle(text)
  BY <1>1, AliasMatches, SeniorityTables DEF NormalizeSeniority
<1>4. FunctionFromTitle(text) # Unmapped =>
        NormalizeFunction({FunctionFromTitle(text)}) = FunctionFromTitle(text)
  BY <1>2, AliasMatches, FunctionTables DEF NormalizeFunction
<1>5. SeniorityFromTitle(text) = Unmapped => NormalizeSeniority(text) = Unmapped
  BY DEF SeniorityFromTitle, AliasThenRules, NormalizeSeniority
<1>6. FunctionFromTitle(text) = Unmapped => NormalizeFunction(text) = Unmapped
  BY DEF FunctionFromTitle, AliasThenRules, NormalizeFunction
<1> QED
  BY <1>3, <1>4, <1>5, <1>6

(* If neither of the first two rules matches, the third or fourth is first.*)
LEMMA ThirdOrFourth ==
  ASSUME NEW found, found \in SUBSET (1 .. 8), 1 \notin found, 2 \notin found,
         3 \in found \/ 4 \in found
  PROVE  Min(found) = 3 \/ Min(found) = 4
<1>1. found \in SUBSET Nat /\ found # {}
  OBVIOUS
<1>2. PICK m : m = Min(found)
  OBVIOUS
<1>3. m \in found /\ \A x \in found : m <= x
  BY <1>1, <1>2, LeastIsMember
<1>4. m \in 1 .. 8 /\ m # 1 /\ m # 2 /\ (m <= 3 \/ m <= 4)
  BY <1>3
<1>5. m = 3 \/ m = 4
  BY <1>4
<1> QED
  BY <1>2, <1>5

(* There is a third and a fourth rule.                                     *)
LEMMA ThreeAndFour == 3 \in 1 .. 8 /\ 4 \in 1 .. 8
  OBVIOUS

(* A regulated trade is read before the technology it mentions.            *)
LEMMA TradesComeFirst ==
  ASSUME NEW text, text \cap {"medical", "banking"} # {},
         text \cap {"financial technology", "health tech"} = {}
  PROVE  NormalizeIndustry(text) \in {"healthcare", "financial_services"}
<1>1. CASE ByAlias(text, INDUSTRY_ALIASES) # Unmapped
  <2>1. PICK p \in DOMAIN INDUSTRY_ALIASES : text = {p}
    BY <1>1 DEF ByAlias
  <2>2. p = "banking" /\ INDUSTRY_ALIASES[p] = "financial_services"
    BY <2>1 DEF INDUSTRY_ALIASES
  <2>3. NormalizeIndustry(text) = ByAlias(text, INDUSTRY_ALIASES)
    BY <1>1 DEF NormalizeIndustry, AliasThenRules
  <2> QED
    BY <2>1, <2>2, <2>3, AliasMatches
<1>2. CASE ByAlias(text, INDUSTRY_ALIASES) = Unmapped
  <2> DEFINE found == {i \in DOMAIN INDUSTRY_RULES : INDUSTRY_RULES[i].phrases \cap text # {}}
  <2>1. /\ INDUSTRY_RULES[1].phrases = {"financial technology"}
        /\ INDUSTRY_RULES[2].phrases = {"health tech"}
        /\ INDUSTRY_RULES[3].phrases = {"medical", "hospital"}
        /\ INDUSTRY_RULES[4].phrases = {"banking", "insurance"}
        /\ INDUSTRY_RULES[3].value = "healthcare" /\ INDUSTRY_RULES[4].value = "financial_services"
    BY DEF INDUSTRY_RULES, Rule
  <2>2. 1 \notin found /\ 2 \notin found /\ (3 \in found \/ 4 \in found)
    <3>1. 3 \in DOMAIN INDUSTRY_RULES /\ 4 \in DOMAIN INDUSTRY_RULES
      BY IndustryTables, ThreeAndFour, Zenon
    <3>2. INDUSTRY_RULES[1].phrases \cap text = {} /\ INDUSTRY_RULES[2].phrases \cap text = {}
      BY <2>1
    <3>3. INDUSTRY_RULES[3].phrases \cap text # {} \/ INDUSTRY_RULES[4].phrases \cap text # {}
      BY <2>1
    <3> QED
      BY <3>1, <3>2, <3>3
  <2>3. found \in SUBSET (1 .. 8)
    BY IndustryTables
  <2>4. NormalizeIndustry(text) = FirstMatch(text, INDUSTRY_RULES)
    BY <1>2 DEF NormalizeIndustry, AliasThenRules
  <2>5. FirstMatch(text, INDUSTRY_RULES) = INDUSTRY_RULES[Min(found)].value
    BY <2>2 DEF FirstMatch
  <2> HIDE DEF found
  <2>6. Min(found) = 3 \/ Min(found) = 4
    BY <2>2, <2>3, ThirdOrFourth
  <2> QED
    BY <2>1, <2>4, <2>5, <2>6
<1> QED
  BY <1>1, <1>2

(* What is delivered is what means something, and is paid.                 *)
LEMMA DeliveriesAreCanonical ==
  ASSUME NEW seller, NEW raw,
         DOMAIN raw \in SUBSET {"employee_count", "industry", "title_seniority", "title_function"}
  PROVE  LET d == Delivered(seller, raw)
             stated == {f \in DOMAIN raw : ~IsSilent(f, raw[f])}
         IN  /\ d.cost = seller.cost
             /\ DOMAIN d.fields = {f \in stated : Meaning(f, raw[f]) # Unmapped}
             /\ d.fields = [f \in DOMAIN d.fields |-> Meaning(f, raw[f])]
             /\ d.unmapped = stated \ DOMAIN d.fields
             /\ \A f \in DOMAIN d.fields : d.fields[f] \in CANONICAL_BY_FIELD[f]
             /\ d.fields # << >> => d.status = "SUCCESS"
<1> DEFINE stated == {f \in DOMAIN raw : ~IsSilent(f, raw[f])}
           clear == {f \in stated : Meaning(f, raw[f]) # Unmapped}
           d == Delivered(seller, raw)
<1>1. /\ d.cost = seller.cost /\ d.fields = [f \in clear |-> Meaning(f, raw[f])]
      /\ d.unmapped = stated \ clear /\ (d.fields # << >> => d.status = "SUCCESS")
  BY DEF Delivered, NormalizeProviderFields
<1>2. \A f \in clear : Meaning(f, raw[f]) \in CANONICAL_BY_FIELD[f]
  BY MeaningsAreCanonical
<1> QED
  BY <1>1, <1>2
-----------------------------------------------------------------------------
(* What counts only adds: of two pictures of a lead that differ in no      *)
(* blocker, the one that earns as much in every field scores as much.      *)
LEMMA SumWithoutZeros ==
  ASSUME NEW f, NEW S, IsFiniteSet(S), \A i \in S : f[i] \in Int, NEW T \in SUBSET S,
         \A i \in S \ T : f[i] = 0
  PROVE  SumFunctionOnSet(f, S) = SumFunctionOnSet(f, T)
<1> DEFINE Bad == {n \in Nat : \E U \in SUBSET S :
                     T \in SUBSET U /\ Cardinality(U) = n
                       /\ SumFunctionOnSet(f, U) # SumFunctionOnSet(f, T)}
<1>1. \A U \in SUBSET S : IsFiniteSet(U) /\ Cardinality(U) \in Nat
  BY FS_Subset, FS_CardinalityType
<1>2. ASSUME NEW n \in Bad, \A m \in Bad : n <= m PROVE FALSE
  <2>1. PICK U \in SUBSET S : T \in SUBSET U /\ Cardinality(U) = n
                              /\ SumFunctionOnSet(f, U) # SumFunctionOnSet(f, T)
    OBVIOUS
  <2>2. PICK x \in U : x \notin T
    BY <2>1
  <2>3. SumFunctionOnSet(f, U) = f[x] + SumFunctionOnSet(f, U \ {x})
    BY <1>1, SumOneOut
  <2>4. f[x] = 0
    BY <2>2
  <2>5. SumFunctionOnSet(f, U \ {x}) \in Int
    <3>1. IsFiniteSet(U \ {x}) /\ \A i \in U \ {x} : f[i] \in Int
      BY <1>1
    <3> QED
      BY <3>1, SumType
  <2>6. SumFunctionOnSet(f, U) = SumFunctionOnSet(f, U \ {x})
    BY <2>3, <2>4, <2>5
  <2>7. Cardinality(U \ {x}) = n - 1
    BY <1>1, <2>1, FS_RemoveElement
  <2>8. U \ {x} \in SUBSET S /\ T \in SUBSET (U \ {x})
    BY <2>1, <2>2
  <2>9. Cardinality(U \ {x}) \in Nat
    BY <1>1, <2>8
  <2>10. n - 1 \in Bad
    BY <2>1, <2>6, <2>7, <2>8, <2>9
  <2> HIDE DEF Bad
  <2>11. n \in Int /\ n <= n - 1
    BY <1>1, <1>2, <2>1, <2>10
  <2> QED
    BY <2>11
<1>3. Bad = {}
  <2>1. Bad \in SUBSET Nat
    OBVIOUS
  <2> HIDE DEF Bad
  <2> QED
    BY <1>2, <2>1, LeastOf
<1> QED
  <2>1. Cardinality(S) \in Nat /\ S \in SUBSET S
    BY <1>1
  <2> QED
    BY <1>3, <2>1

(* What a fact earns; an unknown one earns nothing.                        *)
Earned(c, facts) == [f \in ADDITIVE_FIELDS |-> IF f \in DOMAIN facts THEN FieldPoints(c, f, facts[f]) ELSE 0]

(* A score is the sum of what every field earns.                           *)
LEMMA ScoresAreEarned ==
  ASSUME NEW c, ConfigIsSound(c), NEW facts
  PROVE  /\ \A f \in ADDITIVE_FIELDS : Earned(c, facts)[f] \in Nat
         /\ ~IsDisqualified(c, facts) =>
              ScoreFacts(c, facts) = SumFunctionOnSet(Earned(c, facts), ADDITIVE_FIELDS)
<1> DEFINE D == DOMAIN facts \cap ADDITIVE_FIELDS
           g == [f \in D |-> FieldPoints(c, f, facts[f])]
           e == Earned(c, facts)
<1>1. ASSUME NEW f \in ADDITIVE_FIELDS PROVE e[f] \in Nat
  <2>1. FieldPoints(c, f, facts[f]) \in Nat
    <3>1. FieldPoints(c, f, facts[f]) \in {0} \cup Range(c.points[f])
      BY FieldCeilings
    <3>2. Range(c.points[f]) \subseteq 0 .. 100
      BY DEF ConfigIsSound
    <3> QED
      BY <3>1, <3>2
  <2>2. e[f] = IF f \in DOMAIN facts THEN FieldPoints(c, f, facts[f]) ELSE 0
    BY DEF Earned
  <2> QED
    BY <2>1, <2>2
<1>2. \A f \in D : g[f] = e[f]
  BY DEF Earned
<1>3. \A f \in ADDITIVE_FIELDS \ D : e[f] = 0
  BY DEF Earned
<1>4. ScoreFacts(c, facts) = SumFunctionOnSet(g, D) \/ IsDisqualified(c, facts)
  BY DEF ScoreFacts, SumFunction
<1>5. IsFiniteSet(ADDITIVE_FIELDS) /\ IsFiniteSet(D) /\ D \in SUBSET ADDITIVE_FIELDS
  BY AdditiveFields, FS_Subset
<1> HIDE DEF D, g, e
<1>6. SumFunctionOnSet(g, D) = SumFunctionOnSet(e, D)
  BY <1>2, <1>5, SumSameTerms
<1>7. \A f \in ADDITIVE_FIELDS : e[f] \in Int
  BY <1>1
<1>8. SumFunctionOnSet(e, ADDITIVE_FIELDS) = SumFunctionOnSet(e, D)
  BY <1>3, <1>5, <1>7, SumWithoutZeros
<1> QED
  BY <1>1, <1>4, <1>6, <1>8 DEF e

(* Who earns as much in every field scores as much.                        *)
LEMMA MoreEarnsMore ==
  ASSUME NEW c, ConfigIsSound(c), NEW few, NEW many, IsDisqualified(c, few) <=> IsDisqualified(c, many),
         \A f \in ADDITIVE_FIELDS : Earned(c, few)[f] <= Earned(c, many)[f]
  PROVE  ScoreFacts(c, few) <= ScoreFacts(c, many)
<1>1. CASE IsDisqualified(c, few)
  <2>1. ScoreFacts(c, few) = 0 /\ ScoreFacts(c, many) = 0
    BY <1>1 DEF ScoreFacts
  <2> QED
    BY <2>1
<1>2. CASE ~IsDisqualified(c, few)
  <2> DEFINE x == Earned(c, few)
             y == Earned(c, many)
  <2>1. \A f \in ADDITIVE_FIELDS : x[f] \in Int /\ y[f] \in Int /\ x[f] <= y[f]
    BY ScoresAreEarned
  <2>2. ScoreFacts(c, few) = SumFunctionOnSet(x, ADDITIVE_FIELDS)
        /\ ScoreFacts(c, many) = SumFunctionOnSet(y, ADDITIVE_FIELDS)
    BY <1>2, ScoresAreEarned
  <2> HIDE DEF x, y
  <2>3. SumFunctionOnSet(x, ADDITIVE_FIELDS) <= SumFunctionOnSet(y, ADDITIVE_FIELDS)
    BY <2>1, AdditiveFields, SumMonotone
  <2> QED
    BY <2>2, <2>3
<1> QED
  BY <1>1, <1>2

(* Between two scores that decide alike, nothing decides otherwise.        *)
LEMMA DecisionsBetween ==
  ASSUME NEW c, ConfigIsSound(c), NEW a \in Int, NEW b \in Int, NEW d \in Int, a <= b, b <= d,
         DecisionFor(c, a) = DecisionFor(c, d)
  PROVE  DecisionFor(c, b) = DecisionFor(c, a)
<1>1. PICK q, r : q = c.qualify /\ r = c.reject
  OBVIOUS
<1>2. q \in Int /\ r \in Int
  BY <1>1 DEF ConfigIsSound
<1> QED
  BY <1>1, <1>2 DEF DecisionFor
(* The best of a field's values earns its ceiling, if it has a value.      *)
BestOf(c, f) == CHOOSE v \in DOMAIN c.points[f] : c.points[f][v] = MaxFieldPoints(c, f)

(* No value of a field earns more than its best case.                      *)
LEMMA BestEarnsMost ==
  ASSUME NEW c, ConfigIsSound(c), NEW f \in ADDITIVE_FIELDS, NEW v \in DOMAIN c.points[f]
  PROVE  /\ FieldPoints(c, f, v) \in Nat
         /\ FieldPoints(c, f, BestOf(c, f)) \in Nat
         /\ FieldPoints(c, f, v) <= FieldPoints(c, f, BestOf(c, f))
<1>1. PICK top : top = MaxFieldPoints(c, f)
  OBVIOUS
<1>2. top \in 0 .. 100 /\ top \in {0} \cup Range(c.points[f])
      /\ \A p \in {0} \cup Range(c.points[f]) : p \in 0 .. top
  BY <1>1, FieldCeilings
<1>3. c.points[f][v] \in Range(c.points[f])
  BY DEF Range
<1>4. c.points[f][v] \in 0 .. top
  BY <1>2, <1>3
<1>5. \E w \in DOMAIN c.points[f] : c.points[f][w] = top
  <2>1. CASE top \in Range(c.points[f])
    BY <2>1 DEF Range
  <2>2. CASE top = 0
    <3>1. c.points[f][v] = 0
      BY <1>4, <2>2
    <3> QED
      BY <2>2, <3>1
  <2> QED
    BY <1>2, <2>1, <2>2
<1>6. BestOf(c, f) \in DOMAIN c.points[f] /\ c.points[f][BestOf(c, f)] = top
  BY <1>1, <1>5 DEF BestOf
<1>7. FieldPoints(c, f, v) = c.points[f][v] /\ FieldPoints(c, f, BestOf(c, f)) = top
  BY <1>6 DEF FieldPoints
<1> QED
  BY <1>2, <1>4, <1>7

Sold == {"title_seniority", "title_function"}

(* If the best case of what is missing decides alike, so does every case.  *)
LEMMA ImmaterialMeans ==
  ASSUME NEW c, ConfigIsSound(c), NEW facts, facts = [f \in DOMAIN facts |-> facts[f]],
         ~Relevant(c, facts, Sold),
         NEW stated, \A f \in Sold : stated[f] \in DOMAIN c.points[f]
  PROVE  DecisionFor(c, ScoreFacts(c, [f \in DOMAIN facts \cup (Sold \ DOMAIN facts) |->
                                         IF f \in DOMAIN facts THEN facts[f] ELSE stated[f]]))
           = DecisionFor(c, ScoreFacts(c, facts))
<1> DEFINE missing == Sold \ DOMAIN facts
           full == [f \in DOMAIN facts \cup missing |->
                      IF f \in DOMAIN facts THEN facts[f] ELSE stated[f]]
           best == BestCase(c, facts, Sold)
<1>1. CASE missing = {}
  <2>1. full = facts
    BY <1>1
  <2> QED
    BY <2>1
<1>2. CASE missing # {}
  <2>1. DecisionFor(c, ScoreFacts(c, best)) = DecisionFor(c, ScoreFacts(c, facts))
    BY <1>2 DEF Relevant
  <2>2. DOMAIN best = DOMAIN facts \cup missing
        /\ \A f \in DOMAIN best : best[f] = IF f \in DOMAIN facts THEN facts[f] ELSE BestOf(c, f)
    <3>1. {f \in Sold \ DOMAIN facts : f \in {"industry", "title_seniority", "title_function"}} = missing
      BY DEF Sold
    <3>2. best = [f \in DOMAIN facts \cup missing |-> IF f \in DOMAIN facts THEN facts[f] ELSE BestOf(c, f)]
      BY <3>1 DEF BestCase, BestOf
    <3> QED
      BY <3>2
  <2>3. Sold \in SUBSET ADDITIVE_FIELDS /\ DISQUALIFIER_FIELD \notin Sold
    BY AdditiveFields DEF Sold
  <2>4. DOMAIN full = DOMAIN facts \cup missing
        /\ \A f \in DOMAIN full : full[f] = IF f \in DOMAIN facts THEN facts[f] ELSE stated[f]
    OBVIOUS
  <2> HIDE DEF full, best
  <2>5. /\ IsDisqualified(c, facts) <=> IsDisqualified(c, full)
        /\ IsDisqualified(c, full) <=> IsDisqualified(c, best)
    <3>1. DISQUALIFIER_FIELD \in DOMAIN full <=> DISQUALIFIER_FIELD \in DOMAIN facts
      BY <2>3, <2>4
    <3>2. DISQUALIFIER_FIELD \in DOMAIN best <=> DISQUALIFIER_FIELD \in DOMAIN facts
      BY <2>2, <2>3
    <3>3. DISQUALIFIER_FIELD \in DOMAIN facts =>
            full[DISQUALIFIER_FIELD] = facts[DISQUALIFIER_FIELD]
            /\ best[DISQUALIFIER_FIELD] = facts[DISQUALIFIER_FIELD]
      BY <2>2, <2>4
    <3> QED
      BY <3>1, <3>2, <3>3 DEF IsDisqualified
  <2>6. ASSUME NEW f \in ADDITIVE_FIELDS
        PROVE  Earned(c, facts)[f] <= Earned(c, full)[f] /\ Earned(c, full)[f] <= Earned(c, best)[f]
    <3>1. /\ Earned(c, facts)[f] = IF f \in DOMAIN facts THEN FieldPoints(c, f, facts[f]) ELSE 0
          /\ Earned(c, full)[f] = IF f \in DOMAIN full THEN FieldPoints(c, f, full[f]) ELSE 0
          /\ Earned(c, best)[f] = IF f \in DOMAIN best THEN FieldPoints(c, f, best[f]) ELSE 0
      BY DEF Earned
    <3>2. PICK x, y, z : x = Earned(c, facts)[f] /\ y = Earned(c, full)[f] /\ z = Earned(c, best)[f]
      OBVIOUS
    <3>3. x \in Nat /\ y \in Nat /\ z \in Nat
      BY <3>2, ScoresAreEarned
    <3>4. CASE f \in missing
      <4>1. x = 0 /\ y = FieldPoints(c, f, stated[f]) /\ z = FieldPoints(c, f, BestOf(c, f))
        BY <2>2, <2>4, <3>1, <3>2, <3>4
      <4>2. stated[f] \in DOMAIN c.points[f]
        BY <3>4
      <4>3. y <= z
        BY <4>1, <4>2, BestEarnsMost
      <4> QED
        BY <3>2, <3>3, <4>1, <4>3
    <3>5. CASE f \notin missing
      <4>1. x = y /\ y = z
        BY <2>2, <2>4, <3>1, <3>2, <3>5
      <4> QED
        BY <3>2, <3>3, <4>1
    <3> QED
      BY <3>4, <3>5
  <2>7. PICK a, b, d : a = ScoreFacts(c, facts) /\ b = ScoreFacts(c, full) /\ d = ScoreFacts(c, best)
    OBVIOUS
  <2>8. a \in Int /\ b \in Int /\ d \in Int
    BY <2>7, ScoresAreNatural
  <2>9. a <= b
    BY <2>5, <2>6, <2>7, MoreEarnsMore
  <2>10. b <= d
    BY <2>5, <2>6, <2>7, MoreEarnsMore
  <2>11. DecisionFor(c, b) = DecisionFor(c, a)
    BY <2>1, <2>7, <2>8, <2>9, <2>10, DecisionsBetween
  <2> QED
    BY <2>7, <2>11 DEF full
<1> QED
  BY <1>1, <1>2
-----------------------------------------------------------------------------
(* The adapters.                                                           *)
LEMMA VendorsAre ==
  /\ Len(VENDORS) = 3
  /\ VENDORS[1].name = "abstract" /\ VENDORS[2].name = "hunter" /\ VENDORS[3].name = "apollo"
  /\ VENDORS[1].entity = "company" /\ VENDORS[2].entity = "person" /\ VENDORS[3].entity = "person"
  /\ VENDORS[1].cost = 16 /\ VENDORS[2].cost = 49 /\ VENDORS[3].cost = 196
  /\ VENDORS[1].sells = {"employee_count", "industry"}
  /\ VENDORS[2].sells = Sold /\ VENDORS[3].sells = Sold
BY DEF VENDORS, Sold

WasDelivered(seller, x) ==
  /\ x.got = "body"
  /\ \/ seller.name = "abstract" \/ x.matched
     \/ seller.name = "hunter" /\ x.company

(* The kinds of an exchange.                                               *)
LEMMA ExchangesAre ==
  ASSUME NEW name, NEW x \in Exchanges(name)
  PROVE  /\ x.got \in {"timeout", "transport", "malformed", "status", "body"}
         /\ x.got = "body" /\ name # "abstract" => x.matched \in BOOLEAN /\ x.company \in BOOLEAN
<1>1. CASE x \in {[got |-> g] : g \in {"timeout", "transport", "malformed"}}
  BY <1>1
<1>2. CASE x \in [got : {"status"}, code : {401, 402, 403, 404, 422, 429, 500}]
  BY <1>2
<1>3. CASE name = "abstract" /\ x \in [got : {"body"}, employee_count : Headcounts, industry : Industries]
  BY <1>3
<1>4. CASE name # "abstract" /\ x \in [got : {"body"}, matched : {TRUE}, person : People, company : {TRUE}]
  BY <1>4
<1>5. CASE name # "abstract" /\ x \in [got : {"body"}, matched : {FALSE}, person : {Nobody}, company : BOOLEAN]
  BY <1>5
<1>6. CASE name = "abstract"
  <2>1. Exchanges(name) = ({[got |-> g] : g \in {"timeout", "transport", "malformed"}}
          \cup [got : {"status"}, code : {401, 402, 403, 404, 422, 429, 500}])
          \cup [got : {"body"}, employee_count : Headcounts, industry : Industries]
    BY <1>6 DEF Exchanges
  <2> QED
    BY <1>1, <1>2, <1>3, <1>6, <2>1
<1>7. CASE name # "abstract"
  <2> DEFINE A == {[got |-> g] : g \in {"timeout", "transport", "malformed"}}
             B == [got : {"status"}, code : {401, 402, 403, 404, 422, 429, 500}]
             C == [got : {"body"}, matched : {TRUE}, person : People, company : {TRUE}]
             D == [got : {"body"}, matched : {FALSE}, person : {Nobody}, company : BOOLEAN]
  <2>1. Exchanges(name) = (A \cup B) \cup (C \cup D)
    BY <1>7 DEF Exchanges
  <2>2. x \in A \/ x \in B \/ x \in C \/ x \in D
    <3> HIDE DEF A, B, C, D
    <3> QED
      BY <2>1
  <2>3. CASE x \in C
    BY <1>4, <1>7, <2>3
  <2>4. CASE x \in D
    BY <1>5, <1>7, <2>4
  <2> QED
    BY <1>1, <1>2, <2>2, <2>3, <2>4
<1> QED
  BY <1>6, <1>7

IsPaidRight(seller, x, r) ==
  /\ (r.cost > 0) <=> WasDelivered(seller, x)
  /\ r.fields # << >> => r.status = "SUCCESS" /\ WasDelivered(seller, x)
  /\ DOMAIN r.fields \subseteq seller.sells
  /\ \A f \in DOMAIN r.fields : r.fields[f] \in CANONICAL_BY_FIELD[f]
  /\ r.fields = [f \in DOMAIN r.fields |-> r.fields[f]]

(* A refusal costs nothing and says nothing.                               *)
LEMMA RefusalsAreFree ==
  ASSUME NEW seller, NEW x, ~WasDelivered(seller, x), NEW status, NEW kind
  PROVE  IsPaidRight(seller, x, Refused(status, kind))
<1>1. Refused(status, kind).cost = 0 /\ Refused(status, kind).fields = << >>
  BY DEF Refused
<1>2. DOMAIN << >> = {} /\ << >> = [f \in {} |-> f]
  OBVIOUS
<1>3. ~(0 > 0)
  OBVIOUS
<1> QED
  BY <1>1, <1>2, <1>3 DEF IsPaidRight

(* A delivered record is paid and says what maps.                          *)
LEMMA DeliveriesArePaid ==
  ASSUME NEW seller, NEW x, WasDelivered(seller, x), seller.cost \in Nat, seller.cost > 0, NEW raw,
         DOMAIN raw \in SUBSET {"employee_count", "industry", "title_seniority", "title_function"},
         DOMAIN raw \in SUBSET seller.sells
  PROVE  IsPaidRight(seller, x, Delivered(seller, raw))
<1> DEFINE d == Delivered(seller, raw)
           stated == {f \in DOMAIN raw : ~IsSilent(f, raw[f])}
<1>1. /\ d.cost = seller.cost
      /\ DOMAIN d.fields = {f \in stated : Meaning(f, raw[f]) # Unmapped}
      /\ d.fields = [f \in DOMAIN d.fields |-> Meaning(f, raw[f])]
      /\ \A f \in DOMAIN d.fields : d.fields[f] \in CANONICAL_BY_FIELD[f]
      /\ d.fields # << >> => d.status = "SUCCESS"
  BY DeliveriesAreCanonical
<1> HIDE DEF d
<1>2. DOMAIN d.fields \subseteq seller.sells
  BY <1>1
<1>3. d.fields = [f \in DOMAIN d.fields |-> d.fields[f]]
  BY <1>1
<1>4. IsPaidRight(seller, x, d)
  BY <1>1, <1>2, <1>3 DEF IsPaidRight
<1> QED
  BY <1>4 DEF d

(* Every answer of every vendor is paid iff delivered.                     *)
LEMMA ResultsArePaidRight ==
  ASSUME NEW i \in 1 .. 3, NEW x \in Exchanges(VENDORS[i].name)
  PROVE  IsPaidRight(VENDORS[i], x, Result(VENDORS[i], x))
<1> DEFINE seller == VENDORS[i]
           r == Result(seller, x)
<1>1. i = 1 \/ i = 2 \/ i = 3
  OBVIOUS
<1>2. /\ seller.name \in {"abstract", "hunter", "apollo"}
      /\ seller.cost \in Nat /\ seller.cost > 0
      /\ seller.name = "abstract" => seller.sells = {"employee_count", "industry"}
      /\ seller.name # "abstract" => seller.sells = Sold
  BY <1>1, VendorsAre
<1>3. /\ x.got \in {"timeout", "transport", "malformed", "status", "body"}
      /\ x.got = "body" /\ seller.name # "abstract" => x.matched \in BOOLEAN /\ x.company \in BOOLEAN
  BY ExchangesAre
<1> HIDE DEF seller
<1>4. CASE x.got # "body"
  <2>1. ~WasDelivered(seller, x)
    BY <1>4 DEF WasDelivered
  <2>2. \E status, kind : r = Refused(status, kind)
    <3>1. CASE x.got = "timeout"
      <4>1. r = Refused("TIMEOUT", "timeout")
        BY <3>1 DEF Result
      <4> QED
        BY <4>1
    <3>2. CASE x.got = "transport"
      <4>1. r = Refused("ERROR", "transport_error")
        BY <3>2 DEF Result
      <4> QED
        BY <4>1
    <3>3. CASE x.got = "malformed"
      <4>1. r = Refused("ERROR", "malformed_response")
        BY <3>3 DEF Result
      <4> QED
        BY <4>1
    <3>4. CASE x.got = "status" /\ seller.name = "hunter" /\ x.code = 404
      <4>1. r = Refused("MISS", "none")
        BY <3>4 DEF Result, FreeMiss
      <4> QED
        BY <4>1
    <3>5. CASE x.got = "status" /\ ~(seller.name = "hunter" /\ x.code = 404)
      <4>1. r = Refused("ERROR", StatusErrorKind(seller.name, x.code))
        BY <3>5 DEF Result
      <4> QED
        BY <4>1
    <3> QED
      BY <1>3, <1>4, <3>1, <3>2, <3>3, <3>4, <3>5
  <2>3. IsPaidRight(seller, x, r)
    BY <2>1, <2>2, RefusalsAreFree
  <2> QED
    BY <2>3 DEF seller
<1>5. CASE x.got = "body" /\ seller.name = "abstract"
  <2> DEFINE raw == [employee_count |-> x.employee_count, industry |-> x.industry]
  <2>1. r = Delivered(seller, raw)
    BY <1>5 DEF Result, FetchAbstract
  <2>2. DOMAIN raw = {"employee_count", "industry"}
    OBVIOUS
  <2>3. WasDelivered(seller, x)
    BY <1>5 DEF WasDelivered
  <2> HIDE DEF raw
  <2>4. IsPaidRight(seller, x, r)
    <3>1. DOMAIN raw \in SUBSET {"employee_count", "industry", "title_seniority", "title_function"}
          /\ DOMAIN raw \in SUBSET seller.sells
      BY <1>2, <1>5, <2>2
    <3>2. IsPaidRight(seller, x, Delivered(seller, raw))
      BY <1>2, <2>3, <3>1, DeliveriesArePaid
    <3> QED
      BY <2>1, <3>2
  <2> QED
    BY <2>4 DEF seller
<1>6. CASE x.got = "body" /\ seller.name # "abstract" /\ x.matched
  <2>1. PICK raw : r = Delivered(seller, raw) /\ DOMAIN raw = Sold
    <3>1. CASE seller.name = "hunter"
      <4>1. r = Delivered(seller, ExtractHunter(x.person))
        BY <1>6, <3>1 DEF Result, FetchHunter
      <4>2. DOMAIN ExtractHunter(x.person) = Sold
        BY DEF ExtractHunter, Sold
      <4> QED
        BY <4>1, <4>2
    <3>2. CASE seller.name = "apollo"
      <4>1. r = Delivered(seller, ExtractApollo(x.person))
        BY <1>6, <3>2 DEF Result, FetchApollo
      <4>2. DOMAIN ExtractApollo(x.person) = Sold
        BY DEF ExtractApollo, Sold
      <4> QED
        BY <4>1, <4>2
    <3> QED
      BY <1>2, <1>6, <3>1, <3>2
  <2>2. WasDelivered(seller, x)
    BY <1>6 DEF WasDelivered
  <2>3. IsPaidRight(seller, x, r)
    <3>1. DOMAIN raw \in SUBSET {"employee_count", "industry", "title_seniority", "title_function"}
          /\ DOMAIN raw \in SUBSET seller.sells
      BY <1>2, <1>6, <2>1 DEF Sold
    <3>2. IsPaidRight(seller, x, Delivered(seller, raw))
      BY <1>2, <2>2, <3>1, DeliveriesArePaid
    <3> QED
      BY <2>1, <3>2
  <2> QED
    BY <2>3 DEF seller
<1>7. CASE x.got = "body" /\ seller.name # "abstract" /\ ~x.matched
  <2>1. CASE seller.name = "hunter" /\ x.company
    <3>1. r = Delivered(seller, << >>)
      BY <1>7, <2>1 DEF Result, FetchHunter
    <3>2. DOMAIN << >> = {}
      OBVIOUS
    <3>3. WasDelivered(seller, x)
      BY <1>7, <2>1 DEF WasDelivered
    <3>4. IsPaidRight(seller, x, r)
      <4>1. PICK raw : raw = << >>
        OBVIOUS
      <4>2. DOMAIN raw \in SUBSET {"employee_count", "industry", "title_seniority", "title_function"}
            /\ DOMAIN raw \in SUBSET seller.sells
        BY <3>2, <4>1
      <4>3. IsPaidRight(seller, x, Delivered(seller, raw))
        BY <1>2, <3>3, <4>2, DeliveriesArePaid
      <4> QED
        BY <3>1, <4>1, <4>3
    <3> QED
      BY <3>4 DEF seller
  <2>2. CASE ~(seller.name = "hunter" /\ x.company)
    <3>1. r = Refused("MISS", "none")
      BY <1>2, <1>7, <2>2 DEF Result, FetchHunter, FetchApollo, FreeMiss
    <3>2. ~WasDelivered(seller, x)
      BY <1>7, <2>2 DEF WasDelivered
    <3>3. IsPaidRight(seller, x, r)
      BY <3>1, <3>2, RefusalsAreFree
    <3> QED
      BY <3>3 DEF seller
  <2> QED
    BY <2>1, <2>2
<1> QED
  BY <1>4, <1>5, <1>6, <1>7
(* What a person's title and enums say is in the fields, or reported.      *)
Says(p) ==
  [title_seniority |-> {NormalizeSeniority(p.seniority), SeniorityFromTitle(p.title)},
   title_function |-> {NormalizeFunction(FirstSaid(p.departments)), FunctionFromTitle(p.title)}]
IsMute(p) ==
  [title_seniority |-> {p.seniority, p.title} = {Silence},
   title_function |-> {FirstSaid(p.departments), p.title} = {Silence}]

(* raw is what one field of a person is normalized from, where an enum and *)
(* a title speak for it and meaning is what the field's aliases make of it.*)
SpeaksFor(raw, meaning, enum, enumMeans, title, titleMeans) ==
  /\ raw # Silence /\ meaning # Unmapped <=> {enumMeans, titleMeans} # {Unmapped}
  /\ meaning # Unmapped => meaning \in {enumMeans, titleMeans}
  /\ raw = Silence => {enum, title} = {Silence}
  /\ {enum, title} = {Silence} => raw = Silence

(* The first of two texts that says something.                             *)
LEMMA FirstOfTwo ==
  ASSUME NEW a, NEW b
  PROVE  FirstSaid(<<a, b>>) = IF a # Silence THEN a ELSE b
<1> DEFINE said == <<a, b>>
           there == {i \in DOMAIN said : said[i] # Silence}
<1>1. DOMAIN said = {1, 2} /\ said[1] = a /\ said[2] = b
  OBVIOUS
<1>2. FirstSaid(said) = IF there = {} THEN Silence ELSE said[Min(there)]
  BY DEF FirstSaid
<1> HIDE DEF said
<1>3. CASE a # Silence
  <2>1. 1 \in there /\ there \in SUBSET Nat /\ there \in SUBSET {1, 2}
    BY <1>1, <1>3
  <2> HIDE DEF there
  <2>2. PICK m : m = Min(there)
    OBVIOUS
  <2>3. m \in there /\ m <= 1
    BY <2>1, <2>2, LeastIsMember
  <2>4. m = 1
    BY <2>1, <2>3
  <2> QED
    BY <1>1, <1>2, <1>3, <2>1, <2>2, <2>4 DEF said
<1>4. CASE a = Silence /\ b # Silence
  <2>1. there = {2}
    BY <1>1, <1>4
  <2>2. Min({2}) = 2
    BY DEF Min
  <2> QED
    BY <1>1, <1>2, <1>4, <2>1, <2>2 DEF said
<1>5. CASE a = Silence /\ b = Silence
  <2>1. there = {}
    BY <1>1, <1>5
  <2> QED
    BY <1>2, <1>5, <2>1 DEF said
<1> QED
  BY <1>3, <1>4, <1>5

(* Silence maps to nothing.                                                *)
LEMMA SilenceSaysNothing ==
  /\ NormalizeSeniority(Silence) = Unmapped /\ NormalizeFunction(Silence) = Unmapped
  /\ SeniorityFromTitle(Silence) = Unmapped /\ FunctionFromTitle(Silence) = Unmapped
<1>1. \A rules : FirstMatch({}, rules) = Unmapped
  <2> TAKE rules
  <2>1. {i \in DOMAIN rules : rules[i].phrases \cap {} # {}} = {}
    OBVIOUS
  <2> QED
    BY <2>1 DEF FirstMatch
<1>2. \A aliases : ByAlias({}, aliases) = Unmapped
  BY AliasMatches
<1> QED
  BY <1>1, <1>2 DEF Silence, NormalizeSeniority, NormalizeFunction, SeniorityFromTitle,
                    FunctionFromTitle, AliasThenRules

(* Apollo's and Hunter's seniority: enum and title both speak.             *)
LEMMA SenioritySpeaks ==
  ASSUME NEW enum, NEW title
  PROVE  /\ LET raw == PreferEnumThenTitle(enum, NormalizeSeniority(enum), title, SeniorityFromTitle(title))
            IN  SpeaksFor(raw, NormalizeSeniority(raw), enum, NormalizeSeniority(enum),
                          title, SeniorityFromTitle(title))
         /\ LET raw == IF SeniorityFromTitle(title) # Unmapped THEN {SeniorityFromTitle(title)}
                       ELSE FirstSaid(<<enum, title>>)
            IN  SpeaksFor(raw, NormalizeSeniority(raw), enum, NormalizeSeniority(enum),
                          title, SeniorityFromTitle(title))
<1> DEFINE e == NormalizeSeniority(enum)
           t == SeniorityFromTitle(title)
           r == PreferEnumThenTitle(enum, e, title, t)
           q == IF t # Unmapped THEN {t} ELSE FirstSaid(<<enum, title>>)
<1>1. /\ NormalizeSeniority(Silence) = Unmapped /\ SeniorityFromTitle(Silence) = Unmapped
      /\ t # Unmapped => NormalizeSeniority({t}) = t
      /\ t = Unmapped => NormalizeSeniority(title) = Unmapped
      /\ FirstSaid(<<enum, title>>) = IF enum # Silence THEN enum ELSE title
  BY SilenceSaysNothing, TitlesAreRead, FirstOfTwo
<1>2. r = IF e # Unmapped THEN enum ELSE IF t # Unmapped THEN {t} ELSE FirstSaid(<<enum, title>>)
  BY DEF PreferEnumThenTitle
<1>3. {t} # Silence
  BY DEF Silence
<1> HIDE DEF r
<1>4. SpeaksFor(r, NormalizeSeniority(r), enum, e, title, t)
  <2>1. CASE e # Unmapped
    BY <1>1, <1>2, <2>1 DEF SpeaksFor
  <2>2. CASE e = Unmapped /\ t # Unmapped
    BY <1>1, <1>2, <1>3, <2>2 DEF SpeaksFor
  <2>3. CASE e = Unmapped /\ t = Unmapped
    BY <1>1, <1>2, <2>3 DEF SpeaksFor
  <2> QED
    BY <2>1, <2>2, <2>3
<1>5. SpeaksFor(q, NormalizeSeniority(q), enum, e, title, t)
  <2>1. CASE t # Unmapped
    BY <1>1, <1>3, <2>1 DEF SpeaksFor
  <2>2. CASE t = Unmapped
    BY <1>1, <2>2 DEF SpeaksFor
  <2> QED
    BY <2>1, <2>2
<1> QED
  BY <1>4, <1>5 DEF r

(* The function, of both.                                                  *)
LEMMA FunctionSpeaks ==
  ASSUME NEW enum, NEW title
  PROVE  LET raw == PreferEnumThenTitle(enum, NormalizeFunction(enum), title, FunctionFromTitle(title))
         IN  SpeaksFor(raw, NormalizeFunction(raw), enum, NormalizeFunction(enum),
                       title, FunctionFromTitle(title))
<1> DEFINE e == NormalizeFunction(enum)
           t == FunctionFromTitle(title)
           r == PreferEnumThenTitle(enum, e, title, t)
<1>1. /\ NormalizeFunction(Silence) = Unmapped /\ FunctionFromTitle(Silence) = Unmapped
      /\ t # Unmapped => NormalizeFunction({t}) = t
      /\ t = Unmapped => NormalizeFunction(title) = Unmapped
      /\ FirstSaid(<<enum, title>>) = IF enum # Silence THEN enum ELSE title
  BY SilenceSaysNothing, TitlesAreRead, FirstOfTwo
<1>2. r = IF e # Unmapped THEN enum ELSE IF t # Unmapped THEN {t} ELSE FirstSaid(<<enum, title>>)
  BY DEF PreferEnumThenTitle
<1>3. {t} # Silence
  BY DEF Silence
<1> HIDE DEF r
<1>4. SpeaksFor(r, NormalizeFunction(r), enum, e, title, t)
  <2>1. CASE e # Unmapped
    BY <1>1, <1>2, <2>1 DEF SpeaksFor
  <2>2. CASE e = Unmapped /\ t # Unmapped
    BY <1>1, <1>2, <1>3, <2>2 DEF SpeaksFor
  <2>3. CASE e = Unmapped /\ t = Unmapped
    BY <1>1, <1>2, <2>3 DEF SpeaksFor
  <2> QED
    BY <2>1, <2>2, <2>3
<1> QED
  BY <1>4 DEF r

(* Two fields that are spoken for, delivered.                              *)
LEMMA SpokenIsDelivered ==
  ASSUME NEW seller, NEW raw, DOMAIN raw = Sold, NEW p,
         SpeaksFor(raw["title_seniority"], NormalizeSeniority(raw["title_seniority"]), p.seniority,
                   NormalizeSeniority(p.seniority), p.title, SeniorityFromTitle(p.title)),
         SpeaksFor(raw["title_function"], NormalizeFunction(raw["title_function"]),
                   FirstSaid(p.departments), NormalizeFunction(FirstSaid(p.departments)),
                   p.title, FunctionFromTitle(p.title))
  PROVE  LET d == Delivered(seller, raw)
         IN  /\ DOMAIN d.fields = {f \in DOMAIN Says(p) : Says(p)[f] # {Unmapped}}
             /\ d.unmapped = {f \in DOMAIN Says(p) \ DOMAIN d.fields : ~IsMute(p)[f]}
             /\ \A f \in DOMAIN d.fields : d.fields[f] \in Says(p)[f]
<1> DEFINE d == Delivered(seller, raw)
           stated == {f \in DOMAIN raw : ~IsSilent(f, raw[f])}
<1>1. /\ DOMAIN d.fields = {f \in stated : Meaning(f, raw[f]) # Unmapped}
      /\ d.fields = [f \in DOMAIN d.fields |-> Meaning(f, raw[f])]
      /\ d.unmapped = stated \ DOMAIN d.fields
  BY DeliveriesAreCanonical DEF Sold
<1>2. /\ Meaning("title_seniority", raw["title_seniority"]) = NormalizeSeniority(raw["title_seniority"])
      /\ Meaning("title_function", raw["title_function"]) = NormalizeFunction(raw["title_function"])
  BY DEF Meaning
<1>3. \A f \in Sold : f \in stated <=> raw[f] # Silence
  BY DEF IsSilent, Sold
<1>4. stated \in SUBSET Sold
  OBVIOUS
<1>5. /\ DOMAIN Says(p) = Sold
      /\ Says(p)["title_seniority"] = {NormalizeSeniority(p.seniority), SeniorityFromTitle(p.title)}
      /\ Says(p)["title_function"] = {NormalizeFunction(FirstSaid(p.departments)), FunctionFromTitle(p.title)}
      /\ IsMute(p)["title_seniority"] = ({p.seniority, p.title} = {Silence})
      /\ IsMute(p)["title_function"] = ({FirstSaid(p.departments), p.title} = {Silence})
  BY DEF Says, IsMute, Sold
<1> HIDE DEF stated, d
<1>6. ASSUME NEW f \in Sold
      PROVE  /\ (f \in stated /\ Meaning(f, raw[f]) # Unmapped) <=> Says(p)[f] # {Unmapped}
             /\ f \in stated => ~IsMute(p)[f]
             /\ f \notin stated => IsMute(p)[f]
             /\ Meaning(f, raw[f]) # Unmapped => Meaning(f, raw[f]) \in Says(p)[f]
  <2>1. CASE f = "title_seniority"
    BY <1>2, <1>3, <1>5, <2>1 DEF SpeaksFor
  <2>2. CASE f = "title_function"
    BY <1>2, <1>3, <1>5, <2>2 DEF SpeaksFor
  <2> QED
    BY <2>1, <2>2 DEF Sold
<1>7. DOMAIN d.fields = {f \in DOMAIN Says(p) : Says(p)[f] # {Unmapped}}
  BY <1>1, <1>4, <1>5, <1>6
<1>8. d.unmapped = {f \in DOMAIN Says(p) \ DOMAIN d.fields : ~IsMute(p)[f]}
  BY <1>1, <1>4, <1>5, <1>6
<1>9. \A f \in DOMAIN d.fields : d.fields[f] \in Says(p)[f]
  BY <1>1, <1>4, <1>6
<1> QED
  BY <1>7, <1>8, <1>9 DEF d
(* identity/validation.py: a verified answer is about whom was asked for.  *)
IsThePerson(j) ==
  /\ Len(j.found.name) > 1 /\ Len(j.wanted.name) > 1
  /\ Last(j.found.name) = Last(j.wanted.name) /\ j.found.name[1] = j.wanted.name[1]
  /\ j.found.employer \in {j.wanted.company, j.wanted.mail} \ {"none", "free"}
  /\ j.wanted.company # "none" => j.found.employer = j.wanted.company
  /\ j.found.mail \in {"asked", "none", "garbled"}

(* Full name and employer agree, the address does not disagree.            *)
LEMMA VerifiedIsThePerson ==
  ASSUME NEW wanted, wanted.name \in Seq(STRING), wanted.company # "free",
         NEW found, found.name \in Seq(STRING), Scoreable(ValidateIdentity(wanted, found))
  PROVE  IsThePerson([wanted |-> wanted, found |-> found])
<1> DEFINE domain == DomainSignal(wanted, found)
           person == NameSignal(wanted.name, found.name)
           mail == EmailSignal(wanted, found)
<1>1. ValidateIdentity(wanted, found) = "VERIFIED"
  BY DEF Scoreable
<1>2. domain = "match" /\ person = "match" /\ mail # "mismatch"
  <2> HIDE DEF domain, person, mail
  <2>1. ValidateIdentity(wanted, found) =
          IF "mismatch" \in {domain, person, mail} THEN "MISMATCH"
          ELSE IF domain = "match" /\ person = "match" THEN "VERIFIED"
          ELSE IF "match" \in {domain, person} THEN "PROBABLE"
          ELSE "UNVERIFIABLE"
    BY DEF ValidateIdentity, domain, person, mail
  <2> QED
    BY <1>1, <2>1
<1>3. NameKey(wanted.name) = NameKey(found.name) /\ NameKey(found.name) # << >>
  BY <1>2 DEF NameSignal
<1>4. ASSUME NEW name \in Seq(STRING), NameKey(name) # << >>
      PROVE  Len(name) > 1 /\ NameKey(name) = <<name[1], Last(name)>>
  <2>1. ~(Len(name) < 2)
    BY <1>4 DEF NameKey
  <2>2. NameKey(name) = <<name[1], name[Len(name)]>>
    BY <2>1 DEF NameKey
  <2> QED
    BY <2>1, <2>2 DEF Last
<1>5. /\ Len(found.name) > 1 /\ Len(wanted.name) > 1
      /\ <<found.name[1], Last(found.name)>> = <<wanted.name[1], Last(wanted.name)>>
  BY <1>3, <1>4
<1>6. Last(found.name) = Last(wanted.name) /\ found.name[1] = wanted.name[1]
  BY <1>5
<1>7. /\ found.employer \notin {"none", "garbled"} /\ found.employer = ExpectedDomain(wanted)
  BY <1>2 DEF DomainSignal
<1>8. /\ found.employer \in {wanted.company, wanted.mail} \ {"none", "free"}
      /\ wanted.company # "none" => found.employer = wanted.company
  BY <1>7 DEF ExpectedDomain
<1>9. found.mail \in {"asked", "none", "garbled"}
  BY <1>2 DEF EmailSignal
<1> QED
  BY <1>5, <1>6, <1>8, <1>9 DEF IsThePerson

-----------------------------------------------------------------------------
(* The walk: what it is for, where it is, and what it has been stated.       *)
WantedIsTyped(w) == w.name \in Seq(STRING) /\ w.company # "free"
IsOpen(w) ==
  /\ w = [f \in DOMAIN w |-> w[f]]
  /\ {"at", "walks", "config", "wanted", "check", "index", "facts"} \subseteq DOMAIN w
  /\ ConfigIsSound(w.config) /\ WantedIsTyped(w.wanted)
  /\ w.index \in 1 .. 4
  /\ w.facts = [f \in DOMAIN w.facts |-> w.facts[f]]
IsAnswered(w) ==
  /\ w.exchange \in Exchanges(VENDORS[w.index].name)
  /\ w.result = Result(VENDORS[w.index], w.exchange)
IsSkipped(w) ==
  /\ ConfigIsSound(w.config) /\ w.facts = [f \in DOMAIN w.facts |-> w.facts[f]]
  /\ w.index \in 2 .. 3 /\ ~Relevant(w.config, w.facts, Sold)

IsAWalk(w) ==
  /\ w.at \in {"rest", "next", "calling", "answered", "stopped"}
  /\ w.at \in {"next", "calling", "answered"} => IsOpen(w)
  /\ w.at \in {"calling", "answered"} => w.index \in 1 .. 3
  /\ w.at = "answered" => IsAnswered(w)
  /\ w.at = "stopped" /\ w.stop = "person_evidence_not_material" => IsSkipped(w)
  /\ w.at = "next" /\ w.index > 1 => \A j \in w.judged : IsThePerson(j)

(* The pacer: no deadline was shortened since the last call.               *)
PacerTypes ==
  /\ seconds \in Nat /\ pacer = [next |-> pacer.next, retry |-> pacer.retry]
  /\ pacer.next \in Nat /\ pacer.retry \in Nat
  /\ calledAt \in Seq(Nat)
  /\ \A a \in askedToWait : a.at \in Nat /\ a.until \in Nat
PacerIsAhead ==
  /\ \A i \in DOMAIN calledAt : calledAt[i] + MinInterval <= pacer.next
  /\ \A a \in askedToWait : a.at <= Len(calledAt) /\ a.until <= pacer.retry

AdaptersInv == IsAWalk(walk) /\ PacerTypes /\ PacerIsAhead /\ CallsArePaced

(* No lead is worked on at first.                                          *)
LEMMA AdaptersBegin == AdaptersInit => AdaptersInv
<1> SUFFICES ASSUME AdaptersInit PROVE AdaptersInv
  OBVIOUS
<1>1. /\ seconds = 0 /\ pacer = [next |-> 0, retry |-> 0]
      /\ calledAt = << >> /\ askedToWait = {} /\ walk = [at |-> "rest", walks |-> 0]
  BY DEF AdaptersInit
<1>2. walk.at = "rest"
  BY <1>1
<1>3. IsAWalk(walk)
  BY <1>2 DEF IsAWalk
<1>4. calledAt \in Seq(Nat) /\ DOMAIN calledAt = {}
  BY <1>1
<1>5. pacer.next = 0 /\ pacer.retry = 0
  BY <1>1
<1>6. PacerTypes
  BY <1>1, <1>4, <1>5 DEF PacerTypes
<1>7. PacerIsAhead /\ CallsArePaced
  BY <1>1, <1>4 DEF PacerIsAhead, CallsArePaced
<1> QED
  BY <1>3, <1>6, <1>7 DEF AdaptersInv

(* What a walk is does not depend on when it is looked at.                 *)
LEMMA WalkRests == IsAWalk(walk') => IsAWalk(walk)'
  BY DEF IsAWalk, IsOpen, IsAnswered, IsSkipped, IsThePerson

(* A walk stays a walk: when it begins,                                    *)
LEMMA BeginWalkStays == ASSUME IsAWalk(walk), NEW w \in Walks, BeginWalk(w) PROVE IsAWalk(walk')
<1>1. walk' = [at |-> "next", walks |-> walk.walks + 1, config |-> w.config,
               wanted |-> w.wanted, check |-> w.check, index |-> 1, facts |-> << >>]
  BY DEF BeginWalk
<1>2. /\ walk'.at = "next" /\ walk'.config = w.config /\ walk'.wanted = w.wanted
      /\ walk'.index = 1 /\ walk'.facts = << >>
      /\ DOMAIN walk' = {"at", "walks", "config", "wanted", "check", "index", "facts"}
      /\ walk' = [f \in DOMAIN walk' |-> walk'[f]]
  BY <1>1
<1>3. ConfigIsSound(w.config) /\ WantedIsTyped(w.wanted)
  BY AdaptersAssumption DEF WantedIsTyped
<1>4. << >> = [f \in DOMAIN << >> |-> << >>[f]]
  OBVIOUS
<1>5. IsOpen(walk')
  BY <1>2, <1>3, <1>4 DEF IsOpen
<1> QED
  BY <1>2, <1>5 DEF IsAWalk

(* when it stops, with a reason that holds,                                *)
LEMMA StopWalkStays ==
  ASSUME IsAWalk(walk), NEW confident \in BOOLEAN, StopWalk(confident) PROVE IsAWalk(walk')
<1>1. walk.at = "next" /\ IsOpen(walk)
  BY DEF StopWalk, IsAWalk
<1>2. PICK stop : /\ walk' = [at |-> "stopped", walks |-> walk.walks, config |-> walk.config,
                              facts |-> walk.facts, index |-> walk.index, stop |-> stop]
                  /\ stop = IF walk.index > Len(VENDORS) THEN "all_providers_called"
                            ELSE StopBefore(NextVendor, confident)
  BY DEF StopWalk
<1>3. /\ walk'.at = "stopped" /\ walk'.config = walk.config /\ walk'.facts = walk.facts
      /\ walk'.index = walk.index /\ walk'.stop = stop
  BY <1>2
<1>4. ASSUME stop = "person_evidence_not_material" PROVE IsSkipped(walk')
  <2>1. walk.index \in 1 .. 3
    BY <1>1, <1>2, <1>4, VendorsAre DEF IsOpen
  <2>2. stop = StopBefore(NextVendor, confident)
    BY <1>2, <2>1, VendorsAre
  <2>3. NextVendor.entity = "person" /\ ~Relevant(walk.config, walk.facts, NextVendor.sells)
    BY <1>4, <2>2 DEF StopBefore
  <2>4. walk.index \in 2 .. 3 /\ NextVendor.sells = Sold
    <3>1. walk.index = 1 \/ walk.index = 2 \/ walk.index = 3
      BY <2>1
    <3>2. walk.index # 1
      BY <2>3, VendorsAre DEF NextVendor
    <3> QED
      BY <3>1, <3>2, VendorsAre DEF NextVendor
  <2> QED
    BY <1>1, <1>3, <2>3, <2>4 DEF IsSkipped, IsOpen
<1> QED
  BY <1>3, <1>4 DEF IsAWalk

(* when it calls,                                                          *)
LEMMA CallVendorStays ==
  ASSUME IsAWalk(walk), NEW confident \in BOOLEAN, CallVendor(confident) PROVE IsAWalk(walk')
<1>1. walk.at = "next" /\ IsOpen(walk) /\ walk.index <= 3 /\ walk' = [walk EXCEPT !.at = "calling"]
  BY VendorsAre DEF CallVendor, IsAWalk
<1>2. /\ walk' = [f \in DOMAIN walk |-> IF f = "at" THEN "calling" ELSE walk[f]]
      /\ DOMAIN walk' = DOMAIN walk
  BY <1>1 DEF IsOpen
<1>3. /\ walk'["at"] = "calling" /\ walk'["config"] = walk["config"] /\ walk'["wanted"] = walk["wanted"]
      /\ walk'["index"] = walk["index"] /\ walk'["facts"] = walk["facts"]
  BY <1>1, <1>2 DEF IsOpen
<1>4. walk' = [f \in DOMAIN walk' |-> walk'[f]]
  BY <1>2
<1>5. IsOpen(walk') /\ walk'.index \in 1 .. 3
  BY <1>1, <1>2, <1>3, <1>4 DEF IsOpen
<1> QED
  BY <1>3, <1>5 DEF IsAWalk

(* when an exchange ends,                                                  *)
LEMMA AnswerStays ==
  ASSUME IsAWalk(walk), NEW x, NEW wait, Answer(x, wait) PROVE IsAWalk(walk')
<1>1. walk.at = "calling" /\ IsOpen(walk) /\ walk.index \in 1 .. 3 /\ x \in Exchanges(VENDORS[walk.index].name)
  BY DEF Answer, IsAWalk, NextVendor
<1>2. walk' = [at |-> "answered", walks |-> walk.walks, config |-> walk.config,
              wanted |-> walk.wanted, check |-> walk.check, index |-> walk.index,
              facts |-> walk.facts, exchange |-> x, result |-> Result(VENDORS[walk.index], x)]
  BY DEF Answer, NextVendor
<1>3. /\ walk'.at = "answered" /\ walk'.config = walk.config /\ walk'.wanted = walk.wanted
      /\ walk'.index = walk.index /\ walk'.facts = walk.facts /\ walk'.exchange = x
      /\ walk'.result = Result(VENDORS[walk.index], x)
      /\ DOMAIN walk' = {"at", "walks", "config", "wanted", "check", "index", "facts", "exchange", "result"}
      /\ walk' = [f \in DOMAIN walk' |-> walk'[f]]
  BY <1>2
<1>4. IsOpen(walk')
  BY <1>1, <1>3 DEF IsOpen
<1>5. IsAnswered(walk')
  BY <1>1, <1>3 DEF IsAnswered
<1> QED
  BY <1>1, <1>3, <1>4, <1>5 DEF IsAWalk

(* when the answer is compared with who was asked for,                     *)
LEMMA TakeAnswerStays ==
  ASSUME IsAWalk(walk), NEW found \in Identities, TakeAnswer(found) PROVE IsAWalk(walk')
<1>1. walk.at = "answered" /\ IsOpen(walk) /\ walk.index \in 1 .. 3
  BY DEF TakeAnswer, IsAWalk
<1> DEFINE person == NextVendor.entity = "person" /\ walk.result.status = "SUCCESS"
           verdict == IF person THEN ValidateIdentity(walk.wanted, found) ELSE "none"
           taken == IF ~person \/ Scoreable(verdict) THEN walk.result.fields ELSE << >>
<1>2. walk' = [at |-> "next", walks |-> walk.walks, config |-> walk.config,
               wanted |-> walk.wanted, check |-> walk.check, index |-> walk.index + 1,
               facts |-> [f \in DOMAIN walk.facts \cup DOMAIN taken |->
                            IF f \in DOMAIN walk.facts THEN walk.facts[f] ELSE taken[f]],
               judged |-> IF person /\ taken # << >>
                          THEN {[wanted |-> walk.wanted, found |-> found]} ELSE {}]
  BY DEF TakeAnswer
<1>3. \A j \in (IF person /\ taken # << >> THEN {[wanted |-> walk.wanted, found |-> found]} ELSE {}) :
        IsThePerson(j)
  <2> SUFFICES ASSUME person, taken # << >>
               PROVE  IsThePerson([wanted |-> walk.wanted, found |-> found])
    OBVIOUS
  <2>1. Scoreable(ValidateIdentity(walk.wanted, found))
    OBVIOUS
  <2>2. found.name \in Seq(STRING) /\ walk.wanted.name \in Seq(STRING) /\ walk.wanted.company # "free"
    BY <1>1, AdaptersAssumption DEF IsOpen, WantedIsTyped
  <2> QED
    BY <2>1, <2>2, VerifiedIsThePerson
<1>3a. PICK facts : facts = [f \in DOMAIN walk.facts \cup DOMAIN taken |->
                               IF f \in DOMAIN walk.facts THEN walk.facts[f] ELSE taken[f]]
  OBVIOUS
<1>3b. PICK judged : judged = IF person /\ taken # << >>
                              THEN {[wanted |-> walk.wanted, found |-> found]} ELSE {}
  OBVIOUS
<1>3c. facts = [f \in DOMAIN facts |-> facts[f]]
  BY <1>3a
<1>3d. \A j \in judged : IsThePerson(j)
  BY <1>3, <1>3b
<1>4. /\ walk' = [at |-> "next", walks |-> walk.walks, config |-> walk.config,
                  wanted |-> walk.wanted, check |-> walk.check, index |-> walk.index + 1,
                  facts |-> facts, judged |-> judged]
      /\ facts = [f \in DOMAIN facts |-> facts[f]]
      /\ \A j \in judged : IsThePerson(j)
  BY <1>2, <1>3a, <1>3b, <1>3c, <1>3d
<1> HIDE DEF person, verdict, taken
<1>5. /\ walk'.at = "next" /\ walk'.config = walk.config /\ walk'.wanted = walk.wanted
      /\ walk'.index = walk.index + 1 /\ walk'.facts = facts /\ walk'.judged = judged
      /\ DOMAIN walk' = {"at", "walks", "config", "wanted", "check", "index", "facts", "judged"}
      /\ walk' = [f \in DOMAIN walk' |-> walk'[f]]
  BY <1>4
<1>6. walk.index + 1 \in 1 .. 4
  BY <1>1
<1>7. IsOpen(walk')
  BY <1>1, <1>4, <1>5, <1>6 DEF IsOpen
<1> QED
  BY <1>4, <1>5, <1>7 DEF IsAWalk

(* and in every step.                                                      *)
LEMMA WalkStaysAWalk == IsAWalk(walk) /\ (AdaptersNext \/ UNCHANGED adapterVars) => IsAWalk(walk')
<1> SUFFICES ASSUME IsAWalk(walk), AdaptersNext \/ UNCHANGED adapterVars PROVE IsAWalk(walk')
  OBVIOUS
<1>1. CASE UNCHANGED walk
  BY <1>1
<1>2. CASE Rest
  <2>1. walk' = [at |-> "rest", walks |-> walk.walks]
    BY <1>2 DEF Rest
  <2>2. walk'.at = "rest"
    BY <2>1
  <2> QED
    BY <2>2 DEF IsAWalk
<1> QED
  BY <1>1, <1>2, BeginWalkStays, StopWalkStays, CallVendorStays, AnswerStays, TakeAnswerStays
     DEF AdaptersNext, adapterVars, SecondPasses, WalkStays
-----------------------------------------------------------------------------
(* The pacer's three floors.                                               *)
LEMMA GreatestOfThree ==
  ASSUME NEW a \in Nat, NEW b \in Nat, NEW c \in Nat
  PROVE  Max({a, b, c}) \in Nat /\ Max({a, b, c}) >= a /\ Max({a, b, c}) >= b /\ Max({a, b, c}) >= c
<1>1. \E m \in {a, b, c} : \A y \in {a, b, c} : m >= y
  <2>1. CASE a >= b /\ a >= c
    BY <2>1
  <2>2. CASE b >= a /\ b >= c
    BY <2>2
  <2>3. CASE c >= a /\ c >= b
    BY <2>3
  <2> QED
    BY <2>1, <2>2, <2>3
<1>2. Max({a, b, c}) \in {a, b, c} /\ \A y \in {a, b, c} : Max({a, b, c}) >= y
  BY <1>1 DEF Max
<1> QED
  BY <1>2

IsPaced(calls, asked) ==
  \A i \in DOMAIN calls :
    /\ i > 1 => calls[i] >= calls[i - 1] + MinInterval
    /\ \A a \in asked : a.at < i => calls[i] >= a.until

(* One more call, once every floor is past, keeps the distances.           *)
LEMMA OneMoreCallIsPaced ==
  ASSUME PacerTypes, PacerIsAhead, CallsArePaced, NEW now \in Nat,
         now >= pacer.next, now >= pacer.retry
  PROVE  /\ Append(calledAt, now) \in Seq(Nat)
         /\ IsPaced(Append(calledAt, now), askedToWait)
         /\ \A i \in DOMAIN Append(calledAt, now) :
              Append(calledAt, now)[i] + MinInterval <= now + MinInterval
         /\ \A a \in askedToWait : a.at <= Len(Append(calledAt, now))
<1>0. MinInterval \in Nat
  BY AdaptersAssumption
<1>1. calledAt \in Seq(Nat)
  BY DEF PacerTypes
<1> DEFINE n == Len(calledAt)
           c == Append(calledAt, now)
<1>2. /\ n \in Nat /\ DOMAIN calledAt = 1 .. n /\ Len(c) = n + 1 /\ DOMAIN c = 1 .. n + 1
      /\ \A i \in 1 .. n : c[i] = calledAt[i] /\ calledAt[i] \in Nat
      /\ c[n + 1] = now /\ c \in Seq(Nat)
  BY <1>1
<1>3. pacer.next \in Nat /\ pacer.retry \in Nat
  BY DEF PacerTypes
<1>4. /\ \A i \in 1 .. n : calledAt[i] + MinInterval <= pacer.next
      /\ \A a \in askedToWait : a.at \in Nat /\ a.until \in Nat /\ a.at <= n /\ a.until <= pacer.retry
  BY <1>2 DEF PacerIsAhead, PacerTypes
<1>5. \A i \in 1 .. n : /\ i > 1 => calledAt[i] >= calledAt[i - 1] + MinInterval
                        /\ \A a \in askedToWait : a.at < i => calledAt[i] >= a.until
  BY <1>2 DEF CallsArePaced
<1> HIDE DEF c, n
<1>6. ASSUME NEW i \in 1 .. n + 1
      PROVE  /\ i > 1 => c[i] >= c[i - 1] + MinInterval
             /\ \A a \in askedToWait : a.at < i => c[i] >= a.until
             /\ c[i] + MinInterval <= now + MinInterval
  <2>1. CASE i = n + 1
    <3>1. c[i] = now
      BY <1>2, <2>1
    <3>2. ASSUME i > 1 PROVE now >= c[i - 1] + MinInterval
      <4>1. i - 1 = n /\ n \in 1 .. n
        BY <1>2, <2>1, <3>2
      <4>2. c[i - 1] + MinInterval <= pacer.next /\ c[i - 1] \in Nat
        BY <1>2, <1>4, <4>1
      <4> QED
        BY <1>0, <1>3, <4>2
    <3>3. \A a \in askedToWait : now >= a.until
      BY <1>3, <1>4
    <3>4. now + MinInterval <= now + MinInterval
      BY <1>0
    <3> QED
      BY <3>1, <3>2, <3>3, <3>4
  <2>2. CASE i # n + 1
    <3>1. i \in 1 .. n
      BY <1>2, <2>2
    <3>2. c[i] = calledAt[i] /\ calledAt[i] \in Nat /\ (i > 1 => c[i - 1] = calledAt[i - 1])
      BY <1>2, <3>1
    <3>3. c[i] + MinInterval <= now + MinInterval
      BY <1>0, <1>3, <1>4, <3>1, <3>2
    <3> QED
      BY <1>5, <3>1, <3>2, <3>3
  <2> QED
    BY <2>1, <2>2
<1>7. IsPaced(c, askedToWait)
  BY <1>2, <1>6 DEF IsPaced
<1>8. \A i \in DOMAIN c : c[i] + MinInterval <= now + MinInterval
  BY <1>2, <1>6
<1>9. \A a \in askedToWait : a.at <= Len(c)
  BY <1>2, <1>4
<1> QED
  BY <1>2, <1>7, <1>8, <1>9 DEF c

PacerInv == PacerTypes /\ PacerIsAhead /\ CallsArePaced

(* A call waits for every floor.                                           *)
LEMMA CallVendorIsPaced ==
  ASSUME PacerInv, NEW confident \in BOOLEAN, CallVendor(confident) PROVE PacerInv'
<1>1. PacerTypes /\ PacerIsAhead /\ CallsArePaced
  BY DEF PacerInv
<1>2. CASE UNCHANGED <<seconds, pacer, calledAt, askedToWait>>
  BY <1>1, <1>2 DEF PacerInv, PacerTypes, PacerIsAhead, CallsArePaced
<1>3. CASE NextVendor.name = "abstract"
  <2>1. /\ seconds' = Deadline(seconds) /\ pacer' = [pacer EXCEPT !.next = Deadline(seconds) + MinInterval]
        /\ calledAt' = Append(calledAt, seconds') /\ askedToWait' = askedToWait
    BY <1>3 DEF CallVendor
  <2>2. seconds \in Nat /\ pacer.next \in Nat /\ pacer.retry \in Nat
    BY <1>1 DEF PacerTypes
  <2>3. PICK now : now = Deadline(seconds)
    OBVIOUS
  <2>4. now \in Nat /\ now >= pacer.next /\ now >= pacer.retry
    BY <2>2, <2>3, GreatestOfThree DEF Deadline
  <2>5. /\ Append(calledAt, now) \in Seq(Nat)
        /\ IsPaced(Append(calledAt, now), askedToWait)
        /\ \A i \in DOMAIN Append(calledAt, now) :
             Append(calledAt, now)[i] + MinInterval <= now + MinInterval
        /\ \A a \in askedToWait : a.at <= Len(Append(calledAt, now))
    BY <1>1, <2>4, OneMoreCallIsPaced
  <2>6. calledAt' = Append(calledAt, now) /\ seconds' = now
    BY <2>1, <2>3
  <2>7. pacer = [next |-> pacer.next, retry |-> pacer.retry]
    BY <1>1 DEF PacerTypes
  <2>8. pacer' = [next |-> now + MinInterval, retry |-> pacer.retry]
    BY <2>1, <2>3, <2>7
  <2>9. pacer'.next = now + MinInterval /\ pacer'.retry = pacer.retry /\ now + MinInterval \in Nat
    BY <2>4, <2>8, AdaptersAssumption
  <2>10. PacerTypes'
    BY <1>1, <2>1, <2>2, <2>4, <2>5, <2>6, <2>8, <2>9 DEF PacerTypes
  <2>11. PacerIsAhead'
    BY <1>1, <2>1, <2>5, <2>6, <2>9 DEF PacerIsAhead
  <2>12. CallsArePaced'
    BY <2>1, <2>5, <2>6 DEF CallsArePaced, IsPaced
  <2> QED
    BY <2>10, <2>11, <2>12 DEF PacerInv
<1> QED
  BY <1>2, <1>3 DEF CallVendor, PacerStays

(* A Retry-After raises a floor and is remembered.                         *)
LEMMA AnswerIsPaced ==
  ASSUME PacerInv, NEW x, NEW wait \in Nat, Answer(x, wait) PROVE PacerInv'
<1>1. PacerTypes /\ PacerIsAhead /\ CallsArePaced
  BY DEF PacerInv
<1>2. CASE UNCHANGED <<seconds, pacer, calledAt, askedToWait>>
  BY <1>1, <1>2 DEF PacerInv, PacerTypes, PacerIsAhead, CallsArePaced
<1>3. CASE /\ pacer' = [pacer EXCEPT !.retry = NoteRetryAfter(seconds + wait)]
           /\ askedToWait' = askedToWait \cup {[at |-> Len(calledAt), until |-> seconds + wait]}
           /\ UNCHANGED <<seconds, calledAt>>
  <2>1. seconds \in Nat /\ pacer.next \in Nat /\ pacer.retry \in Nat /\ calledAt \in Seq(Nat)
        /\ pacer = [next |-> pacer.next, retry |-> pacer.retry]
    BY <1>1 DEF PacerTypes
  <2>2. PICK until : until = seconds + wait
    OBVIOUS
  <2>3. PICK retry : retry = NoteRetryAfter(until)
    OBVIOUS
  <2>4. until \in Nat
    BY <2>1, <2>2
  <2>5. retry \in Nat /\ retry >= pacer.retry /\ retry >= until
    <3>1. {pacer.retry, until} = {pacer.retry, until, until}
      OBVIOUS
    <3> QED
      BY <2>1, <2>3, <2>4, <3>1, GreatestOfThree DEF NoteRetryAfter
  <2>6. pacer' = [next |-> pacer.next, retry |-> retry]
    BY <1>3, <2>1, <2>2, <2>3
  <2>7. pacer'.next = pacer.next /\ pacer'.retry = retry
    BY <2>6
  <2>8. PICK n : n = Len(calledAt)
    OBVIOUS
  <2>9. n \in Nat /\ DOMAIN calledAt = 1 .. n
    BY <2>1, <2>8
  <2>10. PICK new : new = [at |-> n, until |-> until]
    OBVIOUS
  <2>11. new.at = n /\ new.until = until
    BY <2>10
  <2>12. seconds' = seconds /\ calledAt' = calledAt /\ askedToWait' = askedToWait \cup {new}
    BY <1>3, <2>2, <2>8, <2>10
  <2>13. \A a \in askedToWait : a.at \in Nat /\ a.until \in Nat /\ a.at <= n /\ a.until <= pacer.retry
    BY <1>1, <2>8 DEF PacerTypes, PacerIsAhead
  <2>14. \A a \in askedToWait' : a.at \in Nat /\ a.until \in Nat /\ a.at <= n /\ a.until <= retry
    BY <2>1, <2>4, <2>5, <2>9, <2>11, <2>12, <2>13
  <2>15. PacerTypes'
    BY <2>1, <2>5, <2>6, <2>7, <2>12, <2>14 DEF PacerTypes
  <2>16. PacerIsAhead'
    BY <1>1, <2>7, <2>8, <2>12, <2>14 DEF PacerIsAhead
  <2>17. CallsArePaced'
    <3>1. \A i \in DOMAIN calledAt : ~(new.at < i)
      BY <2>9, <2>11
    <3> QED
      BY <1>1, <2>12, <3>1 DEF CallsArePaced
  <2> QED
    BY <2>15, <2>16, <2>17 DEF PacerInv
<1> QED
  BY <1>2, <1>3 DEF Answer, PacerStays

(* No step shortens a deadline.                                            *)
LEMMA PacerStaysAhead == PacerInv /\ (AdaptersNext \/ UNCHANGED adapterVars) => PacerInv'
<1> SUFFICES ASSUME PacerInv, AdaptersNext \/ UNCHANGED adapterVars PROVE PacerInv'
  OBVIOUS
<1>1. CASE UNCHANGED <<seconds, pacer, calledAt, askedToWait>>
  BY <1>1 DEF PacerInv, PacerTypes, PacerIsAhead, CallsArePaced
<1>2. CASE SecondPasses
  <2>1. seconds \in Nat
    BY DEF PacerInv, PacerTypes
  <2>2. seconds' \in Nat /\ UNCHANGED <<pacer, calledAt, askedToWait>>
    BY <1>2, <2>1 DEF SecondPasses, PacerStays
  <2> QED
    BY <2>2 DEF PacerInv, PacerTypes, PacerIsAhead, CallsArePaced
<1>3. \A wait \in RetryAfters \cup {0} : wait \in Nat
  BY AdaptersAssumption
<1> QED
  BY <1>1, <1>2, <1>3, CallVendorIsPaced, AnswerIsPaced
     DEF AdaptersNext, adapterVars, BeginWalk, StopWalk, TakeAnswer, Rest, PacerStays

(* What a worker makes of its vendors' answers, inductively.               *)
LEMMA AdaptersStay == AdaptersInv /\ (AdaptersNext \/ UNCHANGED adapterVars) => AdaptersInv'
<1>1. AdaptersInv <=> IsAWalk(walk) /\ PacerInv
  BY DEF AdaptersInv, PacerInv
<1>2. IsAWalk(walk)' /\ PacerInv' => AdaptersInv'
  BY DEF AdaptersInv, PacerInv
<1> QED
  BY <1>1, <1>2, WalkStaysAWalk, WalkRests, PacerStaysAhead
-----------------------------------------------------------------------------
(* What AdaptersInv says of an answer.                                     *)
LEMMA AnswersAreResults ==
  ASSUME AdaptersInv, walk.at = "answered"
  PROVE  /\ walk.index \in 1 .. 3 /\ NextVendor = VENDORS[walk.index]
         /\ walk.exchange \in Exchanges(VENDORS[walk.index].name)
         /\ walk.result = Result(VENDORS[walk.index], walk.exchange)
  BY DEF AdaptersInv, IsAWalk, IsAnswered, NextVendor

(* Hence the six properties of answers: what is paid was delivered;        *)
LEMMA PaymentIsRight == AdaptersInv => PaidIffDelivered
<1> SUFFICES ASSUME AdaptersInv, walk.at = "answered" PROVE PaidIffDelivered
  BY DEF PaidIffDelivered
<1>1. /\ walk.index \in 1 .. 3 /\ NextVendor = VENDORS[walk.index]
      /\ walk.exchange \in Exchanges(VENDORS[walk.index].name)
      /\ walk.result = Result(VENDORS[walk.index], walk.exchange)
  BY AnswersAreResults
<1>2. IsPaidRight(NextVendor, walk.exchange, walk.result)
  BY <1>1, ResultsArePaidRight
<1> QED
  BY <1>2 DEF PaidIffDelivered, IsPaidRight, WasDelivered

(* what a person's record says in our vocabulary is kept;                  *)
LEMMA WhatIsSaidIsKept == AdaptersInv => NothingMappableLost
<1> SUFFICES ASSUME AdaptersInv, walk.at = "answered", walk.exchange.got = "body",
                    NextVendor.entity = "person", walk.exchange.matched
             PROVE  NothingMappableLost
  BY DEF NothingMappableLost
<1>1. /\ walk.index \in 1 .. 3 /\ NextVendor = VENDORS[walk.index]
      /\ walk.exchange \in Exchanges(VENDORS[walk.index].name)
      /\ walk.result = Result(VENDORS[walk.index], walk.exchange)
  BY AnswersAreResults
<1>2. PICK seller : seller = NextVendor
  OBVIOUS
<1>3. PICK x : x = walk.exchange
  OBVIOUS
<1>4. PICK p : p = x.person
  OBVIOUS
<1>5. seller.name = "hunter" \/ seller.name = "apollo"
  <2>1. walk.index = 1 \/ walk.index = 2 \/ walk.index = 3
    BY <1>1
  <2> QED
    BY <1>1, <1>2, <2>1, VendorsAre
<1>6. walk.result = Result(seller, x) /\ x.got = "body" /\ x.matched
  BY <1>1, <1>2, <1>3
<1>7. PICK raw : /\ walk.result = Delivered(seller, raw) /\ DOMAIN raw = Sold
                 /\ SpeaksFor(raw["title_seniority"], NormalizeSeniority(raw["title_seniority"]), p.seniority,
                              NormalizeSeniority(p.seniority), p.title, SeniorityFromTitle(p.title))
                 /\ SpeaksFor(raw["title_function"], NormalizeFunction(raw["title_function"]),
                              FirstSaid(p.departments), NormalizeFunction(FirstSaid(p.departments)),
                              p.title, FunctionFromTitle(p.title))
  <2>1. PICK dept : dept = PreferDepartment(p)
    OBVIOUS
  <2>2. SpeaksFor(dept, NormalizeFunction(dept),
                  FirstSaid(p.departments), NormalizeFunction(FirstSaid(p.departments)),
                  p.title, FunctionFromTitle(p.title))
    BY <2>1, FunctionSpeaks DEF PreferDepartment
  <2>3. CASE seller.name = "hunter"
    <3>1. PICK raw : raw = ExtractHunter(p)
      OBVIOUS
    <3>2. walk.result = Delivered(seller, raw)
      BY <1>4, <1>6, <2>3, <3>1 DEF Result, FetchHunter
    <3>3. PICK s : s = IF SeniorityFromTitle(p.title) # Unmapped THEN {SeniorityFromTitle(p.title)}
                       ELSE FirstSaid(<<p.seniority, p.title>>)
      OBVIOUS
    <3>4. SpeaksFor(s, NormalizeSeniority(s), p.seniority, NormalizeSeniority(p.seniority),
                    p.title, SeniorityFromTitle(p.title))
      BY <3>3, SenioritySpeaks
    <3>5. raw = [title_seniority |-> s, title_function |-> dept]
      BY <2>1, <3>1, <3>3 DEF ExtractHunter
    <3>6. DOMAIN raw = Sold /\ raw["title_seniority"] = s /\ raw["title_function"] = dept
      BY <3>5 DEF Sold
    <3> QED
      BY <2>2, <3>2, <3>4, <3>6
  <2>4. CASE seller.name = "apollo"
    <3>1. PICK raw : raw = ExtractApollo(p)
      OBVIOUS
    <3>2. walk.result = Delivered(seller, raw)
      BY <1>4, <1>6, <2>4, <3>1 DEF Result, FetchApollo
    <3>3. PICK s : s = PreferEnumThenTitle(p.seniority, NormalizeSeniority(p.seniority),
                                           p.title, SeniorityFromTitle(p.title))
      OBVIOUS
    <3>4. SpeaksFor(s, NormalizeSeniority(s), p.seniority, NormalizeSeniority(p.seniority),
                    p.title, SeniorityFromTitle(p.title))
      BY <3>3, SenioritySpeaks
    <3>5. raw = [title_seniority |-> s, title_function |-> dept]
      BY <2>1, <3>1, <3>3 DEF ExtractApollo
    <3>6. DOMAIN raw = Sold /\ raw["title_seniority"] = s /\ raw["title_function"] = dept
      BY <3>5 DEF Sold
    <3> QED
      BY <2>2, <3>2, <3>4, <3>6
  <2> QED
    BY <1>5, <2>3, <2>4
<1>8. /\ DOMAIN walk.result.fields = {f \in DOMAIN Says(p) : Says(p)[f] # {Unmapped}}
      /\ walk.result.unmapped = {f \in DOMAIN Says(p) \ DOMAIN walk.result.fields : ~IsMute(p)[f]}
      /\ \A f \in DOMAIN walk.result.fields : walk.result.fields[f] \in Says(p)[f]
  BY <1>7, SpokenIsDelivered
<1>9. p = walk.exchange.person
  BY <1>3, <1>4
<1> QED
  BY <1>8, <1>9 DEF NothingMappableLost, Says, IsMute

(* the reference profile gives regulated trades no points;                 *)
LEMMA TradesEarnNothing ==
  /\ FieldPoints(REFERENCE_CONFIG, "industry", "healthcare") = 0
  /\ FieldPoints(REFERENCE_CONFIG, "industry", "financial_services") = 0
<1>1. DOMAIN REFERENCE_CONFIG.points["industry"] =
        {"software", "fintech", "healthtech", "ecommerce", "logistics", "manufacturing",
         "education", "nonprofit"}
  BY DEF REFERENCE_CONFIG
<1> QED
  BY <1>1 DEF FieldPoints

(* Abstract's industry is what the taxonomy makes of its text;             *)
LEMMA AbstractReadsIndustry ==
  ASSUME AdaptersInv, walk.at = "answered", NextVendor.name = "abstract",
         "industry" \in DOMAIN walk.result.fields
  PROVE  walk.result.fields.industry = NormalizeIndustry(walk.exchange.industry)
<1>1. /\ walk.index \in 1 .. 3 /\ NextVendor = VENDORS[walk.index]
      /\ walk.exchange \in Exchanges(VENDORS[walk.index].name)
      /\ walk.result = Result(VENDORS[walk.index], walk.exchange)
  BY AnswersAreResults
<1>2. IsPaidRight(NextVendor, walk.exchange, walk.result)
  BY <1>1, ResultsArePaidRight
<1>3. walk.exchange.got = "body"
  <2>1. DOMAIN << >> = {}
    OBVIOUS
  <2>2. walk.result.fields # << >>
    BY <2>1
  <2> QED
    BY <1>2, <2>2 DEF IsPaidRight, WasDelivered
<1>4. PICK text : text = walk.exchange.industry
  OBVIOUS
<1>5. PICK raw : raw = [employee_count |-> walk.exchange.employee_count, industry |-> text]
  OBVIOUS
<1>6. walk.result = Delivered(NextVendor, raw)
  BY <1>1, <1>3, <1>4, <1>5 DEF Result, FetchAbstract
<1>7. DOMAIN raw = {"employee_count", "industry"} /\ raw["industry"] = text
  BY <1>5
<1>8. walk.result.fields = [f \in DOMAIN walk.result.fields |-> Meaning(f, raw[f])]
  <2>1. DOMAIN raw \in SUBSET {"employee_count", "industry", "title_seniority", "title_function"}
    BY <1>7
  <2>2. LET d == Delivered(NextVendor, raw)
        IN  d.fields = [f \in DOMAIN d.fields |-> Meaning(f, raw[f])]
    BY <2>1, DeliveriesAreCanonical
  <2> QED
    BY <1>6, <2>2
<1>9. walk.result.fields["industry"] = NormalizeIndustry(text)
  <2>1. Meaning("industry", raw["industry"]) = NormalizeIndustry(text)
    BY <1>7 DEF Meaning
  <2> QED
    BY <1>8, <2>1
<1> QED
  BY <1>4, <1>9

(* hence a trade earns nothing for its technology;                         *)
LEMMA TradesAreRead == AdaptersInv => TradeBeforeTechnology
<1> SUFFICES ASSUME AdaptersInv, walk.at = "answered", NextVendor.name = "abstract",
                    "industry" \in DOMAIN walk.result.fields,
                    walk.exchange.industry \cap {"medical", "banking"} # {},
                    walk.exchange.industry \cap {"financial technology", "health tech"} = {}
             PROVE  FieldPoints(REFERENCE_CONFIG, "industry", walk.result.fields.industry) = 0
  BY DEF TradeBeforeTechnology
<1>1. walk.result.fields.industry = NormalizeIndustry(walk.exchange.industry)
  BY AbstractReadsIndustry
<1>2. NormalizeIndustry(walk.exchange.industry) \in {"healthcare", "financial_services"}
  BY TradesComeFirst
<1> QED
  BY <1>1, <1>2, TradesEarnNothing, Zenon

(* evidence that counts is of the person asked for;                        *)
LEMMA EvidenceIsRight == AdaptersInv => EvidenceIsOfThePerson
  BY DEF AdaptersInv, IsAWalk, IsThePerson, EvidenceIsOfThePerson

(* a lookup is skipped only if it cannot matter;                           *)
LEMMA SkipsAreRight == AdaptersInv => SkippedIsImmaterial
<1> SUFFICES ASSUME AdaptersInv, walk.at = "stopped", walk.stop = "person_evidence_not_material"
             PROVE  SkippedIsImmaterial
  BY DEF SkippedIsImmaterial
<1>1. IsSkipped(walk)
  BY DEF AdaptersInv, IsAWalk
<1>2. PICK c, facts : c = walk.config /\ facts = walk.facts
  OBVIOUS
<1>3. /\ ConfigIsSound(c) /\ facts = [f \in DOMAIN facts |-> facts[f]]
      /\ ~Relevant(c, facts, Sold) /\ walk.index \in 2 .. 3
  BY <1>1, <1>2 DEF IsSkipped
<1>4. NextVendor.sells = Sold
  <2>1. walk.index = 2 \/ walk.index = 3
    BY <1>3
  <2> QED
    BY <2>1, VendorsAre DEF NextVendor
<1>5. ASSUME NEW s \in DOMAIN c.points["title_seniority"], NEW t \in DOMAIN c.points["title_function"]
      PROVE  LET stated == [title_seniority |-> s, title_function |-> t]
             IN  DecisionFor(c, ScoreFacts(c, [f \in DOMAIN facts \cup (Sold \ DOMAIN facts) |->
                                                 IF f \in DOMAIN facts THEN facts[f] ELSE stated[f]]))
                   = DecisionFor(c, ScoreFacts(c, facts))
  <2>1. PICK stated : stated = [title_seniority |-> s, title_function |-> t]
    OBVIOUS
  <2>2. \A f \in Sold : stated[f] \in DOMAIN c.points[f]
    BY <2>1 DEF Sold
  <2>3. DecisionFor(c, ScoreFacts(c, [f \in DOMAIN facts \cup (Sold \ DOMAIN facts) |->
                                        IF f \in DOMAIN facts THEN facts[f] ELSE stated[f]]))
          = DecisionFor(c, ScoreFacts(c, facts))
    BY <1>3, <2>2, ImmaterialMeans
  <2> QED
    BY <2>1, <2>3
<1>6. \A s \in DOMAIN c.points["title_seniority"], t \in DOMAIN c.points["title_function"] :
        LET stated == [title_seniority |-> s, title_function |-> t]
        IN  DecisionFor(c, ScoreFacts(c, [f \in DOMAIN facts \cup (Sold \ DOMAIN facts) |->
                                            IF f \in DOMAIN facts THEN facts[f] ELSE stated[f]]))
              = DecisionFor(c, ScoreFacts(c, facts))
  BY <1>5
<1> QED
  BY <1>2, <1>4, <1>6, Zenon DEF SkippedIsImmaterial

(* calls keep their distance.                                              *)
LEMMA CallsKeepTheirDistance == AdaptersInv => CallsArePaced
  BY DEF AdaptersInv

-----------------------------------------------------------------------------
(* Surfaces: what a customer is told of a lead.                            *)

(* The versions of the profile are numbered from 1, and each is one that   *)
(* the validator grants.                                                   *)
LEMMA VersionsAreSound ==
  /\ Len(ProfileHistory) \in Nat /\ DOMAIN ProfileHistory = 1 .. Len(ProfileHistory)
  /\ 1 \in DOMAIN ProfileHistory /\ 0 \notin DOMAIN ProfileHistory
  /\ \A v \in DOMAIN ProfileHistory : ConfigIsSound(ProfileHistory[v])
<1>1. /\ ProfileHistory \in Seq(Range(ProfileHistory)) /\ ProfileHistory # << >>
      /\ \A config \in Range(ProfileHistory) : ConfigIsSound(config)
  BY SurfacesAssumption
<1>2. PICK n : n = Len(ProfileHistory)
  OBVIOUS
<1>3. n \in Nat /\ n # 0 /\ DOMAIN ProfileHistory = 1 .. n
  BY <1>1, <1>2
<1>4. \A v \in DOMAIN ProfileHistory : ConfigIsSound(ProfileHistory[v])
  BY <1>1 DEF Range
<1> QED
  BY <1>2, <1>3, <1>4

(* Leads are listed, newest first.                                         *)
LEMMA ProspectsAreListed ==
  /\ IsFiniteSet(Prospects)
  /\ DOMAIN Clients \in SUBSET Nat
  /\ \A l \in Prospects : \E i \in DOMAIN Clients : Clients[i] = l
<1>1. Clients \in Seq(Prospects)
  BY SurfacesAssumption DEF Prospects
<1>2. PICK n : n = Len(Clients)
  OBVIOUS
<1>3. n \in Nat /\ DOMAIN Clients = 1 .. n /\ Clients \in [1 .. n -> Prospects]
  BY <1>1, <1>2
<1>4. \A l \in Prospects : \E i \in DOMAIN Clients : Clients[i] = l
  BY DEF Prospects, Range
<1>5. IsFiniteSet(1 .. n)
  BY <1>3, FS_Interval
<1>6. Clients \in Surjection(1 .. n, Prospects)
  BY <1>3, <1>4 DEF Surjection
<1> QED
  BY <1>3, <1>4, <1>5, <1>6, FS_Surjection

-----------------------------------------------------------------------------
(* Sorting: tuples of equal length compare as Python compares them.        *)
IsKey(a, n) == DOMAIN a = 1 .. n /\ \A i \in 1 .. n : a[i] \in Int

(* No key goes before itself.                                              *)
LEMMA NoneGoesBeforeItself ==
  ASSUME NEW n \in Nat, NEW a, IsKey(a, n)
  PROVE  ~GoesFirst(a, a)
BY DEF IsKey, GoesFirst

(* Of two different keys one goes first.                                   *)
LEMMA OneGoesFirst ==
  ASSUME NEW n \in Nat, NEW a, NEW b, IsKey(a, n), IsKey(b, n),
         NEW d \in 1 .. n, a[d] # b[d]
  PROVE  GoesFirst(a, b) \/ GoesFirst(b, a)
<1> DEFINE D == {i \in 1 .. n : a[i] # b[i]}
<1>1. D \in SUBSET Nat /\ D # {}
  OBVIOUS
<1>2. PICK i \in D : \A j \in D : i <= j
  <2> HIDE DEF D
  <2> QED
    BY <1>1, LeastOf
<1>3. i \in 1 .. n /\ a[i] \in Int /\ b[i] \in Int /\ a[i] # b[i]
  BY <1>2 DEF IsKey
<1>4. \A j \in 1 .. (i - 1) : a[j] = b[j]
  <2> SUFFICES ASSUME NEW j \in 1 .. (i - 1), a[j] # b[j] PROVE FALSE
    OBVIOUS
  <2>1. j \in 1 .. n /\ ~(i <= j)
    BY <1>3
  <2> QED
    BY <1>2, <2>1
<1>5. a[i] < b[i] \/ b[i] < a[i]
  BY <1>3
<1>6. i \in DOMAIN a /\ i \in DOMAIN b
  BY <1>3 DEF IsKey
<1> QED
  BY <1>4, <1>5, <1>6 DEF GoesFirst

(* What goes before a key goes before all that it goes before.             *)
LEMMA GoingFirstIsTransitive ==
  ASSUME NEW n \in Nat, NEW a, NEW b, NEW c, IsKey(a, n), IsKey(b, n), IsKey(c, n),
         GoesFirst(a, b), GoesFirst(b, c)
  PROVE  GoesFirst(a, c)
<1>1. PICK i \in 1 .. n : a[i] < b[i] /\ \A j \in 1 .. (i - 1) : a[j] = b[j]
  BY DEF GoesFirst, IsKey
<1>2. PICK k \in 1 .. n : b[k] < c[k] /\ \A j \in 1 .. (k - 1) : b[j] = c[j]
  BY DEF GoesFirst, IsKey
<1>3. PICK m \in {i, k} : m <= i /\ m <= k
  BY <1>1, <1>2
<1>4. m \in DOMAIN a /\ a[m] \in Int /\ b[m] \in Int /\ c[m] \in Int
  BY <1>3 DEF IsKey
<1>5. \A j \in 1 .. (m - 1) : a[j] = b[j] /\ b[j] = c[j]
  BY <1>1, <1>2, <1>3
<1>6. a[m] < c[m]
  <2>1. CASE i < k
    BY <1>1, <1>2, <1>3, <1>4, <2>1
  <2>2. CASE k < i
    BY <1>1, <1>2, <1>3, <1>4, <2>2
  <2>3. CASE i = k
    BY <1>1, <1>2, <1>3, <1>4, <2>3
  <2> QED
    BY <2>1, <2>2, <2>3
<1> QED
  BY <1>4, <1>5, <1>6 DEF GoesFirst

(* A row that can be sorted, and rows of different leads.                  *)
Sortable(row) ==
  /\ row.priority \in DOMAIN PRIORITY_RANK
  /\ row.score \in Int /\ row.age \in Int
  /\ row.bare \/ row.band \in DOMAIN Sureness
OfDifferentLeads(rows) == \A r, q \in rows : r.age = q.age => r = q

(* As many components as the sort of an intent compares.                   *)
KeyLength(intent, sort) ==
  IF intent = "work_today" THEN 4 ELSE IF sort = "score" THEN 3
  ELSE IF sort = "recent" THEN 1 ELSE 2

(* Tuples of integers are keys.                                            *)
LEMMA TuplesAreKeys ==
  ASSUME NEW a \in Int, NEW b \in Int, NEW c \in Int, NEW d \in Int
  PROVE  /\ IsKey(<<a>>, 1) /\ IsKey(<<a, b>>, 2) /\ IsKey(<<a, b, c>>, 3)
         /\ IsKey(<<a, b, c, d>>, 4)
<1>1. IsKey(<<a>>, 1)
  <2>1. DOMAIN <<a>> = 1 .. 1 /\ \A i \in 1 .. 1 : i = 1
    OBVIOUS
  <2> QED
    BY <2>1 DEF IsKey
<1>2. IsKey(<<a, b>>, 2)
  <2>1. DOMAIN <<a, b>> = 1 .. 2 /\ \A i \in 1 .. 2 : i \in {1, 2}
    OBVIOUS
  <2> QED
    BY <2>1 DEF IsKey
<1>3. IsKey(<<a, b, c>>, 3)
  <2>1. DOMAIN <<a, b, c>> = 1 .. 3 /\ \A i \in 1 .. 3 : i \in {1, 2, 3}
    OBVIOUS
  <2> QED
    BY <2>1 DEF IsKey
<1>4. IsKey(<<a, b, c, d>>, 4)
  <2>1. DOMAIN <<a, b, c, d>> = 1 .. 4 /\ \A i \in 1 .. 4 : i \in {1, 2, 3, 4}
    OBVIOUS
  <2> QED
    BY <2>1 DEF IsKey
<1> QED
  BY <1>1, <1>2, <1>3, <1>4

(* Keys are integers, the last is the age of the lead.                     *)
LEMMA KeysAreTyped ==
  ASSUME NEW row, Sortable(row), NEW intent, NEW sort
  PROVE  LET key == SortKey(row, intent, sort)
             n == KeyLength(intent, sort)
         IN  /\ n \in Nat /\ n > 0 /\ IsKey(key, n) /\ key[n] = row.age
             /\ intent = "work_today" => key[1] = PRIORITY_RANK[row.priority]
<1> DEFINE rank == PRIORITY_RANK[row.priority]
           score == 100 - row.score
           unsure == IF row.bare THEN 2 ELSE 2 - Sureness[row.band]
           bare == IF row.bare THEN 1 ELSE 0
<1>1. rank \in Int
  BY DEF Sortable, PRIORITY_RANK
<1>2. score \in Int /\ row.age \in Int
  BY DEF Sortable
<1>3. unsure \in Int
  <2>1. CASE row.bare
    BY <2>1
  <2>2. CASE ~row.bare
    <3>1. row.band \in DOMAIN Sureness
      BY <2>2 DEF Sortable
    <3>2. Sureness[row.band] \in Int
      BY <3>1 DEF Sureness
    <3> QED
      BY <2>2, <3>2
  <2> QED
    BY <2>1, <2>2
<1>4. bare \in Int
  OBVIOUS
<1>5. SortKey(row, intent, sort)
        = IF intent = "work_today" THEN <<rank, score, unsure, row.age>>
          ELSE IF sort = "score" THEN <<bare, score, row.age>>
          ELSE IF sort = "recent" THEN <<row.age>>
          ELSE <<rank, row.age>>
  BY DEF SortKey
<1> HIDE DEF rank, score, unsure, bare
<1>6. CASE intent = "work_today"
  <2>1. SortKey(row, intent, sort) = <<rank, score, unsure, row.age>> /\ KeyLength(intent, sort) = 4
    BY <1>5, <1>6 DEF KeyLength
  <2> QED
    <3>1. IsKey(<<rank, score, unsure, row.age>>, 4)
      BY <1>1, <1>2, <1>3, TuplesAreKeys
    <3> QED
      BY <1>6, <2>1, <3>1 DEF rank
<1>7. CASE intent # "work_today" /\ sort = "score"
  <2>1. SortKey(row, intent, sort) = <<bare, score, row.age>> /\ KeyLength(intent, sort) = 3
    BY <1>5, <1>7 DEF KeyLength
  <2> QED
    <3>1. IsKey(<<bare, score, row.age>>, 3)
      BY <1>2, <1>4, TuplesAreKeys
    <3> QED
      BY <1>7, <2>1, <3>1
<1>8. CASE intent # "work_today" /\ sort = "recent"
  <2>1. SortKey(row, intent, sort) = <<row.age>> /\ KeyLength(intent, sort) = 1
    BY <1>5, <1>8 DEF KeyLength
  <2> QED
    <3>1. IsKey(<<row.age>>, 1)
      BY <1>2, TuplesAreKeys
    <3> QED
      BY <1>8, <2>1, <3>1
<1>9. CASE intent # "work_today" /\ sort # "score" /\ sort # "recent"
  <2>1. SortKey(row, intent, sort) = <<rank, row.age>> /\ KeyLength(intent, sort) = 2
    BY <1>5, <1>9 DEF KeyLength
  <2> QED
    <3>1. IsKey(<<rank, row.age>>, 2)
      BY <1>1, <1>2, TuplesAreKeys
    <3> QED
      BY <1>9, <2>1, <3>1
<1> QED
  BY <1>6, <1>7, <1>8, <1>9

(* Sorted rows are the rows, each once, in order.                          *)
LEMMA RankedIsSorted ==
  ASSUME NEW rows, IsFiniteSet(rows), \A row \in rows : Sortable(row), OfDifferentLeads(rows),
         NEW intent, NEW sort
  PROVE  LET s == Ranked(rows, intent, sort)
         IN  /\ s \in [1 .. Cardinality(rows) -> rows]
             /\ \A row \in rows : \E i \in 1 .. Cardinality(rows) : s[i] = row
             /\ \A i, j \in 1 .. Cardinality(rows) : i < j =>
                  GoesFirst(SortKey(s[i], intent, sort), SortKey(s[j], intent, sort))
<1> DEFINE Key(row) == SortKey(row, intent, sort)
           L == KeyLength(intent, sort)
           R == {p \in rows \X rows : GoesFirst(Key(p[1]), Key(p[2]))}
           IsSorting(s) == /\ s \in [1 .. Cardinality(rows) -> rows]
                           /\ \A i, j \in DOMAIN s : i < j => GoesFirst(Key(s[i]), Key(s[j]))
<1>1. L \in Nat /\ \A row \in rows : IsKey(Key(row), L) /\ L \in 1 .. L /\ Key(row)[L] = row.age
  <2>1. L \in Nat /\ L > 0
    BY DEF KeyLength
  <2> QED
    BY <2>1, KeysAreTyped
<1>2. PICK n \in Nat : n = Cardinality(rows)
  BY FS_CardinalityType
<1> HIDE DEF Key, L
<1>3. StrictOrder(R, rows)
  <2>1. \A x \in rows : <<x, x>> \notin R
    BY <1>1, NoneGoesBeforeItself
  <2>2. ASSUME NEW x \in rows, NEW y \in rows, x # y PROVE <<x, y>> \in R \/ <<y, x>> \in R
    <3>1. x.age # y.age
      BY <2>2 DEF OfDifferentLeads
    <3>2. L \in 1 .. L /\ Key(x)[L] # Key(y)[L] /\ IsKey(Key(x), L) /\ IsKey(Key(y), L)
      BY <1>1, <3>1
    <3>3. GoesFirst(Key(x), Key(y)) \/ GoesFirst(Key(y), Key(x))
      BY <1>1, <3>2, OneGoesFirst
    <3> QED
      BY <3>3
  <2>3. ASSUME NEW x \in rows, NEW y \in rows, NEW z \in rows, <<x, y>> \in R, <<y, z>> \in R
        PROVE  <<x, z>> \in R
    <3>1. GoesFirst(Key(x), Key(y)) /\ GoesFirst(Key(y), Key(z))
      BY <2>3
    <3>2. GoesFirst(Key(x), Key(z))
      BY <1>1, <3>1, GoingFirstIsTransitive
    <3> QED
      BY <3>2
  <2> HIDE DEF R
  <2> QED
    BY <2>1, <2>2, <2>3 DEF StrictOrder
<1>4. PICK s : s = [i \in 1 .. n |-> CHOOSE x \in rows : RankOf(R, rows, x) = i - 1]
  OBVIOUS
<1>5. \A i \in 1 .. n : s[i] \in rows /\ RankOf(R, rows, s[i]) = i - 1
  <2> TAKE i \in 1 .. n
  <2>1. i - 1 \in 0 .. Cardinality(rows) - 1
    BY <1>2
  <2> HIDE DEF R
  <2>2. \E x \in rows : RankOf(R, rows, x) = i - 1
    BY <1>3, <2>1, RanksAreTaken
  <2>3. s[i] = CHOOSE x \in rows : RankOf(R, rows, x) = i - 1
    BY <1>4
  <2> QED
    BY <2>2, <2>3
<1>6. ASSUME NEW i \in 1 .. n, NEW j \in 1 .. n, i < j PROVE GoesFirst(Key(s[i]), Key(s[j]))
  <2>1. s[i] \in rows /\ s[j] \in rows /\ s[i] # s[j]
    <3> HIDE DEF R
    <3> QED
      BY <1>5, <1>6
  <2>2. <<s[i], s[j]>> \in R \/ <<s[j], s[i]>> \in R
    <3> HIDE DEF R
    <3> QED
      BY <1>3, <2>1 DEF StrictOrder
  <2>3. ~(<<s[j], s[i]>> \in R)
    <3> HIDE DEF R
    <3>1. <<s[j], s[i]>> \in R => RankOf(R, rows, s[j]) < RankOf(R, rows, s[i])
      BY <1>3, <2>1, RanksAreOrdered
    <3> QED
      BY <1>5, <1>6, <3>1
  <2> QED
    BY <2>2, <2>3
<1>7. IsSorting(s)
  BY <1>2, <1>4, <1>5, <1>6
<1>8. PICK t : t = Ranked(rows, intent, sort) /\ IsSorting(t)
  <2>1. Ranked(rows, intent, sort) =
          CHOOSE q \in [1 .. Cardinality(rows) -> rows] :
            \A i, j \in DOMAIN q : i < j => GoesFirst(Key(q[i]), Key(q[j]))
    BY DEF Ranked, Key
  <2> QED
    BY <1>7, <2>1
<1>9. t \in [1 .. n -> rows] /\ DOMAIN t = 1 .. n
  BY <1>2, <1>8
<1>10. \A i, j \in 1 .. n : i < j => GoesFirst(Key(t[i]), Key(t[j]))
  BY <1>8, <1>9
<1>11. \A i, j \in 1 .. n : t[i] = t[j] => i = j
  <2>1. \A i, j \in 1 .. n : t[i] = t[j] => ~(i < j)
    BY <1>1, <1>9, <1>10, NoneGoesBeforeItself
  <2> QED
    BY <2>1
<1>12. t \in Injection(1 .. n, rows)
  BY <1>9, <1>11 DEF Injection, IsInjective
<1>13. IsFiniteSet(1 .. n) /\ Cardinality(1 .. n) = Cardinality(rows)
  <2>1. IsFiniteSet(1 .. n) /\ Cardinality(1 .. n) = IF 1 > n THEN 0 ELSE n - 1 + 1
    <3>1. n \in Int /\ 1 \in Int
      OBVIOUS
    <3> HIDE DEF R, IsSorting
    <3> QED
      BY <3>1, FS_Interval
  <2> QED
    BY <1>2, <2>1
<1>14. t \in Surjection(1 .. n, rows)
  BY <1>12, <1>13, FS_Injection
<1> QED
  BY <1>2, <1>8, <1>9, <1>10, <1>14 DEF Key, Surjection

(* A limit that a question asks for becomes one that an answer can keep.   *)
LEMMA LimitsAreClamped == ASSUME NEW k \in Int PROVE ClampLimit(k) \in Nat
BY DEF ClampLimit

-----------------------------------------------------------------------------
(* What is on file of a lead, and what viewers were shown of it.           *)
ReceiptSound(r) ==
  /\ r.version \in DOMAIN ProfileHistory
  /\ r.bounds = ComputeBounds(ProfileHistory[r.version], r.facts)
  /\ r.band \in DOMAIN Sureness
LeadSound(entry) ==
  \/ entry.receipt = NoReceipt /\ entry.status \in {"NEW", "DEAD_LETTER"}
  \/ /\ ReceiptSound(entry.receipt)
     /\ entry.status \in {"AUTO_ROUTED", "SYNCED", "AWAITING_HUMAN", "SHADOW_EVALUATED",
                          "MANUAL_REVIEW"}

(* Nothing takes a rejection back, so a page that has read one is right.   *)
SeenRejected(l, status) == status = "SYNCED" => dossier[l].status = "SYNCED"
ViewerSound ==
  /\ viewer.at = "page" => viewer.lead \in Prospects /\ SeenRejected(viewer.lead, viewer.status)
  /\ viewer.at = "question" => viewer.version \in DOMAIN ProfileHistory
  /\ viewer.at = "comparing" => \A l \in viewer.pool : l \in Prospects /\ Decided(l)

(* A list has the rows of its version; for the work of the day, those that *)
(* have work and were asked for, as many as fit, and the urgent first.     *)
WantedWork(row, only) == IsWork(row) /\ (only = {} \/ row.priority \in only)
ListSound(rows, version) ==
  /\ version \in DOMAIN ProfileHistory
  /\ \A i \in DOMAIN rows :
       rows[i].lead \in Prospects /\ rows[i] = PoolRow(rows[i].lead, version)
WorkSound(rows, version, only, limit) ==
  /\ \A i \in DOMAIN rows : IsWork(rows[i])
  /\ \A l \in Prospects : WantedWork(PoolRow(l, version), only) =>
       Len(rows) = limit \/ \E i \in DOMAIN rows : rows[i].lead = l
  /\ \A i, j \in DOMAIN rows : i < j =>
       PRIORITY_RANK[rows[i].priority] <= PRIORITY_RANK[rows[j].priority]

(* An answer is true of the state that it was read in.                     *)
IsTrue(answer) ==
  /\ answer.kind = "page" =>
       /\ answer.lead \in Prospects /\ SeenRejected(answer.lead, answer.status)
       /\ answer.row = Page(answer.lead, answer.status)
  /\ answer.kind = "improvement" =>
       /\ answer.lead \in Prospects /\ Decided(answer.lead)
       /\ answer.fields = ImproveLead(answer.lead)
  /\ answer.kind = "list" =>
       /\ ListSound(answer.rows, answer.version)
       /\ answer.intent = "work_today" =>
            WorkSound(answer.rows, answer.version, answer.only, answer.limit)
  /\ answer.kind = "comparison" /\ answer.by = "model" =>
       \A c \in answer.claims : c.hypothesis \/ \E l \in c.cites : l \in Prospects /\ Decided(l)

SurfacesInv ==
  /\ DOMAIN dossier = Prospects /\ \A l \in Prospects : LeadSound(dossier[l])
  /\ activeVersion \in DOMAIN ProfileHistory
  /\ ViewerSound /\ IsTrue(told)

(* A receipt that was written is not the mark of a lead without one.       *)
LEMMA ReceiptsAreReceipts == ASSUME NEW r, ReceiptSound(r) PROVE r # NoReceipt
BY VersionsAreSound DEF ReceiptSound, NoReceipt

(* Nothing is on file, and nobody asks.                                    *)
LEMMA SurfacesBegin == SurfacesInit => SurfacesInv
<1> SUFFICES ASSUME SurfacesInit PROVE SurfacesInv
  OBVIOUS
<1>1. DOMAIN dossier = Prospects /\ \A l \in Prospects : LeadSound(dossier[l])
  BY DEF SurfacesInit, LeadSound
<1>2. activeVersion \in DOMAIN ProfileHistory
  BY VersionsAreSound DEF SurfacesInit
<1>3. ViewerSound
  BY DEF SurfacesInit, ViewerSound, NobodyAsks
<1>4. IsTrue(told)
  BY DEF SurfacesInit, IsTrue, NothingTold
<1> QED
  BY <1>1, <1>2, <1>3, <1>4 DEF SurfacesInv

(* A lead moves while nothing that was told is looked at.                  *)
LEMMA LeadsMove ==
  ASSUME SurfacesInv, NEW l \in Prospects, NEW status, NEW receipt, Goes(l, status, receipt),
         dossier[l].status # "SYNCED", LeadSound([status |-> status, receipt |-> receipt]),
         Decided(l) => receipt # NoReceipt
  PROVE  SurfacesInv'
<1>1. PICK entry : entry = [status |-> status, receipt |-> receipt]
  OBVIOUS
<1>2. /\ dossier' = [dossier EXCEPT ![l] = entry] /\ told' = NothingTold
      /\ activeVersion' = activeVersion /\ viewer' = viewer
  BY <1>1 DEF Goes
<1>3. DOMAIN dossier = Prospects /\ \A k \in Prospects : LeadSound(dossier[k])
  BY DEF SurfacesInv
<1>4. DOMAIN dossier' = Prospects /\ dossier'[l] = entry /\ \A k \in Prospects : k # l => dossier'[k] = dossier[k]
  BY <1>2, <1>3
<1>5. \A k \in Prospects : LeadSound(dossier'[k])
  BY <1>1, <1>3, <1>4
<1>6. \A k \in Prospects : dossier[k].status = "SYNCED" => dossier'[k].status = "SYNCED"
  BY <1>4
<1>7. \A k \in Prospects : Decided(k) => Decided(k)'
  BY <1>1, <1>4 DEF Decided
<1>8. ViewerSound'
  BY <1>2, <1>6, <1>7 DEF SurfacesInv, ViewerSound, SeenRejected
<1>9. IsTrue(told)'
  BY <1>2 DEF IsTrue, NothingTold
<1>10. (\A k \in Prospects : LeadSound(dossier[k]))'
  BY <1>5
<1>11. activeVersion' \in DOMAIN ProfileHistory
  BY <1>2 DEF SurfacesInv
<1> QED
  BY <1>4, <1>8, <1>9, <1>10, <1>11 DEF SurfacesInv

(* The worker decides a lead, under the active version.                    *)
LEMMA DecidingKeeps ==
  ASSUME SurfacesInv, NEW l \in Prospects, DecideLead(l)
  PROVE  SurfacesInv'
<1>1. PICK facts \in Holdings[l], mode \in {"simulated", "live_shadow", "live_human_only"},
           sure \in Sureties :
       LET config   == ProfileHistory[activeVersion]
           decision == DecisionFor(config, ScoreFacts(config, facts))
           alone    == mode = "simulated" /\ sure.autonomous
       IN  Goes(l, IF mode = "live_shadow" THEN "SHADOW_EVALUATED"
                   ELSE StatusOf(IF alone THEN decision ELSE "escalate_human"),
                [version |-> activeVersion, facts |-> facts, decision |-> decision,
                 bounds |-> ComputeBounds(config, facts), band |-> sure.band])
  BY DEF DecideLead
<1>2. PICK decision : decision = DecisionFor(ProfileHistory[activeVersion],
                                             ScoreFacts(ProfileHistory[activeVersion], facts))
  OBVIOUS
<1>3. PICK status : status = IF mode = "live_shadow" THEN "SHADOW_EVALUATED"
                             ELSE StatusOf(IF mode = "simulated" /\ sure.autonomous
                                           THEN decision ELSE "escalate_human")
  OBVIOUS
<1>4. PICK receipt : receipt = [version |-> activeVersion, facts |-> facts, decision |-> decision,
                                bounds |-> ComputeBounds(ProfileHistory[activeVersion], facts),
                                band |-> sure.band]
  OBVIOUS
<1>5. Goes(l, status, receipt)
  BY <1>1, <1>2, <1>3, <1>4
<1>6. \A d : StatusOf(d) \in {"AUTO_ROUTED", "SYNCED", "AWAITING_HUMAN"}
  <2> TAKE d
  <2>1. CASE d = "auto_route"
    BY <2>1 DEF StatusOf
  <2>2. CASE d = "reject"
    BY <2>2 DEF StatusOf
  <2>3. CASE d # "auto_route" /\ d # "reject"
    BY <2>3 DEF StatusOf
  <2> QED
    BY <2>1, <2>2, <2>3
<1>7. status \in {"AUTO_ROUTED", "SYNCED", "AWAITING_HUMAN", "SHADOW_EVALUATED"}
  BY <1>3, <1>6
<1>8. sure.band \in DOMAIN Sureness
  BY SurfacesAssumption DEF Sureness
<1>9. ReceiptSound(receipt)
  <2>1. activeVersion \in DOMAIN ProfileHistory
    BY DEF SurfacesInv
  <2>2. receipt.version = activeVersion /\ receipt.facts = facts /\ receipt.band = sure.band
        /\ receipt.bounds = ComputeBounds(ProfileHistory[activeVersion], facts)
    BY <1>4
  <2> QED
    BY <1>8, <2>1, <2>2 DEF ReceiptSound
<1>10. LeadSound([status |-> status, receipt |-> receipt])
  BY <1>7, <1>9 DEF LeadSound
<1>11. receipt # NoReceipt
  BY <1>9, ReceiptsAreReceipts
<1>12. dossier[l].status # "SYNCED"
  BY DEF DecideLead
<1> QED
  BY <1>5, <1>10, <1>11, <1>12, LeadsMove

(* A lead breaks before it is decided, and a person answers a review.      *)
LEMMA OthersKeepLeads ==
  ASSUME SurfacesInv, NEW l \in Prospects, BreakLead(l) \/ RespondToReview(l)
  PROVE  SurfacesInv'
<1>1. LeadSound(dossier[l])
  BY DEF SurfacesInv
<1>2. CASE BreakLead(l)
  <2>1. dossier[l].status = "NEW" /\ Goes(l, "DEAD_LETTER", NoReceipt)
    BY <1>2 DEF BreakLead
  <2>2. ~Decided(l)
    BY <1>1, <2>1 DEF LeadSound, Decided
  <2>3. LeadSound([status |-> "DEAD_LETTER", receipt |-> NoReceipt])
    BY DEF LeadSound
  <2> QED
    BY <2>1, <2>2, <2>3, LeadsMove
<1>3. CASE RespondToReview(l)
  <2>1. dossier[l].status = "AWAITING_HUMAN"
    BY <1>3 DEF RespondToReview
  <2>2. PICK status \in {"AUTO_ROUTED", "SYNCED", "MANUAL_REVIEW"} :
          Goes(l, status, dossier[l].receipt)
    BY <1>3 DEF RespondToReview
  <2>3. ReceiptSound(dossier[l].receipt)
    BY <1>1, <2>1 DEF LeadSound
  <2>4. LeadSound([status |-> status, receipt |-> dossier[l].receipt])
    BY <2>2, <2>3 DEF LeadSound
  <2>5. dossier[l].receipt # NoReceipt
    BY <2>3, ReceiptsAreReceipts
  <2> QED
    BY <2>1, <2>2, <2>4, <2>5, LeadsMove
<1> QED
  BY <1>2, <1>3
-----------------------------------------------------------------------------
(* Viewers.                                                                *)

(* What was true stays true while leads and profiles rest.                 *)
LEMMA TruthRests ==
  ASSUME NEW answer, IsTrue(answer), UNCHANGED <<dossier, activeVersion>>
  PROVE  IsTrue(answer)'
<1>1. dossier' = dossier /\ activeVersion' = activeVersion
  OBVIOUS
<1>2. \A l : (Decided(l)' <=> Decided(l)) /\ (ImproveLead(l)' = ImproveLead(l))
  BY <1>1 DEF Decided, ImproveLead
<1>3. \A l, status : /\ Page(l, status)' = Page(l, status)
                     /\ (SeenRejected(l, status)' <=> SeenRejected(l, status))
  BY <1>1 DEF Page, SeenRejected
<1>4. \A l, version : PoolRow(l, version)' = PoolRow(l, version)
  BY <1>1 DEF PoolRow
<1>5. \A rows, version : ListSound(rows, version) => ListSound(rows, version)'
  BY <1>4 DEF ListSound
<1>6. \A rows, version, only, limit :
        WorkSound(rows, version, only, limit) => WorkSound(rows, version, only, limit)'
  BY <1>4 DEF WorkSound
<1>7. answer.kind = "page" =>
        (/\ answer.lead \in Prospects /\ SeenRejected(answer.lead, answer.status)
         /\ answer.row = Page(answer.lead, answer.status))'
  BY <1>3 DEF IsTrue
<1>8. answer.kind = "improvement" =>
        (/\ answer.lead \in Prospects /\ Decided(answer.lead)
         /\ answer.fields = ImproveLead(answer.lead))'
  BY <1>2 DEF IsTrue
<1>9. answer.kind = "list" =>
        (/\ ListSound(answer.rows, answer.version)
         /\ answer.intent = "work_today" =>
              WorkSound(answer.rows, answer.version, answer.only, answer.limit))'
  BY <1>5, <1>6 DEF IsTrue
<1>10. answer.kind = "comparison" /\ answer.by = "model" =>
         \A c \in answer.claims : c.hypothesis \/ \E l \in c.cites : l \in Prospects /\ Decided(l)'
  BY <1>2 DEF IsTrue
<1> QED
  BY <1>7, <1>8, <1>9, <1>10 DEF IsTrue

(* An answer that is true, or none, is given, and leads rest.              *)
LEMMA AnswersKeep ==
  ASSUME SurfacesInv, UNCHANGED <<dossier, activeVersion>>, ViewerSound', IsTrue(told')
  PROVE  SurfacesInv'
<1>1. (\A l \in Prospects : LeadSound(dossier[l]))'
  BY DEF SurfacesInv
<1>2. DOMAIN dossier' = Prospects /\ activeVersion' \in DOMAIN ProfileHistory
  BY DEF SurfacesInv
<1>3. PICK answer : answer = told'
  OBVIOUS
<1>4. IsTrue(answer)'
  BY <1>3, TruthRests
<1>5. IsTrue(told)'
  BY <1>3, <1>4 DEF IsTrue
<1> QED
  BY <1>1, <1>2, <1>5 DEF SurfacesInv
(* recommendations.py, case by case.                                       *)
LEMMA PrioritiesAre ==
  ASSUME NEW status, NEW receipt, NEW judge
  PROVE  LET p == DeriveCustomerPriority(status, receipt, judge)
         IN  /\ p \in DOMAIN PRIORITY_RANK
             /\ receipt = NoReceipt \/ status = "AWAITING_HUMAN" => p = "review"
             /\ p = "skip" => /\ receipt # NoReceipt /\ status = "SYNCED"
                              /\ Sufficiency(receipt, judge) # "insufficient_evidence"
             /\ receipt # NoReceipt /\ status \notin {"AWAITING_HUMAN", "SYNCED"} =>
                  p \in {"contact_first", "worth_pursuing"}
<1> DEFINE p == DeriveCustomerPriority(status, receipt, judge)
<1>0. DOMAIN PRIORITY_RANK = {"contact_first", "worth_pursuing", "review", "skip"}
  BY DEF PRIORITY_RANK
<1>1. CASE receipt = NoReceipt
  <2>1. p = "review"
    BY <1>1, Zenon DEF DeriveCustomerPriority
  <2> QED
    BY <1>0, <1>1, <2>1
<1>2. CASE receipt # NoReceipt /\ status = "AWAITING_HUMAN"
  <2>1. p = "review"
    BY <1>2 DEF DeriveCustomerPriority
  <2> QED
    BY <1>0, <1>2, <2>1
<1>3. CASE receipt # NoReceipt /\ status = "SYNCED"
  <2>1. p = IF Sufficiency(receipt, judge) = "insufficient_evidence" THEN "review" ELSE "skip"
    BY <1>3 DEF DeriveCustomerPriority
  <2> HIDE DEF p
  <2> QED
    BY <1>0, <1>3, <2>1 DEF p
<1>4. CASE receipt # NoReceipt /\ status # "AWAITING_HUMAN" /\ status # "SYNCED"
  <2>1. p = IF receipt.decision = "auto_route" /\ receipt.band = "high"
            THEN "contact_first" ELSE "worth_pursuing"
    BY <1>4 DEF DeriveCustomerPriority
  <2> HIDE DEF p
  <2> QED
    BY <1>0, <1>4, <2>1 DEF p
<1> QED
  BY <1>1, <1>2, <1>3, <1>4

(* The next action where somebody has to look, or nobody can.              *)
LEMMA ActionsAre ==
  ASSUME NEW status, NEW receipt, NEW priority
  PROVE  LET a == DeriveNextAction(status, receipt, priority)
         IN  /\ receipt = NoReceipt => a = "research_more"
             /\ receipt # NoReceipt /\ status = "AWAITING_HUMAN" => a = "human_review"
             /\ receipt # NoReceipt /\ status # "AWAITING_HUMAN" /\ priority = "review" =>
                  a = "research_more"
BY DEF DeriveNextAction

(* The fields of a row.                                                    *)
LEMMA RowsAre ==
  ASSUME NEW l, NEW version
  PROVE  LET row == PoolRow(l, version)
             receipt == dossier[l].receipt
             status == dossier[l].status
             p == DeriveCustomerPriority(status, receipt, version)
         IN  /\ row.lead = l /\ row.priority = p
             /\ row.action = DeriveNextAction(status, receipt, p)
             /\ row.bare <=> receipt = NoReceipt
             /\ row.score = IF receipt = NoReceipt THEN 0 ELSE receipt.bounds.current
             /\ row.band = IF receipt = NoReceipt THEN "none" ELSE receipt.band
             /\ row.age = CHOOSE i \in DOMAIN Clients : Clients[i] = l
BY DEF PoolRow, Recommendation

(* Rows can be sorted, and no two leads are of one age.                    *)
LEMMA RowsAreSortable ==
  ASSUME SurfacesInv, NEW version
  PROVE  /\ \A l \in Prospects : Sortable(PoolRow(l, version))
         /\ \A l, k \in Prospects : PoolRow(l, version).age = PoolRow(k, version).age => l = k
<1>1. \A l \in Prospects : LET age == PoolRow(l, version).age
                           IN  age \in DOMAIN Clients /\ Clients[age] = l
  BY ProspectsAreListed, RowsAre
<1>2. ASSUME NEW l \in Prospects PROVE Sortable(PoolRow(l, version))
  <2> DEFINE row == PoolRow(l, version)
             receipt == dossier[l].receipt
  <2>1. row.priority \in DOMAIN PRIORITY_RANK
    BY RowsAre, PrioritiesAre
  <2>2. row.age \in Int
    BY <1>1, ProspectsAreListed
  <2>3. receipt = NoReceipt \/ ReceiptSound(receipt)
    BY DEF SurfacesInv, LeadSound
  <2>4. CASE receipt = NoReceipt
    <3>1. row.bare /\ row.score = 0
      BY <2>4, RowsAre
    <3> QED
      BY <2>1, <2>2, <3>1 DEF Sortable
  <2>5. CASE receipt # NoReceipt /\ ReceiptSound(receipt)
    <3>1. row.score = receipt.bounds.current /\ row.band = receipt.band
      BY <2>5, RowsAre
    <3>2. receipt.band \in DOMAIN Sureness /\ receipt.version \in DOMAIN ProfileHistory
          /\ receipt.bounds = ComputeBounds(ProfileHistory[receipt.version], receipt.facts)
      BY <2>5 DEF ReceiptSound
    <3>3. PICK c : c = ProfileHistory[receipt.version]
      OBVIOUS
    <3>4. ConfigIsSound(c)
      BY <3>2, <3>3, VersionsAreSound
    <3>5. ComputeBounds(c, receipt.facts).current \in Nat
      BY <3>4, BoundsAreExact
    <3>6. row.score \in Int
      BY <3>1, <3>2, <3>3, <3>5
    <3> QED
      BY <2>1, <2>2, <3>1, <3>2, <3>6 DEF Sortable
  <2> QED
    BY <2>3, <2>4, <2>5
<1> QED
  BY <1>1, <1>2

(* What has work is neither undecided nor broken; what has none is one of  *)
(* these, or rejected.                                                     *)
LEMMA WorkIsWork ==
  ASSUME SurfacesInv, NEW l \in Prospects, NEW version
  PROVE  /\ IsWork(PoolRow(l, version)) => dossier[l].status \notin {"NEW", "DEAD_LETTER"}
         /\ ~IsWork(PoolRow(l, version)) => dossier[l].status \in {"NEW", "SYNCED", "DEAD_LETTER"}
<1> DEFINE row == PoolRow(l, version)
<1>1. PICK receipt, status : receipt = dossier[l].receipt /\ status = dossier[l].status
  OBVIOUS
<1>2. \/ receipt = NoReceipt /\ status \in {"NEW", "DEAD_LETTER"}
      \/ receipt # NoReceipt /\ status \in {"AUTO_ROUTED", "SYNCED", "AWAITING_HUMAN",
                                            "SHADOW_EVALUATED", "MANUAL_REVIEW"}
  BY <1>1, ReceiptsAreReceipts DEF SurfacesInv, LeadSound
<1>3. /\ row.priority = DeriveCustomerPriority(status, receipt, version)
      /\ row.action = DeriveNextAction(status, receipt, row.priority)
  BY <1>1, RowsAre
<1>4. PICK p, a : p = row.priority /\ a = row.action
  OBVIOUS
<1>5. IsWork(row) <=> CASE p = "skip" -> FALSE
                        [] p = "review" -> a \in {"human_review", "find_decision_maker"}
                        [] OTHER -> TRUE
  BY <1>4 DEF IsWork
<1>6. CASE receipt = NoReceipt /\ status \in {"NEW", "DEAD_LETTER"}
  <2>1. p = "review" /\ a = "research_more"
    BY <1>3, <1>4, <1>6, PrioritiesAre, ActionsAre
  <2>2. ~IsWork(row)
    BY <1>5, <2>1
  <2> QED
    BY <1>1, <1>6, <2>2
<1>7. CASE receipt # NoReceipt /\ status = "AWAITING_HUMAN"
  <2>1. p = "review" /\ a = "human_review"
    BY <1>3, <1>4, <1>7, PrioritiesAre, ActionsAre
  <2>2. IsWork(row)
    BY <1>5, <2>1
  <2> QED
    BY <1>1, <1>7, <2>2
<1>8. CASE receipt # NoReceipt /\ status = "SYNCED"
  BY <1>1, <1>8
<1>9. CASE receipt # NoReceipt /\ status \in {"AUTO_ROUTED", "SHADOW_EVALUATED", "MANUAL_REVIEW"}
  <2>1. p \in {"contact_first", "worth_pursuing"}
    BY <1>3, <1>4, <1>9, PrioritiesAre
  <2>2. IsWork(row)
    BY <1>5, <2>1
  <2> QED
    BY <1>1, <1>9, <2>2
<1> QED
  BY <1>2, <1>6, <1>7, <1>8, <1>9
(* The rows that a plan keeps, of a version.                               *)
PoolOf(version) == {PoolRow(l, version) : l \in Prospects}
KeptBy(plan, version) ==
  {row \in SelectCandidates(plan.intent, PoolOf(version), version) :
     plan.only = {} \/ row.priority \in plan.only}

(* There are finitely many, of different leads.                            *)
LEMMA KeptAreSortable ==
  ASSUME SurfacesInv, NEW plan, NEW version
  PROVE  LET selected == KeptBy(plan, version)
         IN  /\ IsFiniteSet(selected) /\ OfDifferentLeads(selected)
             /\ \A row \in selected : Sortable(row) /\ row.lead \in Prospects /\ row = PoolRow(row.lead, version)
<1>1. KeptBy(plan, version) \in SUBSET PoolOf(version)
  BY DEF KeptBy, SelectCandidates
<1>2. IsFiniteSet(PoolOf(version))
  <2> DEFINE f == [l \in Prospects |-> PoolRow(l, version)]
  <2>1. f \in Surjection(Prospects, PoolOf(version))
    BY DEF Surjection, PoolOf
  <2> HIDE DEF f
  <2> QED
    BY <2>1, ProspectsAreListed, FS_Surjection
<1>3. \A row \in PoolOf(version) : row.lead \in Prospects /\ row = PoolRow(row.lead, version)
  BY RowsAre DEF PoolOf
<1>4. IsFiniteSet(KeptBy(plan, version))
  BY <1>1, <1>2, FS_Subset
<1>5. \A row \in KeptBy(plan, version) : row.lead \in Prospects /\ row = PoolRow(row.lead, version)
  BY <1>1, <1>3
<1>6. \A row \in KeptBy(plan, version) : Sortable(row)
  BY <1>5, RowsAreSortable
<1>7. OfDifferentLeads(KeptBy(plan, version))
  <2> SUFFICES ASSUME NEW r \in KeptBy(plan, version), NEW q \in KeptBy(plan, version), r.age = q.age
               PROVE  r = q
    BY DEF OfDifferentLeads
  <2>1. PoolRow(r.lead, version).age = PoolRow(q.lead, version).age
    BY <1>5
  <2>2. r.lead = q.lead
    BY <1>5, <2>1, RowsAreSortable
  <2> QED
    BY <1>5, <2>2
<1> QED
  BY <1>4, <1>5, <1>6, <1>7

(* What a plan of the day keeps is the work that was asked for.            *)
LEMMA WorkIsKept ==
  ASSUME NEW plan, plan.intent = "work_today", NEW version
  PROVE  KeptBy(plan, version) = {row \in PoolOf(version) : WantedWork(row, plan.only)}
<1>1. SelectCandidates("work_today", PoolOf(version), version) = {row \in PoolOf(version) : IsWork(row)}
  BY DEF SelectCandidates
<1> QED
  BY <1>1 DEF KeptBy, WantedWork

(* Whose key goes first has no less urgent a priority.                     *)
LEMMA UrgentGoFirst ==
  ASSUME NEW r, NEW q, Sortable(r), Sortable(q), NEW sort,
         GoesFirst(SortKey(r, "work_today", sort), SortKey(q, "work_today", sort))
  PROVE  PRIORITY_RANK[r.priority] <= PRIORITY_RANK[q.priority]
<1>1. PICK a : a = SortKey(r, "work_today", sort)
  OBVIOUS
<1>2. PICK b : b = SortKey(q, "work_today", sort)
  OBVIOUS
<1>3. PICK n : n = KeyLength("work_today", sort)
  OBVIOUS
<1>4. /\ n \in Nat /\ n > 0 /\ IsKey(a, n) /\ IsKey(b, n)
      /\ a[1] = PRIORITY_RANK[r.priority] /\ b[1] = PRIORITY_RANK[q.priority]
  BY <1>1, <1>2, <1>3, KeysAreTyped
<1>5. PICK i \in DOMAIN a : a[i] < b[i] /\ \A j \in 1 .. (i - 1) : a[j] = b[j]
  BY <1>1, <1>2 DEF GoesFirst
<1>6. i \in 1 .. n /\ a[1] \in Int /\ b[1] \in Int
  BY <1>4, <1>5 DEF IsKey
<1>7. a[1] <= b[1]
  <2>1. CASE i = 1
    BY <1>5, <1>6, <2>1
  <2>2. CASE i # 1
    <3>1. 1 \in 1 .. (i - 1)
      BY <1>6, <2>2
    <3>2. a[1] = b[1]
      BY <1>5, <3>1
    <3> QED
      BY <1>6, <3>2
  <2> QED
    BY <2>1, <2>2
<1> QED
  BY <1>4, <1>7

(* An answer has rows of its version, and, of the day's work, the urgent   *)
(* first and as much as was asked for.                                     *)
LEMMA ListsAreSound ==
  ASSUME SurfacesInv, NEW plan, plan.limit \in Int, NEW version \in DOMAIN ProfileHistory
  PROVE  LET rows == ListAnswer(plan, version)
         IN  /\ ListSound(rows, version)
             /\ plan.intent = "work_today" =>
                  WorkSound(rows, version, plan.only, ClampLimit(plan.limit))
<1> DEFINE intent == plan.intent
           sort == plan.sort
<1>1. PICK selected : selected = KeptBy(plan, version)
  OBVIOUS
<1>2. /\ IsFiniteSet(selected) /\ OfDifferentLeads(selected)
      /\ \A row \in selected : Sortable(row) /\ row.lead \in Prospects /\ row = PoolRow(row.lead, version)
  BY <1>1, KeptAreSortable
<1>3. PICK k : k = ClampLimit(plan.limit)
  OBVIOUS
<1>4. PICK s : s = Ranked(selected, intent, sort)
  OBVIOUS
<1>5. PICK n : n = Cardinality(selected)
  OBVIOUS
<1>6. /\ s \in [1 .. n -> selected]
      /\ \A row \in selected : \E i \in 1 .. n : s[i] = row
      /\ \A i, j \in 1 .. n : i < j =>
           GoesFirst(SortKey(s[i], intent, sort), SortKey(s[j], intent, sort))
  BY <1>2, <1>4, <1>5, RankedIsSorted
<1>7. n \in Nat /\ k \in Nat
  BY <1>2, <1>3, <1>5, LimitsAreClamped, FS_CardinalityType
<1>8. PICK rows : rows = FirstOf(s, k)
  OBVIOUS
<1>9. ListAnswer(plan, version) = rows
  BY <1>1, <1>3, <1>4, <1>8 DEF ListAnswer, KeptBy, PoolOf
<1>10. /\ Len(rows) \in Nat /\ Len(rows) <= n /\ DOMAIN rows = 1 .. Len(rows)
       /\ Len(rows) < n => Len(rows) = k
       /\ \A i \in DOMAIN rows : i \in 1 .. n /\ rows[i] = s[i]
  <2>1. Len(s) = n /\ s \in Seq(selected)
    BY <1>6, <1>7
  <2>2. PICK m : m = (IF k < n THEN k ELSE n)
    OBVIOUS
  <2>3. m \in Nat /\ m <= n /\ (m < n => m = k)
    BY <1>7, <2>2
  <2>4. rows = SubSeq(s, 1, m)
    BY <1>8, <2>1, <2>2 DEF FirstOf
  <2>5. Len(rows) = m /\ DOMAIN rows = 1 .. m /\ \A i \in 1 .. m : rows[i] = s[i]
    BY <2>1, <2>3, <2>4
  <2>6. \A i \in 1 .. m : i \in 1 .. n
    BY <1>7, <2>3
  <2> QED
    BY <2>3, <2>5, <2>6
<1>11. \A i \in DOMAIN rows : i \in 1 .. n /\ rows[i] = s[i] /\ rows[i] \in selected
  BY <1>6, <1>10
<1>12. ListSound(rows, version)
  BY <1>2, <1>11 DEF ListSound
<1>13. ASSUME plan.intent = "work_today" PROVE WorkSound(rows, version, plan.only, k)
  <2>1. selected = {row \in PoolOf(version) : WantedWork(row, plan.only)}
    BY <1>1, <1>13, WorkIsKept
  <2>2. \A i \in DOMAIN rows : IsWork(rows[i])
    BY <1>11, <2>1 DEF WantedWork
  <2>3. ASSUME NEW l \in Prospects, WantedWork(PoolRow(l, version), plan.only), Len(rows) # k
        PROVE  \E i \in DOMAIN rows : rows[i].lead = l
    <3>1. PoolRow(l, version) \in selected
      BY <2>1, <2>3 DEF PoolOf
    <3>2. Len(rows) = n
      <4>1. PICK m : m = Len(rows)
        OBVIOUS
      <4>2. m \in Nat /\ m <= n /\ (m < n => m = k) /\ m # k
        BY <1>10, <2>3, <4>1
      <4> QED
        BY <1>7, <4>1, <4>2
    <3>3. PICK i \in 1 .. n : s[i] = PoolRow(l, version)
      BY <1>6, <3>1
    <3>4. i \in DOMAIN rows /\ rows[i] = PoolRow(l, version)
      BY <1>10, <3>2, <3>3
    <3>5. rows[i].lead = l
      BY <3>4, RowsAre
    <3> QED
      BY <3>4, <3>5
  <2>4. ASSUME NEW i \in DOMAIN rows, NEW j \in DOMAIN rows, i < j
        PROVE  PRIORITY_RANK[rows[i].priority] <= PRIORITY_RANK[rows[j].priority]
    <3>1. i \in 1 .. n /\ j \in 1 .. n /\ rows[i] = s[i] /\ rows[j] = s[j]
          /\ Sortable(rows[i]) /\ Sortable(rows[j])
      BY <1>2, <1>11
    <3>2. GoesFirst(SortKey(s[i], intent, sort), SortKey(s[j], intent, sort))
      BY <1>6, <2>4, <3>1
    <3>3. GoesFirst(SortKey(rows[i], "work_today", sort), SortKey(rows[j], "work_today", sort))
      BY <1>13, <3>1, <3>2
    <3> QED
      BY <3>1, <3>3, UrgentGoFirst
  <2> QED
    BY <2>2, <2>3, <2>4 DEF WorkSound
<1> QED
  BY <1>3, <1>9, <1>12, <1>13

(* The page of a lead, and what would improve it.                          *)
LEMMA PagesKeep ==
  ASSUME SurfacesInv, NEW l \in Prospects, OpenLead(l) \/ ShowLead \/ TellImprovement
  PROVE  SurfacesInv'
<1>1. CASE OpenLead(l)
  <2>1. /\ viewer'.at = "page" /\ viewer'.lead = l /\ viewer'.status = dossier[l].status
        /\ UNCHANGED <<dossier, activeVersion, told>>
    BY <1>1 DEF OpenLead
  <2>2. ViewerSound'
    BY <2>1 DEF ViewerSound, SeenRejected
  <2>3. IsTrue(told')
    BY <2>1 DEF SurfacesInv
  <2> QED
    BY <2>1, <2>2, <2>3, AnswersKeep
<1>2. CASE ShowLead
  <2>1. PICK answer : answer = [kind |-> "page", lead |-> viewer.lead, status |-> viewer.status,
                                row |-> Page(viewer.lead, viewer.status)]
    OBVIOUS
  <2>2. told' = answer /\ viewer' = NobodyAsks /\ UNCHANGED <<dossier, activeVersion>>
        /\ viewer.at = "page"
    BY <1>2, <2>1 DEF ShowLead, Tell
  <2>3. viewer.lead \in Prospects /\ SeenRejected(viewer.lead, viewer.status)
    BY <2>2 DEF SurfacesInv, ViewerSound
  <2>4. IsTrue(answer)
    BY <2>1, <2>3 DEF IsTrue
  <2>5. ViewerSound'
    BY <2>2 DEF ViewerSound, NobodyAsks
  <2> QED
    BY <2>2, <2>4, <2>5, AnswersKeep
<1>3. CASE TellImprovement
  <2>1. PICK answer : answer = [kind |-> "improvement", lead |-> viewer.lead,
                                fields |-> ImproveLead(viewer.lead)]
    OBVIOUS
  <2>2. told' = answer /\ viewer' = NobodyAsks /\ UNCHANGED <<dossier, activeVersion>>
        /\ viewer.at = "page" /\ Decided(viewer.lead)
    BY <1>3, <2>1 DEF TellImprovement, Tell, Decided
  <2>3. viewer.lead \in Prospects
    BY <2>2 DEF SurfacesInv, ViewerSound
  <2>4. IsTrue(answer)
    BY <2>1, <2>2, <2>3 DEF IsTrue
  <2>5. ViewerSound'
    BY <2>2 DEF ViewerSound, NobodyAsks
  <2> QED
    BY <2>2, <2>4, <2>5, AnswersKeep
<1> QED
  BY <1>1, <1>2, <1>3

(* Lists: the dashboard's and the answers to questions.                    *)
LEMMA ListsKeep ==
  ASSUME SurfacesInv, ShowDashboard \/ \E plan \in Plans : AnswerList(plan)
  PROVE  SurfacesInv'
<1>1. \E plan, version :
        /\ plan.limit \in Int /\ version \in DOMAIN ProfileHistory
        /\ told' = [kind |-> "list", intent |-> plan.intent, limit |-> ClampLimit(plan.limit),
                    version |-> version, only |-> plan.only, rows |-> ListAnswer(plan, version)]
        /\ viewer' = NobodyAsks /\ UNCHANGED <<dossier, activeVersion>>
  <2>1. CASE ShowDashboard
    <3>1. PICK plan : plan = [intent |-> "work_today", only |-> {}, sort |-> "priority", limit |-> 5]
      OBVIOUS
    <3>2. plan.limit \in Int /\ ClampLimit(plan.limit) = plan.limit
      BY <3>1 DEF ClampLimit
    <3>3. told' = [kind |-> "list", intent |-> plan.intent, limit |-> plan.limit,
                   version |-> activeVersion, only |-> plan.only,
                   rows |-> ListAnswer(plan, activeVersion)]
          /\ viewer' = NobodyAsks /\ UNCHANGED <<dossier, activeVersion>>
      BY <2>1, <3>1 DEF ShowDashboard, Tell
    <3>4. activeVersion \in DOMAIN ProfileHistory
      BY DEF SurfacesInv
    <3> QED
      BY <3>2, <3>3, <3>4
  <2>2. ASSUME NEW plan \in Plans, AnswerList(plan)
        PROVE  /\ plan.limit \in Int /\ viewer.version \in DOMAIN ProfileHistory
               /\ told' = [kind |-> "list", intent |-> plan.intent, limit |-> ClampLimit(plan.limit),
                           version |-> viewer.version, only |-> plan.only,
                           rows |-> ListAnswer(plan, viewer.version)]
               /\ viewer' = NobodyAsks /\ UNCHANGED <<dossier, activeVersion>>
    <3>1. plan.limit \in Int
      BY SurfacesAssumption
    <3>2. viewer.version \in DOMAIN ProfileHistory
      BY <2>2 DEF AnswerList, SurfacesInv, ViewerSound
    <3> QED
      BY <2>2, <3>1, <3>2 DEF AnswerList, Tell
  <2> QED
    BY <2>1, <2>2
<1>2. PICK plan, version :
        /\ plan.limit \in Int /\ version \in DOMAIN ProfileHistory
        /\ told' = [kind |-> "list", intent |-> plan.intent, limit |-> ClampLimit(plan.limit),
                    version |-> version, only |-> plan.only, rows |-> ListAnswer(plan, version)]
        /\ viewer' = NobodyAsks /\ UNCHANGED <<dossier, activeVersion>>
  BY <1>1
<1>3. /\ ListSound(ListAnswer(plan, version), version)
      /\ plan.intent = "work_today" =>
           WorkSound(ListAnswer(plan, version), version, plan.only, ClampLimit(plan.limit))
  BY <1>2, ListsAreSound
<1>4. PICK answer : answer = told'
  OBVIOUS
<1>5. /\ answer.kind = "list" /\ answer.intent = plan.intent /\ answer.limit = ClampLimit(plan.limit)
      /\ answer.version = version /\ answer.only = plan.only
      /\ answer.rows = ListAnswer(plan, version)
  BY <1>2, <1>4
<1>6. IsTrue(answer)
  BY <1>3, <1>5 DEF IsTrue
<1>7. ViewerSound'
  BY <1>2 DEF ViewerSound, NobodyAsks
<1> QED
  BY <1>2, <1>4, <1>6, <1>7, AnswersKeep

(* Questions, comparisons and the end of an answer.                        *)
LEMMA QuestionsKeep ==
  ASSUME SurfacesInv,
         \/ AskList \/ DeclineList \/ StartCompare \/ ReadOn
         \/ \E claim \in Claims : TellComparison({claim})
  PROVE  SurfacesInv'
<1>1. CASE AskList
  <2>1. viewer' = [at |-> "question", version |-> activeVersion]
        /\ UNCHANGED <<dossier, activeVersion, told>>
    BY <1>1 DEF AskList
  <2>2. viewer'.at = "question" /\ viewer'.version = activeVersion
    BY <2>1
  <2>3. ViewerSound' /\ IsTrue(told')
    BY <2>1, <2>2 DEF ViewerSound, SurfacesInv
  <2> QED
    BY <2>1, <2>3, AnswersKeep
<1>2. CASE DeclineList
  <2>1. told' = [kind |-> "declined"] /\ viewer' = NobodyAsks /\ UNCHANGED <<dossier, activeVersion>>
    BY <1>2 DEF DeclineList, Tell
  <2>2. ViewerSound' /\ IsTrue(told')
    BY <2>1 DEF ViewerSound, NobodyAsks, IsTrue
  <2> QED
    BY <2>1, <2>2, AnswersKeep
<1>3. CASE StartCompare
  <2>1. viewer' = [at |-> "comparing", pool |-> {l \in Prospects : dossier[l].receipt # NoReceipt}]
        /\ UNCHANGED <<dossier, activeVersion, told>>
    BY <1>3 DEF StartCompare
  <2>2. viewer'.at = "comparing" /\ viewer'.pool = {l \in Prospects : Decided(l)}
    BY <2>1 DEF Decided
  <2>3. \A l \in viewer'.pool : l \in Prospects /\ Decided(l)'
    BY <2>1, <2>2 DEF Decided
  <2>4. ViewerSound' /\ IsTrue(told')
    BY <2>1, <2>2, <2>3 DEF ViewerSound, SurfacesInv
  <2> QED
    BY <2>1, <2>4, AnswersKeep
<1>4. CASE ReadOn
  <2>1. told' = NothingTold /\ UNCHANGED <<dossier, activeVersion, viewer>>
    BY <1>4 DEF ReadOn
  <2>2. \A l : Decided(l)' <=> Decided(l)
    BY <2>1 DEF Decided
  <2>3. ViewerSound'
    BY <2>1, <2>2 DEF ViewerSound, SeenRejected, SurfacesInv
  <2>4. IsTrue(told')
    BY <2>1 DEF NothingTold, IsTrue
  <2> QED
    BY <2>1, <2>3, <2>4, AnswersKeep
<1>5. ASSUME NEW claim \in Claims, TellComparison({claim}) PROVE SurfacesInv'
  <2>1. PICK answer : answer = [kind |-> "comparison", claims |-> {claim},
                                by |-> IF Supported({claim}, viewer.pool) THEN "model" ELSE "template"]
    OBVIOUS
  <2>2. told' = answer /\ viewer' = NobodyAsks /\ UNCHANGED <<dossier, activeVersion>>
        /\ viewer.at = "comparing"
    BY <1>5, <2>1 DEF TellComparison, Tell
  <2>3. \A l \in viewer.pool : l \in Prospects /\ Decided(l)
    BY <2>2 DEF SurfacesInv, ViewerSound
  <2>4. Supported({claim}, viewer.pool) =>
          claim.hypothesis \/ \E l \in claim.cites : l \in Prospects /\ Decided(l)
    BY <2>3 DEF Supported
  <2>5. IsTrue(answer)
    BY <2>1, <2>4 DEF IsTrue
  <2>6. ViewerSound'
    BY <2>2 DEF ViewerSound, NobodyAsks
  <2> QED
    BY <2>2, <2>5, <2>6, AnswersKeep
<1> QED
  BY <1>1, <1>2, <1>3, <1>4, <1>5

(* Another version of the profile becomes the active one.                  *)
LEMMA ActivationKeeps == SurfacesInv /\ ActivateNext => SurfacesInv'
<1> SUFFICES ASSUME SurfacesInv, ActivateNext PROVE SurfacesInv'
  OBVIOUS
<1>1. /\ told = NothingTold /\ activeVersion < Len(ProfileHistory)
      /\ activeVersion' = activeVersion + 1 /\ UNCHANGED <<dossier, viewer, told>>
  BY DEF ActivateNext
<1>2. activeVersion' \in DOMAIN ProfileHistory
  BY <1>1, VersionsAreSound DEF SurfacesInv
<1>3. \A l : Decided(l)' <=> Decided(l)
  BY <1>1 DEF Decided
<1>4. ViewerSound'
  BY <1>1, <1>3 DEF ViewerSound, SeenRejected, SurfacesInv
<1>5. IsTrue(told)'
  BY <1>1 DEF NothingTold, IsTrue
<1>6. (DOMAIN dossier = Prospects /\ \A l \in Prospects : LeadSound(dossier[l]))'
  BY <1>1 DEF SurfacesInv
<1> QED
  BY <1>2, <1>4, <1>5, <1>6 DEF SurfacesInv

(* Nothing that happens makes a lead's file or an answer wrong.            *)
LEMMA SurfacesStay == SurfacesInv /\ (SurfacesNext \/ UNCHANGED surfaceVars) => SurfacesInv'
<1>1. ASSUME SurfacesInv, NEW l \in Prospects,
             DecideLead(l) \/ BreakLead(l) \/ RespondToReview(l) \/ OpenLead(l)
      PROVE  SurfacesInv'
  BY <1>1, DecidingKeeps, OthersKeepLeads, PagesKeep
<1>2. ASSUME SurfacesInv, ShowLead \/ TellImprovement PROVE SurfacesInv'
  <2>1. viewer.lead \in Prospects
    BY <1>2 DEF SurfacesInv, ViewerSound, ShowLead, TellImprovement
  <2> QED
    BY <1>2, <2>1, PagesKeep
<1>3. ASSUME SurfacesInv, UNCHANGED surfaceVars PROVE SurfacesInv'
  <2>1. UNCHANGED <<dossier, activeVersion, viewer, told>>
    BY <1>3 DEF surfaceVars
  <2>2. \A l : Decided(l)' <=> Decided(l)
    BY <2>1 DEF Decided
  <2>3. ViewerSound'
    BY <1>3, <2>1, <2>2 DEF ViewerSound, SeenRejected, SurfacesInv
  <2>4. IsTrue(told')
    BY <1>3, <2>1 DEF SurfacesInv
  <2> QED
    BY <1>3, <2>1, <2>3, <2>4, AnswersKeep
<1> QED
  BY <1>1, <1>2, <1>3, ActivationKeeps, ListsKeep, QuestionsKeep DEF SurfacesNext
-----------------------------------------------------------------------------
(* What the answers come to.                                               *)

(* A lead is advised to be skipped only if it is rejected and settled.     *)
LEMMA SkippedIsSettled ==
  ASSUME SurfacesInv, NEW l \in Prospects, NEW status,
         DeriveCustomerPriority(status, dossier[l].receipt, dossier[l].receipt.version) = "skip",
         SeenRejected(l, status)
  PROVE  /\ dossier[l].status = "SYNCED"
         /\ Cardinality(ReachableDecisions(DecidedUnder(l), dossier[l].receipt.facts)) = 1
<1>1. PICK receipt : receipt = dossier[l].receipt
  OBVIOUS
<1>2. /\ receipt # NoReceipt /\ status = "SYNCED"
      /\ Sufficiency(receipt, receipt.version) # "insufficient_evidence"
  BY <1>1, PrioritiesAre
<1>3. dossier[l].status = "SYNCED"
  BY <1>2 DEF SeenRejected
<1>4. ReceiptSound(receipt)
  BY <1>1, <1>2 DEF SurfacesInv, LeadSound
<1>5. PICK c : c = ProfileHistory[receipt.version]
  OBVIOUS
<1>6. /\ ConfigIsSound(c) /\ receipt.version # 0
      /\ receipt.bounds = ComputeBounds(c, receipt.facts)
  BY <1>4, <1>5, VersionsAreSound DEF ReceiptSound
<1>7. SettledDecision(c, receipt.bounds) # "open"
  BY <1>2, <1>5, <1>6 DEF Sufficiency
<1>8. ReachableDecisions(c, receipt.facts) = {SettledDecision(c, receipt.bounds)}
  BY <1>6, <1>7, SettledIsRight
<1>9. Cardinality(ReachableDecisions(c, receipt.facts)) = 1
  BY <1>8, FS_Singleton
<1>10. DecidedUnder(l) = c
  BY <1>1, <1>5 DEF DecidedUnder
<1> QED
  BY <1>1, <1>3, <1>9, <1>10

(* So a skip on a page, in a batch or in an answer is.                     *)
LEMMA SkipsAreSettled == SurfacesInv => SkipIsSettled
<1> SUFFICES ASSUME SurfacesInv, NEW l \in Prospects,
                    \/ BatchRow(l).priority = "skip"
                    \/ told.kind = "page" /\ told.lead = l /\ told.row.priority = "skip"
                    \/ /\ told.kind = "list" /\ Decided(l)
                       /\ told.version = dossier[l].receipt.version
                       /\ \E i \in DOMAIN told.rows :
                            told.rows[i].lead = l /\ told.rows[i].priority = "skip"
             PROVE  /\ dossier[l].status = "SYNCED"
                    /\ Cardinality(ReachableDecisions(DecidedUnder(l),
                                                      dossier[l].receipt.facts)) = 1
  BY DEF SkipIsSettled
<1> DEFINE Advice(status) ==
             DeriveCustomerPriority(status, dossier[l].receipt, dossier[l].receipt.version)
<1>1. ASSUME NEW status, Advice(status) = "skip", SeenRejected(l, status)
      PROVE  /\ dossier[l].status = "SYNCED"
             /\ Cardinality(ReachableDecisions(DecidedUnder(l), dossier[l].receipt.facts)) = 1
  BY <1>1, SkippedIsSettled
<1>2. SeenRejected(l, dossier[l].status)
  BY DEF SeenRejected
<1>3. CASE BatchRow(l).priority = "skip"
  <2>1. Advice(dossier[l].status) = "skip"
    BY <1>3 DEF BatchRow, Recommendation
  <2> QED
    BY <1>1, <1>2, <2>1
<1>4. CASE told.kind = "page" /\ told.lead = l /\ told.row.priority = "skip"
  <2>1. told.row = Page(l, told.status) /\ SeenRejected(l, told.status)
    BY <1>4 DEF SurfacesInv, IsTrue
  <2>2. Advice(told.status) = "skip"
    BY <1>4, <2>1 DEF Page, Recommendation
  <2> QED
    BY <1>1, <2>1, <2>2
<1>5. CASE /\ told.kind = "list" /\ Decided(l) /\ told.version = dossier[l].receipt.version
           /\ \E i \in DOMAIN told.rows :
                told.rows[i].lead = l /\ told.rows[i].priority = "skip"
  <2>1. ListSound(told.rows, told.version)
    BY <1>5 DEF SurfacesInv, IsTrue
  <2>2. PoolRow(l, dossier[l].receipt.version).priority = "skip"
    BY <1>5, <2>1 DEF ListSound
  <2>3. Advice(dossier[l].status) = "skip"
    BY <2>2, RowsAre
  <2> QED
    BY <1>1, <1>2, <2>3
<1> QED
  BY <1>3, <1>4, <1>5

(* The page of a lead that did not move is the row of its batch, and a row *)
(* of its own version is too.                                              *)
LEMMA SurfacesDoAgree == SurfacesInv => SurfacesAgree
<1> SUFFICES ASSUME SurfacesInv PROVE SurfacesAgree
  OBVIOUS
<1>1. told.kind = "page" /\ told.status = dossier[told.lead].status => told.row = BatchRow(told.lead)
  BY DEF SurfacesInv, IsTrue, Page, BatchRow
<1>2. ASSUME NEW l \in Prospects, dossier[l].receipt.version = activeVersion
      PROVE  LET row == PoolRow(l, activeVersion)
             IN  [priority |-> row.priority, action |-> row.action] = BatchRow(l)
  BY <1>2, RowsAre DEF BatchRow, Recommendation
<1> QED
  BY <1>1, <1>2 DEF SurfacesAgree

(* The work of the day leaves out only what has none, was not asked for or *)
(* did not fit.                                                            *)
LEMMA WorkDoesWait == SurfacesInv => WorkIsWhatWaits
<1> SUFFICES ASSUME SurfacesInv, told.kind = "list", told.intent = "work_today"
             PROVE  LET named == {told.rows[i].lead : i \in DOMAIN told.rows}
                    IN  /\ \A l \in Prospects \ named :
                             \/ Len(told.rows) = told.limit
                             \/ told.only # {} /\ PoolRow(l, told.version).priority \notin told.only
                             \/ dossier[l].status \in {"NEW", "SYNCED", "DEAD_LETTER"}
                        /\ \A l \in named : dossier[l].status \notin {"NEW", "DEAD_LETTER"}
                        /\ \A i, j \in DOMAIN told.rows : i < j =>
                             PRIORITY_RANK[told.rows[i].priority]
                               <= PRIORITY_RANK[told.rows[j].priority]
  BY DEF WorkIsWhatWaits
<1> DEFINE named == {told.rows[i].lead : i \in DOMAIN told.rows}
<1>1. /\ ListSound(told.rows, told.version)
      /\ WorkSound(told.rows, told.version, told.only, told.limit)
  BY DEF SurfacesInv, IsTrue
<1>2. ASSUME NEW l \in Prospects \ named, Len(told.rows) # told.limit,
             dossier[l].status \notin {"NEW", "SYNCED", "DEAD_LETTER"}
      PROVE  told.only # {} /\ PoolRow(l, told.version).priority \notin told.only
  <2>1. ~\E i \in DOMAIN told.rows : told.rows[i].lead = l
    OBVIOUS
  <2>2. ~WantedWork(PoolRow(l, told.version), told.only)
    BY <1>1, <1>2, <2>1 DEF WorkSound
  <2>3. IsWork(PoolRow(l, told.version))
    BY <1>2, WorkIsWork
  <2> QED
    BY <2>2, <2>3 DEF WantedWork
<1>3. ASSUME NEW l \in named PROVE dossier[l].status \notin {"NEW", "DEAD_LETTER"}
  <2>1. PICK i \in DOMAIN told.rows : told.rows[i].lead = l
    OBVIOUS
  <2>2. l \in Prospects /\ told.rows[i] = PoolRow(l, told.version) /\ IsWork(told.rows[i])
    BY <1>1, <2>1 DEF ListSound, WorkSound
  <2>3. IsWork(PoolRow(l, told.version))
    BY <2>2
  <2> QED
    BY <2>2, <2>3, WorkIsWork
<1>4. \A i, j \in DOMAIN told.rows : i < j =>
        PRIORITY_RANK[told.rows[i].priority] <= PRIORITY_RANK[told.rows[j].priority]
  BY <1>1 DEF WorkSound
<1> QED
  BY <1>2, <1>3, <1>4

(* A comparison in the model's words cites evidence of its leads.          *)
LEMMA ComparisonsAreGrounded == SurfacesInv => ComparisonIsGrounded
BY DEF SurfacesInv, IsTrue, ComparisonIsGrounded

(* One fact more adds its points to the score.                             *)
LEMMA OneFactMore ==
  ASSUME NEW c, ConfigIsSound(c), NEW facts, ~IsDisqualified(c, facts),
         NEW f \in ADDITIVE_FIELDS, f \notin DOMAIN facts, NEW v,
         NEW more, DOMAIN more = DOMAIN facts \cup {f}, more[f] = v,
         \A g \in DOMAIN facts : more[g] = facts[g]
  PROVE  ScoreFacts(c, more) = ScoreFacts(c, facts) + FieldPoints(c, f, v)
<1> DEFINE D == DOMAIN facts \cap ADDITIVE_FIELDS
           E == DOMAIN more \cap ADDITIVE_FIELDS
           p == [g \in D |-> FieldPoints(c, g, facts[g])]
           q == [g \in E |-> FieldPoints(c, g, more[g])]
<1>1. E = D \cup {f} /\ f \notin D
  OBVIOUS
<1>2. IsFiniteSet(D) /\ IsFiniteSet(E)
  BY AdditiveFields, FS_Subset
<1>3. \A g \in D : q[g] = p[g]
  BY <1>1
<1>4. q[f] = FieldPoints(c, f, v)
  BY <1>1
<1>5. \A g \in E : q[g] \in Int
  <2> TAKE g \in E
  <2>1. q[g] = FieldPoints(c, g, more[g]) /\ g \in ADDITIVE_FIELDS
    OBVIOUS
  <2>2. FieldPoints(c, g, more[g]) \in {0} \cup Range(c.points[g])
    BY <2>1, FieldCeilings
  <2>3. Range(c.points[g]) \subseteq 0 .. 100
    BY <2>1 DEF ConfigIsSound
  <2> QED
    BY <2>1, <2>2, <2>3
<1>6. ~IsDisqualified(c, more)
  <2>1. f # DISQUALIFIER_FIELD
    BY AdditiveFields
  <2> QED
    BY <2>1 DEF IsDisqualified
<1>7. ScoreFacts(c, facts) = SumFunctionOnSet(p, D) /\ ScoreFacts(c, more) = SumFunctionOnSet(q, E)
  <2>1. DOMAIN p = D /\ DOMAIN q = E
    OBVIOUS
  <2> QED
    BY <1>6, <2>1 DEF ScoreFacts, SumFunction
<1>8. E \ {f} = D /\ f \in E
  BY <1>1
<1> HIDE DEF D, E, p, q
<1>9. SumFunctionOnSet(q, E) = q[f] + SumFunctionOnSet(q, D)
  BY <1>2, <1>5, <1>8, SumOneOut
<1>10. SumFunctionOnSet(q, D) = SumFunctionOnSet(p, D)
  BY <1>2, <1>3, SumSameTerms
<1>11. SumFunctionOnSet(q, D) \in Int /\ q[f] \in Int
  <2>1. \A g \in D : q[g] \in Int
    BY <1>1, <1>5
  <2> QED
    BY <1>2, <1>5, <1>8, <2>1, SumType
<1> QED
  BY <1>4, <1>7, <1>9, <1>10, <1>11
(* A value of a field that is said to matter changes the decision.         *)
LEMMA MaterialChanges ==
  ASSUME NEW version \in DOMAIN ProfileHistory, NEW receipt,
         receipt.bounds = ComputeBounds(ProfileHistory[version], receipt.facts),
         NEW f \in MaterialTo(ProfileHistory[version], receipt, CeilingsOf(version))
  PROVE  LET config == ProfileHistory[version]
             facts == receipt.facts
         IN  \E v \in DOMAIN config.points[f] :
               DecisionFor(config, ScoreFacts(config, Learned(facts, f, v)))
                 # DecisionFor(config, ScoreFacts(config, facts))
<1>1. PICK c : c = ProfileHistory[version]
  OBVIOUS
<1>2. PICK facts : facts = receipt.facts
  OBVIOUS
<1>3. PICK bounds : bounds = receipt.bounds
  OBVIOUS
<1>4. ConfigIsSound(c) /\ bounds = ComputeBounds(c, facts)
  BY <1>1, <1>2, <1>3, VersionsAreSound
<1>5. PICK s : s = bounds.current
  OBVIOUS
<1>6. PICK top : top = MaxFieldPoints(c, f)
  OBVIOUS
<1>7. /\ SettledDecision(c, bounds) = "open"
      /\ f \in ResearchTargets \cap Missing(receipt)
      /\ \/ s < c.reject /\ c.reject <= s + CeilingsOf(version)[f]
         \/ s < c.qualify /\ c.qualify <= s + CeilingsOf(version)[f]
  BY <1>1, <1>3, <1>5, Zenon DEF MaterialTo
<1>8. f \in ADDITIVE_FIELDS /\ f \notin DOMAIN facts /\ f \in ResearchTargets
  BY <1>2, <1>7, AdditiveFields DEF ResearchTargets, Missing, SCORED_FIELDS
<1>9. CeilingsOf(version)[f] = top
  BY <1>1, <1>6, <1>8 DEF CeilingsOf
<1>10. s \in Nat /\ s = ScoreFacts(c, facts)
  BY <1>4, <1>5, BoundsAreExact
<1>11. top \in Nat /\ top \in {0} \cup Range(c.points[f])
  BY <1>4, <1>6, <1>8, FieldCeilings
<1>12. c.reject \in Nat /\ c.qualify \in Nat /\ c.reject < c.qualify
  BY <1>4 DEF ConfigIsSound
<1>13. top # 0
  BY <1>7, <1>9, <1>10, <1>12
<1>14. PICK v \in DOMAIN c.points[f] : c.points[f][v] = top
  BY <1>11, <1>13 DEF Range
<1>15. ~IsDisqualified(c, facts)
  <2> SUFFICES ASSUME IsDisqualified(c, facts) PROVE FALSE
    OBVIOUS
  <2>1. bounds.lower = 0 /\ bounds.upper = 0
    BY <1>4 DEF ComputeBounds
  <2>2. SettledDecision(c, bounds) # "open"
    BY <1>12, <2>1 DEF SettledDecision
  <2> QED
    BY <1>7, <2>2
<1>16. PICK more : more = Learned(facts, f, v)
  OBVIOUS
<1>17. /\ DOMAIN more = DOMAIN facts \cup {f} /\ more[f] = v
       /\ \A g \in DOMAIN facts : more[g] = facts[g]
  BY <1>8, <1>16 DEF Learned
<1>18. FieldPoints(c, f, v) = top
  BY <1>14 DEF FieldPoints
<1>19. ScoreFacts(c, more) = s + top
  BY <1>4, <1>8, <1>10, <1>15, <1>17, <1>18, OneFactMore
<1>20. \/ s < c.reject /\ c.reject <= s + top
       \/ s < c.qualify /\ c.qualify <= s + top
  BY <1>7, <1>9
<1>21. DecisionFor(c, s + top) # DecisionFor(c, s)
  BY <1>10, <1>11, <1>12, <1>20 DEF DecisionFor
<1>22. DecisionFor(c, ScoreFacts(c, Learned(facts, f, v))) # DecisionFor(c, ScoreFacts(c, facts))
  BY <1>10, <1>16, <1>19, <1>21
<1> QED
  BY <1>1, <1>2, <1>14, <1>22

(* What is said to improve a lead does, under the profile it was decided   *)
(* under.                                                                  *)
LEMMA ImprovementsAreReal == SurfacesInv => ImprovementIsReal
<1> SUFFICES ASSUME SurfacesInv, told.kind = "improvement",
                    dossier[told.lead].receipt.version = activeVersion,
                    NEW f \in told.fields
             PROVE  LET facts == dossier[told.lead].receipt.facts
                        config == DecidedUnder(told.lead)
                    IN  \E v \in DOMAIN config.points[f] :
                          DecisionFor(config, ScoreFacts(config, Learned(facts, f, v)))
                            # DecisionFor(config, ScoreFacts(config, facts))
  BY DEF ImprovementIsReal
<1>1. PICK receipt : receipt = dossier[told.lead].receipt
  OBVIOUS
<1>2. told.lead \in Prospects /\ receipt # NoReceipt /\ told.fields = ImproveLead(told.lead)
  BY <1>1 DEF SurfacesInv, IsTrue, Decided
<1>3. ReceiptSound(receipt)
  BY <1>1, <1>2 DEF SurfacesInv, LeadSound
<1>4. f \in MaterialTo(ProfileHistory[activeVersion], receipt, CeilingsOf(activeVersion))
  BY <1>1, <1>2 DEF ImproveLead
<1>5. /\ activeVersion \in DOMAIN ProfileHistory
      /\ receipt.bounds = ComputeBounds(ProfileHistory[activeVersion], receipt.facts)
  BY <1>1, <1>3 DEF ReceiptSound
<1>6. DecidedUnder(told.lead) = ProfileHistory[activeVersion]
  BY DEF DecidedUnder
<1> QED
  BY <1>1, <1>4, <1>5, <1>6, MaterialChanges

(* What pages, batches and answers tell is what the receipts say.          *)
LEMMA ToldStaysTrue == SurfacesInv => ToldIsTrue
BY SkipsAreSettled, SurfacesDoAgree, WorkDoesWait, ImprovementsAreReal, ComparisonsAreGrounded
   DEF ToldIsTrue

=============================================================================
