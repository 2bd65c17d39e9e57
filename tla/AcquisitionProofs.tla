-------------------------- MODULE AcquisitionProofs --------------------------
(***************************************************************************)
(* What the scores, the simulated acquisition and the benchmark promise,   *)
(* for any number of leads, walkers, corpora and observations.  Scores are *)
(* bounded exactly by what is still missing, so that a settled verdict is  *)
(* the verdict on the full picture (Scoring); the receipts replay, and the *)
(* ledger never invents a call (SimulatedAcquisition); the cap holds, the  *)
(* cache means paid once, a stop is justified by the picture it stopped    *)
(* at, and the confidence threshold and the tuned gate are the best of     *)
(* those tried (Policies).  Each machine has its invariant;                *)
(* IntelligenceProofs composes them.                                       *)
(***************************************************************************)
EXTENDS Policies, SumProofs, SequenceTheorems

(* A set of naturals that is bounded and not empty has a greatest element. *)
LEMMA GreatestUpTo ==
  ASSUME NEW b \in Nat, NEW S \in SUBSET (0 .. b), S # {}
  PROVE  Max(S) \in S /\ \A x \in S : x <= Max(S)
<1> DEFINE T == {n \in Nat : \E x \in S : n = b - x}
<1>1. T \in SUBSET Nat /\ T # {}
  <2>1. PICK x \in S : TRUE
    OBVIOUS
  <2>2. b - x \in Nat
    BY <2>1
  <2>3. b - x \in T
    BY <2>1, <2>2
  <2> QED
    BY <2>3
<1>2. PICK i \in T : \A j \in T : i <= j
  <2> HIDE DEF T
  <2> QED
    BY <1>1, LeastOf
<1>3. PICK m \in S : i = b - m
  OBVIOUS
<1>4. ASSUME NEW x \in S PROVE x <= m
  <2>1. b - x \in T
    OBVIOUS
  <2>2. i <= b - x
    BY <1>2, <2>1
  <2> QED
    BY <1>3, <2>2
<1>5. \A x \in S : m >= x
  BY <1>4
<1> QED
  <2>1. \E x \in S : \A y \in S : x >= y
    BY <1>5
  <2>2. Max(S) \in S /\ \A y \in S : Max(S) >= y
    BY <2>1 DEF Max
  <2> QED
    BY <2>2

(* The greater of two numbers is what the engine's max returns.            *)
LEMMA GreaterOfTwo ==
  ASSUME NEW a \in Int, NEW b \in Int
  PROVE  Max({a, b}) \in {a, b} /\ a <= Max({a, b}) /\ b <= Max({a, b})
<1>1. \E x \in {a, b} : \A y \in {a, b} : x >= y
  OBVIOUS
<1>2. Max({a, b}) \in {a, b} /\ \A y \in {a, b} : Max({a, b}) >= y
  BY <1>1 DEF Max
<1> QED
  BY <1>2

(* The smaller of two numbers is what the engine's min returns.            *)
LEMMA SmallerOfTwo ==
  ASSUME NEW a \in Int, NEW b \in Int
  PROVE  Min({a, b}) \in {a, b} /\ Min({a, b}) <= a /\ Min({a, b}) <= b
<1>1. \E x \in {a, b} : \A y \in {a, b} : x <= y
  OBVIOUS
<1>2. Min({a, b}) \in {a, b} /\ \A y \in {a, b} : Min({a, b}) <= y
  BY <1>1 DEF Min
<1> QED
  BY <1>2

(* A sum of naturals is a natural.                                         *)
LEMMA SumOfNaturals ==
  ASSUME NEW S, IsFiniteSet(S), NEW f, \A i \in S : f[i] \in Nat
  PROVE  SumFunctionOnSet(f, S) \in Nat
<1>1. PICK z : z = [i \in S |-> 0]
  OBVIOUS
<1>2. \A i \in S : z[i] = 0 /\ z[i] \in Int /\ f[i] \in Int /\ z[i] <= f[i]
  BY <1>1
<1>3. SumFunctionOnSet(z, S) <= SumFunctionOnSet(f, S)
  BY <1>2, SumMonotone
<1>4. SumFunctionOnSet(z, S) = 0
  BY <1>2, SumOfZeros
<1>5. SumFunctionOnSet(f, S) \in Int
  BY <1>2, SumType
<1> QED
  BY <1>3, <1>4, <1>5

(* A set of two is finite.                                                 *)
LEMMA PairsAreFinite == ASSUME NEW a, NEW b PROVE IsFiniteSet({a, b})
<1>1. IsFiniteSet({}) /\ {a} = {} \cup {a} /\ {a, b} = {a} \cup {b}
  BY FS_EmptySet
<1>2. IsFiniteSet({a})
  BY <1>1, FS_AddElement
<1> QED
  BY <1>1, <1>2, FS_AddElement

(* The fields that add points, one by one; there are finitely many.        *)
LEMMA AdditiveFields ==
  /\ ADDITIVE_FIELDS = {"employee_count", "industry", "title_seniority", "title_function",
                        "buying_intent", "recent_trigger_event"}
  /\ IsFiniteSet(ADDITIVE_FIELDS) /\ IsFiniteSet(SCORED_FIELDS)
  /\ DISQUALIFIER_FIELD \notin ADDITIVE_FIELDS
<1>1. ADDITIVE_FIELDS = {"employee_count", "industry", "title_seniority", "title_function",
                         "buying_intent", "recent_trigger_event"}
  BY DEF ADDITIVE_FIELDS, REFERENCE_CONFIG
<1>2. IsFiniteSet(ADDITIVE_FIELDS)
  <2> DEFINE A == {"employee_count", "industry"}
             B == {"title_seniority", "title_function"}
             C == {"buying_intent", "recent_trigger_event"}
  <2>1. IsFiniteSet(A) /\ IsFiniteSet(B) /\ IsFiniteSet(C)
    BY PairsAreFinite
  <2>2. ADDITIVE_FIELDS = (A \cup B) \cup C
    BY <1>1
  <2> HIDE DEF A, B, C
  <2> QED
    BY <2>1, <2>2, FS_Union
<1>3. IsFiniteSet(SCORED_FIELDS)
  BY <1>2, FS_AddElement DEF SCORED_FIELDS
<1>4. DISQUALIFIER_FIELD \notin ADDITIVE_FIELDS
  BY <1>1 DEF DISQUALIFIER_FIELD
<1> QED
  BY <1>1, <1>2, <1>3, <1>4

(* What values of a field can add: points from its table, at most its      *)
(* ceiling.                                                                *)
LEMMA FieldCeilings ==
  ASSUME NEW c, ConfigIsSound(c), NEW f \in ADDITIVE_FIELDS
  PROVE  /\ MaxFieldPoints(c, f) \in 0 .. 100
         /\ MaxFieldPoints(c, f) \in {0} \cup Range(c.points[f])
         /\ \A p \in {0} \cup Range(c.points[f]) : p \in 0 .. MaxFieldPoints(c, f)
         /\ \A v : FieldPoints(c, f, v) \in {0} \cup Range(c.points[f])
<1> DEFINE S == {0} \cup Range(c.points[f])
<1>1. S \in SUBSET (0 .. 100) /\ S # {}
  BY DEF ConfigIsSound
<1>2. Max(S) \in S /\ \A x \in S : x <= Max(S)
  <2> HIDE DEF S
  <2> QED
    BY <1>1, GreatestUpTo
<1>3. MaxFieldPoints(c, f) = Max(S)
  BY DEF MaxFieldPoints
<1>4. \A v : FieldPoints(c, f, v) \in S
  BY DEF FieldPoints, Range
<1> HIDE DEF S
<1>5. \A p \in S : p \in 0 .. MaxFieldPoints(c, f)
  BY <1>1, <1>2, <1>3
<1>6. MaxFieldPoints(c, f) \in 0 .. 100 /\ MaxFieldPoints(c, f) \in S
  BY <1>1, <1>2, <1>3
<1> QED
  BY <1>4, <1>5, <1>6 DEF S

(* The configuration of the repository passes its own validation.          *)
LEMMA ReferenceIsSound == ConfigIsSound(REFERENCE_CONFIG)
<1> DEFINE c == REFERENCE_CONFIG
<1>1. /\ {c.qualify, c.reject} \subseteq 0 .. 100 /\ c.reject < c.qualify
      /\ c.disqualifier \in BOOLEAN
      /\ DOMAIN c.points = ADDITIVE_FIELDS
  BY DEF REFERENCE_CONFIG, ADDITIVE_FIELDS
<1>2. Range(c.points["employee_count"]) \subseteq 0 .. 100
  BY DEF REFERENCE_CONFIG, Range
<1>3. Range(c.points["industry"]) \subseteq 0 .. 100
  BY DEF REFERENCE_CONFIG, Range
<1>4. Range(c.points["title_seniority"]) \subseteq 0 .. 100
  BY DEF REFERENCE_CONFIG, Range
<1>5. Range(c.points["title_function"]) \subseteq 0 .. 100
  BY DEF REFERENCE_CONFIG, Range
<1>6. Range(c.points["buying_intent"]) \subseteq 0 .. 100
  BY DEF REFERENCE_CONFIG, Range
<1>7. Range(c.points["recent_trigger_event"]) \subseteq 0 .. 100
  BY DEF REFERENCE_CONFIG, Range
<1> QED
  BY <1>1, <1>2, <1>3, <1>4, <1>5, <1>6, <1>7, AdditiveFields DEF ConfigIsSound

-----------------------------------------------------------------------------
(* What the fields that nobody supplied can add.                           *)
MissingFrom(facts) == ADDITIVE_FIELDS \ DOMAIN facts
(* The ceiling of each field of S.                                         *)
TopPoints(c, S) == [f \in S |-> MaxFieldPoints(c, f)]

(* The score of any facts is a natural.                                    *)
LEMMA ScoresAreNatural ==
  ASSUME NEW c, ConfigIsSound(c), NEW facts
  PROVE  ScoreFacts(c, facts) \in Nat
<1> DEFINE D == DOMAIN facts \cap ADDITIVE_FIELDS
           g == [f \in D |-> FieldPoints(c, f, facts[f])]
<1>1. IsFiniteSet(D)
  BY AdditiveFields, FS_Subset
<1>2. \A f \in D : g[f] \in Nat
  <2> SUFFICES ASSUME NEW f \in D PROVE g[f] \in Nat
    OBVIOUS
  <2>1. f \in ADDITIVE_FIELDS /\ g[f] = FieldPoints(c, f, facts[f])
    OBVIOUS
  <2>2. FieldPoints(c, f, facts[f]) \in {0} \cup Range(c.points[f])
    BY <2>1, FieldCeilings
  <2>3. Range(c.points[f]) \subseteq 0 .. 100
    BY <2>1 DEF ConfigIsSound
  <2> QED
    BY <2>1, <2>2, <2>3
<1>3. SumFunctionOnSet(g, D) \in Nat
  <2> HIDE DEF D, g
  <2> QED
    BY <1>1, <1>2, SumOfNaturals
<1>4. SumFunction(g) = SumFunctionOnSet(g, D)
  BY DEF SumFunction
<1> QED
  BY <1>3, <1>4 DEF ScoreFacts

(* The sum of the ceilings is a natural.                                   *)
LEMMA CeilingsAreNatural ==
  ASSUME NEW c, ConfigIsSound(c), NEW S \in SUBSET ADDITIVE_FIELDS
  PROVE  SumFunction(TopPoints(c, S)) \in Nat
<1> DEFINE g == TopPoints(c, S)
<1>1. IsFiniteSet(S)
  BY AdditiveFields, FS_Subset
<1>2. \A f \in S : g[f] \in Nat
  BY FieldCeilings DEF TopPoints
<1>3. SumFunctionOnSet(g, S) \in Nat
  <2> HIDE DEF g
  <2> QED
    BY <1>1, <1>2, SumOfNaturals
<1>4. SumFunction(g) = SumFunctionOnSet(g, S)
  BY DEF SumFunction, TopPoints
<1> QED
  BY <1>3, <1>4

(* What one more field makes of the scores reached so far.                 *)
MorePoints(c, f, sums) == {s + p : s \in sums, p \in {0} \cup Range(c.points[f])}

(* A score reached with one field more is one reached without it, plus the *)
(* points of that field.                                                   *)
LEMMA ComesFromFewer ==
  ASSUME NEW c, NEW f, NEW sums, NEW s \in MorePoints(c, f, sums)
  PROVE  \E u \in sums, p \in {0} \cup Range(c.points[f]) : s = u + p
BY DEF MorePoints

(* g gives every set of D the scores that values for its fields can reach. *)
IsReached(c, base, g, D) ==
  g = [s \in D |-> IF s = {} THEN base ELSE MorePoints(c, OneOf(s), g[s \ {OneOf(s)}])]

(* The scores that values for the fields of S can reach.                   *)
Reached(c, base, S) == (CHOOSE g : IsReached(c, base, g, SUBSET S))[S]

(* The fold that the model calls reachable scores is Reached.              *)
LEMMA ReachableScoresAreSums ==
  ASSUME NEW c, NEW facts
  PROVE  ReachableScores(c, facts) =
           LET sums == Reached(c, {ScoreFacts(c, facts)}, MissingFrom(facts))
           IN  IF IsDisqualified(c, facts) THEN {0}
               ELSE IF c.disqualifier /\ DISQUALIFIER_FIELD \notin DOMAIN facts
               THEN sums \cup {0} ELSE sums
BY DEF ReachableScores, FoldSet, MapThenFoldSet, Reached, IsReached, MorePoints, OneOf, MissingFrom

(* The function that Reached chooses exists.                               *)
LEMMA ReachedExists ==
  ASSUME NEW c, ConfigIsSound(c), NEW base \in SUBSET Int, NEW S \in SUBSET ADDITIVE_FIELDS
  PROVE  \E g : IsReached(c, base, g, SUBSET S)
<1> DEFINE V == SUBSET Int
           F == [f \in S |-> [v \in V |-> MorePoints(c, f, v)]]
<1>1. IsFiniteSet(S)
  BY AdditiveFields, FS_Subset
<1>2. F \in [S -> [V -> V]]
  <2>1. ASSUME NEW f \in S, NEW v \in V PROVE MorePoints(c, f, v) \in V
    BY DEF MorePoints, ConfigIsSound
  <2> QED
    BY <2>1
<1>3. PICK g : IsFoldOn(F, base, g, SUBSET S)
  <2> HIDE DEF F
  <2> QED
    BY <1>1, FoldsExist
<1>4. \A s \in SUBSET S : g[s] \in V
  <2> HIDE DEF F, V
  <2>1. base \in V
    BY DEF V
  <2> QED
    BY <1>1, <1>2, <1>3, <2>1, FoldsAreTyped
<1>5. ASSUME NEW s \in SUBSET S, s # {}
      PROVE  F[OneOf(s)][g[s \ {OneOf(s)}]] = MorePoints(c, OneOf(s), g[s \ {OneOf(s)}])
  <2>1. OneOf(s) \in S /\ s \ {OneOf(s)} \in SUBSET S
    BY <1>5, AnyIsIn
  <2>2. g[s \ {OneOf(s)}] \in V
    BY <1>4, <2>1
  <2> HIDE DEF V
  <2> QED
    BY <2>1, <2>2
<1> HIDE DEF F
<1> QED
  <2>1. ASSUME NEW s \in SUBSET S
        PROVE  FoldStep(F, base, g, s)
                 = IF s = {} THEN base ELSE MorePoints(c, OneOf(s), g[s \ {OneOf(s)}])
    BY <1>5 DEF FoldStep
  <2>2. IsReached(c, base, g, SUBSET S)
    BY <1>3, <2>1 DEF IsFoldOn, IsReached
  <2> QED
    BY <2>2

(* Nothing added is reachable, everything added is, and nothing else is    *)
(* outside of the two.                                                     *)
LEMMA ReachedAreBetween ==
  ASSUME NEW c, ConfigIsSound(c), NEW b \in Int, NEW S \in SUBSET ADDITIVE_FIELDS
  PROVE  LET top == b + SumFunction(TopPoints(c, S))
             all == Reached(c, {b}, S)
         IN  b \in all /\ top \in all /\ \A s \in all : s \in Int /\ b <= s /\ s <= top
<1>1. PICK g : g = (CHOOSE h : IsReached(c, {b}, h, SUBSET S)) /\ IsReached(c, {b}, g, SUBSET S)
  BY ReachedExists
<1> DEFINE Fine(t) == LET top == b + SumFunctionOnSet(TopPoints(c, S), t)
                      IN  /\ b \in g[t] /\ top \in g[t]
                          /\ \A s \in g[t] : s \in Int /\ b <= s /\ s <= top
           Bad == {n \in Nat : \E t \in SUBSET S : Cardinality(t) = n /\ ~Fine(t)}
<1>2. ASSUME NEW t0 \in SUBSET S, ~Fine(t0) PROVE FALSE
  <2>0. IsFiniteSet(S)
    BY AdditiveFields, FS_Subset
  <2>1. PICK m \in Bad : \A j \in Bad : m <= j
    <3>1. Bad \in SUBSET Nat
      OBVIOUS
    <3>2. Cardinality(t0) \in Bad
      <4>1. Cardinality(t0) \in Nat
        BY <2>0, FS_Subset, FS_CardinalityType
      <4> HIDE DEF Fine
      <4> QED
        BY <1>2, <4>1
    <3> HIDE DEF Bad
    <3> QED
      BY <3>1, <3>2, LeastOf
  <2>2. PICK t \in SUBSET S : Cardinality(t) = m /\ ~Fine(t)
    <3> HIDE DEF Fine
    <3> QED
      OBVIOUS
  <2>3. t # {}
    <3> SUFFICES ASSUME t = {} PROVE FALSE
      OBVIOUS
    <3>1. g[t] = {b}
      BY <1>1 DEF IsReached
    <3>2. SumFunctionOnSet(TopPoints(c, S), t) = 0
      BY SumEmpty
    <3> QED
      BY <2>2, <3>1, <3>2
  <2> DEFINE f == OneOf(t)
             r == t \ {f}
  <2>4. f \in t /\ f \in ADDITIVE_FIELDS /\ r \in SUBSET S /\ IsFiniteSet(t)
    BY <2>0, <2>3, AnyIsIn, FS_Subset
  <2>5. Fine(r)
    <3>1. m \in Nat /\ Cardinality(r) \in Nat /\ Cardinality(r) = m - 1
      BY <2>0, <2>2, <2>4, FS_Subset, FS_CardinalityType, FS_RemoveElement
    <3>2. Cardinality(r) \notin Bad
      <4>1. ~(m <= Cardinality(r))
        <5> HIDE DEF Bad, r, f
        <5> QED
          BY <3>1
      <4> HIDE DEF Bad
      <4> QED
        BY <2>1, <4>1
    <3> HIDE DEF Fine, r, f
    <3> QED
      BY <2>4, <3>1, <3>2
  <2> DEFINE k == MaxFieldPoints(c, f)
             sr == SumFunctionOnSet(TopPoints(c, S), r)
  <2>6. SumFunctionOnSet(TopPoints(c, S), t) = k + sr /\ sr \in Int
    <3>1. \A i \in t : TopPoints(c, S)[i] \in Int
      BY FieldCeilings DEF TopPoints
    <3>2. SumFunctionOnSet(TopPoints(c, S), t) = TopPoints(c, S)[f] + sr
      BY <2>3, <2>4, SumNonempty
    <3>3. sr \in Int
      BY <2>4, <3>1, FS_Subset, SumType
    <3>4. TopPoints(c, S)[f] = k
      BY <2>4 DEF TopPoints
    <3> QED
      BY <3>2, <3>3, <3>4
  <2>7. g[t] = MorePoints(c, f, g[r])
    BY <1>1, <2>3 DEF IsReached
  <2>8. /\ k \in Int /\ 0 <= k /\ k \in {0} \cup Range(c.points[f])
        /\ \A p \in {0} \cup Range(c.points[f]) : p \in Int /\ 0 <= p /\ p <= k
    <3> HIDE DEF f
    <3> QED
      BY <2>4, FieldCeilings
  <2>9. /\ b \in g[r] /\ b + sr \in g[r]
        /\ \A s \in g[r] : s \in Int /\ b <= s /\ s <= b + sr
    BY <2>5
  <2> HIDE DEF f, r, k, sr
  <2>10. b \in g[t]
    <3>1. b = b + 0
      OBVIOUS
    <3> QED
      BY <2>7, <2>9, <3>1 DEF MorePoints
  <2>11. b + (k + sr) \in g[t]
    <3>1. b + (k + sr) = (b + sr) + k
      BY <2>6, <2>8
    <3> QED
      BY <2>7, <2>8, <2>9, <3>1 DEF MorePoints
  <2>12. ASSUME NEW s \in g[t] PROVE s \in Int /\ b <= s /\ s <= b + (k + sr)
    <3>1. PICK u \in g[r], p \in {0} \cup Range(c.points[f]) : s = u + p
      <4>1. s \in MorePoints(c, f, g[r])
        BY <2>7
      <4> QED
        BY <4>1, ComesFromFewer
    <3>2. u \in Int /\ b <= u /\ u <= b + sr /\ p \in Int /\ 0 <= p /\ p <= k
      BY <2>8, <2>9, <3>1
    <3> QED
      BY <2>6, <2>8, <3>1, <3>2
  <2> QED
    BY <2>2, <2>6, <2>10, <2>11, <2>12
<1>3. Fine(S)
  BY <1>2
<1>4. SumFunction(TopPoints(c, S)) = SumFunctionOnSet(TopPoints(c, S), S)
  BY DEF SumFunction, TopPoints
<1> QED
  BY <1>1, <1>3, <1>4 DEF Reached

(* compute_bounds: the floor and the ceiling are scores that some values of *)
(* the unknown fields give, and none gives less or more.                   *)
LEMMA BoundsAreExact ==
  ASSUME NEW c, ConfigIsSound(c), NEW facts
  PROVE  LET bounds == ComputeBounds(c, facts)
             all == ReachableScores(c, facts)
         IN  /\ bounds.lower \in Nat /\ bounds.current \in Nat /\ bounds.upper \in Nat
             /\ bounds.lower \in all /\ bounds.upper \in all /\ ScoreFacts(c, facts) \in all
             /\ bounds.current = ScoreFacts(c, facts)
             /\ \A s \in all : s \in Int /\ bounds.lower <= s /\ s <= bounds.upper
<1> DEFINE score == ScoreFacts(c, facts)
           more == SumFunction(TopPoints(c, MissingFrom(facts)))
           sums == Reached(c, {score}, MissingFrom(facts))
<1>1. score \in Nat /\ more \in Nat
  <2>1. MissingFrom(facts) \in SUBSET ADDITIVE_FIELDS
    BY DEF MissingFrom
  <2> QED
    BY <2>1, ScoresAreNatural, CeilingsAreNatural
<1>2. /\ score \in sums /\ score + more \in sums
      /\ \A s \in sums : s \in Int /\ score <= s /\ s <= score + more
  <2>1. MissingFrom(facts) \in SUBSET ADDITIVE_FIELDS
    BY DEF MissingFrom
  <2>2. score \in Int
    BY <1>1
  <2> HIDE DEF score
  <2> QED
    BY <2>1, <2>2, ReachedAreBetween
<1>3. CASE IsDisqualified(c, facts)
  <2>1. ReachableScores(c, facts) = {0}
    BY <1>3, ReachableScoresAreSums
  <2>2. ComputeBounds(c, facts) = [current |-> 0, lower |-> 0, upper |-> 0] /\ ScoreFacts(c, facts) = 0
    BY <1>3 DEF ComputeBounds, ScoreFacts
  <2> QED
    BY <2>1, <2>2
<1>4. CASE ~IsDisqualified(c, facts)
  <2> DEFINE pinned == c.disqualifier /\ DISQUALIFIER_FIELD \notin DOMAIN facts
             bounds == ComputeBounds(c, facts)
  <2>1. bounds = [current |-> score, lower |-> Floor(c, facts), upper |-> score + more]
    BY <1>4 DEF ComputeBounds, TopPoints, MissingFrom
  <2>2. Floor(c, facts) = IF pinned THEN 0 ELSE score
    BY DEF Floor
  <2>3. ReachableScores(c, facts) = IF pinned THEN sums \cup {0} ELSE sums
    BY <1>4, ReachableScoresAreSums
  <2> HIDE DEF pinned, sums, more, score, bounds
  <2>4. /\ bounds.current = score /\ bounds.lower = (IF pinned THEN 0 ELSE score)
        /\ bounds.upper = score + more
    BY <2>1, <2>2
  <2>5. CASE pinned
    <3>1. bounds.lower = 0 /\ ReachableScores(c, facts) = sums \cup {0}
      BY <2>3, <2>4, <2>5
    <3>2. \A s \in sums \cup {0} : s \in Int /\ 0 <= s /\ s <= score + more
      BY <1>1, <1>2
    <3> QED
      BY <1>1, <1>2, <2>4, <3>1, <3>2 DEF score, bounds
  <2>6. CASE ~pinned
    <3>1. bounds.lower = score /\ ReachableScores(c, facts) = sums
      BY <2>3, <2>4, <2>6
    <3> QED
      BY <1>1, <1>2, <2>4, <3>1 DEF score, bounds
  <2> QED
    BY <2>5, <2>6
<1> QED
  BY <1>3, <1>4

(* A set with two different elements has more than one.                    *)
LEMMA TwoAreMoreThanOne ==
  ASSUME NEW S, IsFiniteSet(S), NEW x \in S, NEW y \in S, x # y
  PROVE  Cardinality(S) > 1
<1>1. Cardinality({x}) = 1 /\ IsFiniteSet({x})
  BY FS_Singleton
<1>2. Cardinality({x} \cup {y}) = 2
  BY <1>1, FS_AddElement
<1>3. Cardinality({x} \cup {y}) <= Cardinality(S) /\ Cardinality(S) \in Nat
  <2>1. {x} \cup {y} \in SUBSET S
    OBVIOUS
  <2> QED
    BY <2>1, FS_Subset, FS_CardinalityType
<1>4. PICK n : n = Cardinality({x} \cup {y})
  OBVIOUS
<1>5. PICK m : m = Cardinality(S)
  OBVIOUS
<1>6. m \in Nat /\ n = 2 /\ n <= m
  BY <1>2, <1>3, <1>4, <1>5
<1>7. m > 1
  BY <1>6
<1> QED
  BY <1>5, <1>7

(* settled_decision answers exactly when every value of the unknown fields *)
(* gives the same decision, and then answers that one.                     *)
LEMMA SettledIsRight ==
  ASSUME NEW c, ConfigIsSound(c), NEW facts
  PROVE  LET bounds == ComputeBounds(c, facts)
             settled == SettledDecision(c, bounds)
             all == ReachableDecisions(c, facts)
         IN  /\ settled = "open" => Cardinality(all) > 1
             /\ settled # "open" => all = {settled}
             /\ DecisionFor(c, ScoreFacts(c, facts)) \in all
             /\ bounds.upper < c.reject => all = {"reject"}
<1> DEFINE bounds == ComputeBounds(c, facts)
           R == ReachableScores(c, facts)
           all == ReachableDecisions(c, facts)
<1>1. /\ bounds.lower \in Nat /\ bounds.upper \in Nat
      /\ bounds.lower \in R /\ bounds.upper \in R /\ ScoreFacts(c, facts) \in R
      /\ \A s \in R : s \in Int /\ bounds.lower <= s /\ s <= bounds.upper
  BY BoundsAreExact
<1>2. c.qualify \in Nat /\ c.reject \in Nat /\ c.reject <= c.qualify
  BY DEF ConfigIsSound
<1>3. all = {DecisionFor(c, s) : s \in R}
  BY DEF ReachableDecisions
<1>4. IsFiniteSet(all)
  <2>1. IsFiniteSet({"auto_route", "reject"} \cup {"escalate_human"})
    BY PairsAreFinite, FS_AddElement
  <2>2. all \in SUBSET ({"auto_route", "reject"} \cup {"escalate_human"})
    BY <1>3 DEF DecisionFor
  <2> QED
    BY <2>1, <2>2, FS_Subset
<1> HIDE DEF bounds, R, all
<1>5. DecisionFor(c, ScoreFacts(c, facts)) \in all
  BY <1>1, <1>3
<1>6. CASE bounds.lower >= c.qualify
  <2>1. \A s \in R : DecisionFor(c, s) = "auto_route"
    BY <1>1, <1>2, <1>6 DEF DecisionFor
  <2>2. all = {"auto_route"}
    BY <1>1, <1>3, <2>1
  <2>3. SettledDecision(c, bounds) = "auto_route"
    BY <1>6 DEF SettledDecision
  <2>4. ~(bounds.upper < c.reject)
    BY <1>1, <1>2, <1>6
  <2> QED
    BY <1>5, <2>2, <2>3, <2>4 DEF bounds, all
<1>7. CASE bounds.upper < c.reject
  <2>1. \A s \in R : DecisionFor(c, s) = "reject"
    BY <1>1, <1>2, <1>7 DEF DecisionFor
  <2>2. all = {"reject"}
    BY <1>1, <1>3, <2>1
  <2>3. ~(bounds.lower >= c.qualify)
    BY <1>1, <1>2, <1>7
  <2>4. SettledDecision(c, bounds) = "reject"
    BY <1>7, <2>3 DEF SettledDecision
  <2> QED
    BY <1>5, <2>2, <2>4 DEF bounds, all
<1>8. CASE /\ ~(bounds.lower >= c.qualify) /\ ~(bounds.upper < c.reject)
           /\ bounds.lower >= c.reject /\ bounds.upper < c.qualify
  <2>1. \A s \in R : DecisionFor(c, s) = "escalate_human"
    BY <1>1, <1>2, <1>8 DEF DecisionFor
  <2>2. all = {"escalate_human"}
    BY <1>1, <1>3, <2>1
  <2>3. SettledDecision(c, bounds) = "escalate_human"
    BY <1>8 DEF SettledDecision
  <2> QED
    BY <1>5, <1>8, <2>2, <2>3 DEF bounds, all
<1>9. CASE /\ ~(bounds.lower >= c.qualify) /\ ~(bounds.upper < c.reject)
           /\ ~(bounds.lower >= c.reject /\ bounds.upper < c.qualify)
  <2>1. DecisionFor(c, bounds.lower) # DecisionFor(c, bounds.upper)
    BY <1>1, <1>2, <1>9 DEF DecisionFor
  <2>2. DecisionFor(c, bounds.lower) \in all /\ DecisionFor(c, bounds.upper) \in all
    BY <1>1, <1>3
  <2>3. Cardinality(all) > 1
    BY <1>4, <2>1, <2>2, TwoAreMoreThanOne
  <2>4. SettledDecision(c, bounds) = "open"
    BY <1>9 DEF SettledDecision
  <2> QED
    BY <1>5, <1>9, <2>3, <2>4 DEF bounds, all
<1> QED
  BY <1>6, <1>7, <1>8, <1>9

-----------------------------------------------------------------------------
(* The catalogue, and the sources of an instance.                          *)
Specs == Range(CATALOG)

(* The catalogue has eight adapters, each with its own name and a price.   *)
LEMMA CatalogueIsTyped ==
  /\ CATALOG \in Seq(Specs) /\ Len(CATALOG) = 8
  /\ \A a, b \in Specs : a.name = b.name => a = b
  /\ \A a \in Specs : a.price \in Nat
<1>1. DOMAIN CATALOG = 1 .. 8 /\ Len(CATALOG) = 8 /\ CATALOG = [i \in 1 .. 8 |-> CATALOG[i]]
  BY DEF CATALOG
<1>2. \A i \in 1 .. 8 : CATALOG[i] \in Specs
  BY <1>1 DEF Specs, Range
<1>3. CATALOG \in Seq(Specs)
  <2>1. PICK q : q = CATALOG
    OBVIOUS
  <2>2. q = [i \in 1 .. 8 |-> q[i]] /\ \A i \in 1 .. 8 : q[i] \in Specs
    BY <1>1, <1>2, <2>1
  <2>3. q \in [1 .. 8 -> Specs] /\ 8 \in Nat
    BY <2>2
  <2>4. q \in UNION {[1 .. n -> Specs] : n \in Nat}
    BY <2>3
  <2>5. q \in Seq(Specs)
    BY <2>4, SeqDef
  <2> QED
    BY <2>1, <2>5
<1>4. \A a \in Specs : \E i \in 1 .. 8 : a = CATALOG[i]
  BY <1>1 DEF Specs, Range
<1>5. \A i \in 1 .. 8 : CATALOG[i].price \in Nat
  BY DEF CATALOG
<1>6. \A i, j \in 1 .. 8 : CATALOG[i].name = CATALOG[j].name => i = j
  BY DEF CATALOG
<1>7. ASSUME NEW a \in Specs, NEW b \in Specs, a.name = b.name PROVE a = b
  <2>1. PICK i \in 1 .. 8 : a = CATALOG[i]
    BY <1>4
  <2>2. PICK j \in 1 .. 8 : b = CATALOG[j]
    BY <1>4
  <2>3. i = j
    BY <1>6, <1>7, <2>1, <2>2
  <2> QED
    BY <2>1, <2>2, <2>3
<1>8. ASSUME NEW a \in Specs PROVE a.price \in Nat
  BY <1>4, <1>5
<1> QED
  BY <1>1, <1>3, <1>7, <1>8

(* The adapters that a walk visits are those of the catalogue that it      *)
(* names.                                                                  *)
LEMMA SourcedIsTyped ==
  ASSUME NEW names
  PROVE  /\ Sourced(names) \in Seq(Specs)
         /\ \A a \in Range(Sourced(names)) : a \in Specs /\ a.name \in names
<1> DEFINE Chosen == {a \in Specs : a.name \in names}
           V == Seq(Chosen)
           F == [i \in 1 .. 8 |-> [v \in V |->
                  IF CATALOG[i].name \in names THEN Append(v, CATALOG[i]) ELSE v]]
           Is(g) == g = [i \in 0 .. 8 |->
                      IF i = 0 THEN << >>
                      ELSE IF CATALOG[i].name \in names THEN Append(g[i - 1], CATALOG[i])
                      ELSE g[i - 1]]
<1>1. << >> \in V
  OBVIOUS
<1>2. F \in [1 .. 8 -> [V -> V]]
  <2>1. ASSUME NEW i \in 1 .. 8, NEW v \in V, CATALOG[i].name \in names
        PROVE  Append(v, CATALOG[i]) \in V
    <3>1. CATALOG[i] \in Chosen
      BY <2>1, CatalogueIsTyped DEF Specs, Range
    <3> HIDE DEF Chosen
    <3> QED
      BY <3>1
  <2> HIDE DEF V
  <2> QED
    BY <2>1
<1>3. PICK h : IsRecursionTo(F, << >>, h, 8)
  <2>1. 8 \in Nat
    OBVIOUS
  <2> HIDE DEF F
  <2> QED
    BY <2>1, RecursionsExist
<1>4. \A i \in 0 .. 8 : h[i] \in V
  <2>1. 8 \in Nat
    OBVIOUS
  <2> HIDE DEF F, V
  <2> QED
    BY <1>1, <1>2, <1>3, <2>1, RecursionsAreTyped
<1>5. Is(h)
  <2>1. ASSUME NEW i \in 0 .. 8
        PROVE  RecStep(F, << >>, h, i) =
                 IF i = 0 THEN << >>
                 ELSE IF CATALOG[i].name \in names THEN Append(h[i - 1], CATALOG[i])
                 ELSE h[i - 1]
    <3>1. CASE i = 0
      BY <3>1 DEF RecStep
    <3>2. CASE i # 0
      <4>1. h[i - 1] \in V /\ i \in 1 .. 8
        BY <1>4, <3>2
      <4> HIDE DEF V
      <4> QED
        BY <3>2, <4>1 DEF RecStep
    <3> QED
      BY <3>1, <3>2
  <2> HIDE DEF F
  <2> QED
    BY <1>3, <2>1 DEF IsRecursionTo
<1>6. ASSUME NEW g, Is(g) PROVE g[8] \in V
  <2> DEFINE Bad == {i \in Nat : i <= 8 /\ g[i] \notin V}
  <2>1. ASSUME NEW j \in 0 .. 8, g[j] \notin V PROVE FALSE
    <3>1. PICK m \in Bad : \A k \in Bad : m <= k
      <4>1. Bad \in SUBSET Nat /\ j \in Bad
        BY <2>1
      <4> HIDE DEF Bad
      <4> QED
        BY <4>1, LeastOf
    <3>2. m \in 0 .. 8 /\ g[m] \notin V /\ m # 0
      BY <1>1, <1>6
    <3>3. m - 1 \in Nat /\ ~(m <= m - 1) /\ m - 1 <= 8 /\ m - 1 \in 0 .. 8 /\ m \in 1 .. 8
      BY <3>2
    <3>4. m - 1 \notin Bad
      <4> HIDE DEF Bad
      <4> QED
        BY <3>1, <3>3
    <3>5. g[m - 1] \in V
      BY <3>3, <3>4
    <3>6. g[m] = IF CATALOG[m].name \in names THEN Append(g[m - 1], CATALOG[m]) ELSE g[m - 1]
      BY <1>6, <3>2
    <3>7. F[m][g[m - 1]] \in V
      <4> HIDE DEF F, V
      <4> QED
        BY <1>2, <3>3, <3>5
    <3>8. g[m] = F[m][g[m - 1]]
      <4> HIDE DEF V
      <4> QED
        BY <3>3, <3>5, <3>6
    <3> QED
      BY <3>2, <3>7, <3>8
  <2> QED
    BY <2>1
<1>7. Sourced(names) = (CHOOSE g : Is(g))[8]
  BY CatalogueIsTyped DEF Sourced
<1>8. Sourced(names) \in V
  <2> HIDE DEF Is, V
  <2> QED
    BY <1>5, <1>6, <1>7
<1>9. PICK s : s = Sourced(names)
  OBVIOUS
<1>10. s \in Seq(Chosen)
  BY <1>8, <1>9
<1>11. s \in Seq(Specs) /\ \A a \in Range(s) : a \in Chosen
  <2>1. s \in [1 .. Len(s) -> Chosen] /\ DOMAIN s = 1 .. Len(s) /\ Len(s) \in Nat
    <3> HIDE DEF Chosen
    <3> QED
      BY <1>10
  <2> QED
    BY <2>1 DEF Range
<1> QED
  BY <1>9, <1>11

-----------------------------------------------------------------------------
(* The simulated walk.                                                     *)
Steps == 0 .. Len(Walk)
Underway == {"walking", "store", "ledger", "hit"}

(* The states of a walk.                                                   *)
RunState ==
  [at : {"queued"}, runs : Nat, n : {0}]
    \cup [at : Underway \cup {"done"}, runs : Nat, n : Steps, version : DOMAIN Profiles]

(* A walk goes on only past the steps at which the decision was open, and  *)
(* leaves a row for each source it has passed.                             *)
WalkedOpenly(q) ==
  q.at \in Underway =>
    /\ q.at # "walking" => q.n < Len(Walk)
    /\ \A m \in 0 .. q.n : m < q.n \/ q.at # "walking" => Verdict(q.version, m).settled = "open"

(* Every adapter that a walk got past has a row of the lead.               *)
LeftRows(l, q) ==
  q.at \in Underway => \A i \in 1 .. q.n : <<l, Walk[i].name>> \in DOMAIN callRow

(* The typed part of the invariant of the simulated acquisition.           *)
SimTypes ==
  /\ world \in DOMAIN Worlds /\ activeProfile \in DOMAIN Profiles
  /\ bought \in [Offered \X (SimLeads \cup {"company"}) -> Nat]
  /\ run \in [SimLeads -> RunState]
  /\ DOMAIN decided \in SUBSET SimLeads
  /\ \A l \in SimLeads : WalkedOpenly(run[l]) /\ LeftRows(l, run[l])

(* The walk is a sequence of adapters.                                     *)
LEMMA WalkIsTyped ==
  /\ Walk \in Seq(Specs) /\ Len(Walk) \in Nat
  /\ \A a \in Range(Walk) : a \in Specs /\ a.name \in Offered
  /\ \A i \in 1 .. Len(Walk) : Walk[i] \in Range(Walk)
<1>1. Walk \in Seq(Specs) /\ \A a \in Range(Walk) : a \in Specs /\ a.name \in Offered
  BY SourcedIsTyped DEF Walk
<1>2. Len(Walk) \in Nat /\ DOMAIN Walk = 1 .. Len(Walk)
  BY <1>1
<1> QED
  BY <1>1, <1>2 DEF Range

(* What the engine makes of a world under a version after n sources.       *)
LEMMA VerdictIsWhatTheEngineSays ==
  ASSUME world \in DOMAIN Worlds, NEW v \in DOMAIN Profiles, NEW n \in Steps
  PROVE  LET c == Profiles[v]
             facts == FactsAfter(world, n)
             e == Verdict(v, n)
         IN  /\ e.decision = DecisionFor(c, ScoreFacts(c, facts))
             /\ e.settled = SettledDecision(c, ComputeBounds(c, facts))
             /\ e.reachable = ReachableDecisions(c, facts)
<1> DEFINE Of(w, u, k) ==
             LET c == Profiles[u]
                 facts == FactsAfter(w, k)
             IN  [world |-> w, version |-> u, n |-> k,
                  decision  |-> DecisionFor(c, ScoreFacts(c, facts)),
                  settled   |-> SettledDecision(c, ComputeBounds(c, facts)),
                  reachable |-> ReachableDecisions(c, facts)]
<1>1. Verdicts = {Of(w, u, k) : w \in DOMAIN Worlds, u \in DOMAIN Profiles, k \in Steps}
  BY DEF Verdicts, Steps
<1>2. \A w, u, k : Of(w, u, k).world = w /\ Of(w, u, k).version = u /\ Of(w, u, k).n = k
  OBVIOUS
<1>3. PICK e : e = Verdict(v, n)
  OBVIOUS
<1>4. e \in Verdicts /\ e.world = world /\ e.version = v /\ e.n = n
  <2>1. Of(world, v, n) \in Verdicts
    <3> HIDE DEF Of
    <3> QED
      BY <1>1
  <2>2. \E x \in Verdicts : x.world = world /\ x.version = v /\ x.n = n
    <3> HIDE DEF Of
    <3> QED
      BY <1>2, <2>1
  <2> QED
    BY <1>3, <2>2 DEF Verdict
<1>5. e = Of(world, v, n)
  <2>1. PICK w \in DOMAIN Worlds, u \in DOMAIN Profiles, k \in Steps : e = Of(w, u, k)
    <3> HIDE DEF Of
    <3> QED
      BY <1>1, <1>4
  <2> HIDE DEF Of
  <2> QED
    BY <1>2, <1>4, <2>1
<1> QED
  BY <1>3, <1>5

(* The verdict on the picture after n adapters is right for every          *)
(* completion of it.                                                       *)
LEMMA VerdictsAreRight ==
  ASSUME world \in DOMAIN Worlds, NEW v \in DOMAIN Profiles, NEW n \in Steps
  PROVE  LET e == Verdict(v, n)
         IN  /\ e.settled = "open" => Cardinality(e.reachable) > 1
             /\ e.settled # "open" => e.reachable = {e.settled}
             /\ e.decision \in e.reachable
<1>1. ConfigIsSound(Profiles[v])
  BY SimAssumption
<1> QED
  BY <1>1, VerdictIsWhatTheEngineSays, SettledIsRight

(* So a settled verdict in a receipt is exact.                             *)
LEMMA SettledStaysExact == SimTypes => SettledIsExact
<1> SUFFICES ASSUME SimTypes, NEW l \in SimLeads, run[l].at = "walking"
             PROVE  LET verdict == Verdict(run[l].version, run[l].n)
                    IN  /\ verdict.settled = "open" => Cardinality(verdict.reachable) > 1
                        /\ verdict.settled # "open" => verdict.reachable = {verdict.settled}
                        /\ verdict.decision \in verdict.reachable
  BY DEF SettledIsExact
<1>1. run[l] \in RunState
  BY DEF SimTypes
<1>2. run[l].version \in DOMAIN Profiles /\ run[l].n \in Steps
  BY <1>1 DEF RunState
<1> QED
  BY <1>2, VerdictsAreRight DEF SimTypes

(* The invariant holds when nothing has been walked.                       *)
LEMMA SimBegins == SimInit => SimTypes /\ ReceiptIsReplayable
<1> SUFFICES ASSUME SimInit PROVE SimTypes /\ ReceiptIsReplayable
  OBVIOUS
<1>1. DOMAIN decided = {}
  BY DEF SimInit
<1>2. NotRunning \in RunState /\ NotRunning.at = "queued"
  BY DEF NotRunning, RunState
<1>3. \A l \in SimLeads : run[l] = NotRunning
  BY DEF SimInit
<1>4. WalkedOpenly(NotRunning) /\ \A l \in SimLeads : LeftRows(l, NotRunning)
  BY <1>2 DEF WalkedOpenly, LeftRows, Underway
<1>5. bought \in [Offered \X (SimLeads \cup {"company"}) -> Nat]
  BY DEF SimInit
<1>6. run \in [SimLeads -> RunState]
  BY <1>2 DEF SimInit
<1>7. world \in DOMAIN Worlds /\ activeProfile \in DOMAIN Profiles
  BY SimAssumption DEF SimInit
<1> QED
  BY <1>1, <1>3, <1>4, <1>5, <1>6, <1>7 DEF SimTypes, ReceiptIsReplayable

(* One walk moves on; the tables never lose what other walks rest upon.    *)
LEMMA OneWalkMoves ==
  ASSUME SimTypes, NEW l \in SimLeads, NEW q \in RunState,
         run' = [run EXCEPT ![l] = q], world' = world,
         activeProfile' = activeProfile, DOMAIN decided' \in SUBSET SimLeads,
         bought' \in [Offered \X (SimLeads \cup {"company"}) -> Nat],
         DOMAIN callRow \in SUBSET DOMAIN callRow',
         WalkedOpenly(q), LeftRows(l, q)'
  PROVE  SimTypes'
<1>1. run' \in [SimLeads -> RunState] /\ run'[l] = q
      /\ \A k \in SimLeads : k # l => run'[k] = run[k]
  BY DEF SimTypes
<1>2. \A r : WalkedOpenly(r)' <=> WalkedOpenly(r)
  BY DEF WalkedOpenly, Verdict
<1>3. \A k \in SimLeads : WalkedOpenly(run[k]) /\ LeftRows(k, run[k])
  BY DEF SimTypes
<1>4. ASSUME NEW k \in SimLeads PROVE WalkedOpenly(run'[k]) /\ LeftRows(k, run[k])'
  <2>1. CASE k = l
    BY <1>1, <2>1 DEF LeftRows
  <2>2. CASE k # l
    BY <1>1, <1>3, <2>2 DEF LeftRows
  <2> QED
    BY <2>1, <2>2
<1>5. \A k \in SimLeads : WalkedOpenly(run[k])'
  BY <1>4 DEF WalkedOpenly, Verdict
<1>6. world' \in DOMAIN Worlds /\ activeProfile' \in DOMAIN Profiles
  BY DEF SimTypes
<1> QED
  BY <1>1, <1>4, <1>5, <1>6 DEF SimTypes

(* Where a walk that is under way stands, and that moving its label keeps  *)
(* it a walk.                                                              *)
LEMMA RunAt ==
  ASSUME SimTypes, NEW l \in SimLeads
  PROVE  /\ run[l] \in RunState
         /\ run[l].at \in Underway =>
              /\ run[l].n \in Steps /\ run[l].version \in DOMAIN Profiles /\ run[l].runs \in Nat
              /\ WalkedOpenly(run[l]) /\ LeftRows(l, run[l])
         /\ run[l].at \in Underway => \A at \in Underway \cup {"done"} : \A q :
              q = [run[l] EXCEPT !.at = at] =>
                /\ q \in RunState /\ q.at = at /\ q.n = run[l].n /\ q.version = run[l].version
<1>1. run[l] \in RunState /\ WalkedOpenly(run[l]) /\ LeftRows(l, run[l])
  BY DEF SimTypes
<1>2. CASE run[l].at = "queued"
  BY <1>1, <1>2 DEF Underway
<1>3. CASE run[l] \in [at : Underway \cup {"done"}, runs : Nat, n : Steps, version : DOMAIN Profiles]
  <2>1. ASSUME NEW at \in Underway \cup {"done"}, NEW q, q = [run[l] EXCEPT !.at = at]
        PROVE  /\ q \in [at : Underway \cup {"done"}, runs : Nat, n : Steps,
                          version : DOMAIN Profiles]
               /\ q.at = at /\ q.n = run[l].n /\ q.version = run[l].version
    BY <1>3, <2>1
  <2> QED
    BY <1>1, <1>3, <2>1 DEF RunState
<1> QED
  BY <1>1, <1>2, <1>3 DEF RunState

(* A walk with no reason to stop has an adapter left and was open at every *)
(* picture so far.                                                         *)
LEMMA OpenAt ==
  ASSUME SimTypes, NEW l \in SimLeads, NEW confident,
         run[l].at = "walking", StopReason(l, confident) = "none"
  PROVE  /\ run[l].n \in Nat /\ run[l].n < Len(Walk)
         /\ run[l].n + 1 \in 1 .. Len(Walk)
         /\ \A m \in 0 .. run[l].n : Verdict(run[l].version, m).settled = "open"
<1>1. run[l].n \in Steps /\ WalkedOpenly(run[l])
  BY RunAt DEF Underway
<1>2. Verdict(run[l].version, run[l].n).settled = "open" /\ run[l].n # Len(Walk)
  BY DEF StopReason, ConfigOf
<1>3. \A m \in 0 .. run[l].n : m < run[l].n => Verdict(run[l].version, m).settled = "open"
  BY <1>1 DEF WalkedOpenly, Underway
<1>4. PICK k : k = run[l].n
  OBVIOUS
<1>5. PICK w : w = Len(Walk)
  OBVIOUS
<1>6. k \in 0 .. w /\ k # w /\ w \in Nat
  BY <1>1, <1>2, <1>4, <1>5, WalkIsTyped DEF Steps
<1>7. k \in Nat /\ k < w /\ k + 1 \in 1 .. w /\ \A m \in 0 .. k : m < k \/ m = k
  BY <1>6
<1> QED
  BY <1>2, <1>3, <1>4, <1>5, <1>7

(* So was a walk that is storing, recording or reusing an answer.          *)
LEMMA PassedIsOpen ==
  ASSUME SimTypes, NEW l \in SimLeads, run[l].at \in {"store", "ledger", "hit"}
  PROVE  /\ run[l].n \in Nat /\ run[l].n < Len(Walk)
         /\ run[l].n + 1 \in 1 .. Len(Walk) /\ run[l].n + 1 \in Steps
         /\ \A m \in 0 .. run[l].n : Verdict(run[l].version, m).settled = "open"
<1>1. run[l].n \in Steps /\ WalkedOpenly(run[l])
  BY RunAt DEF Underway
<1>2. /\ run[l].n < Len(Walk)
      /\ \A m \in 0 .. run[l].n : Verdict(run[l].version, m).settled = "open"
  BY <1>1 DEF WalkedOpenly, Underway
<1>4. PICK k : k = run[l].n
  OBVIOUS
<1>5. PICK w : w = Len(Walk)
  OBVIOUS
<1>6. k \in 0 .. w /\ k < w /\ w \in Nat
  BY <1>1, <1>2, <1>4, <1>5, WalkIsTyped DEF Steps
<1>7. k \in Nat /\ k + 1 \in 1 .. w /\ k + 1 \in 0 .. w
  BY <1>6
<1> QED
  BY <1>2, <1>4, <1>5, <1>7 DEF Steps

(* Starting a walk keeps the invariant.                                    *)
LEMMA StartRunStays ==
  ASSUME SimTypes, NEW l \in SimLeads, StartRun(l)
  PROVE  SimTypes'
<1>0. PICK q :
        q = [at |-> "walking", runs |-> run[l].runs + 1, n |-> 0, version |-> activeProfile]
  OBVIOUS
<1>1. run' = [run EXCEPT ![l] = q] /\ UNCHANGED <<world, activeProfile, shared, callRow, bought, decided>>
  BY <1>0 DEF StartRun, TablesStay
<1>2. run[l] \in RunState
  BY RunAt
<1>3. run[l].runs \in Nat
  BY <1>2 DEF RunState
<1>4. 0 \in Steps
  BY WalkIsTyped DEF Steps
<1>5. q \in [at : Underway \cup {"done"}, runs : Nat, n : Steps, version : DOMAIN Profiles]
  BY <1>0, <1>3, <1>4 DEF Underway, SimTypes
<1>6. q \in RunState
  BY <1>5 DEF RunState
<1>7. WalkedOpenly(q)
  <2>1. q.n = 0 /\ q.at = "walking"
    BY <1>0
  <2>2. \A m \in 0 .. q.n : ~(m < q.n)
    BY <2>1
  <2> QED
    BY <2>1, <2>2 DEF WalkedOpenly
<1>8. \A i : i \in 1 .. q.n => FALSE
  BY <1>0
<1>9. LeftRows(l, q)'
  BY <1>1, <1>8 DEF LeftRows, SimTypes
<1>10. /\ DOMAIN decided' \in SUBSET SimLeads /\ DOMAIN callRow \in SUBSET DOMAIN callRow'
       /\ bought' \in [Offered \X (SimLeads \cup {"company"}) -> Nat]
  BY <1>1 DEF SimTypes
<1> QED
  BY <1>1, <1>6, <1>7, <1>9, <1>10, OneWalkMoves

(* Reading the evidence store keeps the invariant.                         *)
LEMMA LookupStays ==
  ASSUME SimTypes, NEW l \in SimLeads, NEW confident, Lookup(l, confident)
  PROVE  SimTypes'
<1> DEFINE spec == Walk[run[l].n + 1]
<1>1. /\ run[l].at = "walking" /\ StopReason(l, confident) = "none"
      /\ UNCHANGED <<world, activeProfile, shared, callRow, decided, upsets>>
  BY DEF Lookup
<1>2. PICK at \in {"hit", "store", "ledger"} : run' = [run EXCEPT ![l].at = at]
  BY DEF Lookup, RunBecomes
<1>3. PICK q : q = [run[l] EXCEPT !.at = at]
  OBVIOUS
<1>4. run' = [run EXCEPT ![l] = q]
  BY <1>2, <1>3 DEF SimTypes
<1>5. /\ q \in RunState /\ q.at = at /\ q.n = run[l].n /\ q.version = run[l].version
  BY <1>1, <1>3, RunAt DEF Underway
<1>6. WalkedOpenly(q)
  BY <1>1, <1>5, OpenAt DEF WalkedOpenly
<1>7. LeftRows(l, run[l])
  BY DEF SimTypes
<1>8. LeftRows(l, q)'
  BY <1>1, <1>5, <1>7 DEF LeftRows, Underway, SimTypes
<1>9. bought' \in [Offered \X (SimLeads \cup {"company"}) -> Nat]
  <2>1. CASE UNCHANGED bought
    BY <2>1 DEF SimTypes
  <2>2. CASE bought' = [bought EXCEPT ![<<spec.name, Entity(l, spec)>>] = @ + 1]
    <3>1. bought \in [Offered \X (SimLeads \cup {"company"}) -> Nat]
      BY DEF SimTypes
    <3>2. PICK k : k = <<spec.name, Entity(l, spec)>>
      OBVIOUS
    <3>3. bought' = [bought EXCEPT ![k] = bought[k] + 1]
      BY <2>2, <3>2
    <3>4. CASE k \in Offered \X (SimLeads \cup {"company"})
      BY <3>1, <3>3, <3>4
    <3>5. CASE k \notin Offered \X (SimLeads \cup {"company"})
      BY <3>1, <3>3, <3>5
    <3> QED
      BY <3>4, <3>5
  <2> QED
    BY <2>1, <2>2 DEF Lookup
<1> QED
  BY <1>1, <1>4, <1>5, <1>6, <1>8, <1>9, OneWalkMoves DEF SimTypes

(* Writing what an adapter answered keeps the invariant.                   *)
LEMMA StoreEvidenceStays ==
  ASSUME SimTypes, NEW l \in SimLeads, StoreEvidence(l)
  PROVE  SimTypes'
<1>1. run[l].at = "store" /\ UNCHANGED <<world, activeProfile, callRow, bought, decided, upsets>>
  BY DEF StoreEvidence
<1>2. PICK q : q = [run[l] EXCEPT !.at = "ledger"]
  OBVIOUS
<1>3. run' = [run EXCEPT ![l] = q]
  BY <1>2 DEF SimTypes, StoreEvidence, RunBecomes
<1>4. q \in RunState /\ q.at = "ledger" /\ q.n = run[l].n /\ q.version = run[l].version
  BY <1>1, <1>2, RunAt DEF Underway
<1>5. WalkedOpenly(q)
  BY <1>1, <1>4, PassedIsOpen DEF WalkedOpenly
<1>6. LeftRows(l, q)'
  BY <1>1, <1>4 DEF LeftRows, Underway, SimTypes
<1> QED
  BY <1>1, <1>3, <1>4, <1>5, <1>6, OneWalkMoves DEF SimTypes

(* Writing the ledger row keeps the invariant.                             *)
LEMMA RecordCallStays ==
  ASSUME SimTypes, NEW l \in SimLeads, RecordCall(l)
  PROVE  SimTypes'
<1>0. run[l].at \in {"ledger", "hit"} /\ UNCHANGED <<world, activeProfile, shared, bought, decided, upsets>>
  BY DEF RecordCall
<1>1. PICK spec : spec = Walk[run[l].n + 1]
  OBVIOUS
<1>2. PICK row : /\ \E new : row = FirstRow(l, spec, new)
                 /\ callRow' = [k \in DOMAIN callRow \cup DOMAIN row |->
                                  IF k \in DOMAIN row THEN row[k] ELSE callRow[k]]
  BY <1>1 DEF RecordCall
<1>3. <<l, spec.name>> \in DOMAIN callRow' /\ DOMAIN callRow \in SUBSET DOMAIN callRow'
  BY <1>2 DEF FirstRow
<1>4. PICK q : q = [run[l] EXCEPT !.at = "walking", !.n = run[l].n + 1]
  OBVIOUS
<1>5. run' = [run EXCEPT ![l] = q]
  BY <1>4 DEF SimTypes, RecordCall
<1>6. /\ run[l] \in [at : Underway \cup {"done"}, runs : Nat, n : Steps, version : DOMAIN Profiles]
  BY <1>0, RunAt DEF RunState, Underway
<1>7. q \in [at : Underway \cup {"done"}, runs : Nat, n : Steps, version : DOMAIN Profiles]
  BY <1>0, <1>4, <1>6, PassedIsOpen DEF Underway
<1>8. q \in RunState /\ q.at = "walking" /\ q.n = run[l].n + 1 /\ q.version = run[l].version
  BY <1>4, <1>6, <1>7 DEF RunState
<1>9. run[l].n \in Nat /\ \A m \in 0 .. run[l].n : Verdict(run[l].version, m).settled = "open"
  BY <1>0, PassedIsOpen
<1>10. WalkedOpenly(q)
  <2>1. \A m \in 0 .. run[l].n + 1 : m < run[l].n + 1 => m \in 0 .. run[l].n
    BY <1>9
  <2> QED
    BY <1>8, <1>9, <2>1 DEF WalkedOpenly
<1>11. LeftRows(l, q)'
  <2>1. \A i \in 1 .. run[l].n : <<l, Walk[i].name>> \in DOMAIN callRow
    BY <1>0, RunAt DEF LeftRows, Underway
  <2>2. \A i \in 1 .. run[l].n + 1 : i \in 1 .. run[l].n \/ i = run[l].n + 1
    BY <1>9
  <2>3. \A i \in 1 .. q.n : <<l, Walk[i].name>> \in DOMAIN callRow'
    BY <1>1, <1>3, <1>8, <2>1, <2>2
  <2> QED
    BY <2>3 DEF LeftRows
<1> QED
  BY <1>0, <1>3, <1>5, <1>8, <1>10, <1>11, OneWalkMoves DEF SimTypes

(* Committing a decision keeps the invariant.                              *)
LEMMA CommitDecisionStays ==
  ASSUME SimTypes, NEW l \in SimLeads, NEW confident, CommitDecision(l, confident)
  PROVE  SimTypes'
<1>1. run[l].at = "walking" /\ UNCHANGED <<world, activeProfile, shared, callRow, bought, upsets>>
  BY DEF CommitDecision
<1>2. PICK q : q = [run[l] EXCEPT !.at = "done"]
  OBVIOUS
<1>3. run' = [run EXCEPT ![l] = q]
  BY <1>2 DEF SimTypes, CommitDecision, RunBecomes
<1>4. q \in RunState /\ q.at = "done"
  BY <1>1, <1>2, RunAt DEF Underway
<1>5. WalkedOpenly(q) /\ LeftRows(l, q)'
  BY <1>4 DEF WalkedOpenly, LeftRows, Underway
<1>6. DOMAIN decided' \in SUBSET SimLeads
  BY DEF CommitDecision, SimTypes
<1> QED
  BY <1>1, <1>3, <1>4, <1>5, <1>6, OneWalkMoves DEF SimTypes

(* A walk that dies keeps the invariant.                                   *)
LEMMA RunDiesStays ==
  ASSUME SimTypes, NEW l \in SimLeads, RunDiesMidway(l)
  PROVE  SimTypes'
<1>1. run[l].at \in Underway /\ UNCHANGED <<world, activeProfile, shared, callRow, bought, decided>>
  BY DEF RunDiesMidway, TablesStay, Underway
<1>2. PICK q : q = [at |-> "queued", runs |-> run[l].runs, n |-> 0]
  OBVIOUS
<1>3. run' = [run EXCEPT ![l] = q]
  BY <1>2 DEF RunDiesMidway
<1>4. q \in RunState /\ q.at = "queued"
  BY <1>1, <1>2, RunAt DEF RunState
<1>5. WalkedOpenly(q) /\ LeftRows(l, q)'
  BY <1>4 DEF WalkedOpenly, LeftRows, Underway
<1> QED
  BY <1>1, <1>3, <1>4, <1>5, OneWalkMoves DEF SimTypes

(* So does a step that leaves the walks alone.                             *)
LEMMA WalksRest ==
  ASSUME SimTypes, UNCHANGED <<world, callRow, bought, run, decided>>,
         activeProfile' \in DOMAIN Profiles
  PROVE  SimTypes'
<1>1. \A l \in SimLeads : WalkedOpenly(run[l])' /\ LeftRows(l, run[l])'
  BY DEF SimTypes, WalkedOpenly, LeftRows, Verdict
<1> QED
  BY <1>1 DEF SimTypes

(* Every step keeps the typed invariant.                                   *)
LEMMA SimTypesStay == SimTypes /\ SimNext => SimTypes'
<1> SUFFICES ASSUME SimTypes, SimNext PROVE SimTypes'
  OBVIOUS
<1>1. ASSUME NEW l \in SimLeads,
             StartRun(l) \/ StoreEvidence(l) \/ RecordCall(l) \/ RunDiesMidway(l)
      PROVE  SimTypes'
  BY <1>1, StartRunStays, StoreEvidenceStays, RecordCallStays, RunDiesStays
<1>2. ASSUME NEW l \in SimLeads, NEW confident \in BOOLEAN,
             Lookup(l, confident) \/ CommitDecision(l, confident)
      PROVE  SimTypes'
  BY <1>2, LookupStays, CommitDecisionStays
<1>3. ASSUME NEW f \in SCORED_FIELDS, FieldExpires(f) PROVE SimTypes'
  BY <1>3, WalksRest DEF FieldExpires, SimTypes
<1>4. ASSUME NEW v \in DOMAIN Profiles, ActivateProfile(v) PROVE SimTypes'
  BY <1>4, WalksRest DEF ActivateProfile
<1> QED
  BY <1>1, <1>2, <1>3, <1>4 DEF SimNext

(* One receipt can be replayed.                                            *)
Replays(l, r) ==
  /\ r.decision = Verdict(r.version, r.n).decision
  /\ \A m \in 0 .. r.n - 1 : Verdict(r.version, m).settled = "open"
  /\ r.stop = "decision_settled" => Verdict(r.version, r.n).reachable = {r.decision}
  /\ \A i \in 1 .. r.n : <<l, Walk[i].name>> \in DOMAIN callRow

(* The property, lead by lead.                                             *)
LEMMA ReplayableMeans == ReceiptIsReplayable <=> \A l \in DOMAIN decided : Replays(l, decided[l])
BY DEF ReceiptIsReplayable, Replays

(* A receipt replays as long as the world stays and no call row goes.      *)
LEMMA ReceiptsRest ==
  ASSUME ReceiptIsReplayable, UNCHANGED <<world, decided>>,
         DOMAIN callRow \in SUBSET DOMAIN callRow'
  PROVE  ReceiptIsReplayable'
<1>1. \A l \in DOMAIN decided : Replays(l, decided[l])
  BY ReplayableMeans
<1>2. \A l \in DOMAIN decided : Replays(l, decided[l])'
  BY <1>1 DEF Replays, Verdict
<1> QED
  BY <1>2 DEF ReceiptIsReplayable, Replays

(* The receipt that a commit writes replays.                               *)
LEMMA CommitIsReplayable ==
  ASSUME SimTypes, ReceiptIsReplayable, NEW l \in SimLeads, NEW confident,
         CommitDecision(l, confident)
  PROVE  ReceiptIsReplayable'
<1>1. PICK q : q = run[l]
  OBVIOUS
<1>2. q.at = "walking" /\ UNCHANGED <<world, callRow>>
  BY <1>1 DEF CommitDecision
<1>3. q.n \in Steps /\ q.version \in DOMAIN Profiles /\ WalkedOpenly(q) /\ LeftRows(l, q)
  BY <1>1, <1>2, RunAt DEF Underway
<1>4. PICK r : r = [version |-> q.version, n |-> q.n, autonomous |-> confident,
                    stop |-> StopReason(l, confident),
                    decision |-> Verdict(q.version, q.n).decision]
  OBVIOUS
<1>5. decided' = [k \in DOMAIN decided \cup {l} |-> IF k # l THEN decided[k] ELSE r]
  BY <1>1, <1>4 DEF CommitDecision, VersionOf, ConfigOf
<1>6. Replays(l, r)
  <2>1. r.decision = Verdict(r.version, r.n).decision /\ r.n = q.n /\ r.version = q.version
    BY <1>4
  <2>2. \A m \in 0 .. q.n - 1 : m \in 0 .. q.n /\ m < q.n
    BY <1>3, WalkIsTyped DEF Steps
  <2>3. \A m \in 0 .. r.n - 1 : Verdict(r.version, m).settled = "open"
    BY <1>2, <1>3, <2>1, <2>2 DEF WalkedOpenly, Underway
  <2>4. r.stop = "decision_settled" => Verdict(r.version, r.n).reachable = {r.decision}
    <3> SUFFICES ASSUME r.stop = "decision_settled"
                 PROVE  Verdict(r.version, r.n).reachable = {r.decision}
      OBVIOUS
    <3>1. Verdict(q.version, q.n).settled # "open"
      BY <1>1, <1>4 DEF StopReason, ConfigOf
    <3>2. /\ Verdict(q.version, q.n).reachable = {Verdict(q.version, q.n).settled}
          /\ Verdict(q.version, q.n).decision \in Verdict(q.version, q.n).reachable
      BY <1>3, <3>1, VerdictsAreRight DEF SimTypes
    <3> QED
      BY <2>1, <3>2
  <2>5. \A i \in 1 .. r.n : <<l, Walk[i].name>> \in DOMAIN callRow
    BY <1>2, <1>3, <2>1 DEF LeftRows, Underway
  <2> QED
    BY <2>1, <2>3, <2>4, <2>5 DEF Replays
<1>7. \A k \in DOMAIN decided' : Replays(k, decided'[k])
  BY <1>5, <1>6, ReplayableMeans
<1>8. \A k \in DOMAIN decided' : Replays(k, decided[k])'
  BY <1>2, <1>7 DEF Replays, Verdict
<1> QED
  BY <1>8 DEF ReceiptIsReplayable, Replays

(* Every step keeps the receipts replayable.                               *)
LEMMA ReceiptsStay == SimTypes /\ ReceiptIsReplayable /\ SimNext => ReceiptIsReplayable'
<1> SUFFICES ASSUME SimTypes, ReceiptIsReplayable, SimNext PROVE ReceiptIsReplayable'
  OBVIOUS
<1>1. ASSUME NEW l \in SimLeads, RecordCall(l) PROVE ReceiptIsReplayable'
  <2>1. DOMAIN callRow \in SUBSET DOMAIN callRow'
    BY <1>1 DEF RecordCall
  <2> QED
    BY <1>1, <2>1, ReceiptsRest DEF RecordCall
<1>2. ASSUME NEW l \in SimLeads, StartRun(l) \/ StoreEvidence(l) \/ RunDiesMidway(l)
      PROVE  ReceiptIsReplayable'
  BY <1>2, ReceiptsRest DEF StartRun, StoreEvidence, RunDiesMidway, TablesStay
<1>3. ASSUME NEW l \in SimLeads, NEW confident \in BOOLEAN, Lookup(l, confident)
      PROVE  ReceiptIsReplayable'
  BY <1>3, ReceiptsRest DEF Lookup
<1>4. ASSUME NEW l \in SimLeads, NEW confident \in BOOLEAN, CommitDecision(l, confident)
      PROVE  ReceiptIsReplayable'
  BY <1>4, CommitIsReplayable
<1>5. ASSUME NEW f \in SCORED_FIELDS, FieldExpires(f) PROVE ReceiptIsReplayable'
  BY <1>5, ReceiptsRest DEF FieldExpires
<1>6. ASSUME NEW v \in DOMAIN Profiles, ActivateProfile(v) PROVE ReceiptIsReplayable'
  BY <1>6, ReceiptsRest DEF ActivateProfile
<1> QED
  BY <1>1, <1>2, <1>3, <1>4, <1>5, <1>6 DEF SimNext

-----------------------------------------------------------------------------
(* The ledger of the walks: the rows that say a call was paid, and the calls *)
(* that were made and are not recorded yet.                                *)
RowsOf(spec, e) ==
  {l \in SimLeads : /\ Entity(l, spec) = e /\ <<l, spec.name>> \in DOMAIN callRow
                    /\ ~callRow[<<l, spec.name>>].hit}
(* The calls to an adapter about an entity whose row is still to be        *)
(* written.                                                                *)
Unrecorded(spec, e) ==
  {l \in SimLeads : /\ Entity(l, spec) = e /\ run[l].at \in {"store", "ledger"}
                    /\ Walk[run[l].n + 1] = spec}
(* What an adapter can be asked about.                                     *)
Entities(spec) == {Entity(l, spec) : l \in SimLeads}

(* The rows that are written and those still to be written are not more    *)
(* than the calls that were bought.                                        *)
LedgerCovers(spec, e) ==
  Cardinality(RowsOf(spec, e)) + Cardinality(Unrecorded(spec, e)) <= bought[<<spec.name, e>>]
(* The ledger's part of the invariant.                                     *)
CallsAreCovered == \A spec \in Range(Walk) : \A e \in Entities(spec) : LedgerCovers(spec, e)

(* Both are finite.                                                        *)
LEMMA WalkersAreFew ==
  \A spec, e : /\ IsFiniteSet(RowsOf(spec, e)) /\ IsFiniteSet(Unrecorded(spec, e))
               /\ Cardinality(RowsOf(spec, e)) \in Nat /\ Cardinality(Unrecorded(spec, e)) \in Nat
<1> SUFFICES ASSUME NEW spec, NEW e
             PROVE  /\ IsFiniteSet(RowsOf(spec, e)) /\ IsFiniteSet(Unrecorded(spec, e))
                    /\ Cardinality(RowsOf(spec, e)) \in Nat /\ Cardinality(Unrecorded(spec, e)) \in Nat
  OBVIOUS
<1>1. RowsOf(spec, e) \in SUBSET SimLeads /\ Unrecorded(spec, e) \in SUBSET SimLeads
  BY DEF RowsOf, Unrecorded
<1>2. IsFiniteSet(SimLeads)
  BY SimAssumption
<1> QED
  BY <1>1, <1>2, FS_Subset, FS_CardinalityType

(* A counter of calls has a place in the table.                            *)
LEMMA PlacesOfBought ==
  ASSUME NEW spec \in Range(Walk), NEW e \in Entities(spec), SimTypes
  PROVE  /\ <<spec.name, e>> \in Offered \X (SimLeads \cup {"company"})
         /\ bought[<<spec.name, e>>] \in Nat
<1>1. spec.name \in Offered
  BY WalkIsTyped
<1>2. e \in SimLeads \cup {"company"}
  BY DEF Entities, Entity
<1> QED
  BY <1>1, <1>2 DEF SimTypes

(* Fewer on both sides, the same calls.                                    *)
LEMMA CoveredByFewer ==
  ASSUME NEW R, NEW U, NEW R2 \in SUBSET R, NEW U2 \in SUBSET U,
         IsFiniteSet(R), IsFiniteSet(U), NEW b \in Int, Cardinality(R) + Cardinality(U) <= b
  PROVE  Cardinality(R2) + Cardinality(U2) <= b
<1>1. /\ Cardinality(R2) <= Cardinality(R) /\ Cardinality(U2) <= Cardinality(U)
      /\ IsFiniteSet(R2) /\ IsFiniteSet(U2)
  BY FS_Subset
<1>2. /\ Cardinality(R) \in Nat /\ Cardinality(U) \in Nat
      /\ Cardinality(R2) \in Nat /\ Cardinality(U2) \in Nat
  BY <1>1, FS_CardinalityType
<1>3. \A i, j, x, y \in Nat : i <= x /\ j <= y /\ x + y <= b => i + j <= b
  OBVIOUS
<1> QED
  BY <1>1, <1>2, <1>3

(* One that was unrecorded has its row now, if it did not have one.        *)
LEMMA CoveredByRecording ==
  ASSUME NEW R, NEW U, NEW l \in U, NEW R2 \in SUBSET (R \cup {l}), NEW U2 \in SUBSET (U \ {l}),
         IsFiniteSet(R), IsFiniteSet(U), NEW b \in Int, Cardinality(R) + Cardinality(U) <= b
  PROVE  Cardinality(R2) + Cardinality(U2) <= b
<1>1. /\ IsFiniteSet(R \cup {l}) /\ IsFiniteSet(U \ {l})
      /\ Cardinality(U \ {l}) = Cardinality(U) - 1
      /\ Cardinality(R \cup {l}) = Cardinality(R) \/ Cardinality(R \cup {l}) = Cardinality(R) + 1
  BY FS_AddElement, FS_RemoveElement
<1>2. Cardinality(R) \in Nat /\ Cardinality(U) \in Nat
  BY FS_CardinalityType
<1>3. \A i, j, x, y \in Int :
        j = y - 1 /\ (i = x \/ i = x + 1) /\ x + y <= b => i + j <= b
  OBVIOUS
<1>4. Cardinality(R \cup {l}) + Cardinality(U \ {l}) <= b
  <2>1. Cardinality(R \cup {l}) \in Int /\ Cardinality(U \ {l}) \in Int
    BY <1>1, FS_CardinalityType
  <2> QED
    BY <1>1, <1>2, <1>3, <2>1
<1> QED
  BY <1>1, <1>4, CoveredByFewer

(* One more call, which is not recorded yet.                               *)
LEMMA CoveredByCalling ==
  ASSUME NEW R, NEW U, NEW l, NEW R2 \in SUBSET R, NEW U2 \in SUBSET (U \cup {l}),
         IsFiniteSet(R), IsFiniteSet(U), NEW b \in Int, Cardinality(R) + Cardinality(U) <= b
  PROVE  Cardinality(R2) + Cardinality(U2) <= b + 1
<1>1. /\ IsFiniteSet(U \cup {l})
      /\ Cardinality(U \cup {l}) = Cardinality(U) \/ Cardinality(U \cup {l}) = Cardinality(U) + 1
  BY FS_AddElement
<1>2. Cardinality(R) \in Nat /\ Cardinality(U) \in Nat /\ Cardinality(U \cup {l}) \in Nat
  BY <1>1, FS_CardinalityType
<1>3. \A j, x, y \in Int : (j = y \/ j = y + 1) /\ x + y <= b => x + j <= b + 1
  OBVIOUS
<1>4. Cardinality(R) + Cardinality(U \cup {l}) <= b + 1 /\ b + 1 \in Int
  BY <1>1, <1>2, <1>3
<1> QED
  BY <1>1, <1>4, CoveredByFewer

(* It holds when nothing has been called.                                  *)
LEMMA CallsBegin == SimInit => CallsAreCovered
<1> SUFFICES ASSUME SimInit, NEW spec \in Range(Walk), NEW e \in Entities(spec)
             PROVE  LedgerCovers(spec, e)
  BY DEF CallsAreCovered
<1>1. RowsOf(spec, e) = {}
  BY DEF SimInit, RowsOf
<1>2. Unrecorded(spec, e) = {}
  BY DEF SimInit, Unrecorded, NotRunning
<1>3. bought[<<spec.name, e>>] = 0
  BY SimBegins, PlacesOfBought DEF SimInit
<1> QED
  BY <1>1, <1>2, <1>3, FS_EmptySet DEF LedgerCovers

(* A step that only takes from both keeps the ledger covered.              *)
LEMMA CoveredIfFewer ==
  ASSUME SimTypes, CallsAreCovered, bought' = bought,
         \A spec \in Range(Walk) : \A e \in Entities(spec) :
           RowsOf(spec, e)' \in SUBSET RowsOf(spec, e) /\ Unrecorded(spec, e)' \in SUBSET Unrecorded(spec, e)
  PROVE  CallsAreCovered'
<1>1. ASSUME NEW spec \in Range(Walk), NEW e \in Entities(spec) PROVE LedgerCovers(spec, e)'
  <2>1. LedgerCovers(spec, e) /\ bought[<<spec.name, e>>] \in Int
    BY <1>1, PlacesOfBought DEF CallsAreCovered
  <2>2. Cardinality(RowsOf(spec, e)') + Cardinality(Unrecorded(spec, e)') <= bought[<<spec.name, e>>]
    BY <1>1, <2>1, WalkersAreFew, CoveredByFewer DEF LedgerCovers
  <2> QED
    BY <2>2 DEF LedgerCovers
<1> QED
  BY <1>1 DEF CallsAreCovered, Entities, Entity

(* A walk that changes alone changes no other walk's unrecorded call.      *)
LEMMA UnrecordedOfOthers ==
  ASSUME SimTypes, NEW l \in SimLeads, NEW q, run' = [run EXCEPT ![l] = q]
  PROVE  /\ run'[l] = q
         /\ \A spec, e : \A k \in SimLeads : k # l =>
              (k \in Unrecorded(spec, e)' <=> k \in Unrecorded(spec, e))
<1>1. run'[l] = q /\ \A k \in SimLeads : k # l => run'[k] = run[k]
  BY DEF SimTypes
<1> QED
  BY <1>1 DEF Unrecorded

(* So does moving a walk that does not come to owe a row.                  *)
LEMMA NoNewCalls ==
  ASSUME SimTypes, CallsAreCovered, NEW l \in SimLeads, NEW q, run' = [run EXCEPT ![l] = q],
         UNCHANGED <<callRow, bought>>,
         q.at \in {"store", "ledger"} => run[l].at \in {"store", "ledger"} /\ q.n = run[l].n
  PROVE  CallsAreCovered'
<1>1. \A spec, e : Unrecorded(spec, e)' \in SUBSET Unrecorded(spec, e)
  <2> SUFFICES ASSUME NEW spec, NEW e, NEW k \in Unrecorded(spec, e)'
               PROVE  k \in Unrecorded(spec, e)
    OBVIOUS
  <2>1. k \in SimLeads
    BY DEF Unrecorded
  <2>2. CASE k # l
    BY <2>1, <2>2, UnrecordedOfOthers
  <2>3. CASE k = l
    <3>1. run'[l] = q
      BY UnrecordedOfOthers
    <3> QED
      BY <2>1, <2>3, <3>1 DEF Unrecorded
  <2> QED
    BY <2>2, <2>3
<1>2. \A spec, e : RowsOf(spec, e)' = RowsOf(spec, e)
  BY DEF RowsOf
<1> QED
  BY <1>1, <1>2, CoveredIfFewer

(* A lookup that calls the adapter owes one row more.                      *)
LEMMA LookupIsCovered ==
  ASSUME SimTypes, CallsAreCovered, NEW l \in SimLeads, NEW confident, Lookup(l, confident)
  PROVE  CallsAreCovered'
<1>1. PICK s : s = Walk[run[l].n + 1]
  OBVIOUS
<1>2. /\ run[l].at = "walking" /\ StopReason(l, confident) = "none"
      /\ UNCHANGED <<callRow>>
  BY DEF Lookup
<1>3. run[l].n + 1 \in 1 .. Len(Walk)
  BY <1>2, OpenAt
<1>4. s \in Range(Walk)
  BY <1>1, <1>3, WalkIsTyped
<1>5. CASE Cached(l, s)
  <2>1. PICK q : q = [run[l] EXCEPT !.at = "hit"]
    OBVIOUS
  <2>2. run' = [run EXCEPT ![l] = q] /\ bought' = bought
    BY <1>1, <1>5, <2>1 DEF Lookup, RunBecomes, SimTypes
  <2>3. q.at = "hit"
    BY <1>2, <2>1, RunAt DEF Underway
  <2> QED
    BY <1>2, <2>2, <2>3, NoNewCalls
<1>6. CASE ~Cached(l, s)
  <2>1. PICK at \in {"store", "ledger"} :
          /\ run' = [run EXCEPT ![l].at = at]
          /\ bought' = [bought EXCEPT ![<<s.name, Entity(l, s)>>] = @ + 1]
    BY <1>1, <1>6 DEF Lookup, RunBecomes
  <2>2. PICK q : q = [run[l] EXCEPT !.at = at]
    OBVIOUS
  <2>3. run' = [run EXCEPT ![l] = q]
    BY <2>1, <2>2 DEF SimTypes
  <2>4. q.at = at /\ q.n = run[l].n
    BY <1>2, <2>2, RunAt DEF Underway
  <2>5. \A spec, e : RowsOf(spec, e)' = RowsOf(spec, e)
    BY <1>2 DEF RowsOf
  <2>6. l \notin UNION {Unrecorded(spec, e) : spec \in Range(Walk), e \in SimLeads \cup {"company"}}
    BY <1>2 DEF Unrecorded
  <2>7. ASSUME NEW spec \in Range(Walk), NEW e \in Entities(spec) PROVE LedgerCovers(spec, e)'
    <3>1. LedgerCovers(spec, e) /\ bought[<<spec.name, e>>] \in Int
      BY <2>7, PlacesOfBought DEF CallsAreCovered
    <3>2. PICK key : key = <<s.name, Entity(l, s)>>
      OBVIOUS
    <3>3. bought' = [bought EXCEPT ![key] = bought[key] + 1]
      BY <2>1, <3>2
    <3>4. PICK place2 : place2 = <<spec.name, e>>
      OBVIOUS
    <3>5. place2 \in DOMAIN bought /\ bought[place2] \in Int
      BY <2>7, <3>4, PlacesOfBought DEF SimTypes
    <3>6. CASE spec = s /\ e = Entity(l, s)
      <4>1. bought'[place2] = bought[place2] + 1
        BY <3>2, <3>3, <3>4, <3>5, <3>6
      <4>2. Unrecorded(spec, e)' \in SUBSET (Unrecorded(spec, e) \cup {l})
        BY <2>3, UnrecordedOfOthers DEF Unrecorded
      <4>3. RowsOf(spec, e)' \in SUBSET RowsOf(spec, e)
        BY <2>5
      <4>4. Cardinality(RowsOf(spec, e)') + Cardinality(Unrecorded(spec, e)') <= bought[place2] + 1
        BY <3>1, <3>4, <3>5, <4>2, <4>3, WalkersAreFew, CoveredByCalling DEF LedgerCovers
      <4> QED
        BY <3>4, <4>1, <4>4 DEF LedgerCovers
    <3>7. CASE ~(spec = s /\ e = Entity(l, s))
      <4>1. place2 # key
        <5>1. spec.name = s.name => spec = s
          BY <1>4, <2>7, WalkIsTyped, CatalogueIsTyped
        <5> QED
          BY <3>2, <3>4, <3>7, <5>1
      <4>2. bought'[place2] = bought[place2]
        BY <3>3, <3>5, <4>1
      <4>3. Unrecorded(spec, e)' \in SUBSET Unrecorded(spec, e)
        <5> SUFFICES ASSUME NEW k \in Unrecorded(spec, e)' PROVE k \in Unrecorded(spec, e)
          OBVIOUS
        <5>1. k \in SimLeads
          BY DEF Unrecorded
        <5>2. CASE k # l
          BY <2>3, <5>1, <5>2, UnrecordedOfOthers
        <5>3. CASE k = l
          <6>1. run'[l] = q
            BY <2>3, UnrecordedOfOthers
          <6>2. Walk[q.n + 1] = spec /\ Entity(l, spec) = e
            BY <5>3, <6>1 DEF Unrecorded
          <6> QED
            BY <1>1, <2>4, <3>7, <6>2
        <5> QED
          BY <5>2, <5>3
      <4>4. RowsOf(spec, e)' \in SUBSET RowsOf(spec, e)
        BY <2>5
      <4>5. Cardinality(RowsOf(spec, e)') + Cardinality(Unrecorded(spec, e)') <= bought[place2]
        BY <3>1, <3>4, <3>5, <4>3, <4>4, WalkersAreFew, CoveredByFewer DEF LedgerCovers
      <4> QED
        BY <3>4, <4>2, <4>5 DEF LedgerCovers
    <3> QED
      BY <3>6, <3>7
  <2> QED
    BY <2>7 DEF CallsAreCovered, Entities, Entity
<1> QED
  BY <1>5, <1>6

(* Writing the row pays the debt.                                          *)
LEMMA RecordCallIsCovered ==
  ASSUME SimTypes, CallsAreCovered, NEW l \in SimLeads, RecordCall(l)
  PROVE  CallsAreCovered'
<1>1. PICK s : s = Walk[run[l].n + 1]
  OBVIOUS
<1>2. run[l].at \in {"ledger", "hit"} /\ bought' = bought
  BY DEF RecordCall
<1>3. PICK new : /\ new.hit = (run[l].at = "hit")
                 /\ callRow' = [k \in DOMAIN callRow \cup DOMAIN FirstRow(l, s, new) |->
                                  IF k \in DOMAIN FirstRow(l, s, new) THEN FirstRow(l, s, new)[k]
                                  ELSE callRow[k]]
  <2>1. PICK new : /\ \E c : new = [hit |-> run[l].at = "hit", cost |-> c]
                   /\ callRow' = [k \in DOMAIN callRow \cup DOMAIN FirstRow(l, s, new) |->
                                    IF k \in DOMAIN FirstRow(l, s, new) THEN FirstRow(l, s, new)[k]
                                    ELSE callRow[k]]
    BY <1>1 DEF RecordCall
  <2>2. new.hit = (run[l].at = "hit")
    BY <2>1
  <2> QED
    BY <2>1, <2>2
<1>4. PICK q : q = [run[l] EXCEPT !.at = "walking", !.n = run[l].n + 1]
  OBVIOUS
<1>5. run' = [run EXCEPT ![l] = q]
  BY <1>4 DEF SimTypes, RecordCall
<1>6. q.at = "walking"
  <2>1. run[l] \in [at : Underway \cup {"done"}, runs : Nat, n : Steps, version : DOMAIN Profiles]
    BY <1>2, RunAt DEF RunState, Underway
  <2> QED
    BY <1>4, <2>1
<1>7. PICK key : key = <<l, s.name>>
  OBVIOUS
<1>8. /\ \A k : k # key => (k \in DOMAIN callRow' <=> k \in DOMAIN callRow)
      /\ \A k \in DOMAIN callRow : callRow'[k] = callRow[k]
      /\ key \notin DOMAIN callRow => callRow'[key] = new
  <2>1. CASE key \in DOMAIN callRow
    <3>1. FirstRow(l, s, new) = << >>
      BY <1>7, <2>1 DEF FirstRow
    <3>2. DOMAIN FirstRow(l, s, new) = {}
      BY <3>1
    <3> QED
      BY <1>3, <2>1, <3>2
  <2>2. CASE key \notin DOMAIN callRow
    <3>1. FirstRow(l, s, new) = [k \in {key} |-> new]
      BY <1>7, <2>2 DEF FirstRow
    <3>2. PICK row : row = FirstRow(l, s, new)
      OBVIOUS
    <3>3. callRow' = [k \in DOMAIN callRow \cup {key} |-> IF k = key THEN new ELSE callRow[k]]
      BY <1>3, <3>1
    <3> QED
      BY <2>2, <3>3
  <2> QED
    BY <2>1, <2>2
<1>9. ASSUME NEW spec, NEW e, NEW k \in SimLeads, k # l \/ spec.name # s.name
      PROVE  k \in RowsOf(spec, e)' <=> k \in RowsOf(spec, e)
  <2>1. PICK other : other = <<k, spec.name>>
    OBVIOUS
  <2>2. other # key
    BY <1>7, <1>9, <2>1
  <2>3. other \in DOMAIN callRow' <=> other \in DOMAIN callRow
    BY <1>8, <2>2
  <2>4. other \in DOMAIN callRow => callRow'[other] = callRow[other]
    BY <1>8
  <2> QED
    BY <2>1, <2>3, <2>4 DEF RowsOf
<1>10. \A spec, e : Unrecorded(spec, e)' \in SUBSET (Unrecorded(spec, e) \ {l})
  <2> SUFFICES ASSUME NEW spec, NEW e, NEW k \in Unrecorded(spec, e)'
               PROVE  k \in Unrecorded(spec, e) \ {l}
    OBVIOUS
  <2>1. k \in SimLeads /\ run'[k].at \in {"store", "ledger"}
    BY DEF Unrecorded
  <2>2. k # l
    BY <1>5, <1>6, <2>1, UnrecordedOfOthers
  <2> QED
    BY <1>5, <2>1, <2>2, UnrecordedOfOthers
<1>11. ASSUME NEW spec \in Range(Walk), NEW e \in Entities(spec) PROVE LedgerCovers(spec, e)'
  <2>1. LedgerCovers(spec, e) /\ bought[<<spec.name, e>>] \in Int
    BY <1>11, PlacesOfBought DEF CallsAreCovered
  <2>2. PICK b : b = bought[<<spec.name, e>>]
    OBVIOUS
  <2>3. Cardinality(RowsOf(spec, e)) + Cardinality(Unrecorded(spec, e)) <= b /\ b \in Int
    BY <2>1, <2>2 DEF LedgerCovers
  <2>4. CASE l \in Unrecorded(spec, e)
    <3>1. RowsOf(spec, e)' \in SUBSET (RowsOf(spec, e) \cup {l})
      <4> SUFFICES ASSUME NEW k \in RowsOf(spec, e)', k # l PROVE k \in RowsOf(spec, e)
        OBVIOUS
      <4>1. k \in SimLeads
        BY DEF RowsOf
      <4> QED
        BY <1>9, <4>1
    <3>2. Unrecorded(spec, e)' \in SUBSET (Unrecorded(spec, e) \ {l})
      BY <1>10
    <3> QED
      <4>1. Cardinality(RowsOf(spec, e)') + Cardinality(Unrecorded(spec, e)') <= b
        BY <2>3, <2>4, <3>1, <3>2, WalkersAreFew, CoveredByRecording
      <4> QED
        BY <1>2, <2>2, <4>1 DEF LedgerCovers
  <2>5. CASE l \notin Unrecorded(spec, e)
    <3>1. RowsOf(spec, e)' \in SUBSET RowsOf(spec, e)
      <4> SUFFICES ASSUME NEW k \in RowsOf(spec, e)' PROVE k \in RowsOf(spec, e)
        OBVIOUS
      <4>1. k \in SimLeads /\ Entity(k, spec) = e
        BY DEF RowsOf, Entity
      <4>2. CASE k # l \/ spec.name # s.name
        BY <1>9, <4>1, <4>2
      <4>3. CASE k = l /\ spec.name = s.name
        <5>1. run[l].n + 1 \in 1 .. Len(Walk)
          BY <1>2, PassedIsOpen
        <5>2. s \in Range(Walk)
          BY <1>1, <5>1, WalkIsTyped
        <5>3. spec = s
          BY <1>11, <4>3, <5>2, WalkIsTyped, CatalogueIsTyped
        <5>4. run[l].at = "hit"
          BY <1>1, <1>2, <2>5, <4>1, <4>3, <5>3 DEF Unrecorded
        <5>5. key \in DOMAIN callRow
          <6>1. ~callRow'[key].hit
            BY <1>7, <4>3 DEF RowsOf
          <6> QED
            BY <1>3, <1>8, <5>4, <6>1
        <5> QED
          BY <1>7, <1>8, <4>1, <4>3, <5>5 DEF RowsOf
      <4> QED
        BY <4>2, <4>3
    <3>2. Unrecorded(spec, e)' \in SUBSET Unrecorded(spec, e)
      BY <1>10
    <3>3. Cardinality(RowsOf(spec, e)') + Cardinality(Unrecorded(spec, e)') <= b
      BY <2>3, <3>1, <3>2, WalkersAreFew, CoveredByFewer
    <3> QED
      BY <1>2, <2>2, <3>3 DEF LedgerCovers
  <2> QED
    BY <2>4, <2>5
<1> QED
  BY <1>11 DEF CallsAreCovered, Entities, Entity

(* Every step keeps the ledger covering.                                   *)
LEMMA CallsStayCovered == SimTypes /\ CallsAreCovered /\ SimNext => CallsAreCovered'
<1> SUFFICES ASSUME SimTypes, CallsAreCovered, SimNext PROVE CallsAreCovered'
  OBVIOUS
<1>1. ASSUME NEW l \in SimLeads, StartRun(l) PROVE CallsAreCovered'
  <2>1. PICK q : /\ q = [at |-> "walking", runs |-> run[l].runs + 1, n |-> 0, version |-> activeProfile]
                 /\ run' = [run EXCEPT ![l] = q]
    BY <1>1 DEF StartRun
  <2>2. q.at = "walking" /\ UNCHANGED <<callRow, bought>>
    BY <1>1, <2>1 DEF StartRun, TablesStay
  <2> QED
    BY <2>1, <2>2, NoNewCalls
<1>2. ASSUME NEW l \in SimLeads, StoreEvidence(l) PROVE CallsAreCovered'
  <2>1. PICK q : q = [run[l] EXCEPT !.at = "ledger"]
    OBVIOUS
  <2>2. run[l].at = "store" /\ run' = [run EXCEPT ![l] = q] /\ UNCHANGED <<callRow, bought>>
    BY <1>2, <2>1 DEF StoreEvidence, RunBecomes, SimTypes
  <2>3. q.n = run[l].n
    BY <2>1, <2>2, RunAt DEF Underway
  <2> QED
    BY <2>2, <2>3, NoNewCalls
<1>3. ASSUME NEW l \in SimLeads, RecordCall(l) PROVE CallsAreCovered'
  BY <1>3, RecordCallIsCovered
<1>4. ASSUME NEW l \in SimLeads, RunDiesMidway(l) PROVE CallsAreCovered'
  <2>1. PICK q : /\ q = [at |-> "queued", runs |-> run[l].runs, n |-> 0]
                 /\ run' = [run EXCEPT ![l] = q]
    BY <1>4 DEF RunDiesMidway
  <2>2. q.at = "queued" /\ UNCHANGED <<callRow, bought>>
    BY <1>4, <2>1 DEF RunDiesMidway, TablesStay
  <2> QED
    BY <2>1, <2>2, NoNewCalls
<1>5. ASSUME NEW l \in SimLeads, NEW confident \in BOOLEAN, Lookup(l, confident)
      PROVE  CallsAreCovered'
  BY <1>5, LookupIsCovered
<1>6. ASSUME NEW l \in SimLeads, NEW confident \in BOOLEAN, CommitDecision(l, confident)
      PROVE  CallsAreCovered'
  <2>1. PICK q : q = [run[l] EXCEPT !.at = "done"]
    OBVIOUS
  <2>2. run[l].at = "walking" /\ run' = [run EXCEPT ![l] = q] /\ UNCHANGED <<callRow, bought>>
    BY <1>6, <2>1 DEF CommitDecision, RunBecomes, SimTypes
  <2>3. q.at = "done"
    BY <2>1, <2>2, RunAt DEF Underway
  <2> QED
    BY <2>2, <2>3, NoNewCalls
<1>7. ASSUME UNCHANGED <<callRow, bought, run>> PROVE CallsAreCovered'
  BY <1>7, CoveredIfFewer DEF RowsOf, Unrecorded
<1> QED
  BY <1>1, <1>2, <1>3, <1>4, <1>5, <1>6, <1>7 DEF SimNext, FieldExpires, ActivateProfile

(* A ledger that covers never shows more than was bought.                  *)
LEMMA CoveredMeansNoInventions == SimTypes /\ CallsAreCovered => LedgerNeverInvents
<1> SUFFICES ASSUME SimTypes, CallsAreCovered, NEW spec \in Range(Walk), NEW e \in Entities(spec)
             PROVE  Cardinality(RowsOf(spec, e)) <= bought[<<spec.name, e>>]
  BY DEF LedgerNeverInvents, Entities, RowsOf
<1>1. /\ Cardinality(RowsOf(spec, e)) + Cardinality(Unrecorded(spec, e)) <= bought[<<spec.name, e>>]
      /\ bought[<<spec.name, e>>] \in Nat
  BY PlacesOfBought DEF CallsAreCovered, LedgerCovers
<1>2. Cardinality(RowsOf(spec, e)) \in Nat /\ Cardinality(Unrecorded(spec, e)) \in Nat
  BY WalkersAreFew
<1>3. \A x, y, z \in Nat : x + y <= z => x <= z
  OBVIOUS
<1> QED
  BY <1>1, <1>2, <1>3

(* What a source has answered completely is not bought while it is fresh.  *)
LEMMA SharedAnswersStayFree == SimTypes /\ SimNext => SharedAnswerIsFree
<1> SUFFICES ASSUME SimTypes, SimNext, NEW spec \in Range(Walk), NEW e \in Entities(spec),
                    {<<spec.name, e, f>> : f \in spec.fields} \in SUBSET shared
             PROVE  bought'[<<spec.name, e>>] = bought[<<spec.name, e>>]
  BY DEF SharedAnswerIsFree, Entities
<1>1. ASSUME NEW l \in SimLeads, NEW confident \in BOOLEAN, Lookup(l, confident)
      PROVE  bought'[<<spec.name, e>>] = bought[<<spec.name, e>>]
  <2>1. PICK s : s = Walk[run[l].n + 1]
    OBVIOUS
  <2>2. run[l].at = "walking" /\ StopReason(l, confident) = "none"
    BY <1>1 DEF Lookup
  <2>3. run[l].n + 1 \in 1 .. Len(Walk)
    BY <2>2, OpenAt
  <2>4. s \in Range(Walk)
    BY <2>1, <2>3, WalkIsTyped
  <2>5. CASE Cached(l, s)
    BY <1>1, <2>1, <2>5 DEF Lookup
  <2>6. CASE ~Cached(l, s)
    <3>1. PICK key : key = <<s.name, Entity(l, s)>>
      OBVIOUS
    <3>2. PICK q : q = <<spec.name, e>>
      OBVIOUS
    <3>3. bought' = [bought EXCEPT ![key] = bought[key] + 1]
      BY <1>1, <2>1, <2>6, <3>1 DEF Lookup
    <3>4. q # key
      <4> SUFFICES ASSUME q = key PROVE FALSE
        OBVIOUS
      <4>1. spec.name = s.name /\ e = Entity(l, s)
        BY <3>1, <3>2
      <4>2. spec = s
        BY <2>4, <4>1, WalkIsTyped, CatalogueIsTyped
      <4> QED
        BY <2>6, <4>1, <4>2 DEF Cached
    <3>5. q \in DOMAIN bought
      BY <3>2, PlacesOfBought DEF SimTypes
    <3> QED
      BY <3>2, <3>3, <3>4, <3>5
  <2> QED
    BY <2>5, <2>6
<1>2. CASE bought' = bought
  BY <1>2
<1> QED
  BY <1>1, <1>2 DEF SimNext, StartRun, StoreEvidence, RecordCall, RunDiesMidway, CommitDecision,
     FieldExpires, ActivateProfile, TablesStay

-----------------------------------------------------------------------------
(* The benchmark: what a policy sees and what it expects.                  *)
LEMMA PictureIsWhatTheEngineSays ==
  ASSUME NEW w \in DOMAIN Worlds, NEW names \in SUBSET Priced
  PROVE  LET p == Picture(w, names)
             c == REFERENCE_CONFIG
         IN  /\ p.bounds = ComputeBounds(c, p.facts)
             /\ p.decision = DecisionFor(c, p.bounds.current)
             /\ p.settled <=> SettledDecision(c, p.bounds) # "open"
             /\ p.reachable = ReachableDecisions(c, p.facts)
<1> DEFINE Claims(v, ns) ==
             UNION {{[field |-> f, value |-> GivenIn(v, Rates[i])[f],
                      trust |-> Rates[i].trust, rank |-> i] :
                        f \in DOMAIN GivenIn(v, Rates[i])} :
                     i \in {j \in DOMAIN Rates : Rates[j].name \in ns}}
           Facts(v, ns) == ResolveCandidates(Claims(v, ns))
           Bounds(v, ns) == ComputeBounds(REFERENCE_CONFIG, Facts(v, ns))
           Of(v, ns) ==
             [world |-> v, names |-> ns, facts |-> Facts(v, ns), bounds |-> Bounds(v, ns),
              decision |-> DecisionFor(REFERENCE_CONFIG, Bounds(v, ns).current),
              settled |-> SettledDecision(REFERENCE_CONFIG, Bounds(v, ns)) # "open",
              reachable |-> ReachableDecisions(REFERENCE_CONFIG, Facts(v, ns))]
<1>1. Pictures = {Of(v, ns) : v \in DOMAIN Worlds, ns \in SUBSET Priced}
  BY DEF Pictures
<1> HIDE DEF Facts, Bounds
<1>2. \A v, ns : Of(v, ns).world = v /\ Of(v, ns).names = ns
  OBVIOUS
<1>3. PICK p : p = Picture(w, names)
  OBVIOUS
<1>4. p \in Pictures /\ p.world = w /\ p.names = names
  <2>1. Of(w, names) \in Pictures
    <3> HIDE DEF Of
    <3> QED
      BY <1>1
  <2>2. \E x \in Pictures : x.world = w /\ x.names = names
    <3> HIDE DEF Of
    <3> QED
      BY <1>2, <2>1
  <2> QED
    BY <1>3, <2>2 DEF Picture
<1>5. p = Of(w, names)
  <2>1. PICK v \in DOMAIN Worlds, ns \in SUBSET Priced : p = Of(v, ns)
    <3> HIDE DEF Of
    <3> QED
      BY <1>1, <1>4
  <2> HIDE DEF Of
  <2> QED
    BY <1>2, <1>4, <2>1
<1>6. /\ p.facts = Facts(w, names) /\ p.bounds = Bounds(w, names)
      /\ p.decision = DecisionFor(REFERENCE_CONFIG, Bounds(w, names).current)
      /\ p.settled = (SettledDecision(REFERENCE_CONFIG, Bounds(w, names)) # "open")
      /\ p.reachable = ReachableDecisions(REFERENCE_CONFIG, Facts(w, names))
  BY <1>5
<1>7. Bounds(w, names) = ComputeBounds(REFERENCE_CONFIG, Facts(w, names))
  BY DEF Bounds
<1> QED
  BY <1>3, <1>6, <1>7

(* A policy that stops for what it sees stops rightly.                     *)
LEMMA PicturesAreRight ==
  ASSUME NEW w \in DOMAIN Worlds, NEW names \in SUBSET Priced
  PROVE  LET p == Picture(w, names)
         IN  /\ p.bounds.current \in Nat /\ p.bounds.upper \in Nat
             /\ p.settled => p.reachable = {p.decision}
             /\ p.bounds.upper < REFERENCE_CONFIG.reject => p.reachable = {"reject"}
<1> DEFINE c == REFERENCE_CONFIG
           p == Picture(w, names)
<1>1. ConfigIsSound(c)
  BY ReferenceIsSound
<1>2. /\ p.bounds = ComputeBounds(c, p.facts)
      /\ p.decision = DecisionFor(c, p.bounds.current)
      /\ p.settled <=> SettledDecision(c, p.bounds) # "open"
      /\ p.reachable = ReachableDecisions(c, p.facts)
  BY PictureIsWhatTheEngineSays
<1> HIDE DEF p, c
<1>3. /\ p.bounds.current \in Nat /\ p.bounds.upper \in Nat
      /\ p.bounds.current = ScoreFacts(c, p.facts)
  BY <1>1, <1>2, BoundsAreExact
<1>4. /\ SettledDecision(c, p.bounds) # "open" => p.reachable = {SettledDecision(c, p.bounds)}
      /\ p.decision \in p.reachable
      /\ p.bounds.upper < c.reject => p.reachable = {"reject"}
  BY <1>1, <1>2, <1>3, SettledIsRight
<1>5. p.settled => p.reachable = {p.decision}
  BY <1>2, <1>4
<1> QED
  BY <1>3, <1>4, <1>5 DEF p, c

(* The price list of the policies is a sequence of priced adapters.        *)
LEMMA RatesAreTyped ==
  /\ Rates \in Seq(Specs) /\ Len(Rates) \in Nat /\ DOMAIN Rates = 1 .. Len(Rates)
  /\ \A a \in Range(Rates) : a \in Specs /\ a.name \in Priced
<1>1. Rates \in Seq(Specs) /\ \A a \in Range(Rates) : a \in Specs /\ a.name \in Priced
  BY SourcedIsTyped DEF Rates
<1> QED
  BY <1>1

(* Prices and coverages are naturals.                                      *)
LEMMA EconomicsAreTyped ==
  \A a \in Specs :
    /\ a.price \in Nat /\ a.fields \in SUBSET SCORED_FIELDS
    /\ ECONOMICS[a.name].coverage \in Nat /\ ECONOMICS[a.name].latency \in Nat
<1>1. \A i \in 1 .. 8 : /\ ECONOMICS[CATALOG[i].name].coverage \in Nat
                        /\ ECONOMICS[CATALOG[i].name].latency \in Nat
  BY DEF CATALOG, ECONOMICS
<1>2. \A i \in 1 .. 8 : CATALOG[i].fields \in SUBSET SCORED_FIELDS
  BY AdditiveFields DEF CATALOG, SCORED_FIELDS, DISQUALIFIER_FIELD
<1>3. ASSUME NEW a \in Specs PROVE \E i \in 1 .. 8 : a = CATALOG[i]
  <2>1. DOMAIN CATALOG = 1 .. 8
    BY DEF CATALOG
  <2> QED
    BY <2>1 DEF Specs, Range
<1> QED
  BY <1>1, <1>2, <1>3, CatalogueIsTyped

(* The quotient by a positive number is an integer, and a natural of a     *)
(* natural.                                                                *)
LEMMA Quotients ==
  ASSUME NEW x \in Int, NEW d \in Nat \ {0}
  PROVE  x \div d \in Int /\ (x = 0 => x \div d = 0) /\ (x \in Nat => x \div d \in Nat)
OBVIOUS

(* Products, sums and differences of integers are integers.                *)
LEMMA Products ==
  ASSUME NEW x \in Int, NEW y \in Int
  PROVE  /\ x * y \in Int /\ x - y \in Int /\ x + y \in Int
         /\ (x \in Nat /\ y \in Nat => x * y \in Nat) /\ (x = 0 \/ y = 0 => x * y = 0)
OBVIOUS

(* The weight of a field is a natural.                                     *)
LEMMA WeightsAreNatural ==
  ASSUME NEW fs \in SUBSET SCORED_FIELDS
  PROVE  Weight(fs) \in Nat /\ (fs = {} => Weight(fs) = 0)
<1>1. \A f \in SCORED_FIELDS : COMPLETENESS_WEIGHTS[f] \in Nat
  <2> SUFFICES ASSUME NEW f \in SCORED_FIELDS PROVE COMPLETENESS_WEIGHTS[f] \in Nat
    OBVIOUS
  <2>1. COMPLETENESS_WEIGHTS[f] =
          IF f = DISQUALIFIER_FIELD THEN 20 ELSE MaxFieldPoints(REFERENCE_CONFIG, f)
    BY DEF COMPLETENESS_WEIGHTS
  <2>2. f = DISQUALIFIER_FIELD \/ f \in ADDITIVE_FIELDS
    BY DEF SCORED_FIELDS
  <2>3. f \in ADDITIVE_FIELDS => MaxFieldPoints(REFERENCE_CONFIG, f) \in 0 .. 100
    BY ReferenceIsSound, FieldCeilings
  <2> QED
    BY <2>1, <2>2, <2>3
<1>2. IsFiniteSet(fs)
  BY AdditiveFields, FS_Subset
<1>3. \A f \in fs : COMPLETENESS_WEIGHTS[f] \in Nat
  BY <1>1
<1>4. SumFunctionOnSet(COMPLETENESS_WEIGHTS, fs) \in Nat
  BY <1>2, <1>3, SumOfNaturals
<1> QED
  BY <1>4, SumEmpty DEF Weight

(* The share of the missing information that an adapter brings is an       *)
(* integer.                                                                *)
LEMMA InformationShareIsInteger ==
  ASSUME NEW facts, NEW a \in Specs
  PROVE  /\ InformationShare(facts, a) \in Int
         /\ Unknown(facts, a) = {} => InformationShare(facts, a) = 0
<1> DEFINE missing == Weight(SCORED_FIELDS \ DOMAIN facts)
           supplied == Weight(Supplied(facts, a))
           coverage == ECONOMICS[a.name].coverage
<1>1. missing \in Nat
  <2>1. SCORED_FIELDS \ DOMAIN facts \in SUBSET SCORED_FIELDS
    OBVIOUS
  <2> QED
    BY <2>1, WeightsAreNatural
<1>2. supplied \in Nat /\ (Unknown(facts, a) = {} => supplied = 0)
  <2>1. Unknown(facts, a) \in SUBSET SCORED_FIELDS
    BY EconomicsAreTyped DEF Unknown
  <2> QED
    BY <2>1, WeightsAreNatural DEF Supplied
<1>3. coverage \in Nat
  BY EconomicsAreTyped
<1>4. InformationShare(facts, a) =
        IF missing = 0 THEN 0 ELSE (coverage * supplied * 10) \div missing
  BY DEF InformationShare
<1> HIDE DEF missing, supplied, coverage
<1>5. coverage * supplied * 10 \in Int /\ (supplied = 0 => coverage * supplied * 10 = 0)
  BY <1>2, <1>3, Products
<1> QED
  BY <1>1, <1>2, <1>4, <1>5, Quotients

(* The marginal chance that an answer flips the verdict is an integer.     *)
LEMMA MarginalFlipIsInteger ==
  ASSUME NEW p, p.bounds.current \in Nat, NEW a \in Specs
  PROVE  /\ MarginalFlip(p, a) \in Int
         /\ Unknown(p.facts, a) = {} => MarginalFlip(p, a) = 0
<1> DEFINE c == REFERENCE_CONFIG
           unknown == Unknown(p.facts, a)
           adds == unknown \cap ADDITIVE_FIELDS
           blocked == IF DISQUALIFIER_FIELD \in unknown /\ p.decision # "reject"
                      THEN DisqualifierRate ELSE 0
           gain == SumFunction([f \in adds |-> MaxFieldPoints(c, f)])
           now == p.bounds.current
           same == DecisionMeasure(now, now + gain, p.decision)
           moved == IF gain = 0 THEN 0 ELSE ((gain - same) * 1000) \div gain
<1>1. gain \in Nat
  <2>1. adds \in SUBSET ADDITIVE_FIELDS
    OBVIOUS
  <2>2. SumFunction(TopPoints(c, adds)) \in Nat
    <3> HIDE DEF adds, c
    <3> QED
      BY <2>1, ReferenceIsSound, CeilingsAreNatural DEF c
  <2> QED
    BY <2>2 DEF TopPoints
<1>2. MarginalFlip(p, a) =
        IF unknown = {} THEN 0 ELSE blocked + ((1000 - blocked) * moved) \div 1000
  BY DEF MarginalFlip
<1>3. blocked \in Int
  BY DEF DisqualifierRate
<1>4. now \in Int /\ c.qualify \in Int /\ c.reject \in Int
  BY DEF REFERENCE_CONFIG
<1> HIDE DEF gain, blocked, unknown, now
<1>5. same \in Int
  <2>1. \A x, y \in Int : Max({x, y}) \in Int /\ Min({x, y}) \in Int
    BY GreaterOfTwo, SmallerOfTwo
  <2>2. now + gain \in Int
    BY <1>1, <1>4
  <2>3. \A x, y \in Int : Max({0, x - y}) \in Int
    BY <2>1
  <2> HIDE DEF c
  <2>4. \A lo, hi \in Int :
          /\ Max({0, hi - Max({lo, c.qualify})}) \in Int
          /\ Max({0, Min({hi, c.reject}) - lo}) \in Int
          /\ Max({0, Min({hi, c.qualify}) - Max({lo, c.reject})}) \in Int
    BY <1>4, <2>1, <2>3
  <2>5. \A d : \A lo, hi \in Int : DecisionMeasure(lo, hi, d) \in Int
    BY <2>4 DEF DecisionMeasure, c
  <2> QED
    BY <1>4, <2>2, <2>5
<1> HIDE DEF same
<1>6. moved \in Int
  BY <1>1, <1>5, Products, Quotients
<1> HIDE DEF moved
<1>7. (1000 - blocked) * moved \in Int /\ 1000 \in Nat \ {0}
  BY <1>3, <1>6, Products
<1> QED
  BY <1>2, <1>3, <1>7, Quotients DEF unknown

(* The chance of a flip is a number, and none for a source that supplies   *)
(* nothing unknown.                                                        *)
LEMMA FlipChanceIsInteger ==
  ASSUME NEW p, p.bounds.current \in Nat, NEW a \in Specs, NEW confidence \in Int
  PROVE  /\ FlipChance(p, a, confidence) \in Int
         /\ Unknown(p.facts, a) = {} => FlipChance(p, a, confidence) = 0
<1> DEFINE share == InformationShare(p.facts, a)
           x == ((100 - confidence) * share) \div 100
           y == MarginalFlip(p, a)
<1>1. share \in Int /\ y \in Int /\ (Unknown(p.facts, a) = {} => share = 0 /\ y = 0)
  BY InformationShareIsInteger, MarginalFlipIsInteger
<1>2. FlipChance(p, a, confidence) = Min({1000, Max({x, y})})
  BY DEF FlipChance
<1> HIDE DEF share, y
<1>3. (100 - confidence) * share \in Int /\ 100 \in Nat \ {0} /\ (share = 0 => (100 - confidence) * share = 0)
  BY <1>1, Products
<1>4. x \in Int /\ (share = 0 => x = 0)
  BY <1>3, Quotients
<1> HIDE DEF x
<1>5. Max({x, y}) \in Int /\ Max({x, y}) \in {x, y}
  BY <1>1, <1>4, GreaterOfTwo
<1>6. PICK m : m = Max({x, y})
  OBVIOUS
<1>7. Min({1000, m}) \in Int /\ Min({1000, m}) \in {1000, m} /\ Min({1000, m}) <= m
  <2>1. \A i, j \in Int : Min({i, j}) \in Int /\ Min({i, j}) \in {i, j} /\ Min({i, j}) <= j
    BY SmallerOfTwo
  <2>2. 1000 \in Int /\ m \in Int
    BY <1>5, <1>6
  <2> QED
    BY <2>1, <2>2
<1>8. x = 0 /\ y = 0 => Min({1000, m}) = 0
  BY <1>5, <1>6, <1>7
<1> QED
  BY <1>1, <1>2, <1>4, <1>6, <1>7, <1>8

(* The strategy has the numbers that the selection by value weighs with.   *)
Weighing == strategy.cap \in Nat /\ strategy.scale \in Nat /\ strategy.review \in Nat

(* The net value of a call is an integer.                                  *)
LEMMA NetEvoiIsInteger ==
  ASSUME NEW p, p.bounds.current \in Nat, NEW a \in Specs, NEW confidence \in Int, NEW helpful,
         Weighing, CurrentLead.value \in DOMAIN BUSINESS_VALUE
  PROVE  /\ NetEvoi(p, a, confidence, helpful) \in Int
         /\ Unknown(p.facts, a) = {} => NetEvoi(p, a, confidence, helpful) <= 0
<1> DEFINE flip == FlipChance(p, a, confidence)
           worth == BUSINESS_VALUE[CurrentLead.value]
           gain == (worth * strategy.scale) \div 100
           review == EscalationValue(p, a, confidence, helpful)
           cost == ExpectedCost(a)
           slow == LatencyPenalty(a)
<1>1. flip \in Int /\ (Unknown(p.facts, a) = {} => flip = 0)
  BY FlipChanceIsInteger
<1>2. /\ a.price \in Nat /\ ECONOMICS[a.name].coverage \in Nat /\ ECONOMICS[a.name].latency \in Nat
      /\ 100 \in Nat \ {0} /\ 20 \in Nat \ {0} /\ 1000 \in Nat \ {0}
  BY EconomicsAreTyped
<1>3. worth \in Nat
  BY DEF BUSINESS_VALUE
<1>4. gain \in Int
  <2> HIDE DEF worth
  <2>1. worth * strategy.scale \in Int
    BY <1>3, Products DEF Weighing
  <2> QED
    BY <1>2, <2>1, Quotients
<1>5. review \in Int /\ (Unknown(p.facts, a) = {} => review = 0)
  <2>1. ECONOMICS[a.name].coverage * strategy.review \in Int
    BY <1>2, Products DEF Weighing
  <2>2. (ECONOMICS[a.name].coverage * strategy.review) \div 100 \in Int
    BY <1>2, <2>1, Quotients
  <2> QED
    BY <2>2 DEF EscalationValue
<1>6. cost \in Nat
  <2>1. a.price * ECONOMICS[a.name].coverage \in Nat
    BY <1>2, Products
  <2>2. (a.price * ECONOMICS[a.name].coverage) \div 100 \in Nat
    BY <1>2, <2>1, Quotients
  <2> QED
    BY <1>2, <2>2 DEF ExpectedCost
<1>7. slow \in Nat
  BY <1>2, Quotients DEF LatencyPenalty
<1>8. NetEvoi(p, a, confidence, helpful) = (flip * gain) \div 1000 + review - cost - slow
  BY DEF NetEvoi
<1> HIDE DEF flip, gain, review, cost, slow
<1>9. flip * gain \in Int /\ (flip = 0 => flip * gain = 0)
  BY <1>1, <1>4, Products
<1>10. (flip * gain) \div 1000 \in Int /\ (flip = 0 => (flip * gain) \div 1000 = 0)
  BY <1>2, <1>9, Quotients
<1>11. PICK z : z = (flip * gain) \div 1000
  OBVIOUS
<1>12. z \in Int /\ (flip = 0 => z = 0)
  BY <1>10, <1>11
<1>13. z + review - cost - slow \in Int /\ (z = 0 /\ review = 0 => z + review - cost - slow <= 0)
  BY <1>5, <1>6, <1>7, <1>12
<1> QED
  BY <1>1, <1>5, <1>8, <1>11, <1>12, <1>13

(* Among finitely many candidates one comes first: by worth, then by price,  *)
(* then by place.                                                          *)
ComesFirst(worth, price, i, j) ==
  \/ worth[i] > worth[j]
  \/ worth[i] = worth[j] /\ price[i] < price[j]
  \/ worth[i] = worth[j] /\ price[i] = price[j] /\ i <= j

(* Of candidates ordered by worth, price and place one comes first.        *)
LEMMA FirstOfCandidates ==
  ASSUME NEW n \in Nat, NEW worth, NEW price, NEW D \in SUBSET (1 .. n), D # {},
         \A i \in D : worth[i] \in Int /\ price[i] \in Int
  PROVE  \E i \in D : \A j \in D : ComesFirst(worth, price, i, j)
<1> DEFINE First(k) == \E i \in D : i <= k /\ \A j \in D : j <= k => ComesFirst(worth, price, i, j)
           Bad == {k \in Nat : k <= n /\ (\E i \in D : i <= k) /\ ~First(k)}
<1>1. \A i \in D : i \in 1 .. n /\ worth[i] \in Int /\ price[i] \in Int
  OBVIOUS
<1>2. ASSUME NEW i \in D, NEW j \in D, NEW l \in D,
             ComesFirst(worth, price, i, j), ComesFirst(worth, price, j, l)
      PROVE  ComesFirst(worth, price, i, l)
  BY <1>1, <1>2 DEF ComesFirst
<1>3. \A i, j \in D : ComesFirst(worth, price, i, j) \/ ComesFirst(worth, price, j, i)
  BY <1>1 DEF ComesFirst
<1>4. ASSUME Bad # {} PROVE FALSE
  <2>1. PICK m \in Bad : \A j \in Bad : m <= j
    <3>1. Bad \in SUBSET Nat
      OBVIOUS
    <3> HIDE DEF Bad
    <3> QED
      BY <1>4, <3>1, LeastOf
  <2>2. m \in Nat /\ m <= n /\ (\E i \in D : i <= m) /\ ~First(m)
    OBVIOUS
  <2>3. m # 0
    BY <1>1, <2>2
  <2>4. m - 1 \in Nat /\ m - 1 <= n /\ ~(m <= m - 1)
    BY <2>2, <2>3
  <2>5. m - 1 \notin Bad
    <3> HIDE DEF Bad
    <3> QED
      BY <2>1, <2>4
  <2>6. \A j \in D : j <= m <=> j <= m - 1 \/ j = m
    BY <1>1, <2>2
  <2>7. CASE m \notin D
    <3>1. \A j \in D : j <= m <=> j <= m - 1
      BY <2>6, <2>7
    <3>2. \E i \in D : i <= m - 1
      BY <2>2, <3>1
    <3>3. First(m - 1)
      BY <2>4, <2>5, <3>2
    <3>4. First(m)
      BY <3>1, <3>3
    <3> QED
      BY <2>2, <3>4
  <2>8. CASE m \in D /\ ~ \E i \in D : i <= m - 1
    <3>1. \A j \in D : j <= m => j = m
      BY <2>6, <2>8
    <3>2. m <= m /\ ComesFirst(worth, price, m, m)
      BY <1>3, <2>2, <2>8
    <3> QED
      BY <2>2, <2>8, <3>1, <3>2
  <2>9. CASE m \in D /\ \E i \in D : i <= m - 1
    <3>1. First(m - 1)
      BY <2>4, <2>5, <2>9
    <3>2. PICK i \in D : i <= m - 1 /\ \A j \in D : j <= m - 1 => ComesFirst(worth, price, i, j)
      BY <3>1
    <3>3. i <= m /\ m <= m
      BY <2>2, <2>6, <3>2
    <3>4. CASE ComesFirst(worth, price, i, m)
      <4>1. \A j \in D : j <= m => ComesFirst(worth, price, i, j)
        BY <2>6, <3>2, <3>4
      <4> QED
        BY <2>2, <3>3, <4>1
    <3>5. CASE ComesFirst(worth, price, m, i)
      <4>1. \A j \in D : j <= m => ComesFirst(worth, price, m, j)
        BY <1>2, <1>3, <2>6, <2>9, <3>2, <3>5
      <4> QED
        BY <2>2, <2>9, <3>3, <4>1
    <3> QED
      BY <1>3, <2>9, <3>4, <3>5
  <2> QED
    BY <2>7, <2>8, <2>9
<1>5. First(n)
  <2>1. \A i \in D : i <= n
    BY <1>1
  <2>2. n <= n /\ \E i \in D : i <= n
    <3>1. PICK i : i \in D
      OBVIOUS
    <3>2. i <= n
      BY <2>1, <3>1
    <3> QED
      BY <3>1, <3>2
  <2>3. ~First(n) => n \in Bad
    <3> HIDE DEF First
    <3> QED
      BY <2>2
  <2> HIDE DEF Bad, First
  <2> QED
    BY <1>4, <2>3
<1> QED
  BY <1>1, <1>5

(* The source a policy weighs best is one it may still buy.                *)
LEMMA BestIsCandidate ==
  ASSUME NEW p, p.bounds.current \in Nat, NEW confidence \in Int, NEW helpful,
         Weighing, CurrentLead.value \in DOMAIN BUSINESS_VALUE,
         \E a \in Remaining : Affordable(a)
  PROVE  LET b == Best(p, confidence, helpful)
         IN  /\ b.spec \in Remaining /\ Affordable(b.spec)
             /\ b.net = NetEvoi(p, b.spec, confidence, helpful)
<1> DEFINE C == {a \in Remaining : Affordable(a)}
           Net(a) == NetEvoi(p, a, confidence, helpful)
           W == {[net |-> Net(a), spec |-> a] : a \in C}
           Before(a, b) ==
             \/ a.net > b.net
             \/ a.net = b.net /\ a.spec.price < b.spec.price
             \/ a.net = b.net /\ a.spec.price = b.spec.price
                  /\ \E i, j \in DOMAIN Rates : /\ Rates[i] = a.spec /\ Rates[j] = b.spec
                                                  /\ i <= j
<1>1. Best(p, confidence, helpful) = CHOOSE a \in W : \A b \in W : Before(a, b)
  BY DEF Best
<1>2. \A a \in C : a \in Range(Rates) /\ a \in Specs /\ a.price \in Int
  BY RatesAreTyped, EconomicsAreTyped DEF Remaining
<1>3. \A a \in C : Net(a) \in Int
  <2> HIDE DEF C
  <2> QED
    BY <1>2, NetEvoiIsInteger
<1> DEFINE D == {i \in 1 .. Len(Rates) : Rates[i] \in C}
           worth == [i \in D |-> Net(Rates[i])]
           price == [i \in D |-> Rates[i].price]
<1>4. D \in SUBSET (1 .. Len(Rates)) /\ D # {}
  <2>1. PICK a \in C : TRUE
    OBVIOUS
  <2>2. PICK i \in DOMAIN Rates : a = Rates[i]
    BY <1>2 DEF Range
  <2> HIDE DEF C
  <2> QED
    BY <2>1, <2>2, RatesAreTyped
<1>5. \A i \in D : worth[i] \in Int /\ price[i] \in Int
  <2> HIDE DEF Net, C
  <2> QED
    BY <1>2, <1>3
<1>6. PICK i \in D : \A j \in D : ComesFirst(worth, price, i, j)
  <2> HIDE DEF D, worth, price
  <2> QED
    BY <1>4, <1>5, FirstOfCandidates, RatesAreTyped
<1> DEFINE first == [net |-> Net(Rates[i]), spec |-> Rates[i]]
<1>7. first \in W
  <2> HIDE DEF Net, C
  <2> QED
    OBVIOUS
<1>8. ASSUME NEW a \in C PROVE Before(first, [net |-> Net(a), spec |-> a])
  <2>1. PICK j \in DOMAIN Rates : a = Rates[j]
    BY <1>2 DEF Range
  <2>2. j \in D
    <3> HIDE DEF C
    <3> QED
      BY <2>1, RatesAreTyped
  <2>3. ComesFirst(worth, price, i, j)
    BY <1>6, <2>2
  <2>4. /\ worth[i] = Net(Rates[i]) /\ worth[j] = Net(a)
        /\ price[i] = Rates[i].price /\ price[j] = a.price
    <3> HIDE DEF Net, C
    <3> QED
      BY <2>1, <2>2
  <2>5. i \in DOMAIN Rates
    BY RatesAreTyped
  <2> HIDE DEF Net, C, worth, price, D
  <2> QED
    BY <2>1, <2>3, <2>4, <2>5 DEF ComesFirst
<1>9. \E x \in W : \A b \in W : Before(x, b)
  <2>1. \A b \in W : Before(first, b)
    <3> HIDE DEF Net, C, Before, first
    <3> QED
      BY <1>8
  <2> HIDE DEF W, Before, first
  <2> QED
    BY <1>7, <2>1
<1>10. PICK best : best = Best(p, confidence, helpful)
  OBVIOUS
<1>11. best \in W
  <2> HIDE DEF W, Before
  <2> QED
    BY <1>1, <1>9, <1>10
<1>12. PICK a \in C : best = [net |-> Net(a), spec |-> a]
  <2> HIDE DEF Net, C
  <2> QED
    BY <1>11
<1>13. best.spec = a /\ best.net = Net(best.spec)
  <2> HIDE DEF Net, C
  <2>1. best.spec = a /\ best.net = Net(a)
    BY <1>12
  <2> QED
    BY <2>1
<1> QED
  BY <1>10, <1>12, <1>13

-----------------------------------------------------------------------------
(* The benchmark, step by step.                                            *)
GateModes == {"upper_bound", "current_score"}
(* The leads of a corpus.                                                  *)
BenchLeads == [world : DOMAIN Worlds, value : DOMAIN BUSINESS_VALUE,
          oracle : {"auto_route", "reject", "escalate_human"}]
(* The reasons for stopping, as the policies name them.                    *)
StopsNamed == {"all_providers_called", "tier_limit", "gated_out_of_icp", "max_steps",
               "decision_settled", "confidence_reached", "budget_exhausted", "no_positive_evoi"}
(* What a policy reports of a lead.                                        *)
PolicyResults == [stop : StopsNamed, called : SUBSET Priced, cost : Nat,
                  decision : {"auto_route", "reject", "escalate_human"}, autonomous : BOOLEAN]
(* What the tuning reports of a gate it has tried.                         *)
Tried == [mode : GateModes, gate : Nat, agreed : Nat, cost : Nat]
(* The adapters of the escalation ladder.                                  *)
Rungs == {spec.name : spec \in Range(Ladder)}

(* What a policy is: a baseline that climbs the catalogue, a gate of the   *)
(* grid, or a policy with its prices.                                      *)
StrategyIsKnown ==
  \/ strategy.kind = "full"
  \/ strategy.kind \in {"adaptive", "escalation"} /\ Weighing
  \/ \E depth, mode, gate :
       /\ strategy = [kind |-> "tune", depth |-> depth, mode |-> mode, gate |-> gate]
       /\ mode \in GateModes /\ gate \in Nat

(* The typed part of the invariant of the benchmark.                       *)
PolicyTypes ==
  /\ bench \in {"fit", "ready", "running", "done"}
  /\ bench \in {"fit", "ready"} => strategy.kind = "none" /\ outcomes = << >> /\ expended = 0
  /\ bench \in {"running", "done"} => StrategyIsKnown
  /\ corpus \in Seq(BenchLeads) /\ outcomes \in Seq(PolicyResults) /\ tried \in Seq(Tried)
  /\ place \in Nat \ {0} /\ Len(outcomes) + 1 = place /\ Len(outcomes) <= Len(corpus)
  /\ fetched \in SUBSET Priced /\ expended \in Nat
  /\ strategy.kind \in {"full", "tune"} => fetched \in SUBSET Rungs
  /\ bench = "running" => Len(tried) < Len(GATE_GRID)

(* The cache is what was called, once each.                                *)
CacheIsCalls ==
  /\ invoiced \in Seq(kept) /\ IsFiniteSet(kept) /\ Cardinality(kept) = Len(invoiced)
  /\ \A key \in kept : \E i \in 1 .. Len(invoiced) : invoiced[i] = key

(* The priced adapters are finitely many.                                  *)
LEMMA PricedAreFinite == IsFiniteSet(Priced)
<1> DEFINE A == {"inbound_payload", "internal_crm"}
           B == {"dns_web", "firmographics_basic"}
           C == {"contact_enrich", "firmographics_premium"}
           D == {"intent_signals", "deep_research"}
<1>1. DOMAIN ECONOMICS = (A \cup B) \cup (C \cup D)
  BY DEF ECONOMICS
<1>2. IsFiniteSet(A) /\ IsFiniteSet(B) /\ IsFiniteSet(C) /\ IsFiniteSet(D)
  BY PairsAreFinite
<1>3. IsFiniteSet(DOMAIN ECONOMICS)
  <2> HIDE DEF A, B, C, D
  <2>1. IsFiniteSet(A \cup B) /\ IsFiniteSet(C \cup D)
    BY <1>2, FS_Union
  <2> QED
    BY <1>1, <2>1, FS_Union
<1> QED
  BY <1>3, FS_Subset, PolicyAssumption

(* A confidence is a percentage.                                           *)
LEMMA ConfidencesArePercents ==
  ASSUME NEW confidence \in Confidences PROVE confidence \in 0 .. 100 /\ confidence \in Int
<1>1. Confidences \cup ErrorTargets \subseteq 0 .. 100
  BY PolicyAssumption
<1>2. confidence \in Confidences \cup ErrorTargets
  OBVIOUS
<1>3. confidence \in 0 .. 100
  BY <1>1, <1>2
<1> QED
  BY <1>3

(* A corpus is a sequence of leads.                                        *)
LEMMA CorporaAreLeads ==
  ASSUME NEW c \in Corpora PROVE c \in Seq(BenchLeads)
BY PolicyAssumption DEF BenchLeads

(* Fewer names than rungs leave a rung to climb.                           *)
LEMMA NextRungIsPriced ==
  ASSUME fetched \in SUBSET Rungs, Cardinality(fetched) # Len(Ladder)
  PROVE  NextRung \in Range(Ladder)
<1>1. PICK n : n = Len(Ladder)
  OBVIOUS
<1>2. Ladder \in Seq(Specs)
  BY SourcedIsTyped DEF Ladder
<1>3. n \in Nat /\ DOMAIN Ladder = 1 .. n /\ IsFiniteSet(1 .. n) /\ Cardinality(1 .. n) = n
  <2>1. n \in Nat /\ DOMAIN Ladder = 1 .. n
    BY <1>1, <1>2
  <2> QED
    BY <2>1, FS_Interval
<1>4. PICK f : f = [i \in 1 .. n |-> Ladder[i].name]
  OBVIOUS
<1>5. f \in Surjection(1 .. n, Rungs)
  BY <1>3, <1>4 DEF Surjection, Rungs, Range
<1>6. IsFiniteSet(Rungs) /\ Cardinality(Rungs) <= n
  BY <1>3, <1>5, FS_Surjection
<1>7. PICK k : k = Cardinality(fetched)
  OBVIOUS
<1>8. k \in Nat /\ Cardinality(Rungs) \in Nat /\ k <= Cardinality(Rungs)
  BY <1>6, <1>7, FS_Subset, FS_CardinalityType
<1>9. k + 1 \in 1 .. n
  BY <1>1, <1>3, <1>6, <1>7, <1>8
<1> QED
  BY <1>3, <1>7, <1>9 DEF NextRung, Range

(* The ladder has priced adapters only.                                    *)
LEMMA LadderIsPriced ==
  \A a \in Range(Ladder) : a \in Specs /\ a.name \in Priced /\ a.price \in Nat
<1>1. \A a \in Range(Ladder) :
        a \in Specs /\ \E b \in Range(Rates) : a.name = b.name
  <2> DEFINE names == {spec.name : spec \in {s \in Range(Rates) :
             strategy.kind = "full" \/ Tier(s) <= strategy.depth}}
  <2>1. \A x \in names : \E b \in Range(Rates) : x = b.name
    OBVIOUS
  <2>2. Ladder = Sourced(names)
    BY DEF Ladder
  <2> HIDE DEF names
  <2>3. \A a \in Range(Sourced(names)) : a \in Specs /\ a.name \in names
    BY SourcedIsTyped
  <2> QED
    BY <2>1, <2>2, <2>3
<1> QED
  BY <1>1, RatesAreTyped, CatalogueIsTyped

(* So has the set that the selection chooses from.                         *)
LEMMA CandidatesArePriced ==
  \A a \in Remaining : a \in Specs /\ a.name \in Priced /\ a.price \in Nat
BY RatesAreTyped, CatalogueIsTyped DEF Remaining

(* A bill is a natural.                                                    *)
LEMMA BilledIsNatural ==
  ASSUME NEW a \in Specs PROVE Billed(a) \in Nat /\ Billed(a) <= a.price
<1>1. a.price \in Nat
  BY CatalogueIsTyped
<1>2. Billed(a) = a.price \/ Billed(a) = 0
  BY DEF Billed
<1> QED
  BY <1>1, <1>2

(* The lead under way is one of the corpus.                                *)
LEMMA LeadIsTyped ==
  ASSUME PolicyTypes, Deciding
  PROVE  CurrentLead \in BenchLeads /\ place \in 1 .. Len(corpus)
         /\ CurrentLead.world \in DOMAIN Worlds /\ CurrentLead.value \in DOMAIN BUSINESS_VALUE
<1>1. PICK n : n = Len(corpus)
  OBVIOUS
<1>2. corpus \in Seq(BenchLeads) /\ place \in Nat \ {0} /\ place <= n
  BY <1>1 DEF PolicyTypes, Deciding
<1>3. place \in 1 .. Len(corpus)
  BY <1>1, <1>2
<1>4. corpus[place] \in BenchLeads
  BY <1>2, <1>3
<1> QED
  BY <1>3, <1>4 DEF CurrentLead, BenchLeads

(* Buying an answer keeps the types.                                       *)
LEMMA BuyStays ==
  ASSUME PolicyTypes, Deciding, NEW spec \in Specs, spec.name \in Priced, Buy(spec),
         strategy.kind \in {"full", "tune"} => spec \in Range(Ladder)
  PROVE  PolicyTypes'
<1>1. fetched' \in SUBSET Priced
  BY DEF Buy, PolicyTypes
<1>2. expended' \in Nat
  BY BilledIsNatural DEF Buy, PolicyTypes
<1>3. bench' = bench /\ strategy' = strategy /\ corpus' = corpus /\ outcomes' = outcomes
      /\ tried' = tried /\ place' = place
  BY DEF Buy
<1>4. Rungs' = Rungs
  BY <1>3 DEF Rungs, Ladder
<1>5. strategy.kind \in {"full", "tune"} => fetched' \in SUBSET Rungs
  BY DEF Buy, PolicyTypes, Rungs
<1>6. StrategyIsKnown => StrategyIsKnown'
  BY <1>3 DEF StrategyIsKnown, Weighing
<1>7. /\ bench \in {"fit", "ready", "running", "done"}
      /\ bench \in {"fit", "ready"} => strategy.kind = "none" /\ outcomes = << >> /\ expended = 0
      /\ bench \in {"running", "done"} => StrategyIsKnown'
      /\ corpus \in Seq(BenchLeads) /\ outcomes \in Seq(PolicyResults) /\ tried \in Seq(Tried)
      /\ place \in Nat \ {0} /\ Len(outcomes) + 1 = place /\ Len(outcomes) <= Len(corpus)
      /\ bench = "running" => Len(tried) < Len(GATE_GRID)
  BY <1>6 DEF PolicyTypes
<1>8. bench = "running"
  BY DEF Deciding
<1> QED
  BY <1>1, <1>2, <1>3, <1>4, <1>5, <1>7, <1>8 DEF PolicyTypes

(* Concluding a lead keeps the types.                                      *)
LEMMA ConcludeStays ==
  ASSUME PolicyTypes, Deciding, NEW stop \in StopsNamed, NEW confidence, Conclude(stop, confidence)
  PROVE  PolicyTypes'
<1> DEFINE o == [stop |-> stop, called |-> fetched, cost |-> expended,
                 decision |-> CurrentPicture.decision, autonomous |-> confidence >= tau]
<1>1. bench' = bench /\ strategy' = strategy /\ corpus' = corpus /\ tried' = tried
      /\ outcomes' = Append(outcomes, o) /\ place' = place + 1 /\ fetched' = {} /\ expended' = 0
  BY DEF Conclude
<1>2. o \in PolicyResults
  <2>1. CurrentPicture.decision \in {"auto_route", "reject", "escalate_human"}
    <3>1. CurrentPicture.decision = DecisionFor(REFERENCE_CONFIG, CurrentPicture.bounds.current)
      <4>1. CurrentLead.world \in DOMAIN Worlds /\ fetched \in SUBSET Priced
        BY LeadIsTyped DEF PolicyTypes
      <4> QED
        BY <4>1, PictureIsWhatTheEngineSays DEF CurrentPicture
    <3> QED
      BY <3>1 DEF DecisionFor
  <2>2. (confidence >= tau) \in BOOLEAN
    OBVIOUS
  <2>3. fetched \in SUBSET Priced /\ expended \in Nat
    BY DEF PolicyTypes
  <2> QED
    BY <2>1, <2>2, <2>3 DEF PolicyResults
<1> HIDE DEF o
<1>3. PICK n \in Nat : n = Len(outcomes)
  BY DEF PolicyTypes
<1>4. outcomes' \in Seq(PolicyResults) /\ Len(outcomes') = n + 1
  BY <1>1, <1>2, <1>3 DEF PolicyTypes
<1>5. PICK k \in Nat : k = Len(corpus)
  BY DEF PolicyTypes
<1>6. n + 1 = place /\ place <= k /\ bench = "running"
  BY <1>3, <1>5 DEF PolicyTypes, Deciding
<1>7. place' \in Nat \ {0} /\ Len(outcomes') + 1 = place' /\ Len(outcomes') <= Len(corpus)
  BY <1>1, <1>3, <1>4, <1>5, <1>6
<1>8. StrategyIsKnown => StrategyIsKnown'
  BY <1>1 DEF StrategyIsKnown, Weighing
<1>9. /\ StrategyIsKnown /\ corpus \in Seq(BenchLeads) /\ tried \in Seq(Tried)
      /\ Len(tried) < Len(GATE_GRID)
  BY <1>6 DEF PolicyTypes
<1> QED
  BY <1>1, <1>4, <1>6, <1>7, <1>8, <1>9 DEF PolicyTypes

(* An observation of the calibration keeps the types.                      *)
LEMMA ObserveStays ==
  ASSUME PolicyTypes, NEW confidence, NEW correct, Observe(confidence, correct)
  PROVE  PolicyTypes'
<1>1. /\ bench' = bench /\ strategy' = strategy /\ corpus' = corpus /\ tried' = tried
      /\ outcomes' = outcomes /\ place' = place /\ fetched' = fetched /\ expended' = expended
      /\ bench = "fit"
  BY DEF Observe
<1>2. strategy.kind = "none"
  BY <1>1 DEF PolicyTypes
<1> QED
  BY <1>1, <1>2 DEF PolicyTypes

(* Fitting the threshold keeps the types.                                  *)
LEMMA FitStays ==
  ASSUME PolicyTypes, NEW target, FitThreshold(target)
  PROVE  PolicyTypes'
<1>1. /\ bench' = "ready" /\ strategy' = [kind |-> "none", target |-> target]
      /\ corpus' = corpus /\ tried' = tried
      /\ outcomes' = outcomes /\ place' = place /\ fetched' = fetched /\ expended' = expended
      /\ bench = "fit"
  BY DEF FitThreshold
<1>2. strategy'.kind = "none" /\ outcomes = << >> /\ expended = 0
  BY <1>1 DEF PolicyTypes
<1> QED
  BY <1>1, <1>2 DEF PolicyTypes

(* The grid lists a gate, and gates only.                                  *)
LEMMA FirstGate ==
  Len(GATE_GRID) \in Nat \ {0} /\ \A i \in 1 .. Len(GATE_GRID) : GATE_GRID[i].mode \in GateModes /\ GATE_GRID[i].gate \in Nat
<1>1. GATE_GRID \in Seq([mode : GateModes, gate : Nat]) /\ GATE_GRID # << >>
  BY PolicyAssumption DEF GateModes
<1> DEFINE Gates == [mode : GateModes, gate : Nat]
<1>2. PICK q : q = GATE_GRID
  OBVIOUS
<1>3. Len(q) \in Nat \ {0} /\ \A i \in 1 .. Len(q) : q[i] \in Gates
  <2>1. q \in Seq(Gates) /\ q # << >>
    BY <1>1, <1>2
  <2> HIDE DEF Gates
  <2> QED
    BY <2>1
<1> QED
  BY <1>2, <1>3

(* Choosing a gate keeps the types.                                        *)
LEMMA ChooseStays ==
  ASSUME PolicyTypes, NEW s \in Strategies, NEW c \in Corpora, ChoosePolicy(s, c)
  PROVE  PolicyTypes'
<1> DEFINE tune == [kind |-> "tune", depth |-> s.depth, mode |-> GATE_GRID[1].mode,
                    gate |-> GATE_GRID[1].gate]
<1>1. /\ bench' = "running" /\ strategy' = IF s.kind = "tune" THEN tune ELSE s
      /\ corpus' = c /\ tried' = << >> /\ outcomes' = << >> /\ place' = 1 /\ fetched' = {}
      /\ expended' = 0
  BY DEF ChoosePolicy, Fresh
<1>2. StrategyIsKnown'
  <2>1. CASE s.kind = "tune"
    <3>1. strategy' = tune
      BY <1>1, <2>1
    <3>2. GATE_GRID[1].mode \in GateModes /\ GATE_GRID[1].gate \in Nat
      BY FirstGate
    <3> QED
      BY <3>1, <3>2 DEF StrategyIsKnown
  <2>2. CASE s.kind # "tune"
    <3>1. strategy' = s
      BY <1>1, <2>2
    <3>2. \/ s.kind = "full"
          \/ /\ s.kind \in {"adaptive", "escalation"}
             /\ s.cap \in Nat /\ s.scale \in Nat /\ s.review \in Nat
      BY <2>2, PolicyAssumption
    <3> QED
      BY <3>1, <3>2 DEF StrategyIsKnown, Weighing
  <2> QED
    BY <2>1, <2>2
<1>3. corpus' \in Seq(BenchLeads) /\ Len(corpus') \in Nat
  BY <1>1, CorporaAreLeads
<1>4. << >> \in Seq(PolicyResults) /\ << >> \in Seq(Tried) /\ Len(<< >>) = 0
  OBVIOUS
<1>5. Len(tried') < Len(GATE_GRID) /\ Len(outcomes') + 1 = place' /\ Len(outcomes') <= Len(corpus')
  BY <1>1, <1>3, <1>4, FirstGate
<1>6. place' \in Nat \ {0} /\ fetched' \in SUBSET Priced /\ expended' \in Nat
      /\ fetched' \in SUBSET Rungs' /\ outcomes' \in Seq(PolicyResults) /\ tried' \in Seq(Tried)
  BY <1>1, <1>4
<1> QED
  BY <1>1, <1>2, <1>3, <1>5, <1>6 DEF PolicyTypes

(* The summary of a tuning pass is typed.                                  *)
LEMMA SummaryIsTyped ==
  ASSUME PolicyTypes, Len(outcomes) = Len(corpus), strategy.mode \in GateModes, strategy.gate \in Nat
  PROVE  Summary \in Tried
<1>1. PICK n \in Nat : n = Len(corpus)
  BY DEF PolicyTypes
<1>2. DOMAIN corpus = 1 .. n /\ \A i \in 1 .. n : outcomes[i] \in PolicyResults
  BY <1>1 DEF PolicyTypes
<1>3. IsFiniteSet(1 .. n)
  BY FS_Interval
<1> DEFINE right == {i \in DOMAIN corpus : outcomes[i].decision = corpus[i].oracle}
           costs == [i \in DOMAIN corpus |-> outcomes[i].cost]
<1>4. Cardinality(right) \in Nat
  <2>1. right \in SUBSET (1 .. n)
    BY <1>2
  <2> HIDE DEF right
  <2> QED
    BY <1>3, <2>1, FS_Subset, FS_CardinalityType
<1>5. SumFunction(costs) \in Nat
  <2>1. DOMAIN costs = 1 .. n /\ \A i \in 1 .. n : costs[i] \in Nat
    BY <1>2 DEF PolicyResults
  <2> HIDE DEF costs
  <2>2. SumFunctionOnSet(costs, 1 .. n) \in Nat
    BY <1>3, <2>1, SumOfNaturals
  <2> QED
    BY <2>1, <2>2 DEF SumFunction, SumFunctionOnSet, FoldFunction
<1> HIDE DEF right, costs
<1> QED
  BY <1>4, <1>5 DEF Summary, Tried, right, costs

(* Finishing a pass keeps the types.                                       *)
LEMMA FinishStays ==
  ASSUME PolicyTypes, FinishCorpus
  PROVE  PolicyTypes'
<1>1. /\ bench = "running" /\ corpus' = corpus /\ Len(outcomes) = Len(corpus)
      /\ StrategyIsKnown
  <2>1. PICK n \in Nat : n = Len(outcomes)
    BY DEF PolicyTypes
  <2>2. PICK k \in Nat : k = Len(corpus)
    BY DEF PolicyTypes
  <2>3. n + 1 = place /\ n <= k /\ place > k
    BY <2>1, <2>2 DEF PolicyTypes, FinishCorpus
  <2> QED
    BY <2>1, <2>2, <2>3 DEF PolicyTypes, FinishCorpus
<1>2. CASE strategy.kind # "tune"
  <2>1. /\ bench' = "done" /\ strategy' = strategy /\ tried' = tried /\ place' = place
        /\ fetched' = fetched /\ expended' = expended /\ outcomes' = outcomes
    BY <1>2 DEF FinishCorpus
  <2>2. StrategyIsKnown => StrategyIsKnown'
    BY <2>1 DEF StrategyIsKnown, Weighing
  <2>3. Rungs' = Rungs
    BY <2>1 DEF Rungs, Ladder
  <2> QED
    BY <1>1, <2>1, <2>2, <2>3 DEF PolicyTypes
<1>3. CASE strategy.kind = "tune"
  <2>1. PICK depth, mode, gate :
          /\ strategy = [kind |-> "tune", depth |-> depth, mode |-> mode, gate |-> gate]
          /\ mode \in GateModes /\ gate \in Nat
    BY <1>1, <1>3 DEF StrategyIsKnown
  <2>2. Summary \in Tried
    BY <1>1, <2>1, SummaryIsTyped
  <2>3. /\ tried' = Append(tried, Summary) /\ place' = 1 /\ fetched' = {} /\ expended' = 0
        /\ outcomes' = << >>
    BY <1>3 DEF FinishCorpus, Fresh
  <2>4. PICK n \in Nat : n = Len(tried)
    BY DEF PolicyTypes
  <2>5. tried' \in Seq(Tried) /\ Len(tried') = n + 1
    BY <2>2, <2>3, <2>4 DEF PolicyTypes
  <2>6. PICK k \in Nat : k = Len(GATE_GRID)
    BY FirstGate
  <2>7. n < k
    BY <1>1, <2>4, <2>6 DEF PolicyTypes
  <2>8. /\ StrategyIsKnown' /\ bench' \in {"running", "done"}
        /\ bench' = "running" => Len(tried') < Len(GATE_GRID)
    <3>1. CASE n + 1 = k
      <4>1. bench' = "done" /\ strategy' = strategy
        BY <1>3, <2>5, <2>6, <3>1 DEF FinishCorpus
      <4> QED
        BY <1>1, <4>1 DEF StrategyIsKnown, Weighing
    <3>2. CASE n + 1 # k
      <4>1. n + 1 + 1 \in 1 .. k /\ n + 1 < k
        BY <2>7, <3>2
      <4>2. /\ bench' = bench
            /\ strategy' = [strategy EXCEPT !.mode = GATE_GRID[n + 1 + 1].mode,
                                            !.gate = GATE_GRID[n + 1 + 1].gate]
        BY <1>3, <2>5, <2>6, <3>2 DEF FinishCorpus
      <4>3. PICK m \in GateModes, g \in Nat : m = GATE_GRID[n + 1 + 1].mode /\ g = GATE_GRID[n + 1 + 1].gate
        BY <2>6, <4>1, FirstGate
      <4>4. strategy' = [kind |-> "tune", depth |-> depth, mode |-> m, gate |-> g]
        BY <2>1, <4>2, <4>3
      <4> QED
        BY <1>1, <2>5, <2>6, <4>1, <4>2, <4>4 DEF StrategyIsKnown
    <3> QED
      BY <3>1, <3>2
  <2>9. PICK c \in Nat : c = Len(corpus')
    BY <1>1 DEF PolicyTypes
  <2>10. /\ Len(outcomes') + 1 = place' /\ Len(outcomes') <= Len(corpus') /\ place' \in Nat \ {0}
         /\ outcomes' \in Seq(PolicyResults) /\ fetched' \in SUBSET Priced
         /\ fetched' \in SUBSET Rungs' /\ expended' \in Nat /\ corpus' \in Seq(BenchLeads)
    <3>1. Len(<< >>) = 0 /\ << >> \in Seq(PolicyResults) /\ 0 <= c
      OBVIOUS
    <3>2. corpus' \in Seq(BenchLeads)
      BY <1>1 DEF PolicyTypes
    <3> QED
      BY <2>3, <2>9, <3>1, <3>2
  <2> QED
    BY <2>5, <2>8, <2>10 DEF PolicyTypes
<1> QED
  BY <1>2, <1>3

(* What a step of a policy does to the lead it decides.                    *)
LEMMA ClimbingBuysOrConcludes ==
  ASSUME PolicyTypes, NEW confidence \in Confidences, ClimbLadder(confidence)
  PROVE  /\ Deciding /\ strategy.kind \in {"full", "tune"}
         /\ \/ \E stop \in {"all_providers_called", "tier_limit"} : Conclude(stop, confidence)
            \/ AtGate /\ GatedOut /\ Conclude("gated_out_of_icp", confidence)
            \/ \E spec \in Range(Ladder) : Buy(spec)
<1>1. Deciding /\ strategy.kind \in {"full", "tune"}
  BY DEF ClimbLadder
<1>2. CASE Cardinality(fetched) = Len(Ladder)
  BY <1>1, <1>2 DEF ClimbLadder
<1>3. CASE Cardinality(fetched) # Len(Ladder)
  <2>1. fetched \in SUBSET Rungs
    BY <1>1 DEF PolicyTypes
  <2>2. NextRung \in Range(Ladder)
    BY <1>3, <2>1, NextRungIsPriced
  <2>3. (AtGate /\ GatedOut /\ Conclude("gated_out_of_icp", confidence)) \/ Buy(NextRung)
    BY <1>3 DEF ClimbLadder
  <2> QED
    BY <1>1, <2>2, <2>3
<1> QED
  BY <1>1, <1>2, <1>3

(* A step of the selection by value buys one candidate or concludes.       *)
LEMMA WeighingBuysOrConcludes ==
  ASSUME PolicyTypes, NEW confidence \in Confidences, NEW helpful, WeighNext(confidence, helpful)
  PROVE  /\ Deciding /\ strategy.kind \in {"adaptive", "escalation"} /\ Weighing
         /\ \/ \E stop \in StopsNamed :
                 /\ stop \in {StopBeforeBuying(CurrentPicture, confidence), "no_positive_evoi"}
                 /\ Conclude(stop, confidence)
            \/ \E spec \in Remaining :
                 /\ Affordable(spec) /\ Buy(spec) /\ Unknown(CurrentPicture.facts, spec) # {}
<1> DEFINE p == CurrentPicture
           stop == StopBeforeBuying(p, confidence)
           best == Best(p, confidence, helpful)
<1>1. Deciding /\ strategy.kind \in {"adaptive", "escalation"}
  BY DEF WeighNext
<1>2. Weighing
  BY <1>1 DEF PolicyTypes, Deciding, StrategyIsKnown
<1>3. stop \in StopsNamed \cup {"none"}
  BY DEF StopBeforeBuying, StopsNamed
<1>4. CASE stop # "none"
  BY <1>1, <1>2, <1>3, <1>4 DEF WeighNext
<1>5. CASE stop = "none" /\ best.net <= 0
  BY <1>1, <1>2, <1>5 DEF WeighNext, StopsNamed
<1>6. CASE stop = "none" /\ ~(best.net <= 0)
  <2>1. Buy(best.spec)
    BY <1>6 DEF WeighNext
  <2>2. \E a \in Remaining : Affordable(a)
    BY <1>6 DEF StopBeforeBuying
  <2>3. /\ p.bounds.current \in Nat /\ CurrentLead.value \in DOMAIN BUSINESS_VALUE
    BY <1>1, LeadIsTyped, PicturesAreRight DEF CurrentPicture, PolicyTypes
  <2>4. confidence \in Int
    BY ConfidencesArePercents
  <2> HIDE DEF p
  <2>5. /\ best.spec \in Remaining /\ Affordable(best.spec)
        /\ best.net = NetEvoi(p, best.spec, confidence, helpful)
    BY <1>2, <2>2, <2>3, <2>4, BestIsCandidate
  <2> HIDE DEF best
  <2>6. best.spec \in Specs
    BY <2>5, CandidatesArePriced
  <2>7. Unknown(p.facts, best.spec) = {} => NetEvoi(p, best.spec, confidence, helpful) <= 0
    BY <1>2, <2>3, <2>4, <2>6, NetEvoiIsInteger
  <2>8. Unknown(p.facts, best.spec) # {}
    BY <1>6, <2>5, <2>7
  <2> QED
    BY <1>1, <1>2, <2>1, <2>5, <2>8 DEF p
<1> QED
  BY <1>4, <1>5, <1>6

(* Every step keeps the types.                                             *)
LEMMA PolicyTypesStay == PolicyTypes /\ PoliciesNext => PolicyTypes'
<1> SUFFICES ASSUME PolicyTypes, PoliciesNext PROVE PolicyTypes'
  OBVIOUS
<1>1. ASSUME NEW confidence \in Confidences, ClimbLadder(confidence) PROVE PolicyTypes'
  <2>1. Deciding /\ strategy.kind \in {"full", "tune"}
    BY <1>1, ClimbingBuysOrConcludes
  <2>2. ASSUME NEW stop \in StopsNamed, Conclude(stop, confidence) PROVE PolicyTypes'
    BY <2>1, <2>2, ConcludeStays
  <2>3. ASSUME NEW spec \in Range(Ladder), Buy(spec) PROVE PolicyTypes'
    <3>1. spec \in Specs /\ spec.name \in Priced
      BY LadderIsPriced
    <3> QED
      BY <2>1, <2>3, <3>1, BuyStays
  <2>4. {"all_providers_called", "tier_limit", "gated_out_of_icp"} \in SUBSET StopsNamed
    BY DEF StopsNamed
  <2> QED
    BY <1>1, <2>2, <2>3, <2>4, ClimbingBuysOrConcludes
<1>2. ASSUME NEW confidence \in Confidences, NEW helpful, WeighNext(confidence, helpful)
      PROVE  PolicyTypes'
  <2>1. Deciding /\ strategy.kind \in {"adaptive", "escalation"}
    BY <1>2, WeighingBuysOrConcludes
  <2>2. ASSUME NEW stop \in StopsNamed, Conclude(stop, confidence) PROVE PolicyTypes'
    BY <2>1, <2>2, ConcludeStays
  <2>3. ASSUME NEW spec \in Remaining, Buy(spec) PROVE PolicyTypes'
    <3>1. spec \in Specs /\ spec.name \in Priced
      BY CandidatesArePriced
    <3> QED
      BY <2>1, <2>3, <3>1, BuyStays
  <2> QED
    BY <1>2, <2>2, <2>3, WeighingBuysOrConcludes
<1> QED
  BY <1>1, <1>2, ObserveStays, FitStays, ChooseStays, FinishStays DEF PoliciesNext

(* The types hold at the start.                                            *)
LEMMA PoliciesBegin == PoliciesInit => PolicyTypes
<1> SUFFICES ASSUME PoliciesInit PROVE PolicyTypes
  OBVIOUS
<1>1. strategy.kind = "none"
  BY DEF PoliciesInit
<1>2. << >> \in Seq(PolicyResults) /\ << >> \in Seq(Tried) /\ << >> \in Seq(BenchLeads)
      /\ Len(<< >>) = 0
  OBVIOUS
<1> QED
  BY <1>1, <1>2 DEF PoliciesInit, PolicyTypes

(* A policy decides a lead by buying for it, or by concluding for a reason *)
(* that holds there and then.                                              *)
Bought(spec) ==
  /\ spec \in Specs /\ spec.name \in Priced /\ Buy(spec)
  /\ strategy.kind \in {"adaptive", "escalation"} =>
       spec \in Remaining /\ Affordable(spec) /\ Unknown(CurrentPicture.facts, spec) # {}

(* A lead is concluded, for a reason that the picture gives.               *)
StoppedFor(stop, confidence) ==
  /\ stop = "gated_out_of_icp" => GatedOut /\ strategy.kind = "tune"
  /\ stop = "decision_settled" => CurrentPicture.settled
  /\ stop = "budget_exhausted" => Weighing /\ \A spec \in Remaining : ~Affordable(spec)
  /\ Conclude(stop, confidence)

(* What a step of the benchmark does: it moves the calibration or the      *)
(* strategy, ends a pass, buys an answer, or concludes a lead.             *)
LEMMA LeadsAreDecided ==
  ASSUME PolicyTypes, PoliciesNext
  PROVE  \/ \E confidence \in Confidences, correct \in BOOLEAN : Observe(confidence, correct)
         \/ \E target \in ErrorTargets : FitThreshold(target)
         \/ \E s \in Strategies, c \in Corpora : ChoosePolicy(s, c)
         \/ FinishCorpus
         \/ Deciding /\ \E spec \in Specs : Bought(spec)
         \/ Deciding /\ \E confidence \in Confidences, stop \in StopsNamed : StoppedFor(stop, confidence)
<1>1. ASSUME NEW confidence \in Confidences, ClimbLadder(confidence)
      PROVE  Deciding /\ ((\E spec \in Specs : Bought(spec))
                          \/ \E stop \in StopsNamed : StoppedFor(stop, confidence))
  <2>1. Deciding /\ strategy.kind \in {"full", "tune"}
    BY <1>1, ClimbingBuysOrConcludes
  <2>2. ASSUME NEW stop \in {"all_providers_called", "tier_limit"}, Conclude(stop, confidence)
        PROVE  \E x \in StopsNamed : StoppedFor(x, confidence)
    BY <2>2 DEF StopsNamed, StoppedFor
  <2>3. ASSUME AtGate, GatedOut, Conclude("gated_out_of_icp", confidence)
        PROVE  \E x \in StopsNamed : StoppedFor(x, confidence)
    BY <2>3 DEF StopsNamed, StoppedFor, AtGate
  <2>4. ASSUME NEW spec \in Range(Ladder), Buy(spec)
        PROVE  \E x \in Specs : Bought(x)
    BY <2>1, <2>4, LadderIsPriced DEF Bought
  <2> QED
    BY <1>1, <2>1, <2>2, <2>3, <2>4, ClimbingBuysOrConcludes
<1>2. ASSUME NEW confidence \in Confidences, NEW helpful, WeighNext(confidence, helpful)
      PROVE  Deciding /\ ((\E spec \in Specs : Bought(spec))
                          \/ \E stop \in StopsNamed : StoppedFor(stop, confidence))
  <2>1. Deciding /\ strategy.kind \in {"adaptive", "escalation"} /\ Weighing
    BY <1>2, WeighingBuysOrConcludes
  <2>2. ASSUME NEW stop \in StopsNamed, Conclude(stop, confidence),
               stop \in {StopBeforeBuying(CurrentPicture, confidence), "no_positive_evoi"}
        PROVE  StoppedFor(stop, confidence)
    <3>1. CASE stop = "no_positive_evoi"
      BY <2>2, <3>1 DEF StoppedFor
    <3>2. CASE stop = StopBeforeBuying(CurrentPicture, confidence)
      <4>1. /\ stop # "gated_out_of_icp"
            /\ stop = "decision_settled" => CurrentPicture.settled
            /\ stop = "budget_exhausted" => \A spec \in Remaining : ~Affordable(spec)
        BY <3>2 DEF StopBeforeBuying
      <4> QED
        BY <2>1, <2>2, <4>1 DEF StoppedFor
    <3> QED
      BY <2>2, <3>1, <3>2
  <2>3. ASSUME NEW spec \in Remaining, Affordable(spec), Buy(spec),
               Unknown(CurrentPicture.facts, spec) # {}
        PROVE  \E x \in Specs : Bought(x)
    BY <2>3, CandidatesArePriced DEF Bought
  <2> QED
    BY <1>2, <2>1, <2>2, <2>3, WeighingBuysOrConcludes
<1> QED
  BY <1>1, <1>2 DEF PoliciesNext

(* The cap of a lead.                                                      *)
LEMMA CapBegins == PoliciesInit => CapHolds
<1> SUFFICES ASSUME PoliciesInit PROVE CapHolds
  OBVIOUS
<1>1. strategy.kind = "none"
  BY DEF PoliciesInit
<1> QED
  BY <1>1 DEF CapHolds

(* Every step keeps the cap.                                               *)
LEMMA CapStays == PolicyTypes /\ CapHolds /\ PoliciesNext => CapHolds'
<1> SUFFICES ASSUME PolicyTypes, CapHolds, PoliciesNext, strategy'.kind \in {"adaptive", "escalation"}
             PROVE  expended' <= strategy'.cap /\ \A i \in DOMAIN outcomes' : outcomes'[i].cost <= strategy'.cap
  BY DEF CapHolds
<1>1. ASSUME Deciding, NEW spec \in Specs, Bought(spec)
      PROVE  expended' <= strategy'.cap /\ \A i \in DOMAIN outcomes' : outcomes'[i].cost <= strategy'.cap
  <2>1. strategy' = strategy /\ outcomes' = outcomes /\ (expended' = expended \/ expended' = expended + Billed(spec))
    BY <1>1 DEF Bought, Buy
  <2>2. Weighing /\ Affordable(spec)
    BY <1>1, <2>1 DEF Bought, PolicyTypes, Deciding, StrategyIsKnown
  <2>3. expended \in Nat /\ Billed(spec) \in Nat /\ Billed(spec) <= spec.price /\ spec.price \in Nat
    BY BilledIsNatural, CatalogueIsTyped DEF PolicyTypes
  <2>4. expended + Billed(spec) <= strategy.cap
    BY <2>2, <2>3 DEF Affordable, Weighing
  <2> QED
    BY <2>1, <2>4 DEF CapHolds
<1>2. ASSUME Deciding, NEW confidence, NEW stop, StoppedFor(stop, confidence)
      PROVE  expended' <= strategy'.cap /\ \A i \in DOMAIN outcomes' : outcomes'[i].cost <= strategy'.cap
  <2>1. PICK o : o = [stop |-> stop, called |-> fetched, cost |-> expended,
                      decision |-> CurrentPicture.decision, autonomous |-> confidence >= tau]
    OBVIOUS
  <2>2. strategy' = strategy /\ outcomes' = Append(outcomes, o) /\ expended' = 0 /\ o.cost = expended
    BY <1>2, <2>1 DEF StoppedFor, Conclude
  <2>3. PICK n \in Nat : n = Len(outcomes)
    BY DEF PolicyTypes
  <2>4. /\ DOMAIN outcomes = 1 .. n /\ DOMAIN outcomes' = 1 .. n + 1 /\ outcomes'[n + 1] = o
        /\ \A i \in 1 .. n : outcomes'[i] = outcomes[i]
    <3>1. outcomes \in Seq(PolicyResults)
      BY DEF PolicyTypes
    <3> QED
      BY <2>2, <2>3, <3>1
  <2>5. Weighing
    BY <1>2, <2>2 DEF PolicyTypes, Deciding, StrategyIsKnown
  <2>6. 0 <= strategy.cap /\ expended <= strategy.cap
    BY <2>2, <2>5 DEF Weighing, CapHolds
  <2>7. ASSUME NEW i \in DOMAIN outcomes' PROVE outcomes'[i].cost <= strategy.cap
    <3>1. i = n + 1 \/ i \in 1 .. n
      BY <2>4
    <3> QED
      BY <2>2, <2>4, <2>6, <3>1 DEF CapHolds
  <2> QED
    BY <2>2, <2>6, <2>7
<1>3. ASSUME NEW s \in Strategies, NEW c \in Corpora, ChoosePolicy(s, c)
      PROVE  expended' <= strategy'.cap /\ \A i \in DOMAIN outcomes' : outcomes'[i].cost <= strategy'.cap
  <2>1. outcomes' = << >> /\ expended' = 0 /\ bench' = "running"
    BY <1>3 DEF ChoosePolicy, Fresh
  <2>2. Weighing'
    <3>1. PolicyTypes'
      BY <1>3, ChooseStays
    <3> QED
      BY <2>1, <3>1 DEF PolicyTypes, StrategyIsKnown
  <2> QED
    BY <2>1, <2>2 DEF Weighing
<1>4. ASSUME FinishCorpus
      PROVE  expended' <= strategy'.cap /\ \A i \in DOMAIN outcomes' : outcomes'[i].cost <= strategy'.cap
  <2>1. CASE strategy.kind # "tune"
    BY <1>4, <2>1 DEF FinishCorpus, CapHolds
  <2>2. CASE strategy.kind = "tune"
    <3>1. StrategyIsKnown
      BY <1>4 DEF FinishCorpus, PolicyTypes
    <3>2. PICK depth, mode, gate :
            strategy = [kind |-> "tune", depth |-> depth, mode |-> mode, gate |-> gate]
      BY <2>2, <3>1 DEF StrategyIsKnown
    <3>3. strategy'.kind = "tune"
      BY <1>4, <2>2, <3>2 DEF FinishCorpus
    <3> QED
      BY <3>3
  <2> QED
    BY <2>1, <2>2
<1>5. ASSUME NEW confidence, NEW correct, Observe(confidence, correct)
      PROVE  FALSE
  BY <1>5 DEF Observe, PolicyTypes
<1>6. ASSUME NEW target, FitThreshold(target)
      PROVE  FALSE
  BY <1>6 DEF FitThreshold
<1> QED
  BY <1>1, <1>2, <1>3, <1>4, <1>5, <1>6, LeadsAreDecided

(* The cache of a context, and the calls of it.                            *)
LEMMA CacheMeansPaidOnce == CacheIsCalls => PaidOnce
<1> SUFFICES ASSUME CacheIsCalls PROVE PaidOnce
  OBVIOUS
<1>1. PICK n \in Nat : n = Len(invoiced)
  BY DEF CacheIsCalls
<1>2. DOMAIN invoiced = 1 .. n /\ \A i \in 1 .. n : invoiced[i] \in kept
  BY <1>1 DEF CacheIsCalls
<1>3. Range(invoiced) = kept
  BY <1>1, <1>2 DEF Range, CacheIsCalls
<1> QED
  BY <1>3 DEF PaidOnce, CacheIsCalls

(* With nothing kept and nothing invoiced the cache is that of the calls.  *)
LEMMA EmptyCache ==
  ASSUME kept' = {}, invoiced' = << >> PROVE CacheIsCalls'
<1>1. << >> \in Seq({}) /\ Len(<< >>) = 0 /\ IsFiniteSet({}) /\ Cardinality({}) = 0
  BY FS_EmptySet
<1> QED
  BY <1>1 DEF CacheIsCalls

(* The cache is that of the calls at the start,                            *)
LEMMA CacheBegins == PoliciesInit => CacheIsCalls
<1>1. << >> \in Seq({}) /\ Len(<< >>) = 0 /\ IsFiniteSet({}) /\ Cardinality({}) = 0
  BY FS_EmptySet
<1> QED
  BY <1>1 DEF CacheIsCalls, PoliciesInit

(* and after every step.                                                   *)
LEMMA CacheStays == PolicyTypes /\ CacheIsCalls /\ PoliciesNext => CacheIsCalls'
<1> SUFFICES ASSUME PolicyTypes, CacheIsCalls, PoliciesNext PROVE CacheIsCalls'
  OBVIOUS
<1>1. ASSUME NEW spec \in Specs, Bought(spec) PROVE CacheIsCalls'
  <2>1. PICK key : key = <<spec.name, EntityKey(spec)>>
    OBVIOUS
  <2>2. kept' = kept \cup {key} /\ invoiced' = IF key \in kept THEN invoiced ELSE Append(invoiced, key)
    BY <1>1, <2>1 DEF Bought, Buy, KeptAfter, InCache
  <2>3. CASE key \in kept
    <3>1. kept' = kept /\ invoiced' = invoiced
      BY <2>2, <2>3
    <3> QED
      BY <3>1 DEF CacheIsCalls
  <2>4. CASE key \notin kept
    <3>1. PICK n \in Nat : n = Len(invoiced)
      BY DEF CacheIsCalls
    <3>2. PICK K : K = kept \cup {key}
      OBVIOUS
    <3>3. invoiced \in Seq(K) /\ key \in K /\ kept' = K
      <4>1. DOMAIN invoiced = 1 .. n /\ \A i \in 1 .. n : invoiced[i] \in kept
        BY <3>1 DEF CacheIsCalls
      <4>2. invoiced \in Seq(kept) /\ kept \in SUBSET K
        BY <3>2 DEF CacheIsCalls
      <4>3. invoiced \in Seq(K)
        BY <4>2, SeqMonotonic
      <4> QED
        BY <2>2, <3>2, <4>3
    <3>4. /\ invoiced' = Append(invoiced, key) /\ invoiced' \in Seq(K) /\ Len(invoiced') = n + 1
          /\ invoiced'[n + 1] = key /\ \A i \in 1 .. n : invoiced'[i] = invoiced[i]
      BY <2>2, <2>4, <3>1, <3>3
    <3>5. IsFiniteSet(K) /\ Cardinality(K) = n + 1
      BY <2>4, <3>1, <3>2, FS_AddElement DEF CacheIsCalls
    <3>6. ASSUME NEW x \in K PROVE \E i \in 1 .. n + 1 : invoiced'[i] = x
      <4>1. CASE x = key
        BY <3>4, <4>1
      <4>2. CASE x \in kept
        BY <3>1, <3>4, <4>2 DEF CacheIsCalls
      <4> QED
        BY <3>2, <4>1, <4>2
    <3> QED
      BY <3>3, <3>4, <3>5, <3>6 DEF CacheIsCalls
  <2> QED
    BY <2>3, <2>4
<1>2. ASSUME UNCHANGED <<kept, invoiced>> PROVE CacheIsCalls'
  BY <1>2 DEF CacheIsCalls
<1>3. ASSUME NEW confidence, NEW stop, StoppedFor(stop, confidence) PROVE UNCHANGED <<kept, invoiced>>
  BY <1>3 DEF StoppedFor, Conclude
<1>4. ASSUME NEW s, NEW c, ChoosePolicy(s, c) PROVE kept' = {} /\ invoiced' = << >>
  BY <1>4 DEF ChoosePolicy, Fresh
<1>5. ASSUME FinishCorpus PROVE UNCHANGED <<kept, invoiced>> \/ (kept' = {} /\ invoiced' = << >>)
  BY <1>5 DEF FinishCorpus, Fresh
<1>6. ASSUME NEW confidence, NEW correct, Observe(confidence, correct)
      PROVE  UNCHANGED <<kept, invoiced>>
  BY <1>6 DEF Observe
<1>7. ASSUME NEW target, FitThreshold(target) PROVE UNCHANGED <<kept, invoiced>>
  BY <1>7 DEF FitThreshold
<1> QED
  BY <1>1, <1>2, <1>3, <1>4, <1>5, <1>6, <1>7, LeadsAreDecided, EmptyCache

(* A step buys only what the cache does not hold.                          *)
LEMMA PoliciesBuyNews == PolicyTypes /\ CacheIsCalls /\ PoliciesNext => BuysOnlyNews
<1> SUFFICES ASSUME PolicyTypes, CacheIsCalls, PoliciesNext PROVE BuysOnlyNews
  OBVIOUS
<1>1. PaidOnce'
  <2>1. CacheIsCalls'
    BY CacheStays
  <2>2. CacheIsCalls' => PaidOnce'
    BY CacheMeansPaidOnce, PTL
  <2> QED
    BY <2>1, <2>2
<1>2. ASSUME strategy.kind \in {"adaptive", "escalation"}, NEW spec \in Range(Rates),
             spec.name \in fetched' \ fetched
      PROVE  Unknown(CurrentPicture.facts, spec) # {}
  <2>1. ASSUME NEW a \in Specs, Bought(a) PROVE Unknown(CurrentPicture.facts, spec) # {}
    <3>1. fetched' = fetched \cup {a.name}
      BY <2>1 DEF Bought, Buy
    <3>2. spec = a
      BY <1>2, <3>1, RatesAreTyped, CatalogueIsTyped
    <3> QED
      BY <1>2, <2>1, <3>2 DEF Bought
  <2>2. ASSUME fetched' = {} \/ fetched' = fetched PROVE FALSE
    BY <1>2, <2>2
  <2>3. ASSUME NEW confidence, NEW stop, StoppedFor(stop, confidence) PROVE FALSE
    BY <2>2, <2>3 DEF StoppedFor, Conclude
  <2>4. ASSUME NEW s, NEW c, ChoosePolicy(s, c) PROVE FALSE
    BY <2>2, <2>4 DEF ChoosePolicy, Fresh
  <2>5. ASSUME FinishCorpus PROVE FALSE
    BY <2>2, <2>5 DEF FinishCorpus, Fresh
  <2>6. ASSUME NEW confidence, NEW correct, Observe(confidence, correct) PROVE FALSE
    BY <2>2, <2>6 DEF Observe
  <2>7. ASSUME NEW target, FitThreshold(target) PROVE FALSE
    BY <2>2, <2>7 DEF FitThreshold
  <2> QED
    BY <2>1, <2>3, <2>4, <2>5, <2>6, <2>7, LeadsAreDecided
<1> QED
  BY <1>1, <1>2 DEF BuysOnlyNews

(* Why a lead was abandoned, for good.                                     *)
LEMMA StopsBegin == PoliciesInit => PoliciesStopRightly
BY DEF PoliciesInit, PoliciesStopRightly

(* Such a conclusion has a reason that is right.                           *)
LEMMA StopIsRight ==
  ASSUME PolicyTypes, Deciding, NEW confidence, NEW stop, StoppedFor(stop, confidence)
  PROVE  LET p == Picture(CurrentLead.world, fetched)
         IN  /\ stop = "gated_out_of_icp" /\ strategy.mode = "upper_bound"
                  /\ strategy.gate <= REFERENCE_CONFIG.reject => p.reachable = {"reject"}
             /\ stop = "decision_settled" => p.reachable = {CurrentPicture.decision}
             /\ stop = "budget_exhausted" =>
                  \A spec \in Range(Rates) :
                    spec.name \notin fetched => expended + spec.price > strategy.cap
<1> DEFINE p == Picture(CurrentLead.world, fetched)
<1>1. p = CurrentPicture
  BY DEF CurrentPicture
<1>2. CurrentLead.world \in DOMAIN Worlds /\ fetched \in SUBSET Priced
  BY LeadIsTyped DEF PolicyTypes
<1>3. /\ p.bounds.current \in Nat /\ p.bounds.upper \in Nat
      /\ p.settled => p.reachable = {p.decision}
      /\ p.bounds.upper < REFERENCE_CONFIG.reject => p.reachable = {"reject"}
  BY <1>2, PicturesAreRight
<1> HIDE DEF p
<1>4. ASSUME stop = "gated_out_of_icp", strategy.mode = "upper_bound",
             strategy.gate <= REFERENCE_CONFIG.reject
      PROVE  p.reachable = {"reject"}
  <2>1. GatedOut /\ strategy.kind = "tune" /\ bench = "running"
    BY <1>4 DEF StoppedFor, Deciding
  <2>2. strategy.gate \in Nat
    BY <2>1 DEF PolicyTypes, StrategyIsKnown
  <2>3. p.bounds.upper < strategy.gate
    BY <1>1, <1>4, <2>1 DEF GatedOut
  <2>4. REFERENCE_CONFIG.reject \in Nat
    BY DEF REFERENCE_CONFIG
  <2> QED
    BY <1>3, <1>4, <2>2, <2>3, <2>4
<1>5. ASSUME stop = "budget_exhausted", NEW spec \in Range(Rates), spec.name \notin fetched
      PROVE  expended + spec.price > strategy.cap
  <2>1. Weighing /\ ~Affordable(spec)
    BY <1>5 DEF StoppedFor, Remaining
  <2>2. spec.price \in Nat /\ expended \in Nat
    BY RatesAreTyped, CatalogueIsTyped DEF PolicyTypes
  <2> QED
    BY <2>1, <2>2 DEF Affordable, Weighing
<1> QED
  BY <1>1, <1>3, <1>4, <1>5 DEF StoppedFor, p

(* Every step keeps the stops justified.                                   *)
LEMMA StopsStay == PolicyTypes /\ PoliciesStopRightly /\ PoliciesNext => PoliciesStopRightly'
<1> SUFFICES ASSUME PolicyTypes, PoliciesStopRightly, PoliciesNext PROVE PoliciesStopRightly'
  OBVIOUS
<1>1. ASSUME UNCHANGED <<outcomes, corpus, strategy>> PROVE PoliciesStopRightly'
  BY <1>1 DEF PoliciesStopRightly
<1>2. ASSUME outcomes' = << >> PROVE PoliciesStopRightly'
  BY <1>2 DEF PoliciesStopRightly
<1>3. ASSUME NEW spec, Bought(spec) PROVE PoliciesStopRightly'
  BY <1>1, <1>3 DEF Bought, Buy
<1>4. ASSUME NEW s, NEW c, ChoosePolicy(s, c) PROVE PoliciesStopRightly'
  BY <1>2, <1>4 DEF ChoosePolicy, Fresh
<1>5. ASSUME FinishCorpus PROVE PoliciesStopRightly'
  <2>1. CASE strategy.kind # "tune"
    BY <1>1, <1>5, <2>1 DEF FinishCorpus
  <2>2. CASE strategy.kind = "tune"
    BY <1>2, <1>5, <2>2 DEF FinishCorpus, Fresh
  <2> QED
    BY <2>1, <2>2
<1>6. ASSUME NEW confidence, NEW correct, Observe(confidence, correct) PROVE PoliciesStopRightly'
  BY <1>1, <1>6 DEF Observe
<1>7. ASSUME NEW target, FitThreshold(target) PROVE PoliciesStopRightly'
  BY <1>2, <1>7 DEF FitThreshold, PolicyTypes
<1>8. ASSUME Deciding, NEW confidence, NEW stop, StoppedFor(stop, confidence)
      PROVE  PoliciesStopRightly'
  <2>1. PICK o : o = [stop |-> stop, called |-> fetched, cost |-> expended,
                      decision |-> CurrentPicture.decision, autonomous |-> confidence >= tau]
    OBVIOUS
  <2>2. /\ strategy' = strategy /\ corpus' = corpus /\ outcomes' = Append(outcomes, o)
        /\ o.stop = stop /\ o.called = fetched /\ o.cost = expended
        /\ o.decision = CurrentPicture.decision
    BY <1>8, <2>1 DEF StoppedFor, Conclude
  <2>3. PICK n \in Nat : n = Len(outcomes)
    BY DEF PolicyTypes
  <2>4. /\ DOMAIN outcomes = 1 .. n /\ DOMAIN outcomes' = 1 .. n + 1 /\ outcomes'[n + 1] = o
        /\ \A i \in 1 .. n : outcomes'[i] = outcomes[i]
    <3>1. outcomes \in Seq(PolicyResults)
      BY DEF PolicyTypes
    <3> QED
      BY <2>2, <2>3, <3>1
  <2>5. n + 1 = place
    BY <2>3 DEF PolicyTypes
  <2> DEFINE Right(q, lead) ==
               LET p == Picture(lead.world, q.called)
               IN  /\ q.stop = "gated_out_of_icp" /\ strategy.mode = "upper_bound"
                        /\ strategy.gate <= REFERENCE_CONFIG.reject => p.reachable = {"reject"}
                   /\ q.stop = "decision_settled" => p.reachable = {q.decision}
                   /\ q.stop = "budget_exhausted" =>
                        \A spec \in Range(Rates) :
                          spec.name \notin q.called => q.cost + spec.price > strategy.cap
  <2>6. \A i \in 1 .. n : Right(outcomes[i], corpus[i])
    BY <2>4 DEF PoliciesStopRightly
  <2>7. Right(o, corpus[place])
    BY <1>8, <2>2, StopIsRight DEF CurrentLead
  <2>8. ASSUME NEW i \in 1 .. n + 1 PROVE Right(outcomes'[i], corpus[i])
    <3>1. CASE i \in 1 .. n
      BY <2>4, <2>6, <3>1
    <3>2. CASE i = n + 1
      <4> HIDE DEF Right
      <4> QED
        BY <2>4, <2>5, <2>7, <3>2
    <3> QED
      BY <3>1, <3>2
  <2> QED
    BY <2>2, <2>4, <2>8 DEF PoliciesStopRightly
<1> QED
  BY <1>3, <1>4, <1>5, <1>6, <1>7, <1>8, LeadsAreDecided

-----------------------------------------------------------------------------
(* A scan along a sequence that keeps the last value offered.              *)
IsScan(G, c, b, n, g) ==
  g = [i \in 0 .. n |-> IF i = 0 THEN b ELSE IF i \in G THEN c[i] ELSE g[i - 1]]

(* A scan of a sequence exists.                                            *)
LEMMA ScansExist ==
  ASSUME NEW n \in Nat, NEW G, NEW c, NEW b
  PROVE  \E g : IsScan(G, c, b, n, g)
<1> DEFINE V == {b} \cup {c[i] : i \in 1 .. n}
           F == [i \in 1 .. n |-> [v \in V |-> IF i \in G THEN c[i] ELSE v]]
<1>1. F \in [1 .. n -> [V -> V]]
  OBVIOUS
<1>2. b \in V
  OBVIOUS
<1>3. PICK h : IsRecursionTo(F, b, h, n)
  <2> HIDE DEF F, V
  <2> QED
    BY RecursionsExist
<1>4. \A i \in 0 .. n : h[i] \in V
  <2> HIDE DEF F, V
  <2> QED
    BY <1>1, <1>2, <1>3, RecursionsAreTyped
<1>5. ASSUME NEW i \in 0 .. n
      PROVE  RecStep(F, b, h, i) = IF i = 0 THEN b ELSE IF i \in G THEN c[i] ELSE h[i - 1]
  <2>1. CASE i = 0
    BY <2>1 DEF RecStep
  <2>2. CASE i # 0
    <3>1. h[i - 1] \in V /\ i \in 1 .. n
      BY <1>4, <2>2
    <3> HIDE DEF V
    <3> QED
      BY <2>2, <3>1 DEF RecStep
  <2> QED
    BY <2>1, <2>2
<1>6. IsScan(G, c, b, n, h)
  <2> HIDE DEF F
  <2> QED
    BY <1>3, <1>5 DEF IsRecursionTo, IsScan
<1> QED
  BY <1>6

(* A scan keeps the last value that passed.                                *)
LEMMA ScansKeepTheLast ==
  ASSUME NEW n \in Nat, NEW G \in SUBSET (1 .. n), NEW c, NEW b, NEW g, IsScan(G, c, b, n, g)
  PROVE  \/ G = {} /\ g[n] = b
         \/ \E j \in G : g[n] = c[j] /\ \A k \in G : k <= j
<1> DEFINE Kept(m) ==
             \/ g[m] = b /\ \A k \in G : ~(k <= m)
             \/ \E j \in G : j <= m /\ g[m] = c[j] /\ \A k \in G : k <= m => k <= j
           Bad == {m \in Nat : m <= n /\ ~Kept(m)}
<1>1. \A k \in G : k \in Nat /\ k <= n /\ k # 0
  OBVIOUS
<1>2. ASSUME Bad # {} PROVE FALSE
  <2>1. PICK m \in Bad : \A j \in Bad : m <= j
    <3>1. Bad \in SUBSET Nat
      OBVIOUS
    <3> HIDE DEF Bad
    <3> QED
      BY <1>2, <3>1, LeastOf
  <2>2. m \in Nat /\ m <= n /\ ~Kept(m)
    OBVIOUS
  <2>3. g[m] = IF m = 0 THEN b ELSE IF m \in G THEN c[m] ELSE g[m - 1]
    BY <2>2 DEF IsScan
  <2>4. m # 0
    <3> SUFFICES ASSUME m = 0 PROVE FALSE
      OBVIOUS
    <3>1. \A k \in G : ~(k <= m)
      BY <1>1
    <3> QED
      BY <2>2, <2>3, <3>1
  <2>5. m - 1 \in Nat /\ m - 1 <= n /\ ~(m <= m - 1)
    BY <2>2, <2>4
  <2>6. m \notin G
    <3> SUFFICES ASSUME m \in G PROVE FALSE
      OBVIOUS
    <3>1. m <= m /\ g[m] = c[m]
      BY <2>2, <2>3, <2>4
    <3> QED
      BY <2>2, <3>1
  <2>7. Kept(m - 1)
    <3>1. m - 1 \notin Bad
      <4> HIDE DEF Bad
      <4> QED
        BY <2>1, <2>5
    <3> HIDE DEF Kept
    <3> QED
      BY <2>5, <3>1
  <2>8. g[m] = g[m - 1]
    BY <2>3, <2>4, <2>6
  <2>9. \A k \in G : k <= m <=> k <= m - 1
    <3>1. \A k \in G : k # m
      BY <2>6
    <3> QED
      BY <1>1, <2>2, <3>1
  <2>10. Kept(m)
    BY <2>7, <2>8, <2>9
  <2> QED
    BY <2>2, <2>10
<1>3. Kept(n)
  <2>1. ~Kept(n) => n \in Bad
    <3> HIDE DEF Kept
    <3> QED
      OBVIOUS
  <2> HIDE DEF Bad, Kept
  <2> QED
    BY <1>2, <2>1
<1> QED
  BY <1>1, <1>3

(* The least of a finite set of numbers is in it and bounds it.            *)
LEMMA LeastIs ==
  ASSUME NEW S \in SUBSET Int, NEW x \in S, \A y \in S : x <= y
  PROVE  Min(S) = x
<1>1. PICK m : m = Min(S)
  OBVIOUS
<1>2. m \in S /\ \A y \in S : m <= y
  BY <1>1 DEF Min
<1>3. m \in Int /\ x \in Int /\ m <= x /\ x <= m
  BY <1>2
<1> QED
  BY <1>1, <1>3

(* The threshold.                                                          *)
Predictions == [confidence : Confidences, correct : BOOLEAN]
(* The observations are sorted by descending confidence.                   *)
MostConfidentFirst(sample) ==
  \A i, j \in 1 .. Len(sample) : i <= j => sample[j].confidence <= sample[i].confidence
(* The wrong predictions among the first i.                                *)
ErrorsUpTo(sample, i) == Cardinality({j \in 1 .. i : ~sample[j].correct})
(* Accepting the sample down to i keeps the precision at the target.       *)
Defended(sample, target) ==
  {i \in 1 .. Len(sample) :
     IsBreak(sample, i) /\ CLOPPER_PEARSON[i][ErrorsUpTo(sample, i) + 1] <= target}

(* The threshold that is selected is the confidence at the last place that *)
(* is defended, or rejects everything.                                     *)
LEMMA SelectedIsTheLastDefended ==
  ASSUME NEW sample \in Seq(Predictions), NEW target
  PROVE  LET G == Defended(sample, target)
             t == SelectThreshold(sample, target)
         IN  \/ G = {} /\ t = REJECT_ALL_THRESHOLD
             \/ \E j \in G : t = sample[j].confidence /\ \A k \in G : k <= j
<1> DEFINE n == Len(sample)
           G == Defended(sample, target)
           c == [i \in 1 .. n |-> sample[i].confidence]
           Is(g) == g = [i \in 0 .. n |->
                      IF i = 0 THEN REJECT_ALL_THRESHOLD
                      ELSE IF IsBreak(sample, i)
                              /\ CLOPPER_PEARSON[i][ErrorsUpTo(sample, i) + 1] <= target
                      THEN sample[i].confidence ELSE g[i - 1]]
<1>1. SelectThreshold(sample, target) = (CHOOSE g : Is(g))[n]
  BY DEF SelectThreshold, ErrorsUpTo
<1>2. n \in Nat /\ G \in SUBSET (1 .. n)
  BY DEF Defended
<1>3. ASSUME NEW g PROVE Is(g) <=> IsScan(G, c, REJECT_ALL_THRESHOLD, n, g)
  <2>1. ASSUME NEW i \in 0 .. n
        PROVE  (IF i = 0 THEN REJECT_ALL_THRESHOLD
                ELSE IF IsBreak(sample, i)
                        /\ CLOPPER_PEARSON[i][ErrorsUpTo(sample, i) + 1] <= target
                THEN sample[i].confidence ELSE g[i - 1])
               = IF i = 0 THEN REJECT_ALL_THRESHOLD ELSE IF i \in G THEN c[i] ELSE g[i - 1]
    <3>1. CASE i = 0
      BY <3>1
    <3>2. CASE i # 0
      <4>1. i \in 1 .. n
        BY <1>2, <3>2
      <4>2. c[i] = sample[i].confidence
        BY <4>1
      <4>3. i \in G <=> IsBreak(sample, i)
                        /\ CLOPPER_PEARSON[i][ErrorsUpTo(sample, i) + 1] <= target
        BY <4>1 DEF Defended
      <4> HIDE DEF G, c
      <4> QED
        BY <3>2, <4>2, <4>3
    <3> QED
      BY <3>1, <3>2
  <2> HIDE DEF G, c
  <2> QED
    BY <2>1 DEF IsScan
<1>4. \E g : IsScan(G, c, REJECT_ALL_THRESHOLD, n, g)
  <2> HIDE DEF G, c, n
  <2> QED
    BY <1>2, ScansExist
<1>5. PICK g : g = CHOOSE x : Is(x)
  OBVIOUS
<1>6. IsScan(G, c, REJECT_ALL_THRESHOLD, n, g)
  <2> HIDE DEF G, c, n, Is
  <2> QED
    BY <1>3, <1>4, <1>5
<1>7. \/ G = {} /\ g[n] = REJECT_ALL_THRESHOLD
      \/ \E j \in G : g[n] = c[j] /\ \A k \in G : k <= j
  <2> HIDE DEF G, c, n
  <2> QED
    BY <1>2, <1>6, ScansKeepTheLast
<1>8. \A j \in G : c[j] = sample[j].confidence
  BY <1>2
<1> HIDE DEF Is, c
<1> QED
  BY <1>1, <1>5, <1>7, <1>8

(* Accepting everything at or above a break accepts what comes before it.  *)
LEMMA AcceptedAtBreak ==
  ASSUME NEW sample \in Seq(Predictions), MostConfidentFirst(sample), NEW i \in 1 .. Len(sample),
         IsBreak(sample, i)
  PROVE  {j \in DOMAIN sample : sample[j].confidence >= sample[i].confidence} = 1 .. i
<1>1. PICK n \in Nat : n = Len(sample)
  OBVIOUS
<1>2. DOMAIN sample = 1 .. n /\ \A j \in 1 .. n : sample[j].confidence \in Int
  <2>1. DOMAIN sample = 1 .. n /\ \A j \in 1 .. n : sample[j] \in Predictions
    BY <1>1
  <2> QED
    BY <2>1, ConfidencesArePercents DEF Predictions
<1>3. ASSUME NEW j \in 1 .. n, j <= i PROVE sample[j].confidence >= sample[i].confidence
  BY <1>1, <1>2, <1>3 DEF MostConfidentFirst
<1>4. ASSUME NEW j \in 1 .. n, ~(j <= i) PROVE ~(sample[j].confidence >= sample[i].confidence)
  <2>1. i + 1 \in 1 .. n /\ i + 1 <= j /\ i # n /\ i <= i + 1
    BY <1>1, <1>4
  <2>2. sample[i + 1].confidence # sample[i].confidence
    BY <1>1, <2>1 DEF IsBreak
  <2>3. sample[j].confidence <= sample[i + 1].confidence
        /\ sample[i + 1].confidence <= sample[i].confidence
    BY <1>1, <2>1 DEF MostConfidentFirst
  <2> QED
    BY <1>1, <1>2, <2>1, <2>2, <2>3
<1>5. \A j \in 1 .. n : j <= i <=> j \in 1 .. i
  BY <1>1
<1>6. 1 .. i \in SUBSET (1 .. n)
  BY <1>1
<1> QED
  BY <1>2, <1>3, <1>4, <1>5, <1>6

(* At a break, the place counts what its confidence accepts, and the       *)
(* errors up to it are the errors accepted.                                *)
LEMMA BreaksDefend ==
  ASSUME NEW sample \in Seq(Predictions), MostConfidentFirst(sample), NEW i \in 1 .. Len(sample),
         IsBreak(sample, i)
  PROVE  LET a == {j \in DOMAIN sample : sample[j].confidence >= sample[i].confidence}
         IN  /\ Cardinality(a) = i
             /\ Cardinality({j \in a : ~sample[j].correct}) = ErrorsUpTo(sample, i)
<1> DEFINE a == {j \in DOMAIN sample : sample[j].confidence >= sample[i].confidence}
<1>1. a = 1 .. i
  BY AcceptedAtBreak
<1>2. Cardinality(1 .. i) = i
  BY FS_Interval
<1> HIDE DEF a
<1>3. {j \in a : ~sample[j].correct} = {j \in 1 .. i : ~sample[j].correct}
  BY <1>1
<1> QED
  BY <1>1, <1>2, <1>3 DEF ErrorsUpTo, a

(* The last of equally confident predictions is a break.                   *)
LEMMA BreaksAreEverywhere ==
  ASSUME NEW sample \in Seq(Predictions), MostConfidentFirst(sample), NEW k \in 1 .. Len(sample)
  PROVE  \E i \in 1 .. Len(sample) :
           IsBreak(sample, i) /\ sample[i].confidence = sample[k].confidence
<1>1. PICK n \in Nat : n = Len(sample)
  OBVIOUS
<1> DEFINE K == {i \in 1 .. n : sample[i].confidence = sample[k].confidence}
<1>2. K \in SUBSET (0 .. n) /\ K # {}
  <2>1. k \in K
    BY <1>1
  <2> QED
    BY <2>1
<1>3. PICK m : m \in K /\ \A x \in K : x <= m
  <2> HIDE DEF K
  <2> QED
    BY <1>2, GreatestUpTo
<1>4. m \in 1 .. n /\ sample[m].confidence = sample[k].confidence
  BY <1>3
<1>5. IsBreak(sample, m)
  <2> SUFFICES ASSUME m # n, sample[m + 1].confidence = sample[m].confidence PROVE FALSE
    BY <1>1 DEF IsBreak
  <2>1. m + 1 \in 1 .. n /\ ~(m + 1 <= m)
    BY <1>4
  <2>2. m + 1 \in K
    BY <1>4, <2>1
  <2> HIDE DEF K
  <2> QED
    BY <1>3, <2>1, <2>2
<1> QED
  BY <1>1, <1>4, <1>5

(* So the threshold that is selected is the lowest that is defended.       *)
LEMMA SelectedIsTheLowest ==
  ASSUME NEW sample \in Seq(Predictions), MostConfidentFirst(sample), NEW target
  PROVE  LET accepted(t) == {i \in DOMAIN sample : sample[i].confidence >= t}
             defensible(t) ==
               CLOPPER_PEARSON[Cardinality(accepted(t))]
                 [Cardinality({i \in accepted(t) : ~sample[i].correct}) + 1] <= target
             offered == {sample[i].confidence : i \in DOMAIN sample}
         IN  SelectThreshold(sample, target)
               = Min({REJECT_ALL_THRESHOLD} \cup {t \in offered : defensible(t)})
<1> DEFINE accepted(t) == {i \in DOMAIN sample : sample[i].confidence >= t}
           defensible(t) ==
               CLOPPER_PEARSON[Cardinality(accepted(t))]
                 [Cardinality({i \in accepted(t) : ~sample[i].correct}) + 1] <= target
           offered == {sample[i].confidence : i \in DOMAIN sample}
           S == {REJECT_ALL_THRESHOLD} \cup {t \in offered : defensible(t)}
           G == Defended(sample, target)
           tt == SelectThreshold(sample, target)
<1>1. PICK n \in Nat : n = Len(sample)
  OBVIOUS
<1>2. DOMAIN sample = 1 .. n /\ \A j \in 1 .. n : sample[j].confidence \in 0 .. 100
  <2>1. DOMAIN sample = 1 .. n /\ \A j \in 1 .. n : sample[j] \in Predictions
    BY <1>1
  <2> QED
    BY <2>1, ConfidencesArePercents DEF Predictions
<1>3. ASSUME NEW i \in 1 .. n, IsBreak(sample, i)
      PROVE  defensible(sample[i].confidence) <=> i \in G
  <2>1. /\ Cardinality(accepted(sample[i].confidence)) = i
        /\ Cardinality({j \in accepted(sample[i].confidence) : ~sample[j].correct})
             = ErrorsUpTo(sample, i)
    BY <1>1, <1>3, BreaksDefend
  <2> HIDE DEF accepted
  <2> QED
    BY <1>1, <1>3, <2>1 DEF Defended
<1>4. S \in SUBSET (0 .. 101)
  <2>1. offered \in SUBSET (0 .. 100)
    BY <1>2
  <2>2. ASSUME NEW t \in S PROVE t \in 0 .. 101
    <3>1. t = REJECT_ALL_THRESHOLD \/ t \in offered
      <4> HIDE DEF offered, defensible
      <4> QED
        BY <2>2
    <3>2. CASE t \in offered
      <4>1. t \in 0 .. 100
        <5> HIDE DEF offered, S
        <5> QED
          BY <2>1, <3>2
      <4> HIDE DEF S, offered
      <4> QED
        BY <4>1
    <3>3. CASE t = REJECT_ALL_THRESHOLD
      <4> HIDE DEF S, offered
      <4> QED
        BY <3>3 DEF REJECT_ALL_THRESHOLD
    <3> QED
      BY <3>1, <3>2, <3>3
  <2> HIDE DEF S
  <2> QED
    BY <2>2
<1>5. \A i \in G : i \in 1 .. n /\ IsBreak(sample, i)
  BY <1>1 DEF Defended
<1>6. ASSUME NEW i \in G PROVE sample[i].confidence \in S
  <2>1. sample[i].confidence \in offered /\ defensible(sample[i].confidence)
    <3>1. defensible(sample[i].confidence)
      <4> HIDE DEF defensible, G
      <4> QED
        BY <1>3, <1>5, <1>6
    <3> HIDE DEF defensible, G
    <3> QED
      BY <1>2, <1>5, <3>1
  <2> HIDE DEF defensible, offered
  <2> QED
    BY <2>1
<1>7. ASSUME NEW t \in S, t # REJECT_ALL_THRESHOLD
      PROVE  \E i \in G : sample[i].confidence = t
  <2>1. t \in offered /\ defensible(t)
    <3> HIDE DEF defensible, offered
    <3> QED
      BY <1>7
  <2>2. PICK k \in 1 .. n : t = sample[k].confidence
    BY <1>2, <2>1
  <2>3. PICK i \in 1 .. n : IsBreak(sample, i) /\ sample[i].confidence = t
    BY <1>1, <2>2, BreaksAreEverywhere
  <2>4. defensible(sample[i].confidence)
    <3> HIDE DEF defensible
    <3> QED
      BY <2>1, <2>3
  <2>5. i \in G
    <3> HIDE DEF defensible, G
    <3> QED
      BY <1>3, <2>3, <2>4
  <2> QED
    BY <2>3, <2>5
<1>8. \/ G = {} /\ tt = REJECT_ALL_THRESHOLD
      \/ \E j \in G : tt = sample[j].confidence /\ \A k \in G : k <= j
  BY SelectedIsTheLastDefended
<1> HIDE DEF S, G, tt
<1>9. REJECT_ALL_THRESHOLD \in S
  BY DEF S
<1>10. CASE G = {} /\ tt = REJECT_ALL_THRESHOLD
  <2>1. \A t \in S : t = tt
    BY <1>7, <1>10
  <2>2. S \in SUBSET Int /\ tt \in S /\ \A t \in S : tt <= t
    BY <1>4, <1>9, <1>10, <2>1
  <2>3. Min(S) = tt
    BY <2>2, LeastIs
  <2> QED
    BY <2>3 DEF S, tt
<1>11. CASE \E j \in G : tt = sample[j].confidence /\ \A k \in G : k <= j
  <2>1. PICK j \in G : tt = sample[j].confidence /\ \A k \in G : k <= j
    BY <1>11
  <2>2. j \in 1 .. n /\ tt \in S /\ tt \in 0 .. 100
    BY <1>2, <1>5, <1>6, <2>1
  <2>3. ASSUME NEW t \in S PROVE tt <= t
    <3>1. CASE t = REJECT_ALL_THRESHOLD
      BY <2>2, <3>1 DEF REJECT_ALL_THRESHOLD
    <3>2. CASE t # REJECT_ALL_THRESHOLD
      <4>1. PICK i \in G : sample[i].confidence = t
        BY <1>7, <3>2
      <4>2. i <= j /\ i \in 1 .. n
        BY <1>5, <2>1, <4>1
      <4> QED
        BY <1>1, <2>1, <2>2, <4>1, <4>2 DEF MostConfidentFirst
    <3> QED
      BY <3>1, <3>2
  <2>4. S \in SUBSET Int
    BY <1>4
  <2>5. Min(S) = tt
    BY <2>2, <2>3, <2>4, LeastIs
  <2> QED
    BY <2>5 DEF S, tt
<1> QED
  BY <1>8, <1>10, <1>11

(* The sample is sorted as it is taken, and the threshold stands until it is *)
(* used.                                                                   *)
SampleIsSorted == seen \in Seq(Predictions) /\ MostConfidentFirst(seen)

(* The sample is sorted at the start,                                      *)
LEMMA SampleBegins == PoliciesInit => SampleIsSorted /\ TauIsLowest
<1>1. << >> \in Seq(Predictions) /\ Len(<< >>) = 0
  OBVIOUS
<1>2. \A i \in 1 .. 0 : FALSE
  OBVIOUS
<1> QED
  BY <1>1, <1>2 DEF PoliciesInit, SampleIsSorted, MostConfidentFirst, TauIsLowest

(* and after every observation, and the threshold is the lowest defended.  *)
LEMMA SampleStays == SampleIsSorted /\ TauIsLowest /\ PoliciesNext => SampleIsSorted' /\ TauIsLowest'
<1> SUFFICES ASSUME SampleIsSorted, TauIsLowest, PoliciesNext PROVE SampleIsSorted' /\ TauIsLowest'
  OBVIOUS
<1>1. ASSUME UNCHANGED <<seen, tau, strategy, bench>> PROVE SampleIsSorted' /\ TauIsLowest'
  BY <1>1 DEF SampleIsSorted, MostConfidentFirst, TauIsLowest
<1>2. ASSUME seen' = seen, bench' # "ready" PROVE SampleIsSorted' /\ TauIsLowest'
  BY <1>2 DEF SampleIsSorted, MostConfidentFirst, TauIsLowest
<1>3. ASSUME NEW confidence \in Confidences, NEW correct \in BOOLEAN, Observe(confidence, correct)
      PROVE  SampleIsSorted' /\ TauIsLowest'
  <2>1. PICK new : new = [confidence |-> confidence, correct |-> correct]
    OBVIOUS
  <2>2. seen' = Append(seen, new) /\ bench' = "fit"
        /\ (seen # << >> => confidence <= seen[Len(seen)].confidence)
    BY <1>3, <2>1 DEF Observe, Last
  <2>3. new \in Predictions /\ new.confidence = confidence
    BY <2>1 DEF Predictions
  <2>4. PICK n \in Nat : n = Len(seen)
    BY DEF SampleIsSorted
  <2>5. /\ seen' \in Seq(Predictions) /\ Len(seen') = n + 1 /\ seen'[n + 1] = new
        /\ \A i \in 1 .. n : seen'[i] = seen[i]
    BY <2>2, <2>3, <2>4 DEF SampleIsSorted
  <2>6. \A i \in 1 .. n : seen[i].confidence \in Int
    <3>1. \A i \in 1 .. n : seen[i] \in Predictions
      BY <2>4 DEF SampleIsSorted
    <3> QED
      BY <3>1, ConfidencesArePercents DEF Predictions
  <2>7. ASSUME NEW i \in 1 .. n PROVE confidence <= seen[i].confidence
    <3>1. seen # << >> /\ n \in 1 .. n /\ i <= n
      BY <2>4
    <3>2. seen[n].confidence <= seen[i].confidence
      BY <2>4, <3>1 DEF SampleIsSorted, MostConfidentFirst
    <3>3. confidence <= seen[n].confidence
      BY <2>2, <2>4, <3>1
    <3> QED
      BY <2>6, <3>1, <3>2, <3>3, ConfidencesArePercents
  <2>8. ASSUME NEW i \in 1 .. n + 1, NEW j \in 1 .. n + 1, i <= j
        PROVE  seen'[j].confidence <= seen'[i].confidence
    <3>1. CASE j \in 1 .. n
      <4>1. i \in 1 .. n
        BY <2>8, <3>1
      <4>2. seen[j].confidence <= seen[i].confidence
        BY <2>4, <2>8, <3>1, <4>1 DEF SampleIsSorted, MostConfidentFirst
      <4> QED
        BY <2>5, <3>1, <4>1, <4>2
    <3>2. CASE j = n + 1 /\ i \in 1 .. n
      BY <2>3, <2>5, <2>7, <3>2
    <3>3. CASE j = n + 1 /\ i = n + 1
      BY <2>3, <2>5, <3>3, ConfidencesArePercents
    <3> QED
      BY <2>8, <3>1, <3>2, <3>3
  <2> QED
    BY <2>2, <2>5, <2>8 DEF SampleIsSorted, MostConfidentFirst, TauIsLowest
<1>4. ASSUME NEW target, FitThreshold(target) PROVE SampleIsSorted' /\ TauIsLowest'
  <2>1. /\ seen' = seen /\ tau' = SelectThreshold(seen, target) /\ strategy'.target = target
    BY <1>4 DEF FitThreshold
  <2>2. SampleIsSorted'
    BY <2>1 DEF SampleIsSorted, MostConfidentFirst
  <2>3. TauIsLowest'
    <3>1. PICK sample : sample = seen
      OBVIOUS
    <3>2. sample \in Seq(Predictions) /\ MostConfidentFirst(sample)
      BY <3>1 DEF SampleIsSorted
    <3> DEFINE accepted(t) == {i \in DOMAIN sample : sample[i].confidence >= t}
               defensible(t) ==
                 CLOPPER_PEARSON[Cardinality(accepted(t))]
                   [Cardinality({i \in accepted(t) : ~sample[i].correct}) + 1] <= target
               offered == {sample[i].confidence : i \in DOMAIN sample}
    <3>3. SelectThreshold(sample, target)
            = Min({REJECT_ALL_THRESHOLD} \cup {t \in offered : defensible(t)})
      BY <3>2, SelectedIsTheLowest
    <3>4. seen' = sample /\ tau' = SelectThreshold(sample, target) /\ strategy'.target = target
      BY <2>1, <3>1
    <3> QED
      BY <3>3, <3>4 DEF TauIsLowest
  <2> QED
    BY <2>2, <2>3
<1>5. ASSUME NEW s, NEW c, ChoosePolicy(s, c) PROVE SampleIsSorted' /\ TauIsLowest'
  <2>1. seen' = << >> /\ bench' = "running"
    BY <1>5 DEF ChoosePolicy
  <2>2. << >> \in Seq(Predictions) /\ Len(<< >>) = 0 /\ \A i \in 1 .. 0 : FALSE
    OBVIOUS
  <2> QED
    BY <2>1, <2>2 DEF SampleIsSorted, MostConfidentFirst, TauIsLowest
<1>6. ASSUME FinishCorpus PROVE SampleIsSorted' /\ TauIsLowest'
  <2>1. seen' = seen /\ bench' # "ready"
    BY <1>6 DEF FinishCorpus
  <2> QED
    BY <1>2, <2>1
<1>7. ASSUME NEW stop, NEW confidence, Conclude(stop, confidence) PROVE SampleIsSorted' /\ TauIsLowest'
  BY <1>1, <1>7 DEF Conclude
<1>8. ASSUME NEW spec, Buy(spec) PROVE SampleIsSorted' /\ TauIsLowest'
  BY <1>1, <1>8 DEF Buy
<1>9. ASSUME NEW confidence, ClimbLadder(confidence) PROVE SampleIsSorted' /\ TauIsLowest'
  BY <1>7, <1>8, <1>9 DEF ClimbLadder
<1>10. ASSUME NEW confidence, NEW helpful, WeighNext(confidence, helpful)
       PROVE  SampleIsSorted' /\ TauIsLowest'
  BY <1>7, <1>8, <1>10 DEF WeighNext
<1> QED
  BY <1>3, <1>4, <1>5, <1>6, <1>9, <1>10 DEF PoliciesNext

(* The tuned baseline is never beaten in its grid.                         *)
IsPick(s, n, g) ==
  g = [i \in 1 .. n |-> IF i = 1 THEN s[1]
                        ELSE IF Beats(s[i], g[i - 1]) THEN s[i] ELSE g[i - 1]]

(* The pick among the gates that were tried exists.                        *)
LEMMA PicksExist ==
  ASSUME NEW n \in Nat, NEW s \in [1 .. n -> Tried]
  PROVE  \E g : IsPick(s, n, g)
<1>1. CASE n = 0
  <2>1. PICK g : g = [i \in 1 .. n |-> s[i]]
    OBVIOUS
  <2>2. \A i \in 1 .. n : FALSE
    BY <1>1
  <2> QED
    BY <2>1, <2>2 DEF IsPick
<1>2. CASE n # 0
  <2> DEFINE N == n - 1
             F == [i \in 1 .. N |-> [v \in Tried |-> IF Beats(s[i + 1], v) THEN s[i + 1] ELSE v]]
  <2>1. N \in Nat /\ \A i \in 1 .. N : i + 1 \in 1 .. n
    BY <1>2
  <2>2. F \in [1 .. N -> [Tried -> Tried]]
    <3> HIDE DEF N
    <3> QED
      BY <2>1
  <2>3. s[1] \in Tried
    BY <1>2
  <2>4. PICK h : IsRecursionTo(F, s[1], h, N)
    <3> HIDE DEF F, N
    <3> QED
      BY <2>1, RecursionsExist
  <2>5. \A i \in 0 .. N : h[i] \in Tried /\ h[i] = RecStep(F, s[1], h, i)
    <3>1. \A i \in 0 .. N : h[i] \in Tried
      <4> HIDE DEF F, N
      <4> QED
        BY <2>1, <2>2, <2>3, <2>4, RecursionsAreTyped
    <3>2. \A i \in 0 .. N : h[i] = RecStep(F, s[1], h, i)
      <4> HIDE DEF F, N
      <4> QED
        BY <2>4 DEF IsRecursionTo
    <3> QED
      BY <3>1, <3>2
  <2>6. PICK g : g = [i \in 1 .. n |-> h[i - 1]]
    OBVIOUS
  <2>7. ASSUME NEW i \in 1 .. n
        PROVE  g[i] = IF i = 1 THEN s[1]
                      ELSE IF Beats(s[i], g[i - 1]) THEN s[i] ELSE g[i - 1]
    <3>1. i - 1 \in 0 .. N /\ g[i] = h[i - 1] /\ (i - 1) + 1 = i
      BY <2>6
    <3>2. CASE i = 1
      <4>1. i - 1 = 0 /\ 0 \in 0 .. N
        BY <3>1, <3>2
      <4>2. h[0] = RecStep(F, s[1], h, 0)
        <5> HIDE DEF F, N
        <5> QED
          BY <2>5, <4>1
      <4>3. RecStep(F, s[1], h, 0) = s[1]
        BY DEF RecStep
      <4> HIDE DEF F, N
      <4> QED
        BY <3>1, <3>2, <4>1, <4>2, <4>3
    <3>3. CASE i # 1
      <4>1. i - 1 \in 1 .. N /\ i - 1 # 0 /\ i - 1 \in 1 .. n
        BY <3>3
      <4>2. h[i - 1] = F[i - 1][h[i - 1 - 1]]
        BY <2>5, <3>1, <4>1 DEF RecStep
      <4>3. i - 1 - 1 \in 0 .. N /\ g[i - 1] = h[i - 1 - 1]
        BY <2>6, <4>1
      <4>4. h[i - 1 - 1] \in Tried
        BY <2>5, <4>3
      <4>5. F[i - 1][h[i - 1 - 1]]
              = IF Beats(s[i - 1 + 1], h[i - 1 - 1]) THEN s[i - 1 + 1] ELSE h[i - 1 - 1]
        <5> HIDE DEF N
        <5> QED
          BY <4>1, <4>4
      <4> HIDE DEF F, N
      <4> QED
        BY <3>1, <3>3, <4>2, <4>3, <4>5
    <3> QED
      BY <3>2, <3>3
  <2>8. g = [i \in 1 .. n |-> IF i = 1 THEN s[1]
                             ELSE IF Beats(s[i], g[i - 1]) THEN s[i] ELSE g[i - 1]]
    <3>1. g = [i \in 1 .. n |-> g[i]]
      BY <2>6
    <3> HIDE DEF F, N
    <3> QED
      BY <2>7, <3>1
  <2> QED
    BY <2>8 DEF IsPick
<1> QED
  BY <1>1, <1>2

(* No gate up to m beats v.                                                *)
NotBeaten(s, m, v) ==
  /\ v \in Tried
  /\ \A j \in 1 .. m : s[j].agreed <= v.agreed /\ (s[j].agreed = v.agreed => s[j].cost >= v.cost)

(* The pick is not beaten by any gate tried.                               *)
LEMMA PicksAreBest ==
  ASSUME NEW n \in Nat \ {0}, NEW s \in [1 .. n -> Tried], NEW g, IsPick(s, n, g)
  PROVE  NotBeaten(s, n, g[n])
<1> DEFINE Bad == {m \in Nat : m >= 1 /\ m <= n /\ ~NotBeaten(s, m, g[m])}
<1>1. \A i \in 1 .. n : s[i].agreed \in Nat /\ s[i].cost \in Nat
  BY DEF Tried
<1>2. ASSUME Bad # {} PROVE FALSE
  <2>1. PICK m \in Bad : \A j \in Bad : m <= j
    <3>1. Bad \in SUBSET Nat
      OBVIOUS
    <3> HIDE DEF Bad
    <3> QED
      BY <1>2, <3>1, LeastOf
  <2>2. m \in 1 .. n /\ ~NotBeaten(s, m, g[m])
    OBVIOUS
  <2>3. g[m] = IF m = 1 THEN s[1] ELSE IF Beats(s[m], g[m - 1]) THEN s[m] ELSE g[m - 1]
    BY <2>2 DEF IsPick
  <2>4. m # 1
    <3> SUFFICES ASSUME m = 1 PROVE FALSE
      OBVIOUS
    <3>1. g[m] = s[1] /\ s[1] \in Tried /\ \A j \in 1 .. 1 : j = 1
      BY <2>3
    <3>2. NotBeaten(s, m, g[m])
      BY <1>1, <2>2, <3>1 DEF NotBeaten
    <3> QED
      BY <2>2, <3>2
  <2>5. m - 1 \in Nat /\ m - 1 >= 1 /\ m - 1 <= n /\ ~(m <= m - 1)
    BY <2>2, <2>4
  <2>6. m - 1 \notin Bad
    <3> HIDE DEF Bad
    <3> QED
      BY <2>1, <2>5
  <2>7. NotBeaten(s, m - 1, g[m - 1])
    BY <2>5, <2>6
  <2>8. PICK v : v = g[m - 1]
    OBVIOUS
  <2>9. v \in Tried /\ v.agreed \in Nat /\ v.cost \in Nat
    BY <2>7, <2>8 DEF NotBeaten, Tried
  <2>10. \A j \in 1 .. m : j = m \/ j \in 1 .. m - 1
    BY <2>2
  <2>11. \A j \in 1 .. m - 1 : s[j].agreed <= v.agreed /\ (s[j].agreed = v.agreed => s[j].cost >= v.cost)
    BY <2>7, <2>8 DEF NotBeaten
  <2>12. \A j \in 1 .. m : j \in 1 .. n
    BY <2>2
  <2>13. NotBeaten(s, m, g[m])
    <3>1. CASE Beats(s[m], v)
      <4>1. g[m] = s[m] /\ s[m] \in Tried
        BY <2>2, <2>3, <2>4, <2>8, <3>1
      <4>2. ASSUME NEW j \in 1 .. m
            PROVE  s[j].agreed <= s[m].agreed /\ (s[j].agreed = s[m].agreed => s[j].cost >= s[m].cost)
        <5>1. CASE j = m
          BY <1>1, <2>2, <5>1
        <5>2. CASE j \in 1 .. m - 1
          BY <1>1, <2>2, <2>9, <2>11, <2>12, <3>1, <5>2 DEF Beats
        <5> QED
          BY <2>10, <5>1, <5>2
      <4> QED
        BY <4>1, <4>2 DEF NotBeaten
    <3>2. CASE ~Beats(s[m], v)
      <4>1. g[m] = v
        BY <2>3, <2>4, <2>8, <3>2
      <4>2. s[m].agreed <= v.agreed /\ (s[m].agreed = v.agreed => s[m].cost >= v.cost)
        BY <1>1, <2>2, <2>9, <3>2 DEF Beats
      <4> QED
        BY <2>9, <2>10, <2>11, <4>1, <4>2 DEF NotBeaten
    <3> QED
      BY <3>1, <3>2
  <2> QED
    BY <2>2, <2>13
<1>3. n \notin Bad => NotBeaten(s, n, g[n])
  OBVIOUS
<1> HIDE DEF Bad
<1> QED
  BY <1>2, <1>3

(* The tuned gate is the best of those tried, after every pass.            *)
LEMMA TunedStaysBest == PolicyTypes => TunedIsBest
<1> SUFFICES ASSUME PolicyTypes, NEW i \in DOMAIN tried
             PROVE  /\ tried[i].agreed <= Tuned.agreed
                    /\ tried[i].agreed = Tuned.agreed => tried[i].cost >= Tuned.cost
  BY DEF TunedIsBest
<1>1. PICK s : s = tried
  OBVIOUS
<1>2. PICK n \in Nat : n = Len(s)
  BY <1>1 DEF PolicyTypes
<1>3. s \in [1 .. n -> Tried] /\ n # 0 /\ i \in 1 .. n
  <2>1. s \in Seq(Tried) /\ i \in DOMAIN s
    BY <1>1 DEF PolicyTypes
  <2> QED
    BY <1>2, <2>1
<1>4. Tuned = (CHOOSE g : IsPick(s, n, g))[n]
  BY <1>1, <1>2 DEF Tuned, IsPick
<1>5. PICK g : g = CHOOSE x : IsPick(s, n, x)
  OBVIOUS
<1>6. IsPick(s, n, g)
  BY <1>3, <1>5, PicksExist
<1>7. NotBeaten(s, n, g[n])
  BY <1>3, <1>6, PicksAreBest
<1> QED
  BY <1>1, <1>3, <1>4, <1>5, <1>7 DEF NotBeaten

=============================================================================
