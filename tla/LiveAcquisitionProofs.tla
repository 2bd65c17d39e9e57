----------------------- MODULE LiveAcquisitionProofs ------------------------
(***************************************************************************)
(* Why evidence is not bought twice and why the caps hold, for any number  *)
(* of leads, workers, providers and attempts.                              *)
(*                                                                         *)
(* Everything an attempt acts on may be stale.  What makes it safe is      *)
(* counted: a worker who may still buy a fact counts as if he had bought   *)
(* it, and a call that was admitted as if it had been charged in full.     *)
(***************************************************************************)
EXTENDS LiveAcquisition, FiniteSetTheorems, WellFoundedInduction, TLAPS

(* An attempt that is under way: what it holds was true when it last read, *)
(* and what it may call or record has passed the guards.                   *)
AttemptSound(w) ==
  /\ attempts[w].now <= clock
  /\ attempts[w].facts \subseteq FreshFacts(evidence, Lead(w), attempts[w].now)
  /\ At(w, "guard") => /\ attempts[w].index <= Len(Order)
                       /\ Reachable(Lead(w), Current(w))
                       /\ OwnFacts(w, Current(w)) = {}
  /\ \A p \in attempts[w].toCall : /\ Reachable(Lead(w), p)
                                   /\ \E i \in 1 .. Len(Order) : Order[i] = p
  /\ attempts[w].pc \in {"record", "store"} =>
       \A p \in attempts[w].toCall : /\ p \in DOMAIN attempts[w].answers
                                     /\ attempts[w].answers[p].cost <= Cost[p]
                                     /\ attempts[w].answers[p].fields \subseteq Fields[p]
  /\ At(w, "store") => ToRecord(w) # {}
  /\ strategy = "optimized" =>
       /\ attempts[w].pc \in {"consider", "guard"} => attempts[w].toCall = {}
       /\ \A p, q \in attempts[w].toCall : p = q

OneAttemptPerLead ==
  \A v, w \in Workers : ~At(v, "idle") /\ ~At(w, "idle") /\ Lead(v) = Lead(w) => v = w

(* The rows of one fact, those that are fresh, and the workers who may     *)
(* still buy it because they do not know of any.                           *)
Copies(e, f, p) == {r \in evidence : r.entity = e /\ r.field = f /\ r.source = p}
FreshCopies(e, f, p) == {r \in Copies(e, f, p) : r.at + FieldTTL[f] > clock}
Seeks(w, e, p) ==
  /\ ~At(w, "idle") /\ Reachable(Lead(w), p) /\ EntityOf(Lead(w), p) = e
  /\ OwnFacts(w, p) = {} \/ p \in attempts[w].toCall
Seekers(e, p) == {w \in Workers : Seeks(w, e, p)}
MostCopies(e) == IF e = Company THEN Cardinality(Workers) ELSE 1

CopiesAreFew ==
  \A e \in Leads \cup {Company}, f \in AllFields, p \in Providers :
    /\ IsFiniteSet(Copies(e, f, p))
    /\ Cardinality(FreshCopies(e, f, p)) + Cardinality(Seekers(e, p)) <= MostCopies(e)

(* Money: what has been recorded, and what an attempt may still record.    *)
Units(K) == {u \in K \X (1 .. MaxCost) : u[2] <= ledger[u[1]].cost}
Unrecorded(w) ==
  IF At(w, "idle") THEN {}
  ELSE IF At(w, "store") THEN attempts[w].toCall \ {NextToRecord(w)} ELSE attempts[w].toCall
Flight(w) == {u \in Unrecorded(w) \X (1 .. MaxCost) : u[2] <= Cost[u[1]]}
InFlight ==
  {x \in Workers \X (Providers \X (1 .. MaxCost)) : x[2] \in Flight(x[1])}
Periods == {<<Day, DailyCap>>, <<Month, MonthCap>>}
PeriodSpent(length) == Spent({k \in Key : SamePeriod(k, length)})

LedgerIsPast == IsFiniteSet(Units(Key)) /\ \A k \in Key : ledger[k].at <= clock

LeadFits ==
  /\ \A l \in Leads : LeadSpent(l) <= LeadCap
  /\ \A w \in Workers : ~At(w, "idle") =>
       LeadSpent(Lead(w)) + Cardinality(Flight(w)) <= LeadCap

PeriodFits ==
  \A c \in Periods :
    /\ \A w \in Workers : Cardinality(Flight(w)) <= c[2]
    /\ PeriodSpent(c[1]) + Cardinality(InFlight)
         <= c[2] + (Cardinality(Workers) - 1) * MaxInFlight

(* The inductive invariant. *)
AttemptsInv ==
  AcquisitionTypeOK /\ \A w \in Workers : ~At(w, "idle") => AttemptSound(w)
MoneyInv == LedgerIsPast /\ LeadFits /\ PeriodFits
AcquisitionInv == AttemptsInv /\ OneAttemptPerLead /\ CopiesAreFew /\ MoneyInv

-----------------------------------------------------------------------------
(* Facts about the constants.                                              *)
LEMMA CompanyLemma ==
  /\ Company \notin Leads
  /\ \A l \in Leads, p \in Providers :
       /\ EntityOf(l, p) \in Leads \cup {Company}
       /\ EntityOf(l, p) # Company => EntityOf(l, p) = l
BY CompanyIsNoPerson DEF EntityOf

LEMMA Amounts ==
  /\ MaxCost \in Nat /\ Cardinality(Workers) \in Nat /\ Cardinality(Workers) >= 1
  /\ Cardinality(Providers) \in Nat
  /\ \A p \in Providers : Cost[p] \in 0 .. MaxCost
  /\ MaxInFlight \in Nat
  /\ (Cardinality(Workers) - 1) * MaxInFlight \in Nat
  /\ \A e \in Leads \cup {Company} : MostCopies(e) \in Nat /\ MostCopies(e) >= 1
<1>1. Cardinality(Workers) \in Nat /\ Cardinality(Providers) \in Nat
  BY FS_CardinalityType, WorkersAssumption, ProvidersAssumption
<1>2. Cardinality(Workers) # 0
  BY FS_EmptySet, WorkersAssumption
<1>3. Cardinality(Workers) >= 1 /\ Cardinality(Workers) - 1 \in Nat
  BY <1>1, <1>2
<1>4. MaxInFlight \in Nat
  <2>1. MaxCost * Cardinality(Providers) \in Nat
    BY <1>1, MaxCostAssumption
  <2> QED
    BY <2>1, MaxCostAssumption DEF MaxInFlight
<1>5. (Cardinality(Workers) - 1) * MaxInFlight \in Nat
  BY <1>3, <1>4
<1> QED
  BY <1>1, <1>3, <1>4, <1>5, MaxCostAssumption, CostAssumption DEF MostCopies

LEMMA SmallerSet ==
  ASSUME NEW S, NEW T, IsFiniteSet(T), S \subseteq T
  PROVE  /\ IsFiniteSet(S) /\ Cardinality(S) \in Nat /\ Cardinality(T) \in Nat
         /\ Cardinality(S) <= Cardinality(T)
BY FS_Subset, FS_CardinalityType

LEMMA UnionIsNoLarger ==
  ASSUME NEW S, NEW T, IsFiniteSet(S), IsFiniteSet(T)
  PROVE  /\ IsFiniteSet(S \cup T) /\ Cardinality(S \cup T) \in Nat
         /\ Cardinality(S \cup T) <= Cardinality(S) + Cardinality(T)
<1>1. /\ IsFiniteSet(S \cup T) /\ IsFiniteSet(S \cap T)
      /\ Cardinality(S \cup T) = Cardinality(S) + Cardinality(T) - Cardinality(S \cap T)
  BY FS_Union, FS_Intersection
<1>2. /\ Cardinality(S) \in Nat /\ Cardinality(T) \in Nat
      /\ Cardinality(S \cap T) \in Nat /\ Cardinality(S \cup T) \in Nat
  BY <1>1, FS_CardinalityType
<1> QED
  BY <1>1, <1>2

(* The units of one amount: as many as the amount.                         *)
LEMMA UnitsOfOne ==
  ASSUME NEW x, NEW n \in Nat
  PROVE  IsFiniteSet({x} \X (1 .. n)) /\ Cardinality({x} \X (1 .. n)) = n
<1>1. IsFiniteSet(1 .. n) /\ Cardinality(1 .. n) = n
  <2>1. Cardinality(1 .. n) = IF 1 > n THEN 0 ELSE n - 1 + 1
    BY FS_Interval
  <2> QED
    BY <2>1, FS_Interval
<1>2. IsFiniteSet({x}) /\ Cardinality({x}) = 1
  BY FS_Singleton
<1>3. /\ IsFiniteSet({x} \X (1 .. n))
      /\ Cardinality({x} \X (1 .. n)) = Cardinality({x}) * Cardinality(1 .. n)
  BY <1>1, <1>2, FS_Product
<1> QED
  BY <1>1, <1>2, <1>3

(* A nonempty set of numbers has a least one.                              *)
LEMMA LeastNumber ==
  ASSUME NEW S \in SUBSET Nat, S # {}
  PROVE  \E x \in S : \A y \in S : x <= y
<1> DEFINE R == {ss \in Nat \X Nat : ss[1] < ss[2]}
<1>1. IsWellFoundedOn(R, Nat)
  BY NatLessThanWellFounded DEF OpToRel
<1>2. PICK x \in S : \A y \in S : ~(<<y, x>> \in R)
  <2> HIDE DEF R
  <2> QED
    BY <1>1, WFMin
<1>3. ASSUME NEW y \in S PROVE x <= y
  <2>1. <<y, x>> \in R <=> y < x
    OBVIOUS
  <2>2. y \in Nat /\ x \in Nat /\ ~(<<y, x>> \in R)
    BY <1>2
  <2> HIDE DEF R
  <2> QED
    BY <2>1, <2>2
<1> QED
  BY <1>3

-----------------------------------------------------------------------------
(* What an attempt carries.                                                *)
LEMMA AttemptFields ==
  ASSUME AcquisitionTypeOK, NEW w \in Workers, ~At(w, "idle")
  PROVE  /\ attempts[w].pc \in {"consider", "guard", "call", "record", "store"}
         /\ Lead(w) \in Leads /\ attempts[w].index \in 1 .. Len(Order) + 1
         /\ attempts[w].now \in Nat /\ attempts[w].facts \in SUBSET Fact
         /\ attempts[w].toCall \in SUBSET Providers
         /\ DOMAIN attempts[w].answers \in SUBSET Providers
         /\ attempts[w].answers \in [DOMAIN attempts[w].answers -> Result]
         /\ attempts[w] \in Attempt(DOMAIN attempts[w].answers)
<1>1. attempts[w] # Idle
  BY DEF At, Idle
<1>2. PICK P \in SUBSET Providers : attempts[w] \in Attempt(P)
  BY <1>1 DEF AcquisitionTypeOK
<1>3. attempts[w].answers \in [P -> Result]
  BY <1>2 DEF Attempt
<1>4. DOMAIN attempts[w].answers = P
  BY <1>3
<1> QED
  BY <1>2, <1>3, <1>4 DEF Attempt, Lead

LEMMA OrderFields ==
  /\ Len(Order) \in Nat
  /\ \A i \in 1 .. Len(Order) : Order[i] \in Providers
BY OrderAssumption

(* The attempt of one worker moves on; it stays with its lead and with     *)
(* what it has read.                                                       *)
Moved(w, pc, index, toCall, answers) ==
  /\ DOMAIN attempts' = Workers
  /\ \A v \in Workers \ {w} : attempts'[v] = attempts[v]
  /\ attempts'[w] = [pc |-> pc, lead |-> Lead(w), index |-> index,
                     now |-> attempts[w].now, facts |-> attempts[w].facts,
                     toCall |-> toCall, answers |-> answers]

LEMMA MovedTyped ==
  ASSUME AcquisitionTypeOK, NEW w \in Workers, ~At(w, "idle"),
         NEW pc \in {"consider", "guard", "call", "record", "store"},
         NEW index \in 1 .. Len(Order) + 1, NEW toCall \in SUBSET Providers,
         NEW P \in SUBSET Providers, NEW answers \in [P -> Result],
         Moved(w, pc, index, toCall, answers)
  PROVE  /\ DOMAIN attempts' = Workers
         /\ \A v \in Workers \ {w} : attempts'[v] = attempts[v]
         /\ attempts'[w] \in Attempt(P)
         /\ attempts'[w].pc = pc /\ attempts'[w].lead = Lead(w)
         /\ attempts'[w].index = index /\ attempts'[w].now = attempts[w].now
         /\ attempts'[w].facts = attempts[w].facts
         /\ attempts'[w].toCall = toCall /\ attempts'[w].answers = answers
         /\ \A v \in Workers :
              \/ attempts'[v] = Idle
              \/ \E Q \in SUBSET Providers : attempts'[v] \in Attempt(Q)
<1> DEFINE a == [pc |-> pc, lead |-> Lead(w), index |-> index,
                 now |-> attempts[w].now, facts |-> attempts[w].facts,
                 toCall |-> toCall, answers |-> answers]
<1>1. a \in Attempt(P)
  <2>1. Lead(w) \in Leads /\ attempts[w].now \in Nat /\ attempts[w].facts \in SUBSET Fact
    BY AttemptFields
  <2> QED
    BY <2>1 DEF Attempt
<1>2. DOMAIN attempts' = Workers /\ attempts'[w] = a
  BY DEF Moved, AcquisitionTypeOK
<1>3. \A v \in Workers \ {w} : attempts'[v] = attempts[v]
  BY DEF Moved, AcquisitionTypeOK
<1>4. \A v \in Workers :
        \/ attempts'[v] = Idle
        \/ \E Q \in SUBSET Providers : attempts'[v] \in Attempt(Q)
  <2> HIDE DEF a
  <2> QED
    BY <1>1, <1>2, <1>3 DEF AcquisitionTypeOK
<1> QED
  BY <1>1, <1>2, <1>3, <1>4

(* The first answer to record is there when any is.                        *)
LEMMA NextIsThere ==
  ASSUME AcquisitionTypeOK, NEW w \in Workers, ~At(w, "idle"), AttemptSound(w),
         ToRecord(w) # {}
  PROVE  /\ NextToRecord(w) \in ToRecord(w)
         /\ NextToRecord(w) \in attempts[w].toCall
         /\ NextToRecord(w) \in Providers
<1> DEFINE S == {i \in 1 .. Len(Order) : Order[i] \in ToRecord(w)}
           First(i) == /\ Order[i] \in ToRecord(w)
                       /\ \A j \in 1 .. i - 1 : Order[j] \notin ToRecord(w)
<1>1. PICK p \in ToRecord(w) : TRUE
  OBVIOUS
<1>2. \E i \in 1 .. Len(Order) : Order[i] = p
  BY <1>1 DEF AttemptSound, ToRecord
<1>3. S # {} /\ S \in SUBSET Nat
  BY <1>1, <1>2, OrderFields
<1>4. PICK i \in S : \A j \in S : i <= j
  BY <1>3, LeastNumber
<1>5. \A j \in 1 .. i - 1 : j \notin S /\ j \in 1 .. Len(Order)
  BY <1>4, OrderFields
<1>6. First(i) /\ i \in 1 .. Len(Order)
  BY <1>4, <1>5
<1>7. First(CHOOSE j \in 1 .. Len(Order) : First(j))
  <2> HIDE DEF First
  <2> QED
    BY <1>6
<1>8. NextToRecord(w) = Order[CHOOSE j \in 1 .. Len(Order) : First(j)]
  BY DEF NextToRecord
<1>9. NextToRecord(w) \in ToRecord(w)
  BY <1>7, <1>8
<1> QED
  BY <1>9, AttemptFields DEF ToRecord

(* What a vendor may answer.                                               *)
LEMMA AnswerFields ==
  ASSUME NEW p \in Providers, NEW r \in Answers(p)
  PROVE  /\ r \in Result /\ r.cost <= Cost[p] /\ r.fields \subseteq Fields[p]
<1>1. Cost[p] \in 0 .. MaxCost /\ MaxCost \in Nat
  BY Amounts
<1>2. Fields[p] \subseteq AllFields
  BY DEF AllFields
<1>3. CASE \E F \in SUBSET Fields[p] : r = [outcome |-> "success", fields |-> F, cost |-> Cost[p]]
  BY <1>1, <1>2, <1>3 DEF Result, Outcome
<1>4. CASE \E c \in {0, Cost[p]} : r = [outcome |-> "miss", fields |-> {}, cost |-> c]
  BY <1>1, <1>2, <1>4 DEF Result, Outcome
<1>5. CASE \E o \in {"quota", "uncertain", "definite"} \cup (IF Concurrent(p) THEN {"raised"} ELSE {}) :
             r = [outcome |-> o, fields |-> {}, cost |-> 0]
  <2>1. PICK o \in {"quota", "uncertain", "definite", "raised"} :
          /\ r = [outcome |-> o, fields |-> {}, cost |-> 0]
          /\ strategy = "optimized" => o # "raised"
    BY <1>5 DEF Concurrent
  <2> QED
    BY <1>1, <1>2, <2>1 DEF Result, Outcome
<1>6. \/ \E F \in SUBSET Fields[p] : r = [outcome |-> "success", fields |-> F, cost |-> Cost[p]]
      \/ \E c \in {0, Cost[p]} : r = [outcome |-> "miss", fields |-> {}, cost |-> c]
      \/ \E o \in {"quota", "uncertain", "definite"} \cup (IF Concurrent(p) THEN {"raised"} ELSE {}) :
             r = [outcome |-> o, fields |-> {}, cost |-> 0]
  <2>1. (IF p \in CompanyProviders THEN SUBSET Fields[p] \ {{}} ELSE SUBSET Fields[p])
           \subseteq SUBSET Fields[p]
    OBVIOUS
  <2> QED
    BY <2>1 DEF Answers
<1> QED
  BY <1>3, <1>4, <1>5, <1>6

-----------------------------------------------------------------------------
(* How the actions move the attempt of their worker.                       *)
LEMMA WalkMoves ==
  ASSUME AcquisitionTypeOK, NEW w \in Workers,
         PassOver(w) \/ ServeFromRecord(w)
  PROVE  /\ At(w, "consider") /\ ~At(w, "idle")
         /\ attempts[w].index + 1 \in 1 .. Len(Order) + 1
         /\ Moved(w, "consider", attempts[w].index + 1, attempts[w].toCall,
                  attempts[w].answers)
<1>1. /\ At(w, "consider") /\ attempts[w].index <= Len(Order) /\ Advance(w)
  BY DEF PassOver, ServeFromRecord, Walking
<1>2. ~At(w, "idle")
  BY <1>1 DEF At
<1>3. attempts[w].index + 1 \in 1 .. Len(Order) + 1
  BY <1>1, <1>2, AttemptFields, OrderFields
<1>4. Moved(w, "consider", attempts[w].index + 1, attempts[w].toCall, attempts[w].answers)
  <2>1. attempts[w] \in Attempt(DOMAIN attempts[w].answers)
    BY <1>2, AttemptFields
  <2> QED
    BY <1>1, <1>2, <2>1 DEF Moved, Lead, Attempt, AcquisitionTypeOK, Advance
<1> QED
  BY <1>1, <1>2, <1>3, <1>4

LEMMA PassGuardsMoves ==
  ASSUME AcquisitionTypeOK, NEW w \in Workers, PassGuards(w)
  PROVE  /\ At(w, "consider") /\ ~At(w, "idle") /\ attempts[w].index <= Len(Order)
         /\ Reachable(Lead(w), Current(w)) /\ OwnFacts(w, Current(w)) = {}
         /\ Moved(w, "guard", attempts[w].index, attempts[w].toCall, attempts[w].answers)
<1>1. /\ At(w, "consider") /\ attempts[w].index <= Len(Order)
      /\ Reachable(Lead(w), Current(w)) /\ OwnFacts(w, Current(w)) = {}
      /\ attempts' = [attempts EXCEPT ![w].pc = "guard"]
  BY DEF PassGuards, Walking, AlreadyAnswered
<1>2. ~At(w, "idle")
  BY <1>1 DEF At
<1>3. Moved(w, "guard", attempts[w].index, attempts[w].toCall, attempts[w].answers)
  <2>1. attempts[w] \in Attempt(DOMAIN attempts[w].answers)
    BY <1>2, AttemptFields
  <2> QED
    BY <1>1, <1>2, <2>1 DEF Moved, Lead, Attempt, AcquisitionTypeOK
<1> QED
  BY <1>1, <1>2, <1>3

LEMMA AdmitMoves ==
  ASSUME AcquisitionTypeOK, NEW w \in Workers, Admit(w)
  PROVE  LET pc == IF Concurrent(Current(w)) THEN "consider" ELSE "call" IN
         /\ At(w, "guard") /\ ~At(w, "idle")
         /\ Permitted(Lead(w), Estimate(w, Current(w)))
         /\ pc \in {"consider", "call"}
         /\ strategy = "optimized" => pc = "call"
         /\ Moved(w, pc, attempts[w].index + 1,
                  attempts[w].toCall \cup {Current(w)}, attempts[w].answers)
<1> DEFINE pc == IF Concurrent(Current(w)) THEN "consider" ELSE "call"
<1>1. /\ At(w, "guard")
      /\ Permitted(Lead(w), Estimate(w, Current(w)))
      /\ attempts' = [attempts EXCEPT ![w].pc = pc, ![w].index = @ + 1,
                                      ![w].toCall = @ \cup {Current(w)}]
  BY DEF Admit
<1>2. ~At(w, "idle")
  BY <1>1 DEF At
<1>3. pc \in {"consider", "call"} /\ (strategy = "optimized" => pc = "call")
  BY DEF Concurrent
<1>4. Moved(w, pc, attempts[w].index + 1, attempts[w].toCall \cup {Current(w)}, attempts[w].answers)
  <2>1. attempts[w] \in Attempt(DOMAIN attempts[w].answers)
    BY <1>2, AttemptFields
  <2> QED
    BY <1>1, <1>2, <2>1 DEF Moved, Lead, Attempt, AcquisitionTypeOK
<1> QED
  BY <1>1, <1>2, <1>3, <1>4

LEMMA RefuseMoves ==
  ASSUME AcquisitionTypeOK, NEW w \in Workers, AttemptSound(w), Refuse(w)
  PROVE  /\ At(w, "guard") /\ ~At(w, "idle")
         /\ \E index \in 1 .. Len(Order) + 1 :
              Moved(w, "consider", index, attempts[w].toCall, attempts[w].answers)
<1> DEFINE index == IF strategy = "optimized" THEN Len(Order) + 1
                                              ELSE attempts[w].index + 1
<1>1. /\ At(w, "guard")
      /\ attempts' = [attempts EXCEPT ![w].pc = "consider", ![w].index = index]
  BY DEF Refuse
<1>2. ~At(w, "idle")
  BY <1>1 DEF At
<1>3. index \in 1 .. Len(Order) + 1
  BY <1>1, <1>2, AttemptFields, OrderFields DEF AttemptSound
<1>4. Moved(w, "consider", index, attempts[w].toCall, attempts[w].answers)
  <2>1. attempts[w] \in Attempt(DOMAIN attempts[w].answers)
    BY <1>2, AttemptFields
  <2> QED
    BY <1>1, <1>2, <2>1 DEF Moved, Lead, Attempt, AcquisitionTypeOK
<1> QED
  BY <1>1, <1>2, <1>3, <1>4

LEMMA StopEarlyMoves ==
  ASSUME AcquisitionTypeOK, NEW w \in Workers, StopEarly(w)
  PROVE  /\ At(w, "consider") /\ ~At(w, "idle") /\ Len(Order) + 1 \in 1 .. Len(Order) + 1
         /\ Moved(w, "consider", Len(Order) + 1, attempts[w].toCall, attempts[w].answers)
<1>1. /\ At(w, "consider")
      /\ attempts' = [attempts EXCEPT ![w].index = Len(Order) + 1]
  BY DEF StopEarly, Walking
<1>2. ~At(w, "idle") /\ attempts[w].pc = "consider"
  BY <1>1 DEF At
<1>3. Moved(w, "consider", Len(Order) + 1, attempts[w].toCall, attempts[w].answers)
  <2>1. attempts[w] \in Attempt(DOMAIN attempts[w].answers)
    BY <1>2, AttemptFields
  <2> QED
    BY <1>1, <1>2, <2>1 DEF Moved, Lead, Attempt, AcquisitionTypeOK
<1> QED
  BY <1>1, <1>2, <1>3, OrderFields

LEMMA CallAdmittedMoves ==
  ASSUME AcquisitionTypeOK, NEW w \in Workers, CallAdmitted(w)
  PROVE  /\ At(w, "consider") /\ ~At(w, "idle") /\ attempts[w].toCall # {}
         /\ Moved(w, "call", attempts[w].index, attempts[w].toCall, attempts[w].answers)
<1>1. /\ At(w, "consider") /\ attempts[w].toCall # {}
      /\ attempts' = [attempts EXCEPT ![w].pc = "call"]
  BY DEF CallAdmitted
<1>2. ~At(w, "idle")
  BY <1>1 DEF At
<1>3. Moved(w, "call", attempts[w].index, attempts[w].toCall, attempts[w].answers)
  <2>1. attempts[w] \in Attempt(DOMAIN attempts[w].answers)
    BY <1>2, AttemptFields
  <2> QED
    BY <1>1, <1>2, <2>1 DEF Moved, Lead, Attempt, AcquisitionTypeOK
<1> QED
  BY <1>1, <1>2, <1>3

LEMMA FetchMoves ==
  ASSUME AcquisitionTypeOK, NEW w \in Workers, NEW answers \in AnswersTo(w),
         Fetch(w, answers)
  PROVE  /\ At(w, "call") /\ ~At(w, "idle")
         /\ answers \in [attempts[w].toCall -> Result]
         /\ \A p \in attempts[w].toCall : /\ p \in DOMAIN answers
                                          /\ answers[p].cost <= Cost[p]
                                          /\ answers[p].fields \subseteq Fields[p]
         /\ Moved(w, "record", attempts[w].index, attempts[w].toCall, answers)
<1>1. /\ At(w, "call") /\ DOMAIN answers = attempts[w].toCall
      /\ \A p \in attempts[w].toCall : answers[p] \in Answers(p)
      /\ attempts' = [attempts EXCEPT ![w].pc = "record", ![w].answers = answers]
  BY DEF Fetch
<1>2. ~At(w, "idle")
  BY <1>1 DEF At
<1>3. \A p \in attempts[w].toCall : /\ answers[p] \in Result /\ answers[p].cost <= Cost[p]
                                    /\ answers[p].fields \subseteq Fields[p]
  <2>1. attempts[w].toCall \subseteq Providers
    BY <1>2, AttemptFields
  <2> QED
    BY <1>1, <2>1, AnswerFields
<1>4. answers \in [attempts[w].toCall -> Result]
  <2>1. answers = [p \in attempts[w].toCall |-> answers[p]]
    BY <1>1 DEF AnswersTo
  <2> QED
    BY <1>3, <2>1
<1>5. Moved(w, "record", attempts[w].index, attempts[w].toCall, answers)
  <2>1. attempts[w] \in Attempt(DOMAIN attempts[w].answers)
    BY <1>2, AttemptFields
  <2> QED
    BY <1>1, <1>2, <2>1 DEF Moved, Lead, Attempt, AcquisitionTypeOK
<1> QED
  BY <1>1, <1>2, <1>3, <1>4, <1>5

(* What is left when one answer has been recorded.                         *)
Rest(w, p) == attempts[w].toCall \ {p}
RestAnswers(w, p) == [q \in Rest(w, p) |-> attempts[w].answers[q]]
RestPc(w, p) == IF Rest(w, p) = {} THEN "consider" ELSE "record"

LEMMA RecordedFields ==
  ASSUME AcquisitionTypeOK, NEW w \in Workers, ~At(w, "idle"), AttemptSound(w),
         attempts[w].pc \in {"record", "store"}, NEW p
  PROVE  /\ Recorded(w, p).pc = RestPc(w, p)
         /\ Recorded(w, p).lead = Lead(w) /\ Recorded(w, p).index = attempts[w].index
         /\ Recorded(w, p).now = attempts[w].now /\ Recorded(w, p).facts = attempts[w].facts
         /\ Recorded(w, p).toCall = Rest(w, p)
         /\ Recorded(w, p).answers = RestAnswers(w, p)
         /\ Recorded(w, p) \in Attempt(Rest(w, p))
         /\ Rest(w, p) \in SUBSET Providers
         /\ RestAnswers(w, p) \in [Rest(w, p) -> Result]
         /\ RestPc(w, p) \in {"consider", "record"}
         /\ \A q \in Rest(w, p) : /\ q \in DOMAIN RestAnswers(w, p)
                                  /\ RestAnswers(w, p)[q].cost <= Cost[q]
                                  /\ RestAnswers(w, p)[q].fields \subseteq Fields[q]
<1>1. attempts[w] \in Attempt(DOMAIN attempts[w].answers)
  BY AttemptFields
<1>2. /\ Recorded(w, p).pc = RestPc(w, p)
      /\ Recorded(w, p).lead = Lead(w) /\ Recorded(w, p).index = attempts[w].index
      /\ Recorded(w, p).now = attempts[w].now /\ Recorded(w, p).facts = attempts[w].facts
      /\ Recorded(w, p).toCall = Rest(w, p)
      /\ Recorded(w, p).answers = RestAnswers(w, p)
      /\ DOMAIN Recorded(w, p) = DOMAIN attempts[w]
  BY <1>1 DEF Recorded, Rest, RestAnswers, RestPc, Attempt, Lead
<1>3. Rest(w, p) \in SUBSET Providers /\ RestPc(w, p) \in {"consider", "record"}
  BY AttemptFields DEF Rest, RestPc
<1>4. \A q \in Rest(w, p) : /\ q \in DOMAIN attempts[w].answers
                            /\ attempts[w].answers[q] \in Result
                            /\ attempts[w].answers[q].cost <= Cost[q]
                            /\ attempts[w].answers[q].fields \subseteq Fields[q]
  BY AttemptFields DEF AttemptSound, Rest
<1>5. /\ RestAnswers(w, p) \in [Rest(w, p) -> Result]
      /\ \A q \in Rest(w, p) : /\ q \in DOMAIN RestAnswers(w, p)
                               /\ RestAnswers(w, p)[q].cost <= Cost[q]
                               /\ RestAnswers(w, p)[q].fields \subseteq Fields[q]
  BY <1>4 DEF RestAnswers
<1>6. Recorded(w, p) \in Attempt(Rest(w, p))
  <2>1. /\ RestPc(w, p) \in {"consider", "guard", "call", "record", "store"}
        /\ Lead(w) \in Leads /\ attempts[w].index \in 1 .. Len(Order) + 1
        /\ attempts[w].now \in Nat /\ attempts[w].facts \in SUBSET Fact
    BY <1>3, AttemptFields
  <2>2. Recorded(w, p) = [attempts[w] EXCEPT !.toCall = Rest(w, p),
                                             !.answers = RestAnswers(w, p),
                                             !.pc = RestPc(w, p)]
    BY DEF Recorded, Rest, RestAnswers, RestPc
  <2>3. Recorded(w, p) = [pc |-> RestPc(w, p), lead |-> Lead(w), index |-> attempts[w].index,
                          now |-> attempts[w].now, facts |-> attempts[w].facts,
                          toCall |-> Rest(w, p), answers |-> RestAnswers(w, p)]
    <3> DEFINE r == Recorded(w, p)
    <3>1. r = [x \in DOMAIN attempts[w] |-> r[x]]
      BY <1>1, <2>2 DEF Attempt
    <3>2. DOMAIN attempts[w] = {"pc", "lead", "index", "now", "facts", "toCall", "answers"}
      BY <1>1 DEF Attempt
    <3> QED
      BY <1>2, <3>1, <3>2
  <2> QED
    BY <2>1, <2>3, <1>3, <1>5 DEF Attempt
<1> QED
  BY <1>2, <1>3, <1>5, <1>6

LEMMA RecordCallMoves ==
  ASSUME AcquisitionTypeOK, NEW w \in Workers, ~At(w, "idle") => AttemptSound(w),
         RecordCall(w)
  PROVE  LET p == NextToRecord(w)
             r == attempts[w].answers[p]
         IN
         /\ At(w, "record") /\ ~At(w, "idle") /\ ToRecord(w) # {}
         /\ p \in attempts[w].toCall /\ p \in Providers
         /\ r \in Result /\ r.outcome \in Outcome /\ r.cost <= Cost[p]
         /\ RecordProviderCall(<<Lead(w), p>>, r.outcome, r.cost, FALSE)
         /\ \/ Moved(w, "store", attempts[w].index, attempts[w].toCall, attempts[w].answers)
            \/ Moved(w, RestPc(w, p), attempts[w].index, Rest(w, p), RestAnswers(w, p))
<1> DEFINE p == NextToRecord(w)
           r == attempts[w].answers[p]
<1>1. /\ At(w, "record") /\ ToRecord(w) # {}
      /\ RecordProviderCall(<<Lead(w), p>>, r.outcome, r.cost, FALSE)
      /\ attempts' = [attempts EXCEPT ![w] =
                    IF r.outcome = "success" /\ r.fields # {}
                    THEN [@ EXCEPT !.pc = "store"] ELSE Recorded(w, p)]
  BY DEF RecordCall
<1>2. ~At(w, "idle") /\ attempts[w].pc = "record"
  BY <1>1 DEF At
<1>3. p \in attempts[w].toCall /\ p \in Providers
  BY <1>1, <1>2, NextIsThere
<1>4. p \in ToRecord(w)
  BY <1>1, <1>2, NextIsThere
<1>5. r \in Result /\ r.cost <= Cost[p] /\ r.outcome # "raised"
  BY <1>2, <1>3, <1>4, AttemptFields DEF AttemptSound, ToRecord
<1>6. r.outcome \in Outcome
  BY <1>5 DEF Result
<1>7. CASE r.outcome = "success" /\ r.fields # {}
  <2>1. attempts' = [attempts EXCEPT ![w].pc = "store"]
    BY <1>1, <1>7
  <2>2. attempts[w] \in Attempt(DOMAIN attempts[w].answers)
    BY <1>2, AttemptFields
  <2>3. Moved(w, "store", attempts[w].index, attempts[w].toCall, attempts[w].answers)
    BY <2>1, <2>2 DEF Moved, Lead, Attempt, AcquisitionTypeOK
  <2> QED
    BY <1>1, <1>2, <1>3, <1>5, <1>6, <2>3
<1>8. CASE ~(r.outcome = "success" /\ r.fields # {})
  <2>1. attempts' = [attempts EXCEPT ![w] = Recorded(w, p)]
    BY <1>1, <1>8
  <2>2. Recorded(w, p) =
          [pc |-> RestPc(w, p), lead |-> Lead(w), index |-> attempts[w].index,
           now |-> attempts[w].now, facts |-> attempts[w].facts,
           toCall |-> Rest(w, p), answers |-> RestAnswers(w, p)]
    BY <1>2, RecordedFields DEF Attempt
  <2>3. Moved(w, RestPc(w, p), attempts[w].index, Rest(w, p), RestAnswers(w, p))
    BY <2>1, <2>2 DEF Moved, AcquisitionTypeOK
  <2> QED
    BY <1>1, <1>2, <1>3, <1>5, <1>6, <2>3
<1> QED
  BY <1>7, <1>8

LEMMA StoreMoves ==
  ASSUME AcquisitionTypeOK, NEW w \in Workers, ~At(w, "idle") => AttemptSound(w),
         StoreEvidence(w)
  PROVE  LET p == NextToRecord(w)
             fields == attempts[w].answers[p].fields
         IN
         /\ At(w, "store") /\ ~At(w, "idle") /\ ToRecord(w) # {}
         /\ p \in attempts[w].toCall /\ p \in Providers
         /\ fields \subseteq Fields[p] /\ fields \subseteq AllFields
         /\ PutMany(Lead(w), p, fields, attempts[w].now, <<Lead(w), tries[Lead(w)]>>)
         /\ DOMAIN attempts' = Workers
         /\ \A v \in Workers \ {w} : attempts'[v] = attempts[v]
         /\ attempts'[w] =
              [pc |-> RestPc(w, p), lead |-> Lead(w), index |-> attempts[w].index,
               now |-> attempts[w].now,
               facts |-> FreshFacts(evidence', Lead(w), attempts[w].now),
               toCall |-> Rest(w, p), answers |-> RestAnswers(w, p)]
<1> DEFINE p == NextToRecord(w)
           fields == attempts[w].answers[p].fields
           facts == FreshFacts(evidence', Lead(w), attempts[w].now)
<1>1. /\ At(w, "store")
      /\ PutMany(Lead(w), p, fields, attempts[w].now, <<Lead(w), tries[Lead(w)]>>)
      /\ attempts' = [attempts EXCEPT ![w] = [Recorded(w, p) EXCEPT !.facts = facts]]
  BY DEF StoreEvidence
<1>2. ~At(w, "idle") /\ attempts[w].pc = "store"
  BY <1>1 DEF At
<1>3. ToRecord(w) # {}
  BY <1>1, <1>2 DEF AttemptSound
<1>4. p \in attempts[w].toCall /\ p \in Providers
  BY <1>2, <1>3, NextIsThere
<1>5. fields \subseteq Fields[p] /\ fields \subseteq AllFields
  BY <1>2, <1>4 DEF AttemptSound, AllFields
<1>6. attempts'[w] =
              [pc |-> RestPc(w, p), lead |-> Lead(w), index |-> attempts[w].index,
               now |-> attempts[w].now, facts |-> facts,
               toCall |-> Rest(w, p), answers |-> RestAnswers(w, p)]
  <2>1. attempts'[w] = [Recorded(w, p) EXCEPT !.facts = facts]
    BY <1>1 DEF AcquisitionTypeOK
  <2>2. Recorded(w, p) =
          [pc |-> RestPc(w, p), lead |-> Lead(w), index |-> attempts[w].index,
           now |-> attempts[w].now, facts |-> attempts[w].facts,
           toCall |-> Rest(w, p), answers |-> RestAnswers(w, p)]
    BY <1>2, RecordedFields DEF Attempt
  <2> HIDE DEF facts, p
  <2> QED
    BY <2>1, <2>2
<1>7. DOMAIN attempts' = Workers /\ \A v \in Workers \ {w} : attempts'[v] = attempts[v]
  BY <1>1 DEF AcquisitionTypeOK
<1> QED
  BY <1>1, <1>2, <1>3, <1>4, <1>5, <1>6, <1>7

LEMMA BeginMoves ==
  ASSUME AcquisitionTypeOK, NEW w \in Workers, NEW l \in Leads, Begin(w, l)
  PROVE  /\ DOMAIN attempts' = Workers
         /\ \A v \in Workers \ {w} : attempts'[v] = attempts[v]
         /\ attempts'[w] = [pc |-> "consider", lead |-> l, index |-> 1, now |-> clock,
                            facts |-> FreshFacts(evidence, l, clock), toCall |-> {},
                            answers |-> << >>]
         /\ attempts'[w] \in Attempt({})
         /\ FreshFacts(evidence, l, clock) \in SUBSET Fact
<1>1. FreshFacts(evidence, l, clock) \in SUBSET Fact
  BY DEF FreshFacts, Fact, AcquisitionTypeOK, LedgerTypeOK, EvidenceRow
<1>2. << >> \in [{} -> Result]
  OBVIOUS
<1>3. 1 \in 1 .. Len(Order) + 1 /\ clock \in Nat
  BY OrderFields DEF AcquisitionTypeOK, LedgerTypeOK
<1>4. /\ DOMAIN attempts' = Workers
      /\ \A v \in Workers \ {w} : attempts'[v] = attempts[v]
      /\ attempts'[w] = [pc |-> "consider", lead |-> l, index |-> 1, now |-> clock,
                            facts |-> FreshFacts(evidence, l, clock), toCall |-> {},
                            answers |-> << >>]
  BY DEF Begin, AcquisitionTypeOK
<1>5. attempts'[w] \in Attempt({})
  BY <1>1, <1>2, <1>3, <1>4 DEF Attempt
<1> QED
  BY <1>1, <1>4, <1>5

LEMMA EndMoves ==
  ASSUME AcquisitionTypeOK, NEW w \in Workers, Settle(w) \/ Abandon(w)
  PROVE  /\ ~At(w, "idle")
         /\ DOMAIN attempts' = Workers
         /\ \A v \in Workers \ {w} : attempts'[v] = attempts[v]
         /\ attempts'[w] = Idle
BY DEF Settle, Abandon, At, AcquisitionTypeOK

-----------------------------------------------------------------------------
(* Types and soundness.                                                    *)
LEMMA RowsTyped ==
  ASSUME LedgerTypeOK, NEW k \in Key, NEW outcome \in Outcome, NEW cost \in 0 .. MaxCost,
         NEW hit \in BOOLEAN, RecordProviderCall(k, outcome, cost, hit)
  PROVE  ledger' \in [Key -> Call \cup {NoCall}]
<1> DEFINE row == [outcome |-> outcome, cost |-> IF hit THEN 0 ELSE cost,
                   cacheHit |-> hit, at |-> clock]
<1>1. row \in Call
  <2>1. (IF hit THEN 0 ELSE cost) \in 0 .. MaxCost
    BY MaxCostAssumption
  <2> QED
    BY <2>1 DEF Call, LedgerTypeOK
<1>2. ledger' = [ledger EXCEPT ![k] = IF @ = NoCall THEN row ELSE @]
  BY DEF RecordProviderCall
<1> HIDE DEF row
<1> QED
  BY <1>1, <1>2 DEF LedgerTypeOK

LEMMA FreshMonotone ==
  ASSUME NEW R, NEW S, R \subseteq S, NEW l, NEW now
  PROVE  FreshFacts(R, l, now) \subseteq FreshFacts(S, l, now)
BY DEF FreshFacts

(* The others' attempts stay sound while rows are added and time passes.   *)
LEMMA OthersStaySound ==
  ASSUME AcquisitionTypeOK, NEW v \in Workers, ~At(v, "idle"), AttemptSound(v),
         attempts'[v] = attempts[v], evidence \subseteq evidence',
         clock' \in Nat, clock <= clock', UNCHANGED deployment
  PROVE  AttemptSound(v)'
<1>1. FreshFacts(evidence, Lead(v), attempts[v].now)
        \subseteq FreshFacts(evidence', Lead(v), attempts[v].now)
  BY FreshMonotone
<1>2. noDomain' = noDomain /\ strategy' = strategy
  BY DEF deployment
<1>3. FreshFacts(evidence, Lead(v), attempts[v].now)'
        = FreshFacts(evidence', Lead(v), attempts[v].now)
  BY <1>2 DEF FreshFacts, Refs, Lead
<1>4. attempts[v].now \in Nat /\ clock \in Nat
  BY AttemptFields DEF AcquisitionTypeOK, LedgerTypeOK
<1>5. attempts'[v].now <= clock'
  BY <1>4 DEF AttemptSound
<1>6. attempts'[v].facts \subseteq FreshFacts(evidence, Lead(v), attempts[v].now)'
  BY <1>1, <1>3 DEF AttemptSound
<1> QED
  BY <1>2, <1>5, <1>6
  DEF AttemptSound, At, Lead, Current, OwnFacts, Reachable, ToRecord

LEMMA MovedStaysSound ==
  ASSUME AcquisitionTypeOK, NEW w \in Workers, ~At(w, "idle"), AttemptSound(w),
         UNCHANGED <<evidence, clock>>, UNCHANGED deployment,
         NEW pc, NEW index, NEW toCall, NEW answers,
         Moved(w, pc, index, toCall, answers),
         pc = "guard" => /\ index <= Len(Order) /\ Reachable(Lead(w), Order[index])
                         /\ OwnFacts(w, Order[index]) = {},
         \A p \in toCall : Reachable(Lead(w), p) /\ \E i \in 1 .. Len(Order) : Order[i] = p,
         pc \in {"record", "store"} =>
           \A p \in toCall : /\ p \in DOMAIN answers /\ answers[p].cost <= Cost[p]
                             /\ answers[p].fields \subseteq Fields[p],
         pc = "store" => \E p \in toCall : answers[p].outcome # "raised",
         strategy = "optimized" => /\ pc \in {"consider", "guard"} => toCall = {}
                                   /\ \A p, q \in toCall : p = q
  PROVE  AttemptSound(w)'
<1>1. /\ attempts'[w].pc = pc /\ attempts'[w].lead = attempts[w].lead
      /\ attempts'[w].index = index /\ attempts'[w].now = attempts[w].now
      /\ attempts'[w].facts = attempts[w].facts
      /\ attempts'[w].toCall = toCall /\ attempts'[w].answers = answers
  BY DEF Moved, Lead
<1>2. noDomain' = noDomain /\ strategy' = strategy /\ evidence' = evidence /\ clock' = clock
  BY DEF deployment
<1>3. /\ attempts'[w].now <= clock'
      /\ attempts'[w].facts \subseteq FreshFacts(evidence, Lead(w), attempts[w].now)'
  BY <1>1, <1>2 DEF AttemptSound, FreshFacts, Refs, Lead
<1>4. \A p : (Reachable(Lead(w), p) <=> Reachable(Lead(w), p)') /\ OwnFacts(w, p)' = OwnFacts(w, p)
  BY <1>1, <1>2 DEF Reachable, OwnFacts, Lead, EntityOf
<1>5. At(w, "guard")' => /\ attempts'[w].index <= Len(Order)
                         /\ Reachable(Lead(w), Current(w))'
                         /\ OwnFacts(w, Current(w))' = {}
  BY <1>1, <1>2 DEF At, Current, Reachable, OwnFacts, Lead, EntityOf
<1>6. At(w, "store")' => ToRecord(w)' # {}
  BY <1>1 DEF At, ToRecord
<1> QED
  BY <1>1, <1>2, <1>3, <1>4, <1>5, <1>6 DEF AttemptSound, At

LEMMA AttemptsAssemble ==
  ASSUME AttemptsInv, NEW w \in Workers, UNCHANGED deployment,
         ledger' \in [Key -> Call \cup {NoCall}], evidence' \subseteq EvidenceRow,
         evidence \subseteq evidence', UNCHANGED clock,
         tries' \in [Leads -> 0 .. MaxAttempts], settled' \subseteq Leads,
         missedAt' \in [Key -> Nat \cup {Never}],
         DOMAIN attempts' = Workers,
         \A v \in Workers \ {w} : attempts'[v] = attempts[v],
         attempts'[w] = Idle \/ \E P \in SUBSET Providers : attempts'[w] \in Attempt(P),
         ~At(w, "idle")' => AttemptSound(w)'
  PROVE  AttemptsInv'
<1>1. AcquisitionTypeOK'
  <2>1. LedgerTypeOK' /\ strategy' \in Strategies
    BY DEF AttemptsInv, AcquisitionTypeOK, LedgerTypeOK, deployment
  <2>2. \A v \in Workers :
          attempts'[v] = Idle \/ \E P \in SUBSET Providers : attempts'[v] \in Attempt(P)
    BY DEF AttemptsInv, AcquisitionTypeOK
  <2> QED
    BY <2>1, <2>2 DEF AcquisitionTypeOK
<1>2. ASSUME NEW v \in Workers, ~At(v, "idle")' PROVE AttemptSound(v)'
  <2>1. CASE v = w
    BY <1>2, <2>1
  <2>2. CASE v # w
    <3>1. attempts'[v] = attempts[v] /\ ~At(v, "idle")
      BY <1>2, <2>2 DEF At
    <3>2. clock' \in Nat /\ clock <= clock'
      BY DEF AttemptsInv, AcquisitionTypeOK, LedgerTypeOK
    <3> QED
      BY <3>1, <3>2, OthersStaySound DEF AttemptsInv
  <2> QED
    BY <2>1, <2>2
<1> QED
  BY <1>1, <1>2 DEF AttemptsInv

(* The same for an attempt that has moved and changed no table but the     *)
(* ledger.                                                                 *)
LEMMA MovedAssemble ==
  ASSUME AttemptsInv, NEW w \in Workers, ~At(w, "idle"), UNCHANGED deployment,
         UNCHANGED <<evidence, clock, tries, settled>>,
         ledger' \in [Key -> Call \cup {NoCall}],
         missedAt' \in [Key -> Nat \cup {Never}],
         NEW pc \in {"consider", "guard", "call", "record", "store"},
         NEW index \in 1 .. Len(Order) + 1, NEW toCall \in SUBSET Providers,
         NEW P \in SUBSET Providers, NEW answers \in [P -> Result],
         Moved(w, pc, index, toCall, answers),
         AttemptSound(w)'
  PROVE  AttemptsInv'
<1>0. AcquisitionTypeOK
  BY DEF AttemptsInv
<1>1. /\ DOMAIN attempts' = Workers
      /\ \A v \in Workers \ {w} : attempts'[v] = attempts[v]
      /\ attempts'[w] \in Attempt(P)
  BY <1>0, MovedTyped, ZenonT(60)
<1>2. /\ evidence' \subseteq EvidenceRow /\ evidence \subseteq evidence'
      /\ tries' \in [Leads -> 0 .. MaxAttempts] /\ settled' \subseteq Leads
  BY DEF AttemptsInv, AcquisitionTypeOK, LedgerTypeOK
<1> QED
  BY <1>1, <1>2, AttemptsAssemble

(* Steps of the walk and the calls: the ledger gets at most a free row.    *)
LEMMA WalkKeepsAttempts ==
  ASSUME AttemptsInv, NEW w \in Workers, UNCHANGED deployment,
         \/ PassOver(w) \/ ServeFromRecord(w) \/ PassGuards(w) \/ Refuse(w)
         \/ StopEarly(w) \/ CallAdmitted(w)
         \/ \E answers \in AnswersTo(w) : Fetch(w, answers)
  PROVE  /\ AttemptsInv'
         /\ ~At(w, "idle") /\ ~At(w, "store")
         /\ \E pc \in {"consider", "guard", "call", "record"} : \E index, answers :
              Moved(w, pc, index, attempts[w].toCall, answers)
<1>1. AcquisitionTypeOK /\ (~At(w, "idle") => AttemptSound(w))
  BY DEF AttemptsInv
<1>2. ledger' \in [Key -> Call \cup {NoCall}]
  <2>1. CASE ServeFromRecord(w)
    <3>1. ~At(w, "idle") /\ attempts[w].index <= Len(Order)
      BY <2>1 DEF ServeFromRecord, Walking, At
    <3>2. <<Lead(w), Current(w)>> \in Key
      BY <1>1, <3>1, AttemptFields, OrderFields DEF Key, Current
    <3>3. PICK o \in {"success", "miss", "definite"} :
            RecordProviderCall(<<Lead(w), Current(w)>>, o, 0, TRUE)
      BY <2>1 DEF ServeFromRecord
    <3>4. o \in Outcome /\ 0 \in 0 .. MaxCost
      BY MaxCostAssumption DEF Outcome
    <3> QED
      BY <1>1, <3>2, <3>3, <3>4, RowsTyped DEF AcquisitionTypeOK
  <2>2. CASE ~ServeFromRecord(w)
    <3>1. ledger' = ledger
      BY <2>2 DEF PassOver, PassGuards, Refuse, StopEarly, CallAdmitted, Fetch, ledgerVars
    <3> QED
      BY <1>1, <3>1 DEF AcquisitionTypeOK, LedgerTypeOK
  <2> QED
    BY <2>1, <2>2
<1>3. UNCHANGED <<evidence, clock, tries, settled, missedAt>>
  BY DEF PassOver, ServeFromRecord, PassGuards, Refuse, StopEarly, CallAdmitted, Fetch, ledgerVars
<1>4. missedAt' \in [Key -> Nat \cup {Never}]
  BY <1>1, <1>3 DEF AcquisitionTypeOK
<1>5. ASSUME ~At(w, "idle"), ~At(w, "store"),
             NEW pc \in {"consider", "guard", "call", "record"},
             NEW index \in 1 .. Len(Order) + 1,
             NEW P \in SUBSET Providers, NEW answers \in [P -> Result],
             Moved(w, pc, index, attempts[w].toCall, answers),
             pc = "guard" => /\ index <= Len(Order) /\ Reachable(Lead(w), Order[index])
                             /\ OwnFacts(w, Order[index]) = {},
             pc = "record" =>
               \A p \in attempts[w].toCall : /\ p \in DOMAIN answers /\ answers[p].cost <= Cost[p]
                                             /\ answers[p].fields \subseteq Fields[p],
             pc \in {"consider", "guard"} => attempts[w].pc \in {"consider", "guard"}
      PROVE  /\ AttemptsInv'
             /\ ~At(w, "idle") /\ ~At(w, "store")
             /\ \E c \in {"consider", "guard", "call", "record"} : \E i, a :
                  Moved(w, c, i, attempts[w].toCall, a)
  <2>1. AttemptSound(w)
    BY <1>1, <1>5
  <2>2. attempts[w].toCall \in SUBSET Providers
    BY <1>1, <1>5, AttemptFields
  <2>3. AttemptSound(w)'
    <3>1. \A p \in attempts[w].toCall : Reachable(Lead(w), p) /\ \E i \in 1 .. Len(Order) : Order[i] = p
      BY <2>1 DEF AttemptSound
    <3>2. strategy = "optimized" => /\ pc \in {"consider", "guard"} => attempts[w].toCall = {}
                                    /\ \A p, q \in attempts[w].toCall : p = q
      BY <2>1, <1>5 DEF AttemptSound
    <3> QED
      BY <1>1, <1>3, <1>5, <2>1, <3>1, <3>2, MovedStaysSound
  <2>4. AttemptsInv'
    <3>1. UNCHANGED <<evidence, clock, tries, settled>>
      BY <1>3
    <3>2. pc \in {"consider", "guard", "call", "record", "store"}
      BY <1>5
    <3> QED
      BY <1>2, <1>4, <1>5, <2>2, <2>3, <3>1, <3>2, MovedAssemble
  <2> QED
    BY <1>5, <2>4
<1>6. ~At(w, "idle") =>
        /\ attempts[w].index \in 1 .. Len(Order) + 1
        /\ DOMAIN attempts[w].answers \in SUBSET Providers
        /\ attempts[w].answers \in [DOMAIN attempts[w].answers -> Result]
        /\ attempts[w].toCall \in SUBSET Providers
  BY <1>1, AttemptFields
<1>7. CASE PassOver(w) \/ ServeFromRecord(w)
  <2>1. /\ At(w, "consider") /\ ~At(w, "idle")
        /\ attempts[w].index + 1 \in 1 .. Len(Order) + 1
        /\ Moved(w, "consider", attempts[w].index + 1, attempts[w].toCall, attempts[w].answers)
    BY <1>1, <1>7, WalkMoves
  <2> QED
    BY <2>1, <1>5, <1>6 DEF At
<1>8. CASE PassGuards(w)
  <2>1. /\ At(w, "consider") /\ ~At(w, "idle") /\ attempts[w].index <= Len(Order)
        /\ Reachable(Lead(w), Order[attempts[w].index])
        /\ OwnFacts(w, Order[attempts[w].index]) = {}
        /\ Moved(w, "guard", attempts[w].index, attempts[w].toCall, attempts[w].answers)
    BY <1>1, <1>8, PassGuardsMoves DEF Current
  <2> QED
    BY <2>1, <1>5, <1>6 DEF At
<1>9. CASE Refuse(w)
  <2>1. ~At(w, "idle")
    BY <1>9 DEF Refuse, At
  <2>2. At(w, "guard")
    BY <1>9 DEF Refuse
  <2>3. PICK index \in 1 .. Len(Order) + 1 :
          Moved(w, "consider", index, attempts[w].toCall, attempts[w].answers)
    BY <1>1, <1>9, <2>1, RefuseMoves
  <2> QED
    BY <2>1, <2>2, <2>3, <1>5, <1>6 DEF At
<1>10. CASE StopEarly(w)
  <2>1. /\ At(w, "consider") /\ ~At(w, "idle") /\ Len(Order) + 1 \in 1 .. Len(Order) + 1
        /\ Moved(w, "consider", Len(Order) + 1, attempts[w].toCall, attempts[w].answers)
    BY <1>1, <1>10, StopEarlyMoves
  <2> QED
    BY <2>1, <1>5, <1>6 DEF At
<1>11. CASE CallAdmitted(w)
  <2>1. /\ At(w, "consider") /\ ~At(w, "idle")
        /\ Moved(w, "call", attempts[w].index, attempts[w].toCall, attempts[w].answers)
    BY <1>1, <1>11, CallAdmittedMoves
  <2> QED
    BY <2>1, <1>5, <1>6 DEF At
<1>12. CASE \E answers \in AnswersTo(w) : Fetch(w, answers)
  <2>1. PICK answers \in AnswersTo(w) : Fetch(w, answers)
    BY <1>12
  <2>2. /\ At(w, "call") /\ ~At(w, "idle")
        /\ answers \in [attempts[w].toCall -> Result]
        /\ \A p \in attempts[w].toCall : /\ p \in DOMAIN answers
                                         /\ answers[p].cost <= Cost[p]
                                         /\ answers[p].fields \subseteq Fields[p]
        /\ Moved(w, "record", attempts[w].index, attempts[w].toCall, answers)
    BY <1>1, <2>1, FetchMoves
  <2> QED
    BY <2>2, <1>5, <1>6 DEF At
<1> QED
  BY <1>7, <1>8, <1>9, <1>10, <1>11, <1>12

LEMMA AdmitKeepsAttempts ==
  ASSUME AttemptsInv, NEW w \in Workers, UNCHANGED deployment, Admit(w)
  PROVE  AttemptsInv'
<1> DEFINE p == Current(w)
           pc == IF Concurrent(p) THEN "consider" ELSE "call"
           toCall == attempts[w].toCall \cup {p}
<1>1. AcquisitionTypeOK /\ (~At(w, "idle") => AttemptSound(w))
  BY DEF AttemptsInv
<1>2. /\ At(w, "guard") /\ ~At(w, "idle")
      /\ pc \in {"consider", "call"} /\ (strategy = "optimized" => pc = "call")
      /\ Moved(w, pc, attempts[w].index + 1, toCall, attempts[w].answers)
  BY <1>1, AdmitMoves
<1>3. /\ AttemptSound(w) /\ attempts[w].pc = "guard"
      /\ attempts[w].index <= Len(Order) /\ Reachable(Lead(w), p)
  BY <1>1, <1>2 DEF AttemptSound, At
<1>4. /\ attempts[w].index \in 1 .. Len(Order) + 1
      /\ DOMAIN attempts[w].answers \in SUBSET Providers
      /\ attempts[w].answers \in [DOMAIN attempts[w].answers -> Result]
      /\ attempts[w].toCall \in SUBSET Providers
  BY <1>1, <1>2, AttemptFields
<1>5. attempts[w].index \in 1 .. Len(Order) /\ attempts[w].index + 1 \in 1 .. Len(Order) + 1
  BY <1>3, <1>4, OrderFields
<1>6. p \in Providers /\ toCall \in SUBSET Providers
  BY <1>4, <1>5, OrderFields DEF Current
<1>7. \A q \in toCall : Reachable(Lead(w), q) /\ \E i \in 1 .. Len(Order) : Order[i] = q
  BY <1>3, <1>5 DEF AttemptSound, Current
<1>8. strategy = "optimized" => /\ pc \in {"consider", "guard"} => toCall = {}
                                /\ \A q, r \in toCall : q = r
  BY <1>2, <1>3 DEF AttemptSound
<1>9. /\ UNCHANGED <<evidence, clock>> /\ UNCHANGED <<evidence, clock, tries, settled>>
      /\ ledger' \in [Key -> Call \cup {NoCall}]
      /\ missedAt' \in [Key -> Nat \cup {Never}]
  BY <1>1 DEF Admit, ledgerVars, AcquisitionTypeOK, LedgerTypeOK
<1> HIDE DEF pc, toCall, p
<1>10. AttemptSound(w)'
  <2>1. pc # "guard" /\ pc # "store" /\ pc # "record"
    BY <1>2
  <2> QED
    BY <1>1, <1>2, <1>3, <1>7, <1>8, <1>9, <2>1, MovedStaysSound
<1>11. pc \in {"consider", "guard", "call", "record", "store"}
  BY <1>2
<1> QED
  BY <1>2, <1>4, <1>5, <1>6, <1>9, <1>10, <1>11, MovedAssemble

LEMMA RecordKeepsAttempts ==
  ASSUME AttemptsInv, NEW w \in Workers, UNCHANGED deployment, RecordCall(w)
  PROVE  AttemptsInv'
<1> DEFINE p == NextToRecord(w)
           r == attempts[w].answers[p]
<1>1. AcquisitionTypeOK /\ (~At(w, "idle") => AttemptSound(w))
  BY DEF AttemptsInv
<1>2. /\ At(w, "record") /\ ~At(w, "idle") /\ ToRecord(w) # {}
      /\ p \in attempts[w].toCall /\ p \in Providers
      /\ r \in Result /\ r.outcome \in Outcome
      /\ RecordProviderCall(<<Lead(w), p>>, r.outcome, r.cost, FALSE)
      /\ \/ Moved(w, "store", attempts[w].index, attempts[w].toCall, attempts[w].answers)
         \/ Moved(w, RestPc(w, p), attempts[w].index, Rest(w, p), RestAnswers(w, p))
  BY <1>1, RecordCallMoves
<1>3. AttemptSound(w) /\ attempts[w].pc = "record"
  BY <1>1, <1>2 DEF At
<1>4. /\ attempts[w].index \in 1 .. Len(Order) + 1
      /\ DOMAIN attempts[w].answers \in SUBSET Providers
      /\ attempts[w].answers \in [DOMAIN attempts[w].answers -> Result]
      /\ attempts[w].toCall \in SUBSET Providers /\ Lead(w) \in Leads
  BY <1>1, <1>2, AttemptFields
<1>5. <<Lead(w), p>> \in Key
  BY <1>2, <1>4 DEF Key
<1>6. ledger' \in [Key -> Call \cup {NoCall}]
  <2>1. r.cost \in 0 .. MaxCost
    BY <1>2 DEF Result
  <2>2. LedgerTypeOK
    BY <1>1 DEF AcquisitionTypeOK
  <2> HIDE DEF r
  <2> QED
    BY <1>2, <1>5, <2>1, <2>2, RowsTyped
<1>7. missedAt' \in [Key -> Nat \cup {Never}]
  <2>1. missedAt' = [missedAt EXCEPT ![<<Lead(w), p>>] = IF r.outcome = "miss" THEN clock ELSE @]
    BY DEF RecordCall
  <2> QED
    BY <1>1, <1>5, <2>1 DEF AcquisitionTypeOK, LedgerTypeOK
<1>8. UNCHANGED <<evidence, clock, tries, settled>> /\ UNCHANGED <<evidence, clock>>
  BY DEF RecordCall
<1>9. \A q \in attempts[w].toCall :
        /\ Reachable(Lead(w), q) /\ \E i \in 1 .. Len(Order) : Order[i] = q
        /\ q \in DOMAIN attempts[w].answers /\ attempts[w].answers[q].cost <= Cost[q]
        /\ attempts[w].answers[q].fields \subseteq Fields[q]
  BY <1>3 DEF AttemptSound
<1>10. strategy = "optimized" => \A q, s \in attempts[w].toCall : q = s
  BY <1>3 DEF AttemptSound
<1>11. CASE Moved(w, "store", attempts[w].index, attempts[w].toCall, attempts[w].answers)
  <2>1. \E q \in attempts[w].toCall : attempts[w].answers[q].outcome # "raised"
    BY <1>2 DEF ToRecord
  <2>2. AttemptSound(w)'
    BY <1>1, <1>2, <1>3, <1>8, <1>9, <1>10, <1>11, <2>1, MovedStaysSound
  <2> QED
    BY <1>2, <1>4, <1>6, <1>7, <1>8, <1>11, <2>2, MovedAssemble
<1>12. CASE Moved(w, RestPc(w, p), attempts[w].index, Rest(w, p), RestAnswers(w, p))
  <2>1. /\ Rest(w, p) \in SUBSET Providers
        /\ RestAnswers(w, p) \in [Rest(w, p) -> Result]
        /\ RestPc(w, p) \in {"consider", "record"}
        /\ \A q \in Rest(w, p) : /\ q \in DOMAIN RestAnswers(w, p)
                                 /\ RestAnswers(w, p)[q].cost <= Cost[q]
                                 /\ RestAnswers(w, p)[q].fields \subseteq Fields[q]
    BY <1>1, <1>2, <1>3, RecordedFields
  <2>2. /\ Rest(w, p) \subseteq attempts[w].toCall
        /\ strategy = "optimized" => Rest(w, p) = {}
        /\ RestPc(w, p) = "consider" => Rest(w, p) = {}
    BY <1>2, <1>10 DEF Rest, RestPc
  <2>3. RestPc(w, p) \notin {"guard", "store"}
    BY <2>1
  <2> HIDE DEF p
  <2>4. AttemptSound(w)'
    BY <1>1, <1>2, <1>3, <1>8, <1>9, <1>12, <2>1, <2>2, <2>3, MovedStaysSound
  <2>5. RestPc(w, p) \in {"consider", "guard", "call", "record", "store"}
    BY <2>1
  <2> QED
    BY <1>2, <1>4, <1>6, <1>7, <1>8, <1>12, <2>1, <2>4, <2>5, MovedAssemble
<1> QED
  BY <1>2, <1>11, <1>12

LEMMA StoreKeepsAttempts ==
  ASSUME AttemptsInv, NEW w \in Workers, UNCHANGED deployment, StoreEvidence(w)
  PROVE  AttemptsInv' /\ evidence \subseteq evidence'
<1> DEFINE p == NextToRecord(w)
           fields == attempts[w].answers[p].fields
           id == <<Lead(w), tries[Lead(w)]>>
           facts == FreshFacts(evidence', Lead(w), attempts[w].now)
<1>1. AcquisitionTypeOK /\ (~At(w, "idle") => AttemptSound(w))
  BY DEF AttemptsInv
<1>2. /\ At(w, "store") /\ ~At(w, "idle")
      /\ p \in attempts[w].toCall /\ p \in Providers
      /\ fields \subseteq Fields[p] /\ fields \subseteq AllFields
      /\ PutMany(Lead(w), p, fields, attempts[w].now, id)
      /\ DOMAIN attempts' = Workers
      /\ \A v \in Workers \ {w} : attempts'[v] = attempts[v]
      /\ attempts'[w] = [pc |-> RestPc(w, p), lead |-> Lead(w), index |-> attempts[w].index,
                         now |-> attempts[w].now, facts |-> facts,
                         toCall |-> Rest(w, p), answers |-> RestAnswers(w, p)]
  BY <1>1, StoreMoves
<1>3. AttemptSound(w) /\ attempts[w].pc = "store"
  BY <1>1, <1>2 DEF At
<1>4. /\ attempts[w].index \in 1 .. Len(Order) + 1
      /\ Lead(w) \in Leads /\ attempts[w].now \in Nat
  BY <1>1, <1>2, AttemptFields
<1>5. evidence' \subseteq EvidenceRow /\ evidence \subseteq evidence'
  <2>1. EntityOf(Lead(w), p) \in Leads \cup {Company} /\ id \in Leads \X Nat
    <3>1. tries[Lead(w)] \in Nat
      BY <1>1, <1>4, MaxAttemptsAssumption DEF AcquisitionTypeOK
    <3> QED
      BY <1>2, <1>4, <3>1, CompanyLemma
  <2>2. evidence \subseteq EvidenceRow
    BY <1>1 DEF AcquisitionTypeOK, LedgerTypeOK
  <2>3. evidence' = evidence \cup
          {[entity |-> EntityOf(Lead(w), p), field |-> f, source |-> p,
            at |-> attempts[w].now, id |-> id] : f \in fields}
    BY <1>2 DEF PutMany
  <2> HIDE DEF id, fields, p
  <2> QED
    BY <1>2, <1>4, <2>1, <2>2, <2>3 DEF EvidenceRow
<1>6. /\ Rest(w, p) \in SUBSET Providers
      /\ RestAnswers(w, p) \in [Rest(w, p) -> Result]
      /\ RestPc(w, p) \in {"consider", "record"}
      /\ \A q \in Rest(w, p) : /\ q \in DOMAIN RestAnswers(w, p)
                               /\ RestAnswers(w, p)[q].cost <= Cost[q]
                               /\ RestAnswers(w, p)[q].fields \subseteq Fields[q]
  BY <1>1, <1>2, <1>3, RecordedFields
<1>7. facts \in SUBSET Fact
  BY <1>5 DEF FreshFacts, Fact, EvidenceRow
<1>8. /\ UNCHANGED clock /\ ledger' \in [Key -> Call \cup {NoCall}]
      /\ missedAt' \in [Key -> Nat \cup {Never}] /\ settled' \subseteq Leads
      /\ tries' \in [Leads -> 0 .. MaxAttempts]
  BY <1>1 DEF StoreEvidence, AcquisitionTypeOK, LedgerTypeOK
<1>9. /\ Rest(w, p) \subseteq attempts[w].toCall
      /\ strategy = "optimized" => Rest(w, p) = {}
  BY <1>2, <1>3 DEF Rest, AttemptSound
<1>10. noDomain' = noDomain /\ strategy' = strategy
  BY DEF deployment
<1> HIDE DEF p, id, fields
<1>11. attempts'[w] \in Attempt(Rest(w, p))
  BY <1>2, <1>4, <1>6, <1>7 DEF Attempt
<1>12. AttemptSound(w)'
  <2>1. /\ attempts'[w].pc = RestPc(w, p) /\ attempts'[w].lead = Lead(w)
        /\ attempts'[w].now = attempts[w].now /\ attempts'[w].facts = facts
        /\ attempts'[w].toCall = Rest(w, p) /\ attempts'[w].answers = RestAnswers(w, p)
    BY <1>2
  <2>2. Lead(w)' = Lead(w) /\ attempts'[w].now <= clock'
    BY <1>3, <1>8, <2>1 DEF Lead, AttemptSound
  <2>3. attempts'[w].facts = FreshFacts(evidence, Lead(w), attempts[w].now)'
    BY <1>10, <2>1, <2>2 DEF FreshFacts, Refs
  <2>4. \A q \in Rest(w, p) : Reachable(Lead(w), q)' /\ \E i \in 1 .. Len(Order) : Order[i] = q
    BY <1>3, <1>9, <1>10, <2>2 DEF AttemptSound, Reachable
  <2>5. RestPc(w, p) # "guard" /\ RestPc(w, p) # "store"
    BY <1>6
  <2> HIDE DEF facts
  <2> QED
    BY <1>6, <1>9, <1>10, <2>1, <2>2, <2>3, <2>4, <2>5 DEF AttemptSound, At
<1> QED
  BY <1>2, <1>5, <1>6, <1>8, <1>11, <1>12, AttemptsAssemble

LEMMA BeginKeepsAttempts ==
  ASSUME AttemptsInv, NEW w \in Workers, UNCHANGED deployment,
         NEW l \in Leads, Begin(w, l)
  PROVE  AttemptsInv'
<1>1. AcquisitionTypeOK
  BY DEF AttemptsInv
<1>2. /\ DOMAIN attempts' = Workers
      /\ \A v \in Workers \ {w} : attempts'[v] = attempts[v]
      /\ attempts'[w] = [pc |-> "consider", lead |-> l, index |-> 1, now |-> clock,
                         facts |-> FreshFacts(evidence, l, clock), toCall |-> {},
                         answers |-> << >>]
      /\ attempts'[w] \in Attempt({})
  BY <1>1, BeginMoves
<1>3. /\ UNCHANGED <<ledger, evidence, clock, missedAt, settled>>
      /\ tries[l] < MaxAttempts /\ tries' = [tries EXCEPT ![l] = @ + 1]
  BY DEF Begin, ledgerVars
<1>4. /\ ledger' \in [Key -> Call \cup {NoCall}] /\ evidence' \subseteq EvidenceRow
      /\ missedAt' \in [Key -> Nat \cup {Never}] /\ settled' \subseteq Leads
      /\ evidence \subseteq evidence'
  BY <1>1, <1>3 DEF AcquisitionTypeOK, LedgerTypeOK
<1>5. tries' \in [Leads -> 0 .. MaxAttempts]
  BY <1>1, <1>3, MaxAttemptsAssumption DEF AcquisitionTypeOK
<1>6. AttemptSound(w)'
  <2>1. /\ attempts'[w].pc = "consider" /\ attempts'[w].lead = l
        /\ attempts'[w].now = clock /\ attempts'[w].toCall = {}
        /\ attempts'[w].facts = FreshFacts(evidence, l, clock)
    BY <1>2
  <2>2. noDomain' = noDomain /\ clock \in Nat
    BY <1>1 DEF deployment, AcquisitionTypeOK, LedgerTypeOK
  <2>3. attempts'[w].facts = FreshFacts(evidence, Lead(w), attempts[w].now)'
    BY <1>3, <2>1, <2>2 DEF FreshFacts, Refs, Lead
  <2>4. attempts'[w].now <= clock'
    BY <1>3, <2>1, <2>2
  <2> QED
    BY <2>1, <2>3, <2>4 DEF AttemptSound, At
<1> QED
  BY <1>2, <1>3, <1>4, <1>5, <1>6, AttemptsAssemble

LEMMA EndKeepsAttempts ==
  ASSUME AttemptsInv, NEW w \in Workers, UNCHANGED deployment, Settle(w) \/ Abandon(w)
  PROVE  AttemptsInv'
<1>1. AcquisitionTypeOK
  BY DEF AttemptsInv
<1>2. /\ ~At(w, "idle") /\ DOMAIN attempts' = Workers
      /\ \A v \in Workers \ {w} : attempts'[v] = attempts[v]
      /\ attempts'[w] = Idle
  BY <1>1, EndMoves
<1>3. settled' \subseteq Leads
  <2>1. Lead(w) \in Leads
    BY <1>1, <1>2, AttemptFields
  <2> QED
    BY <1>1, <2>1 DEF Settle, Abandon, AcquisitionTypeOK
<1>4. UNCHANGED <<ledger, evidence, clock, tries, missedAt>>
  BY DEF Settle, Abandon, ledgerVars
<1>5. /\ ledger' \in [Key -> Call \cup {NoCall}] /\ evidence' \subseteq EvidenceRow
      /\ missedAt' \in [Key -> Nat \cup {Never}] /\ evidence \subseteq evidence'
      /\ tries' \in [Leads -> 0 .. MaxAttempts]
  BY <1>1, <1>4 DEF AcquisitionTypeOK, LedgerTypeOK
<1>6. At(w, "idle")'
  BY <1>2 DEF At, Idle
<1> QED
  BY <1>2, <1>3, <1>4, <1>5, <1>6, AttemptsAssemble

LEMMA TickKeepsAttempts ==
  ASSUME AttemptsInv, UNCHANGED deployment, Tick
  PROVE  AttemptsInv'
<1>1. AcquisitionTypeOK
  BY DEF AttemptsInv
<1>2. /\ UNCHANGED <<ledger, evidence, attempts, tries, settled, missedAt>>
      /\ clock' = clock + 1 /\ clock \in Nat
  BY <1>1 DEF Tick, AcquisitionTypeOK, LedgerTypeOK
<1>3. AcquisitionTypeOK'
  BY <1>1, <1>2 DEF AcquisitionTypeOK, LedgerTypeOK, deployment
<1>4. ASSUME NEW v \in Workers, ~At(v, "idle")' PROVE AttemptSound(v)'
  <2>1. ~At(v, "idle") /\ AttemptSound(v) /\ attempts'[v] = attempts[v]
    BY <1>2, <1>4 DEF At, AttemptsInv
  <2>2. evidence \subseteq evidence' /\ clock' \in Nat /\ clock <= clock'
    BY <1>2
  <2> QED
    BY <1>1, <2>1, <2>2, OthersStaySound
<1> QED
  BY <1>3, <1>4 DEF AttemptsInv

-----------------------------------------------------------------------------
(* One attempt per lead, and few copies of a fact.                         *)
LEMMA SameLeadStaysAlone ==
  ASSUME OneAttemptPerLead, NEW w \in Workers,
         \A v \in Workers \ {w} : attempts'[v] = attempts[v],
         ~At(w, "idle")' => ~At(w, "idle") /\ Lead(w)' = Lead(w)
  PROVE  OneAttemptPerLead'
<1> SUFFICES ASSUME NEW u \in Workers, NEW v \in Workers,
                    ~At(u, "idle")', ~At(v, "idle")', Lead(u)' = Lead(v)'
             PROVE  u = v
  BY DEF OneAttemptPerLead
<1>1. \A x \in {u, v} : ~At(x, "idle") /\ Lead(x)' = Lead(x)
  BY DEF At, Lead
<1> QED
  BY <1>1 DEF OneAttemptPerLead

LEMMA BeginStaysAlone ==
  ASSUME AttemptsInv, OneAttemptPerLead, NEW w \in Workers, NEW l \in Leads, Begin(w, l)
  PROVE  OneAttemptPerLead'
<1>1. /\ \A v \in Workers \ {w} : attempts'[v] = attempts[v]
      /\ attempts'[w].lead = l
  <2>1. AcquisitionTypeOK
    BY DEF AttemptsInv
  <2>2. /\ \A v \in Workers \ {w} : attempts'[v] = attempts[v]
        /\ attempts'[w] = [pc |-> "consider", lead |-> l, index |-> 1, now |-> clock,
                           facts |-> FreshFacts(evidence, l, clock), toCall |-> {},
                           answers |-> << >>]
    BY <2>1, BeginMoves
  <2> QED
    BY <2>2
<1>2. \A v \in Workers : ~At(v, "idle") => Lead(v) # l
  BY DEF Begin
<1> SUFFICES ASSUME NEW u \in Workers, NEW v \in Workers,
                    ~At(u, "idle")', ~At(v, "idle")', Lead(u)' = Lead(v)'
             PROVE  u = v
  BY DEF OneAttemptPerLead
<1>3. \A x \in {u, v} : x # w => ~At(x, "idle") /\ Lead(x)' = Lead(x)
  BY <1>1 DEF At, Lead
<1>4. Lead(w)' = l
  BY <1>1 DEF Lead
<1>5. CASE u = w \/ v = w
  BY <1>2, <1>3, <1>4, <1>5
<1>6. CASE u # w /\ v # w
  BY <1>3, <1>6 DEF OneAttemptPerLead
<1> QED
  BY <1>5, <1>6

LEMMA CopiesKept ==
  ASSUME AttemptsInv, CopiesAreFew, UNCHANGED evidence, clock' \in Nat, clock <= clock',
         \A e \in Leads \cup {Company}, p \in Providers : Seekers(e, p)' \subseteq Seekers(e, p)
  PROVE  CopiesAreFew'
<1> SUFFICES ASSUME NEW e \in Leads \cup {Company}, NEW f \in AllFields, NEW p \in Providers
             PROVE  /\ IsFiniteSet(Copies(e, f, p))'
                    /\ Cardinality(FreshCopies(e, f, p)') + Cardinality(Seekers(e, p)')
                         <= MostCopies(e)
  BY DEF CopiesAreFew, MostCopies
<1>1. /\ IsFiniteSet(Copies(e, f, p))
      /\ Cardinality(FreshCopies(e, f, p)) + Cardinality(Seekers(e, p)) <= MostCopies(e)
  BY DEF CopiesAreFew
<1>2. Copies(e, f, p)' = Copies(e, f, p)
  BY DEF Copies
<1>3. FreshCopies(e, f, p)' \subseteq FreshCopies(e, f, p)
  <2>1. clock \in Nat /\ FieldTTL[f] \in Nat
    BY FieldTTLAssumption DEF AttemptsInv, AcquisitionTypeOK, LedgerTypeOK, AllFields
  <2>2. \A r \in Copies(e, f, p) : r.at \in Nat
    BY DEF Copies, AttemptsInv, AcquisitionTypeOK, LedgerTypeOK, EvidenceRow
  <2> QED
    BY <1>2, <2>1, <2>2 DEF FreshCopies
<1>4. IsFiniteSet(FreshCopies(e, f, p))
  BY <1>1, FS_Subset DEF FreshCopies
<1>5. /\ Cardinality(FreshCopies(e, f, p)') <= Cardinality(FreshCopies(e, f, p))
      /\ Cardinality(FreshCopies(e, f, p)') \in Nat /\ Cardinality(FreshCopies(e, f, p)) \in Nat
  BY <1>3, <1>4, SmallerSet
<1>6. IsFiniteSet(Seekers(e, p))
  BY WorkersAssumption, FS_Subset DEF Seekers
<1>7. /\ Cardinality(Seekers(e, p)') <= Cardinality(Seekers(e, p))
      /\ Cardinality(Seekers(e, p)') \in Nat /\ Cardinality(Seekers(e, p)) \in Nat
  BY <1>6, SmallerSet
<1>8. MostCopies(e) \in Nat
  BY Amounts
<1> QED
  BY <1>1, <1>2, <1>5, <1>7, <1>8

(* An attempt that moves on seeks no more than it did.                     *)
LEMMA MovedSeeksNoMore ==
  ASSUME AttemptsInv, CopiesAreFew, NEW w \in Workers, ~At(w, "idle"),
         UNCHANGED <<evidence, clock>>, UNCHANGED deployment,
         NEW pc, NEW index, NEW toCall, NEW answers,
         Moved(w, pc, index, toCall, answers),
         \A p \in toCall : p \in attempts[w].toCall \/ OwnFacts(w, p) = {}
  PROVE  CopiesAreFew'
<1>1. noDomain' = noDomain /\ evidence' = evidence /\ clock' = clock
  BY DEF deployment
<1>2. /\ attempts'[w].lead = attempts[w].lead /\ attempts'[w].facts = attempts[w].facts
      /\ attempts'[w].toCall = toCall
      /\ \A v \in Workers \ {w} : attempts'[v] = attempts[v]
  BY DEF Moved, Lead
<1>3. ASSUME NEW e \in Leads \cup {Company}, NEW p \in Providers
      PROVE  Seekers(e, p)' \subseteq Seekers(e, p)
  <2> SUFFICES ASSUME NEW v \in Workers, Seeks(v, e, p)'
               PROVE  Seeks(v, e, p)
    BY DEF Seekers
  <2>1. CASE v = w
    <3>1. Lead(w)' = Lead(w) /\ OwnFacts(w, p)' = OwnFacts(w, p)
      BY <1>2 DEF Lead, OwnFacts
    <3> QED
      BY <1>1, <1>2, <2>1, <3>1 DEF Seeks, Reachable
  <2>2. CASE v # w
    BY <1>1, <1>2, <2>2 DEF Seeks, Reachable, At, Lead, OwnFacts
  <2> QED
    BY <2>1, <2>2
<1>4. clock' \in Nat /\ clock <= clock'
  BY <1>1 DEF AttemptsInv, AcquisitionTypeOK, LedgerTypeOK
<1> QED
  BY <1>1, <1>3, <1>4, CopiesKept

LEMMA EndSeeksNoMore ==
  ASSUME AttemptsInv, CopiesAreFew, NEW w \in Workers,
         UNCHANGED <<evidence, clock>>, UNCHANGED deployment,
         \A v \in Workers \ {w} : attempts'[v] = attempts[v], attempts'[w] = Idle
  PROVE  CopiesAreFew'
<1>1. noDomain' = noDomain /\ evidence' = evidence /\ clock' = clock
  BY DEF deployment
<1>2. ASSUME NEW e \in Leads \cup {Company}, NEW p \in Providers
      PROVE  Seekers(e, p)' \subseteq Seekers(e, p)
  <2> SUFFICES ASSUME NEW v \in Workers, Seeks(v, e, p)'
               PROVE  Seeks(v, e, p)
    BY DEF Seekers
  <2>1. v # w
    BY DEF Seeks, At, Idle
  <2> QED
    BY <1>1, <2>1 DEF Seeks, Reachable, At, Lead, OwnFacts
<1>3. clock' \in Nat /\ clock <= clock'
  BY <1>1 DEF AttemptsInv, AcquisitionTypeOK, LedgerTypeOK
<1> QED
  BY <1>1, <1>2, <1>3, CopiesKept

(* Whoever begins while a copy is fresh knows of it.                       *)
LEMMA BeginKeepsCopies ==
  ASSUME AttemptsInv, OneAttemptPerLead', CopiesAreFew, NEW w \in Workers,
         UNCHANGED deployment, NEW l \in Leads, Begin(w, l)
  PROVE  CopiesAreFew'
<1>1. AcquisitionTypeOK /\ noDomain' = noDomain
  BY DEF AttemptsInv, deployment
<1>2. /\ UNCHANGED <<evidence, clock>>
      /\ \A v \in Workers \ {w} : attempts'[v] = attempts[v]
      /\ attempts'[w] = [pc |-> "consider", lead |-> l, index |-> 1, now |-> clock,
                         facts |-> FreshFacts(evidence, l, clock), toCall |-> {},
                         answers |-> << >>]
  BY <1>1, BeginMoves DEF Begin, ledgerVars
<1>3. /\ attempts'[w].lead = l /\ attempts'[w].facts = FreshFacts(evidence, l, clock)
      /\ attempts'[w].toCall = {} /\ ~At(w, "idle")'
  BY <1>2 DEF At
<1> SUFFICES ASSUME NEW e \in Leads \cup {Company}, NEW f \in AllFields, NEW p \in Providers
             PROVE  /\ IsFiniteSet(Copies(e, f, p))'
                    /\ Cardinality(FreshCopies(e, f, p)') + Cardinality(Seekers(e, p)')
                         <= MostCopies(e)
  BY DEF CopiesAreFew, MostCopies
<1>4. /\ IsFiniteSet(Copies(e, f, p))
      /\ Cardinality(FreshCopies(e, f, p)) + Cardinality(Seekers(e, p)) <= MostCopies(e)
  BY DEF CopiesAreFew
<1>5. Copies(e, f, p)' = Copies(e, f, p) /\ FreshCopies(e, f, p)' = FreshCopies(e, f, p)
  BY <1>2 DEF Copies, FreshCopies
<1>6. \A v \in Workers \ {w} : Seeks(v, e, p)' => Seeks(v, e, p)
  BY <1>1, <1>2 DEF Seeks, Reachable, At, Lead, OwnFacts
<1>7. /\ IsFiniteSet(Seekers(e, p)) /\ IsFiniteSet(Seekers(e, p)')
      /\ Cardinality(Seekers(e, p)) \in Nat /\ Cardinality(Seekers(e, p)') \in Nat
      /\ Cardinality(Seekers(e, p)') <= Cardinality(Workers)
  <2>1. Seekers(e, p) \subseteq Workers /\ Seekers(e, p)' \subseteq Workers
    BY DEF Seekers
  <2> QED
    BY <2>1, SmallerSet, WorkersAssumption
<1>8. Cardinality(FreshCopies(e, f, p)) \in Nat /\ MostCopies(e) \in Nat
  <2>1. FreshCopies(e, f, p) \subseteq Copies(e, f, p)
    BY DEF FreshCopies
  <2> QED
    BY <1>4, <2>1, SmallerSet, Amounts
<1>9. CASE ~Seeks(w, e, p)'
  <2>1. Seekers(e, p)' \subseteq Seekers(e, p)
    BY <1>6, <1>9 DEF Seekers
  <2>2. Cardinality(Seekers(e, p)') <= Cardinality(Seekers(e, p))
    BY <1>7, <2>1, SmallerSet
  <2> QED
    BY <1>4, <1>5, <1>7, <1>8, <2>2
<1>10. CASE Seeks(w, e, p)'
  <2>1. Reachable(l, p) /\ EntityOf(l, p) = e /\ OwnFacts(w, p)' = {}
    BY <1>1, <1>3, <1>10 DEF Seeks, Lead, Reachable
  <2>2. FreshCopies(e, f, p) = {}
    <3> SUFFICES ASSUME NEW r \in FreshCopies(e, f, p) PROVE FALSE
      OBVIOUS
    <3>1. r \in evidence /\ r.entity = e /\ r.field = f /\ r.source = p /\ r.at + FieldTTL[r.field] > clock
      BY DEF FreshCopies, Copies
    <3>2. e \in Refs(l)
      BY <2>1 DEF EntityOf, Reachable, Refs
    <3>3. [entity |-> e, field |-> f, source |-> p] \in attempts'[w].facts
      BY <1>3, <3>1, <3>2 DEF FreshFacts
    <3>4. [entity |-> e, field |-> f, source |-> p] \in OwnFacts(w, p)'
      BY <1>3, <2>1, <3>3 DEF OwnFacts, Lead
    <3> QED
      BY <2>1, <3>4
  <2>3. Cardinality(Seekers(e, p)') <= MostCopies(e)
    <3>1. CASE e = Company
      BY <1>7, <3>1 DEF MostCopies
    <3>2. CASE e # Company
      <4>1. Seekers(e, p)' \subseteq {w}
        <5> SUFFICES ASSUME NEW v \in Workers, Seeks(v, e, p)' PROVE v = w
          BY DEF Seekers
        <5>1. ~At(v, "idle")' /\ EntityOf(Lead(v)', p) = e
          BY DEF Seeks
        <5>2. Lead(v)' = e /\ Lead(w)' = e
          BY <1>3, <2>1, <3>2, <5>1 DEF EntityOf, Lead
        <5> QED
          BY <1>3, <5>1, <5>2 DEF OneAttemptPerLead
      <4>2. IsFiniteSet({w}) /\ Cardinality({w}) = 1
        BY FS_Singleton
      <4>3. Cardinality(Seekers(e, p)') <= Cardinality({w})
        BY <4>1, <4>2, SmallerSet
      <4>4. MostCopies(e) = 1
        BY <3>2 DEF MostCopies
      <4> QED
        BY <4>2, <4>3, <4>4
    <3> QED
      BY <3>1, <3>2
  <2>4. Cardinality(FreshCopies(e, f, p)') = 0
    BY <1>5, <2>2, FS_EmptySet
  <2> QED
    BY <1>4, <1>5, <1>7, <1>8, <2>3, <2>4
<1> QED
  BY <1>9, <1>10

(* Whoever stores a copy that is fresh seeks no other.                     *)
LEMMA StoreKeepsCopies ==
  ASSUME AttemptsInv, CopiesAreFew, NEW w \in Workers, UNCHANGED deployment,
         StoreEvidence(w)
  PROVE  CopiesAreFew'
<1> DEFINE q == NextToRecord(w)
           fields == attempts[w].answers[q].fields
           id == <<Lead(w), tries[Lead(w)]>>
           new == EntityOf(Lead(w), q)
           row(f) == [entity |-> new, field |-> f, source |-> q,
                      at |-> attempts[w].now, id |-> id]
<1>1. AcquisitionTypeOK /\ (~At(w, "idle") => AttemptSound(w)) /\ noDomain' = noDomain
  BY DEF AttemptsInv, deployment
<1>2. /\ At(w, "store") /\ ~At(w, "idle")
      /\ q \in attempts[w].toCall /\ q \in Providers
      /\ PutMany(Lead(w), q, fields, attempts[w].now, id)
      /\ \A v \in Workers \ {w} : attempts'[v] = attempts[v]
      /\ attempts'[w] = [pc |-> RestPc(w, q), lead |-> Lead(w), index |-> attempts[w].index,
                         now |-> attempts[w].now,
                         facts |-> FreshFacts(evidence', Lead(w), attempts[w].now),
                         toCall |-> Rest(w, q), answers |-> RestAnswers(w, q)]
  BY <1>1, StoreMoves
<1>3. /\ attempts'[w].lead = Lead(w) /\ attempts'[w].now = attempts[w].now
      /\ attempts'[w].facts = FreshFacts(evidence', Lead(w), attempts[w].now)
      /\ attempts'[w].toCall = attempts[w].toCall \ {q}
  BY <1>2 DEF Rest
<1>4. evidence' = evidence \cup {row(f) : f \in fields} /\ clock' = clock
  BY <1>2 DEF PutMany, StoreEvidence
<1>5. /\ attempts[w].now \in Nat /\ clock \in Nat /\ attempts[w].now <= clock
      /\ attempts[w].facts \subseteq FreshFacts(evidence, Lead(w), attempts[w].now)
      /\ Reachable(Lead(w), q)
  BY <1>1, <1>2, AttemptFields DEF AttemptSound, AcquisitionTypeOK, LedgerTypeOK
<1>6. attempts[w].facts \subseteq attempts'[w].facts
  BY <1>3, <1>4, <1>5, FreshMonotone
<1> HIDE DEF q, fields, id
<1> SUFFICES ASSUME NEW e \in Leads \cup {Company}, NEW f \in AllFields, NEW p \in Providers
             PROVE  /\ IsFiniteSet(Copies(e, f, p))'
                    /\ Cardinality(FreshCopies(e, f, p)') + Cardinality(Seekers(e, p)')
                         <= MostCopies(e)
  BY DEF CopiesAreFew, MostCopies
<1>7. /\ IsFiniteSet(Copies(e, f, p))
      /\ Cardinality(FreshCopies(e, f, p)) + Cardinality(Seekers(e, p)) <= MostCopies(e)
  BY DEF CopiesAreFew
<1>8. Seekers(e, p)' \subseteq Seekers(e, p)
  <2> SUFFICES ASSUME NEW v \in Workers, Seeks(v, e, p)'
               PROVE  Seeks(v, e, p)
    BY DEF Seekers
  <2>1. CASE v = w
    <3>1. Lead(w)' = Lead(w) /\ OwnFacts(w, p) \subseteq OwnFacts(w, p)'
      BY <1>3, <1>6 DEF Lead, OwnFacts
    <3> QED
      BY <1>1, <1>2, <1>3, <2>1, <3>1 DEF Seeks, Reachable
  <2>2. CASE v # w
    BY <1>1, <1>2, <2>2 DEF Seeks, Reachable, At, Lead, OwnFacts
  <2> QED
    BY <2>1, <2>2
<1>9. /\ IsFiniteSet(Seekers(e, p))
      /\ Cardinality(Seekers(e, p)) \in Nat /\ Cardinality(Seekers(e, p)') \in Nat
      /\ Cardinality(Seekers(e, p)') <= Cardinality(Seekers(e, p))
  <2>1. IsFiniteSet(Seekers(e, p))
    BY WorkersAssumption, FS_Subset DEF Seekers
  <2> QED
    BY <1>8, <2>1, SmallerSet
<1>10. /\ IsFiniteSet(FreshCopies(e, f, p)) /\ Cardinality(FreshCopies(e, f, p)) \in Nat
       /\ MostCopies(e) \in Nat
  <2>1. FreshCopies(e, f, p) \subseteq Copies(e, f, p)
    BY DEF FreshCopies
  <2> QED
    BY <1>7, <2>1, SmallerSet, Amounts
<1>11. CASE ~(e = new /\ p = q /\ f \in fields)
  <2>1. Copies(e, f, p)' = Copies(e, f, p)
    BY <1>4, <1>11 DEF Copies
  <2>2. FreshCopies(e, f, p)' = FreshCopies(e, f, p)
    BY <1>4, <2>1 DEF FreshCopies
  <2> QED
    BY <1>7, <1>9, <1>10, <2>1, <2>2
<1>12. CASE e = new /\ p = q /\ f \in fields
  <2>1. Copies(e, f, p)' = Copies(e, f, p) \cup {row(f)}
    BY <1>4, <1>12 DEF Copies
  <2>2. IsFiniteSet(Copies(e, f, p)')
    BY <1>7, <2>1, FS_AddElement
  <2>3. FieldTTL[f] \in Nat
    BY FieldTTLAssumption DEF AllFields
  <2>4. CASE attempts[w].now + FieldTTL[f] > clock
    <3>1. FreshCopies(e, f, p)' = FreshCopies(e, f, p) \cup {row(f)}
      BY <1>4, <2>1, <2>4 DEF FreshCopies
    <3>2. /\ Cardinality(FreshCopies(e, f, p)') \in Nat
          /\ Cardinality(FreshCopies(e, f, p)') <= Cardinality(FreshCopies(e, f, p)) + 1
      <4>1. /\ IsFiniteSet(FreshCopies(e, f, p)')
            /\ Cardinality(FreshCopies(e, f, p)') =
                 IF row(f) \in FreshCopies(e, f, p) THEN Cardinality(FreshCopies(e, f, p))
                 ELSE Cardinality(FreshCopies(e, f, p)) + 1
        BY <1>10, <3>1, FS_AddElement
      <4> QED
        BY <1>10, <4>1
    <3>3. w \in Seekers(e, p)
      BY <1>2, <1>5, <1>12 DEF Seekers, Seeks
    <3>4. w \notin Seekers(e, p)'
      <4>1. row(f) \in evidence' /\ row(f).at + FieldTTL[row(f).field] > attempts[w].now
        BY <1>4, <1>5, <1>12, <2>3, <2>4
      <4>2. new \in Refs(Lead(w))
        BY <1>5 DEF EntityOf, Reachable, Refs
      <4>3. [entity |-> new, field |-> f, source |-> q] \in attempts'[w].facts
        BY <1>1, <1>3, <4>1, <4>2 DEF FreshFacts, Refs
      <4>4. [entity |-> new, field |-> f, source |-> q] \in OwnFacts(w, p)'
        BY <1>3, <1>12, <4>3 DEF OwnFacts, Lead
      <4> QED
        BY <1>3, <1>12, <4>4 DEF Seekers, Seeks
    <3>5. Cardinality(Seekers(e, p)') <= Cardinality(Seekers(e, p)) - 1
      <4>1. Seekers(e, p)' \subseteq Seekers(e, p) \ {w}
        BY <1>8, <3>4
      <4>2. /\ IsFiniteSet(Seekers(e, p) \ {w})
            /\ Cardinality(Seekers(e, p) \ {w}) = Cardinality(Seekers(e, p)) - 1
        BY <1>9, <3>3, FS_RemoveElement
      <4>3. Cardinality(Seekers(e, p)') <= Cardinality(Seekers(e, p) \ {w})
        BY <4>1, <4>2, SmallerSet
      <4> QED
        BY <4>2, <4>3
    <3> QED
      BY <1>7, <1>9, <1>10, <2>2, <3>2, <3>5
  <2>5. CASE ~(attempts[w].now + FieldTTL[f] > clock)
    <3>1. FreshCopies(e, f, p)' = FreshCopies(e, f, p)
      BY <1>4, <2>1, <2>5 DEF FreshCopies
    <3> QED
      BY <1>7, <1>9, <1>10, <2>2, <3>1
  <2> QED
    BY <2>4, <2>5
<1> QED
  BY <1>11, <1>12

-----------------------------------------------------------------------------
(* Money: cardinalities of sets of units.                                  *)
LEMMA DisjointParts ==
  ASSUME NEW S, NEW T, NEW U, IsFiniteSet(U), S \cup T \subseteq U, S \cap T = {}
  PROVE  /\ IsFiniteSet(S) /\ IsFiniteSet(T)
         /\ Cardinality(S) \in Nat /\ Cardinality(T) \in Nat /\ Cardinality(U) \in Nat
         /\ Cardinality(S) + Cardinality(T) <= Cardinality(U)
<1>1. /\ IsFiniteSet(S) /\ IsFiniteSet(T)
      /\ Cardinality(S) \in Nat /\ Cardinality(T) \in Nat /\ Cardinality(U) \in Nat
  BY SmallerSet
<1>2. Cardinality(S \cup T) = Cardinality(S) + Cardinality(T) - Cardinality(S \cap T)
  BY <1>1, FS_Union
<1>3. Cardinality(S \cap T) = 0
  BY FS_EmptySet
<1>4. Cardinality(S \cup T) <= Cardinality(U) /\ Cardinality(S \cup T) \in Nat
  BY SmallerSet
<1> QED
  BY <1>1, <1>2, <1>3, <1>4

LEMMA PairedWith ==
  ASSUME NEW x, NEW S, IsFiniteSet(S)
  PROVE  IsFiniteSet({x} \X S) /\ Cardinality({x} \X S) = Cardinality(S)
<1>1. IsFiniteSet({x}) /\ Cardinality({x}) = 1
  BY FS_Singleton
<1>2. IsFiniteSet({x} \X S) /\ Cardinality({x} \X S) = Cardinality({x}) * Cardinality(S)
  BY <1>1, FS_Product
<1>3. Cardinality(S) \in Nat
  BY FS_CardinalityType
<1> QED
  BY <1>1, <1>2, <1>3

LEMMA RowFields ==
  ASSUME AcquisitionTypeOK, NEW k \in Key
  PROVE  /\ ledger[k].cost \in 0 .. MaxCost /\ ledger[k].at \in Nat
         /\ ledger[k] = NoCall => ledger[k].cost = 0
BY MaxCostAssumption DEF AcquisitionTypeOK, LedgerTypeOK, Call, NoCall

LEMMA FlightFacts ==
  ASSUME AcquisitionTypeOK
  PROVE  /\ \A v \in Workers :
              /\ Unrecorded(v) \subseteq Providers
              /\ Flight(v) \subseteq Providers \X (1 .. MaxCost)
              /\ IsFiniteSet(Flight(v)) /\ Cardinality(Flight(v)) \in Nat
         /\ IsFiniteSet(InFlight) /\ Cardinality(InFlight) \in Nat
<1>1. IsFiniteSet(1 .. MaxCost)
  BY FS_Interval, MaxCostAssumption
<1>2. IsFiniteSet(Providers \X (1 .. MaxCost))
  BY <1>1, ProvidersAssumption, FS_Product
<1>3. IsFiniteSet(Workers \X (Providers \X (1 .. MaxCost)))
  BY <1>2, WorkersAssumption, FS_Product
<1>4. ASSUME NEW v \in Workers
      PROVE  /\ Unrecorded(v) \subseteq Providers
             /\ Flight(v) \subseteq Providers \X (1 .. MaxCost)
             /\ IsFiniteSet(Flight(v)) /\ Cardinality(Flight(v)) \in Nat
  <2>1. Unrecorded(v) \subseteq Providers
    BY AttemptFields DEF Unrecorded
  <2>2. Flight(v) \subseteq Providers \X (1 .. MaxCost)
    BY <2>1 DEF Flight
  <2> QED
    BY <1>2, <2>1, <2>2, SmallerSet
<1>5. InFlight \subseteq Workers \X (Providers \X (1 .. MaxCost))
  BY DEF InFlight
<1> QED
  BY <1>3, <1>4, <1>5, SmallerSet

LEMMA UnitsFacts ==
  ASSUME IsFiniteSet(Units(Key)), NEW K \in SUBSET Key
  PROVE  /\ Units(K) \subseteq Units(Key)
         /\ IsFiniteSet(Units(K)) /\ Spent(K) = Cardinality(Units(K)) /\ Spent(K) \in Nat
<1>1. Units(K) \subseteq Units(Key) /\ Spent(K) = Cardinality(Units(K))
  BY DEF Units, Spent
<1> QED
  BY <1>1, SmallerSet

LEMMA PeriodFacts ==
  \A c \in Periods : /\ c[1] \in Nat \ {0} /\ c[2] \in Nat
                     /\ c = <<Day, DailyCap>> \/ c = <<Month, MonthCap>>
BY CapsAssumption, PeriodsAssumption DEF Periods

LeadKeys(l) == {k \in Key : k[1] = l}
PeriodKeys(length) == {k \in Key : SamePeriod(k, length)}
OthersInFlight(w) == {x \in InFlight : x[1] # w}

(* What the other workers have in flight.                                  *)
LEMMA OthersBound ==
  ASSUME AttemptsInv, NEW w \in Workers
  PROVE  /\ IsFiniteSet(OthersInFlight(w))
         /\ Cardinality(OthersInFlight(w)) \in Nat
         /\ Cardinality(OthersInFlight(w)) <= (Cardinality(Workers) - 1) * MaxInFlight
<1> DEFINE Others == Workers \ {w}
<1>0. AcquisitionTypeOK
  BY DEF AttemptsInv
<1>1. IsFiniteSet(Others) /\ Cardinality(Others) = Cardinality(Workers) - 1
  BY WorkersAssumption, FS_RemoveElement
<1>2. IsFiniteSet(1 .. MaxCost) /\ Cardinality(1 .. MaxCost) = MaxCost
  <2>1. Cardinality(1 .. MaxCost) = IF 1 > MaxCost THEN 0 ELSE MaxCost - 1 + 1
    BY MaxCostAssumption, FS_Interval
  <2> QED
    BY <2>1, MaxCostAssumption, FS_Interval
<1>3. /\ IsFiniteSet(Providers \X (1 .. MaxCost))
      /\ Cardinality(Providers \X (1 .. MaxCost)) = Cardinality(Providers) * MaxCost
  BY <1>2, ProvidersAssumption, FS_Product
<1>4. /\ Cardinality(Workers) \in Nat /\ Cardinality(Providers) \in Nat /\ MaxCost \in Nat
  BY Amounts
<1>5. IsFiniteSet(OthersInFlight(w)) /\ Cardinality(OthersInFlight(w)) \in Nat
  <2>1. OthersInFlight(w) \subseteq InFlight /\ IsFiniteSet(InFlight)
    BY <1>0, FlightFacts DEF OthersInFlight
  <2> QED
    BY <2>1, SmallerSet
<1>6. CASE strategy = "optimized"
  <2> DEFINE T == Others \X (1 .. MaxCost)
             f == [x \in OthersInFlight(w) |-> <<x[1], x[2][2]>>]
  <2>1. IsFiniteSet(T) /\ Cardinality(T) = (Cardinality(Workers) - 1) * MaxCost
    <3> HIDE DEF Others
    <3> QED
      BY <1>1, <1>2, FS_Product
  <2>2. ASSUME NEW x \in OthersInFlight(w)
        PROVE  /\ x = <<x[1], <<x[2][1], x[2][2]>>>> /\ x[1] \in Others
               /\ x[2][1] \in attempts[x[1]].toCall /\ x[2][2] \in 1 .. MaxCost
               /\ ~At(x[1], "idle")
    <3>1. x \in Workers \X (Providers \X (1 .. MaxCost)) /\ x[2] \in Flight(x[1]) /\ x[1] # w
      BY DEF OthersInFlight, InFlight
    <3>2. x[2][1] \in Unrecorded(x[1])
      BY <3>1 DEF Flight
    <3>3. x[2][1] \in attempts[x[1]].toCall /\ ~At(x[1], "idle")
      BY <3>2 DEF Unrecorded
    <3> QED
      BY <3>1, <3>3
  <2>3. \A x, y \in OthersInFlight(w) : f[x] = f[y] => x = y
    <3> SUFFICES ASSUME NEW x \in OthersInFlight(w), NEW y \in OthersInFlight(w), f[x] = f[y]
                 PROVE  x = y
      OBVIOUS
    <3>1. x[1] = y[1] /\ x[2][2] = y[2][2]
      OBVIOUS
    <3>2. AttemptSound(x[1])
      BY <2>2 DEF AttemptsInv
    <3>3. x[2][1] = y[2][1]
      BY <1>6, <2>2, <3>1, <3>2 DEF AttemptSound
    <3> QED
      BY <2>2, <3>1, <3>3
  <2>4. f \in Injection(OthersInFlight(w), T)
    <3>1. f \in [OthersInFlight(w) -> T]
      BY <2>2
    <3> QED
      BY <2>3, <3>1 DEF Injection, IsInjective
  <2>5. Cardinality(OthersInFlight(w)) <= Cardinality(T)
    <3> HIDE DEF f, T
    <3> QED
      BY <2>1, <2>4, FS_Injection
  <2> QED
    BY <1>5, <1>6, <2>1, <2>5 DEF MaxInFlight
<1>7. CASE strategy # "optimized"
  <2> DEFINE T == Others \X (Providers \X (1 .. MaxCost))
  <2>1. /\ IsFiniteSet(T)
        /\ Cardinality(T) = (Cardinality(Workers) - 1) * (Cardinality(Providers) * MaxCost)
    BY <1>1, <1>3, FS_Product
  <2>2. OthersInFlight(w) \subseteq T
    BY DEF OthersInFlight, InFlight
  <2>3. Cardinality(OthersInFlight(w)) <= Cardinality(T)
    BY <2>1, <2>2, SmallerSet
  <2>4. MaxInFlight = Cardinality(Providers) * MaxCost
    BY <1>4, <1>7 DEF MaxInFlight
  <2> QED
    BY <1>5, <2>1, <2>3, <2>4
<1> QED
  BY <1>5, <1>6, <1>7

(* No step but a recorded answer charges anything: the row of a cache hit  *)
(* is free.                                                                *)
FreeRows ==
  \A k \in Key : \/ ledger'[k] = ledger[k]
                 \/ /\ ledger[k].cost = 0 /\ ledger'[k].cost = 0
                    /\ ledger'[k].at = clock

LEMMA FreeRowsCostNothing ==
  ASSUME AttemptsInv, MoneyInv, FreeRows, UNCHANGED clock
  PROVE  /\ LedgerIsPast'
         /\ \A K \in SUBSET Key : Spent(K)' <= Spent(K) /\ Spent(K)' \in Nat
         /\ \A length \in Nat \ {0} : /\ PeriodSpent(length)' <= PeriodSpent(length)
                                      /\ PeriodSpent(length)' \in Nat
                                      /\ PeriodSpent(length) \in Nat
<1>0. AcquisitionTypeOK /\ IsFiniteSet(Units(Key)) /\ clock \in Nat
  BY DEF AttemptsInv, MoneyInv, LedgerIsPast, AcquisitionTypeOK, LedgerTypeOK
<1>1. ASSUME NEW k \in Key, NEW n \in 1 .. MaxCost, n <= ledger'[k].cost
      PROVE  ledger'[k] = ledger[k]
  BY <1>1, MaxCostAssumption DEF FreeRows
<1>2. ASSUME NEW K \in SUBSET Key
      PROVE  Spent(K)' <= Spent(K) /\ Spent(K)' \in Nat
  <2>1. Units(K)' \subseteq Units(K)
    BY <1>1 DEF Units
  <2>2. IsFiniteSet(Units(K)) /\ Spent(K) = Cardinality(Units(K))
    BY <1>0, UnitsFacts
  <2>3. Spent(K)' = Cardinality(Units(K)')
    BY DEF Spent, Units
  <2> QED
    BY <2>1, <2>2, <2>3, SmallerSet
<1>3. LedgerIsPast'
  <2>1. Units(Key)' \subseteq Units(Key)
    BY <1>1 DEF Units
  <2>2. IsFiniteSet(Units(Key)')
    BY <1>0, <2>1, SmallerSet
  <2>3. \A k \in Key : ledger'[k].at <= clock'
    BY <1>0 DEF MoneyInv, LedgerIsPast, FreeRows
  <2> QED
    BY <2>2, <2>3 DEF LedgerIsPast, Key
<1>4. ASSUME NEW length \in Nat \ {0}
      PROVE  /\ PeriodSpent(length)' <= PeriodSpent(length)
             /\ PeriodSpent(length)' \in Nat /\ PeriodSpent(length) \in Nat
  <2> DEFINE U == {u \in PeriodKeys(length) \X (1 .. MaxCost) : u[2] <= ledger[u[1]].cost}
  <2>1. U' \subseteq U
    BY <1>1 DEF PeriodKeys, SamePeriod
  <2>2. PeriodSpent(length) = Cardinality(U) /\ PeriodSpent(length)' = Cardinality(U')
    BY DEF PeriodSpent, Spent, PeriodKeys
  <2>3. U \subseteq Units(Key)
    BY DEF Units, PeriodKeys
  <2>4. IsFiniteSet(U)
    BY <1>0, <2>3, SmallerSet
  <2> HIDE DEF U
  <2> QED
    BY <2>1, <2>2, <2>4, SmallerSet
<1> QED
  BY <1>2, <1>3, <1>4

LEMMA MoneyKept ==
  ASSUME AttemptsInv, MoneyInv, FreeRows, UNCHANGED clock, UNCHANGED deployment,
         \A v \in Workers : /\ Flight(v)' \subseteq Flight(v)
                            /\ ~At(v, "idle")' =>
                                 \/ ~At(v, "idle") /\ Lead(v)' = Lead(v)
                                 \/ Flight(v)' = {} /\ Lead(v)' \in Leads
  PROVE  MoneyInv'
<1>0. AcquisitionTypeOK
  BY DEF AttemptsInv
<1>1. LedgerIsPast'
  BY FreeRowsCostNothing
<1>2. \A l \in Leads : LeadSpent(l)' <= LeadSpent(l) /\ LeadSpent(l)' \in Nat
                       /\ LeadSpent(l) <= LeadCap /\ LeadSpent(l) \in Nat
  <2> TAKE l \in Leads
  <2>1. LeadKeys(l) \in SUBSET Key
    BY DEF LeadKeys
  <2>2. Spent(LeadKeys(l))' <= Spent(LeadKeys(l)) /\ Spent(LeadKeys(l))' \in Nat
    <3> DEFINE K == LeadKeys(l)
    <3>1. Spent(K)' <= Spent(K) /\ Spent(K)' \in Nat
      <4>1. \A S \in SUBSET Key : Spent(S)' <= Spent(S) /\ Spent(S)' \in Nat
        BY FreeRowsCostNothing
      <4>2. LeadKeys(l)' = LeadKeys(l)
        BY DEF LeadKeys, Key
      <4> QED
        BY <2>1, <4>1, <4>2
    <3> QED
      BY <3>1
  <2>3. LeadSpent(l) = Spent(LeadKeys(l)) /\ LeadSpent(l)' = Spent(LeadKeys(l))'
    BY DEF LeadSpent, LeadKeys
  <2>4. Spent(LeadKeys(l)) \in Nat
    BY <2>1, UnitsFacts DEF MoneyInv, LedgerIsPast
  <2> QED
    BY <2>2, <2>3, <2>4 DEF MoneyInv, LeadFits
<1>3. \A v \in Workers : /\ Cardinality(Flight(v)') <= Cardinality(Flight(v))
                         /\ Cardinality(Flight(v)') \in Nat /\ Cardinality(Flight(v)) \in Nat
  <2> TAKE v \in Workers
  <2>1. IsFiniteSet(Flight(v)) /\ Flight(v)' \subseteq Flight(v)
    BY <1>0, FlightFacts
  <2> QED
    BY <2>1, SmallerSet
<1>4. LeadFits'
  <2>1. \A l \in Leads : LeadSpent(l)' <= LeadCap
    BY <1>2, CapsAssumption
  <2>2. ASSUME NEW v \in Workers, ~At(v, "idle")'
        PROVE  LeadSpent(Lead(v))' + Cardinality(Flight(v))' <= LeadCap
    <3>1. CASE ~At(v, "idle") /\ Lead(v)' = Lead(v)
      <4>1. LeadSpent(Lead(v)) + Cardinality(Flight(v)) <= LeadCap /\ Lead(v) \in Leads
        BY <1>0, <3>1, AttemptFields DEF MoneyInv, LeadFits
      <4>2. LeadSpent(Lead(v))' <= LeadSpent(Lead(v)) /\ LeadSpent(Lead(v))' \in Nat
            /\ LeadSpent(Lead(v)) \in Nat
        <5>1. \A l \in Leads : l = Lead(v) => LeadSpent(Lead(v))' = LeadSpent(l)'
          BY <3>1 DEF LeadSpent, Spent
        <5> QED
          BY <1>2, <4>1, <5>1
      <4> QED
        BY <1>3, <4>1, <4>2, CapsAssumption
    <3>2. CASE Flight(v)' = {} /\ Lead(v)' \in Leads
      <4>1. Cardinality(Flight(v))' = 0
        BY <3>2, FS_EmptySet
      <4>2. LeadSpent(Lead(v))' <= LeadCap /\ LeadSpent(Lead(v))' \in Nat
        <5>1. \A l \in Leads : l = Lead(v)' => LeadSpent(Lead(v))' = LeadSpent(l)'
          BY DEF LeadSpent, Spent
        <5> QED
          BY <1>2, <2>1, <3>2, <5>1
      <4> QED
        BY <4>1, <4>2, CapsAssumption
    <3> QED
      BY <2>2, <3>1, <3>2
  <2> QED
    BY <2>1, <2>2 DEF LeadFits
<1>5. /\ Cardinality(InFlight)' <= Cardinality(InFlight)
      /\ Cardinality(InFlight)' \in Nat /\ Cardinality(InFlight) \in Nat
  <2>1. InFlight' \subseteq InFlight
    BY DEF InFlight
  <2>2. IsFiniteSet(InFlight)
    BY <1>0, FlightFacts
  <2> QED
    BY <2>1, <2>2, SmallerSet
<1>6. MaxInFlight' = MaxInFlight /\ (Cardinality(Workers) - 1) * MaxInFlight \in Nat
  BY Amounts DEF MaxInFlight, deployment
<1>7. PeriodFits'
  <2> SUFFICES ASSUME NEW c \in Periods
               PROVE  /\ \A v \in Workers : Cardinality(Flight(v))' <= c[2]
                      /\ PeriodSpent(c[1])' + Cardinality(InFlight)'
                           <= c[2] + (Cardinality(Workers) - 1) * MaxInFlight
    BY <1>6 DEF PeriodFits, Periods
  <2>1. c[1] \in Nat \ {0} /\ c[2] \in Nat
    BY PeriodFacts
  <2>2. /\ \A v \in Workers : Cardinality(Flight(v)) <= c[2]
        /\ PeriodSpent(c[1]) + Cardinality(InFlight)
             <= c[2] + (Cardinality(Workers) - 1) * MaxInFlight
    BY DEF MoneyInv, PeriodFits
  <2>3. /\ PeriodSpent(c[1])' <= PeriodSpent(c[1]) /\ PeriodSpent(c[1])' \in Nat
        /\ PeriodSpent(c[1]) \in Nat
    BY <2>1, FreeRowsCostNothing
  <2> QED
    BY <1>3, <1>5, <1>6, <2>1, <2>2, <2>3
<1> QED
  BY <1>1, <1>4, <1>7 DEF MoneyInv

LEMMA SameFlight ==
  ASSUME NEW v, attempts'[v] = attempts[v]
  PROVE  /\ Flight(v)' = Flight(v) /\ Lead(v)' = Lead(v)
         /\ At(v, "idle")' <=> At(v, "idle")
<1>1. ToRecord(v)' = ToRecord(v)
  BY DEF ToRecord
<1>2. NextToRecord(v)' = NextToRecord(v)
  BY <1>1 DEF NextToRecord
<1>3. /\ At(v, "idle")' <=> At(v, "idle")
      /\ At(v, "store")' <=> At(v, "store")
      /\ Lead(v)' = Lead(v)
  BY DEF At, Lead
<1>4. Unrecorded(v)' = Unrecorded(v)
  BY <1>2, <1>3 DEF Unrecorded
<1> QED
  BY <1>3, <1>4 DEF Flight

(* A call that is admitted counts in full from then on.                    *)
LEMMA AdmitKeepsMoney ==
  ASSUME AttemptsInv, MoneyInv, NEW w \in Workers, UNCHANGED deployment, Admit(w)
  PROVE  MoneyInv'
<1> DEFINE p == Current(w)
           estimate == Cost[p] + Cardinality(Flight(w))
           units == {p} \X (1 .. Cost[p])
<1>0. AcquisitionTypeOK /\ (~At(w, "idle") => AttemptSound(w))
  BY DEF AttemptsInv
<1>1. /\ At(w, "guard") /\ ~At(w, "idle") /\ Permitted(Lead(w), Estimate(w, p))
      /\ \E pc \in {"consider", "call"} :
           Moved(w, pc, attempts[w].index + 1, attempts[w].toCall \cup {p}, attempts[w].answers)
  BY <1>0, AdmitMoves
<1>2. UNCHANGED <<ledger, clock>> /\ strategy' = strategy
  BY DEF Admit, ledgerVars, deployment
<1>3. /\ \A v \in Workers \ {w} : attempts'[v] = attempts[v]
      /\ attempts'[w].lead = Lead(w) /\ attempts'[w].toCall = attempts[w].toCall \cup {p}
      /\ ~At(w, "idle")' /\ ~At(w, "store")'
  BY <1>1 DEF Moved, At
<1>4. p \in Providers /\ Cost[p] \in 0 .. MaxCost /\ MaxCost \in Nat /\ Lead(w) \in Leads
  <2>1. attempts[w].index \in 1 .. Len(Order)
    BY <1>0, <1>1, AttemptFields, OrderFields DEF AttemptSound
  <2> QED
    BY <1>0, <1>1, <2>1, AttemptFields, OrderFields, Amounts DEF Current
<1>5. Unrecorded(w) = attempts[w].toCall /\ Unrecorded(w)' = attempts[w].toCall \cup {p}
  BY <1>1, <1>3 DEF Unrecorded, At
<1>6. PendingUnits(w) = Flight(w) /\ Estimate(w, p) = estimate
  BY <1>1, <1>5 DEF PendingUnits, Flight, Estimate
<1>7. Flight(w)' \subseteq Flight(w) \cup units
  BY <1>4, <1>5 DEF Flight
<1>8. /\ IsFiniteSet(Flight(w)) /\ Cardinality(Flight(w)) \in Nat
      /\ IsFiniteSet(InFlight)
  BY <1>0, FlightFacts
<1> HIDE DEF p
<1>9. IsFiniteSet(units) /\ Cardinality(units) = Cost[p] /\ Cost[p] \in Nat
  <2>1. Cost[p] \in Nat
    BY <1>4
  <2> QED
    BY <2>1, UnitsOfOne
<1>10. /\ IsFiniteSet(Flight(w)') /\ Cardinality(Flight(w)') \in Nat
       /\ Cardinality(Flight(w)') <= estimate /\ estimate \in Nat
  <2> HIDE DEF units
  <2>1. /\ IsFiniteSet(Flight(w) \cup units) /\ Cardinality(Flight(w) \cup units) \in Nat
        /\ Cardinality(Flight(w) \cup units) <= Cardinality(Flight(w)) + Cardinality(units)
    BY <1>8, <1>9, UnionIsNoLarger
  <2>2. /\ IsFiniteSet(Flight(w)') /\ Cardinality(Flight(w)') \in Nat
        /\ Cardinality(Flight(w)') <= Cardinality(Flight(w) \cup units)
    BY <1>7, <2>1, SmallerSet
  <2> QED
    BY <1>8, <1>9, <2>1, <2>2
<1> HIDE DEF estimate, units
<1>11. /\ LeadSpent(Lead(w)) + estimate <= LeadCap
       /\ \A c \in Periods : PeriodSpent(c[1]) + estimate <= c[2]
  BY <1>1, <1>6 DEF Permitted, Periods, PeriodSpent, DailySpent, MonthSpent
<1>12. /\ LedgerIsPast'
       /\ \A l \in Leads : LeadSpent(l)' = LeadSpent(l)
       /\ \A length : PeriodSpent(length)' = PeriodSpent(length)
  BY <1>2 DEF MoneyInv, LedgerIsPast, LeadSpent, PeriodSpent, Spent, SamePeriod, Units, Key
<1>13. \A v \in Workers \ {w} : /\ Flight(v)' = Flight(v) /\ Lead(v)' = Lead(v)
                                /\ At(v, "idle")' <=> At(v, "idle")
  BY <1>3, SameFlight
<1>14. LeadFits'
  <2>1. \A l \in Leads : LeadSpent(l)' <= LeadCap
    BY <1>12 DEF MoneyInv, LeadFits
  <2>2. ASSUME NEW v \in Workers, ~At(v, "idle")'
        PROVE  LeadSpent(Lead(v))' + Cardinality(Flight(v))' <= LeadCap
    <3>0. \A l \in Leads : l = Lead(v)' => LeadSpent(Lead(v))' = LeadSpent(l)'
      BY DEF LeadSpent, Spent
    <3>1. CASE v # w
      <4>1. ~At(v, "idle") /\ Lead(v) \in Leads /\ Lead(v)' = Lead(v)
        BY <1>0, <1>13, <2>2, <3>1, AttemptFields
      <4>2. LeadSpent(Lead(v)) + Cardinality(Flight(v)) <= LeadCap
        BY <4>1 DEF MoneyInv, LeadFits
      <4>3. LeadSpent(Lead(v))' = LeadSpent(Lead(v))
        BY <1>12, <3>0, <4>1
      <4> QED
        BY <1>13, <3>1, <4>2, <4>3
    <3>2. CASE v = w
      <4>1. Lead(w)' = Lead(w)
        BY <1>3 DEF Lead
      <4>2. LeadSpent(Lead(v))' = LeadSpent(Lead(w))
        BY <1>4, <1>12, <3>0, <3>2, <4>1
      <4>3. LeadSpent(Lead(w)) \in Nat
        <5>1. LeadKeys(Lead(w)) \in SUBSET Key
          BY DEF LeadKeys
        <5> QED
          BY <5>1, UnitsFacts DEF MoneyInv, LedgerIsPast, LeadSpent, LeadKeys
      <4> QED
        BY <1>10, <1>11, <3>2, <4>2, <4>3, CapsAssumption
    <3> QED
      BY <3>1, <3>2
  <2> QED
    BY <2>1, <2>2 DEF LeadFits
<1>15. MaxInFlight' = MaxInFlight /\ (Cardinality(Workers) - 1) * MaxInFlight \in Nat
  BY <1>2, Amounts DEF MaxInFlight
<1>16. /\ Cardinality(InFlight') \in Nat
       /\ Cardinality(InFlight') <= estimate + (Cardinality(Workers) - 1) * MaxInFlight
  <2> DEFINE mine == {w} \X Flight(w)'
  <2>1. IsFiniteSet(mine) /\ Cardinality(mine) = Cardinality(Flight(w)')
    BY <1>10, PairedWith
  <2>2. InFlight' \subseteq OthersInFlight(w) \cup mine
    BY <1>13 DEF InFlight, OthersInFlight
  <2> HIDE DEF mine
  <2>3. /\ IsFiniteSet(OthersInFlight(w)) /\ Cardinality(OthersInFlight(w)) \in Nat
        /\ Cardinality(OthersInFlight(w)) <= (Cardinality(Workers) - 1) * MaxInFlight
    BY OthersBound
  <2>4. /\ IsFiniteSet(OthersInFlight(w) \cup mine)
        /\ Cardinality(OthersInFlight(w) \cup mine) \in Nat
        /\ Cardinality(OthersInFlight(w) \cup mine)
             <= Cardinality(OthersInFlight(w)) + Cardinality(mine)
    BY <2>1, <2>3, UnionIsNoLarger
  <2>5. /\ Cardinality(InFlight') \in Nat
        /\ Cardinality(InFlight') <= Cardinality(OthersInFlight(w) \cup mine)
    BY <2>2, <2>4, SmallerSet
  <2> QED
    BY <1>10, <1>15, <2>1, <2>3, <2>4, <2>5
<1>17. PeriodFits'
  <2> SUFFICES ASSUME NEW c \in Periods
               PROVE  /\ \A v \in Workers : Cardinality(Flight(v))' <= c[2]
                      /\ PeriodSpent(c[1])' + Cardinality(InFlight)'
                           <= c[2] + (Cardinality(Workers) - 1) * MaxInFlight
    BY <1>15 DEF PeriodFits, Periods
  <2>1. c[1] \in Nat \ {0} /\ c[2] \in Nat
    BY PeriodFacts
  <2>2. PeriodSpent(c[1]) \in Nat
    <3>1. PeriodKeys(c[1]) \in SUBSET Key
      BY DEF PeriodKeys
    <3> QED
      BY <3>1, UnitsFacts DEF MoneyInv, LedgerIsPast, PeriodSpent, PeriodKeys
  <2>3. PeriodSpent(c[1]) + estimate <= c[2] /\ PeriodSpent(c[1])' = PeriodSpent(c[1])
    BY <1>11, <1>12
  <2>4. \A v \in Workers : Cardinality(Flight(v))' <= c[2]
    <3> TAKE v \in Workers
    <3>1. CASE v = w
      BY <1>10, <2>1, <2>2, <2>3, <3>1
    <3>2. CASE v # w
      BY <1>13, <3>2 DEF MoneyInv, PeriodFits
    <3> QED
      BY <3>1, <3>2
  <2> QED
    BY <1>10, <1>15, <1>16, <2>1, <2>2, <2>3, <2>4
<1> QED
  BY <1>12, <1>14, <1>17 DEF MoneyInv

(* An answer is charged no more than its call was counted for.             *)
LEMMA RecordMovesFlight ==
  ASSUME AttemptsInv, NEW w \in Workers, RecordCall(w)
  PROVE  LET p == NextToRecord(w) IN
         /\ ~At(w, "idle") /\ ~At(w, "idle")' /\ Lead(w)' = Lead(w)
         /\ \A v \in Workers \ {w} : attempts'[v] = attempts[v]
         /\ Flight(w)' \cup ({p} \X (1 .. Cost[p])) \subseteq Flight(w)
         /\ Flight(w)' \cap ({p} \X (1 .. Cost[p])) = {}
<1> DEFINE p == NextToRecord(w)
<1>0. AcquisitionTypeOK /\ (~At(w, "idle") => AttemptSound(w))
  BY DEF AttemptsInv
<1>1. /\ At(w, "record") /\ ~At(w, "idle") /\ p \in attempts[w].toCall /\ p \in Providers
      /\ \/ Moved(w, "store", attempts[w].index, attempts[w].toCall, attempts[w].answers)
         \/ Moved(w, RestPc(w, p), attempts[w].index, Rest(w, p), RestAnswers(w, p))
  BY <1>0, RecordCallMoves
<1>2. Cost[p] \in 0 .. MaxCost /\ MaxCost \in Nat
  BY <1>1, Amounts
<1>3. Unrecorded(w) = attempts[w].toCall
  BY <1>1 DEF Unrecorded, At
<1>4. /\ Unrecorded(w)' = attempts[w].toCall \ {p}
      /\ ~At(w, "idle")' /\ Lead(w)' = Lead(w)
      /\ \A v \in Workers \ {w} : attempts'[v] = attempts[v]
  <2>1. CASE Moved(w, "store", attempts[w].index, attempts[w].toCall, attempts[w].answers)
    <3>1. /\ attempts'[w].pc = "store" /\ attempts'[w].toCall = attempts[w].toCall
          /\ attempts'[w].answers = attempts[w].answers /\ attempts'[w].lead = Lead(w)
          /\ \A v \in Workers \ {w} : attempts'[v] = attempts[v]
      BY <2>1 DEF Moved
    <3>2. ToRecord(w)' = ToRecord(w)
      BY <3>1 DEF ToRecord
    <3>3. NextToRecord(w)' = p
      BY <3>2 DEF NextToRecord
    <3> HIDE DEF p
    <3> QED
      BY <3>1, <3>3 DEF Unrecorded, At, Lead
  <2>2. CASE Moved(w, RestPc(w, p), attempts[w].index, Rest(w, p), RestAnswers(w, p))
    <3>1. /\ attempts'[w].pc = RestPc(w, p) /\ attempts'[w].toCall = Rest(w, p)
          /\ attempts'[w].lead = Lead(w)
          /\ \A v \in Workers \ {w} : attempts'[v] = attempts[v]
      BY <2>2 DEF Moved
    <3>2. RestPc(w, p) \in {"consider", "record"}
      BY DEF RestPc
    <3> QED
      BY <3>1, <3>2 DEF Unrecorded, At, Lead, Rest
  <2> QED
    BY <1>1, <2>1, <2>2
<1> HIDE DEF p
<1>5. Flight(w)' \cup ({p} \X (1 .. Cost[p])) \subseteq Flight(w)
  BY <1>1, <1>2, <1>3, <1>4 DEF Flight
<1>6. Flight(w)' \cap ({p} \X (1 .. Cost[p])) = {}
  BY <1>4 DEF Flight
<1> QED
  BY <1>1, <1>4, <1>5, <1>6 DEF p

LEMMA RecordChargesOnce ==
  ASSUME AttemptsInv, MoneyInv, NEW w \in Workers, RecordCall(w)
  PROVE  LET p == NextToRecord(w) IN
         /\ LedgerIsPast' /\ p \in Providers
         /\ \A l \in Leads : /\ LeadSpent(l) \in Nat /\ LeadSpent(l)' \in Nat
                             /\ LeadSpent(l)' <= LeadSpent(l) + Cost[p]
                             /\ l # Lead(w) => LeadSpent(l)' <= LeadSpent(l)
         /\ \A length \in Nat \ {0} :
              /\ PeriodSpent(length) \in Nat /\ PeriodSpent(length)' \in Nat
              /\ PeriodSpent(length)' <= PeriodSpent(length) + Cost[p]
<1> DEFINE p == NextToRecord(w)
           r == attempts[w].answers[p]
           k == <<Lead(w), p>>
           new == {k} \X (1 .. Cost[p])
<1>0. /\ AcquisitionTypeOK /\ (~At(w, "idle") => AttemptSound(w))
      /\ IsFiniteSet(Units(Key)) /\ clock \in Nat
  BY DEF AttemptsInv, MoneyInv, LedgerIsPast, AcquisitionTypeOK, LedgerTypeOK
<1>1. /\ ~At(w, "idle") /\ p \in Providers /\ r \in Result /\ r.cost <= Cost[p]
      /\ RecordProviderCall(<<Lead(w), p>>, r.outcome, r.cost, FALSE)
  BY <1>0, RecordCallMoves
<1>2. Lead(w) \in Leads /\ k \in Key /\ clock' = clock
  BY <1>0, <1>1, AttemptFields DEF Key, RecordCall
<1>3. Cost[p] \in Nat /\ MaxCost \in Nat /\ r.cost \in Nat
  BY <1>1, Amounts DEF Result
<1> HIDE DEF p, r
<1>4. ledger' = [ledger EXCEPT ![k] =
                   IF @ = NoCall THEN [outcome |-> r.outcome, cost |-> r.cost,
                                       cacheHit |-> FALSE, at |-> clock] ELSE @]
  BY <1>1 DEF RecordProviderCall
<1>5. /\ \A j \in Key : j # k => ledger'[j] = ledger[j]
      /\ ledger'[k] = ledger[k] \/ (ledger'[k].cost = r.cost /\ ledger'[k].at = clock)
  BY <1>2, <1>4 DEF AcquisitionTypeOK, LedgerTypeOK, AttemptsInv
<1> HIDE DEF k
<1>6. IsFiniteSet(new) /\ Cardinality(new) = Cost[p]
  BY <1>3, UnitsOfOne
<1>7. ASSUME NEW j \in Key, NEW n \in 1 .. MaxCost, n <= ledger'[j].cost
      PROVE  \/ ledger'[j] = ledger[j]
             \/ j = k /\ n \in 1 .. Cost[p]
  BY <1>1, <1>3, <1>5, <1>7
<1>8. ASSUME NEW U, NEW V, U \subseteq V \cup new, V \subseteq Units(Key)
      PROVE  /\ Cardinality(U) \in Nat /\ Cardinality(V) \in Nat /\ IsFiniteSet(U)
             /\ Cardinality(U) <= Cardinality(V) + Cost[p]
  <2> HIDE DEF new
  <2>1. IsFiniteSet(V) /\ Cardinality(V) \in Nat
    BY <1>0, <1>8, SmallerSet
  <2>2. /\ IsFiniteSet(V \cup new) /\ Cardinality(V \cup new) \in Nat
        /\ Cardinality(V \cup new) <= Cardinality(V) + Cardinality(new)
    BY <1>6, <2>1, UnionIsNoLarger
  <2>3. /\ IsFiniteSet(U) /\ Cardinality(U) \in Nat
        /\ Cardinality(U) <= Cardinality(V \cup new)
    BY <1>8, <2>2, SmallerSet
  <2> QED
    BY <1>3, <1>6, <2>1, <2>2, <2>3
<1>9. LedgerIsPast'
  <2>1. Units(Key)' \subseteq Units(Key) \cup new
    BY <1>7 DEF Units, Key
  <2>2. IsFiniteSet(Units(Key)')
    BY <1>8, <2>1
  <2>3. \A j \in Key : ledger'[j].at <= clock'
    BY <1>0, <1>2, <1>5 DEF MoneyInv, LedgerIsPast
  <2> QED
    BY <2>2, <2>3 DEF LedgerIsPast, Key
<1>10. ASSUME NEW l \in Leads
       PROVE  /\ LeadSpent(l) \in Nat /\ LeadSpent(l)' \in Nat
              /\ LeadSpent(l)' <= LeadSpent(l) + Cost[p]
              /\ l # Lead(w) => LeadSpent(l)' <= LeadSpent(l)
  <2> DEFINE U == {u \in LeadKeys(l) \X (1 .. MaxCost) : u[2] <= ledger[u[1]].cost}
  <2>1. U' \subseteq U \cup new
    BY <1>7 DEF LeadKeys, Key
  <2>2. U \subseteq Units(Key)
    BY DEF LeadKeys, Units
  <2>3. LeadSpent(l) = Cardinality(U) /\ LeadSpent(l)' = Cardinality(U')
    BY DEF LeadSpent, Spent, LeadKeys
  <2>4. l # Lead(w) => U' \subseteq U
    <3>1. k[1] = Lead(w)
      BY DEF k
    <3> QED
      BY <1>7, <3>1 DEF LeadKeys, Key
  <2> HIDE DEF U
  <2>5. l # Lead(w) => Cardinality(U') <= Cardinality(U)
    <3>1. IsFiniteSet(U)
      BY <1>0, <2>2, SmallerSet
    <3> QED
      BY <2>4, <3>1, SmallerSet
  <2>6. /\ Cardinality(U') \in Nat /\ Cardinality(U) \in Nat
        /\ Cardinality(U') <= Cardinality(U) + Cost[p]
    BY <1>8, <2>1, <2>2
  <2> QED
    BY <2>3, <2>5, <2>6
<1>11. ASSUME NEW length \in Nat \ {0}
       PROVE  /\ PeriodSpent(length) \in Nat /\ PeriodSpent(length)' \in Nat
              /\ PeriodSpent(length)' <= PeriodSpent(length) + Cost[p]
  <2> DEFINE U == {u \in PeriodKeys(length) \X (1 .. MaxCost) : u[2] <= ledger[u[1]].cost}
  <2>1. U' \subseteq U \cup new
    BY <1>2, <1>7 DEF PeriodKeys, SamePeriod, Key
  <2>2. U \subseteq Units(Key)
    BY DEF PeriodKeys, Units
  <2>3. PeriodSpent(length) = Cardinality(U) /\ PeriodSpent(length)' = Cardinality(U')
    BY DEF PeriodSpent, Spent, PeriodKeys
  <2> HIDE DEF U
  <2>4. /\ Cardinality(U') \in Nat /\ Cardinality(U) \in Nat
        /\ Cardinality(U') <= Cardinality(U) + Cost[p]
    BY <1>8, <2>1, <2>2
  <2> QED
    BY <2>3, <2>4
<1> QED
  BY <1>1, <1>9, <1>10, <1>11 DEF p

LEMMA RecordKeepsMoney ==
  ASSUME AttemptsInv, MoneyInv, OneAttemptPerLead, NEW w \in Workers,
         UNCHANGED deployment, RecordCall(w)
  PROVE  MoneyInv'
<1> DEFINE p == NextToRecord(w)
           cost == Cost[p]
           unit == {p} \X (1 .. cost)
<1>0. AcquisitionTypeOK
  BY DEF AttemptsInv
<1>1. /\ ~At(w, "idle") /\ ~At(w, "idle")' /\ Lead(w)' = Lead(w)
      /\ \A v \in Workers \ {w} : attempts'[v] = attempts[v]
      /\ Flight(w)' \cup unit \subseteq Flight(w) /\ Flight(w)' \cap unit = {}
  BY RecordMovesFlight
<1>2. /\ LedgerIsPast' /\ p \in Providers
      /\ \A l \in Leads : /\ LeadSpent(l) \in Nat /\ LeadSpent(l)' \in Nat
                          /\ LeadSpent(l)' <= LeadSpent(l) + cost
                          /\ l # Lead(w) => LeadSpent(l)' <= LeadSpent(l)
      /\ \A length \in Nat \ {0} :
           /\ PeriodSpent(length) \in Nat /\ PeriodSpent(length)' \in Nat
           /\ PeriodSpent(length)' <= PeriodSpent(length) + cost
  BY RecordChargesOnce
<1>3. cost \in Nat /\ Lead(w) \in Leads
  BY <1>0, <1>1, <1>2, Amounts, AttemptFields
<1> HIDE DEF p, cost
<1>4. IsFiniteSet(unit) /\ Cardinality(unit) = cost
  <2>1. \A x : IsFiniteSet({x} \X (1 .. cost)) /\ Cardinality({x} \X (1 .. cost)) = cost
    BY <1>3, UnitsOfOne
  <2> QED
    BY <2>1
<1>5. /\ IsFiniteSet(Flight(w)) /\ IsFiniteSet(InFlight)
  BY <1>0, FlightFacts
<1> HIDE DEF unit
<1>6. /\ Cardinality(Flight(w)') \in Nat /\ Cardinality(Flight(w)) \in Nat
      /\ Cardinality(Flight(w)') + cost <= Cardinality(Flight(w))
  BY <1>1, <1>4, <1>5, DisjointParts
<1>7. \A v \in Workers \ {w} : /\ Flight(v)' = Flight(v) /\ Lead(v)' = Lead(v)
                               /\ At(v, "idle")' <=> At(v, "idle")
  BY <1>1, SameFlight
<1>8. /\ Cardinality(InFlight') \in Nat /\ Cardinality(InFlight) \in Nat
      /\ Cardinality(InFlight') + cost <= Cardinality(InFlight)
  <2> DEFINE mine == {w} \X unit
  <2>1. IsFiniteSet(mine) /\ Cardinality(mine) = cost
    BY <1>4, PairedWith
  <2>2. InFlight' \subseteq InFlight
    BY <1>1, <1>7 DEF InFlight
  <2>3. mine \subseteq InFlight
    <3>1. Flight(w) \subseteq Providers \X (1 .. MaxCost)
      BY <1>0, FlightFacts
    <3> QED
      BY <1>1, <3>1 DEF InFlight
  <2>4. InFlight' \cap mine = {}
    BY <1>1 DEF InFlight
  <2> HIDE DEF mine
  <2>5. InFlight' \cup mine \subseteq InFlight
    BY <2>2, <2>3
  <2> QED
    BY <1>5, <2>1, <2>4, <2>5, DisjointParts
<1>9. LeadFits'
  <2>1. ASSUME NEW v \in Workers, ~At(v, "idle")'
        PROVE  LeadSpent(Lead(v))' + Cardinality(Flight(v))' <= LeadCap
    <3>0. \A l \in Leads : l = Lead(v)' => LeadSpent(Lead(v))' = LeadSpent(l)'
      BY DEF LeadSpent, Spent
    <3>1. CASE v = w
      <4>1. LeadSpent(Lead(w)) + Cardinality(Flight(w)) <= LeadCap
        BY <1>1 DEF MoneyInv, LeadFits
      <4>2. LeadSpent(Lead(v))' = LeadSpent(Lead(w))' /\ LeadSpent(Lead(w))' \in Nat
            /\ LeadSpent(Lead(w))' <= LeadSpent(Lead(w)) + cost /\ LeadSpent(Lead(w)) \in Nat
        <5>1. \A l \in Leads : l = Lead(w) => LeadSpent(Lead(w))' = LeadSpent(l)'
          BY <1>1 DEF LeadSpent, Spent
        <5> QED
          BY <1>2, <1>3, <3>1, <5>1
      <4> QED
        BY <1>3, <1>6, <3>1, <4>1, <4>2, CapsAssumption
    <3>2. CASE v # w
      <4>1. ~At(v, "idle") /\ Lead(v) \in Leads /\ Lead(v)' = Lead(v)
        BY <1>0, <1>7, <2>1, <3>2, AttemptFields
      <4>2. Lead(v) # Lead(w)
        BY <1>1, <3>2, <4>1 DEF OneAttemptPerLead
      <4>3. LeadSpent(Lead(v)) + Cardinality(Flight(v)) <= LeadCap
        BY <4>1 DEF MoneyInv, LeadFits
      <4>4. /\ LeadSpent(Lead(v))' <= LeadSpent(Lead(v))
            /\ LeadSpent(Lead(v))' \in Nat /\ LeadSpent(Lead(v)) \in Nat
        BY <1>2, <3>0, <4>1, <4>2
      <4>5. Cardinality(Flight(v)) \in Nat
        BY <1>0, FlightFacts
      <4> QED
        BY <1>7, <3>2, <4>3, <4>4, <4>5, CapsAssumption
    <3> QED
      BY <3>1, <3>2
  <2>2. ASSUME NEW l \in Leads PROVE LeadSpent(l)' <= LeadCap
    <3>1. CASE l = Lead(w)
      <4>1. LeadSpent(Lead(w)) + Cardinality(Flight(w)) <= LeadCap
        BY <1>1 DEF MoneyInv, LeadFits
      <4> QED
        BY <1>2, <1>3, <1>6, <3>1, <4>1, CapsAssumption
    <3>2. CASE l # Lead(w)
      <4>1. LeadSpent(l) <= LeadCap
        BY DEF MoneyInv, LeadFits
      <4> QED
        BY <1>2, <3>2, <4>1, CapsAssumption
    <3> QED
      BY <3>1, <3>2
  <2> QED
    BY <2>1, <2>2 DEF LeadFits
<1>10. MaxInFlight' = MaxInFlight /\ (Cardinality(Workers) - 1) * MaxInFlight \in Nat
  BY Amounts DEF MaxInFlight, deployment
<1>11. PeriodFits'
  <2> SUFFICES ASSUME NEW c \in Periods
               PROVE  /\ \A v \in Workers : Cardinality(Flight(v))' <= c[2]
                      /\ PeriodSpent(c[1])' + Cardinality(InFlight)'
                           <= c[2] + (Cardinality(Workers) - 1) * MaxInFlight
    BY <1>10 DEF PeriodFits, Periods
  <2>1. c[1] \in Nat \ {0} /\ c[2] \in Nat
    BY PeriodFacts
  <2>2. /\ \A v \in Workers : Cardinality(Flight(v)) <= c[2]
        /\ PeriodSpent(c[1]) + Cardinality(InFlight)
             <= c[2] + (Cardinality(Workers) - 1) * MaxInFlight
    BY DEF MoneyInv, PeriodFits
  <2>3. \A v \in Workers : Cardinality(Flight(v))' <= c[2]
    <3> TAKE v \in Workers
    <3>1. CASE v = w
      BY <1>3, <1>6, <2>1, <2>2, <3>1
    <3>2. CASE v # w
      BY <1>7, <2>2, <3>2
    <3> QED
      BY <3>1, <3>2
  <2> QED
    BY <1>2, <1>3, <1>8, <1>10, <2>1, <2>2, <2>3
<1> QED
  BY <1>2, <1>9, <1>11 DEF MoneyInv

(* At the end of a period the calls in flight are charged to the next one. *)
LEMMA PeriodsFollow ==
  ASSUME NEW d \in Nat \ {0}, NEW a \in Nat, NEW b \in Nat, a <= b
  PROVE  a \div d \in Nat /\ b \div d \in Nat /\ a \div d <= b \div d
OBVIOUS

LEMMA TickKeepsMoney ==
  ASSUME AttemptsInv, MoneyInv, UNCHANGED deployment, Tick
  PROVE  MoneyInv'
<1>0. AcquisitionTypeOK
  BY DEF AttemptsInv
<1>1. /\ UNCHANGED <<ledger, evidence, attempts>> /\ clock' = clock + 1 /\ clock \in Nat
      /\ strategy' = strategy
  BY <1>0 DEF Tick, AcquisitionTypeOK, LedgerTypeOK, deployment
<1>2. LedgerIsPast'
  <2>1. \A k \in Key : ledger[k].at \in Nat /\ ledger[k].at <= clock
    BY <1>0, RowFields DEF MoneyInv, LedgerIsPast
  <2> QED
    BY <1>1, <2>1 DEF MoneyInv, LedgerIsPast, Units, Key
<1>3. \A v \in Workers : /\ Flight(v)' = Flight(v) /\ Lead(v)' = Lead(v)
                         /\ At(v, "idle")' <=> At(v, "idle")
  BY <1>1, SameFlight
<1>4. InFlight' = InFlight
  BY <1>3 DEF InFlight
<1>5. LeadFits'
  <2>1. \A l \in Leads : LeadSpent(l)' = LeadSpent(l)
    BY <1>1 DEF LeadSpent, Spent, Key
  <2>2. \A v \in Workers : LeadSpent(Lead(v))' = LeadSpent(Lead(v))
    BY <1>1, <1>3 DEF LeadSpent, Spent, Key
  <2> QED
    BY <1>3, <2>1, <2>2 DEF MoneyInv, LeadFits
<1>6. MaxInFlight' = MaxInFlight /\ (Cardinality(Workers) - 1) * MaxInFlight \in Nat
  BY <1>1, Amounts DEF MaxInFlight
<1>7. PeriodFits'
  <2> SUFFICES ASSUME NEW c \in Periods
               PROVE  /\ \A v \in Workers : Cardinality(Flight(v))' <= c[2]
                      /\ PeriodSpent(c[1])' + Cardinality(InFlight)'
                           <= c[2] + (Cardinality(Workers) - 1) * MaxInFlight
    BY <1>6 DEF PeriodFits, Periods
  <2> DEFINE length == c[1]
  <2>1. length \in Nat \ {0} /\ c[2] \in Nat
    BY PeriodFacts
  <2>2. /\ \A v \in Workers : Cardinality(Flight(v)) <= c[2]
        /\ PeriodSpent(length) + Cardinality(InFlight)
             <= c[2] + (Cardinality(Workers) - 1) * MaxInFlight
    BY DEF MoneyInv, PeriodFits
  <2>3. CASE clock' \div length = clock \div length
    <3>1. PeriodSpent(length)' = PeriodSpent(length)
      BY <1>1, <2>3 DEF PeriodSpent, Spent, SamePeriod, Key
    <3> QED
      BY <1>3, <1>4, <2>2, <3>1
  <2>4. CASE clock' \div length # clock \div length
    <3> DEFINE U == {u \in PeriodKeys(length) \X (1 .. MaxCost) : u[2] <= ledger[u[1]].cost}
    <3>1. \A k \in Key : ledger'[k].at \div length # clock' \div length
      <4> TAKE k \in Key
      <4>1. ledger[k].at \in Nat /\ ledger[k].at <= clock
        BY <1>0, RowFields DEF MoneyInv, LedgerIsPast
      <4>2. /\ ledger[k].at \div length \in Nat /\ clock \div length \in Nat
            /\ ledger[k].at \div length <= clock \div length
        BY <1>1, <2>1, <4>1, PeriodsFollow
      <4>3. clock' \div length \in Nat /\ clock \div length <= clock' \div length
        BY <1>1, <2>1, PeriodsFollow
      <4> HIDE DEF length
      <4>4. ledger[k].at \div length # clock' \div length
        BY <2>4, <4>2, <4>3
      <4> QED
        BY <1>1, <4>4
    <3>2. PeriodKeys(length)' = {}
      BY <3>1 DEF PeriodKeys, SamePeriod, Key
    <3>3. PeriodSpent(length)' = 0
      <4>1. {u \in PeriodKeys(length) \X (1 .. MaxCost) : u[2] <= ledger[u[1]].cost}' = {}
        BY <3>2
      <4>2. PeriodSpent(length)' = Cardinality({})
        BY <4>1 DEF PeriodSpent, Spent, PeriodKeys
      <4> QED
        BY <4>2, FS_EmptySet
    <3>4. PICK w \in Workers : TRUE
      BY WorkersAssumption
    <3>5. /\ IsFiniteSet(OthersInFlight(w)) /\ Cardinality(OthersInFlight(w)) \in Nat
          /\ Cardinality(OthersInFlight(w)) <= (Cardinality(Workers) - 1) * MaxInFlight
      BY OthersBound
    <3>6. /\ IsFiniteSet({w} \X Flight(w)) /\ Cardinality({w} \X Flight(w)) = Cardinality(Flight(w))
          /\ Cardinality(Flight(w)) \in Nat
      BY <1>0, FlightFacts, PairedWith
    <3>7. InFlight \subseteq OthersInFlight(w) \cup ({w} \X Flight(w))
      BY DEF InFlight, OthersInFlight
    <3>8. /\ IsFiniteSet(OthersInFlight(w) \cup ({w} \X Flight(w)))
          /\ Cardinality(OthersInFlight(w) \cup ({w} \X Flight(w))) \in Nat
          /\ Cardinality(OthersInFlight(w) \cup ({w} \X Flight(w)))
               <= Cardinality(OthersInFlight(w)) + Cardinality({w} \X Flight(w))
      BY <3>5, <3>6, UnionIsNoLarger
    <3>9. /\ Cardinality(InFlight) \in Nat
          /\ Cardinality(InFlight) <= Cardinality(OthersInFlight(w) \cup ({w} \X Flight(w)))
      BY <3>7, <3>8, SmallerSet
    <3>10. Cardinality(InFlight) <= c[2] + (Cardinality(Workers) - 1) * MaxInFlight
      BY <1>6, <2>1, <2>2, <3>5, <3>6, <3>8, <3>9
    <3> QED
      BY <1>3, <1>4, <2>2, <3>3, <3>9, <3>10
  <2> QED
    BY <2>3, <2>4
<1> QED
  BY <1>2, <1>5, <1>7 DEF MoneyInv

LEMMA WalkKeepsMoney ==
  ASSUME AttemptsInv, MoneyInv, NEW w \in Workers, UNCHANGED deployment,
         \/ PassOver(w) \/ ServeFromRecord(w) \/ PassGuards(w) \/ Refuse(w)
         \/ StopEarly(w) \/ CallAdmitted(w)
         \/ \E answers \in AnswersTo(w) : Fetch(w, answers)
  PROVE  MoneyInv'
<1>0. AcquisitionTypeOK
  BY DEF AttemptsInv
<1>1. /\ ~At(w, "idle") /\ ~At(w, "store")
      /\ \E pc \in {"consider", "guard", "call", "record"} : \E index, answers :
           Moved(w, pc, index, attempts[w].toCall, answers)
  BY WalkKeepsAttempts
<1>2. /\ ~At(w, "idle")' /\ ~At(w, "store")' /\ Lead(w)' = Lead(w)
      /\ attempts'[w].toCall = attempts[w].toCall
      /\ \A v \in Workers \ {w} : attempts'[v] = attempts[v]
  BY <1>1 DEF Moved, At, Lead
<1>3. Flight(w)' = Flight(w)
  BY <1>1, <1>2 DEF Flight, Unrecorded
<1>4. UNCHANGED clock
  BY DEF PassOver, ServeFromRecord, PassGuards, Refuse, StopEarly, CallAdmitted, Fetch, ledgerVars
<1>5. FreeRows
  <2>1. CASE ServeFromRecord(w)
    <3>1. PICK o \in {"success", "miss", "definite"} :
            RecordProviderCall(<<Lead(w), Current(w)>>, o, 0, TRUE)
      BY <2>1 DEF ServeFromRecord
    <3>2. ledger' = [ledger EXCEPT ![<<Lead(w), Current(w)>>] =
                       IF @ = NoCall THEN [outcome |-> o, cost |-> 0,
                                           cacheHit |-> TRUE, at |-> clock] ELSE @]
      BY <3>1 DEF RecordProviderCall
    <3>3. \A k \in Key : ledger[k] = NoCall => ledger[k].cost = 0
      BY <1>0, RowFields
    <3>4. \A k \in Key : \/ ledger'[k] = ledger[k]
                         \/ /\ ledger[k] = NoCall
                            /\ ledger'[k] = [outcome |-> o, cost |-> 0,
                                             cacheHit |-> TRUE, at |-> clock]
      BY <1>0, <3>2 DEF AcquisitionTypeOK, LedgerTypeOK
    <3> QED
      BY <3>3, <3>4 DEF FreeRows
  <2>2. CASE ~ServeFromRecord(w)
    BY <2>2 DEF PassOver, PassGuards, Refuse, StopEarly, CallAdmitted, Fetch, ledgerVars, FreeRows
  <2> QED
    BY <2>1, <2>2
<1>6. \A v \in Workers \ {w} : /\ Flight(v)' = Flight(v) /\ Lead(v)' = Lead(v)
                               /\ At(v, "idle")' <=> At(v, "idle")
  BY <1>2, SameFlight
<1>7. \A v \in Workers : /\ Flight(v)' \subseteq Flight(v)
                         /\ ~At(v, "idle")' =>
                              \/ ~At(v, "idle") /\ Lead(v)' = Lead(v)
                              \/ Flight(v)' = {} /\ Lead(v)' \in Leads
  BY <1>1, <1>2, <1>3, <1>6
<1> QED
  BY <1>4, <1>5, <1>7, MoneyKept

LEMMA StoreKeepsMoney ==
  ASSUME AttemptsInv, MoneyInv, NEW w \in Workers, UNCHANGED deployment, StoreEvidence(w)
  PROVE  MoneyInv'
<1> DEFINE p == NextToRecord(w)
<1>0. AcquisitionTypeOK /\ (~At(w, "idle") => AttemptSound(w))
  BY DEF AttemptsInv
<1>1. /\ At(w, "store") /\ ~At(w, "idle")
      /\ \A v \in Workers \ {w} : attempts'[v] = attempts[v]
      /\ attempts'[w] = [pc |-> RestPc(w, p), lead |-> Lead(w), index |-> attempts[w].index,
                         now |-> attempts[w].now,
                         facts |-> FreshFacts(evidence', Lead(w), attempts[w].now),
                         toCall |-> Rest(w, p), answers |-> RestAnswers(w, p)]
  BY <1>0, StoreMoves
<1>2. RestPc(w, p) \in {"consider", "record"}
  BY DEF RestPc
<1>3. /\ ~At(w, "idle")' /\ ~At(w, "store")' /\ Lead(w)' = Lead(w)
      /\ attempts'[w].toCall = attempts[w].toCall \ {p}
  BY <1>1, <1>2 DEF At, Lead, Rest
<1>4. Flight(w)' = Flight(w)
  BY <1>1, <1>3 DEF Flight, Unrecorded
<1>5. UNCHANGED clock /\ FreeRows
  BY DEF StoreEvidence, FreeRows
<1>6. \A v \in Workers \ {w} : /\ Flight(v)' = Flight(v) /\ Lead(v)' = Lead(v)
                               /\ At(v, "idle")' <=> At(v, "idle")
  BY <1>1, SameFlight
<1>7. \A v \in Workers : /\ Flight(v)' \subseteq Flight(v)
                         /\ ~At(v, "idle")' =>
                              \/ ~At(v, "idle") /\ Lead(v)' = Lead(v)
                              \/ Flight(v)' = {} /\ Lead(v)' \in Leads
  BY <1>1, <1>3, <1>4, <1>6
<1> QED
  BY <1>5, <1>7, MoneyKept

LEMMA BeginOrEndKeepsMoney ==
  ASSUME AttemptsInv, MoneyInv, NEW w \in Workers, UNCHANGED deployment,
         (\E l \in Leads : Begin(w, l)) \/ Settle(w) \/ Abandon(w)
  PROVE  MoneyInv'
<1>0. AcquisitionTypeOK
  BY DEF AttemptsInv
<1>1. UNCHANGED clock /\ FreeRows
  BY DEF Begin, Settle, Abandon, ledgerVars, FreeRows
<1>2. /\ \A v \in Workers \ {w} : attempts'[v] = attempts[v]
      /\ \/ At(w, "idle")'
         \/ /\ attempts'[w].pc = "consider" /\ attempts'[w].toCall = {}
            /\ attempts'[w].lead \in Leads
  <2>1. CASE \E l \in Leads : Begin(w, l)
    <3>1. PICK l \in Leads : Begin(w, l)
      BY <2>1
    <3>2. /\ \A v \in Workers \ {w} : attempts'[v] = attempts[v]
          /\ attempts'[w] = [pc |-> "consider", lead |-> l, index |-> 1, now |-> clock,
                             facts |-> FreshFacts(evidence, l, clock), toCall |-> {},
                             answers |-> << >>]
      BY <1>0, <3>1, BeginMoves
    <3> QED
      BY <3>2
  <2>2. CASE Settle(w) \/ Abandon(w)
    <3>1. /\ \A v \in Workers \ {w} : attempts'[v] = attempts[v]
          /\ attempts'[w] = Idle
      BY <1>0, <2>2, EndMoves
    <3> QED
      BY <3>1 DEF At, Idle
  <2> QED
    BY <2>1, <2>2
<1>3. Flight(w)' = {} /\ (~At(w, "idle")' => Lead(w)' \in Leads)
  BY <1>2 DEF Flight, Unrecorded, At, Lead
<1>4. \A v \in Workers \ {w} : /\ Flight(v)' = Flight(v) /\ Lead(v)' = Lead(v)
                               /\ At(v, "idle")' <=> At(v, "idle")
  BY <1>2, SameFlight
<1>5. \A v \in Workers : /\ Flight(v)' \subseteq Flight(v)
                         /\ ~At(v, "idle")' =>
                              \/ ~At(v, "idle") /\ Lead(v)' = Lead(v)
                              \/ Flight(v)' = {} /\ Lead(v)' \in Leads
  BY <1>3, <1>4
<1> QED
  BY <1>1, <1>5, MoneyKept

-----------------------------------------------------------------------------
(* One step per action.                                                    *)
LEMMA AcquisitionBegins == AcquisitionInit => AcquisitionInv
<1> SUFFICES ASSUME AcquisitionInit PROVE AcquisitionInv
  OBVIOUS
<1>1. /\ ledger = [k \in Key |-> NoCall] /\ evidence = {} /\ clock = 0
      /\ noDomain \in SUBSET Leads /\ attempts = [w \in Workers |-> Idle]
      /\ tries = [l \in Leads |-> 0] /\ settled = {}
      /\ missedAt = [k \in Key |-> Never] /\ strategy \in Strategies
  BY DEF AcquisitionInit, LedgerInit
<1>2. AcquisitionTypeOK
  <2>1. LedgerTypeOK
    BY <1>1 DEF LedgerTypeOK
  <2>2. \A w \in Workers : attempts[w] = Idle
    BY <1>1
  <2>3. tries \in [Leads -> 0 .. MaxAttempts]
    BY <1>1, MaxAttemptsAssumption
  <2> QED
    BY <1>1, <2>1, <2>2, <2>3 DEF AcquisitionTypeOK
<1>3. \A w \in Workers : At(w, "idle")
  BY <1>1 DEF At, Idle
<1>4. AttemptsInv /\ OneAttemptPerLead
  BY <1>2, <1>3 DEF AttemptsInv, OneAttemptPerLead
<1>5. Cardinality({}) = 0 /\ IsFiniteSet({})
  BY FS_EmptySet
<1>6. CopiesAreFew
  <2> SUFFICES ASSUME NEW e \in Leads \cup {Company}, NEW f \in AllFields, NEW p \in Providers
               PROVE  /\ IsFiniteSet(Copies(e, f, p))
                      /\ Cardinality(FreshCopies(e, f, p)) + Cardinality(Seekers(e, p))
                           <= MostCopies(e)
    BY DEF CopiesAreFew
  <2>1. Copies(e, f, p) = {} /\ FreshCopies(e, f, p) = {} /\ Seekers(e, p) = {}
    BY <1>1, <1>3 DEF Copies, FreshCopies, Seekers, Seeks
  <2>2. MostCopies(e) \in Nat
    BY Amounts
  <2> QED
    BY <1>5, <2>1, <2>2
<1>7. \A w \in Workers : Flight(w) = {}
  BY <1>3 DEF Flight, Unrecorded
<1>8. InFlight = {}
  BY <1>7 DEF InFlight
<1>9. \A K \in SUBSET Key : Units(K) = {} /\ Spent(K) = 0
  <2> SUFFICES ASSUME NEW K \in SUBSET Key PROVE Units(K) = {} /\ Spent(K) = 0
    OBVIOUS
  <2>1. \A k \in K : ledger[k].cost = 0
    BY <1>1 DEF NoCall
  <2>2. Units(K) = {}
    BY <2>1, MaxCostAssumption DEF Units
  <2> QED
    BY <1>5, <2>2 DEF Spent, Units
<1>10. LedgerIsPast
  <2>1. \A k \in Key : ledger[k].at <= clock
    BY <1>1 DEF NoCall
  <2> QED
    BY <1>5, <1>9, <2>1 DEF LedgerIsPast
<1>11. LeadFits
  <2>1. \A l \in Leads : LeadSpent(l) = 0
    BY <1>9 DEF LeadSpent
  <2> QED
    BY <1>3, <2>1, CapsAssumption DEF LeadFits
<1>12. PeriodFits
  <2> SUFFICES ASSUME NEW c \in Periods
               PROVE  /\ \A w \in Workers : Cardinality(Flight(w)) <= c[2]
                      /\ PeriodSpent(c[1]) + Cardinality(InFlight)
                           <= c[2] + (Cardinality(Workers) - 1) * MaxInFlight
    BY DEF PeriodFits
  <2>1. PeriodSpent(c[1]) = 0
    BY <1>9 DEF PeriodSpent
  <2>2. c[2] \in Nat /\ (Cardinality(Workers) - 1) * MaxInFlight \in Nat
    BY PeriodFacts, Amounts
  <2>3. Cardinality(InFlight) = 0 /\ \A w \in Workers : Cardinality(Flight(w)) = 0
    BY <1>5, <1>7, <1>8
  <2> DEFINE M == (Cardinality(Workers) - 1) * MaxInFlight
  <2>4. M \in Nat
    BY <2>2
  <2> HIDE DEF M
  <2>5. 0 + 0 <= c[2] + M
    BY <2>2, <2>4
  <2>6. PeriodSpent(c[1]) + Cardinality(InFlight) <= c[2] + M
    BY <2>1, <2>3, <2>5
  <2>7. \A w \in Workers : Cardinality(Flight(w)) <= c[2]
    BY <2>2, <2>3
  <2> QED
    BY <2>6, <2>7 DEF M
<1> QED
  BY <1>4, <1>6, <1>10, <1>11, <1>12 DEF AcquisitionInv, MoneyInv

LEMMA AttemptStepInv ==
  ASSUME AcquisitionInv, NEW w \in Workers, AttemptStep(w), UNCHANGED deployment
  PROVE  AcquisitionInv'
<1>0. /\ AttemptsInv /\ OneAttemptPerLead /\ CopiesAreFew /\ MoneyInv
      /\ AcquisitionTypeOK /\ (~At(w, "idle") => AttemptSound(w))
  BY DEF AcquisitionInv, AttemptsInv
<1>1. ASSUME NEW l \in Leads, Begin(w, l)
      PROVE  AcquisitionInv'
  <2>1. AttemptsInv'
    BY <1>0, <1>1, BeginKeepsAttempts
  <2>2. OneAttemptPerLead'
    BY <1>0, <1>1, BeginStaysAlone
  <2>3. CopiesAreFew'
    BY <1>0, <1>1, <2>2, BeginKeepsCopies
  <2>4. MoneyInv'
    BY <1>0, <1>1, BeginOrEndKeepsMoney
  <2> QED
    BY <2>1, <2>2, <2>3, <2>4 DEF AcquisitionInv
<1>2. ASSUME \/ PassOver(w) \/ ServeFromRecord(w) \/ PassGuards(w) \/ Refuse(w)
             \/ StopEarly(w) \/ CallAdmitted(w)
             \/ \E answers \in AnswersTo(w) : Fetch(w, answers)
      PROVE  AcquisitionInv'
  <2>1. /\ AttemptsInv' /\ ~At(w, "idle")
        /\ \E pc \in {"consider", "guard", "call", "record"} : \E index, answers :
             Moved(w, pc, index, attempts[w].toCall, answers)
    BY <1>0, <1>2, WalkKeepsAttempts
  <2>2. PICK pc, index, answers :
          /\ pc \in {"consider", "guard", "call", "record"}
          /\ Moved(w, pc, index, attempts[w].toCall, answers)
    BY <2>1
  <2>3. UNCHANGED <<evidence, clock>>
    BY <1>2 DEF PassOver, ServeFromRecord, PassGuards, Refuse, StopEarly, CallAdmitted, Fetch, ledgerVars
  <2>4. CopiesAreFew'
    BY <1>0, <2>1, <2>2, <2>3, MovedSeeksNoMore
  <2>5. /\ \A v \in Workers \ {w} : attempts'[v] = attempts[v]
        /\ Lead(w)' = Lead(w)
    BY <2>2 DEF Moved, Lead
  <2>6. OneAttemptPerLead'
    BY <1>0, <2>1, <2>5, SameLeadStaysAlone
  <2>7. MoneyInv'
    BY <1>0, <1>2, WalkKeepsMoney
  <2> QED
    BY <2>1, <2>4, <2>6, <2>7 DEF AcquisitionInv
<1>3. ASSUME Admit(w)
      PROVE  AcquisitionInv'
  <2>1. AttemptsInv'
    BY <1>0, <1>3, AdmitKeepsAttempts
  <2>2. /\ At(w, "guard") /\ ~At(w, "idle")
        /\ \E pc \in {"consider", "call"} :
             Moved(w, pc, attempts[w].index + 1, attempts[w].toCall \cup {Current(w)},
                   attempts[w].answers)
    BY <1>0, <1>3, AdmitMoves
  <2>3. PICK pc \in {"consider", "call"} :
          Moved(w, pc, attempts[w].index + 1, attempts[w].toCall \cup {Current(w)},
                attempts[w].answers)
    BY <2>2
  <2>4. UNCHANGED <<evidence, clock>>
    BY <1>3 DEF Admit, ledgerVars
  <2>5. OwnFacts(w, Current(w)) = {}
    BY <1>0, <2>2 DEF AttemptSound
  <2>6. CopiesAreFew'
    BY <1>0, <2>2, <2>3, <2>4, <2>5, MovedSeeksNoMore
  <2>7. /\ \A v \in Workers \ {w} : attempts'[v] = attempts[v]
        /\ Lead(w)' = Lead(w)
    BY <2>3 DEF Moved, Lead
  <2>8. OneAttemptPerLead'
    BY <1>0, <2>2, <2>7, SameLeadStaysAlone
  <2>9. MoneyInv'
    BY <1>0, <1>3, AdmitKeepsMoney
  <2> QED
    BY <2>1, <2>6, <2>8, <2>9 DEF AcquisitionInv
<1>4. ASSUME RecordCall(w)
      PROVE  AcquisitionInv'
  <2> DEFINE p == NextToRecord(w)
  <2>1. AttemptsInv'
    BY <1>0, <1>4, RecordKeepsAttempts
  <2>2. /\ ~At(w, "idle")
        /\ \/ Moved(w, "store", attempts[w].index, attempts[w].toCall, attempts[w].answers)
           \/ Moved(w, RestPc(w, p), attempts[w].index, Rest(w, p), RestAnswers(w, p))
    BY <1>0, <1>4, RecordCallMoves
  <2>3. UNCHANGED <<evidence, clock>>
    BY <1>4 DEF RecordCall
  <2>4. CopiesAreFew'
    <3>1. CASE Moved(w, "store", attempts[w].index, attempts[w].toCall, attempts[w].answers)
      BY <1>0, <2>2, <2>3, <3>1, MovedSeeksNoMore
    <3>2. CASE Moved(w, RestPc(w, p), attempts[w].index, Rest(w, p), RestAnswers(w, p))
      <4>1. Rest(w, p) \subseteq attempts[w].toCall
        BY DEF Rest
      <4> HIDE DEF p
      <4> QED
        BY <1>0, <2>2, <2>3, <3>2, <4>1, MovedSeeksNoMore
    <3> QED
      BY <2>2, <3>1, <3>2
  <2>5. /\ \A v \in Workers \ {w} : attempts'[v] = attempts[v]
        /\ Lead(w)' = Lead(w)
    BY <1>0, <1>4, RecordMovesFlight
  <2>6. OneAttemptPerLead'
    BY <1>0, <2>2, <2>5, SameLeadStaysAlone
  <2>7. MoneyInv'
    BY <1>0, <1>4, RecordKeepsMoney
  <2> QED
    BY <2>1, <2>4, <2>6, <2>7 DEF AcquisitionInv
<1>5. ASSUME StoreEvidence(w)
      PROVE  AcquisitionInv'
  <2> DEFINE p == NextToRecord(w)
  <2>1. AttemptsInv'
    BY <1>0, <1>5, StoreKeepsAttempts
  <2>2. CopiesAreFew'
    BY <1>0, <1>5, StoreKeepsCopies
  <2>3. /\ ~At(w, "idle")
        /\ \A v \in Workers \ {w} : attempts'[v] = attempts[v]
        /\ attempts'[w] = [pc |-> RestPc(w, p), lead |-> Lead(w), index |-> attempts[w].index,
                           now |-> attempts[w].now,
                           facts |-> FreshFacts(evidence', Lead(w), attempts[w].now),
                           toCall |-> Rest(w, p), answers |-> RestAnswers(w, p)]
    BY <1>0, <1>5, StoreMoves
  <2>4. Lead(w)' = Lead(w)
    BY <2>3 DEF Lead
  <2>5. OneAttemptPerLead'
    BY <1>0, <2>3, <2>4, SameLeadStaysAlone
  <2>6. MoneyInv'
    BY <1>0, <1>5, StoreKeepsMoney
  <2> QED
    BY <2>1, <2>2, <2>5, <2>6 DEF AcquisitionInv
<1>6. ASSUME Settle(w) \/ Abandon(w)
      PROVE  AcquisitionInv'
  <2>1. AttemptsInv'
    BY <1>0, <1>6, EndKeepsAttempts
  <2>2. /\ \A v \in Workers \ {w} : attempts'[v] = attempts[v]
        /\ attempts'[w] = Idle
    BY <1>0, <1>6, EndMoves
  <2>3. UNCHANGED <<evidence, clock>>
    BY <1>6 DEF Settle, Abandon, ledgerVars
  <2>4. CopiesAreFew'
    BY <1>0, <2>2, <2>3, EndSeeksNoMore
  <2>5. At(w, "idle")'
    BY <2>2 DEF At, Idle
  <2>6. OneAttemptPerLead'
    BY <1>0, <2>2, <2>5, SameLeadStaysAlone
  <2>7. MoneyInv'
    BY <1>0, <1>6, BeginOrEndKeepsMoney
  <2> QED
    BY <2>1, <2>4, <2>6, <2>7 DEF AcquisitionInv
<1> QED
  BY <1>1, <1>2, <1>3, <1>4, <1>5, <1>6 DEF AttemptStep

LEMMA TickInv ==
  ASSUME AcquisitionInv, Tick, UNCHANGED deployment
  PROVE  AcquisitionInv'
<1>0. AttemptsInv /\ OneAttemptPerLead /\ CopiesAreFew /\ MoneyInv /\ AcquisitionTypeOK
  BY DEF AcquisitionInv, AttemptsInv
<1>1. /\ UNCHANGED evidence /\ UNCHANGED attempts /\ clock' = clock + 1 /\ clock \in Nat
      /\ noDomain' = noDomain
  BY <1>0 DEF Tick, deployment, AcquisitionTypeOK, LedgerTypeOK
<1>2. OneAttemptPerLead'
  BY <1>0, <1>1 DEF OneAttemptPerLead, At, Lead
<1>3. \A e \in Leads \cup {Company}, p \in Providers : Seekers(e, p)' \subseteq Seekers(e, p)
  BY <1>1 DEF Seekers, Seeks, At, Lead, Reachable, OwnFacts
<1>4. CopiesAreFew'
  <2>1. clock' \in Nat /\ clock <= clock'
    BY <1>1
  <2> QED
    BY <1>0, <1>1, <1>3, <2>1, CopiesKept
<1> QED
  BY <1>0, <1>2, <1>4, TickKeepsAttempts, TickKeepsMoney DEF AcquisitionInv

LEMMA AcquisitionStutters ==
  ASSUME AcquisitionInv, UNCHANGED acquisitionVars
  PROVE  AcquisitionInv'
<1>0. AttemptsInv /\ OneAttemptPerLead /\ CopiesAreFew /\ MoneyInv /\ AcquisitionTypeOK
  BY DEF AcquisitionInv, AttemptsInv
<1>1. /\ UNCHANGED <<ledger, evidence, clock, attempts, tries, settled, missedAt>>
      /\ UNCHANGED <<strategy, noDomain>> /\ UNCHANGED deployment
  BY DEF acquisitionVars, ledgerVars, deployment
<1>2. AcquisitionTypeOK'
  BY <1>0, <1>1 DEF AcquisitionTypeOK, LedgerTypeOK
<1>3. ASSUME NEW v \in Workers, ~At(v, "idle")' PROVE AttemptSound(v)'
  <2>1. ~At(v, "idle") /\ AttemptSound(v) /\ attempts'[v] = attempts[v]
    BY <1>0, <1>1, <1>3 DEF At, AttemptsInv
  <2>2. evidence \subseteq evidence' /\ clock' \in Nat /\ clock <= clock'
    BY <1>0, <1>1 DEF AcquisitionTypeOK, LedgerTypeOK
  <2> QED
    BY <1>0, <1>1, <2>1, <2>2, OthersStaySound
<1>4. OneAttemptPerLead'
  BY <1>0, <1>1 DEF OneAttemptPerLead, At, Lead
<1>5. \A e \in Leads \cup {Company}, p \in Providers : Seekers(e, p)' \subseteq Seekers(e, p)
  BY <1>1 DEF Seekers, Seeks, At, Lead, Reachable, OwnFacts
<1>6. CopiesAreFew'
  <2>1. clock' \in Nat /\ clock <= clock' /\ UNCHANGED evidence
    BY <1>0, <1>1 DEF AcquisitionTypeOK, LedgerTypeOK
  <2> QED
    BY <1>0, <1>5, <2>1, CopiesKept
<1>7. MoneyInv'
  <2>1. FreeRows /\ UNCHANGED clock
    BY <1>1 DEF FreeRows
  <2>2. \A v \in Workers : /\ Flight(v)' = Flight(v) /\ Lead(v)' = Lead(v)
                           /\ At(v, "idle")' <=> At(v, "idle")
    BY <1>1, SameFlight
  <2>3. \A v \in Workers : /\ Flight(v)' \subseteq Flight(v)
                           /\ ~At(v, "idle")' =>
                                \/ ~At(v, "idle") /\ Lead(v)' = Lead(v)
                                \/ Flight(v)' = {} /\ Lead(v)' \in Leads
    BY <2>2
  <2> QED
    BY <1>0, <1>1, <2>1, <2>3, MoneyKept
<1> QED
  BY <1>2, <1>3, <1>4, <1>6, <1>7 DEF AcquisitionInv, AttemptsInv

(* The inductive invariant of live acquisition.                            *)
THEOREM AcquisitionInvariant == AcquisitionSpec => []AcquisitionInv
<1>1. AcquisitionInit => AcquisitionInv
  BY AcquisitionBegins
<1>2. AcquisitionInv /\ [AcquisitionNext]_acquisitionVars => AcquisitionInv'
  <2> SUFFICES ASSUME AcquisitionInv, [AcquisitionNext]_acquisitionVars
               PROVE  AcquisitionInv'
    OBVIOUS
  <2>1. CASE AcquisitionNext
    <3>1. UNCHANGED deployment
      BY <2>1 DEF AcquisitionNext
    <3>2. CASE Tick
      BY <3>1, <3>2, TickInv
    <3>3. CASE \E w \in Workers : AttemptStep(w)
      BY <3>1, <3>3, AttemptStepInv
    <3> QED
      BY <2>1, <3>2, <3>3 DEF AcquisitionNext
  <2>2. CASE UNCHANGED acquisitionVars
    BY <2>2, AcquisitionStutters
  <2> QED
    BY <2>1, <2>2
<1> QED
  BY <1>1, <1>2, PTL DEF AcquisitionSpec

(* The ledger, the evidence and the attempts of _acquire_live_evidence keep *)
(* their types.                                                            *)
THEOREM AcquisitionTypeCorrect == AcquisitionSpec => []AcquisitionTypeOK
<1>1. AcquisitionInv => AcquisitionTypeOK
  BY DEF AcquisitionInv, AttemptsInv
<1> QED
  BY <1>1, AcquisitionInvariant, PTL

(* A fact is not bought again while it is fresh: never for a person, at    *)
(* most once per worker for the company that leads share.                  *)
THEOREM FreshFactsAreBoughtOnce == AcquisitionSpec => []FreshAnswersNotRebought
<1>1. AcquisitionInv => FreshAnswersNotRebought
  <2> SUFFICES ASSUME AcquisitionInv, NEW e \in Leads \cup {Company},
                      NEW f \in AllFields, NEW p \in Providers
               PROVE  Cardinality({r \in evidence :
                                     /\ r.entity = e /\ r.field = f /\ r.source = p
                                     /\ r.at + FieldTTL[f] > clock})
                        <= IF e = Company THEN Cardinality(Workers) ELSE 1
    BY DEF FreshAnswersNotRebought
  <2> DEFINE C == {r \in evidence : /\ r.entity = e /\ r.field = f /\ r.source = p
                                    /\ r.at + FieldTTL[f] > clock}
  <2>1. /\ IsFiniteSet(Copies(e, f, p))
        /\ Cardinality(FreshCopies(e, f, p)) + Cardinality(Seekers(e, p)) <= MostCopies(e)
    BY DEF AcquisitionInv, CopiesAreFew
  <2>2. C = FreshCopies(e, f, p)
    BY DEF FreshCopies, Copies
  <2>3. Cardinality(FreshCopies(e, f, p)) \in Nat
    <3>1. FreshCopies(e, f, p) \subseteq Copies(e, f, p)
      BY DEF FreshCopies
    <3> QED
      BY <2>1, <3>1, SmallerSet
  <2>4. Cardinality(Seekers(e, p)) \in Nat
    <3>1. Seekers(e, p) \subseteq Workers
      BY DEF Seekers
    <3> QED
      BY <3>1, SmallerSet, WorkersAssumption
  <2>5. MostCopies(e) \in Nat
    BY Amounts
  <2>6. Cardinality(FreshCopies(e, f, p)) <= MostCopies(e)
    BY <2>1, <2>3, <2>4, <2>5
  <2> HIDE DEF C
  <2>7. Cardinality(C) <= IF e = Company THEN Cardinality(Workers) ELSE 1
    BY <2>2, <2>6 DEF MostCopies
  <2> QED
    BY <2>7 DEF C
<1> QED
  BY <1>1, AcquisitionInvariant, PTL

(* LIVE_MAX_COST_PER_LEAD is never exceeded, with any number of workers,   *)
(* crashes and retries.                                                    *)
THEOREM LeadCapIsNeverExceeded == AcquisitionSpec => []LeadCapIsHard
<1>1. AcquisitionInv => LeadCapIsHard
  BY DEF AcquisitionInv, MoneyInv, LeadFits, LeadCapIsHard
<1> QED
  BY <1>1, AcquisitionInvariant, PTL

(* The daily and monthly caps are overshot by no more than the other       *)
(* workers may have in flight, also when a day or month ends under them.   *)
THEOREM OvershootIsBounded == AcquisitionSpec => []SpendCapsAreSoft
<1>1. AcquisitionInv => SpendCapsAreSoft
  <2> SUFFICES ASSUME AcquisitionInv
               PROVE  /\ DailySpent <= DailyCap + (Cardinality(Workers) - 1) * MaxInFlight
                      /\ MonthSpent <= MonthCap + (Cardinality(Workers) - 1) * MaxInFlight
    BY DEF SpendCapsAreSoft
  <2>1. Cardinality(InFlight) \in Nat
    BY FlightFacts DEF AcquisitionInv, AttemptsInv
  <2>2. \A length : PeriodSpent(length) \in Nat
    <3> TAKE length
    <3>1. PeriodKeys(length) \in SUBSET Key
      BY DEF PeriodKeys
    <3> QED
      BY <3>1, UnitsFacts DEF AcquisitionInv, MoneyInv, LedgerIsPast, PeriodSpent, PeriodKeys
  <2>3. \A c \in Periods :
          PeriodSpent(c[1]) + Cardinality(InFlight)
            <= c[2] + (Cardinality(Workers) - 1) * MaxInFlight
    BY DEF AcquisitionInv, MoneyInv, PeriodFits
  <2>4. (Cardinality(Workers) - 1) * MaxInFlight \in Nat
    BY Amounts
  <2>5. /\ PeriodSpent(Day) <= DailyCap + (Cardinality(Workers) - 1) * MaxInFlight
        /\ PeriodSpent(Month) <= MonthCap + (Cardinality(Workers) - 1) * MaxInFlight
    <3>1. <<Day, DailyCap>> \in Periods /\ <<Month, MonthCap>> \in Periods
      BY DEF Periods
    <3>2. /\ PeriodSpent(Day) + Cardinality(InFlight)
               <= DailyCap + (Cardinality(Workers) - 1) * MaxInFlight
          /\ PeriodSpent(Month) + Cardinality(InFlight)
               <= MonthCap + (Cardinality(Workers) - 1) * MaxInFlight
      BY <2>3, <3>1
    <3> QED
      BY <2>1, <2>2, <2>4, <3>2, CapsAssumption
  <2> QED
    BY <2>5 DEF PeriodSpent, DailySpent, MonthSpent
<1> QED
  BY <1>1, AcquisitionInvariant, PTL

=============================================================================
