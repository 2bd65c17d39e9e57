-------------------------- MODULE LiveAcquisition ---------------------------
(***************************************************************************)
(* How a live job buys evidence (_acquire_live_evidence and                *)
(* _acquire_evaluation_parallel of arie/jobs/handlers.py), with several    *)
(* workers, crashes and retries.                                           *)
(*                                                                         *)
(* An attempt walks the providers in order.  Whatever it reads of the      *)
(* ledger and of the evidence may be stale by the time the vendor answers: *)
(* the guards, the call, its ledger row and its evidence rows are separate *)
(* steps, each row in a transaction of its own.  The attempt holds the row *)
(* lock of its lead from _walk_to_decision on, so one lead is never worked *)
(* on by two attempts at once.                                             *)
(***************************************************************************)
EXTENDS ProviderLedger, Sequences

CONSTANTS
  Workers,
  Order,         \* acquisition_order: the providers as a sequence
  Strategies,    \* the values of LIVE_STRATEGY considered
  MaxAttempts,   \* RUNTIME.worker_max_attempts
  MaxClock       \* bound on time

ASSUME WorkersAssumption == IsFiniteSet(Workers) /\ Workers # {}
ASSUME MaxAttemptsAssumption == MaxAttempts \in Nat
ASSUME OrderAssumption == Order \in Seq(Providers)
ASSUME CompanyFirst ==
  "evaluation_parallel" \in Strategies =>
    \A i, j \in 1 .. Len(Order) :
      Order[i] \notin CompanyProviders /\ Order[j] \in CompanyProviders => j < i
ASSUME StrategiesAssumption ==
  Strategies \subseteq {"optimized", "evaluation_parallel"}

VARIABLES
  attempts,      \* the attempt each worker is in
  tries,         \* attempts begun for each lead
  settled,       \* leads whose decision has been committed
  strategy,      \* LIVE_STRATEGY of the deployment; never changes
  missedAt       \* history, per key: when the provider last answered a miss

deployment == <<strategy, noDomain>>
acquisitionVars == <<ledgerVars, attempts, tries, settled, missedAt, deployment>>

Never == -1

Fact == [entity : Leads \cup {Company}, field : AllFields, source : Providers]

(* The outcome of a call, the fields it delivered and what it cost.  A     *)
(* concurrent call may also raise, which leaves nothing to record.         *)
Result == [outcome : Outcome \cup {"raised"}, fields : SUBSET AllFields, cost : 0 .. MaxCost]

(* A lead that no worker is working on is in no attempt. *)
Idle == [pc |-> "idle"]

(* An attempt: the provider it has come to, the time and the facts of its  *)
(* last reading, the providers it will call, and the answers it has not    *)
(* recorded yet.                                                           *)
Attempt(P) ==
  [pc : {"consider", "guard", "call", "record", "store"}, lead : Leads,
   index : 1 .. Len(Order) + 1, now : Nat, facts : SUBSET Fact,
   toCall : SUBSET Providers, answers : [P -> Result]]

AcquisitionTypeOK ==
  /\ LedgerTypeOK
  /\ DOMAIN attempts = Workers
  /\ \A w \in Workers :
       \/ attempts[w] = Idle
       \/ \E P \in SUBSET Providers : attempts[w] \in Attempt(P)
  /\ tries \in [Leads -> 0 .. MaxAttempts]
  /\ settled \subseteq Leads
  /\ missedAt \in [Key -> Nat \cup {Never}]
  /\ strategy \in Strategies

AcquisitionInit ==
  /\ LedgerInit
  /\ attempts = [w \in Workers |-> Idle]
  /\ tries = [l \in Leads |-> 0]
  /\ settled = {}
  /\ missedAt = [k \in Key |-> Never]
  /\ strategy \in Strategies

-----------------------------------------------------------------------------
At(w, pc) == attempts[w].pc = pc

Lead(w) == attempts[w].lead

(* The provider an attempt has come to. *)
Current(w) == Order[attempts[w].index]

Walking(w) == At(w, "consider") /\ attempts[w].index <= Len(Order)

(* In the concurrent phase of an evaluation a provider is only admitted;   *)
(* everywhere else it is called as soon as it is admitted.                 *)
Concurrent(p) == strategy = "evaluation_parallel" /\ p \notin CompanyProviders

OwnFacts(w, p) ==
  {f \in attempts[w].facts : f.entity = EntityOf(Lead(w), p) /\ f.source = p}

Held(w, p) ==
  {f.field : f \in {x \in attempts[w].facts : x.entity = EntityOf(Lead(w), p)}}

(* The provider's own answer is held, complete or partial. *)
AlreadyAnswered(w, p) == OwnFacts(w, p) # {}

(* Others have supplied everything it sells; an evaluation asks anyway. *)
Redundant(w, p) == ~Concurrent(p) /\ Fields[p] \subseteq Held(w, p)

(* Mutation: > for >= in the attempt budget. *)
Begin_OneMore(w, l) ==
  /\ At(w, "idle")
  /\ l \notin settled
  /\ tries[l] <= MaxAttempts
  /\ \A v \in Workers : ~At(v, "idle") => Lead(v) # l
  /\ attempts' = [attempts EXCEPT ![w] =
                    [pc |-> "consider", lead |-> l, index |-> 1, now |-> clock,
                     facts |-> FreshFacts(evidence, l, clock), toCall |-> {},
                     answers |-> <<>>]]
  /\ tries' = [tries EXCEPT ![l] = @ + 1]
  /\ UNCHANGED <<ledgerVars, settled, missedAt>>

(* A job begins: the lead's lock is free, the evidence is read. *)
Begin(w, l) ==
  /\ At(w, "idle")
  /\ l \notin settled
  /\ tries[l] < MaxAttempts
  /\ \A v \in Workers : ~At(v, "idle") => Lead(v) # l
  /\ attempts' = [attempts EXCEPT ![w] =
                    [pc |-> "consider", lead |-> l, index |-> 1, now |-> clock,
                     facts |-> FreshFacts(evidence, l, clock), toCall |-> {},
                     answers |-> <<>>]]
  /\ tries' = [tries EXCEPT ![l] = @ + 1]
  /\ UNCHANGED <<ledgerVars, settled, missedAt>>

Advance(w) == attempts' = [attempts EXCEPT ![w].pc = "consider",
                                           ![w].index = @ + 1]

(* No identifier for it, everything it sells is held from others, or its   *)
(* quota is known to be spent: the provider is passed over without a row.  *)
PassOver(w) ==
  /\ Walking(w)
  /\ LET l == Lead(w)
         p == Current(w)
     IN \/ ~Reachable(l, p)
        \/ /\ Reachable(l, p) /\ ~AlreadyAnswered(w, p)
           /\ \/ Redundant(w, p)
              \/ /\ ~RecentMiss(l, p) /\ ~RecentUncertainOutcome(l, p)
                 /\ CoolingDown(p)
  /\ Advance(w)
  /\ UNCHANGED <<ledgerVars, tries, settled, missedAt>>

(* The provider's answer is held or a recent outcome stands for one: a     *)
(* zero-cost row is recorded instead of a call.                            *)
ServeFromRecord(w) ==
  /\ Walking(w)
  /\ LET l == Lead(w)
         p == Current(w)
     IN /\ Reachable(l, p)
        /\ \/ /\ AlreadyAnswered(w, p)
              /\ RecordProviderCall(<<l, p>>, "success", 0, TRUE)
           \/ /\ ~AlreadyAnswered(w, p) /\ ~Redundant(w, p)
              /\ RecentMiss(l, p)
              /\ RecordProviderCall(<<l, p>>, "miss", 0, TRUE)
           \/ /\ ~AlreadyAnswered(w, p) /\ ~Redundant(w, p)
              /\ ~RecentMiss(l, p) /\ RecentUncertainOutcome(l, p)
              /\ RecordProviderCall(<<l, p>>, "definite", 0, TRUE)
  /\ Advance(w)
  /\ UNCHANGED <<evidence, clock, tries, settled, missedAt>>

(* No record answers for the provider: on to the budget. *)
PassGuards(w) ==
  /\ Walking(w)
  /\ LET l == Lead(w)
         p == Current(w)
     IN /\ Reachable(l, p)
        /\ ~AlreadyAnswered(w, p) /\ ~Redundant(w, p)
        /\ ~RecentMiss(l, p) /\ ~RecentUncertainOutcome(l, p) /\ ~CoolingDown(p)
  /\ attempts' = [attempts EXCEPT ![w].pc = "guard"]
  /\ UNCHANGED <<ledgerVars, tries, settled, missedAt>>

(* The units of money of the calls an attempt has been allowed and has not *)
(* recorded.                                                               *)
PendingUnits(w) ==
  IF At(w, "idle") THEN {}
  ELSE {u \in attempts[w].toCall \X (1 .. MaxCost) : u[2] <= Cost[u[1]]}

(* Mutation: the calls admitted before are forgotten. *)
Estimate_Alone(w, p) == Cost[p]

(* base_cost_usd plus pending_estimate, the candidates admitted before. *)
Estimate(w, p) == Cost[p] + Cardinality(PendingUnits(w))

(* Both budgets permit the call. *)
Admit(w) ==
  LET p == Current(w) IN
  /\ At(w, "guard")
  /\ Permitted(Lead(w), Estimate(w, p))
  /\ attempts' = [attempts EXCEPT
                    ![w].pc = IF Concurrent(p) THEN "consider" ELSE "call",
                    ![w].index = @ + 1,
                    ![w].toCall = @ \cup {p}]
  /\ UNCHANGED <<ledgerVars, tries, settled, missedAt>>

(* A budget refuses: the optimized strategy stops buying, an evaluation    *)
(* goes on to the next provider.                                           *)
Refuse(w) ==
  /\ At(w, "guard")
  /\ ~Permitted(Lead(w), Estimate(w, Current(w)))
  /\ attempts' = [attempts EXCEPT
                    ![w].pc = "consider",
                    ![w].index = IF strategy = "optimized" THEN Len(Order) + 1
                                                           ELSE @ + 1]
  /\ UNCHANGED <<ledgerVars, tries, settled, missedAt>>

(* stop_check: enough is known.  An evaluation never stops early. *)
StopEarly(w) ==
  /\ strategy = "optimized"
  /\ Walking(w)
  /\ attempts' = [attempts EXCEPT ![w].index = Len(Order) + 1]
  /\ UNCHANGED <<ledgerVars, tries, settled, missedAt>>

(* The last provider has been considered: the admitted ones are called. *)
CallAdmitted(w) ==
  /\ At(w, "consider")
  /\ attempts[w].index = Len(Order) + 1
  /\ attempts[w].toCall # {}
  /\ attempts' = [attempts EXCEPT ![w].pc = "call"]
  /\ UNCHANGED <<ledgerVars, tries, settled, missedAt>>

(* What a vendor may answer.  A miss is free or billed, an error is free,  *)
(* and a person whose identity was not verified is paid for although its   *)
(* fields are not used.                                                    *)
Answers(p) ==
  {[outcome |-> "success", fields |-> F, cost |-> Cost[p]] :
     F \in IF p \in CompanyProviders THEN SUBSET Fields[p] \ {{}}
                                     ELSE SUBSET Fields[p]}
  \cup {[outcome |-> "miss", fields |-> {}, cost |-> c] : c \in {0, Cost[p]}}
  \cup {[outcome |-> o, fields |-> {}, cost |-> 0] :
          o \in {"quota", "uncertain", "definite"}
                  \cup (IF Concurrent(p) THEN {"raised"} ELSE {})}

(* fetch, of every admitted provider. *)
Fetch(w, answers) ==
  /\ At(w, "call")
  /\ DOMAIN answers = attempts[w].toCall
  /\ \A p \in DOMAIN answers : answers[p] \in Answers(p)
  /\ attempts' = [attempts EXCEPT ![w].pc = "record", ![w].answers = answers]
  /\ UNCHANGED <<ledgerVars, tries, settled, missedAt>>

(* The answers that are there to record.  An exception is raised again     *)
(* when none is left: the attempt can then only be abandoned.              *)
ToRecord(w) == {p \in attempts[w].toCall : attempts[w].answers[p].outcome # "raised"}

(* The first of them, in acquisition order. *)
NextToRecord(w) ==
  LET First(i) == /\ Order[i] \in ToRecord(w)
                  /\ \A j \in 1 .. i - 1 : Order[j] \notin ToRecord(w)
  IN Order[CHOOSE i \in 1 .. Len(Order) : First(i)]

(* When every answer is recorded the walk goes on. *)
Recorded(w, p) ==
  LET rest == attempts[w].toCall \ {p} IN
  [attempts[w] EXCEPT !.toCall = rest,
                      !.answers = [q \in rest |-> attempts[w].answers[q]],
                      !.pc = IF rest = {} THEN "consider" ELSE "record"]

(* _ledger_live_call. *)
RecordCall(w) ==
  LET p == NextToRecord(w)
      k == <<Lead(w), p>>
      r == attempts[w].answers[p]
  IN
  /\ At(w, "record")
  /\ ToRecord(w) # {}
  /\ RecordProviderCall(k, r.outcome, r.cost, FALSE)
  /\ attempts' = [attempts EXCEPT ![w] =
                    IF r.outcome = "success" /\ r.fields # {}
                    THEN [@ EXCEPT !.pc = "store"] ELSE Recorded(w, p)]
  /\ missedAt' = [missedAt EXCEPT ![k] = IF r.outcome = "miss" THEN clock ELSE @]
  /\ UNCHANGED <<evidence, clock, tries, settled>>

(* put_many, dated by the beginning of the attempt, and the evidence is    *)
(* read again.                                                             *)
StoreEvidence(w) ==
  LET p == NextToRecord(w)
      l == Lead(w)
  IN
  /\ At(w, "store")
  /\ PutMany(l, p, attempts[w].answers[p].fields, attempts[w].now,
             <<l, tries[l]>>)
  /\ attempts' = [attempts EXCEPT ![w] =
                    [Recorded(w, p) EXCEPT
                       !.facts = FreshFacts(evidence', l, attempts[w].now)]]
  /\ UNCHANGED <<ledger, clock, tries, settled, missedAt>>

(* The decision is committed with whatever evidence there is. *)
Settle(w) ==
  /\ At(w, "consider")
  /\ attempts[w].index = Len(Order) + 1
  /\ attempts[w].toCall = {}
  /\ settled' = settled \cup {Lead(w)}
  /\ attempts' = [attempts EXCEPT ![w] = Idle]
  /\ UNCHANGED <<ledgerVars, tries, missedAt>>

(* The worker dies or the handler raises: the attempt is rolled back, but  *)
(* not the ledger and not the evidence.                                    *)
Abandon(w) ==
  /\ ~At(w, "idle")
  /\ attempts' = [attempts EXCEPT ![w] = Idle]
  /\ UNCHANGED <<ledgerVars, tries, settled, missedAt>>

Tick ==
  /\ clock < MaxClock
  /\ clock' = clock + 1
  /\ UNCHANGED <<ledger, evidence, attempts, tries, settled, missedAt>>

AnswersTo(w) == [attempts[w].toCall -> UNION {Answers(p) : p \in attempts[w].toCall}]

AttemptStep(w) ==
  \/ \E l \in Leads : Begin(w, l)
  \/ PassOver(w)
  \/ ServeFromRecord(w)
  \/ PassGuards(w)
  \/ Admit(w)
  \/ Refuse(w)
  \/ StopEarly(w)
  \/ CallAdmitted(w)
  \/ At(w, "call") /\ \E answers \in AnswersTo(w) : Fetch(w, answers)
  \/ RecordCall(w)
  \/ StoreEvidence(w)
  \/ Settle(w)
  \/ Abandon(w)

AcquisitionNext ==
  /\ \/ Tick
     \/ \E w \in Workers : AttemptStep(w)
  /\ UNCHANGED deployment

AcquisitionSpec == AcquisitionInit /\ [][AcquisitionNext]_acquisitionVars
-----------------------------------------------------------------------------
(* The most an attempt can have in flight: the calls it has been allowed   *)
(* and has not recorded.                                                   *)
MaxInFlight == IF strategy = "optimized" THEN MaxCost
               ELSE MaxCost * Cardinality(Providers)

(* budget.py, org_budget.py: the caps of the organization are soft, and    *)
(* what is recorded overshoots them by no more than the other workers can  *)
(* have in flight, however checks, calls and midnight interleave.          *)
SpendCapsAreSoft ==
  LET overshoot == (Cardinality(Workers) - 1) * MaxInFlight IN
  /\ DailySpent <= DailyCap + overshoot
  /\ MonthSpent <= MonthCap + overshoot

(* The cap of one lead is exact, because two attempts of one lead never    *)
(* overlap and an evaluation counts the calls it has admitted.             *)
LeadCapIsHard == \A l \in Leads : LeadSpent(l) <= LeadCap

(* A fact that a provider has delivered is not bought again while it is    *)
(* fresh, except by workers that were already on their way: a person's     *)
(* facts, which one attempt at a time looks for, are never held twice.     *)
FreshAnswersNotRebought ==
  \A e \in Leads \cup {Company}, f \in AllFields, p \in Providers :
    Cardinality({r \in evidence : /\ r.entity = e /\ r.field = f /\ r.source = p
                                  /\ r.at + FieldTTL[f] > clock})
      <= IF e = Company THEN Cardinality(Workers) ELSE 1

(* ledger/store.py: the idempotency key tells a retry that "it has already *)
(* paid for this exact call" - a job does not call a provider again once   *)
(* its own ledger row says that the provider has been paid.                *)
PaidCallNotRepeated ==
  \A w \in Workers :
    At(w, "call") => \A p \in attempts[w].toCall : ledger[<<Lead(w), p>>].cost = 0

(* outcome_cache.py: a call is suppressed as recent_miss because a recent  *)
(* MISS is still inside its TTL.                                           *)
SuppressedByRecentMiss ==
  \A k \in Key :
    ledger[k].outcome = "miss" /\ ledger[k].cacheHit
      => \E j \in CallsAbout(k[1], k[2]) :
           missedAt[j] # Never /\ missedAt[j] > ledger[k].at - MissTTL
=============================================================================
