--------------------------- MODULE ProviderLedger ---------------------------
(***************************************************************************)
(* What live acquisition reads before it spends and writes after it has    *)
(* spent: the provider_calls ledger (arie/ledger/store.py), the evidence   *)
(* table (arie/evidence/store.py) and the four guards that read the ledger *)
(* (arie/live/budget.py, org_budget.py, cooldown.py, outcome_cache.py).    *)
(*                                                                         *)
(* One organization, whose leads all work for one company: company         *)
(* evidence is shared by all of them, person evidence by none.  Every lead *)
(* has one job, so the ledger key job:{job}:{provider}:{entity} is a pair  *)
(* of a lead and a provider.  Money is counted in whole units; the ledger  *)
(* keeps what its readers tell apart (suppressed_reason, latency, credits  *)
(* and provenance are reported, never branched on).                        *)
(***************************************************************************)
EXTENDS Integers, FiniteSets

CONSTANTS
  Leads,
  Company,            \* the company entity; a lead stands for its own person
  Providers,
  CompanyProviders,   \* the providers with entity_type "company"
  Fields,             \* provides_fields of every provider
  Cost,               \* base_cost_usd of every provider
  MaxCost,            \* an upper bound of the costs
  FieldTTL,           \* ttl_for_field of every field
  MissTTL, UncertainTTL, CooldownTTL,   \* the windows of the guards
  Day, Month,         \* lengths of the budget periods
  LeadCap, DailyCap, MonthCap

ASSUME ProvidersAssumption == IsFiniteSet(Providers)
ASSUME CompanyProvidersAssumption == CompanyProviders \subseteq Providers
ASSUME CompanyIsNoPerson == Company \notin Leads
ASSUME MaxCostAssumption == MaxCost \in Nat
ASSUME CostAssumption == Cost \in [Providers -> 0 .. MaxCost]
ASSUME CapsAssumption == LeadCap \in Nat /\ DailyCap \in Nat /\ MonthCap \in Nat
ASSUME FieldTTLAssumption ==
  \A p \in Providers : \A f \in Fields[p] : FieldTTL[f] \in Nat
ASSUME PeriodsAssumption == Day \in Nat \ {0} /\ Month \in Nat \ {0}

VARIABLES
  ledger,        \* provider_calls: at most one row per idempotency key
  evidence,      \* the evidence table, which is only ever appended to
  clock,
  noDomain       \* leads whose email gives no company domain; never changes

ledgerVars == <<ledger, evidence, clock>>

AllFields == UNION {Fields[p] : p \in Providers}

(* How a call ends.  quota is one of QUOTA_ERROR_KINDS; uncertain is a     *)
(* timeout or a transport error, after which nobody knows what the vendor  *)
(* did; definite is every other error response.                            *)
Outcome == {"success", "miss", "quota", "uncertain", "definite"}

Key == Leads \X Providers

NoCall == [outcome |-> "none", cost |-> 0, cacheHit |-> FALSE, at |-> 0]

Call == [outcome : Outcome, cost : 0 .. MaxCost, cacheHit : BOOLEAN, at : Nat]

(* The entity of a lead that a provider is asked about. *)
EntityOf(l, p) == IF p \in CompanyProviders THEN Company ELSE l

(* _live_entity_refs: the person always, the company if there is a domain. *)
Reachable(l, p) == p \in CompanyProviders => l \notin noDomain

Refs(l) == {l} \cup (IF l \in noDomain THEN {} ELSE {Company})

EvidenceRow == [entity : Leads \cup {Company}, field : AllFields,
                source : Providers, at : Nat, id : Leads \X Nat]

LedgerTypeOK ==
  /\ ledger \in [Key -> Call \cup {NoCall}]
  /\ evidence \subseteq EvidenceRow
  /\ clock \in Nat
  /\ noDomain \subseteq Leads

LedgerInit ==
  /\ ledger = [k \in Key |-> NoCall]
  /\ evidence = {}
  /\ clock = 0
  /\ noDomain \in SUBSET Leads

-----------------------------------------------------------------------------
(* record_provider_call: a zero-cost row for a cache hit; the second row   *)
(* under one key is dropped in favour of the first.                        *)
RecordProviderCall(k, outcome, cost, cacheHit) ==
  ledger' = [ledger EXCEPT ![k] =
               IF @ = NoCall
               THEN [outcome |-> outcome, cost |-> IF cacheHit THEN 0 ELSE cost,
                     cacheHit |-> cacheHit, at |-> clock]
               ELSE @]

(* Rows of one provider about one entity, whichever lead asked. *)
CallsAbout(l, p) ==
  {k \in Key : k[2] = p /\ EntityOf(k[1], p) = EntityOf(l, p)}

Within(k, window) == ledger[k].at > clock - window

(* recent_miss: cache hits are not told from calls. *)
RecentMiss(l, p) ==
  \E k \in CallsAbout(l, p) : ledger[k].outcome = "miss" /\ Within(k, MissTTL)

(* recent_uncertain_outcome. *)
RecentUncertainOutcome(l, p) ==
  \E k \in CallsAbout(l, p) :
    ledger[k].outcome = "uncertain" /\ Within(k, UncertainTTL)

(* cooling_down_until: of the whole provider, whatever the entity. *)
CoolingDown(p) ==
  \E k \in Key : k[2] = p /\ ledger[k].outcome = "quota" /\ Within(k, CooldownTTL)

(* SUM(cost_usd) of the rows with these keys, as the number of units of    *)
(* money in them.  Cache hits cost nothing.                                *)
Spent(K) == Cardinality({u \in K \X (1 .. MaxCost) : u[2] <= ledger[u[1]].cost})

SamePeriod(k, length) == ledger[k].at \div length = clock \div length

LeadSpent(l) == Spent({k \in Key : k[1] = l})
DailySpent == Spent({k \in Key : SamePeriod(k, Day)})
MonthSpent == Spent({k \in Key : SamePeriod(k, Month)})

(* Mutation: the guard asks whether the cap is already exceeded, not       *)
(* whether this call would exceed it.                                      *)
Permitted_AfterTheFact(l, estimate) ==
  /\ LeadSpent(l) <= LeadCap
  /\ DailySpent <= DailyCap
  /\ MonthSpent <= MonthCap

(* LiveSpendGuard.allowance and OrganizationSpendGuard.allowance: both     *)
(* must permit the call.                                                   *)
Permitted(l, estimate) ==
  /\ LeadSpent(l) + estimate <= LeadCap
  /\ DailySpent + estimate <= DailyCap
  /\ MonthSpent + estimate <= MonthCap

(* Mutation: company evidence is looked for under the person. *)
FreshFacts_PersonOnly(rows, l, now) ==
  {[entity |-> r.entity, field |-> r.field, source |-> r.source] :
     r \in {x \in rows : x.entity = l /\ x.at + FieldTTL[x.field] > now}}

(* get_all_fresh for the entities of a lead: what an attempt knows when it *)
(* reads these rows.                                                       *)
FreshFacts(rows, l, now) ==
  {[entity |-> r.entity, field |-> r.field, source |-> r.source] :
     r \in {x \in rows : x.entity \in Refs(l) /\ x.at + FieldTTL[x.field] > now}}

(* put_many: rows are appended, all fields of an answer at once. *)
PutMany(l, p, fields, at, id) ==
  evidence' = evidence \cup
    {[entity |-> EntityOf(l, p), field |-> f, source |-> p, at |-> at,
      id |-> id] : f \in fields}
=============================================================================
