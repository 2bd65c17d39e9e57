------------------------------- MODULE Research -------------------------------
(***************************************************************************)
(* Selective research on one decided lead (research.py, research_          *)
(* acquisition.py): which missing field could still change its decision,   *)
(* whether one simulated provider may be asked, and the call itself, by    *)
(* several requests at a time (POST .../research-plan, .../research, and   *)
(* every build of a discovery shortlist).                                  *)
(*                                                                         *)
(* The receipt is frozen; evidence, ledger rows, the active profile and    *)
(* the execution mode are not.  Money is in units of 0.0002 USD, in which  *)
(* the catalogue's prices are whole.                                       *)
(***************************************************************************)
EXTENDS Integers, Sequences, FiniteSets, Functions

CONSTANTS
  Researchers,    \* requests
  Fields,         \* of the four ResearchTargetFields
  Receipts,       \* the lead's possible receipts
  Ceilings,       \* what a field may add under the profiles of the customer
  Modes,          \* execution modes
  Acquired,       \* sets of providers that acquisition has asked already
  LeadBudget,     \* leads.budget_usd_cap
  MaxAsked        \* bound: calls per field

VARIABLES
  receipt,        \* decision_receipts: score, bounds, known fields
  ceilings,       \* max_field_points of the active profile
  mode,           \* organizations.execution_mode
  rows,           \* provider_calls of the lead: what each key cost
  evidence,       \* the source of the fresh evidence on a field
  asked,          \* history: calls made for a field
  researcher      \* where each request is

researchVars ==
  <<receipt, ceilings, mode, rows, evidence, asked, researcher>>

\* CANDIDATE_SIMULATED_PROVIDERS: cheapest first.
Sources(f) ==
  CASE f = "employee_count" ->
         <<"internal_crm", "firmographics_basic", "firmographics_premium", "deep_research">>
    [] f = "industry" ->
         <<"internal_crm", "dns_web", "firmographics_basic", "firmographics_premium",
           "deep_research">>
    [] OTHER -> <<"inbound_payload", "contact_enrich">>

\* CATALOG.base_cost_usd.
Price ==
  [inbound_payload |-> 0, internal_crm |-> 0, dns_web |-> 4, firmographics_basic |-> 60,
   contact_enrich |-> 275, firmographics_premium |-> 450, deep_research |-> 3000]

ASSUME ResearchAssumption ==
  /\ Fields \subseteq {"employee_count", "industry", "title_seniority", "title_function"}
  /\ Receipts \subseteq [score : 0..100, lower : 0..100, upper : 0..100, known : SUBSET Fields]
  /\ Ceilings \subseteq [Fields -> 0..100]
  /\ Acquired \subseteq SUBSET (DOMAIN Price)
  /\ {LeadBudget, MaxAsked} \subseteq Nat
  /\ IsFiniteSet(Researchers) /\ Researchers # {}

Qualify == 70
Reject == 40

Idle == [at |-> "idle", field |-> "none", source |-> "none", charge |-> 0, found |-> FALSE]

\* acquisition's own rows have keys of another shape, one per provider.
AcquiredRows(S) == [k \in {<<"acquisition", p>> : p \in S} |-> Price[k[2]]]

ResearchInit ==
  /\ receipt \in Receipts /\ ceilings \in Ceilings
  /\ mode \in Modes
  /\ \E S \in Acquired : rows = AcquiredRows(S)
  /\ evidence = [f \in Fields |-> "none"]
  /\ asked = [f \in Fields |-> 0]
  /\ researcher = [r \in Researchers |-> Idle]

-----------------------------------------------------------------------------
(* analyze_materiality.                                                    *)

Clear ==
  \/ receipt.lower >= Qualify
  \/ receipt.upper < Reject
  \/ receipt.lower >= Reject /\ receipt.upper < Qualify

\* An unresolved disqualifier holds the floor at zero.
Pinned == receipt.lower < receipt.score

Crosses(f, threshold) ==
  receipt.score < threshold /\ threshold <= receipt.score + ceilings[f]

Materiality(f) ==
  IF f \in receipt.known THEN "already_resolved"
  ELSE IF ~Clear /\ ~Pinned /\ (Crosses(f, Reject) \/ Crosses(f, Qualify)) THEN "material"
  ELSE "non_material"

MaterialFields == {f \in Fields : Materiality(f) = "material"}

\* select_research_target: the largest ceiling, and the earlier field of two.
\* A plan proposes the only material field, the one the model picks among
\* several, or this one; it writes nothing.
FieldOrder == <<"employee_count", "industry", "title_seniority", "title_function">>
Before(f, g) ==
  \E i, j \in DOMAIN FieldOrder : FieldOrder[i] = f /\ FieldOrder[j] = g /\ i < j
IsTarget(f) ==
  /\ f \in MaterialFields
  /\ \A g \in MaterialFields \ {f} :
       ceilings[g] < ceilings[f] \/ (ceilings[g] = ceilings[f] /\ Before(f, g))

-----------------------------------------------------------------------------
(* authorize_research, over _authorization_inputs.                         *)

Called == {k[2] : k \in DOMAIN rows}

\* Those not yet called, by their place in the list; when all were, all again.
Candidates_SkipFirst(f) == DOMAIN Sources(f) \ {1}
Candidates(f) ==
  LET rest == {i \in DOMAIN Sources(f) : Sources(f)[i] \notin Called}
  IN  IF rest = {} THEN DOMAIN Sources(f) ELSE rest
FirstCandidate(f) ==
  Sources(f)[CHOOSE i \in Candidates(f) : \A j \in Candidates(f) : i <= j]

Spent == SumFunction(rows)

WithinLeadBudget_AfterTheFact(f) == Spent <= LeadBudget
WithinLeadBudget(f) == Spent + Price[FirstCandidate(f)] <= LeadBudget

\* In simulated mode nothing is unavailable or suppressed, and entitlement is
\* not asked for.  A live organization may plan research, never perform it.
ModePermits == mode = "simulated"

\* "allowance": what is left of the month's live spend covers the estimate.
Authorized(f, allowance) ==
  /\ Materiality(f) = "material"
  /\ WithinLeadBudget(f)
  /\ allowance
  /\ ModePermits

-----------------------------------------------------------------------------
(* The requests.                                                           *)

ResearcherBecomes(r, q) == researcher' = [researcher EXCEPT ![r] = q]
Unread == <<receipt, ceilings, mode>>

\* execute_research: authorized afresh for any field a client names, which
\* includes that of every plan; fresh evidence answers it for nothing.
Answered(f) == evidence[f] # "none"

ExecuteResearch(r, f, allowance) ==
  /\ researcher[r] = Idle
  /\ Authorized(f, allowance) /\ ~Answered(f)
  /\ ResearcherBecomes(r, [Idle EXCEPT !.at = "fetch", !.field = f, !.source = FirstCandidate(f)])
  /\ UNCHANGED <<Unread, rows, evidence, asked>>

\* A miss may be charged or not; only a success may have the field.
FetchResearch(r, found, charge) ==
  LET q == researcher[r]
  IN  /\ q.at = "fetch" /\ asked[q.field] < MaxAsked
      /\ found => charge = Price[q.source]
      /\ charge \in {0, Price[q.source]}
      /\ asked' = [asked EXCEPT ![q.field] = @ + 1]
      /\ ResearcherBecomes(r, [q EXCEPT !.at = "record", !.charge = charge, !.found = found])
      /\ UNCHANGED <<Unread, rows, evidence>>

\* record_provider_call: the first row of a key stays.
Recorded(q) ==
  LET key == <<q.field, q.source>>
  IN  IF key \in DOMAIN rows THEN rows
      ELSE [k \in DOMAIN rows \cup {key} |-> IF k = key THEN q.charge ELSE rows[k]]

RecordResearch(r) ==
  LET q == researcher[r]
  IN  /\ q.at = "record"
      /\ rows' = Recorded(q)
      /\ ResearcherBecomes(r, IF q.found THEN [q EXCEPT !.at = "put"] ELSE Idle)
      /\ UNCHANGED <<Unread, evidence, asked>>

PutResearch(r) ==
  LET q == researcher[r]
  IN  /\ q.at = "put"
      /\ evidence' = [evidence EXCEPT ![q.field] = q.source]
      /\ ResearcherBecomes(r, Idle)
      /\ UNCHANGED <<Unread, rows, asked>>

\* The process of a request dies.
ResearcherDies(r) ==
  /\ researcher[r].at \in {"record", "put"}
  /\ ResearcherBecomes(r, Idle)
  /\ UNCHANGED <<Unread, rows, evidence, asked>>

-----------------------------------------------------------------------------
(* What goes on around them.                                               *)

NewProfile ==
  /\ ceilings' \in Ceilings \ {ceilings}
  /\ UNCHANGED <<receipt, mode, rows, evidence, asked, researcher>>

ChangeMode ==
  /\ mode' \in Modes \ {mode}
  /\ UNCHANGED <<receipt, ceilings, rows, evidence, asked, researcher>>

\* The time to live of a fact runs out.
ResearchExpires(f) ==
  /\ evidence[f] # "none"
  /\ evidence' = [evidence EXCEPT ![f] = "none"]
  /\ UNCHANGED <<Unread, rows, asked, researcher>>

ResearchNext ==
  \/ \E r \in Researchers :
       \/ \E f \in Fields, allowance \in BOOLEAN : ExecuteResearch(r, f, allowance)
       \/ \E found \in BOOLEAN, charge \in {Price[p] : p \in DOMAIN Price} :
            FetchResearch(r, found, charge)
       \/ RecordResearch(r) \/ PutResearch(r) \/ ResearcherDies(r)
  \/ NewProfile \/ ChangeMode
  \/ \E f \in Fields : ResearchExpires(f)

ResearchSpec == ResearchInit /\ [][ResearchNext]_researchVars

-----------------------------------------------------------------------------
(* Properties.                                                             *)

\* Every variable keeps its shape; each call in flight is for a known source.
ResearchTypeOK ==
  /\ receipt \in Receipts /\ ceilings \in Ceilings
  /\ \A k \in DOMAIN rows : k[1] \in Fields \cup {"acquisition"} /\ rows[k] \in {0, Price[k[2]]}
  /\ \A f \in Fields : evidence[f] \in {"none"} \cup {Sources(f)[i] : i \in DOMAIN Sources(f)}
  /\ asked \in [Fields -> 0..MaxAsked]
  /\ \A r \in Researchers : researcher[r].at \in {"idle", "fetch", "record", "put"}

InFlight == {r \in Researchers : researcher[r].at \in {"fetch", "record", "put"}}
InFlightFor(f) == {r \in InFlight : researcher[r].field = f}

\* However the profile changed meanwhile, no money goes to a question that the
\* receipt had settled: a field it knew, a decision no answer could move, or
\* a floor held down by a disqualifier (analyze_materiality).
OnlyOpenQuestionsAsked ==
  \A f \in Fields : asked[f] > 0 =>
    /\ f \notin receipt.known
    /\ receipt.lower < Qualify /\ receipt.upper >= Reject
    /\ ~(receipt.lower >= Reject /\ receipt.upper < Qualify)
    /\ receipt.lower >= receipt.score

\* Acquisition is held to a cap of its policy, not to the lead's own.
AcquisitionSpent == SumFunctionOnSet(rows, {k \in DOMAIN rows : k[1] = "acquisition"})

\* The cap of a lead is checked before the call and counted after it: requests
\* that were authorized together may pass it, by an affordable call each; a
\* lead on which acquisition spent more gets no research at all.
LeadBudgetIsSoft ==
  \E cap \in {LeadBudget, AcquisitionSpent}, p \in DOMAIN Price :
    /\ Price[p] <= LeadBudget
    /\ Spent <= cap + (Cardinality(Researchers) - 1) * Price[p]
    /\ LeadBudget < AcquisitionSpent => Spent = AcquisitionSpent

\* Whatever several fields may add, a plan has one target when it has any
\* (select_research_target asserts it).
PlanHasOneTarget ==
  MaterialFields # {} => Cardinality({f \in Fields : IsTarget(f)}) = 1

\* Evidence never appears without the ledger row of the call it came from
\* (the row commits first, the fact in a transaction of its own).
AnswerHasRow == \A f \in Fields : evidence[f] # "none" => <<f, evidence[f]>> \in DOMAIN rows

\* A dear source is asked only when every cheaper one of the field had been.
CheapestFirst ==
  \A f \in Fields : \A j \in DOMAIN Sources(f) :
    <<f, Sources(f)[j]>> \in DOMAIN rows =>
      \A i \in 1..j - 1 : Sources(f)[i] \in Called

\* A fresh answer ends the spending on its field, but for calls already under
\* way (the re-read before the call; execute_research's "Already-answered").
FreshAnswerIsFree ==
  \A f \in Fields :
    evidence[f] # "none" /\ InFlightFor(f) = {} => asked'[f] = asked[f] /\ InFlightFor(f)' = {}

\* A live organization plans and never pays: once its last simulated call is
\* in, no research call starts until the mode is simulated again.
LiveNeverResearches ==
  mode # "simulated" /\ InFlight = {} => asked' = asked /\ InFlight' = {}
=============================================================================
