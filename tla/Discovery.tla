------------------------------ MODULE Discovery ------------------------------
(***************************************************************************)
(* A discovery run (discovery/orchestrator.py): search, cheap screening,   *)
(* a look at each company's website, promotion to leads, a drive of the    *)
(* job queue, and a shortlist with buyers; and the requests that read the  *)
(* shortlist again (GET .../opportunities) while all that is going on.     *)
(*                                                                         *)
(* One run of one organization.  Stranger is a lead of another one, whose  *)
(* job waits in the same queue.  A successful buyer search costs one unit. *)
(* The research step of an opportunity has a module of its own (Research). *)
(***************************************************************************)
EXTENDS Integers, Sequences, FiniteSets

CONSTANTS
  Domains,       \* companies a search may return
  Junk,          \* those whose domain is a directory or a platform
  Stranger,      \* the other organization's lead
  Runner,        \* the request that carries the run out
  Readers,       \* requests that read its opportunities
  LiveChoices,   \* sets of leads whose organization may acquire live
  PromotionCap,  \* most leads one run may promote
  MaxSearches    \* bound: buyer searches per company

ASSUME DiscoveryAssumption ==
  /\ Junk \subseteq Domains /\ Stranger \notin Domains
  /\ Runner \notin Readers
  /\ LiveChoices \subseteq SUBSET (Domains \cup {Stranger})
  /\ {PromotionCap, MaxSearches} \subseteq Nat
ASSUME FinitelyManyAssumption == IsFiniteSet(Domains) /\ IsFiniteSet(Readers)

VARIABLES
  live,          \* leads for which live acquisition is on (deployment and mode)
  runStatus,     \* discovery_runs.status
  funnel,        \* discovery_runs.funnel: promoted, rejected
  stage,         \* where the runner is in run_discovery
  toPromote,     \* its survivors: the ones it has not come to yet
  current,       \* and the one it is at, if any
  candidate,     \* discovery_candidates by domain
  lead,          \* the promoted leads and the stranger: job, and the decision
  request,       \* the runner and the readers, building opportunities
  buyer,         \* evidence rows on the buyer of a company
  paid,          \* history: buyer searches the vendor charged for
  booked         \* provider_calls rows: what the search of a lead cost

runnerVars == <<stage, toPromote, current>>
discoveryRun == <<runStatus, funnel, runnerVars, candidate>>
discoveryVars == <<live, discoveryRun, lead, request, buyer, paid, booked>>

Leads == Domains \cup {Stranger}
Requests == Readers \cup {Runner}

NoCandidate == [class |-> "none", site |-> "none", linked |-> FALSE]
NoLead == [job |-> "none", by |-> "none", priority |-> "review"]
Queued == [NoLead EXCEPT !.job = "pending"]
EmptyFunnel == [promoted |-> 0, rejected |-> 0]
NoRequest == [at |-> "idle", todo |-> {}, for |-> {}, answer |-> "none"]

DiscoveryInit ==
  /\ live \in LiveChoices
  /\ runStatus = "none" /\ funnel = EmptyFunnel
  /\ stage = "idle" /\ toPromote = {} /\ current = {}
  /\ candidate = [d \in Domains |-> NoCandidate]
  /\ lead = [l \in Leads |-> IF l = Stranger THEN Queued ELSE NoLead]
  /\ request = [r \in Requests |-> NoRequest]
  /\ buyer = [d \in Domains |-> "none"]
  /\ paid = [d \in Domains |-> 0]
  /\ booked = [d \in Domains |-> << >>]

-----------------------------------------------------------------------------
(* The stages of a run.  Each transaction of the runner is a step.         *)

Outside == <<live, lead, request, buyer, paid, booked>>

\* create_run, then _advance between the stages: a row of its own each time.
\* A search plan always comes back: the fallback's, if the model fails or
\* only writes queries that would find other sellers.
Advances ==
  { <<"idle", "draft", "draft">>, <<"draft", "planning", "plan">>,
    <<"plan", "discovering", "search">>, <<"found", "screening", "screen">>,
    <<"screened", "promoting", "promote">> }

AdvanceRun ==
  /\ \E a \in Advances : stage = a[1] /\ runStatus' = a[2] /\ stage' = a[3]
  /\ UNCHANGED <<funnel, toPromote, current, candidate, Outside>>

\* A failing query is skipped.  Results are deduplicated by canonical domain
\* and platforms are dropped before anything is spent on them.
Unique(found) == found \ Junk

SearchCompanies(found) ==
  /\ stage = "search" /\ stage' = "found"
  /\ candidate' = [d \in Domains |->
       IF d \in Unique(found) THEN [NoCandidate EXCEPT !.class = "unscreened"]
       ELSE candidate[d]]
  /\ UNCHANGED <<runStatus, funnel, toPromote, current, Outside>>

Classes == {"promising", "possible", "unlikely", "insufficient_info"}
Found == {d \in Domains : candidate[d].class # "none"}
Of(verdict, class) == {d \in Found : verdict[d] = class}

\* screen_candidates: what the model leaves out, and all of a batch whose
\* call failed, is insufficient_info.  Promising ones come first under the cap.
Chosen_AnyOrder(verdict, T) ==
  LET S == Of(verdict, "promising") \cup Of(verdict, "possible")
  IN  /\ T \subseteq S
      /\ Cardinality(T) = (IF Cardinality(S) < PromotionCap THEN Cardinality(S)
                           ELSE PromotionCap)
Chosen(verdict, T) ==
  /\ Chosen_AnyOrder(verdict, T)
  /\ T \cap Of(verdict, "possible") # {} => Of(verdict, "promising") \subseteq T

ScreenCandidates(verdict, T) ==
  /\ stage = "screen" /\ stage' = "screened"
  /\ Chosen(verdict, T)
  /\ candidate' = [d \in Domains |->
       IF d \in Found THEN [candidate[d] EXCEPT !.class = verdict[d]] ELSE candidate[d]]
  /\ toPromote' = T
  /\ UNCHANGED <<runStatus, funnel, current, Outside>>

\* verify_candidate never raises: a page that cannot be fetched or read is
\* "unavailable", and that candidate survives.
AfterSite(site) == IF site = "rejected" THEN "demote" ELSE "ingest"

VerifyWebsite(d, site) ==
  /\ stage = "promote" /\ d \in toPromote
  /\ toPromote' = toPromote \ {d} /\ current' = {d}
  /\ candidate' = [candidate EXCEPT ![d].site = site]
  /\ stage' = AfterSite(site)
  /\ UNCHANGED <<runStatus, funnel, Outside>>

DemoteCandidate(d) ==
  /\ stage = "demote" /\ d \in current
  /\ candidate' = [candidate EXCEPT ![d].class = "unlikely"]
  /\ stage' = "promote" /\ current' = {}
  /\ UNCHANGED <<runStatus, funnel, toPromote, Outside>>

\* promote_candidate: ingest_lead and its first job, one transaction.
PromoteCandidate(d) ==
  /\ stage = "ingest" /\ d \in current
  /\ lead' = [lead EXCEPT ![d] = Queued]
  /\ stage' = "link"
  /\ UNCHANGED <<runStatus, funnel, toPromote, current, candidate, live,
                 request, buyer, paid, booked>>

\* update_candidate_promoted_lead: the next one.
LinkLead(d) ==
  /\ stage = "link" /\ d \in current
  /\ candidate' = [candidate EXCEPT ![d].linked = TRUE]
  /\ stage' = "promote" /\ current' = {}
  /\ UNCHANGED <<runStatus, funnel, toPromote, Outside>>

Linked == {d \in Domains : candidate[d].linked}
Rejected == {d \in Domains : candidate[d].site = "rejected"}

\* Counted along the way; here as the outcome of the loop.
Counted == [promoted |-> Cardinality(Linked), rejected |-> Cardinality(Rejected)]

FinishPromotion ==
  /\ stage = "promote" /\ toPromote = {}
  /\ runStatus' = "researching" /\ stage' = "drive"
  /\ funnel' = Counted
  /\ UNCHANGED <<toPromote, current, candidate, Outside>>

\* An exception inside _run_stages: the caller's funnel is still empty.
FailRun ==
  /\ stage \notin {"idle", "build", "ended"}
  /\ runStatus' = "failed" /\ funnel' = EmptyFunnel
  /\ stage' = "ended" /\ toPromote' = {} /\ current' = {}
  /\ UNCHANGED <<candidate, Outside>>

\* The process dies, or building the shortlist raises: nobody resumes a run.
RunDies ==
  /\ stage \notin {"idle", "ended"}
  /\ stage' = "ended" /\ toPromote' = {} /\ current' = {}
  /\ request' = [request EXCEPT ![Runner] = NoRequest]
  /\ UNCHANGED <<runStatus, funnel, candidate, live, lead, buyer, paid, booked>>

-----------------------------------------------------------------------------
(* The queue: the runner's own cycles beside a standing worker.            *)

QueueOnly == <<runStatus, funnel, toPromote, current, candidate, live, buyer, paid, booked>>

\* A live decision always waits for a human, and reads as "review".
Priorities(by) ==
  IF by = "live" THEN {"review"} ELSE {"contact_first", "worth_pursuing", "review", "skip"}

Decide(l, by) ==
  \E p \in Priorities(by) :
    lead' = [lead EXCEPT ![l] = [job |-> "done", by |-> by, priority |-> p]]

\* _drive_to_completion: a cycle takes any pending compute_score job there
\* is and runs it with the simulated handlers.
Claimable == {l \in Leads : lead[l].job = "pending"}

DriveCycle(l) ==
  /\ stage = "drive" /\ l \in Claimable
  /\ Decide(l, "simulated")
  /\ UNCHANGED <<QueueOnly, stage, request>>

WorkerClaims(l) ==
  /\ l \in Claimable
  /\ lead' = [lead EXCEPT ![l].job = "held"]
  /\ UNCHANGED <<QueueOnly, stage, request>>

\* The worker's handlers ask for the mode of the lead's own organization.
WorkerDecides(l) ==
  /\ lead[l].job = "held"
  /\ Decide(l, IF l \in live THEN "live" ELSE "simulated")
  /\ UNCHANGED <<QueueOnly, stage, request>>

\* An empty cycle ends the drive, and so does the fiftieth; jobs that a
\* worker holds, or that wait for a retry, are not waited for.
EndDrive ==
  /\ stage = "drive" /\ stage' = "build"
  /\ request' = [request EXCEPT ![Runner] = [NoRequest EXCEPT !.at = "build", !.todo = Linked]]
  /\ UNCHANGED <<QueueOnly, lead>>

-----------------------------------------------------------------------------
(* The shortlist: _build_opportunities, by the runner and by every reader. *)

RequestBecomes(r, q) == request' = [request EXCEPT ![r] = q]
Proceed(q) == [NoRequest EXCEPT !.at = "build", !.todo = q.todo \ q.for]
BuildOnly == <<discoveryRun, live, lead>>

ListOpportunities(r) ==
  /\ r \in Readers /\ request[r] = NoRequest /\ runStatus # "none"
  /\ RequestBecomes(r, [NoRequest EXCEPT !.at = "build", !.todo = Linked])
  /\ UNCHANGED <<BuildOnly, buyer, paid, booked>>

\* assess_suitability: only a site that was read may support a company; the
\* facts on it, and the market, may still contradict it.
Suitabilities(d) ==
  IF d \in Junk THEN {"contradicted"}
  ELSE CASE candidate[d].site = "verified" -> {"supported", "uncertain", "contradicted"}
         [] candidate[d].site = "rejected" -> {"contradicted"}
         [] OTHER -> {"uncertain"}

\* _apply_ceiling: what real evidence permits caps what the scorer produced.
Ceiling(p, s) ==
  CASE s = "supported" -> p
    [] s = "uncertain" -> IF p = "skip" THEN "skip" ELSE "review"
    [] s = "contradicted" -> "skip"

Eligible == {"contact_first", "worth_pursuing"}

\* execute_buyer_search up to the call: nothing to do without a positive
\* priority or for a buyer who is on file.  The remaining live allowance is
\* checked too, but no buyer search is ever counted against it.
WantsBuyer_Again(d, s) == Ceiling(lead[d].priority, s) \in Eligible
WantsBuyer(d, s) ==
  /\ Ceiling(lead[d].priority, s) \in Eligible
  /\ buyer[d] = "none"

BuildOpportunity(r, d, s, allowance) ==
  LET q == request[r]
      p == [q EXCEPT !.for = {d}]
  IN  /\ q.at = "build" /\ d \in q.todo /\ s \in Suitabilities(d)
      /\ IF WantsBuyer(d, s) /\ allowance
         THEN paid[d] < MaxSearches /\ RequestBecomes(r, [p EXCEPT !.at = "search"])
         ELSE RequestBecomes(r, Proceed(p))
      /\ UNCHANGED <<BuildOnly, buyer, paid, booked>>

\* find_buyers.  "nameless": people came back, but none with a name.
Answers == {"named", "nameless", "miss", "error"}
Charge(answer) == IF answer \in {"named", "nameless"} THEN 1 ELSE 0

FindBuyers(r, d, answer) ==
  /\ request[r].at = "search" /\ d \in request[r].for
  /\ paid' = [paid EXCEPT ![d] = @ + Charge(answer)]
  /\ RequestBecomes(r, [request[r] EXCEPT !.at = "book", !.answer = answer])
  /\ UNCHANGED <<BuildOnly, buyer, booked>>

\* record_provider_call: one key per lead, so only its first row is kept.
Row(d, answer) == IF booked[d] = << >> THEN <<Charge(answer)>> ELSE booked[d]

BookSearch(r, d) ==
  LET q == request[r]
  IN  /\ q.at = "book" /\ d \in q.for
      /\ booked' = [booked EXCEPT ![d] = Row(d, q.answer)]
      /\ RequestBecomes(r, IF q.answer = "named" THEN [q EXCEPT !.at = "name"] ELSE Proceed(q))
      /\ UNCHANGED <<BuildOnly, buyer, paid>>

\* _write_buyer_evidence: a transaction per field, the name first and the
\* address after it.
KeepName(r, d) ==
  LET q == request[r]
  IN  /\ q.at = "name" /\ d \in q.for
      /\ buyer' = [buyer EXCEPT ![d] = IF @ = "none" THEN "name" ELSE @]
      /\ RequestBecomes(r, [q EXCEPT !.at = "address"])
      /\ UNCHANGED <<BuildOnly, paid, booked>>

KeepAddress(r, d) ==
  LET q == request[r]
  IN  /\ q.at = "address" /\ d \in q.for
      /\ buyer' = [buyer EXCEPT ![d] = "address"]
      /\ RequestBecomes(r, Proceed(q))
      /\ UNCHANGED <<BuildOnly, paid, booked>>

\* A reader has its list; the runner completes the run with its own.
FinishReading(r) ==
  /\ r \in Readers /\ request[r].at = "build" /\ request[r].todo = {}
  /\ RequestBecomes(r, NoRequest)
  /\ UNCHANGED <<BuildOnly, buyer, paid, booked>>

CompleteRun ==
  /\ stage = "build" /\ request[Runner].todo = {}
  /\ runStatus' = "complete" /\ stage' = "ended"
  /\ RequestBecomes(Runner, NoRequest)
  /\ UNCHANGED <<funnel, toPromote, current, candidate, live, lead, buyer, paid, booked>>

ReaderDies(r) ==
  /\ r \in Readers /\ request[r] # NoRequest
  /\ RequestBecomes(r, NoRequest)
  /\ UNCHANGED <<BuildOnly, buyer, paid, booked>>

RequestStep(r, d) ==
  \/ \E s \in Suitabilities(d), allowance \in BOOLEAN : BuildOpportunity(r, d, s, allowance)
  \/ \E answer \in Answers : FindBuyers(r, d, answer)
  \/ BookSearch(r, d)
  \/ KeepName(r, d)
  \/ KeepAddress(r, d)

DiscoveryNext ==
  \/ AdvanceRun
  \/ \E found \in SUBSET Domains : SearchCompanies(found)
  \/ \E verdict \in [Found -> Classes], T \in SUBSET Domains : ScreenCandidates(verdict, T)
  \/ \E d \in Domains :
       \/ \E site \in {"verified", "rejected", "unavailable"} : VerifyWebsite(d, site)
       \/ DemoteCandidate(d) \/ PromoteCandidate(d) \/ LinkLead(d)
  \/ FinishPromotion \/ EndDrive \/ CompleteRun \/ FailRun \/ RunDies
  \/ \E r \in Requests, d \in Domains : RequestStep(r, d)
  \/ \E r \in Readers : ListOpportunities(r) \/ FinishReading(r) \/ ReaderDies(r)
  \/ \E l \in Leads : DriveCycle(l) \/ WorkerClaims(l) \/ WorkerDecides(l)

DiscoverySpec == DiscoveryInit /\ [][DiscoveryNext]_discoveryVars

-----------------------------------------------------------------------------
(* Properties.                                                             *)

\* Every variable keeps its shape: statuses, funnel counts and priorities are
\* those of discovery/models.py and recommendations.py.
DiscoveryTypeOK ==
  /\ live \in LiveChoices
  /\ runStatus \in {"none", "draft", "planning", "discovering", "screening",
                    "promoting", "researching", "complete", "failed"}
  /\ funnel \in [promoted : Nat, rejected : Nat]
  /\ toPromote \subseteq Domains /\ current \subseteq Domains
  /\ Cardinality(current) <= 1
  /\ candidate \in [Domains -> [class : Classes \cup {"none", "unscreened"},
                      site : {"none", "verified", "rejected", "unavailable"},
                      linked : BOOLEAN]]
  /\ lead \in [Leads -> [job : {"none", "pending", "held", "done"},
                 by : {"none", "simulated", "live"},
                 priority : Priorities("simulated")]]
  /\ \A r \in Requests : request[r].for \cup request[r].todo \subseteq Linked
  /\ buyer \in [Domains -> {"none", "name", "address"}]
  /\ paid \in [Domains -> 0..MaxSearches + Cardinality(Requests)]
  /\ booked \in [Domains -> {<< >>, <<0>>, <<1>>}]

Promoted == {d \in Domains : lead[d].job # "none"}

\* Only a company that screening liked and whose website did not speak against
\* it becomes a lead, never a directory or a platform (_run_stages).
OnlyScreenedBecomeLeads ==
  \A d \in Promoted :
    /\ d \notin Junk
    /\ candidate[d].class \in {"promising", "possible"}
    /\ candidate[d].site \in {"verified", "unavailable"}

\* The cap keeps the strongest survivors: as long as a promising company has
\* not been looked at, no merely possible one is a lead once all are done.
StrongestFirst ==
  (runStatus \in {"researching", "complete"}) =>
     \/ \A d \in Domains : candidate[d].class = "promising" => candidate[d].site # "none"
     \/ \A d \in Promoted : candidate[d].class # "possible"

\* What a run reports is what it left behind: once it says it is past
\* promoting, every lead it made is linked to its candidate and counted, and
\* every rejection too (ingest and link are two transactions).
FunnelIsTrue ==
  (runStatus \in {"researching", "complete"}) =>
     /\ Linked = Promoted
     /\ funnel.promoted = Cardinality(Promoted)
     /\ funnel.rejected =
          Cardinality({d \in Domains : candidate[d].site = "rejected" /\ d \notin Promoted})

\* Money for a buyer is spent only on a company whose own website was read
\* and whose lead was decided, and not by a person's queue: simulated facts
\* alone never buy a contact (_apply_ceiling, buyer_search_eligible).
BuyersOnlyForVerified ==
  \A d \in Domains : paid[d] > 0 =>
    /\ candidate[d].site = "verified" /\ candidate[d].linked
    /\ lead[d].job = "done" /\ lead[d].priority \in Eligible

\* The ledger never charges a search the vendor did not, has one row for the
\* search of a lead however often it ran, and has it before the buyer.
SearchLedgerIsSound ==
  \A d \in Domains :
    /\ Len(booked[d]) <= 1
    /\ booked[d] = <<1>> => paid[d] > 0
    /\ buyer[d] # "none" => booked[d] # << >> /\ paid[d] > 0

\* A buyer on file is not looked for again: after the searches under way, no
\* read of the shortlist costs anything (read_existing_buyer).
Searching(d) == {r \in Requests : request[r].at = "search" /\ d \in request[r].for}
KnownBuyerIsFree ==
  \A d \in Domains :
    buyer[d] # "none" /\ Searching(d) = {} => paid'[d] = paid[d] /\ Searching(d)' = {}

\* orchestrator.py:553-557: the selective passes happen "after every promoted
\* lead has reached a decision".
DecidedBeforeBuilding ==
  stage = "build" => \A d \in Linked : lead[d].job = "done"

\* migrations/0027_organization_execution_mode.sql: a live organization's leads
\* are decided by live acquisition, whose every outcome waits for a person.
NoAutonomyWhenLive ==
  \A l \in live : lead[l].job = "done" => lead[l].by = "live"

\* orchestrator.py:684-691: a second read "costs nothing beyond what the first
\* one already spent".
SecondReadIsFree == \A d \in Domains : paid[d] <= 1

\* discovery_runs.funnel: a failed run still accounts for the leads it made.
FailedRunsCount ==
  runStatus = "failed" => funnel.promoted = Cardinality(Linked)
=============================================================================
