------------------------- MODULE SimulatedAcquisition -------------------------
(***************************************************************************)
(* compute_score in simulated mode (jobs/handlers.py, policy/production.py,*)
(* policy/base.py): the catalogue is asked from its cheap end, through the *)
(* evidence table and the provider ledger, until the bounds of the score   *)
(* settle the decision or the model is confident.  Several leads of one    *)
(* company run at once, one attempt of a lead at a time (its row is        *)
(* locked), and an attempt may die between any two transactions.           *)
(*                                                                         *)
(* A source always answers an entity alike (the frozen corpus, or evidence *)
(* synthesized from the identity), so an answer is a constant; that the    *)
(* model is confident enough is free, as the model is data.  Money is in   *)
(* units of 0.0002 USD.                                                    *)
(***************************************************************************)
EXTENDS Scoring, FiniteSetsExt, SequencesExt, Functions

CONSTANTS
  SimLeads,       \* leads of one company, each with a person of its own
  Offered,        \* the sources of this instance
  Worlds,         \* a sequence; per source, its answer: [found : facts, billed : BOOLEAN]
  Profiles,       \* a sequence: the configuration of each profile version
  MaxRuns,        \* jobs.max_attempts
  MaxUpsets       \* bound: deaths, expiries and profile changes together

VARIABLES
  world,          \* which of Worlds is true
  activeProfile,  \* the organization's active version
  shared,         \* evidence: the fresh <<source, entity, field>>
  callRow,        \* provider_calls: <<lead, source>> |-> what the row says
  bought,         \* history: calls that were made, per <<source, entity>>
  run,            \* where each lead's attempt is
  decided,        \* decision_receipts
  upsets          \* history: deaths, expiries and profile changes so far

simVars == <<world, activeProfile, shared, callRow, bought, run, decided, upsets>>

\* CATALOG, cheapest first; trust is the confidence of a source in percent.
CATALOG ==
  << [name |-> "inbound_payload", entity |-> "person", price |-> 0, trust |-> 82,
      fields |-> {"title_seniority", "title_function"}],
     [name |-> "internal_crm", entity |-> "company", price |-> 0, trust |-> 75,
      fields |-> {"industry", "employee_count"}],
     [name |-> "dns_web", entity |-> "company", price |-> 4, trust |-> 84,
      fields |-> {"industry"}],
     [name |-> "firmographics_basic", entity |-> "company", price |-> 60, trust |-> 70,
      fields |-> {"employee_count", "industry"}],
     [name |-> "contact_enrich", entity |-> "person", price |-> 275, trust |-> 90,
      fields |-> {"title_seniority", "title_function"}],
     [name |-> "firmographics_premium", entity |-> "company", price |-> 450, trust |-> 88,
      fields |-> {"employee_count", "industry"}],
     [name |-> "intent_signals", entity |-> "company", price |-> 1250, trust |-> 78,
      fields |-> {"buying_intent", "recent_trigger_event"}],
     [name |-> "deep_research", entity |-> "company", price |-> 3000, trust |-> 92,
      fields |-> {"buying_intent", "recent_trigger_event", "disqualifying_flag",
                  "employee_count", "industry"}] >>

ASSUME SimAssumption ==
  /\ Offered \subseteq {CATALOG[i].name : i \in DOMAIN CATALOG}
  /\ MaxRuns \in Nat \ {0} /\ MaxUpsets \in Nat
  /\ IsFiniteSet(SimLeads)
  /\ 1 \in DOMAIN Profiles /\ \A v \in DOMAIN Profiles : ConfigIsSound(Profiles[v])

\* The sources of these names, in the order of the catalogue, and the walk's.
Sourced(names) ==
  LET among[i \in 0..Len(CATALOG)] ==
        IF i = 0 THEN << >>
        ELSE IF CATALOG[i].name \in names THEN Append(among[i - 1], CATALOG[i])
        ELSE among[i - 1]
  IN  among[Len(CATALOG)]
Walk == Sourced(Offered)
Entity(l, spec) == IF spec.entity = "company" THEN "company" ELSE l

\* Only fields the source claims to supply (SimulatedProvider.fetch).
GivenIn(w, spec) ==
  LET found == Worlds[w][spec.name].found
  IN  Restrict(found, DOMAIN found \cap spec.fields)
Given(spec) == GivenIn(world, spec)
Success(spec) == DOMAIN Given(spec) # {}

\* score_results after the first n sources.
ClaimsIn(w, n) ==
  UNION {{[field |-> f, value |-> GivenIn(w, Walk[i])[f], trust |-> Walk[i].trust, rank |-> i] :
            f \in DOMAIN GivenIn(w, Walk[i])} : i \in 1..n}
FactsAfter(w, n) == ResolveCandidates(ClaimsIn(w, n))

\* The engine's view of every world, under every version, after n sources, and
\* the decisions that some value of the fields still unknown would give.
Verdicts ==
  { LET c == Profiles[v]
        facts == FactsAfter(w, n)
    IN  [world |-> w, version |-> v, n |-> n,
         decision  |-> DecisionFor(c, ScoreFacts(c, facts)),
         settled   |-> SettledDecision(c, ComputeBounds(c, facts)),
         reachable |-> ReachableDecisions(c, facts)]
    : w \in DOMAIN Worlds, v \in DOMAIN Profiles, n \in 0..Len(Walk) }
Verdict(v, n) ==
  CHOOSE e \in Verdicts : e.world = world /\ e.version = v /\ e.n = n

NotRunning == [at |-> "queued", runs |-> 0, n |-> 0]

SimInit ==
  /\ world \in DOMAIN Worlds /\ activeProfile = 1
  /\ shared = {} /\ callRow = << >>
  /\ bought = [k \in Offered \X (SimLeads \cup {"company"}) |-> 0]
  /\ run = [l \in SimLeads |-> NotRunning]
  /\ decided = << >> /\ upsets = 0

RunBecomes(l, at) == run' = [run EXCEPT ![l].at = at]
TablesStay == UNCHANGED <<world, activeProfile, shared, callRow, bought, decided>>
Upset == upsets < MaxUpsets /\ upsets' = upsets + 1

\* The configuration is read once and scopes the whole walk.
StartRun(l) ==
  /\ run[l].at = "queued" /\ l \notin DOMAIN decided /\ run[l].runs < MaxRuns
  /\ run' = [run EXCEPT ![l] =
       [at |-> "walking", runs |-> @.runs + 1, n |-> 0, version |-> activeProfile]]
  /\ UNCHANGED upsets /\ TablesStay

ConfigOf(l) == run[l].version

\* _DurableEvidenceCache.get: a hit needs every field the source supplies.
Cached(l, spec) == {<<spec.name, Entity(l, spec), f>> : f \in spec.fields} \subseteq shared

\* CalibratedBoundsPolicy.run: settled, or something is known and the model is
\* confident, or nothing is left; confident also decides who acts.
StopReason(l, confident) ==
  IF Verdict(ConfigOf(l), run[l].n).settled # "open" THEN "decision_settled"
  ELSE IF run[l].n > 0 /\ confident THEN "confidence_reached"
  ELSE IF run[l].n = Len(Walk) THEN "all_providers_called"
  ELSE "none"

\* RunContext.fetch: a lookup, and on a miss a call that costs its price unless
\* the source does not bill for finding nothing.
Lookup(l, confident) ==
  /\ run[l].at = "walking" /\ StopReason(l, confident) = "none"
  /\ LET spec == Walk[run[l].n + 1]
     IN  IF Cached(l, spec)
         THEN RunBecomes(l, "hit") /\ UNCHANGED bought
         ELSE /\ bought' = [bought EXCEPT ![<<spec.name, Entity(l, spec)>>] = @ + 1]
              /\ RunBecomes(l, IF Success(spec) THEN "store" ELSE "ledger")
  /\ UNCHANGED <<world, activeProfile, shared, callRow, decided, upsets>>

\* _DurableEvidenceCache.put: every field of a success, in one commit.
StoreEvidence(l) ==
  /\ run[l].at = "store"
  /\ LET spec == Walk[run[l].n + 1]
     IN  shared' = shared \cup {<<spec.name, Entity(l, spec), f>> : f \in DOMAIN Given(spec)}
  /\ RunBecomes(l, "ledger")
  /\ UNCHANGED <<world, activeProfile, callRow, bought, decided, upsets>>

\* _DurableCallLedger.record: the job's key for the source; its first row stays.
FirstRow(l, spec, new) ==
  IF <<l, spec.name>> \in DOMAIN callRow THEN << >> ELSE [k \in {<<l, spec.name>>} |-> new]

RecordCall(l) ==
  /\ run[l].at \in {"ledger", "hit"}
  /\ LET spec == Walk[run[l].n + 1]
         owed == run[l].at = "ledger" /\ (Success(spec) \/ Worlds[world][spec.name].billed)
         row  == FirstRow(l, spec, [hit |-> run[l].at = "hit",
                                    cost |-> IF owed THEN spec.price ELSE 0])
     IN  callRow' = [k \in DOMAIN callRow \cup DOMAIN row |->
                       IF k \in DOMAIN row THEN row[k] ELSE callRow[k]]
  /\ run' = [run EXCEPT ![l].at = "walking", ![l].n = @ + 1]
  /\ UNCHANGED <<world, activeProfile, shared, bought, decided, upsets>>

\* The receipt names the version it was scored with.
VersionOf_Latest(l) == activeProfile
VersionOf(l) == run[l].version

\* The receipt, the score and every transition of the lead in one commit.
CommitDecision(l, confident) ==
  /\ run[l].at = "walking" /\ StopReason(l, confident) # "none"
  /\ decided' = [k \in DOMAIN decided \cup {l} |->
       IF k # l THEN decided[k]
       ELSE [version |-> VersionOf(l), n |-> run[l].n, autonomous |-> confident,
             stop |-> StopReason(l, confident),
             decision |-> Verdict(ConfigOf(l), run[l].n).decision]]
  /\ RunBecomes(l, "done")
  /\ UNCHANGED <<world, activeProfile, shared, callRow, bought, upsets>>

\* The worker dies, the lease expires, and the job is claimed again.
RunDiesMidway(l) ==
  /\ run[l].at \in {"walking", "store", "ledger", "hit"} /\ Upset
  /\ run' = [run EXCEPT ![l] = [at |-> "queued", runs |-> @.runs, n |-> 0]]
  /\ TablesStay

\* A field has the same time to live from every source (ttl_policy.py).
FieldExpires(f) ==
  /\ \E e \in shared : e[3] = f
  /\ Upset
  /\ shared' = {e \in shared : e[3] # f}
  /\ UNCHANGED <<world, activeProfile, callRow, bought, run, decided>>

\* create_profile: the next version (IcpProfiles).
ActivateProfile(v) ==
  /\ v = activeProfile + 1 /\ activeProfile' = v /\ Upset
  /\ UNCHANGED <<world, shared, callRow, bought, run, decided>>

SimNext ==
  \/ \E l \in SimLeads :
       \/ StartRun(l) \/ StoreEvidence(l) \/ RecordCall(l) \/ RunDiesMidway(l)
       \/ \E confident \in BOOLEAN : Lookup(l, confident) \/ CommitDecision(l, confident)
  \/ \E f \in SCORED_FIELDS : FieldExpires(f)
  \/ \E c \in DOMAIN Profiles : ActivateProfile(c)

-----------------------------------------------------------------------------
\* compute_bounds and settled_decision: the walk stops for "decision_settled"
\* exactly when no value of the fields nobody supplied could change the
\* decision, under any configuration and whatever the sources claimed.
SettledIsExact ==
  \A l \in {x \in SimLeads : run[x].at = "walking"} :
    LET verdict == Verdict(run[l].version, run[l].n)
    IN  /\ verdict.settled = "open" => Cardinality(verdict.reachable) > 1
        /\ verdict.settled # "open" => verdict.reachable = {verdict.settled}
        /\ verdict.decision \in verdict.reachable

\* A receipt can be replayed: whatever happened to the profile, the evidence
\* and the attempts before it, it says what one uninterrupted walk under its
\* own configuration decides, as early as that walk may stop, and the ledger
\* has a row of this lead for every source it stands on.
ReceiptIsReplayable ==
  \A l \in DOMAIN decided :
    LET r == decided[l]
        verdict(n) == Verdict(r.version, n)
    IN  /\ r.decision = verdict(r.n).decision
        /\ \A m \in 0..r.n - 1 : verdict(m).settled = "open"
        /\ r.stop = "decision_settled" => verdict(r.n).reachable = {r.decision}
        /\ \A i \in 1..r.n : <<l, Walk[i].name>> \in DOMAIN callRow

\* The ledger never shows more paid calls of a source for an entity than were
\* made; it may show fewer (a crash between StoreEvidence and RecordCall).
LedgerNeverInvents ==
  \A spec \in Range(Walk) : \A e \in {Entity(l, spec) : l \in SimLeads} :
    Cardinality({l \in SimLeads :
       /\ Entity(l, spec) = e /\ <<l, spec.name>> \in DOMAIN callRow
       /\ ~callRow[<<l, spec.name>>].hit}) <= bought[<<spec.name, e>>]

\* production.py:61: "Nothing unbought could move the decision".  True of what
\* is unknown, not of what a more trusted source may correct: see the README.
SettledMeansFinal ==
  \A l \in DOMAIN decided :
    decided[l].stop = "decision_settled" =>
      decided[l].decision = Verdict(decided[l].version, Len(Walk)).decision

\* Several leads of a company, or several attempts of a lead, do not pay again
\* for what a source has answered completely, as long as all of it is fresh.
SharedAnswerIsFree ==
  \A spec \in Range(Walk) : \A e \in {Entity(l, spec) : l \in SimLeads} :
    {<<spec.name, e, f>> : f \in spec.fields} \subseteq shared
      => bought'[<<spec.name, e>>] = bought[<<spec.name, e>>]
=============================================================================
