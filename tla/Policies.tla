-------------------------------- MODULE Policies --------------------------------
(***************************************************************************)
(* The policies of the benchmark (policy/, confidence/threshold.py): a     *)
(* threshold is selected on a calibration sample, then a policy decides    *)
(* for one lead after the other what to buy, sharing an in-memory cache    *)
(* and a ledger; a waterfall is tuned by running every gate of a grid over *)
(* the same leads.  What the confidence model predicts is free.            *)
(*                                                                         *)
(* Money is in units of 0.0002 USD and chances in 1/1000, rounded down.    *)
(***************************************************************************)
EXTENDS SimulatedAcquisition, FiniteSetsExt, SequencesExt, Functions

CONSTANTS
  Priced,         \* the sources of this instance, with answers in Worlds
  Corpora,        \* sequences of leads: [world, value, oracle]
  Strategies,     \* the policies under comparison
  GATE_GRID,      \* a sequence of [mode, gate], in the order they are tried
  Confidences,    \* what the model may predict, in percent
  ErrorTargets,        \* error rates to guarantee, in percent
  MaxSample       \* bound on the calibration sample, at most 5

VARIABLES
  bench,          \* "fit", "ready", "running", "done"
  seen,           \* the holdout predictions, most confident first
  tau,            \* the selected threshold
  strategy, corpus,
  place,          \* the lead being decided
  fetched,        \* what was asked for it
  expended,       \* and spent on it
  kept,           \* EvidenceCache: the <<source, entity>> it answers for
  invoiced,       \* history: calls made in this context
  outcomes,       \* PolicyOutcome per decided lead
  tried           \* tune_waterfall: the summary of every gate so far

policyVars == <<bench, seen, tau, strategy, corpus, place, fetched, expended,
                kept, invoiced, outcomes, tried>>

TIER_ORDER == <<"free", "cheap", "mid", "expensive">>
REJECT_ALL_THRESHOLD == 101
BUDGET_STEPS == 8

\* What the catalogue says beyond CATALOG: tier, coverage in percent, latency.
ECONOMICS ==
  [inbound_payload       |-> [tier |-> 1, coverage |-> 100, latency |-> 0],
   internal_crm          |-> [tier |-> 1, coverage |-> 35, latency |-> 15],
   dns_web               |-> [tier |-> 2, coverage |-> 88, latency |-> 250],
   firmographics_basic   |-> [tier |-> 2, coverage |-> 82, latency |-> 320],
   contact_enrich        |-> [tier |-> 3, coverage |-> 74, latency |-> 480],
   firmographics_premium |-> [tier |-> 3, coverage |-> 91, latency |-> 600],
   intent_signals        |-> [tier |-> 4, coverage |-> 62, latency |-> 1100],
   deep_research         |-> [tier |-> 4, coverage |-> 88, latency |-> 4200]]
BILL_ON_MISS == {"intent_signals", "deep_research"}
BUSINESS_VALUE == [small |-> 25000, medium |-> 100000, large |-> 400000]

ASSUME PolicyAssumption ==
  /\ Priced \subseteq DOMAIN ECONOMICS /\ MaxSample \in 1..5
  /\ Corpora \subseteq Seq([world : DOMAIN Worlds, value : DOMAIN BUSINESS_VALUE,
                            oracle : {"auto_route", "reject", "escalate_human"}])
  /\ GATE_GRID \in Seq([mode : {"upper_bound", "current_score"}, gate : Nat])
  /\ GATE_GRID # << >>
  /\ Confidences \cup ErrorTargets \subseteq 0..100
  /\ \A s \in Strategies :
       /\ s.kind \in {"full", "tune", "adaptive", "escalation"}
       /\ s.kind \in {"adaptive", "escalation"} => {s.cap, s.scale, s.review} \subseteq Nat

Rates == Sourced(Priced)
Tier(spec) == ECONOMICS[spec.name].tier

-----------------------------------------------------------------------------
(* confidence/threshold.py                                                 *)

\* The exact 95% upper bound on the error rate, in percent: row n, errors + 1.
CLOPPER_PEARSON ==
  << <<95, 100>>, <<78, 97, 100>>, <<63, 86, 98, 100>>,
     <<53, 75, 90, 99, 100>>, <<45, 66, 81, 92, 99, 100>> >>

\* Accepting a prediction accepts its equals: only a break is a candidate.
IsBreak(sample, i) ==
  i = Len(sample) \/ sample[i + 1].confidence # sample[i].confidence

\* The lowest threshold whose error bound meets the target.
SelectThreshold(sample, target) ==
  LET errors(i) == Cardinality({j \in 1..i : ~sample[j].correct})
      scan[i \in 0..Len(sample)] ==
        IF i = 0 THEN REJECT_ALL_THRESHOLD
        ELSE IF IsBreak(sample, i) /\ CLOPPER_PEARSON[i][errors(i) + 1] <= target
        THEN sample[i].confidence ELSE scan[i - 1]
  IN  scan[Len(sample)]

-----------------------------------------------------------------------------
(* What a set of answers says.                                             *)

\* score_results for a set of sources, under the reference configuration.
Pictures ==
  { LET claims == UNION {{[field |-> f, value |-> GivenIn(w, Rates[i])[f],
                           trust |-> Rates[i].trust, rank |-> i] :
                            f \in DOMAIN GivenIn(w, Rates[i])} :
                           i \in {j \in DOMAIN Rates : Rates[j].name \in names}}
        facts == ResolveCandidates(claims)
        bounds == ComputeBounds(REFERENCE_CONFIG, facts)
    IN  [world |-> w, names |-> names, facts |-> facts, bounds |-> bounds,
         decision |-> DecisionFor(REFERENCE_CONFIG, bounds.current),
         settled |-> SettledDecision(REFERENCE_CONFIG, bounds) # "open",
         reachable |-> ReachableDecisions(REFERENCE_CONFIG, facts)]
    : w \in DOMAIN Worlds, names \in SUBSET Priced }
Picture(w, names) == CHOOSE p \in Pictures : p.world = w /\ p.names = names

CurrentLead == corpus[place]
CurrentPicture == Picture(CurrentLead.world, fetched)

-----------------------------------------------------------------------------
(* adaptive.py, escalation_aware.py: the expected value of a source.       *)

Unknown(facts, spec) == spec.fields \ DOMAIN facts

\* The part of [lo, hi] that decides alike.
DecisionMeasure(lo, hi, decision) ==
  LET c == REFERENCE_CONFIG
      upTo(x, y) == Max({0, x - y})
  IN  CASE decision = "auto_route" -> upTo(hi, Max({lo, c.qualify}))
        [] decision = "reject"     -> upTo(Min({hi, c.reject}), lo)
        [] OTHER                   -> upTo(Min({hi, c.qualify}), Max({lo, c.reject}))

\* The chance that the source alone flips the decision, blockers by base rate.
DisqualifierRate == 70
MarginalFlip(p, spec) ==
  LET unknown == Unknown(p.facts, spec)
      blocked == IF DISQUALIFIER_FIELD \in unknown /\ p.decision # "reject"
                 THEN DisqualifierRate ELSE 0
      gain == SumFunction([f \in unknown \cap ADDITIVE_FIELDS |->
                             MaxFieldPoints(REFERENCE_CONFIG, f)])
      same == DecisionMeasure(p.bounds.current, p.bounds.current + gain, p.decision)
      moved == IF gain = 0 THEN 0 ELSE ((gain - same) * 1000) \div gain
  IN  IF unknown = {} THEN 0 ELSE blocked + ((1000 - blocked) * moved) \div 1000

COMPLETENESS_WEIGHTS ==
  [f \in SCORED_FIELDS |->
     IF f = DISQUALIFIER_FIELD THEN 20 ELSE MaxFieldPoints(REFERENCE_CONFIG, f)]
Weight(fs) == SumFunctionOnSet(COMPLETENESS_WEIGHTS, fs)

\* The fields a source is credited with: those still unknown.
Supplied(facts, spec) == Unknown(facts, spec)

\* The share of the missing information it supplies, times its coverage.
InformationShare(facts, spec) ==
  LET missing == Weight(SCORED_FIELDS \ DOMAIN facts)
  IN  IF missing = 0 THEN 0
      ELSE (ECONOMICS[spec.name].coverage * Weight(Supplied(facts, spec)) * 10) \div missing

FlipChance(p, spec, confidence) ==
  Min({1000, Max({((100 - confidence) * InformationShare(p.facts, spec)) \div 100,
                  MarginalFlip(p, spec)})})

ExpectedCost(spec) ==
  IF spec.name \in BILL_ON_MISS THEN spec.price
  ELSE (spec.price * ECONOMICS[spec.name].coverage) \div 100
LatencyPenalty(spec) == ECONOMICS[spec.name].latency \div 20

\* The review avoided, for a source expected to bring the model past tau; the
\* projection moves only for a source that supplies something unknown.
EscalationValue(p, spec, confidence, helpful) ==
  IF /\ spec.name \in helpful /\ Unknown(p.facts, spec) # {} /\ confidence < tau
  THEN (ECONOMICS[spec.name].coverage * strategy.review) \div 100 ELSE 0

NetEvoi(p, spec, confidence, helpful) ==
  (FlipChance(p, spec, confidence) * ((BUSINESS_VALUE[CurrentLead.value] * strategy.scale)
     \div 100)) \div 1000
    + EscalationValue(p, spec, confidence, helpful)
    - ExpectedCost(spec) - LatencyPenalty(spec)

\* Affordable before it is chosen: a costly favourite falls back to a cheaper one.
Affordable(spec) == expended + spec.price <= strategy.cap

Remaining == {spec \in Range(Rates) : spec.name \notin fetched}

\* The greatest net value, then the cheapest, then the first.
Best(p, confidence, helpful) ==
  LET weighed == {[net |-> NetEvoi(p, spec, confidence, helpful), spec |-> spec] :
                    spec \in {s \in Remaining : Affordable(s)}}
      precedes(a, b) ==
        \/ a.net > b.net
        \/ a.net = b.net /\ a.spec.price < b.spec.price
        \/ a.net = b.net /\ a.spec.price = b.spec.price
             /\ \E i, j \in DOMAIN Rates : /\ Rates[i] = a.spec /\ Rates[j] = b.spec
                                             /\ i <= j
  IN  CHOOSE a \in weighed : \A b \in weighed : precedes(a, b)

-----------------------------------------------------------------------------
(* The runner: a fresh context per evaluation, leads in a fixed order.     *)

Fresh ==
  /\ place' = 1 /\ fetched' = {} /\ expended' = 0
  /\ kept' = {} /\ invoiced' = << >> /\ outcomes' = << >>

PoliciesInit ==
  /\ bench = "fit" /\ seen = << >> /\ tau = REJECT_ALL_THRESHOLD
  /\ strategy = [kind |-> "none"] /\ corpus = << >>
  /\ place = 1 /\ fetched = {} /\ expended = 0
  /\ kept = {} /\ invoiced = << >> /\ outcomes = << >> /\ tried = << >>

\* One more prediction of the holdout, in the order select_threshold sorts them.
Observe(confidence, correct) ==
  /\ bench = "fit" /\ Len(seen) < MaxSample
  /\ seen # << >> => confidence <= Last(seen).confidence
  /\ seen' = Append(seen, [confidence |-> confidence, correct |-> correct])
  /\ UNCHANGED <<bench, tau, strategy, corpus, place, fetched, expended, kept,
                 invoiced, outcomes, tried>>

FitThreshold(target) ==
  /\ bench = "fit" /\ seen # << >>
  /\ bench' = "ready" /\ tau' = SelectThreshold(seen, target)
  /\ strategy' = [kind |-> "none", target |-> target]
  /\ UNCHANGED <<seen, corpus, place, fetched, expended, kept, invoiced, outcomes, tried>>

\* evaluate_policy, or tune_waterfall from its first gate; the sample is gone.
ChoosePolicy(s, c) ==
  /\ bench = "ready" /\ bench' = "running" /\ seen' = << >>
  /\ strategy' = IF s.kind = "tune"
                 THEN [kind |-> "tune", depth |-> s.depth, mode |-> GATE_GRID[1].mode,
                       gate |-> GATE_GRID[1].gate]
                 ELSE s
  /\ corpus' = c /\ tried' = << >> /\ Fresh
  /\ UNCHANGED tau

Deciding == bench = "running" /\ place <= Len(corpus)
EntityKey(spec) == IF spec.entity = "company" THEN <<"company", CurrentLead.world>>
                   ELSE <<"person", place>>
InCache(spec) == <<spec.name, EntityKey(spec)>> \in kept

\* RunContext.fetch: every answer is kept, a miss as well.
KeptAfter(spec) == kept \cup {<<spec.name, EntityKey(spec)>>}

Billed(spec) ==
  IF DOMAIN GivenIn(CurrentLead.world, spec) # {} \/ spec.name \in BILL_ON_MISS
  THEN spec.price ELSE 0

Buy(spec) ==
  /\ fetched' = fetched \cup {spec.name}
  /\ kept' = KeptAfter(spec)
  /\ IF InCache(spec) THEN UNCHANGED <<expended, invoiced>>
     ELSE /\ expended' = expended + Billed(spec)
          /\ invoiced' = Append(invoiced, <<spec.name, EntityKey(spec)>>)
  /\ UNCHANGED <<bench, seen, tau, strategy, corpus, place, outcomes, tried>>

\* The outcome of a lead, and on to the next one.
Conclude(stop, confidence) ==
  /\ outcomes' = Append(outcomes,
       [stop |-> stop, called |-> fetched, cost |-> expended,
        decision |-> CurrentPicture.decision, autonomous |-> confidence >= tau])
  /\ place' = place + 1 /\ fetched' = {} /\ expended' = 0
  /\ UNCHANGED <<bench, seen, tau, strategy, corpus, kept, invoiced, tried>>

\* The sources a ladder policy may ask, in the order of the catalogue.
Ladder ==
  Sourced({spec.name : spec \in {s \in Range(Rates) :
             strategy.kind = "full" \/ Tier(s) <= strategy.depth}})
NextRung == Ladder[Cardinality(fetched) + 1]

\* The gate fires once, between the free tier and the first source past it.
GatedOut ==
  /\ fetched # {}
  /\ (IF strategy.mode = "upper_bound" THEN CurrentPicture.bounds.upper
      ELSE CurrentPicture.bounds.current) < strategy.gate
AtGate ==
  /\ strategy.kind = "tune" /\ Tier(NextRung) > 1
  /\ \A spec \in Range(Ladder) : spec.name \in fetched => Tier(spec) = 1

\* FullEnrichment.run and TunedWaterfall.run.
ClimbLadder(confidence) ==
  /\ Deciding /\ strategy.kind \in {"full", "tune"}
  /\ IF Cardinality(fetched) = Len(Ladder)
     THEN Conclude(IF strategy.kind = "full" THEN "all_providers_called" ELSE "tier_limit",
                   confidence)
     ELSE IF AtGate /\ GatedOut THEN Conclude("gated_out_of_icp", confidence)
     ELSE Buy(NextRung)

\* AdaptiveVoI.run; with a priced review, EscalationAwareVoI.run, which looks
\* at the confidence first and does not stop for a settled decision.
StopBeforeBuying(p, confidence) ==
  LET confident == fetched # {} /\ confidence >= tau
  IN  IF Cardinality(fetched) = BUDGET_STEPS THEN "max_steps"
      ELSE IF strategy.kind = "adaptive" /\ p.settled THEN "decision_settled"
      ELSE IF confident THEN "confidence_reached"
      ELSE IF strategy.kind = "escalation" /\ p.settled /\ strategy.review = 0
      THEN "decision_settled"
      ELSE IF Remaining = {} THEN "all_providers_called"
      ELSE IF \A spec \in Remaining : ~Affordable(spec) THEN "budget_exhausted"
      ELSE "none"

WeighNext(confidence, helpful) ==
  /\ Deciding /\ strategy.kind \in {"adaptive", "escalation"}
  /\ LET p == CurrentPicture
         stop == StopBeforeBuying(p, confidence)
         best == Best(p, confidence, helpful)
     IN  IF stop # "none" THEN Conclude(stop, confidence)
         ELSE IF best.net <= 0 THEN Conclude("no_positive_evoi", confidence)
         ELSE Buy(best.spec)

\* summarise: agreement with the oracle, and what it cost.
Summary ==
  [mode |-> strategy.mode, gate |-> strategy.gate,
   agreed |-> Cardinality({i \in DOMAIN corpus : outcomes[i].decision = corpus[i].oracle}),
   cost |-> SumFunction([i \in DOMAIN corpus |-> outcomes[i].cost])]

\* tune_waterfall goes on to the next gate with a context of its own.
FinishCorpus ==
  /\ bench = "running" /\ place > Len(corpus)
  /\ IF strategy.kind # "tune"
     THEN bench' = "done" /\ UNCHANGED <<strategy, tried, place, fetched, expended,
                                         kept, invoiced, outcomes>>
     ELSE /\ tried' = Append(tried, Summary) /\ Fresh
          /\ IF Len(tried') = Len(GATE_GRID)
             THEN bench' = "done" /\ UNCHANGED strategy
             ELSE /\ strategy' = [strategy EXCEPT !.mode = GATE_GRID[Len(tried') + 1].mode,
                                                  !.gate = GATE_GRID[Len(tried') + 1].gate]
                  /\ UNCHANGED bench
  /\ UNCHANGED <<seen, tau, corpus>>

\* Agreement first, then the cheaper gate; the first of equals stays.
Beats(a, b) == a.agreed > b.agreed \/ (a.agreed = b.agreed /\ a.cost < b.cost)
Tuned ==
  LET pick[i \in 1..Len(tried)] ==
        IF i = 1 THEN tried[1]
        ELSE IF Beats(tried[i], pick[i - 1]) THEN tried[i] ELSE pick[i - 1]
  IN  pick[Len(tried)]

\* The sources that the model may expect to bring it past tau.
Helpful(confidence) ==
  IF Deciding /\ strategy.kind = "escalation" /\ confidence < tau /\ strategy.review > 0
  THEN SUBSET {spec.name : spec \in {s \in Remaining :
                 Affordable(s) /\ Unknown(CurrentPicture.facts, s) # {}}}
  ELSE {{}}

PoliciesNext ==
  \/ \E confidence \in Confidences :
       \/ \E correct \in BOOLEAN : Observe(confidence, correct)
       \/ ClimbLadder(confidence)
       \/ \E helpful \in Helpful(confidence) : WeighNext(confidence, helpful)
  \/ \E target \in ErrorTargets : FitThreshold(target)
  \/ \E s \in Strategies, c \in Corpora : ChoosePolicy(s, c)
  \/ FinishCorpus

-----------------------------------------------------------------------------
\* select_threshold: everything at or above tau errs within the target at 95%,
\* and no lower threshold does, ties and all.
TauIsLowest ==
  bench = "ready" =>
    LET accepted(t) == {i \in DOMAIN seen : seen[i].confidence >= t}
        defensible(t) ==
          CLOPPER_PEARSON[Cardinality(accepted(t))]
            [Cardinality({i \in accepted(t) : ~seen[i].correct}) + 1] <= strategy.target
        offered == {seen[i].confidence : i \in DOMAIN seen}
    IN  tau = Min({REJECT_ALL_THRESHOLD} \cup {t \in offered : defensible(t)})

\* A lead is abandoned only for what its outcome says: at a gate within the
\* reject band, or settled, no answer still missing could have changed the
\* decision; out of budget, nothing left was affordable.
PoliciesStopRightly ==
  \A i \in DOMAIN outcomes :
    LET o == outcomes[i]
        p == Picture(corpus[i].world, o.called)
    IN  /\ o.stop = "gated_out_of_icp" /\ strategy.mode = "upper_bound"
             /\ strategy.gate <= REFERENCE_CONFIG.reject => p.reachable = {"reject"}
        /\ o.stop = "decision_settled" => p.reachable = {o.decision}
        /\ o.stop = "budget_exhausted" =>
             \A spec \in Range(Rates) :
               spec.name \notin o.called => o.cost + spec.price > strategy.cap

\* tune_waterfall hands the baseline the best of its grid, the cheapest of the
\* equally good.
TunedIsBest ==
  bench = "done" /\ strategy.kind = "tune" =>
    \A i \in DOMAIN tried :
      /\ tried[i].agreed <= Tuned.agreed
      /\ tried[i].agreed = Tuned.agreed => tried[i].cost >= Tuned.cost

\* budget_usd_cap bounds the spend of a lead, however its steps interleave with
\* what the cache had from other leads.
CapHolds ==
  strategy.kind \in {"adaptive", "escalation"} =>
    /\ expended <= strategy.cap
    /\ \A i \in DOMAIN outcomes : outcomes[i].cost <= strategy.cap

\* One call per source and entity and context, and an adaptive policy never
\* buys what it knows.
PaidOnce == Cardinality(Range(invoiced)) = Len(invoiced)
BuysOnlyNews ==
  /\ PaidOnce'
  /\ strategy.kind \in {"adaptive", "escalation"} =>
       \A spec \in Range(Rates) :
         spec.name \in fetched' \ fetched => Unknown(CurrentPicture.facts, spec) # {}
=============================================================================
