------------------------------ MODULE Targeting ------------------------------
(***************************************************************************)
(* How a targeting profile comes about and learns (intelligence/targeting, *)
(* normalization, schemas, outcomes, proposals; icp_profiles.py).  A draft *)
(* says in levels and lists what a business looks for; 100 whole points    *)
(* are split over six dimensions; labelled past results suggest changes of *)
(* the draft, and an accepted suggestion is normalised again.              *)
(*                                                                         *)
(* A rate is a fraction; its comparisons are cross-multiplied.  Who reads  *)
(* what when several requests do this at once is module IcpProfiles.       *)
(***************************************************************************)
EXTENDS Scoring, FiniteSetsExt

CONSTANTS
  Drafts,         \* what the model, or the person who reviews it, may say
  OutcomeFiles,       \* files of past results
  MaxListed       \* entries a list of a draft may have (8 in schemas.py)

VARIABLES
  targeting,      \* the active version: its draft and objective
  suggestion,     \* the open proposal: its file and the changes
  learned         \* the file whose suggestion made the active version, or 0

targetingVars == <<targeting, suggestion, learned>>

\* schemas.py, in declaration order: ties in the allocation go to the first.
SCORING_DIMENSIONS ==
  <<"employee_count", "industry", "title_seniority", "title_function",
    "buying_intent", "recent_trigger_event">>
Dimensions == Range(SCORING_DIMENSIONS)
Position(dim) == CHOOSE i \in DOMAIN SCORING_DIMENSIONS : SCORING_DIMENSIONS[i] = dim

LEVELS == <<"none", "low", "medium", "high", "critical">>
Index(level) == CHOOSE i \in DOMAIN LEVELS : LEVELS[i] = level
EMPLOYEE_BANDS == <<"e10", "e50", "e200", "e1000", "more">>
Listed == {"industry", "title_seniority", "title_function"}

-----------------------------------------------------------------------------
(* normalization.py: from levels to points.                                *)

PREFERENCE_WEIGHTS == [none |-> 0, low |-> 1, medium |-> 2, high |-> 4, critical |-> 7]

\* Largest remainder.  A draft that gives every dimension the level none is
\* read as indifference.
AllocateCeilings_Truncated(levels) ==
  LET Sum == SumFunction([dim \in Dimensions |-> PREFERENCE_WEIGHTS[levels[dim]]])
  IN  [dim \in Dimensions |->
         (100 * PREFERENCE_WEIGHTS[levels[dim]]) \div (IF Sum = 0 THEN 1 ELSE Sum)]
AllocateCeilings(levels) ==
  LET wanted  == [dim \in Dimensions |-> PREFERENCE_WEIGHTS[levels[dim]]]
      weight == IF SumFunction(wanted) = 0
                THEN [dim \in Dimensions |-> PREFERENCE_WEIGHTS["medium"]] ELSE wanted
      total  == SumFunction(weight)
      base   == [dim \in Dimensions |-> (100 * weight[dim]) \div total]
      rest   == [dim \in Dimensions |-> (100 * weight[dim]) % total]
      ahead(dim) == {other \in Dimensions :
                       \/ rest[other] > rest[dim]
                       \/ rest[other] = rest[dim] /\ Position(other) < Position(dim)}
      left   == 100 - SumFunction(base)
  IN  [dim \in Dimensions |->
         IF Cardinality(ahead(dim)) < left THEN base[dim] + 1 ELSE base[dim]]

FALLBACK ==
  [industry |-> {"software", "professional_services", "other"},
   title_seniority |-> {"c_level", "vp", "director"},
   title_function |-> {"operations", "sales"}]

\* Something always earns the whole ceiling.
CategoryPoints(preferred, acceptable, ceiling, fallback) ==
  LET top == IF preferred # {} THEN preferred
             ELSE IF acceptable # {} THEN acceptable ELSE fallback
  IN  [category \in top \cup acceptable |->
         IF category \in top THEN ceiling ELSE ceiling \div 2]

\* Without a preferred band the small and the middle one are promoted, or the
\* first that is not avoided, or the middle one all the same.
PreferredBands(bands) ==
  LET all  == Range(EMPLOYEE_BANDS)
      view == [b \in all |-> IF b \in DOMAIN bands THEN bands[b] ELSE "acceptable"]
      liked == {b \in all : view[b] = "preferred"}
      spare == {b \in {"e50", "e200"} : view[b] # "avoid"}
      open  == {i \in DOMAIN EMPLOYEE_BANDS : view[EMPLOYEE_BANDS[i]] = "acceptable"}
  IN  IF liked # {} THEN liked
      ELSE IF spare # {} THEN spare
      ELSE IF open # {} THEN {EMPLOYEE_BANDS[Min(open)]} ELSE {"e200"}

EmployeeBands(bands, ceiling) ==
  [b \in Range(EMPLOYEE_BANDS) |->
     IF b \in PreferredBands(bands) THEN ceiling
     ELSE IF b \in DOMAIN bands /\ bands[b] = "avoid" THEN 0 ELSE ceiling \div 2]

OBJECTIVE_THRESHOLDS ==
  [best_prospects |-> <<65, 55>>, maximize_buy_likelihood |-> <<72, 60>>,
   high_value |-> <<70, 58>>, minimize_wasted_outreach |-> <<75, 62>>, custom |-> <<65, 55>>]

\* A partial intent, which earns its share of the weight, is left out.
BuildScoringConfig(draft, objective) ==
  LET ceiling == AllocateCeilings(draft.levels)
      listed  == [dim \in Listed |->
                    CategoryPoints(draft.preferred[dim], draft.acceptable[dim],
                                   ceiling[dim], FALLBACK[dim])]
      single  == [employee_count |->
                    EmployeeBands(draft.bands, ceiling["employee_count"]),
                  buying_intent |-> [full |-> ceiling["buying_intent"]],
                  recent_trigger_event |-> [yes |-> ceiling["recent_trigger_event"]]]
  IN  [qualify |-> OBJECTIVE_THRESHOLDS[objective][1],
       reject |-> OBJECTIVE_THRESHOLDS[objective][2],
       disqualifier |-> TRUE,
       points |-> [dim \in Dimensions |->
                     IF dim \in Listed THEN listed[dim] ELSE single[dim]]]

\* icp_profiles.validate_config: what every stored configuration satisfies.
CeilingTotal(config) == SumFunction([dim \in Dimensions |-> MaxFieldPoints(config, dim)])
ValidConfig(config) ==
  /\ 0 <= config.reject /\ config.reject < config.qualify /\ config.qualify <= 100
  /\ CeilingTotal(config) = 100

-----------------------------------------------------------------------------
(* targeting.py: what a reviewed draft becomes.                            *)

\* Every dimension has a level, and no category is in two lists.
Canonicalize(draft) ==
  [draft EXCEPT
     !.levels = [dim \in Dimensions |->
                   IF dim \in DOMAIN draft.levels THEN draft.levels[dim] ELSE "medium"],
     !.acceptable = [dim \in Listed |-> draft.acceptable[dim] \ draft.preferred[dim]]]

WellFormed(draft) ==
  \A dim \in Listed :
    Cardinality(draft.preferred[dim]) <= MaxListed
      /\ Cardinality(draft.acceptable[dim]) <= MaxListed

\* BusinessProfileDraft: a band or a dimension may be left out.
DraftRecords ==
  [bands : UNION {[B -> {"preferred", "acceptable", "avoid"}] : B \in SUBSET Range(EMPLOYEE_BANDS)},
   preferred : [Listed -> SUBSET STRING], acceptable : [Listed -> SUBSET STRING],
   levels : UNION {[S -> Range(LEVELS)] : S \in SUBSET Dimensions}]

NoDraft == [written |-> "directly"]
Version(draft, objective) ==
  LET canonical == Canonicalize(draft)
  IN  [draft |-> canonical, objective |-> objective]

\* The configuration stored with a version; the reference one without any.
ConfigOfVersion(version) ==
  IF version.draft = NoDraft THEN REFERENCE_CONFIG
  ELSE BuildScoringConfig(version.draft, version.objective)

-----------------------------------------------------------------------------
(* outcomes.py: a file is [pos, neg, groups], a group                       *)
(* [dim, key, pos, neg] counts the labelled rows of one band or industry.   *)

Groups == [dim : {"employee_count", "industry"}, key : STRING, pos : Nat, neg : Nat]

\* One group per band and per industry of the rows (analyze_outcomes).
FileIsGrouped(file) ==
  /\ {file.pos, file.neg} \subseteq Nat
  /\ file.groups \subseteq Groups /\ IsFiniteSet(file.groups)
  /\ \A g, h \in file.groups : g.dim = h.dim /\ g.key = h.key => g = h
  /\ \A g \in file.groups : g.dim = "employee_count" => g.key \in Range(EMPLOYEE_BANDS)

ASSUME TargetingAssumption ==
  /\ Drafts \subseteq DraftRecords
  /\ DOMAIN OutcomeFiles \subseteq Nat \ {0}
  /\ \A i \in DOMAIN OutcomeFiles : FileIsGrouped(OutcomeFiles[i])

Rows(c) == c.pos + c.neg
DatasetUsable(file) == Rows(file) >= 10 /\ file.pos >= 2 /\ file.neg >= 2

\* The difference of the two rates, times Rows(g) * Rows(file).
Difference(g, file) == g.pos * Rows(file) - file.pos * Rows(g)
AbsDifference(g, file) == LET d == Difference(g, file) IN IF d < 0 THEN -d ELSE d
Differs(g, file, percent) ==
  100 * AbsDifference(g, file) >= percent * Rows(g) * Rows(file)

ClassifySignal(g, file) ==
  IF ~DatasetUsable(file) \/ Rows(g) < 8 THEN "insufficient_data"
  ELSE IF Rows(g) >= 40 /\ Differs(g, file, 20) THEN "strong"
  ELSE IF Rows(g) >= 12 /\ Differs(g, file, 12) THEN "moderate"
  ELSE "weak"

Actionable(file) == {g \in file.groups : ClassifySignal(g, file) \in {"moderate", "strong"}}
Improves(g, file) == Difference(g, file) > 0

\* analyze_outcomes: the strongest signal first, then the widest gap.  (A tie,
\* which the code breaks by name, by CHOOSE.)
Precedes(g, h, file) ==
  LET strong(x) == ClassifySignal(x, file) = "strong"
  IN  \/ strong(g) /\ ~strong(h)
      \/ /\ strong(g) <=> strong(h)
         /\ AbsDifference(g, file) * Rows(h) >= AbsDifference(h, file) * Rows(g)
Strongest(groups, file) == CHOOSE g \in groups : \A h \in groups : Precedes(g, h, file)

-----------------------------------------------------------------------------
(* proposals.py: from groups to changes [kind, dim, target, to].            *)

Favoured(g, draft) ==
  IF g.dim = "employee_count"
  THEN g.key \in DOMAIN draft.bands /\ draft.bands[g.key] = "preferred"
  ELSE g.key \in draft.preferred["industry"]

\* A group that already has the place the results would give it says nothing.
News(file, draft) == {g \in Actionable(file) : Improves(g, file) # Favoured(g, draft)}

Shift(level, steps) ==
  LEVELS[Max({1, Min({Len(LEVELS), Index(level) + steps})})]

\* One step of importance per dimension, from its strongest group, upwards.
Nudges(file, draft) ==
  LET news(dim) == {g \in News(file, draft) : g.dim = dim}
      dims == {dim \in {g.dim : g \in News(file, draft)} :
                 /\ Improves(Strongest(news(dim), file), file)
                 /\ draft.levels[dim] # "critical"}
  IN  {[kind |-> "dimension_importance", dim |-> dim, target |-> dim,
        to |-> Shift(draft.levels[dim], 1)] : dim \in dims}

DeriveChanges(file, draft) ==
  {[kind |-> IF g.dim = "industry" THEN "industry" ELSE "employee_band",
    dim |-> g.dim, target |-> g.key,
    to |-> IF Improves(g, file) THEN "preferred" ELSE "acceptable"]
     : g \in News(file, draft)}
  \cup Nudges(file, draft)

Targets(changes, kind, to) ==
  {c.target : c \in {d \in changes : d.kind = kind /\ d.to = to}}

ApplyChanges(draft, changes) ==
  LET up     == Targets(changes, "industry", "preferred")
      down   == Targets(changes, "industry", "acceptable")
      bands  == {c \in changes : c.kind = "employee_band"}
      nudges == {c \in changes : c.kind = "dimension_importance"}
      to(set, target) == (CHOOSE c \in set : c.target = target).to
      targets(set) == {c.target : c \in set}
  IN  [draft EXCEPT
         !.preferred["industry"]  = (@ \cup up) \ down,
         !.acceptable["industry"] = (@ \ up) \cup down,
         !.bands  = [b \in DOMAIN @ \cup targets(bands) |->
                       IF b \in targets(bands) THEN to(bands, b) ELSE @[b]],
         !.levels = [dim \in Dimensions |->
                       IF dim \in targets(nudges) THEN to(nudges, dim) ELSE @[dim]]]

-----------------------------------------------------------------------------
NoSuggestion == [file |-> 0, changes |-> {}]

TargetingInit ==
  /\ targeting = [draft |-> NoDraft, objective |-> "best_prospects"]
  /\ suggestion = NoSuggestion
  /\ learned = 0

\* confirm_targeting_draft: a suggestion for the version before is stale.
ConfirmDraft(draft, objective) ==
  /\ WellFormed(draft)
  /\ targeting' = Version(draft, objective)
  /\ suggestion' = NoSuggestion
  /\ learned' = 0

\* build_revision_proposal: no changes, no proposal.
AnalyzeOutcomes(i) ==
  /\ targeting.draft # NoDraft /\ suggestion = NoSuggestion
  /\ LET changes == DeriveChanges(OutcomeFiles[i], targeting.draft)
     IN  /\ changes # {}
         /\ suggestion' = [file |-> i, changes |-> changes]
  /\ UNCHANGED <<targeting, learned>>

RejectSuggestion ==
  /\ suggestion # NoSuggestion
  /\ suggestion' = NoSuggestion
  /\ UNCHANGED <<targeting, learned>>

\* accept_proposal.  A list that became too long fails the validation of the
\* draft, and the request: the suggestion stays open.
AcceptSuggestion ==
  LET draft == ApplyChanges(targeting.draft, suggestion.changes)
  IN  /\ suggestion # NoSuggestion /\ WellFormed(draft)
      /\ targeting' = Version(draft, targeting.objective)
      /\ learned' = suggestion.file
      /\ suggestion' = NoSuggestion

TargetingNext ==
  \/ \E draft \in Drafts, objective \in DOMAIN OBJECTIVE_THRESHOLDS :
       ConfirmDraft(draft, objective)
  \/ \E i \in DOMAIN OutcomeFiles : AnalyzeOutcomes(i)
  \/ RejectSuggestion \/ AcceptSuggestion

-----------------------------------------------------------------------------
\* normalization.py: whatever levels, lists and bands a draft names, and
\* whatever accepted suggestions made of it, a lead can earn exactly 100
\* points, so the configuration is one validate_config lets be stored.
EveryDraftIsValid == ValidConfig(ConfigOfVersion(targeting))

\* A dimension that matters more never weighs less, and of two that matter the
\* same neither gets more than the one point a remainder is worth.
OrderKept(points, level) ==
  \A a, b \in Dimensions :
    /\ level[a] > level[b] => points[a] >= points[b]
    /\ level[a] = level[b] => points[a] <= points[b] + 1
PointsOf(config) == [dim \in Dimensions |-> MaxFieldPoints(config, dim)]
ImportanceIsKept ==
  targeting.draft # NoDraft =>
    OrderKept(PointsOf(ConfigOfVersion(targeting)),
              [dim \in Dimensions |-> Index(targeting.draft.levels[dim])])

\* The file a profile was just revised by has nothing more to say: results are
\* counted once, however often they are uploaded again.
LearnsOnce ==
  learned # 0 => DeriveChanges(OutcomeFiles[learned], targeting.draft) = {}

\* A suggestion promotes a dimension only together with one of its groups.
NoNudgeAlone ==
  \A c \in suggestion.changes :
    c.kind = "dimension_importance" =>
      \E d \in suggestion.changes :
        d.kind # "dimension_importance" /\ d.dim = c.dim /\ d.to = "preferred"

ProfileIsSound == EveryDraftIsValid /\ ImportanceIsKept /\ LearnsOnce /\ NoNudgeAlone

\* proposals.py 237: an accepted demotion shows in the points.  The code does
\* not keep this: the only preferred category, once demoted, earns the ceiling
\* by the fallback.
DemotionCosts ==
  \A c \in suggestion.changes :
    c.to = "acceptable" =>
      LET next == ConfigOfVersion(
                    Version(ApplyChanges(targeting.draft, suggestion.changes),
                            targeting.objective))
      IN  FieldPoints(next, c.dim, c.target) < MaxFieldPoints(next, c.dim)

\* proposals.py 239: applying changes is total.  The code does not keep this: a
\* full list of industries has no room for one more.
EverySuggestionApplies ==
  suggestion # NoSuggestion =>
    WellFormed(ApplyChanges(targeting.draft, suggestion.changes))
=============================================================================
