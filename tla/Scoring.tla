-------------------------------- MODULE Scoring --------------------------------
(***************************************************************************)
(* The rules scorer (scoring/rules.py, engine.py, merge.py): points per    *)
(* field, the disqualifier that nullifies, thresholds, and the floor and   *)
(* ceiling of the score over everything that is still unknown.  A fact is  *)
(* a member of its field's small vocabulary, a ratio or a band is its      *)
(* class, and points are whole.  The organization's configuration is an    *)
(* argument where the code scopes it with a context variable.              *)
(***************************************************************************)
EXTENDS Integers, Sequences, FiniteSets, FiniteSetsExt, Functions

DISQUALIFIER_FIELD == "disqualifying_flag"
Unmapped == "unknown"          \* the sentinel of the normalization layer

\* The reference tables: bands of employees, vocabularies, thresholds.  Under
\* "other" stands whatever the tables do not list; it earns nothing.
REFERENCE_CONFIG ==
  [qualify |-> 65, reject |-> 55, disqualifier |-> TRUE,
   points |->
     [employee_count |-> [e10 |-> 2, e50 |-> 10, e200 |-> 20, e1000 |-> 18, more |-> 8],
      industry |-> [software |-> 15, fintech |-> 15, healthtech |-> 13, ecommerce |-> 12,
                    logistics |-> 8, manufacturing |-> 7, education |-> 5, nonprofit |-> 2],
      title_seniority |-> [c_level |-> 20, vp |-> 18, director |-> 14, manager |-> 8, ic |-> 2],
      title_function |-> [data |-> 15, engineering |-> 14, operations |-> 9, marketing |-> 5,
                          sales |-> 5, finance |-> 4, rest |-> 2],
      buying_intent |-> [half |-> 10, full |-> 20],
      recent_trigger_event |-> [yes |-> 10]]]

ADDITIVE_FIELDS == DOMAIN REFERENCE_CONFIG.points
SCORED_FIELDS == ADDITIVE_FIELDS \cup {DISQUALIFIER_FIELD}

\* What validate_config grants: thresholds in order, and ceilings that sum to
\* 100, so that no value earns more; the sum itself is not relied on.
ConfigIsSound(config) ==
  /\ config.disqualifier \in BOOLEAN
  /\ {config.qualify, config.reject} \subseteq 0..100 /\ config.reject < config.qualify
  /\ DOMAIN config.points = ADDITIVE_FIELDS
  /\ \A f \in ADDITIVE_FIELDS : Range(config.points[f]) \subseteq 0..100

FieldPoints(config, f, value) ==
  IF value \in DOMAIN config.points[f] THEN config.points[f][value] ELSE 0

\* max(..., default=0.0)
MaxFieldPoints(config, f) == Max({0} \cup Range(config.points[f]))

-----------------------------------------------------------------------------
(* merge.py: claims [field, value, source, trust] compete per field.       *)

\* A value that could not be mapped is no claim at all.
Usable(claims) == {c \in claims : c.field \in SCORED_FIELDS /\ c.value # Unmapped}

\* The highest confidence; ties, which are broken by source name, by rank.
Winner(claims, f) ==
  CHOOSE c \in claims :
    /\ c.field = f
    /\ \A d \in claims : d.field = f =>
         d.trust < c.trust \/ (d.trust = c.trust /\ d.rank <= c.rank)

ResolveCandidates(claims) ==
  LET usable == Usable(claims)
  IN  [f \in {c.field : c \in usable} |-> Winner(usable, f).value]

-----------------------------------------------------------------------------
(* engine.py over resolved facts: a function from the known fields.        *)

IsDisqualified(config, facts) ==
  /\ config.disqualifier
  /\ DISQUALIFIER_FIELD \in DOMAIN facts
  /\ facts[DISQUALIFIER_FIELD] = "yes"

ScoreFacts(config, facts) ==
  IF IsDisqualified(config, facts) THEN 0
  ELSE SumFunction([f \in DOMAIN facts \cap ADDITIVE_FIELDS |->
                      FieldPoints(config, f, facts[f])])

DecisionFor(config, score) ==
  IF score >= config.qualify THEN "auto_route"
  ELSE IF score < config.reject THEN "reject"
  ELSE "escalate_human"

\* An unchecked blocker pins the floor to zero, unless blockers are disabled.
Floor_Current(config, facts) == ScoreFacts(config, facts)
Floor(config, facts) ==
  IF config.disqualifier /\ DISQUALIFIER_FIELD \notin DOMAIN facts
  THEN 0 ELSE ScoreFacts(config, facts)

ComputeBounds(config, facts) ==
  LET score == ScoreFacts(config, facts)
  IN  IF IsDisqualified(config, facts) THEN [current |-> 0, lower |-> 0, upper |-> 0]
      ELSE [current |-> score,
            lower   |-> Floor(config, facts),
            upper   |-> score
              + SumFunction([f \in ADDITIVE_FIELDS \ DOMAIN facts |->
                               MaxFieldPoints(config, f)])]

\* "open" where the code answers None.
SettledDecision(config, bounds) ==
  IF bounds.lower >= config.qualify THEN "auto_route"
  ELSE IF bounds.upper < config.reject THEN "reject"
  ELSE IF bounds.lower >= config.reject /\ bounds.upper < config.qualify
  THEN "escalate_human"
  ELSE "open"

Settled(config, facts) == SettledDecision(config, ComputeBounds(config, facts)) # "open"

-----------------------------------------------------------------------------
(* The reference: every score that some value of the unknown fields gives.  *)

ReachableScores(config, facts) ==
  LET more(f, sums) == {s + p : s \in sums, p \in {0} \cup Range(config.points[f])}
      sums == FoldSet(more, {ScoreFacts(config, facts)}, ADDITIVE_FIELDS \ DOMAIN facts)
  IN  IF IsDisqualified(config, facts) THEN {0}
      ELSE IF config.disqualifier /\ DISQUALIFIER_FIELD \notin DOMAIN facts
      THEN sums \cup {0} ELSE sums

ReachableDecisions(config, facts) ==
  {DecisionFor(config, s) : s \in ReachableScores(config, facts)}
=============================================================================
