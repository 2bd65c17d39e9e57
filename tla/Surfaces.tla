------------------------------- MODULE Surfaces -------------------------------
(***************************************************************************)
(* What a customer is told about a lead: the lead's own page               *)
(* (api/receipt.py), the rows of a batch and their export (batches.py,     *)
(* batch_export.py), the dashboard and the questions of the copilot        *)
(* (copilot_service.py).  Every surface derives the same recommendation    *)
(* (recommendations.py), each from what it read itself: a page reads the   *)
(* lead before its receipt, a question the active profile before the       *)
(* model has understood it and the leads after that.                       *)
(*                                                                         *)
(* A receipt is frozen with the profile version that it was decided under. *)
(* The newest 300 leads are all the leads; a comparison has two.           *)
(***************************************************************************)
EXTENDS Scoring

CONSTANTS
  Clients,         \* leads of one organization, newest first
  Holdings,        \* what is known of each when it is decided
  Sureties,        \* [band, autonomous]: what the confidence model may say
  ProfileHistory,  \* configurations of the profile's versions
  Rated,           \* leads that the person has given feedback on
  Plans            \* what a question may be understood as

VARIABLES
  dossier,         \* leads.status and decision_receipts
  activeVersion,   \* the active version
  viewer,          \* the request under way, and what it has read
  told             \* the answer just given

surfaceVars == <<dossier, activeVersion, viewer, told>>

ASSUME SurfacesAssumption ==
  /\ Plans \subseteq [intent : STRING, only : SUBSET STRING,
                      sort : {"priority", "score", "recent"}, limit : Int]
  /\ Rated \subseteq Range(Clients)
  /\ Clients \in Seq(Range(Clients))
  /\ ProfileHistory \in Seq(Range(ProfileHistory)) /\ ProfileHistory # << >>
  /\ \A config \in Range(ProfileHistory) : ConfigIsSound(config)
  /\ Sureties \subseteq [band : {"high", "medium", "low"}, autonomous : BOOLEAN]

Prospects == Range(Clients)
NoReceipt == [version |-> 0]
NobodyAsks == [at |-> "idle"]
NothingTold == [kind |-> "nothing"]

SurfacesInit ==
  /\ dossier = [l \in Prospects |-> [status |-> "NEW", receipt |-> NoReceipt]]
  /\ activeVersion = 1 /\ viewer = NobodyAsks /\ told = NothingTold

-----------------------------------------------------------------------------
(* What happens to leads and profiles meanwhile; an answer is read at once. *)

Goes(l, status, receipt) ==
  /\ told = NothingTold
  /\ dossier' = [dossier EXCEPT ![l] = [status |-> status, receipt |-> receipt]]
  /\ UNCHANGED <<activeVersion, viewer, told>>

StatusOf(decision) ==
  CASE decision = "auto_route" -> "AUTO_ROUTED"
    [] decision = "reject" -> "SYNCED"
    [] OTHER -> "AWAITING_HUMAN"

\* The receipt and the status are one transaction.
DecideLead(l) ==
  /\ dossier[l].status = "NEW"
  /\ \E facts \in Holdings[l], mode \in {"simulated", "live_shadow", "live_human_only"},
        sure \in Sureties :
       LET config   == ProfileHistory[activeVersion]
           decision == DecisionFor(config, ScoreFacts(config, facts))
           alone    == mode = "simulated" /\ sure.autonomous
       IN  Goes(l, IF mode = "live_shadow" THEN "SHADOW_EVALUATED"
                   ELSE StatusOf(IF alone THEN decision ELSE "escalate_human"),
                [version |-> activeVersion, facts |-> facts, decision |-> decision,
                 bounds |-> ComputeBounds(config, facts), band |-> sure.band])

BreakLead(l) == dossier[l].status = "NEW" /\ Goes(l, "DEAD_LETTER", NoReceipt)

\* A person approves, rejects, or keeps the lead to work on by hand.
RespondToReview(l) ==
  /\ dossier[l].status = "AWAITING_HUMAN"
  /\ \E status \in {"AUTO_ROUTED", "SYNCED", "MANUAL_REVIEW"} :
       Goes(l, status, dossier[l].receipt)

ActivateNext ==
  /\ told = NothingTold /\ activeVersion < Len(ProfileHistory)
  /\ activeVersion' = activeVersion + 1
  /\ UNCHANGED <<dossier, viewer, told>>

-----------------------------------------------------------------------------
(* recommendations.py, over a status, a receipt, and the version whose     *)
(* thresholds say whether the evidence suffices: 0 where none is read.     *)

Sufficiency(receipt, judge) ==
  IF receipt = NoReceipt \/ judge = 0 THEN "not_computed"
  ELSE IF SettledDecision(ProfileHistory[judge], receipt.bounds) = "open"
  THEN "insufficient_evidence" ELSE "settled"

DeriveCustomerPriority(status, receipt, judge) ==
  CASE receipt = NoReceipt -> "review"
    [] receipt # NoReceipt /\ status = "AWAITING_HUMAN" -> "review"
    [] status = "SYNCED" /\ receipt # NoReceipt ->
         IF Sufficiency(receipt, judge) = "insufficient_evidence"
         THEN "review" ELSE "skip"
    [] OTHER -> IF receipt.decision = "auto_route" /\ receipt.band = "high"
                THEN "contact_first" ELSE "worth_pursuing"

Missing(receipt) == SCORED_FIELDS \ DOMAIN receipt.facts
ContactKnown(receipt) == "title_seniority" \notin Missing(receipt)

DeriveNextAction(status, receipt, priority) ==
  IF receipt = NoReceipt THEN "research_more"
  ELSE IF status = "AWAITING_HUMAN" THEN "human_review"
  ELSE CASE priority = "skip" -> "skip"
         [] priority = "review" -> "research_more"
         [] OTHER -> IF ~ContactKnown(receipt) THEN "find_decision_maker"
                     ELSE IF priority = "contact_first" THEN "contact_now"
                     ELSE IF Missing(receipt) # {} THEN "email_first" ELSE "nurture"

Recommendation(status, receipt, judge) ==
  LET priority == DeriveCustomerPriority(status, receipt, judge)
  IN  [priority |-> priority, action |-> DeriveNextAction(status, receipt, priority)]

\* A row of a batch joins the receipt's own version; its export joins none.
BatchRow(l) ==
  Recommendation(dossier[l].status, dossier[l].receipt, dossier[l].receipt.version)
ExportRow(l) ==
  IF dossier[l].receipt = NoReceipt THEN [priority |-> "", action |-> ""]
  ELSE Recommendation(dossier[l].status, dossier[l].receipt, 0)

-----------------------------------------------------------------------------
(* The page of a lead: its status is read by one statement, its receipt by *)
(* a later one, with the thresholds of the receipt's version.              *)

OpenLead(l) ==
  /\ viewer = NobodyAsks /\ told = NothingTold
  /\ viewer' = [at |-> "page", lead |-> l, status |-> dossier[l].status]
  /\ UNCHANGED <<dossier, activeVersion, told>>

Page(l, status) == Recommendation(status, dossier[l].receipt, dossier[l].receipt.version)

Tell(answer) ==
  /\ told' = answer /\ viewer' = NobodyAsks
  /\ UNCHANGED <<dossier, activeVersion>>

ShowLead ==
  /\ viewer.at = "page"
  /\ Tell([kind |-> "page", lead |-> viewer.lead, status |-> viewer.status,
           row |-> Page(viewer.lead, viewer.status)])

ResearchTargets == {"employee_count", "industry", "title_seniority", "title_function"}

\* analyze_materiality, given thresholds, a receipt and what fields may add.
MaterialTo(config, receipt, ceilings) ==
  LET score == receipt.bounds.current
      crosses(f, threshold) == score < threshold /\ threshold <= score + ceilings[f]
      pinned == receipt.bounds.lower < score
  IN  IF SettledDecision(config, receipt.bounds) # "open" \/ pinned THEN {}
      ELSE {f \in ResearchTargets \cap Missing(receipt) :
              crosses(f, config.reject) \/ crosses(f, config.qualify)}
CeilingsOf(version) ==
  [f \in ResearchTargets |-> MaxFieldPoints(ProfileHistory[version], f)]

\* "What would need to change": thresholds of the decision, ceilings of today.
ImproveLead(l) ==
  MaterialTo(ProfileHistory[dossier[l].receipt.version], dossier[l].receipt,
             CeilingsOf(activeVersion))

TellImprovement ==
  /\ viewer.at = "page" /\ dossier[viewer.lead].receipt # NoReceipt
  /\ Tell([kind |-> "improvement", lead |-> viewer.lead,
           fields |-> ImproveLead(viewer.lead)])

-----------------------------------------------------------------------------
(* A question about all leads.                                             *)

PRIORITY_RANK == [contact_first |-> 0, worth_pursuing |-> 1, review |-> 2, skip |-> 3]
Sureness == [high |-> 2, medium |-> 1, low |-> 0]

\* Every row of the pool is judged by one version, the asker's.
PoolRow(l, version) ==
  LET receipt == dossier[l].receipt
      advice   == Recommendation(dossier[l].status, receipt, version)
      bare    == receipt = NoReceipt
  IN  [lead |-> l, priority |-> advice.priority, action |-> advice.action, bare |-> bare,
       score |-> IF bare THEN 0 ELSE receipt.bounds.current,
       band |-> IF bare THEN "none" ELSE receipt.band,
       age |-> CHOOSE i \in DOMAIN Clients : Clients[i] = l]

IsResearchable(l, version) ==
  /\ dossier[l].receipt # NoReceipt
  /\ MaterialTo(ProfileHistory[version], dossier[l].receipt, CeilingsOf(version)) # {}

\* rank_work_today leaves out what needs nobody.
IsWork(row) ==
  CASE row.priority = "skip" -> FALSE
    [] row.priority = "review" -> row.action \in {"human_review", "find_decision_maker"}
    [] OTHER -> TRUE

SelectCandidates(intent, pool, version) ==
  {row \in pool :
     CASE intent = "needs_research" -> IsResearchable(row.lead, version)
       [] intent = "missing_decision_maker" ->
            /\ row.priority \in {"contact_first", "worth_pursuing"}
            /\ ~ContactKnown(dossier[row.lead].receipt)
       [] intent = "low_confidence" -> row.band = "low"
       [] intent = "work_today" -> IsWork(row)
       [] intent = "feedback_summary" -> row.lead \in Rated
       [] OTHER -> TRUE}

\* Of equals the newer first: Python's sort is stable.
SortKey(row, intent, sort) ==
  LET rank   == PRIORITY_RANK[row.priority]
      score  == 100 - row.score
      unsure == IF row.bare THEN 2 ELSE 2 - Sureness[row.band]
  IN  IF intent = "work_today" THEN <<rank, score, unsure, row.age>>
      ELSE IF sort = "score" THEN <<IF row.bare THEN 1 ELSE 0, score, row.age>>
      ELSE IF sort = "recent" THEN <<row.age>>
      ELSE <<rank, row.age>>

\* Keys compare as Python's tuples do.
GoesFirst(a, b) ==
  \E i \in DOMAIN a : a[i] < b[i] /\ \A j \in 1..(i - 1) : a[j] = b[j]
Ranked(rows, intent, sort) ==
  CHOOSE s \in [1..Cardinality(rows) -> rows] :
    \A i, j \in DOMAIN s : i < j =>
      GoesFirst(SortKey(s[i], intent, sort), SortKey(s[j], intent, sort))

ClampLimit(limit) == IF limit < 1 THEN 1 ELSE IF limit > 50 THEN 50 ELSE limit
FirstOf(rows, n) == SubSeq(rows, 1, IF n < Len(rows) THEN n ELSE Len(rows))

ListAnswer(plan, version) ==
  LET pool == {PoolRow(l, version) : l \in Prospects}
      kept == {row \in SelectCandidates(plan.intent, pool, version) :
                 plan.only = {} \/ row.priority \in plan.only}
  IN  FirstOf(Ranked(kept, plan.intent, plan.sort), ClampLimit(plan.limit))

AskList ==
  /\ viewer = NobodyAsks /\ told = NothingTold
  /\ viewer' = [at |-> "question", version |-> activeVersion]
  /\ UNCHANGED <<dossier, activeVersion, told>>

\* What nobody understood is answered without reading a lead.
DeclineList == viewer.at = "question" /\ Tell([kind |-> "declined"])

AnswerList(plan) ==
  /\ viewer.at = "question" /\ plan.intent # "compare_leads"
  /\ Tell([kind |-> "list", intent |-> plan.intent, limit |-> ClampLimit(plan.limit),
           version |-> viewer.version, only |-> plan.only,
           rows |-> ListAnswer(plan, viewer.version)])

\* The dashboard shows the first five of the day, without a question.
ShowDashboard ==
  LET plan == [intent |-> "work_today", only |-> {}, sort |-> "priority", limit |-> 5]
  IN  /\ viewer = NobodyAsks /\ told = NothingTold
      /\ Tell([kind |-> "list", intent |-> plan.intent, limit |-> plan.limit,
               version |-> activeVersion, only |-> plan.only,
               rows |-> ListAnswer(plan, activeVersion)])

\* A comparison reads rows, as a list does, and the evidence of their leads, and
\* then waits for the model.
StartCompare ==
  /\ viewer.at = "question" /\ \E plan \in Plans : plan.intent = "compare_leads"
  /\ viewer' = [at |-> "comparing", pool |-> {l \in Prospects : dossier[l].receipt # NoReceipt}]
  /\ UNCHANGED <<dossier, activeVersion, told>>

\* The summary counts if every fact it claims cites evidence that was shown;
\* a claim is [hypothesis, cites], an invented citation is of nobody's lead.
Supported(claims, pool) == \A c \in claims : c.hypothesis \/ c.cites \cap pool # {}
Claims == [hypothesis : BOOLEAN, cites : SUBSET {Head(Clients), "invented"}]
TellComparison(claims) ==
  /\ viewer.at = "comparing"
  /\ Tell([kind |-> "comparison", claims |-> claims,
           by |-> IF Supported(claims, viewer.pool) THEN "model" ELSE "template"])

ReadOn ==
  /\ told # NothingTold /\ told' = NothingTold
  /\ UNCHANGED <<dossier, activeVersion, viewer>>

SurfacesNext ==
  \/ \E l \in Prospects :
       DecideLead(l) \/ BreakLead(l) \/ RespondToReview(l) \/ OpenLead(l)
  \/ ActivateNext \/ ShowLead \/ TellImprovement \/ ShowDashboard
  \/ AskList \/ DeclineList \/ StartCompare
  \/ \E plan \in Plans : AnswerList(plan)
  \/ \E claim \in Claims : TellComparison({claim})
  \/ ReadOn

-----------------------------------------------------------------------------
Learned(facts, f, v) == [g \in DOMAIN facts \cup {f} |-> IF g = f THEN v ELSE facts[g]]
Decided(l) == dossier[l].receipt # NoReceipt
DecidedUnder(l) == ProfileHistory[dossier[l].receipt.version]

\* A customer is told to skip a lead only if, of all that could still be learned
\* of it, nothing would change the decision: on its page, in its batch, and in
\* an answer as long as the profile is the one it was decided under.
SkipIsSettled ==
  \A l \in Prospects :
    LET toSkip ==
          \/ BatchRow(l).priority = "skip"
          \/ told.kind = "page" /\ told.lead = l /\ told.row.priority = "skip"
          \/ /\ told.kind = "list" /\ Decided(l)
             /\ told.version = dossier[l].receipt.version
             /\ \E i \in DOMAIN told.rows :
                  told.rows[i].lead = l /\ told.rows[i].priority = "skip"
    IN  toSkip =>
          /\ dossier[l].status = "SYNCED"
          /\ Cardinality(ReachableDecisions(DecidedUnder(l),
                                            dossier[l].receipt.facts)) = 1

\* The surfaces say the same of a lead: the page, unless the lead moved while
\* it was read, and the answers, while its version is the active one.
SurfacesAgree ==
  /\ told.kind = "page" /\ told.status = dossier[told.lead].status =>
       told.row = BatchRow(told.lead)
  /\ \A l \in Prospects :
       Decided(l) /\ dossier[l].receipt.version = activeVersion =>
         LET row == PoolRow(l, activeVersion)
         IN  [priority |-> row.priority, action |-> row.action] = BatchRow(l)

\* The work of the day: whoever is left out has nothing to be done, was not asked
\* for, or stands behind the ones named; a review that waits for a person is in it.  (So is not
\* what broke before it was decided: its next action reads "research_more".)
WorkIsWhatWaits ==
  told.kind = "list" /\ told.intent = "work_today" =>
    LET named == {told.rows[i].lead : i \in DOMAIN told.rows}
    IN  /\ \A l \in Prospects \ named :
             \/ Len(told.rows) = told.limit
             \/ told.only # {} /\ PoolRow(l, told.version).priority \notin told.only
             \/ dossier[l].status \in {"NEW", "SYNCED", "DEAD_LETTER"}
        /\ \A l \in named : dossier[l].status \notin {"NEW", "DEAD_LETTER"}
        /\ \A i, j \in DOMAIN told.rows : i < j =>
             PRIORITY_RANK[told.rows[i].priority] <= PRIORITY_RANK[told.rows[j].priority]

\* What is said to be able to improve a lead can: some value of that one fact
\* changes the decision, as long as the profile is the one it was decided under.
ImprovementIsReal ==
  told.kind = "improvement" /\ dossier[told.lead].receipt.version = activeVersion =>
    LET facts == dossier[told.lead].receipt.facts
        config == DecidedUnder(told.lead)
        with(f, v) == DecisionFor(config, ScoreFacts(config, Learned(facts, f, v)))
    IN  \A f \in told.fields :
          \E v \in DOMAIN config.points[f] :
            with(f, v) # DecisionFor(config, ScoreFacts(config, facts))

\* A comparison in the model's words claims as fact only what some evidence of
\* the compared leads was cited for.
ComparisonIsGrounded ==
  told.kind = "comparison" /\ told.by = "model" =>
    \A c \in told.claims : c.hypothesis \/ \E l \in c.cites : l \in Prospects /\ Decided(l)

ToldIsTrue ==
  /\ SkipIsSettled /\ SurfacesAgree /\ WorkIsWhatWaits
  /\ ImprovementIsReal /\ ComparisonIsGrounded

-----------------------------------------------------------------------------
(* Said of the code by its comments, and not so.                           *)

\* "never a second, divergent notion of what settled means" (batches.py), of
\* every surface: after a change of profile answers and pages differ.
AllSurfacesAlwaysAgree ==
  \A l \in Prospects : Decided(l) =>
    /\ PoolRow(l, activeVersion).priority = BatchRow(l).priority
    /\ ExportRow(l) = BatchRow(l)

\* A page, read in two steps, shows a rejected lead as one worth pursuing.
PagesAreOneReading ==
  told.kind = "page" => told.row = BatchRow(told.lead)

\* "Processing hit a problem": a lead that broke before its decision is one
\* that evidence is still being gathered on.
BrokenLeadsNeedAPerson ==
  \A l \in Prospects :
    dossier[l].status = "DEAD_LETTER" => BatchRow(l).action = "human_review"
=============================================================================
