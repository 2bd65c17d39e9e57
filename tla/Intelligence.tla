---------------------------- MODULE Intelligence ----------------------------
(***************************************************************************)
(* What an organization pays machines for: calls of the language model,    *)
(* discovery runs, selective research, simulated acquisition and its       *)
(* benchmark, the answers of live vendors, the targeting by which all of   *)
(* them score, what a customer is told of it, and the columns of a file.   *)
(* A discovery run and a preview are told what the model answered, a       *)
(* profile version is an argument of a score; none reads what another one  *)
(* wrote, so a behaviour picks one.                                        *)
(***************************************************************************)
EXTENDS LlmService, Discovery, Research, Policies, Targeting, Adapters,
        Surfaces, CsvMapping

VARIABLE service       \* the one that moves in this behaviour

\* The two at rest start from one state each.
AtRest ==
  /\ service # "llm" =>
       vendor = (CHOOSE v \in Vendors : TRUE) /\ limit = (CHOOSE l \in Limits : TRUE)
  /\ service # "discovery" => live = CHOOSE l \in LiveChoices : TRUE
  /\ service # "research" =>
       /\ receipt = CHOOSE r \in Receipts : TRUE
       /\ ceilings = CHOOSE c \in Ceilings : TRUE
       /\ mode = CHOOSE m \in Modes : TRUE
       /\ rows = AcquiredRows(CHOOSE a \in Acquired : TRUE)
  /\ service # "scoring" => world = 1
  /\ service # "columns" => csv.file = CHOOSE f \in CsvFiles : TRUE

Services ==
  {"llm", "discovery", "research", "scoring", "targeting", "policies", "adapters", "surfaces",
   "columns"}

IntelligenceInit ==
  /\ service \in Services
  /\ LlmInit /\ DiscoveryInit /\ ResearchInit /\ SimInit /\ TargetingInit /\ PoliciesInit
  /\ AdaptersInit /\ SurfacesInit /\ CsvInit
  /\ AtRest

LlmStep ==
  /\ service = "llm" /\ LlmNext
  /\ UNCHANGED <<service, discoveryVars, researchVars, simVars, targetingVars, policyVars,
                 adapterVars, surfaceVars, csv>>
DiscoveryStep ==
  /\ service = "discovery" /\ DiscoveryNext
  /\ UNCHANGED <<service, llmVars, researchVars, simVars, targetingVars, policyVars,
                 adapterVars, surfaceVars, csv>>
ResearchStep ==
  /\ service = "research" /\ ResearchNext
  /\ UNCHANGED <<service, llmVars, discoveryVars, simVars, targetingVars, policyVars,
                 adapterVars, surfaceVars, csv>>
ScoringStep ==
  /\ service = "scoring" /\ SimNext
  /\ UNCHANGED <<service, llmVars, discoveryVars, researchVars, targetingVars,
                 policyVars, adapterVars, surfaceVars, csv>>

TargetingStep ==
  /\ service = "targeting" /\ TargetingNext
  /\ UNCHANGED <<service, llmVars, discoveryVars, researchVars, simVars, policyVars,
                 adapterVars, surfaceVars, csv>>
PoliciesStep ==
  /\ service = "policies" /\ PoliciesNext
  /\ UNCHANGED <<service, llmVars, discoveryVars, researchVars, simVars, targetingVars,
                 adapterVars, surfaceVars, csv>>
AdaptersStep ==
  /\ service = "adapters" /\ AdaptersNext
  /\ UNCHANGED <<service, llmVars, discoveryVars, researchVars, simVars, targetingVars,
                 policyVars, surfaceVars, csv>>
SurfacesStep ==
  /\ service = "surfaces" /\ SurfacesNext
  /\ UNCHANGED <<service, llmVars, discoveryVars, researchVars, simVars, targetingVars,
                 policyVars, adapterVars, csv>>

ColumnsStep ==
  /\ service = "columns" /\ CsvNext
  /\ UNCHANGED <<service, llmVars, discoveryVars, researchVars, simVars, targetingVars,
                 policyVars, adapterVars, surfaceVars>>

IntelligenceNext ==
  LlmStep \/ DiscoveryStep \/ ResearchStep \/ ScoringStep \/ TargetingStep
    \/ PoliciesStep \/ AdaptersStep \/ SurfacesStep \/ ColumnsStep

intelligenceVars ==
  <<service, llmVars, discoveryVars, researchVars, simVars, targetingVars, policyVars,
    adapterVars, surfaceVars, csv>>

IntelligenceSpec == IntelligenceInit /\ [][IntelligenceNext]_intelligenceVars

-----------------------------------------------------------------------------
\* The ledgers, runs, candidates and calls hold what the code can put there.
IntelligenceTypeOK ==
  /\ service = "llm" => LlmTypeOK
  /\ service = "discovery" => DiscoveryTypeOK
  /\ service = "research" => ResearchTypeOK

\* The ceilings of the model's budget are read before the spending they permit
\* is recorded: a month and a batch end within theirs but for the calls in
\* flight, whatever an administrator sets meanwhile.
ModelBudgetsAreSoft == service = "llm" => MonthBudgetIsSoft /\ BatchBudgetIsSoft

\* Sums of money: what vendors of models billed is in the ledger once, or owed
\* by a call that is still writing; what a lead costs stays within its cap but
\* for one call of every request, and within it in the benchmark.
SpendingAddsUp ==
  /\ service = "llm" => LedgerIsComplete
  /\ service = "research" => LeadBudgetIsSoft
  /\ service = "policies" => CapHolds

\* Crashes between the ingestion of a promoted company, its link and the next
\* stage: only what screening liked and its site did not refute becomes a lead,
\* the strongest first, and a run that is past promoting reports what it did;
\* money for a buyer is spent on verified companies whose lead was decided, and
\* the ledger never has more than one row, nor a charge nobody made.
DiscoveryIsEarned ==
  service = "discovery" =>
    /\ OnlyScreenedBecomeLeads /\ StrongestFirst /\ FunnelIsTrue
    /\ BuyersOnlyForVerified /\ SearchLedgerIsSound

\* What a vendor's answer is worth, whatever it answers: it costs what was
\* delivered, says what it can, counts only if it is about the person, and is
\* not asked for if it cannot matter, nor before the vendor wants it; and what
\* a model makes of a file's columns is read as the customer confirmed it.
AnswersAreTrusted ==
  /\ service = "columns" => UploadIsAsConfirmed
  /\ service = "adapters" =>
    /\ PaidIffDelivered /\ NothingMappableLost /\ EvidenceIsOfThePerson
    /\ TradeBeforeTechnology /\ SkippedIsImmaterial /\ CallsArePaced

\* Once the requests under way are over, a buyer on file or a fresh answer
\* costs nothing, whoever asks, leads of one company share what a source has
\* answered, and a live organization never pays for research.
NothingBoughtTwice ==
  [][/\ service = "discovery" => KnownBuyerIsFree
     /\ service = "research" => FreshAnswerIsFree /\ LiveNeverResearches
     /\ service = "scoring" => SharedAnswerIsFree
     /\ service = "policies" => BuysOnlyNews
    ]_intelligenceVars

\* Research that several requests plan and pay at once: only questions the
\* receipt left open, one target at a time, its cheapest source first, and no
\* evidence without the row of its call.
ResearchIsOrdered ==
  service = "research" =>
    OnlyOpenQuestionsAsked /\ PlanHasOneTarget /\ CheapestFirst /\ AnswerHasRow

\* However shared evidence is bought, a receipt is what its version makes of the
\* sources it counts, and the ledger shows no call that was not made; and what
\* pages, batches and answers tell of a lead is what its receipt says.
DecisionsAreReplayable ==
  /\ service = "scoring" => ReceiptIsReplayable /\ LedgerNeverInvents
  /\ service = "surfaces" => ToldIsTrue

\* Acquisition stops for a reason that holds: the decision is settled exactly
\* when no missing answer can change it, a gate within the reject band abandons
\* no lead that could still be routed, a threshold is the lowest the sample
\* defends, and the tuned baseline is the best of its grid.
StopsAreJustified ==
  /\ service = "scoring" => SettledIsExact
  /\ service = "policies" => PoliciesStopRightly /\ TauIsLowest /\ TunedIsBest

\* Whatever is described, confirmed and learned from results: a lead can earn
\* exactly 100 points, what matters more weighs more, results count once.
TargetingIsSound == service = "targeting" => ProfileIsSound
=============================================================================
