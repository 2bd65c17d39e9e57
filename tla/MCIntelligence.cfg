SPECIFICATION IntelligenceSpec
CONSTANTS
  n1 = n1
  n2 = n2
  LlmCalls = {n1, n2}
  LlmBatches = {b1}
  NoLlmBatch = none
  Vendors = {"deepseek", "bedrock", "agentcore"}
  MaxAttempts = 2
  Limits <- MCLimits
  j1 = j1
  s1 = s1
  Domains = {n1, n2, j1}
  Junk = {j1}
  Stranger = s1
  Runner = run
  Readers = {r1}
  LiveChoices <- MCLive
  PromotionCap = 1
  MaxSearches = 2
  Researchers = {n1, n2}
  Fields = {"industry", "employee_count"}
  Receipts <- MCReceipts
  Ceilings <- MCCeilings
  Modes = {"simulated", "live_human_only"}
  Acquired <- MCAcquired
  LeadBudget = 500
  MaxAsked = 2
  SimLeads = {n1, n2}
  Offered = {"inbound_payload", "internal_crm", "deep_research"}
  Worlds <- MCWorlds
  Profiles <- MCProfiles
  MaxRuns = 2
  MaxUpsets = 2
  Drafts <- MCDrafts
  OutcomeFiles <- MCOutcomeFiles
  MaxListed = 2
  Priced = {"inbound_payload", "internal_crm", "firmographics_premium", "intent_signals",
            "deep_research"}
  Corpora <- MCCorpora
  Strategies <- MCStrategies
  GATE_GRID <- MCGateGrid
  Confidences = {50, 95}
  ErrorTargets = {80, 95}
  MaxSample = 4
  Walks <- MCWalks
  Identities <- MCIdentities
  Shorter <- MCShorter
  Titles <- MCTitles
  Ranks <- MCRanks
  Departments <- MCDepartments
  Headcounts <- MCHeadcounts
  Industries <- MCIndustries
  MinInterval = 3
  RetryAfters = {4}
  MaxWalks = 2
  MaxSeconds = 5
  a1 = a1
  a2 = a2
  Clients <- MCClients
  Holdings <- MCHoldings
  Sureties <- MCSureties
  ProfileHistory <- MCProfileHistory
  Rated = {a2}
  Plans <- MCPlans
  CsvFiles <- MCCsvFiles
  Readings <- MCReadings
  Corrections <- MCCorrections
INVARIANTS
  IntelligenceTypeOK
  ModelBudgetsAreSoft
  SpendingAddsUp
  DiscoveryIsEarned
  AnswersAreTrusted
  ResearchIsOrdered
  StopsAreJustified
  
  TargetingIsSound

  
SYMMETRY Symmetry
CHECK_DEADLOCK FALSE
