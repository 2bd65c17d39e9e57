SPECIFICATION IntelligenceSpec
CONSTANTS
  n1 = n1
  n2 = n2
  LlmCalls = {n1}
  LlmBatches = {b1}
  NoLlmBatch = none
  Vendors = {"deepseek"}
  MaxAttempts = 1
  Limits <- MCLimits
  j1 = j1
  s1 = s1
  Domains = {n1}
  Junk = {}
  Stranger = s1
  Runner = run
  Readers = {r1}
  LiveChoices = {{s1}}
  PromotionCap = 1
  MaxSearches = 1
  Researchers = {n1}
  Fields = {"industry", "employee_count"}
  Receipts <- MCReceipts
  Ceilings <- MCCeilings
  Modes = {"simulated"}
  Acquired <- MCAcquired
  LeadBudget = 500
  MaxAsked = 1
  SimLeads = {n1, n2}
  Offered = {"inbound_payload", "internal_crm", "deep_research"}
  Worlds <- MCWorlds
  Profiles <- MCProfiles
  MaxRuns = 2
  MaxUpsets = 2
  Drafts <- MCDrafts
  OutcomeFiles <- MCOutcomeFiles
  MaxListed = 2
  Priced = {"inbound_payload", "internal_crm", "firmographics_premium", "intent_signals",
            "deep_research"}
  Corpora <- MCCorpora
  Strategies <- MCStrategies
  GATE_GRID <- MCGateGrid
  Confidences = {50, 95}
  ErrorTargets = {80, 95}
  MaxSample = 4
  Walks <- MCWalks
  Identities <- MCIdentities
  Shorter <- MCShorter
  Titles <- MCTitles
  Ranks <- MCRanks
  Departments <- MCDepartments
  Headcounts <- MCHeadcounts
  Industries <- MCIndustries
  MinInterval = 3
  RetryAfters = {4}
  MaxWalks = 2
  MaxSeconds = 5
  a1 = a1
  a2 = a2
  Clients <- MCClients
  Holdings <- MCHoldings
  Sureties <- MCSureties
  ProfileHistory <- MCProfileHistory
  Rated = {a2}
  Plans <- MCPlans
  CsvFiles <- MCCsvFiles
  Readings <- MCReadings
  Corrections <- MCCorrections
INVARIANT NoAutonomyWhenLive
CHECK_DEADLOCK FALSE
