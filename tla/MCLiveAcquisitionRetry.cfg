SPECIFICATION AcquisitionSpec
CONSTANTS
  abstract = abstract
  hunter = hunter
  apollo = apollo
  firm = firm
  title = title
  seniority = seniority
  Company = Company
  Leads = {l1}
  Workers = {w1, w2}
  Providers = {abstract, hunter, apollo}
  CompanyProviders = {abstract}
  Order <- ThreeProviders
  Fields <- MCFieldsHere
  Cost <- MCCostHere
  MaxCost = 2
  FieldTTL <- MCFieldTTL
  MissTTL = 1
  UncertainTTL = 1
  CooldownTTL = 1
  Day = 4
  Month = 4
  LeadCap = 4
  DailyCap = 5
  MonthCap = 5
  Strategies = {"optimized", "evaluation_parallel"}
  MaxAttempts = 2
  MaxClock = 1
SYMMETRY Symmetry
INVARIANTS
  LeadCapIsHard
CHECK_DEADLOCK FALSE
