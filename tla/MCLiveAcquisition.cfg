SPECIFICATION AcquisitionSpec
CONSTANTS
  abstract = abstract
  hunter = hunter
  apollo = apollo
  firm = firm
  title = title
  seniority = seniority
  Company = Company
  Leads = {l1, l2, l3}
  Workers = {w1, w2}
  Providers = {abstract}
  CompanyProviders = {abstract}
  Order <- CompanyOrder
  Fields <- MCFieldsHere
  Cost <- MCCostHere
  MaxCost = 1
  FieldTTL <- MCFieldTTL
  MissTTL = 1
  UncertainTTL = 2
  CooldownTTL = 1
  Day = 2
  Month = 4
  LeadCap = 2
  DailyCap = 1
  MonthCap = 2
  Strategies = {"optimized"}
  MaxAttempts = 1
  MaxClock = 2
SYMMETRY Symmetry
INVARIANTS
  AcquisitionTypeOK
  SpendCapsAreSoft
  FreshAnswersNotRebought
CHECK_DEADLOCK FALSE
