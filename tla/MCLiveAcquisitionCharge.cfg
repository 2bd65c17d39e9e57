SPECIFICATION AcquisitionSpec
CONSTANTS
  abstract = abstract
  hunter = hunter
  apollo = apollo
  firm = firm
  title = title
  seniority = seniority
  Company = Company
  Leads = {l1}
  Workers = {w1}
  Providers = {abstract}
  CompanyProviders = {abstract}
  Order <- CompanyOrder
  Fields <- MCFieldsHere
  Cost <- MCCostHere
  MaxCost = 2
  FieldTTL <- MCFieldTTL
  MissTTL = 1
  UncertainTTL = 1
  CooldownTTL = 1
  Day = 2
  Month = 4
  LeadCap = 4
  DailyCap = 4
  MonthCap = 4
  Strategies = {"optimized"}
  MaxAttempts = 2
  MaxClock = 0
INVARIANTS
  PaidCallNotRepeated
CHECK_DEADLOCK FALSE
