SPECIFICATION PipelineSpec
CONSTANTS
  Leads = {l1}
  Jobs = {l1}
  MaxAttempts = 2
  BatchSize = 1
  MaxRequeues = 0
  Reviewers = {}
  Workers = {w1}
  ProviderMode = "simulated"
  Null = Null
INVARIANTS
  JobAndLeadAgree
CHECK_DEADLOCK FALSE
