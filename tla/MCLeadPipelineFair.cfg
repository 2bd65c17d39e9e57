SPECIFICATION PipelineLiveSpec
CONSTANTS
  Leads = {l1, l2}
  Jobs = {l1, l2}
  MaxAttempts = 2
  BatchSize = 2
  MaxRequeues = 0
  Reviewers = {}
  Workers = {w1}
  ProviderMode = "simulated"
  Null = Null
PROPERTIES
  JobsSettle
