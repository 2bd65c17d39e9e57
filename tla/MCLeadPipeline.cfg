SPECIFICATION PipelineSpec
CONSTANTS
  Leads = {l1}
  Jobs = {l1}
  MaxAttempts = 2
  BatchSize = 1
  MaxRequeues = 1
  Reviewers = {r1, r2}
  Workers = {w1, w2}
  ProviderMode = "live"
  Null = Null
SYMMETRY Symmetry
INVARIANTS
  AttemptAccounting
  DeadLetterIffSpent
  PipelineTypeOK
  DecidedOnceWithItsJob
  AwaitingIffPending
  AckedDecisionStands
  ShadowIsInert
  LiveLeadsNeedHuman
  EmailedHasReview
PROPERTIES
  LeaseNeverRegained
  ImplementsLifecycle
