SPECIFICATION OrganizationSpec
CONSTANTS
  People = {ada, ben, eva}
  MemberCalls = {r1, r2}
  Invitations = {1, 2, 3}
  SeatPlans = {1, 2}
  FreeSeats = 1
  Credentials = {good, bad}
  Valid = {good}
  SecretIds = {1, 2}
  Actors = {ada, ben, eva}
  Requests = {r1, r2}
  Leads = {l1}
  MaxVersions = 2
  MaxProposals = 3
  MinFeedback = 1
  Refs = {"ann", "bob"}
  CompanyOf <- MCCompanyOf
  NameOnly = {"globex"}
  IntakeCalls = {r1, r2}
  Batches = {b1}
  MaxRows = 2
  LeadLimit = 1
  WarnAt = 1
  MaxMonth = 1
  Runners = {r1, r2}
  Environments <- MCEnvironments
  MaxFile = 2
INVARIANTS
  OrganizationTypeOK
  RosterIsSound
  CredentialsAreHonest
  OneProfileRules
  
  WrittenOnce
PROPERTIES
  MembersComeByInvitation
  HistoryIsPermanent
SYMMETRY Symmetry
CHECK_DEADLOCK FALSE
