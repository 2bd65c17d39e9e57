---------------------------- MODULE Organization ----------------------------
(***************************************************************************)
(* The four parts of an organization that its people and API clients       *)
(* change, its roster, its provider credential, its targeting profile and  *)
(* its leads, and the schema that all of them are kept in.  They share no  *)
(* table and no lock, so a behaviour picks one and leaves the rest alone.  *)
(***************************************************************************)
EXTENDS Membership, ProviderConfigs, IcpProfiles, Intake, Migrations

VARIABLE part       \* the part that moves in this behaviour

OrganizationInit ==
  /\ part \in {"roster", "credential", "targeting", "intake", "schema"}
  /\ MembershipInit /\ ProviderInit /\ IcpInit /\ IntakeInit
  /\ MigrationsInit
  /\ part # "schema" => env = (CHOOSE e \in Environments : TRUE) /\ tree = << >>

RosterStep ==
  /\ part = "roster" /\ MembershipNext
  /\ UNCHANGED <<part, providerVars, icpVars, intakeVars, migrationVars>>

CredentialStep ==
  /\ part = "credential" /\ ProviderNext
  /\ UNCHANGED <<part, membershipVars, icpVars, intakeVars, migrationVars>>

TargetingStep ==
  /\ part = "targeting" /\ IcpNext
  /\ UNCHANGED <<part, membershipVars, providerVars, intakeVars, migrationVars>>

LeadStep ==
  /\ part = "intake" /\ IntakeNext
  /\ UNCHANGED <<part, membershipVars, providerVars, icpVars, migrationVars>>

SchemaStep ==
  /\ part = "schema" /\ MigrationsNext
  /\ UNCHANGED <<part, membershipVars, providerVars, icpVars, intakeVars>>

OrganizationNext ==
  RosterStep \/ CredentialStep \/ TargetingStep \/ LeadStep \/ SchemaStep

organizationVars ==
  <<part, membershipVars, providerVars, icpVars, intakeVars, migrationVars>>

OrganizationSpec == OrganizationInit /\ [][OrganizationNext]_organizationVars

-----------------------------------------------------------------------------
\* The tables and the requests of the parts hold what the code can put
\* there (MembershipTypeOK, IntakeTypeOK; the others are typed by what
\* follows).
OrganizationTypeOK == MembershipTypeOK /\ IntakeTypeOK

\* The roster after any interleaving of invitations, acceptances, resends,
\* demotions and plan changes: concurrent acceptances seat no more members than
\* a plan once allowed, an address never has two tokens that work, and the last
\* owner is lost only to an acceptance.
RosterIsSound == SeatsWithinPlan /\ OnePendingPerEmail /\ OwnerLostOnlyByAcceptance

\* Who is a member came in by an invitation that was pending at that moment,
\* and a settled invitation never admits anyone again.
MembersComeByInvitation == JoinsByInvitation /\ InvitationSettledOnce

\* Replacing, deleting and testing a credential at the same time neither
\* leaves a secret without its row nor records a success nobody earned.
CredentialsAreHonest == VaultMatchesConfig /\ SuccessWasEarned

\* Profile versions and suggestions under concurrent editors and crashes: one
\* version rules, the newest; the holder of the lock writes the next number;
\* what counts as accepted was applied, to a profile as old as the one it was
\* computed from; and feedback leaves no more suggestions than requests.
OneProfileRules ==
  /\ NewestVersionRules /\ LockHolderNumbersNext
  /\ AcceptedIsApplied /\ SuggestionsLookBack /\ OpenFeedbackBounded

\* What was written for good: a version keeps its content, an answered
\* suggestion its answer, an applied one is not accepted again, and a lead its
\* batch, month and class.
HistoryIsPermanent ==
  VersionsArePermanent /\ AnswersAreFinal /\ AppliedIsNotAcceptedAgain /\ FirstWriteWins

\* Uploads, posts and midnight in any order: the month ends at most one upload
\* per concurrent request over the limit, with one email per kind and request.
UsageIsBounded == LeadQuotaIsSoft /\ UsageEmailsBounded

\* An ingestion or a migration that crashes, is repeated or meets another one:
\* one row per company, a lead counts only for a batch with a row that names it,
\* and the DDL of every file is committed once, in order, and only to the
\* database that the operator named.
WrittenOnce ==
  /\ OneRowPerCompany /\ AttributedLeadHasRow
  /\ part = "schema" => MigrationsAreSound
=============================================================================
