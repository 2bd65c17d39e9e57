--------------------------- MODULE ProviderConfigs --------------------------
(***************************************************************************)
(* The credential an organization brings for one live provider: its        *)
(* configuration row, its secret in the vault, connection tests and the    *)
(* acquisitions that resolve it (provider_configs.py, vault.py,            *)
(* credential_resolver.py, provider_testing.py,                            *)
(* live/provider_availability.py, the endpoints of api/main.py).           *)
(*                                                                         *)
(* Setting a credential reads under an advisory lock and writes later;     *)
(* deleting and toggling take no such lock.  A connection test is three    *)
(* transactions with a vendor call between the second and the third.       *)
(***************************************************************************)
EXTENDS Integers, FiniteSets

CONSTANTS
  Credentials,   \* raw credentials an administrator may enter
  Valid,         \* those the vendor accepts
  SecretIds,     \* ids the vault may hand out
  Actors         \* requests and handlers in flight

ASSUME CredentialAssumption == Valid \subseteq Credentials

VARIABLES
  config,        \* the row of organization_provider_configs
  vault,         \* vault.secrets: the credential of every id
  actor,         \* what every request or handler has read
  simulated,     \* whether the organization's execution mode is simulated
  configured     \* history: every credential a test could have found

providerVars == <<config, vault, actor, simulated, configured>>

NoConfig == [secret |-> "none"]
Empty == "empty"                     \* a vault id that holds nothing
NoCredential == "unavailable"
ASSUME AbsenceAssumption == {Empty, NoCredential} \cap Credentials = {}
NoActivity == [at |-> "idle"]
Setting(c, old) == [at |-> "setting", value |-> c, existing |-> old]
Found == [at |-> "found"]
Testing(c) == [at |-> "testing", value |-> c]
Recording(ok, c) == [at |-> "recording", ok |-> ok, value |-> c]
Available == [at |-> "available"]
Adapter(c) == [at |-> "adapter", value |-> c]
Unavailable(reason) == [at |-> "unavailable", reason |-> reason]

IsConfigured == config # NoConfig

ProviderInit ==
  /\ config = NoConfig
  /\ vault = [s \in SecretIds |-> Empty]
  /\ actor = [a \in Actors |-> NoActivity]
  /\ simulated = FALSE
  /\ configured = {}

ActorBecomes(a, x) == actor' = [actor EXCEPT ![a] = x]

\* pg_advisory_xact_lock on the organization and the provider.
SetLockFree == \A a \in Actors : actor[a].at # "setting"

BeginSet(a, c) ==
  /\ actor[a] = NoActivity /\ SetLockFree
  /\ ActorBecomes(a, Setting(c, config))
  /\ UNCHANGED <<config, vault, simulated, configured>>

FreeIds == {s \in SecretIds : vault[s] = Empty}

\* A first credential: a new secret and an enabled row.
CreateConfig(a) ==
  LET q == actor[a]
  IN  /\ q.at = "setting" /\ q.existing = NoConfig
      /\ FreeIds # {}
      /\ LET s == CHOOSE id \in FreeIds : TRUE
         IN  /\ vault' = [vault EXCEPT ![s] = q.value]
             /\ config' = [secret |-> s, enabled |-> TRUE, lastTest |-> "never"]
      /\ configured' = configured \cup {q.value}
      /\ ActorBecomes(a, NoActivity)
      /\ UNCHANGED simulated

\* A replacement rewrites the secret in place and leaves the switch and the
\* last test as they are.  If the row was deleted since, the UPDATE returns
\* nothing, the assertion fails and the transaction is rolled back.
ReplaceSecret(a) ==
  LET q == actor[a]
  IN  /\ q.at = "setting" /\ q.existing # NoConfig
      /\ IF IsConfigured
           THEN /\ vault' = [vault EXCEPT ![q.existing.secret] = q.value]
                /\ configured' = configured \cup {q.value}
           ELSE UNCHANGED <<vault, configured>>
      /\ ActorBecomes(a, NoActivity)
      /\ UNCHANGED <<config, simulated>>

SetProviderEnabled(on) ==
  /\ IsConfigured
  /\ config' = [config EXCEPT !.enabled = on]
  /\ UNCHANGED <<vault, actor, simulated, configured>>

DropSecret_Kept(s) == UNCHANGED vault
DropSecret(s) == vault' = [vault EXCEPT ![s] = Empty]

DeleteProviderConfig ==
  /\ IsConfigured
  /\ config' = NoConfig
  /\ DropSecret(config.secret)
  /\ UNCHANGED <<actor, simulated, configured>>

\* Test, first transaction: the status.
BeginTest(a) ==
  /\ actor[a] = NoActivity
  /\ IsConfigured
  /\ ActorBecomes(a, Found)
  /\ UNCHANGED <<config, vault, simulated, configured>>

\* resolve_provider_credential: the secret of an enabled row.
ResolveProviderCredential ==
  IF IsConfigured /\ config.enabled /\ vault[config.secret] # Empty
    THEN vault[config.secret] ELSE NoCredential

\* Second transaction.
ResolveForTest(a) ==
  /\ actor[a] = Found
  /\ ActorBecomes(a, Testing(ResolveProviderCredential))
  /\ UNCHANGED <<config, vault, simulated, configured>>

\* test_connection: the vendor's verdict, or a failure for any other reason
\* (transport, rate limit, no credential).
VendorAccepts(c) == c \in Valid

TestConnection(a, ok) ==
  /\ actor[a].at = "testing"
  /\ ok => VendorAccepts(actor[a].value)
  /\ ActorBecomes(a, Recording(ok, actor[a].value))
  /\ UNCHANGED <<config, vault, simulated, configured>>

\* Third transaction: on whatever row there is by now.
RecordTestResult(a) ==
  /\ actor[a].at = "recording"
  /\ IF IsConfigured
       THEN config' = [config EXCEPT !.lastTest =
              IF actor[a].ok THEN "success" ELSE "failure"]
       ELSE UNCHANGED config
  /\ ActorBecomes(a, NoActivity)
  /\ UNCHANGED <<vault, simulated, configured>>

SetExecutionMode(sim) ==
  /\ simulated # sim
  /\ simulated' = sim
  /\ UNCHANGED <<config, vault, actor, configured>>

\* resolve_organization_providers: the mode, the status and the credential
\* are read one after the other by the handler of a lead.
BeginAcquisition(a) ==
  /\ actor[a] = NoActivity
  /\ ActorBecomes(a,
       IF simulated THEN Unavailable("provider_mode_disallows_live")
       ELSE IF ~IsConfigured THEN Unavailable("provider_not_configured")
       ELSE IF ~config.enabled THEN Unavailable("provider_disabled")
       ELSE Available)
  /\ UNCHANGED <<config, vault, simulated, configured>>

BuildAdapter(a) ==
  /\ actor[a] = Available
  /\ ActorBecomes(a, IF ResolveProviderCredential = NoCredential
                  THEN Unavailable("credential_unavailable")
                  ELSE Adapter(ResolveProviderCredential))
  /\ UNCHANGED <<config, vault, simulated, configured>>

\* A request ends, or its process dies and the open transaction with it.
LeaveActor(a) ==
  /\ actor[a] # NoActivity
  /\ ActorBecomes(a, NoActivity)
  /\ UNCHANGED <<config, vault, simulated, configured>>

ProviderNext ==
  \/ \E a \in Actors :
       \/ \E c \in Credentials : BeginSet(a, c)
       \/ CreateConfig(a) \/ ReplaceSecret(a)
       \/ BeginTest(a) \/ ResolveForTest(a)
       \/ \E ok \in BOOLEAN : TestConnection(a, ok)
       \/ RecordTestResult(a)
       \/ BeginAcquisition(a) \/ BuildAdapter(a)
       \/ LeaveActor(a)
  \/ \E on \in BOOLEAN : SetProviderEnabled(on) \/ SetExecutionMode(on)
  \/ DeleteProviderConfig

ProviderSpec == ProviderInit /\ [][ProviderNext]_providerVars

-----------------------------------------------------------------------------
\* provider_configs.py, "single-transaction writes": a row always has its
\* secret and the vault never keeps one without a row, although a deletion
\* may run between the two halves of a replacement.
VaultMatchesConfig ==
  \A s \in SecretIds : (vault[s] # Empty) <=> (IsConfigured /\ config.secret = s)

\* A recorded success belongs to a credential that was really configured and
\* that the vendor accepts, even if it is no longer the present one.
SuccessWasEarned ==
  IsConfigured /\ config.lastTest = "success" => configured \cap Valid # {}

\* The status shown to the administrator is about the credential in use.
\* The code does not keep this: see the README.
TestedIsPresent ==
  IsConfigured /\ config.lastTest = "success" => vault[config.secret] \in Valid

\* api/main.py, test_provider_connection_endpoint: a test that found the row
\* lacks a credential only if the vault lost the secret.
UnavailableOnlyIfOrphaned ==
  \A a \in Actors :
    actor[a] = Testing(NoCredential) /\ IsConfigured => vault[config.secret] = Empty
=============================================================================
