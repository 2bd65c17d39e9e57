# ARIE enrichment engine: a TLA+ verification project

ARIE takes in sales leads, buys evidence about them from data vendors, decides
what to do with each lead and asks a human where the decision is not safe to
automate. Everything durable is in Postgres; the API processes and the workers
keep no state of their own, so every interesting question is about the order in
which their transactions commit.

Paths below are relative to the repository; `arie/` is `src/src/arie/`.

## 1. Inventory

| Component | State | Operations | Interacts through | What makes it correct |
|---|---|---|---|---|
| Job queue (`jobs/queue.py`) | `jobs` rows: status, attempts, lease, owner | enqueue, claim with reclaim, complete, fail | one transaction per method, `SKIP LOCKED`, a fence on the worker id | each claim is one attempt; late reports do nothing; every job ends |
| Worker (`jobs/worker.py`) | the batch in hand | cycle, work transaction, failure transaction, notification | queue, handler, lead row | a job's effects and its completion are one commit |
| Lead state machine (`statemachine/`) | `leads.status`, `leads.version` | `apply_transition` | version compare-and-swap | a final outcome is final; the graph is followed |
| Ingestion and batches (`api/ingest.py`, `batches.py`, `identity/resolver.py`) | leads, companies, persons, jobs, batch rows | upsert of all of them, per post or per row of an upload | one transaction per row, advisory lock per company name | a redelivery changes nothing, or recovers a failed job; one row per company |
| Human review (`approval/workflow.py`) | `human_reviews` | request, read, submit | compare-and-swap on `responded_at` and on the version | one answer, and who was told it was applied can rely on it |
| Live acquisition (`jobs/handlers.py`, `live/`) | `provider_calls`, `evidence` | walk of the providers behind five guards | each row in its own transaction, read by all workers | spending stays within what the caps promise; nothing fresh is bought twice |
| Vendor adapters (`providers/`, `identity/validation.py`, `normalization/`) | the pacer of a worker | one exchange, what it costs, what its fields mean, whose they are | HTTP | an answer is paid when delivered and counts only if it is about the person |
| Simulated acquisition (`jobs/handlers.py`, `policy/production.py`) | the same two tables | policy over synthetic providers | as above | a receipt can be replayed from its version and its sources |
| Scoring and policies (`scoring/`, `policy/`, `confidence/`) | none | points, bounds, merge; the policies of the benchmark | called by the handlers | a stop is justified: nothing unbought could change the decision |
| Discovery (`discovery/`) | runs, candidates, buyers | search, screen, promote, drive, shortlist; reads that build the shortlist again | the job queue, the ledger, the evidence table | only screened companies become leads; a buyer is bought once |
| Research (`research_acquisition.py`) | `provider_calls`, `evidence` | plan, authorise, call, record | read of spend and profile, then the call | only open questions are asked, within soft budgets |
| LLM service (`llm/`) | `model_calls` | authorise, attempt and repair, record | the ledger; vendors | what was billed is recorded once; budgets are overshot by calls in flight only |
| Members and invitations (`members.py`, `invitations.py`) | memberships, invitations | invite, resend, revoke, accept, change role, remove | advisory lock of the organization, seat quota | who is a member was invited; seats within the plan |
| Provider credentials (`provider_configs.py`, `vault.py`) | a configuration row, a vault secret | set, delete, toggle, test, use | a lock that only some operations take | no secret without its row, no success nobody earned |
| ICP profiles and proposals (`icp_profiles.py`, `intelligence/`) | profile versions, suggestions, feedback | edit, confirm, analyse, accept, reject | lock on version numbers; commits before and after | the newest version rules; points add up; results count once |
| Limits and usage (`limits.py`, `usage_notifications.py`) | limits, audit rows | quotas of leads, rows and seats; usage emails | counts read before the insert | overshoot bounded by concurrent requests |
| Billing (`billing/`) | `organization_billing`, limits, webhook events, audit rows | checkout, webhook | Stripe, at least once and in any order | the limits follow the subscription; events are applied once and not backwards |
| Column mapping (`intelligence/csv_mapping.py`) | none | preview of a file's columns with tables and a model; upload by what was confirmed | the LLM service, the upload | rows are read by exactly what was confirmed, or refused |
| Schema migrations (`scripts/migrate.py`, `migrations.py`) | `schema_migrations` | dry run, apply, readiness check | one transaction per file, a primary key | each file once, in order, in the database that was named |
| Receipts, batches read back, dashboard, copilot | none | derive a recommendation and tell it | statements of their own on the same tables | a customer is told what the receipt says, by every surface |
| API keys and authentication, audit log, email, MCP server, corpora | rows or nothing | see section 6 | | |

What is hard here: a lease that expires under a worker that is still working; a
crash between two commits of one logical operation; a value read before a slow
vendor call and used after it; an idempotency key that drops a row which carried
news; webhooks out of order, twice, and in the same second; quotas and budgets
that are checked before they are consumed; a profile that changes between a
decision and its reading. `PROJECT.json` lists each hazard at its line.

## 2. Modules

Four families, each with one composition that TLC runs. An `MC` module
instantiates the module of the same name.

**Pipeline.**

* `JobQueue` is the queue alone. A row's two timers, the lease and
  `next_retry_at`, are Booleans that passing time sets, because the code only
  compares each with `now()`. Worker ids are a counter, as every cycle has a
  fresh uuid. Any id may report any job at any time, which is more than the
  workers do.
* `LeadStore` is the leads table: transition graph, status groups, versioned
  update. `Review` adds the reviews and the reviewers' clients, which send
  a decision with a version that may be stale when it is handled, and send it
  again when a response is lost.
* `LeadPipeline` composes the three with the worker processes. A job's work is
  two steps, `BeginWork` (the unlocked read) and `CommitWork` (everything the
  transaction writes, fenced by version and lease); between them the lease can
  expire, the mode can be switched and the process can die. `RecordFailure` is
  the second transaction of a failed job. The model score is data, so the
  decision and whether it is confident enough are free.
* `LeadLifecycle` is the promise: a lead arrives and is then settled once,
  directly or by one human answer, or given up on. `ImplementsLifecycle` says
  that the pipeline implements it.

**Live acquisition and billing.**

* `ProviderLedger` is the ledger, the evidence table and the guards that read
  them; `LiveAcquisition` is the walk of the handler over the providers, in both
  strategies. Money is in whole units. The attempt of a lead holds the lead's
  row lock, so one lead has one attempt at a time; what is shared is the
  company's evidence, the caps and the cooldowns.
* `Billing` is one organization and the part of Stripe it sees. A delivery that
  changes an entitlement is two commits, because `set_limits` commits.

**Organization.** What administrators and uploads do to one organization.

* `Membership`: a request reads the caller's role once and acts on it later; a
  transaction is split where it waits for the advisory lock, or does not take it.
* `ProviderConfigs`: setting a credential reads under a lock and writes later,
  deleting and toggling take no lock, a test calls the vendor between its reads
  and its write. The vault is external.
* `IcpProfiles`: versions under an advisory lock, suggestions that are computed
  from one version and accepted against another, feedback.
* `Intake`: posts and uploads row by row, companies found and inserted in two
  steps, the monthly quota, usage emails, API keys.
* `Migrations`: runs of the script resolve a target from four variables, read once
  what is applied and commit one file at a time, while other runs do the same and
  the directory changes. A file's DDL is one effect that commits with its row.
* `Organization` puts the five side by side. `part`, chosen in the initial state,
  says which of them runs: they share no table row, so their product would
  multiply states and show nothing new.

**Intelligence.** What models, scorers and vendors are asked, and what is made
of it.

* `LlmService`: one call is an authorisation against the ledger, some attempts
  without a transaction, and one row per billed attempt.
* `Discovery`: a run's stages, with a website check and three commits per
  promotion, a drive of the shared queue, and readers that build the shortlist
  again while all that is going on. A foreign organization's job is in the queue.
* `Research`: requests that plan and pay for one missing field at a time.
* `Scoring`: points, merge of sources, floor and ceiling of a score.
  `SimulatedAcquisition` is `compute_score` on the simulated catalogue through
  the shared tables, with crashes and changes of the profile.
* `Policies`: calibration of a threshold, then every benchmark policy over a
  corpus with a shared cache and ledger.
* `Targeting`: drafts become points by largest remainders, labelled results
  become suggestions, accepted suggestions become drafts.
* `Taxonomy` is what words mean; `Adapters` what a worker makes of every answer
  of each vendor, with costs, refusals, pacing and the identity check.
* `Surfaces`: pages, batch rows, exports, dashboard and copilot, each with what
  it reads and when.
* `CsvMapping`: the preview of a file's columns, by tables and then by a model that
  may say anything, a file that is edited in between, and the upload that checks
  what the client sent. A header is its folded form.
* `Intelligence` puts the nine services side by side, like `Organization`.

Definitions whose comment begins with "Mutation:", or whose name is that of the
definition below them with a suffix (`VersionOf_Latest` of `VersionOf`), are wrong
on purpose: each is a bug that some property has to catch, and `PROJECT.json` says
which.

## 3. Runs

| Run | Instance | Shows |
|---|---|---|
| `pipeline` | 1 lead, 2 workers, 2 reviewers, 2 attempts, 1 requeue, live deployment with mode switches | accounting and dead letters of the queue, one decision per lead, reviews, finality, only humans settle live leads, refinement |
| `fair` | 2 leads in a batch, 1 worker | every job settles |
| `acquisition` | 3 leads of a company with or without its domain, 2 workers, 1 provider, two days | soft caps, sharing of evidence |
| `acquisition_retry` | 1 lead, 2 attempts, 3 providers, 2 workers, both strategies | the cap of a lead is exact |
| `billing` | 1 API process, 2 checkouts in turn, every kind of event, 3 events, 2 seconds, 1 fault | limits, duplicates, order, one customer |
| `billing_live` | 1 checkout, 3 events, 2 seconds, 1 fault, fair delivery | every event takes effect |
| `organization` | 2 requests at a time, 3 people and invitations, plans of 1 and 2 seats, 2 credentials of which 1 is valid, 2 profile versions and 3 suggestions, 2 references of 2 companies, uploads of 2 rows, a limit of 1 lead, 2 months; 2 runs of the migrations over 2 files, 2 databases and 3 environments | roster, credentials, profiles, quotas, ingestion and schema under any interleaving, with crashes between transactions |
| `intelligence` | 2 model calls and 3 vendors; 3 domains, 1 reader, 1 foreign lead; 2 researchers and 2 fields; 2 leads and 3 sources; 12 drafts with 3 files of results; 5 sources, 2 confidences, samples of 4; walks of 3 vendors; 2 leads with readers; 8 files of at most 3 columns and 7 mappings | budgets, ledger, discovery, research, stops, replay, targeting, answers of vendors and models, what customers are told |

Bounds. Two attempts are the least with both a rescheduled and a final failure;
one requeue gives a second budget. Leads of the pipeline share no row but the
batch, so one lead shows its races and two show the batch. Two workers, or two
requests, are the least that can hold stale reads of each other. Three leads let
one organization pass its daily cap; two days put a call on the wrong side of
midnight. Three events are a creation, a change and an end; two seconds make both
a stale event and two events of a second. Three people are an owner, a second
owner and an invited one; a plan that shrinks from two seats to one makes a
roster that is over its plan. A lead limit of one is passed by the first upload
of two rows, and a second month resets it. A discovery run may promote one of two
companies, so the order of promotion shows, and the third domain is a directory
that is no company. Two leads of one company are the least that share evidence.
A calibration sample of four has ties, errors on both sides of them and a size
at which a bound is met. The points of a draft depend on levels and list sizes
only, so the drafts were chosen to have remainders that tie, empty lists and full
ones. `MaxFaults`, `MaxClock`, `MaxEvents`, `MaxSeconds`, `MaxCheckouts`,
`MaxRequeues`, `MaxVersions`, `MaxProposals`, `MaxRows`, `MaxMonth`,
`MaxSearches`, `MaxAsked`, `MaxRuns`, `MaxUpsets`, `MaxSample` and `MaxWalks`
appear in guards only. `pipeline` and `fair` check for deadlock; the
other runs do not, since they stop when these bounds are used up. What is
chosen in the initial state and never changes (`strategy`, `noDomain`, `part`,
`service`, limits, receipts, worlds) lets one run cover every deployment.

Symmetry is used where processes or leads are interchangeable, and in no run
with a liveness property.

Fairness. Workers poll in a loop (`worker.main`), so a due job is claimed over
and over until it is claimed; leases and backoffs end because time passes; a
worker that has begun goes on unless it dies, which it may do every time, so
`StartCycle` is strongly fair and `Crash` has no bound. In billing a server
finishes what it accepted and Stripe redelivers until it gets a 200. The
organization and intelligence families promise nothing eventually: a request that
dies is not taken up again by the code, so their properties are safety.

The properties of the two large runs are conjunctions, one per promise of a
component. Some of the conjuncts deserve a word.

* `RosterIsSound`: concurrent acceptances never seat more members than the
  largest plan allowed, an address has one token that works, and an organization
  loses its last owner only to an acceptance, which replaces the role of someone
  who is a member without looking at the owners.
* `OneProfileRules` and `HistoryIsPermanent`: the holder of the lock writes the
  next version; a suggestion that counts as accepted was applied, to a profile as
  old as the one it was computed from. A version is committed before its
  suggestion is marked, so a crash leaves an applied suggestion open; only the
  check against the active version keeps it from being accepted again.
* `UsageIsBounded`: the month ends at most one upload per concurrent request over
  its limit.
* `WrittenOnce`: next to ingestion, `AppliedOnceInOrder` says of migrations that run
  at once that the DDL of a file and its row are committed together, once, and
  after every earlier file the run knew of; `WrittenAsNamed` that no environment
  sends a write to a database whose target was not named. A second run that loses
  a file to the first is rolled back by the primary key and ends with an error.
* `AnswersAreTrusted` holds of models too: `ReadAsConfirmed` says that an upload is
  read by exactly the mapping that was sent, whatever happened to the file since;
  `EchoLosesNothing` that a preview which asks for no confirmation may be sent
  back as it is without a recognised column being dropped.
* `ModelBudgetsAreSoft` bounds what a month and a batch of model calls may
  overshoot; `SpendingAddsUp` holds what are sums of money: the ledger against what
  vendors billed, and the cap of a lead in research and in the benchmark. Research
  reads the cap against everything the lead cost, acquisition does not read it.
* `DiscoveryIsEarned`: `StrongestFirst` relates the promoted companies to the
  ones left behind, `FunnelIsTrue` the report of a run to its leads after any
  crash, `BuyersOnlyForVerified` the money spent on buyers to the decision of the
  lead.
* `StopsAreJustified`: `SettledIsExact` compares the stopping rule with a
  reference, the set of decisions over every value of every unknown field.
* `DecisionsAreReplayable`: a receipt says what one uninterrupted walk under its
  own version decides, whatever crashed or changed on the way; `ToldIsTrue` says
  that nobody is told to skip a lead that could still be decided otherwise, that
  surfaces agree while the version is the active one, that the work of the day
  leaves nothing out that waits, and that what "could improve" a lead could.
* `TargetingIsSound`: every draft becomes points that add up to a hundred in the
  order of their levels, and results count once.

### Disagreements between documents and code

Four runs end in a counterexample. Each states what a comment or document says;
`PROJECT.json` quotes it.

| Run | What TLC shows |
|---|---|
| `agree` | a lease that expires on the last attempt dead-letters the job but not its lead |
| `acquisition_charge` | after a crash between ledger and evidence the retry pays again, unrecorded |
| `billing_audit` | an applied event can stay without its audit row for good |
| `autonomy` | a discovery run decides another organization's waiting lead with simulated handlers, although that organization acquires live and lets only people act |

The models show more, without a run of their own. Each formula named here is
defined in its module and TLC refutes it.

| Formula | Module | What the code does instead |
|---|---|---|
| `RequeuedJobCanRun` | `LeadPipeline` | a redelivery requeues a dead-lettered job whose lead the handler refuses |
| `SuppressedByRecentMiss` | `LiveAcquisition` | the row of a suppressed call renews the window that suppressed it (`live/outcome_cache.py`) |
| `OwnerRemains` | `Membership` | an owner who accepts an invitation to their own organization takes its role; the last owner is gone |
| `UsageEmailOnce` | `Intake` | requests that check at once each send the email |
| `TestedIsPresent` | `ProviderConfigs` | the result of a test is written onto the credential that replaced the tested one |
| `OneVersionPerSuggestion` | `IcpProfiles` | two administrators that accept at once both create a version (`proposals.py` 508-511 says one) |
| `OneOpenFeedbackProposal` | `IcpProfiles` | two analyses at once both store a suggestion |
| `DecidedBeforeBuilding` | `Discovery` | a job that another worker holds ends the drive; the shortlist is built with an undecided lead |
| `SecondReadIsFree` | `Discovery` | two readers at once both pay for a buyer |
| `FailedRunsCount` | `Discovery` | a run that fails while promoting reports none of the leads it made |
| `MonthBudgetIsHard` | `LlmService` | the estimate of a call through AgentCore leaves out its guardrail, so one caller alone can pass the ceiling |
| `ScreeningIsLedgered` | `LlmService` | the guardrail charge of a call that then fails is not recorded |
| `SettledMeansFinal` | `SimulatedAcquisition` | "nothing unbought could move the decision" holds of unknown fields, not of a known one that a more trusted source would correct |
| `DemotionCosts` | `Targeting` | the only preferred category, once demoted, earns the full points as the fallback |
| `EverySuggestionApplies` | `Targeting` | a full list has no room for the category that a suggestion adds, and accepting it fails |
| `ReadConservatively` | `Adapters` | of an ambiguous text the reading that scores may win (`taxonomy.py` 38-41 says the other) |
| `AllSurfacesAlwaysAgree` | `Surfaces` | the export passes no thresholds and the copilot the active profile's, so surfaces differ after a change of profile (`batches.py` 602-604) |
| `PagesAreOneReading` | `Surfaces` | a page reads the lead before its receipt and can show a lead that was just rejected as worth pursuing |
| `BrokenLeadsNeedAPerson` | `Surfaces` | an undecided dead-lettered lead is said to be gathering evidence |
| `ModelNeverSkipsHuman` | `CsvMapping` | a model that calls itself confident makes an ambiguous column need no confirmation (`csv_mapping.py` 121 and 625 say it never does) |
| `TableAnswersStand` | `CsvMapping` | a model's guess for one column collides with a column the tables resolved, and the field leaves the offered map; a file with an email column is then called unusable |
| `FamiliesApart` | `Migrations` | a test URL that names the production server in a second way, or in a form that is not parsed, is migrated (`migrate.py` 23) |
| `ReadyIsUnedited` | `Migrations` | the readiness check compares names and not checksums, so a file that was edited after it ran is ready (`migrations.py` 78-79) |

And some are visible in the models without a formula: a timeout that is not the
first row of its job is dropped by the idempotency key, so the next attempt
repeats the call inside the window of `outcome_cache.py`; of two Stripe events of
one second the older can be applied last, because the guard on
`last_event_created_at` is `<=` (`ReflectsNewestSecond` is what does hold); two
checkouts at once create two customers (`OneCustomer` fails as soon as `Admins`
has two members); with two API processes a stale deletion can leave wrong limits
(`LimitsMatchBilling` fails as soon as `Servers` has two members, which is why
`LimitsFollowBilling` assumes one); a live lead that a person rejected reaches
SYNCED and, while it is unsettled, is shown as one to review, which
`recommendations.py` 317-320 calls impossible; a rejected shadow lead is counted
as in progress for good; `policy/runner.py` 118 counts cache hits twice in the
total of lookups; deep research costs more than the default cap of the adaptive
policy leaves, so that policy never reaches it.

## 4. Proofs

TLAPS checks the theorems for all values of the constants that satisfy the named
assumptions: any sets of jobs, leads, workers, reviewers, events and credentials,
finite or infinite, any attempt budgets, batch sizes, prices and limits. The sets
that the code counts (people of an organization, workers that buy, providers,
references and requests of the intake, editors, domains, readers of a shortlist,
model calls in flight, researchers, simulated leads) are finite. Every safety
property of the five families that a run checks is a theorem.

* `LeadPipelineProofs`. For the queue, `QueueInv` is the types, the accounting, the budget and one
  strengthening: owners are ids that were given out. Without it a fresh id could
  already own a row, and `LeaseNeverRegained` would fail. The effect of each
  statement on one row (`ReclaimedRow`, `FailedRow`, `ClaimedRow`) is a lemma;
  one step per action follows from them. For the pipeline, `PipelineInv` adds to the queue's invariant:
  `VersionVouchesForStatus` (what a worker read is still true if the version
  matches), `DecidedOnceWithItsJob`, `AwaitingIffPending`, that a review's
  answer is the lead's outcome (`AnswerIsOutcome`), that acknowledgements are of
  recorded answers (`AcksAreRecorded`), and two facts about processes and absent
  leads. The central step is `CommitWork`: the worker read NEW, the version
  still matches, so the lead is NEW; hence it is not decided and its job is not
  done, and the commit decides both. The refinement is then one case per action:
  each is a step of `LeadLifecycle` or leaves the phase alone.

  At the end of the module `PipelineMoves` says once how any step may change a lead
  and its review; the three properties about who gives a lead its outcome follow
  from it. `LiveLeadsNeedHuman` needs `ModeIsRecorded`: a worker that holds the
  mode SIMULATED, however old its reading, works on a lead that is excused.
* `BillingProofs`. `BillingInv` says that the committed event row tells a first
  delivery from every other (`RowTellsDelivery`), that one server handles an
  event (`OneHandlerPerEvent`, which is what the unique index gives), and that
  effects follow the row (`EffectsFollowRow`). A snapshot that passes the guard
  is of no earlier second than `last_event_created_at`, which is that of the
  newest applied event: hence `ReflectsNewestSecond`, for any number of
  processes. `LimitsFollowBilling` assumes one process and adds that the
  entitlement a stale deletion has read is in force (`SyncIsCurrent`).
  `OneCustomerIsServed` assumes one owner who starts checkouts: the customer that a
  checkout holds is the one on file, or there is none on file (`CustomerOnFile`).
* `LiveAcquisitionProofs`. The guards read what is committed, so the invariant counts
  what is not. `CopiesAreFew`: a worker that may still buy a fact, because it knows
  of no fresh one (`Seekers`), counts as if it had bought it; copies and seekers
  together never exceed one for a person, and one per worker for the company.
  `MoneyInv`: a call that a worker was admitted to and has not recorded (`Flight`)
  counts as if charged in full. A lead's rows and its attempt's flight stay within
  the lead's cap, which makes that cap hard; a period's rows and all flights stay
  within its cap plus what the other workers may have in flight. That each single
  flight is within every cap carries the bound over midnight, when the rows stop
  counting and the flights do not. Amounts are sets of (key, unit) pairs, so all
  this is about cardinalities.
* `OrganizationProofs`. `RosterInv`: whoever changes the roster or accepts holds
  its lock alone, so the plan it has read was in force once, the seat that the quota
  granted stays free, the target of a change stays a member, and another owner
  remains unless an acceptance has lowered one. `CredentialInv`: who
  sets a credential is alone among setters, and the row is as it was read unless
  someone who takes no lock deleted it meanwhile. `IcpInv`: the holder of the lock
  numbers the next version, every suggestion is about a version that can be revised
  and is applied to a later one, and every analysis under way may store one more.
  `IntakeInv`: `NameLock` (who holds the lock on a company's
  name and has not found it is right until the commit), rows that requests may
  still write count against the quota, and so do emails about to be sent.
  `MigrationsInv`: the rows of a database are the files that ran in it, each once
  (`RowsMatch`), what a run believes applied is backed by them (`RunIsBacked`), and
  only runs that named a database wrote to it. `OnePartMoves`
  composes the five parts; the theorems are the properties of the run.
* `IntelligenceProofs`. `DiscoveryInv`: the stage of the runner says what its row,
  its candidates and the companies it still has to promote may be, whatever
  crash restarted it; a buyer search that a request has begun counts as charged.
  `ResearchInv`: a request that was authorized keeps what authorized it, although
  others call and the profile and the mode change meanwhile: its question is open,
  every cheaper source had been called, and the row is there before the fact.
  `LlmInv`: every row that a call may still write counts as written, at the price
  of a completion and its screen; counted so, a month and a batch stay within the
  largest ceiling there was and the calls in flight. `OneServiceMoves` composes.
  `SpendingAlwaysAddsUp`: what the ledger of the model has and what calls still owe
  it are what vendors billed, term by term; the requests of research that are
  authorized for one lead count as if each had paid.
* `SumProofs`. The folds and recursive functions of the community modules, without
  an induction theorem: a set of counterexamples has one of least size, and the
  element that a fold takes first can be any element (`SumOneOut`). From
  that: changing one term changes the sum by the difference, sums are monotone,
  and the function that a recursive definition denotes exists
  (`FoldsExist`, `RecursionsExist`).
* `AcquisitionProofs`. `BoundsAreExact` and `SettledIsRight`: floor and ceiling of a
  partial picture are reached by some completion and passed by none, for every
  configuration that `validate_config` accepts, hence a settled verdict is the
  verdict of every completion. `SimInv` carries that through walks that share
  evidence, die and run under several versions: a walk got past an adapter
  only while the picture was open, it has left a row for it, and the rows and the
  calls that still owe one are not more than the calls that were bought.
  `PoliciesInv`: the cache of a policy is what it was invoiced for (`CacheIsCalls`),
  so nothing is paid twice; the sample is sorted, so the scan of the threshold
  ends at the lowest confidence it defends (`SelectedIsTheLowest`), and the tuning
  keeps the first of the best gates (`PicksAreBest`).
* `CustomerProofs`. Four inductive invariants, each of a component that neither
  counts nor waits on others, so that the difficulty is in what the operators compute.
  `TargetingInv`: the draft in use is a canonical one and the suggestion at hand was
  derived from it. Six floors of shares of a hundred leave at most five points, fewer
  than there are dimensions (`SixSharesAndRemainders`), so every point goes to one
  dimension, in the order of remainders: the ceilings sum to a hundred and never
  invert what the customer ranked. Some category and some band earns the whole
  ceiling, whatever lists are empty. After an accepted suggestion the same file
  derives nothing, because each of its changes is in the draft.
  `CsvInv`: what a preview shows is about headers of its own file and never
  contradicts the tables; of a file that changed in between only a map
  whose headers are all there passes, so `UploadIsAsConfirmed`.
  `AdaptersInv`: the answer at hand is `Result` of its exchange, a skipped lookup
  was immaterial when it was skipped, whoever's evidence counted is the person asked
  for, and no floor of the pacer is below what it was raised to. From that
  each conjunct of `AnswersAreTrusted` is a lemma about what the
  contracts and tables compute: `SpokenIsDelivered` (every rung and function is its
  own alias, so a parsed title maps again), `TradesComeFirst` (the least rule that
  matches a text), and `ImmaterialMeans`: a score is the sum of what each field
  earns, the best case earns most in each, and a decision that does not change at the
  best case changes nowhere below it.
  `SurfacesInv`: a receipt is what the rules of its version make of the fields that
  were known, the status of a lead and its receipt agree, and what a viewer holds or
  was told is true of the leads as they are now, although leads are decided, rejected
  and re-profiled between the reads of one answer. A lead on a list is there because
  its row goes before the others; that a set of rows has a sorted enumeration, which
  the model chooses, is shown by counting the rows that go before each. What "could
  improve" a lead is a field whose points move the total past a threshold
  (`MaterialChanges`).

Assumptions that the proofs added to the modules, and why the code justifies them:
finiteness of the sets above (`PeopleAssumption`, `RequestsAssumption`,
`CallersAssumption`, `ProvidersAssumption`, `FinitelyManyAssumption`,
`SomeCallsAssumption`, `ResearchAssumption`, `SimAssumption`: rows of a table,
entries of a catalogue, connections of a pool); that every ICP profile in use passed
`validate_config` (`ConfigIsSound` in `SimAssumption`, `AdaptersAssumption`
and `SurfacesAssumption`: no other is stored); that the
corpora, gates and prices of the benchmark are numbers and labels of the lists in
the code (`PolicyAssumption`); that the marks for absence are no values (`AbsenceAssumption`,
`NoBatchAssumption`: SQL's NULL); that an environment names databases that exist
(`EnvironmentsAssumption`); that lifetimes of facts and budgets of attempts are
numbers (`FieldTTLAssumption`, `MaxAttemptsAssumption`: settings); that drafts and result
files have the shape that parsing gives them, with one group per band and per industry
(`TargetingAssumption`: a Pydantic model, a dictionary of buckets); that a
model's answer about columns names known fields (`CsvAssumption`: others fail its
validation); that a plan sorts by one of the modelled options of the closed vocabulary and that the
history of profiles is not empty (`SurfacesAssumption`: an enumeration, and the default
profile); that a company asked for is named by its domain, which is not a class of
addresses (`AdaptersAssumption`).

Only model-checked, and why:

* Liveness (`JobsSettle`, `EventsTakeEffect`): out of this prover's reach, like ENABLED.

The proofs corrected statements of the model. The cap of a lead is the
research's own: acquisition is held to the cap of its policy, which may be higher,
so `LeadBudgetIsSoft` is about what research adds, and says that a lead on which
acquisition spent more gets no research at all. The theorems about settled verdicts
need points that are not negative and thresholds in order, which is what
`validate_config` checks before it lets a profile be stored. `TradeBeforeTechnology` is
false for a text that also names an X-tech family ("financial technology"), which
the rules read first (taxonomy.py 344 to 357), so it excepts those texts. `WorkIsWhatWaits`
held only of plans without a filter: a model may answer "what should I work on" with a plan
that names priorities, and `_apply_plan_filters` then drops leads that wait. Alternatives
that the code tries in order are nested conditionals and disjoint cases: a CASE
whose guards overlap may take either arm.

## 5. Plan

Done: the pipeline, live acquisition, billing, organization and intelligence
families, and the proofs of their safety properties.

Left to model: the billing portal and the insights over a batch.

## 6. Not modelled

* Row contents that nothing branches on: texts, traces, the log `lead_events`,
  names of persons, prompts and the wording of answers.
* Row locks inside a transaction, so a Postgres deadlock is a failed attempt. The
  work transaction locks the lead and then the job, the failure transaction the
  job and then the lead: Postgres may abort one of the two.
* The wire formats of the vendors and the formatting of requests; the alias tables
  of the taxonomy, and of CSV headers, of which the models hold the entries that a property can
  tell apart; the DDL inside a migration.
* The confidence model's floating point: what it predicts is free, and the
  properties hold for whatever it says.
* Authentication beyond the role that a request has read, row-level security,
  the issue of API keys: one row or an external call each.
* Schemas and settings (`api/schemas.py`, `config.py`), which declare shapes and
  defaults; dashboards that aggregate; the MCP server, which only reads; tracing;
  the scripts and generators of the offline evaluation, which write reports.
* Emails, apart from when they are sent. A lost review email is possible and
  documented as such; the payment-failed email is sent before its commit and may
  be sent twice.
* What should happen when a customer has two subscriptions and the old one is
  deleted: the behaviour is in `Billing`, but no document says what is intended.
