------------------------------- MODULE Intake -------------------------------
(***************************************************************************)
(* How leads come in: single posts and CSV uploads, the identity of their  *)
(* companies, the monthly quota and the usage emails (api/main.py,         *)
(* batches.py, api/ingest.py, identity/resolver.py, limits.py, usage.py,   *)
(* usage_notifications.py, apikeys.py).                                    *)
(*                                                                         *)
(* Every row of an upload is a transaction of its own.  One ingestion is   *)
(* two steps, the look for its company and the commit of everything else,  *)
(* because a company without a domain is found first and inserted later.   *)
(***************************************************************************)
EXTENDS Integers, Sequences, FiniteSets

CONSTANTS
  Refs,          \* external references, one per person
  CompanyOf,     \* the company key of each reference
  NameOnly,      \* company keys that are a name, not a domain
  IntakeCalls, Batches,
  MaxRows,       \* the stricter of MAX_ROWS and max_csv_rows_per_upload
  LeadLimit,     \* max_leads_per_month
  WarnAt,        \* usage at which usage_warning_threshold is reached
  MaxMonth

ASSUME IntakeAssumption ==
  /\ CompanyOf \in [Refs -> STRING]
  /\ MaxRows \in Nat \ {0} /\ LeadLimit \in Nat \ {0} /\ WarnAt \in 1..LeadLimit
  /\ MaxMonth \in Nat
ASSUME CallersAssumption == IsFiniteSet(Refs) /\ IsFiniteSet(IntakeCalls)

VARIABLES
  lead,          \* the leads table, by external reference
  company,       \* rows of the companies table, by key
  batch,         \* lead_batches, with what their lead_batch_rows name
  apiKey,        \* the organization's API key
  intakeCall,       \* the requests in flight
  month,         \* the calendar month
  sent,          \* kinds of usage email with an audit row this month
  emails         \* history: usage emails that went out, per kind this month

intakeVars == <<lead, company, batch, apiKey, intakeCall, month, sent, emails>>
tables == <<lead, company, batch>>

Companies == {CompanyOf[x] : x \in Refs}
Kinds == {"usage_warning", "limit_reached"}
Bad == "rejected"                    \* a row that does not validate
Rows == Refs \cup {Bad}
Files == UNION {[1..n -> Rows] : n \in 1..MaxRows}

NoLead == [month |-> -1]
NoBatch == {"none"}
ASSUME NoBatchAssumption == NoBatch \notin Batches /\ NoBatch \cap Rows = {}
NoIntake == [at |-> "idle"]
\* An admitted request with the rows it still has to ingest.
Ingesting(rows, b, counted) ==
  [at |-> "ingesting", rows |-> rows, batch |-> b, counted |-> counted]
\* ... and inside the transaction of the first of them.
Resolved(q, found) ==
  [at |-> "resolved", rows |-> q.rows, batch |-> q.batch,
   counted |-> q.counted, found |-> found]
Ended == [at |-> "ended"]
Notifying(kind) == [at |-> "notifying", kind |-> kind]

IntakeInit ==
  /\ lead = [x \in Refs |-> NoLead]
  /\ company = [c \in Companies |-> 0]
  /\ batch = [b \in Batches |-> NoBatch]
  /\ apiKey = "active"
  /\ intakeCall = [r \in IntakeCalls |-> NoIntake]
  /\ month = 0
  /\ sent = {}
  /\ emails = [k \in Kinds |-> 0]

Exists(x) == lead[x] # NoLead
\* The usage of the month: production leads, by their creation.
Counted(x) == Exists(x) /\ lead[x].month = month /\ lead[x].counted
LeadsProcessed == Cardinality({x \in Refs : Counted(x)})

IntakeBecomes(r, q) == intakeCall' = [intakeCall EXCEPT ![r] = q]
KeepTables == UNCHANGED <<tables, apiKey, month, sent, emails>>

\* get_auth_context: a session, or a key that is not revoked now.
Authenticated(via) == via = "session" \/ apiKey = "active"

RevokeApiKey ==
  /\ apiKey = "active"
  /\ apiKey' = "revoked"
  /\ UNCHANGED <<tables, intakeCall, month, sent, emails>>

EnforceLeadQuota_Dropped == TRUE
EnforceLeadQuota == LeadsProcessed < LeadLimit

\* POST /leads: only a caller with a key may mark the lead as no production.
PostLead(r, via, x, counted) ==
  /\ intakeCall[r] = NoIntake
  /\ Authenticated(via)
  /\ ~counted => via = "key"
  /\ EnforceLeadQuota
  /\ IntakeBecomes(r, Ingesting(<<x>>, NoBatch, counted))
  /\ KeepTables

\* POST /batches: row limit and quota, then the batch row commits.
UploadBatch(r, b, file) ==
  /\ intakeCall[r] = NoIntake
  /\ Len(file) <= MaxRows
  /\ EnforceLeadQuota
  /\ batch[b] = NoBatch
  /\ batch' = [batch EXCEPT ![b] = {}]
  /\ IntakeBecomes(r, Ingesting(file, b, TRUE))
  /\ UNCHANGED <<lead, company, apiKey, month, sent, emails>>

\* pg_advisory_xact_lock on the normalized name, up to the commit.
NameLockFree_Ignored(r, c) == TRUE
NameLockFree(r, c) ==
  c \in NameOnly =>
    \A q \in IntakeCalls \ {r} :
      intakeCall[q].at = "resolved" => CompanyOf[Head(intakeCall[q].rows)] # c

\* resolve_company_in: look for the row; the domain path has nothing to lock.
ResolveCompany(r) ==
  /\ intakeCall[r].at = "ingesting" /\ intakeCall[r].rows # <<>>
  /\ Head(intakeCall[r].rows) # Bad
  /\ LET c == CompanyOf[Head(intakeCall[r].rows)]
     IN  /\ NameLockFree(r, c)
         /\ IntakeBecomes(r, Resolved(intakeCall[r], company[c] > 0))
  /\ KeepTables

\* A domain is inserted ON CONFLICT DO UPDATE, a name if it was not found.
AddCompany(c, found) ==
  IF (c \in NameOnly /\ ~found) \/ (c \notin NameOnly /\ company[c] = 0)
    THEN company' = [company EXCEPT ![c] = @ + 1]
    ELSE UNCHANGED company

\* INSERT ... ON CONFLICT: what exists keeps its batch and its class.
UpsertLead_NextMonth(x, q) ==
  IF Exists(x) THEN UNCHANGED lead
  ELSE lead' = [lead EXCEPT ![x] =
    [batch |-> q.batch, month |-> month + 1, counted |-> q.counted]]
UpsertLead(x, q) ==
  IF Exists(x) THEN UNCHANGED lead
  ELSE lead' = [lead EXCEPT ![x] =
    [batch |-> q.batch, month |-> month, counted |-> q.counted]]

\* lead_batch_rows: the row with its lead, in the transaction of the lead.
RecordRow(b, x) ==
  IF b = NoBatch THEN UNCHANGED batch
  ELSE batch' = [batch EXCEPT ![b] = @ \cup {x}]

RowDone(r) ==
  IntakeBecomes(r, IF Len(intakeCall[r].rows) = 1 THEN Ended
             ELSE Ingesting(Tail(intakeCall[r].rows), intakeCall[r].batch, intakeCall[r].counted))

CommitRow(r) ==
  /\ intakeCall[r].at = "resolved"
  /\ LET q == intakeCall[r]
         x == Head(q.rows)
     IN  /\ AddCompany(CompanyOf[x], q.found)
         /\ UpsertLead(x, q)
         /\ RecordRow(q.batch, x)
  /\ RowDone(r)
  /\ UNCHANGED <<apiKey, month, sent, emails>>

CommitRejectedRow(r) ==
  /\ intakeCall[r].at = "ingesting" /\ intakeCall[r].rows # <<>>
  /\ Head(intakeCall[r].rows) = Bad
  /\ RecordRow(intakeCall[r].batch, Bad)
  /\ RowDone(r)
  /\ UNCHANGED <<lead, company, apiKey, month, sent, emails>>

\* A crash or a database error: what has committed stays.
Abort(r) ==
  /\ intakeCall[r] # NoIntake
  /\ IntakeBecomes(r, NoIntake)
  /\ KeepTables

AlreadySent(kind) == kind \in sent

\* check_and_notify_usage, first half: usage and audit rows are read.
CheckUsage(r) ==
  /\ intakeCall[r] = Ended
  /\ LET atLimit == LeadsProcessed >= LeadLimit /\ ~AlreadySent("limit_reached")
         warn == LeadsProcessed >= WarnAt /\ ~AlreadySent("usage_warning")
     IN  IntakeBecomes(r, IF atLimit THEN Notifying("limit_reached")
                    ELSE IF warn THEN Notifying("usage_warning") ELSE NoIntake)
  /\ KeepTables

\* Second half: the emails go out, then the audit row commits.
SendUsageEmail(r) ==
  /\ intakeCall[r].at = "notifying"
  /\ emails' = [emails EXCEPT ![intakeCall[r].kind] = @ + 1]
  /\ sent' = sent \cup {intakeCall[r].kind}
  /\ IntakeBecomes(r, NoIntake)
  /\ UNCHANGED <<tables, apiKey, month>>

NextMonth ==
  /\ month < MaxMonth
  /\ month' = month + 1
  /\ emails' = [k \in Kinds |-> 0] /\ sent' = {}
  /\ UNCHANGED <<tables, apiKey, intakeCall>>

IntakeStep(r) ==
  \/ \E via \in {"session", "key"}, x \in Refs, counted \in BOOLEAN :
       PostLead(r, via, x, counted)
  \/ \E b \in Batches, file \in Files : UploadBatch(r, b, file)
  \/ ResolveCompany(r)
  \/ CommitRow(r)
  \/ CommitRejectedRow(r)
  \/ Abort(r)
  \/ CheckUsage(r)
  \/ SendUsageEmail(r)

IntakeNext ==
  \/ \E r \in IntakeCalls : IntakeStep(r)
  \/ RevokeApiKey
  \/ NextMonth

IntakeSpec == IntakeInit /\ [][IntakeNext]_intakeVars

\* The leads a batch is credited with, the denominator of batch_progress.
Attributed(b) == {x \in Refs : Exists(x) /\ lead[x].batch = b}

-----------------------------------------------------------------------------
RowsLeft(r) ==
  IF intakeCall[r].at \in {"ingesting", "resolved"} THEN Len(intakeCall[r].rows) ELSE 0
UnwrittenRows(R) == {p \in R \X (1..MaxRows) : p[2] <= RowsLeft(p[1])}
InFlight(R) == Cardinality(UnwrittenRows(R))

\* Leads, batches and requests hold what the code can put there.
IntakeTypeOK ==
  /\ \A x \in Refs : Exists(x) =>
       lead[x] \in [batch : Batches \cup {NoBatch}, month : 0..month, counted : BOOLEAN]
  /\ company \in [Companies -> Nat]
  /\ \A b \in Batches : batch[b] = NoBatch \/ batch[b] \subseteq Rows
  /\ sent \subseteq Kinds
  /\ \A r \in IntakeCalls : RowsLeft(r) <= MaxRows

\* enforce_lead_quota is read before the rows are written, by every request
\* for itself: the month ends at most one upload per concurrent request over
\* the limit, however uploads, posts and the end of the month interleave.
LeadQuotaIsSoft ==
  LeadsProcessed + InFlight(IntakeCalls) < LeadLimit + Cardinality(IntakeCalls) * MaxRows

\* identity/resolver.py: one company has one row, by its domain because of
\* the constraint, by its name because of the lock that is held to the end of
\* the ingestion.
OneRowPerCompany == \A c \in Companies : company[c] <= 1

\* ingest_lead with create_batch: a lead counts for a batch only if a row of
\* that very batch names it, also after a crash in the middle of the upload.
AttributedLeadHasRow ==
  \A b \in Batches : \A x \in Attributed(b) : x \in batch[b]

\* _INSERT_LEAD: re-uploading a file, or posting the same lead again, never
\* moves a lead to another batch, another month or another class.
FirstWriteWins ==
  [][\A x \in Refs : Exists(x) =>
       lead'[x] = lead[x]]_intakeVars

\* usage_notifications.py: the audit rows keep a kind of email to one per
\* request that checks at the same time; they do not keep it to one in all.
UsageEmailsBounded == \A k \in Kinds : emails[k] <= Cardinality(IntakeCalls)
\* "Send at most one warning and one limit-reached email per metric".
UsageEmailOnce == \A k \in Kinds : emails[k] <= 1
=============================================================================
