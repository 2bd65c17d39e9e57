---------------------------- MODULE LeadPipeline ----------------------------
(***************************************************************************)
(* The lead pipeline: ingestion (arie/api/ingest.py), the job queue, the   *)
(* workers that run the one compute_score handler (arie/jobs/worker.py,    *)
(* arie/jobs/handlers.py), the lead's state machine and human review.      *)
(*                                                                         *)
(* A lead's job is keyed lead:{id}:compute_score, so leads and jobs are    *)
(* the same set.  A worker process runs cycles one after the other; each   *)
(* has an id of its own, claims a batch in one transaction and then works  *)
(* through it, one transaction per job.  That transaction reads the lead   *)
(* without locking it (BeginWork), runs the handler, and commits at the    *)
(* end (CommitWork): its writes to the lead, checked against the version   *)
(* read, and to the job, checked against the lease, become visible         *)
(* together or not at all.                                                 *)
(***************************************************************************)
EXTENDS JobQueue, Review

CONSTANTS
  Workers,
  ProviderMode   \* RUNTIME.provider_mode of the deployment

ASSUME LeadsAreJobs == Leads = Jobs

VARIABLES
  workers,       \* where each worker process is
  orgMode,       \* organizations.execution_mode of the leads' organization
  receipts,      \* decision_receipts: how many of each lead
  emailed,       \* leads whose reviewers have been sent an email
  ranSimulated   \* history: leads whose organization ran simulated since
                 \* they arrived

storeVars == <<leads, reviewVars, orgMode, receipts, emailed, ranSimulated>>
pipelineVars == <<queueVars, workers, storeVars>>

ExecutionMode == {"SIMULATED", "LIVE_SHADOW", "LIVE_HUMAN_ONLY"}

(* A worker between two jobs: its cycle's id and the rest of its batch. *)
Worker(pc, owner, batch) ==
  [pc |-> pc, owner |-> owner, batch |-> batch, job |-> Null,
   status |-> "absent", version |-> 0, mode |-> "SIMULATED"]

IdleWorker == Worker("idle", NoOwner, {})

WorkerState ==
  [pc : {"idle", "next", "work", "failing", "notify"}, owner : Nat,
   batch : SUBSET Leads, job : Leads \cup {Null},
   status : LeadStatus \cup {"absent"}, version : Nat, mode : ExecutionMode]

PipelineTypeOK ==
  /\ QueueTypeOK
  /\ LeadTypeOK
  /\ ReviewTypeOK
  /\ workers \in [Workers -> WorkerState]
  /\ orgMode \in ExecutionMode
  /\ receipts \in [Leads -> Nat]
  /\ emailed \subseteq Leads
  /\ ranSimulated \subseteq Leads

PipelineInit ==
  /\ QueueInit
  /\ LeadInit
  /\ ReviewInit
  /\ workers = [w \in Workers |-> IdleWorker]
  /\ orgMode = "SIMULATED"
  /\ receipts = [l \in Leads |-> 0]
  /\ emailed = {}
  /\ ranSimulated = {}

-----------------------------------------------------------------------------
(* The organization's mode; a simulated deployment does not look. *)
EffectiveMode == IF ProviderMode = "simulated" THEN "SIMULATED" ELSE orgMode

(* ingest_lead: the lead's upsert and the job's, in one transaction. *)
Ingest(l, shadow) ==
  /\ UpsertLead(l, shadow)
  /\ Enqueue(l)
  /\ ranSimulated' = IF EffectiveMode = "SIMULATED"
                     THEN ranSimulated \cup {l} ELSE ranSimulated
  /\ UNCHANGED <<reviewVars, workers, orgMode, receipts, emailed>>

(* set_execution_mode: an administrator changes how the organization runs. *)
SetExecutionMode(mode) ==
  /\ ProviderMode = "live"
  /\ orgMode # mode
  /\ orgMode' = mode
  /\ ranSimulated' = ranSimulated \cup
       {l \in Leads : leads[l].status # "absent" /\ mode = "SIMULATED"}
  /\ UNCHANGED <<queueVars, leads, reviewVars, workers, receipts, emailed>>

-----------------------------------------------------------------------------
(* A worker goes on to the next job of its batch, or its cycle ends. *)
NextJob(w) ==
  IF workers[w].batch = {} THEN IdleWorker
  ELSE Worker("next", workers[w].owner, workers[w].batch)

(* A worker that is done with the transaction of its job. *)
AfterWork(w, pc) ==
  [Worker(pc, workers[w].owner, workers[w].batch) EXCEPT
     !.job = workers[w].job]

(* run_worker_cycle: claim a batch under a worker id of its own. *)
StartCycle(w, S) ==
  /\ workers[w].pc = "idle"
  /\ Claim(S)
  /\ workers' = [workers EXCEPT ![w] =
                   IF S = {} THEN IdleWorker
                   ELSE Worker("next", nextOwner, S)]
  /\ UNCHANGED storeVars

(* Mutation: the handler runs every lead as a simulated one. *)
ModeRead_Simulated == "SIMULATED"

(* get_execution_mode, read once at the start of the handler. *)
ModeRead == EffectiveMode

(* _process_one opens the transaction of a job of the batch and reads the  *)
(* lead.  The order of the batch is the order the claim returned it in,    *)
(* which SKIP LOCKED leaves open.                                          *)
BeginWork(w, l) ==
  /\ workers[w].pc = "next"
  /\ l \in workers[w].batch
  /\ workers' = [workers EXCEPT ![w] =
                   [pc |-> "work", owner |-> @.owner, batch |-> @.batch \ {l},
                    job |-> l, status |-> leads[l].status,
                    version |-> leads[l].version, mode |-> ModeRead]]
  /\ UNCHANGED <<queueVars, storeVars>>

(* Mutation: a shadow lead is decided like any other. *)
FinalStatus_ShadowIgnored(l, decision, autonomous, mode) ==
  DECISION_OUTCOMES[IF mode = "SIMULATED" /\ autonomous THEN decision
                    ELSE "escalate_human"]

(* guarded_route: a live lead always goes to a human. *)
GuardedRoute(decision, autonomous, mode) ==
  IF mode = "SIMULATED" /\ autonomous THEN decision ELSE "escalate_human"

(* _finalize_decision: a shadow lead gets no business outcome. *)
FinalStatus(l, decision, autonomous, mode) ==
  IF leads[l].shadow \/ mode = "LIVE_SHADOW" THEN "SHADOW_EVALUATED"
  ELSE DECISION_OUTCOMES[GuardedRoute(decision, autonomous, mode)]

(* verify_live_status: the second check of the same rule. *)
FORBIDDEN_LIVE_STATUSES == FINALIZED

LiveStatusVerified(status, mode) ==
  mode = "SIMULATED" \/ status \notin FORBIDDEN_LIVE_STATUSES

(* Mutation: the handler also runs a lead that failed before. *)
HandlerAccepts_Failed(status) == status \in {"NEW", "DEAD_LETTER"}

(* The compute_score handler refuses a lead that is not NEW. *)
HandlerAccepts(status) == status = "NEW"

(* The work transaction commits: the walk NEW to DECISION and the outcome  *)
(* (five transitions), the receipt, the review of an escalated lead and    *)
(* the job's completion.  Then the worker turns to the notification.       *)
CommitWork(w, decision, autonomous) ==
  LET l      == workers[w].job
      status == FinalStatus(l, decision, autonomous, workers[w].mode)
  IN
  /\ workers[w].pc = "work"
  /\ HandlerAccepts(workers[w].status)
  /\ LiveStatusVerified(status, workers[w].mode)
  /\ ApplyTransitions(l, workers[w].version, 5, status)
  /\ receipts' = [receipts EXCEPT ![l] = @ + 1]
  /\ IF status = "AWAITING_HUMAN" THEN OpenReview(l) ELSE UNCHANGED reviews
  /\ Complete(l, workers[w].owner)
  /\ workers' = [workers EXCEPT ![w] = AfterWork(w, "notify")]
  /\ UNCHANGED <<clients, acks, orgMode, emailed, ranSimulated>>

(* complete finds that the lease is gone: JobOwnershipError, everything    *)
(* this attempt wrote rolls back, and the worker drops the job.            *)
LoseLease(w) ==
  /\ workers[w].pc = "work"
  /\ HandlerAccepts(workers[w].status)
  /\ VersionMatches(workers[w].job, workers[w].version)
  /\ ~Owns(workers[w].job, workers[w].owner)
  /\ workers' = [workers EXCEPT ![w] = NextJob(w)]
  /\ UNCHANGED <<queueVars, storeVars>>

(* The handler raises: the lead is not NEW, its version moved, a provider  *)
(* or the database failed, an assertion did not hold.                      *)
HandlerRaises(w) ==
  /\ workers[w].pc = "work"
  /\ workers' = [workers EXCEPT ![w] = AfterWork(w, "failing")]
  /\ UNCHANGED <<queueVars, storeVars>>

(* Mutation: the status of the job is written where that of the lead goes. *)
MarkLeadDeadLettered_JobStatus(l) ==
  IF QueueAdvances(leads[l].status)
  THEN ApplyTransitions(l, leads[l].version, 1, "dead_letter")
  ELSE UNCHANGED leads

(* _mark_lead_dead_lettered, in the transaction of the dead letter. *)
MarkLeadDeadLettered(l) ==
  IF QueueAdvances(leads[l].status)
  THEN ApplyTransitions(l, leads[l].version, 1, "DEAD_LETTER")
  ELSE UNCHANGED leads

(* _fail: record the failed attempt, in a transaction of its own; a job    *)
(* that it dead-letters takes its lead with it.                            *)
RecordFailure(w) ==
  LET l == workers[w].job IN
  /\ workers[w].pc = "failing"
  /\ \/ /\ Fail(l, workers[w].owner)
        /\ IF jobs'[l].status = "dead_letter" THEN MarkLeadDeadLettered(l)
                                              ELSE UNCHANGED leads
     \/ /\ ~Owns(l, workers[w].owner)
        /\ UNCHANGED <<queueVars, leads>>
  /\ workers' = [workers EXCEPT ![w] = NextJob(w)]
  /\ UNCHANGED <<reviewVars, orgMode, receipts, emailed, ranSimulated>>

(* Mutation: the notification does not look for a pending review. *)
HasPendingReview_Always(l) == TRUE

HasPendingReview(l) == reviews[l].state = "pending"

(* notify_review_required, after the commit: nothing to do without a       *)
(* pending review or if it was notified before.  Its dedup row commits     *)
(* first and any failure after that is logged only, so the email may also  *)
(* never be sent.                                                          *)
Notify(w) ==
  LET l == workers[w].job IN
  /\ workers[w].pc = "notify"
  /\ \/ HasPendingReview(l) /\ emailed' = emailed \cup {l}
     \/ UNCHANGED emailed
  /\ workers' = [workers EXCEPT ![w] = NextJob(w)]
  /\ UNCHANGED <<queueVars, leads, reviewVars, orgMode, receipts,
                 ranSimulated>>

(* The process dies, or an error escapes _fail and ends the cycle: an open *)
(* transaction rolls back and the claimed jobs stay locked under an id     *)
(* that nobody will use again.                                             *)
Crash(w) ==
  /\ workers[w].pc # "idle"
  /\ workers' = [workers EXCEPT ![w] = IdleWorker]
  /\ UNCHANGED <<queueVars, storeVars>>

Time ==
  /\ \E l \in Leads : LeaseExpires(l) \/ RetryDue(l)
  /\ UNCHANGED <<workers, storeVars>>

HumanReview ==
  /\ ReviewStep
  /\ UNCHANGED <<queueVars, workers, orgMode, receipts, emailed, ranSimulated>>

WorkerStep(w) ==
  \/ \E l \in Leads : BeginWork(w, l)
  \/ \E decision \in DOMAIN DECISION_OUTCOMES, autonomous \in BOOLEAN :
       CommitWork(w, decision, autonomous)
  \/ LoseLease(w)
  \/ HandlerRaises(w)
  \/ RecordFailure(w)
  \/ Notify(w)

PipelineNext ==
  \/ \E l \in Leads, shadow \in BOOLEAN : Ingest(l, shadow)
  \/ \E mode \in ExecutionMode : SetExecutionMode(mode)
  \/ \E w \in Workers, S \in SUBSET Leads : StartCycle(w, S)
  \/ \E w \in Workers : WorkerStep(w)
  \/ \E w \in Workers : Crash(w)
  \/ Time
  \/ HumanReview

PipelineSpec == PipelineInit /\ [][PipelineNext]_pipelineVars

(* The code's scheduling: workers poll and go on working unless they die,  *)
(* and time passes.                                                        *)
PipelineFairness ==
  /\ \A w \in Workers : WF_pipelineVars(WorkerStep(w))
  /\ \A l \in Leads :
       /\ WF_pipelineVars(LeaseExpires(l) /\ UNCHANGED <<workers, storeVars>>)
       /\ WF_pipelineVars(RetryDue(l) /\ UNCHANGED <<workers, storeVars>>)
       /\ SF_pipelineVars(\E w \in Workers, S \in SUBSET Leads :
                            l \in S /\ StartCycle(w, S))
  /\ SF_pipelineVars(\E w \in Workers : StartCycle(w, {}))

PipelineLiveSpec == PipelineSpec /\ PipelineFairness

-----------------------------------------------------------------------------
Decided(l) == leads[l].status \in FINALIZED
                                    \cup {"AWAITING_HUMAN", "SHADOW_EVALUATED"}

(* A lead has been decided, and has its one receipt, exactly when its job  *)
(* is done: no crash, expired lease, second worker or redelivery decides a *)
(* lead twice, or completes a job whose lead was not decided.              *)
DecidedOnceWithItsJob ==
  \A l \in Leads :
    /\ jobs[l].status = "done" <=> Decided(l)
    /\ receipts[l] = IF Decided(l) THEN 1 ELSE 0

(* A lead waits for a human exactly while it has a review a human can      *)
(* answer (workflow.py: a crash between the two would strand it).          *)
AwaitingIffPending ==
  \A l \in Leads :
    leads[l].status = "AWAITING_HUMAN" <=> reviews[l].state = "pending"

(* A reviewer who was told that a decision was applied can rely on it: it  *)
(* is the recorded one and the lead's outcome, whoever else answered and   *)
(* however often requests were repeated.                                   *)
AckedDecisionStands ==
  \A a \in acks :
    /\ reviews[a.lead] = [state |-> "answered", action |-> a.action,
                          reviewer |-> a.reviewer]
    /\ leads[a.lead].status = ReviewedStatus(a.action)

(* What a downstream consumer sees as finalized never changes again        *)
(* (transitions.py, FINALIZED).                                            *)
FinalizedIsFinal ==
  [][\A l \in Leads :
       leads[l].status \in FINALIZED => leads'[l] = leads[l]]_pipelineVars

(* A lead whose organization has never run simulated since it arrived gets *)
(* a business outcome from a human only (safety.py), whenever the mode is  *)
(* switched while workers are busy.                                        *)
LiveLeadsNeedHuman ==
  \A l \in Leads :
    leads[l].status \in FINALIZED /\ l \notin ranSimulated
      => reviews[l].state = "answered"

(* A shadow lead is never routed, rejected or put in front of a human.     *)
ShadowIsInert ==
  \A l \in Leads :
    leads[l].shadow => /\ leads[l].status \notin FINALIZED
                       /\ reviews[l].state = "none"

(* A review email is only ever sent about a lead that has a review.        *)
EmailedHasReview == \A l \in emailed : reviews[l].state # "none"

(* The optimistic guard does its work: a version that still matches what a *)
(* worker read vouches for the status it read, however old the read is.    *)
VersionVouchesForStatus ==
  \A w \in Workers :
    workers[w].pc = "work" =>
      LET lead == leads[workers[w].job] IN
      /\ workers[w].version <= lead.version
      /\ workers[w].version = lead.version => workers[w].status = lead.status

(* Every job settles, although workers may die at any step and every time. *)
JobsSettle ==
  \A l \in Leads : jobs[l].status \in {"pending", "processing"}
                     ~> jobs[l].status \in {"done", "dead_letter"}

(* worker.py: the job and the lead cannot disagree about whether           *)
(* processing is over - a dead-lettered job leaves no lead that its        *)
(* pollers would still take for unfinished.                                *)
JobAndLeadAgree ==
  \A l \in Leads : jobs[l].status = "dead_letter"
                     => ~QueueAdvances(leads[l].status)

(* queue.py and ingest.py: redelivery is the recovery path of a            *)
(* dead-lettered job - a job that is waiting to run is one that the        *)
(* handler can still run.                                                  *)
RequeuedJobCanRun ==
  \A l \in Leads : jobs[l].status = "pending"
                     => HandlerAccepts(leads[l].status)

(* The phase that the lead's status stands for. *)
Lifecycle(l) ==
  CASE leads[l].status = "absent" -> [phase |-> "unknown", verdict |-> "none"]
    [] leads[l].status = "AWAITING_HUMAN" ->
         [phase |-> "review", verdict |-> "none"]
    [] leads[l].status = "SHADOW_EVALUATED" ->
         [phase |-> "shadow", verdict |-> "none"]
    [] leads[l].status = "DEAD_LETTER" ->
         [phase |-> "failed", verdict |-> "none"]
    [] leads[l].status \in FINALIZED ->
         [phase |-> "settled", verdict |-> leads[l].status]
    [] OTHER -> [phase |-> "open", verdict |-> "none"]

Abstract == INSTANCE LeadLifecycle WITH
              Verdicts <- FINALIZED,
              life <- [l \in Leads |-> Lifecycle(l)]

(* The pipeline implements the lead's life cycle. *)
ImplementsLifecycle == Abstract!Spec
=============================================================================
