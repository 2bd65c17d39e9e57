------------------------- MODULE LeadPipelineProofs -------------------------
(***************************************************************************)
(* The job queue's invariants for any set of jobs, any attempt budget, any *)
(* batch size and any number of requeues; then the pipeline's safety       *)
(* properties for any number of leads, workers and reviewers; at the end,  *)
(* who may give a lead a business outcome: shadow leads are inert, live    *)
(* leads are settled by humans only, and an email about a review is about  *)
(* a review that exists.                                                   *)
(***************************************************************************)
EXTENDS LeadPipeline, TLAPS

-----------------------------------------------------------------------------
(* The job queue.                                                          *)

(* The inductive invariant: the accounting, the budget, and the two facts  *)
(* they lean on - a row that can still be claimed has an attempt to spend, *)
(* and a lease names a cycle that has started.                             *)
QueueInv ==
  /\ QueueTypeOK
  /\ AttemptAccounting
  /\ DeadLetterIffSpent
  /\ \A j \in Jobs : jobs[j].lockedBy < nextOwner
  /\ \A j \in Jobs : jobs[j].status = "absent" => jobs[j].attempts = 0

(* Reclaiming keeps a row a row. *)
LEMMA ReclaimedRowType ==
  ASSUME NEW row \in JobRow
  PROVE  ReclaimedRow(row) \in JobRow
BY MaxAttemptsAssumption
   DEF ReclaimedRow, JobRow, JobStatus, OutOfAttempts, NoOwner

(* A failed attempt keeps a row a row. *)
LEMMA FailedRowType ==
  ASSUME NEW row \in JobRow
  PROVE  FailedRow(row) \in JobRow
BY MaxAttemptsAssumption
   DEF FailedRow, JobRow, JobStatus, OutOfAttempts, NoOwner

(* The initial state: an empty table. *)
LEMMA QueueInitInv == QueueInit => QueueInv
<1> SUFFICES ASSUME QueueInit PROVE QueueInv
  OBVIOUS
<1>1. QueueTypeOK
  BY DEF QueueInit, QueueTypeOK, NoRow, JobRow, JobStatus, NoOwner
<1>2. AttemptAccounting
  BY DEF QueueInit, AttemptAccounting, NoRow
<1>3. DeadLetterIffSpent
  BY MaxAttemptsAssumption DEF QueueInit, DeadLetterIffSpent, NoRow
<1>4. \A j \in Jobs : jobs[j].lockedBy < nextOwner
  BY DEF QueueInit, NoRow, NoOwner
<1> QED
  BY <1>1, <1>2, <1>3, <1>4 DEF QueueInv, QueueInit, NoRow

(* Upserting a job keeps the invariant. *)
LEMMA EnqueueInv ==
  ASSUME NEW j \in Jobs, QueueInv, Enqueue(j)
  PROVE  QueueInv'
<1>1. QueueTypeOK'
  BY DEF QueueInv, QueueTypeOK, Enqueue, FreshRow, JobRow, JobStatus, NoOwner
<1>2. \A k \in Jobs \ {j} : jobs'[k] = jobs[k] /\ claims'[k] = claims[k]
  BY DEF QueueInv, QueueTypeOK, Enqueue
<1>3. \/ jobs'[j] = FreshRow /\ claims'[j] = 0
      \/ jobs'[j] = jobs[j] /\ claims'[j] = claims[j]
  <2>1. CASE jobs[j].status = "absent"
    BY <2>1, MaxAttemptsAssumption
       DEF QueueInv, QueueTypeOK, Enqueue, AttemptAccounting
  <2>2. CASE jobs[j].status = "dead_letter"
    BY <2>2 DEF QueueInv, QueueTypeOK, Enqueue
  <2>3. CASE jobs[j].status \notin {"absent", "dead_letter"}
    BY <2>3 DEF QueueInv, QueueTypeOK, Enqueue
  <2> QED
    BY <2>1, <2>2, <2>3
<1>4. AttemptAccounting'
  BY <1>2, <1>3 DEF QueueInv, AttemptAccounting, FreshRow
<1>5. DeadLetterIffSpent'
  BY <1>2, <1>3, MaxAttemptsAssumption
     DEF QueueInv, DeadLetterIffSpent, FreshRow
<1>6. (\A k \in Jobs : jobs[k].lockedBy < nextOwner)'
  BY <1>2, <1>3 DEF QueueInv, QueueTypeOK, Enqueue, FreshRow, NoOwner
<1> QED
  BY <1>1, <1>2, <1>3, <1>4, <1>5, <1>6 DEF QueueInv, FreshRow

(* A claim - the reclaim of every expired lease followed by the locking of *)
(* the jobs in S - keeps the invariant: the reclaimed attempt leaves the   *)
(* running count and enters attempt_count, and the new one starts.         *)
LEMMA ClaimInv ==
  ASSUME NEW S \in SUBSET Jobs, QueueInv, Claim(S)
  PROVE  QueueInv'
<1>0. \A j \in Jobs : ReclaimedRow(jobs[j]) \in JobRow
  BY ReclaimedRowType DEF QueueInv, QueueTypeOK
<1>1. ASSUME NEW j \in S
      PROVE  ClaimedRow(ReclaimedRow(jobs[j]), nextOwner) \in JobRow
  BY <1>0 DEF QueueInv, QueueTypeOK, ClaimedRow, JobRow, JobStatus
<1>2. QueueTypeOK'
  BY <1>0, <1>1 DEF QueueInv, QueueTypeOK, Claim
<1>3. ASSUME NEW j \in Jobs
      PROVE  /\ (claims[j] = jobs[j].attempts
                  + (IF jobs[j].status \in {"processing", "done"}
                     THEN 1 ELSE 0))'
             /\ (jobs[j].attempts <= MaxAttempts)'
             /\ (jobs[j].status = "dead_letter"
                   <=> jobs[j].attempts = MaxAttempts)'
             /\ (jobs[j].lockedBy < nextOwner)'
             /\ (jobs[j].status = "absent" => jobs[j].attempts = 0)'
  <2> DEFINE row == jobs[j]
             rec == ReclaimedRow(row)
  <2>1. row \in JobRow /\ claims[j] \in Nat /\ nextOwner \in Nat \ {0}
    BY DEF QueueInv, QueueTypeOK
  <2>2. /\ claims[j] = row.attempts
             + (IF row.status \in {"processing", "done"} THEN 1 ELSE 0)
        /\ row.attempts <= MaxAttempts
        /\ row.status = "dead_letter" <=> row.attempts = MaxAttempts
        /\ row.lockedBy < nextOwner
        /\ row.status = "absent" => row.attempts = 0
    BY DEF QueueInv, AttemptAccounting, DeadLetterIffSpent
  <2>3. /\ rec.attempts + (IF rec.status \in {"processing", "done"}
                           THEN 1 ELSE 0) = claims[j]
        /\ rec.attempts \in Nat
        /\ rec.attempts <= MaxAttempts
        /\ rec.status = "dead_letter" <=> rec.attempts = MaxAttempts
        /\ rec.lockedBy < nextOwner
        /\ rec.status = "absent" => rec.attempts = 0
    BY <2>1, <2>2, MaxAttemptsAssumption
       DEF ReclaimedRow, OutOfAttempts, JobRow, NoOwner
  <2>4. CASE j \in S
    <3>1. /\ jobs'[j] = ClaimedRow(rec, nextOwner)
          /\ claims'[j] = claims[j] + 1
          /\ nextOwner' = nextOwner + 1
      BY <2>4 DEF Claim
    <3>2. rec.status = "pending"
      BY <2>4 DEF Claim, Claimable
    <3> QED
      BY <2>1, <2>3, <3>1, <3>2 DEF ClaimedRow
  <2>5. CASE j \notin S
    <3>1. jobs'[j] = rec /\ claims'[j] = claims[j]
      BY <2>5 DEF Claim
    <3>2. nextOwner' \in Nat /\ nextOwner <= nextOwner'
      BY <2>1 DEF Claim
    <3>3. rec.lockedBy \in Nat
      BY <1>0 DEF JobRow
    <3> QED
      BY <2>1, <2>3, <3>1, <3>2, <3>3
  <2> QED
    BY <2>4, <2>5
<1> QED
  BY <1>2, <1>3 DEF QueueInv, AttemptAccounting, DeadLetterIffSpent

(* Completing, failing and the timers change one row: what it takes for    *)
(* such a step to keep the invariant.                                      *)
LEMMA OneRowInv ==
  ASSUME NEW j \in Jobs, NEW row \in JobRow, QueueInv,
         jobs' = [jobs EXCEPT ![j] = row],
         UNCHANGED <<nextOwner, claims, requeues>>,
         claims[j] = row.attempts
           + (IF row.status \in {"processing", "done"} THEN 1 ELSE 0),
         row.attempts <= MaxAttempts,
         row.status = "dead_letter" <=> row.attempts = MaxAttempts,
         row.lockedBy < nextOwner,
         row.status # "absent"
  PROVE  QueueInv'
<1>1. QueueTypeOK'
  BY DEF QueueInv, QueueTypeOK
<1>2. \A k \in Jobs : jobs'[k] = IF k = j THEN row ELSE jobs[k]
  BY DEF QueueInv, QueueTypeOK
<1>3. AttemptAccounting'
  BY <1>2 DEF QueueInv, AttemptAccounting
<1>4. DeadLetterIffSpent'
  BY <1>2 DEF QueueInv, DeadLetterIffSpent
<1> QED
  BY <1>1, <1>2, <1>3, <1>4 DEF QueueInv

LEMMA CompleteInv ==
  ASSUME NEW j \in Jobs, NEW o \in Nat, QueueInv, Complete(j, o)
  PROVE  QueueInv'
<1> DEFINE row == [jobs[j] EXCEPT !.status = "done"]
<1>1. jobs[j] \in JobRow
  BY DEF QueueInv, QueueTypeOK
<1>2. row \in JobRow
  BY <1>1 DEF JobRow, JobStatus
<1>3. /\ row.attempts = jobs[j].attempts
      /\ row.lockedBy = jobs[j].lockedBy
      /\ row.status = "done"
  BY <1>1 DEF JobRow
<1>4. jobs' = [jobs EXCEPT ![j] = row] /\ jobs[j].status = "processing"
  BY DEF Complete, Owns
<1>5. UNCHANGED <<nextOwner, claims, requeues>>
  BY DEF Complete
<1>6. /\ claims[j] = jobs[j].attempts + 1
      /\ jobs[j].attempts <= MaxAttempts
      /\ jobs[j].attempts # MaxAttempts
      /\ jobs[j].lockedBy < nextOwner
  BY <1>4 DEF QueueInv, AttemptAccounting, DeadLetterIffSpent
<1> HIDE DEF row
<1> QED
  BY <1>2, <1>3, <1>4, <1>5, <1>6, OneRowInv

LEMMA FailInv ==
  ASSUME NEW j \in Jobs, NEW o \in Nat, QueueInv, Fail(j, o)
  PROVE  QueueInv'
<1> DEFINE row == FailedRow(jobs[j])
<1>1. jobs[j] \in JobRow /\ nextOwner \in Nat \ {0}
  BY DEF QueueInv, QueueTypeOK
<1>2. row \in JobRow
  BY <1>1, FailedRowType
<1>3. jobs' = [jobs EXCEPT ![j] = row] /\ jobs[j].status = "processing"
  BY DEF Fail, Owns
<1>4. UNCHANGED <<nextOwner, claims, requeues>>
  BY DEF Fail
<1>5. /\ claims[j] = jobs[j].attempts + 1
      /\ jobs[j].attempts <= MaxAttempts
      /\ jobs[j].attempts # MaxAttempts
      /\ jobs[j].lockedBy < nextOwner
  BY <1>3 DEF QueueInv, AttemptAccounting, DeadLetterIffSpent
<1>6. /\ claims[j] = row.attempts
      /\ row.status \in {"pending", "dead_letter"}
      /\ row.attempts <= MaxAttempts
      /\ row.status = "dead_letter" <=> row.attempts = MaxAttempts
      /\ row.lockedBy < nextOwner
  BY <1>1, <1>5, MaxAttemptsAssumption
     DEF FailedRow, OutOfAttempts, JobRow, NoOwner
<1>7. claims[j] = row.attempts
        + (IF row.status \in {"processing", "done"} THEN 1 ELSE 0)
  BY <1>2, <1>6 DEF JobRow
<1> HIDE DEF row
<1> QED
  BY <1>2, <1>3, <1>4, <1>6, <1>7, OneRowInv

LEMMA TimerInv ==
  ASSUME NEW j \in Jobs, QueueInv, LeaseExpires(j) \/ RetryDue(j)
  PROVE  QueueInv'
<1>1. PICK row : /\ jobs' = [jobs EXCEPT ![j] = row]
                 /\ row \in JobRow
                 /\ row.status = jobs[j].status
                 /\ row.attempts = jobs[j].attempts
                 /\ row.lockedBy = jobs[j].lockedBy
  <2>1. jobs[j] \in JobRow
    BY DEF QueueInv, QueueTypeOK
  <2>2. CASE LeaseExpires(j)
    <3> WITNESS [jobs[j] EXCEPT !.leaseExpired = TRUE]
    <3> QED
      BY <2>1, <2>2 DEF LeaseExpires, JobRow
  <2>3. CASE RetryDue(j)
    <3> WITNESS [jobs[j] EXCEPT !.due = TRUE]
    <3> QED
      BY <2>1, <2>3 DEF RetryDue, JobRow
  <2> QED
    BY <2>2, <2>3
<1>2. UNCHANGED <<nextOwner, claims, requeues>> /\ jobs[j].status # "absent"
  BY DEF LeaseExpires, RetryDue
<1>3. /\ claims[j] = jobs[j].attempts
           + (IF jobs[j].status \in {"processing", "done"} THEN 1 ELSE 0)
      /\ jobs[j].attempts <= MaxAttempts
      /\ jobs[j].status = "dead_letter" <=> jobs[j].attempts = MaxAttempts
      /\ jobs[j].lockedBy < nextOwner
  BY DEF QueueInv, AttemptAccounting, DeadLetterIffSpent
<1> QED
  BY <1>1, <1>2, <1>3, OneRowInv

(* The queue's invariant is inductive. *)
LEMMA QueueStepInv == QueueInv /\ [QueueNext]_queueVars => QueueInv'
<1> SUFFICES ASSUME QueueInv, [QueueNext]_queueVars PROVE QueueInv'
  OBVIOUS
<1>1. ASSUME NEW j \in Jobs, Enqueue(j) PROVE QueueInv'
  BY <1>1, EnqueueInv
<1>2. ASSUME NEW S \in SUBSET Jobs, Claim(S) PROVE QueueInv'
  BY <1>2, ClaimInv
<1>3. nextOwner \in Nat
  BY DEF QueueInv, QueueTypeOK
<1>4. ASSUME NEW j \in Jobs, NEW o \in 1 .. nextOwner - 1,
             Complete(j, o) \/ Fail(j, o)
      PROVE  QueueInv'
  BY <1>3, <1>4, CompleteInv, FailInv
<1>5. ASSUME NEW j \in Jobs, LeaseExpires(j) \/ RetryDue(j)
      PROVE  QueueInv'
  BY <1>5, TimerInv
<1>6. CASE UNCHANGED queueVars
  BY <1>6 DEF queueVars, QueueInv, QueueTypeOK, AttemptAccounting,
              DeadLetterIffSpent
<1> QED
  BY <1>1, <1>2, <1>4, <1>5, <1>6 DEF QueueNext

(* Every reachable state of the queue satisfies its type invariant. *)
THEOREM QueueTypeCorrect == QueueSpec => []QueueTypeOK
<1>1. QueueInv => QueueTypeOK
  BY DEF QueueInv
<1> QED
  BY <1>1, QueueInitInv, QueueStepInv, PTL DEF QueueSpec

(* Whatever stale workers report and whichever leases expire, every claim  *)
(* is counted as exactly one attempt.                                      *)
THEOREM AttemptsAreAccounted == QueueSpec => []AttemptAccounting
<1>1. QueueInv => AttemptAccounting
  BY DEF QueueInv
<1> QED
  BY <1>1, QueueInitInv, QueueStepInv, PTL DEF QueueSpec

(* A job is dead-lettered exactly when its attempt budget is spent. *)
THEOREM DeadLetterMeansSpent == QueueSpec => []DeadLetterIffSpent
<1>1. QueueInv => DeadLetterIffSpent
  BY DEF QueueInv
<1> QED
  BY <1>1, QueueInitInv, QueueStepInv, PTL DEF QueueSpec

(* No step changes the row of a completed job. *)
THEOREM CompletedJobsStayDone == QueueSpec => DoneIsFinal
<1>1. ASSUME QueueTypeOK, [QueueNext]_queueVars
      PROVE  [\A j \in Jobs :
                jobs[j].status = "done" => jobs'[j] = jobs[j]]_queueVars
  <2> SUFFICES ASSUME QueueNext, NEW k \in Jobs, jobs[k].status = "done"
               PROVE  jobs'[k] = jobs[k]
    BY <1>1 DEF queueVars
  <2>1. ASSUME NEW j \in Jobs, Enqueue(j) PROVE jobs'[k] = jobs[k]
    BY <1>1, <2>1 DEF Enqueue, QueueTypeOK
  <2>2. ASSUME NEW S \in SUBSET Jobs, Claim(S) PROVE jobs'[k] = jobs[k]
    <3>1. ReclaimedRow(jobs[k]) = jobs[k]
      BY DEF ReclaimedRow
    <3>2. k \notin S
      BY <2>2, <3>1 DEF Claim, Claimable
    <3> QED
      BY <2>2, <3>1, <3>2 DEF Claim
  <2>3. ASSUME NEW j \in Jobs, NEW o, Complete(j, o) \/ Fail(j, o)
        PROVE  jobs'[k] = jobs[k]
    BY <1>1, <2>3 DEF Complete, Fail, Owns, QueueTypeOK
  <2>4. ASSUME NEW j \in Jobs, LeaseExpires(j) \/ RetryDue(j)
        PROVE  jobs'[k] = jobs[k]
    BY <1>1, <2>4 DEF LeaseExpires, RetryDue, QueueTypeOK
  <2> QED
    BY <2>1, <2>2, <2>3, <2>4 DEF QueueNext
<1> QED
  BY <1>1, QueueTypeCorrect, PTL DEF QueueSpec, DoneIsFinal

(* A worker cycle that does not own a job never comes to own it: only the  *)
(* fresh id of a claim does, so the fencing check of complete and fail     *)
(* cannot be passed by a report from an earlier attempt.                   *)
THEOREM LostLeasesStayLost == QueueSpec => LeaseNeverRegained
<1>1. ASSUME QueueTypeOK, [QueueNext]_queueVars
      PROVE  [\A j \in Jobs, o \in 1 .. nextOwner - 1 :
                ~Owns(j, o) => ~Owns(j, o)']_queueVars
  <2> SUFFICES ASSUME QueueNext, NEW k \in Jobs,
                      NEW p \in 1 .. nextOwner - 1, ~Owns(k, p)
               PROVE  ~Owns(k, p)'
    BY <1>1 DEF queueVars
  <2>0. p \in Nat /\ p # 0 /\ p # nextOwner /\ jobs[k] \in JobRow
    BY <1>1 DEF QueueTypeOK
  <2>1. ASSUME NEW j \in Jobs, Enqueue(j) PROVE ~Owns(k, p)'
    BY <1>1, <2>1 DEF Enqueue, Owns, FreshRow, QueueTypeOK
  <2>2. ASSUME NEW S \in SUBSET Jobs, Claim(S) PROVE ~Owns(k, p)'
    <3>1. CASE k \in S
      BY <2>0, <2>2, <3>1 DEF Claim, ClaimedRow, Owns
    <3>2. CASE k \notin S
      BY <2>0, <2>2, <3>2 DEF Claim, ReclaimedRow, Owns, NoOwner
    <3> QED
      BY <3>1, <3>2
  <2>3. ASSUME NEW j \in Jobs, NEW o, Complete(j, o) \/ Fail(j, o)
        PROVE  ~Owns(k, p)'
    <3>1. CASE k = j
      BY <1>1, <2>0, <2>3, <3>1
         DEF Complete, Fail, FailedRow, Owns, QueueTypeOK, JobRow
    <3>2. CASE k # j
      BY <1>1, <2>3, <3>2 DEF Complete, Fail, Owns, QueueTypeOK
    <3> QED
      BY <3>1, <3>2
  <2>4. ASSUME NEW j \in Jobs, LeaseExpires(j) \/ RetryDue(j)
        PROVE  ~Owns(k, p)'
    BY <1>1, <2>4, <2>0
       DEF LeaseExpires, RetryDue, Owns, QueueTypeOK, JobRow
  <2> QED
    BY <2>1, <2>2, <2>3, <2>4 DEF QueueNext
<1> QED
  BY <1>1, QueueTypeCorrect, PTL DEF QueueSpec, LeaseNeverRegained

-----------------------------------------------------------------------------
(* The pipeline.                                                           *)

(* A process that is busy with a lead knows which one. *)
ProcessesHaveLeads ==
  /\ \A w \in Workers :
       workers[w].pc \in {"work", "failing", "notify"}
         => workers[w].job \in Leads
  /\ \A c \in Reviewers :
       /\ clients[c].pc # "idle" => clients[c].lead \in Leads
       /\ clients[c].pc = "sent" => clients[c].action \in ReviewAction

(* An answered review and the lead's status tell the same outcome, and     *)
(* only an answered one records an action.                                 *)
AnswerIsOutcome ==
  \A l \in Leads :
    /\ reviews[l].state = "answered"
         => /\ reviews[l].action \in ReviewAction
            /\ leads[l].status = ReviewedStatus(reviews[l].action)
    /\ reviews[l].state # "answered" => reviews[l].action = "none"

(* An acknowledged submission is the recorded answer. *)
AcksAreRecorded ==
  \A a \in acks :
    reviews[a.lead] = [state |-> "answered", action |-> a.action,
                       reviewer |-> a.reviewer]

(* The first version of a lead is higher than that of no lead. *)
AbsentHasNoVersion ==
  \A l \in Leads : leads[l].status = "absent" => leads[l].version = 0

(* The inductive invariant. *)
PipelineInv ==
  /\ PipelineTypeOK
  /\ QueueInv
  /\ ProcessesHaveLeads
  /\ VersionVouchesForStatus
  /\ DecidedOnceWithItsJob
  /\ AwaitingIffPending
  /\ AnswerIsOutcome
  /\ AcksAreRecorded
  /\ AbsentHasNoVersion

(* The statuses a review can end in are the finalized ones. *)
LEMMA ReviewedStatusFinal ==
  ASSUME NEW a \in ReviewAction
  PROVE  ReviewedStatus(a) \in FINALIZED /\ ReviewedStatus(a) \in LeadStatus
BY DEF ReviewAction, ReviewedStatus, HUMAN_REVIEW_OUTCOMES, FINAL_DECISION,
       FINALIZED, QUALIFIED, REJECTED, LeadStatus

(* The outcomes of the decision node. *)
LEMMA FinalStatusDecided ==
  ASSUME NEW l, NEW d \in DOMAIN DECISION_OUTCOMES, NEW a \in BOOLEAN, NEW m
  PROVE  FinalStatus(l, d, a, m)
           \in FINALIZED \cup {"AWAITING_HUMAN", "SHADOW_EVALUATED"}
BY DEF FinalStatus, GuardedRoute, DECISION_OUTCOMES, FINALIZED, QUALIFIED,
       REJECTED

LEMMA FinalStatusType ==
  ASSUME NEW l, NEW d \in DOMAIN DECISION_OUTCOMES, NEW a \in BOOLEAN, NEW m
  PROVE  FinalStatus(l, d, a, m) \in LeadStatus
BY FinalStatusDecided DEF FINALIZED, QUALIFIED, REJECTED, LeadStatus

(* The worker a finished job leaves behind is a worker. *)
LEMMA NextJobType ==
  ASSUME PipelineTypeOK, NEW w \in Workers
  PROVE  /\ NextJob(w) \in WorkerState
         /\ NextJob(w).pc \in {"idle", "next"}
BY DEF PipelineTypeOK, NextJob, IdleWorker, Worker, WorkerState, NoOwner,
       ExecutionMode, LeadStatus

(* So is one whose transaction has ended, and it keeps its job. *)
LEMMA AfterWorkType ==
  ASSUME PipelineTypeOK, NEW w \in Workers, NEW pc \in {"failing", "notify"}
  PROVE  /\ AfterWork(w, pc) \in WorkerState
         /\ AfterWork(w, pc).pc = pc
         /\ AfterWork(w, pc).job = workers[w].job
BY DEF PipelineTypeOK, AfterWork, Worker, WorkerState, ExecutionMode

LEMMA PipelineInitInv == PipelineInit => PipelineInv
<1> SUFFICES ASSUME PipelineInit PROVE PipelineInv
  OBVIOUS
<1> USE DEF PipelineInit, LeadInit, ReviewInit
<1>1. QueueInv
  BY QueueInitInv
<1>2. LeadTypeOK
  BY DEF LeadTypeOK, NoLead, LeadRow
<1>3. ReviewTypeOK
  BY DEF ReviewTypeOK, NoReview, ReviewRow, ReviewAction, IdleClient,
         ClientState
<1>4. workers \in [Workers -> WorkerState]
  BY DEF IdleWorker, Worker, WorkerState, NoOwner, ExecutionMode
<1>5. PipelineTypeOK
  BY <1>1, <1>2, <1>3, <1>4 DEF PipelineTypeOK, ExecutionMode, QueueInv
<1>6. ProcessesHaveLeads /\ VersionVouchesForStatus
  BY DEF ProcessesHaveLeads, VersionVouchesForStatus, IdleWorker, Worker,
         IdleClient
<1>7. DecidedOnceWithItsJob
  <2>1. \A l \in Leads : ~Decided(l)
    BY DEF Decided, NoLead, FINALIZED, QUALIFIED, REJECTED
  <2>2. \A l \in Leads : jobs[l].status # "done" /\ receipts[l] = 0
    BY LeadsAreJobs DEF QueueInit, NoRow
  <2> QED
    BY <2>1, <2>2 DEF DecidedOnceWithItsJob
<1>8. /\ AwaitingIffPending /\ AnswerIsOutcome /\ AcksAreRecorded
      /\ AbsentHasNoVersion
  BY DEF AwaitingIffPending, AnswerIsOutcome, AcksAreRecorded,
         AbsentHasNoVersion, NoLead, NoReview
<1> QED
  BY <1>1, <1>5, <1>6, <1>7, <1>8 DEF PipelineInv

-----------------------------------------------------------------------------
(* A step that touches neither leads, reviews, clients nor receipts, and   *)
(* completes or reopens no job.                                            *)
LEMMA QuietStep ==
  ASSUME PipelineInv, QueueInv', workers' \in [Workers -> WorkerState],
         UNCHANGED <<leads, reviews, clients, acks, receipts>>,
         orgMode' \in ExecutionMode, emailed' \subseteq Leads,
         ranSimulated' \subseteq Leads,
         \A l \in Leads : jobs'[l].status = "done" <=> jobs[l].status = "done",
         \A w \in Workers :
           workers'[w].pc \in {"work", "failing", "notify"}
             => workers'[w].job \in Leads,
         \A w \in Workers :
           workers'[w].pc = "work" =>
             \/ workers'[w] = workers[w]
             \/ /\ workers'[w].version = leads[workers'[w].job].version
                /\ workers'[w].status = leads[workers'[w].job].status
  PROVE  PipelineInv'
<1>1. PipelineTypeOK'
  BY DEF PipelineInv, PipelineTypeOK, QueueInv, LeadTypeOK, ReviewTypeOK
<1>2. ProcessesHaveLeads'
  BY DEF PipelineInv, ProcessesHaveLeads
<1>3. VersionVouchesForStatus'
  <2> SUFFICES ASSUME NEW w \in Workers, workers'[w].pc = "work"
               PROVE  LET lead == leads[workers'[w].job] IN
                      /\ workers'[w].version <= lead.version
                      /\ workers'[w].version = lead.version
                           => workers'[w].status = lead.status
    BY DEF VersionVouchesForStatus
  <2>1. workers'[w].job \in Leads
    OBVIOUS
  <2>2. leads[workers'[w].job].version \in Nat
    BY <2>1 DEF PipelineInv, PipelineTypeOK, LeadTypeOK, LeadRow
  <2> QED
    BY <2>2 DEF PipelineInv, VersionVouchesForStatus
<1>4. DecidedOnceWithItsJob'
  BY DEF PipelineInv, DecidedOnceWithItsJob, Decided
<1>5. /\ AwaitingIffPending' /\ AnswerIsOutcome' /\ AcksAreRecorded'
      /\ AbsentHasNoVersion'
  BY DEF PipelineInv, AwaitingIffPending, AnswerIsOutcome, AcksAreRecorded,
         AbsentHasNoVersion
<1> QED
  BY <1>1, <1>2, <1>3, <1>4, <1>5 DEF PipelineInv

(* What a queue step does to completed jobs. *)
LEMMA ClaimKeepsDone ==
  ASSUME QueueInv, NEW S \in SUBSET Jobs, Claim(S), NEW j \in Jobs
  PROVE  jobs'[j].status = "done" <=> jobs[j].status = "done"
BY DEF Claim, Claimable, ClaimedRow, ReclaimedRow, OutOfAttempts

LEMMA StartCycleInv ==
  ASSUME PipelineInv, NEW w \in Workers, NEW S \in SUBSET Leads,
         StartCycle(w, S)
  PROVE  PipelineInv'
<1>1. QueueInv /\ Claim(S) /\ S \in SUBSET Jobs
  BY LeadsAreJobs DEF PipelineInv, StartCycle
<1>2. QueueInv'
  BY <1>1, ClaimInv
<1>3. \A l \in Leads : jobs'[l].status = "done" <=> jobs[l].status = "done"
  BY <1>1, ClaimKeepsDone, LeadsAreJobs
<1> DEFINE new == IF S = {} THEN IdleWorker ELSE Worker("next", nextOwner, S)
<1>4. new \in WorkerState /\ new.pc \in {"idle", "next"}
  BY <1>1 DEF QueueInv, QueueTypeOK, IdleWorker, Worker, WorkerState, NoOwner,
              ExecutionMode
<1>5. workers' = [workers EXCEPT ![w] = new] /\ UNCHANGED storeVars
  BY DEF StartCycle
<1>6. workers \in [Workers -> WorkerState]
  BY DEF PipelineInv, PipelineTypeOK
<1> HIDE DEF new
<1>7. /\ workers' \in [Workers -> WorkerState]
      /\ \A v \in Workers : workers'[v] = IF v = w THEN new ELSE workers[v]
  BY <1>4, <1>5, <1>6
<1> QED
  BY <1>2, <1>3, <1>4, <1>5, <1>7, QuietStep
     DEF storeVars, reviewVars, PipelineInv, PipelineTypeOK,
         ProcessesHaveLeads

LEMMA SetExecutionModeInv ==
  ASSUME PipelineInv, NEW mode \in ExecutionMode, SetExecutionMode(mode)
  PROVE  PipelineInv'
<1>1. QueueInv' /\ UNCHANGED <<leads, reviews, clients, acks, receipts,
                               workers, jobs, emailed>>
  BY DEF PipelineInv, SetExecutionMode, queueVars, reviewVars, QueueInv,
         QueueTypeOK, AttemptAccounting, DeadLetterIffSpent
<1>2. orgMode' \in ExecutionMode /\ ranSimulated' \subseteq Leads
  BY DEF PipelineInv, PipelineTypeOK, SetExecutionMode
<1> QED
  BY <1>1, <1>2, QuietStep DEF PipelineInv, PipelineTypeOK, ProcessesHaveLeads

(* A worker step that changes that worker only. *)
LEMMA LocalWorkerStep ==
  ASSUME PipelineInv, NEW w \in Workers, NEW new \in WorkerState,
         workers' = [workers EXCEPT ![w] = new],
         UNCHANGED <<queueVars, leads, reviewVars, orgMode, receipts,
                     ranSimulated>>,
         emailed' \subseteq Leads,
         new.pc \in {"work", "failing", "notify"} => new.job \in Leads,
         new.pc = "work" => /\ new.version = leads[new.job].version
                            /\ new.status = leads[new.job].status
  PROVE  PipelineInv'
<1>1. QueueInv' /\ UNCHANGED <<leads, reviews, clients, acks, receipts, jobs,
                               orgMode, ranSimulated>>
  BY DEF PipelineInv, queueVars, reviewVars, QueueInv,
         QueueTypeOK, AttemptAccounting, DeadLetterIffSpent
<1>2. /\ workers' \in [Workers -> WorkerState]
      /\ \A v \in Workers : workers'[v] = IF v = w THEN new ELSE workers[v]
  BY DEF PipelineInv, PipelineTypeOK
<1> QED
  BY <1>1, <1>2, QuietStep DEF PipelineInv, PipelineTypeOK, ProcessesHaveLeads

LEMMA BeginWorkInv ==
  ASSUME PipelineInv, NEW w \in Workers, NEW l \in Leads, BeginWork(w, l)
  PROVE  PipelineInv'
<1> DEFINE new == [pc |-> "work", owner |-> workers[w].owner,
                   batch |-> workers[w].batch \ {l}, job |-> l,
                   status |-> leads[l].status, version |-> leads[l].version,
                   mode |-> ModeRead]
<1>1. /\ workers[w] \in WorkerState
      /\ leads[l] \in LeadRow
      /\ orgMode \in ExecutionMode
  BY DEF PipelineInv, PipelineTypeOK, LeadTypeOK
<1>2. ModeRead \in ExecutionMode
  BY <1>1 DEF ModeRead, EffectiveMode, ExecutionMode
<1>3. new \in WorkerState
  BY <1>1, <1>2 DEF WorkerState, LeadRow
<1>4. workers' = [workers EXCEPT ![w] = new]
  BY DEF BeginWork, PipelineInv, PipelineTypeOK
<1>5. UNCHANGED <<queueVars, leads, reviewVars, orgMode, receipts,
                  ranSimulated>> /\ emailed' \subseteq Leads
  BY DEF BeginWork, storeVars, PipelineInv, PipelineTypeOK
<1>6. /\ new.job \in Leads
      /\ new.version = leads[new.job].version
      /\ new.status = leads[new.job].status
  OBVIOUS
<1> HIDE DEF new
<1> QED
  BY <1>3, <1>4, <1>5, <1>6, LocalWorkerStep

(* LoseLease, HandlerRaises, Notify and Crash. *)
LEMMA WorkerOnlyInv ==
  ASSUME PipelineInv, NEW w \in Workers,
         \/ LoseLease(w) \/ HandlerRaises(w) \/ Notify(w) \/ Crash(w)
  PROVE  PipelineInv'
<1>1. workers[w] \in WorkerState /\ PipelineTypeOK /\ emailed \subseteq Leads
  BY DEF PipelineInv, PipelineTypeOK
<1>2. CASE LoseLease(w)
  <2>1. UNCHANGED <<queueVars, leads, reviewVars, orgMode, receipts,
                    ranSimulated, emailed>>
    BY <1>2 DEF LoseLease, storeVars
  <2> QED
    BY <1>1, <1>2, <2>1, NextJobType, LocalWorkerStep DEF LoseLease
<1>3. CASE HandlerRaises(w)
  <2> DEFINE new == AfterWork(w, "failing")
  <2>1. UNCHANGED <<queueVars, leads, reviewVars, orgMode, receipts,
                    ranSimulated, emailed>>
    BY <1>3 DEF HandlerRaises, storeVars
  <2>2. new \in WorkerState /\ new.pc = "failing" /\ new.job = workers[w].job
    BY <1>1, AfterWorkType
  <2>3. workers[w].job \in Leads
    BY <1>3 DEF HandlerRaises, PipelineInv, ProcessesHaveLeads
  <2>4. workers' = [workers EXCEPT ![w] = new]
    BY <1>3 DEF HandlerRaises
  <2> HIDE DEF new
  <2> QED
    BY <1>1, <2>1, <2>2, <2>3, <2>4, LocalWorkerStep
<1>4. CASE Notify(w)
  <2>1. UNCHANGED <<queueVars, leads, reviewVars, orgMode, receipts,
                    ranSimulated>>
    BY <1>4 DEF Notify
  <2>2. workers[w].job \in Leads
    BY <1>4 DEF Notify, PipelineInv, ProcessesHaveLeads
  <2>3. emailed' \subseteq Leads
    BY <1>1, <1>4, <2>2 DEF Notify
  <2> QED
    BY <1>1, <1>4, <2>1, <2>3, NextJobType, LocalWorkerStep DEF Notify
<1>5. CASE Crash(w)
  <2>1. UNCHANGED <<queueVars, leads, reviewVars, orgMode, receipts,
                    ranSimulated, emailed>>
    BY <1>5 DEF Crash, storeVars
  <2>2. IdleWorker \in WorkerState /\ IdleWorker.pc = "idle"
    BY DEF IdleWorker, Worker, WorkerState, NoOwner, ExecutionMode
  <2> QED
    BY <1>1, <1>5, <2>1, <2>2, LocalWorkerStep DEF Crash
<1> QED
  BY <1>2, <1>3, <1>4, <1>5

LEMMA TimeInv == PipelineInv /\ Time => PipelineInv'
<1> SUFFICES ASSUME PipelineInv, Time PROVE PipelineInv'
  OBVIOUS
<1>1. PICK l \in Jobs : LeaseExpires(l) \/ RetryDue(l)
  BY LeadsAreJobs DEF Time
<1>2. QueueInv'
  BY <1>1, TimerInv DEF PipelineInv
<1>3. \A k \in Leads : jobs'[k].status = "done" <=> jobs[k].status = "done"
  BY <1>1, LeadsAreJobs
     DEF LeaseExpires, RetryDue, PipelineInv, QueueInv, QueueTypeOK, JobRow
<1>4. UNCHANGED <<workers, leads, reviews, clients, acks, receipts, orgMode,
                  emailed, ranSimulated>>
  BY DEF Time, storeVars, reviewVars
<1> QED
  BY <1>2, <1>3, <1>4, QuietStep DEF PipelineInv, PipelineTypeOK,
                                     ProcessesHaveLeads

(* Moving one lead to a higher version makes every read of it stale, and   *)
(* leaves the reads of other leads alone.                                  *)
LEMMA VouchesAfterMove ==
  ASSUME PipelineInv, NEW l \in Leads, NEW row \in LeadRow,
         leads' = [leads EXCEPT ![l] = row],
         leads[l].version < row.version,
         \A w \in Workers : workers'[w].pc = "work" => workers'[w] = workers[w]
  PROVE  VersionVouchesForStatus'
<1> SUFFICES ASSUME NEW w \in Workers, workers'[w].pc = "work"
             PROVE  LET lead == leads'[workers'[w].job] IN
                    /\ workers'[w].version <= lead.version
                    /\ workers'[w].version = lead.version
                         => workers'[w].status = lead.status
  BY DEF VersionVouchesForStatus
<1>1. workers'[w] = workers[w]
  OBVIOUS
<1>2. /\ workers[w].job \in Leads
      /\ workers[w].version \in Nat
      /\ leads[workers[w].job].version \in Nat
      /\ row.version \in Nat
      /\ leads \in [Leads -> LeadRow]
  BY <1>1 DEF PipelineInv, PipelineTypeOK, LeadTypeOK, LeadRow, WorkerState,
              ProcessesHaveLeads
<1>3. /\ workers[w].version <= leads[workers[w].job].version
      /\ workers[w].version = leads[workers[w].job].version
           => workers[w].status = leads[workers[w].job].status
  BY <1>1 DEF PipelineInv, VersionVouchesForStatus
<1>4. CASE workers[w].job = l
  BY <1>1, <1>2, <1>3, <1>4
<1>5. CASE workers[w].job # l
  BY <1>1, <1>2, <1>3, <1>5
<1> QED
  BY <1>4, <1>5

-----------------------------------------------------------------------------
(* A step that gives one lead the row row and the review rev, and brings   *)
(* its receipts, its job and the answers given to clients in line.         *)
MovesTo(l, row, rev) ==
  /\ QueueInv' /\ ProcessesHaveLeads' /\ AcksAreRecorded'
  /\ workers' \in [Workers -> WorkerState]
  /\ orgMode' \in ExecutionMode
  /\ receipts' \in [Leads -> Nat]
  /\ emailed' \subseteq Leads
  /\ ranSimulated' \subseteq Leads
  /\ clients' \in [Reviewers -> ClientState]
  /\ acks' \subseteq Ack
  /\ row \in LeadRow
  /\ rev \in ReviewRow
  /\ leads' = [leads EXCEPT ![l] = row]
  /\ reviews' = [reviews EXCEPT ![l] = rev]
  /\ leads[l].version < row.version
  /\ row.status # "absent"
  /\ \A w \in Workers : workers'[w].pc = "work" => workers'[w] = workers[w]
  /\ \A k \in Leads \ {l} :
       /\ jobs'[k].status = "done" <=> jobs[k].status = "done"
       /\ receipts'[k] = receipts[k]
  /\ Decided(l)' <=> jobs'[l].status = "done"
  /\ receipts'[l] = IF Decided(l)' THEN 1 ELSE 0
  /\ row.status = "AWAITING_HUMAN" <=> rev.state = "pending"
  /\ rev.state = "answered" => /\ rev.action \in ReviewAction
                               /\ row.status = ReviewedStatus(rev.action)
  /\ rev.state # "answered" => rev.action = "none"

LEMMA MoveStep ==
  ASSUME PipelineInv, NEW l \in Leads, NEW row, NEW rev, MovesTo(l, row, rev)
  PROVE  PipelineInv'
<1> USE DEF MovesTo
<1>1. /\ leads' \in [Leads -> LeadRow]
      /\ \A k \in Leads : leads'[k] = IF k = l THEN row ELSE leads[k]
  BY DEF PipelineInv, PipelineTypeOK, LeadTypeOK
<1>2. /\ reviews' \in [Leads -> ReviewRow]
      /\ \A k \in Leads : reviews'[k] = IF k = l THEN rev ELSE reviews[k]
  BY DEF PipelineInv, PipelineTypeOK, ReviewTypeOK
<1>3. PipelineTypeOK'
  BY <1>1, <1>2 DEF PipelineTypeOK, QueueInv, LeadTypeOK, ReviewTypeOK
<1>4. VersionVouchesForStatus'
  BY VouchesAfterMove
<1>5. DecidedOnceWithItsJob'
  <2> SUFFICES ASSUME NEW k \in Leads
               PROVE  /\ jobs'[k].status = "done" <=> Decided(k)'
                      /\ receipts'[k] = IF Decided(k)' THEN 1 ELSE 0
    BY DEF DecidedOnceWithItsJob
  <2>1. CASE k = l
    BY <2>1
  <2>2. CASE k # l
    <3>1. Decided(k)' <=> Decided(k)
      BY <1>1, <2>2 DEF Decided
    <3> QED
      BY <2>2, <3>1 DEF PipelineInv, DecidedOnceWithItsJob
  <2> QED
    BY <2>1, <2>2
<1>6. AwaitingIffPending'
  BY <1>1, <1>2 DEF PipelineInv, AwaitingIffPending
<1>7. AnswerIsOutcome'
  BY <1>1, <1>2 DEF PipelineInv, AnswerIsOutcome
<1>8. AbsentHasNoVersion'
  BY <1>1 DEF PipelineInv, AbsentHasNoVersion
<1> QED
  BY <1>3, <1>4, <1>5, <1>6, <1>7, <1>8 DEF PipelineInv

LEMMA EnqueueKeepsDone ==
  ASSUME QueueInv, NEW j \in Jobs, Enqueue(j), NEW k \in Jobs
  PROVE  jobs'[k].status = "done" <=> jobs[k].status = "done"
BY DEF Enqueue, FreshRow, QueueInv, QueueTypeOK

LEMMA IngestInv ==
  ASSUME PipelineInv, NEW l \in Leads, NEW shadow \in BOOLEAN,
         Ingest(l, shadow)
  PROVE  PipelineInv'
<1>1. QueueInv'
  BY EnqueueInv, LeadsAreJobs DEF PipelineInv, Ingest
<1>2. \A k \in Leads : jobs'[k].status = "done" <=> jobs[k].status = "done"
  BY EnqueueKeepsDone, LeadsAreJobs DEF PipelineInv, Ingest
<1>3. UNCHANGED <<workers, reviews, clients, acks, receipts, orgMode,
                  emailed>> /\ ranSimulated' \subseteq Leads
  BY DEF Ingest, reviewVars, PipelineInv, PipelineTypeOK
<1>4. CASE leads[l].status # "absent"
  <2>1. leads' = leads
    BY <1>4 DEF Ingest, UpsertLead, PipelineInv, PipelineTypeOK, LeadTypeOK
  <2> QED
    BY <1>1, <1>2, <1>3, <2>1, QuietStep
       DEF PipelineInv, PipelineTypeOK, ProcessesHaveLeads
<1>5. CASE leads[l].status = "absent"
  <2> DEFINE row == [status |-> "NEW", version |-> 1, shadow |-> shadow]
  <2>1. row \in LeadRow /\ row.version = 1 /\ row.status = "NEW"
    BY DEF LeadRow, LeadStatus
  <2>2. leads' = [leads EXCEPT ![l] = row]
    BY <1>5 DEF Ingest, UpsertLead
  <2>3. leads[l].version = 0 /\ leads \in [Leads -> LeadRow]
    BY <1>5 DEF PipelineInv, AbsentHasNoVersion, PipelineTypeOK, LeadTypeOK
  <2>4. /\ reviews' = [reviews EXCEPT ![l] = reviews[l]]
        /\ reviews[l] \in ReviewRow
    BY <1>3 DEF PipelineInv, PipelineTypeOK, ReviewTypeOK
  <2> HIDE DEF row
  <2>5. ~Decided(l) /\ ~Decided(l)'
    BY <1>5, <2>1, <2>2, <2>3 DEF Decided, FINALIZED, QUALIFIED, REJECTED
  <2>6. /\ reviews[l].state # "answered" /\ reviews[l].state # "pending"
        /\ reviews[l].action = "none"
    BY <1>5, ReviewedStatusFinal
       DEF PipelineInv, AnswerIsOutcome, AwaitingIffPending, FINALIZED,
           QUALIFIED, REJECTED
  <2>7. /\ jobs[l].status # "done" /\ jobs'[l].status # "done"
        /\ receipts[l] = 0
    BY <1>2, <2>5 DEF PipelineInv, DecidedOnceWithItsJob
  <2>8. AcksAreRecorded' /\ ProcessesHaveLeads'
    BY <1>3 DEF PipelineInv, AcksAreRecorded, ProcessesHaveLeads
  <2>9. /\ workers' \in [Workers -> WorkerState]
        /\ orgMode' \in ExecutionMode
        /\ receipts' \in [Leads -> Nat]
        /\ emailed' \subseteq Leads
        /\ clients' \in [Reviewers -> ClientState]
        /\ acks' \subseteq Ack
    BY <1>3 DEF PipelineInv, PipelineTypeOK, ReviewTypeOK
  <2>10. /\ Decided(l)' <=> jobs'[l].status = "done"
         /\ receipts'[l] = IF Decided(l)' THEN 1 ELSE 0
    BY <1>3, <2>5, <2>7
  <2>11. leads[l].version < row.version
    BY <2>1, <2>3
  <2>12. MovesTo(l, row, reviews[l])
    BY <1>1, <1>2, <1>3, <2>1, <2>2, <2>4, <2>6, <2>8, <2>9, <2>10, <2>11
       DEF MovesTo
  <2> QED
    BY <2>12, MoveStep
<1> QED
  BY <1>4, <1>5

(* An acknowledged submission belongs to a review that is answered. *)
LEMMA AckedIsAnswered ==
  ASSUME PipelineInv, NEW a \in acks
  PROVE  a.lead \in Leads /\ reviews[a.lead].state = "answered"
<1>1. a.lead \in Leads
  BY DEF PipelineInv, PipelineTypeOK, ReviewTypeOK, Ack
<1>2. reviews[a.lead] = [state |-> "answered", action |-> a.action,
                         reviewer |-> a.reviewer]
  BY DEF PipelineInv, AcksAreRecorded
<1> QED
  BY <1>1, <1>2

LEMMA CommitWorkInv ==
  ASSUME PipelineInv, NEW w \in Workers,
         NEW decision \in DOMAIN DECISION_OUTCOMES, NEW autonomous \in BOOLEAN,
         CommitWork(w, decision, autonomous)
  PROVE  PipelineInv'
<1>0. PICK l \in Leads : l = workers[w].job
  BY DEF CommitWork, PipelineInv, ProcessesHaveLeads
<1> DEFINE status == FinalStatus(l, decision, autonomous, workers[w].mode)
           row == [status |-> status, version |-> leads[l].version + 5,
                   shadow |-> leads[l].shadow]
           rev == IF status = "AWAITING_HUMAN" THEN PendingRow ELSE reviews[l]
<1>1. /\ workers[w].pc = "work" /\ workers[w].status = "NEW"
      /\ leads[l].version = workers[w].version
      /\ leads' = [leads EXCEPT ![l] = row]
      /\ Complete(l, workers[w].owner)
      /\ workers' = [workers EXCEPT ![w] = AfterWork(w, "notify")]
      /\ UNCHANGED <<clients, acks, orgMode, emailed, ranSimulated>>
  BY <1>0 DEF CommitWork, HandlerAccepts, ApplyTransitions, VersionMatches
<1>2. l \in Leads /\ leads[l] \in LeadRow /\ workers[w] \in WorkerState
  BY <1>1 DEF PipelineInv, PipelineTypeOK, LeadTypeOK, ProcessesHaveLeads
<1>3. leads[l].status = "NEW"
  BY <1>0, <1>1 DEF PipelineInv, VersionVouchesForStatus
<1>4. status \in FINALIZED \cup {"AWAITING_HUMAN", "SHADOW_EVALUATED"}
      /\ status \in LeadStatus
  BY FinalStatusDecided, FinalStatusType
<1>5. /\ reviews[l].state # "pending" /\ reviews[l].state # "answered"
      /\ reviews[l].action = "none"
  BY <1>2, <1>3, ReviewedStatusFinal
     DEF PipelineInv, AwaitingIffPending, AnswerIsOutcome, FINALIZED,
         QUALIFIED, REJECTED
<1>6. reviews' = [reviews EXCEPT ![l] = rev] /\ rev \in ReviewRow
  BY <1>0, <1>2, <1>5
     DEF CommitWork, OpenReview, PendingRow, ReviewRow, PipelineInv,
                    PipelineTypeOK, ReviewTypeOK
<1>7. /\ status = "AWAITING_HUMAN" <=> rev.state = "pending"
      /\ rev.state # "answered" /\ rev.action = "none"
  BY <1>5 DEF PendingRow
<1> HIDE DEF status
<1>8. ~Decided(l) /\ receipts[l] = 0
  <2>1. ~Decided(l)
    BY <1>3 DEF Decided, FINALIZED, QUALIFIED, REJECTED
  <2> QED
    BY <1>2, <2>1 DEF PipelineInv, DecidedOnceWithItsJob
<1>9. /\ row \in LeadRow /\ row.status = status /\ row.status # "absent"
      /\ leads[l].version < row.version
  BY <1>2, <1>4 DEF LeadRow, LeadStatus
<1>10. QueueInv'
  BY <1>1, <1>2, CompleteInv, LeadsAreJobs DEF PipelineInv, WorkerState
<1>11. \A k \in Leads :
         jobs'[k].status = "done" <=> k = l \/ jobs[k].status = "done"
  BY <1>1, <1>2, LeadsAreJobs DEF Complete, PipelineInv, QueueInv, QueueTypeOK,
                                  JobRow
<1>12. receipts' = [receipts EXCEPT ![l] = receipts[l] + 1]
  BY <1>0 DEF CommitWork
<1>13. /\ receipts' \in [Leads -> Nat]
       /\ \A k \in Leads \ {l} : receipts'[k] = receipts[k]
       /\ receipts'[l] = 1
  BY <1>2, <1>8, <1>12 DEF PipelineInv, PipelineTypeOK, WorkerState
<1>14. Decided(l)'
  <2>1. leads'[l].status = status
    BY <1>1, <1>2, <1>9 DEF PipelineInv, PipelineTypeOK, LeadTypeOK
  <2> QED
    BY <1>4, <2>1 DEF Decided
<1>15. /\ workers' \in [Workers -> WorkerState]
       /\ \A v \in Workers :
            /\ v # w => workers'[v] = workers[v]
            /\ workers'[v].job = workers[v].job
       /\ workers'[w].pc = "notify"
  BY <1>1, <1>2, AfterWorkType DEF PipelineInv, PipelineTypeOK
<1>16. ProcessesHaveLeads'
  BY <1>1, <1>2, <1>15 DEF PipelineInv, ProcessesHaveLeads
<1>17. AcksAreRecorded'
  <2> SUFFICES ASSUME NEW a \in acks
               PROVE  reviews'[a.lead] = reviews[a.lead]
    BY <1>1 DEF AcksAreRecorded, PipelineInv
  <2>1. a.lead \in Leads /\ reviews[a.lead].state = "answered"
    BY AckedIsAnswered
  <2>2. a.lead # l
    BY <1>5, <2>1
  <2> QED
    BY <1>6, <2>1, <2>2 DEF PipelineInv, PipelineTypeOK, ReviewTypeOK
<1>18. /\ Decided(l)' <=> jobs'[l].status = "done"
       /\ receipts'[l] = IF Decided(l)' THEN 1 ELSE 0
  BY <1>2, <1>11, <1>13, <1>14
<1>19. /\ orgMode' \in ExecutionMode /\ emailed' \subseteq Leads
       /\ ranSimulated' \subseteq Leads
       /\ clients' \in [Reviewers -> ClientState] /\ acks' \subseteq Ack
  BY <1>1 DEF PipelineInv, PipelineTypeOK, ReviewTypeOK
<1> HIDE DEF row, rev
<1>20. MovesTo(l, row, rev)
  BY <1>1, <1>6, <1>7, <1>9, <1>10, <1>11, <1>13, <1>15, <1>16, <1>17,
     <1>18, <1>19 DEF MovesTo
<1> QED
  BY <1>2, <1>20, MoveStep

(* A failed attempt leaves the done jobs alone, and was not one. *)
LEMMA FailKeepsDone ==
  ASSUME QueueInv, NEW j \in Jobs, NEW o, Fail(j, o), NEW k \in Jobs
  PROVE  /\ jobs'[k].status = "done" <=> jobs[k].status = "done"
         /\ jobs[j].status # "done"
BY DEF Fail, Owns, FailedRow, QueueInv, QueueTypeOK

LEMMA RecordFailureInv ==
  ASSUME PipelineInv, NEW w \in Workers, RecordFailure(w)
  PROVE  PipelineInv'
<1>0. PICK l \in Leads : l = workers[w].job
  BY DEF RecordFailure, PipelineInv, ProcessesHaveLeads
<1> DEFINE row == [status |-> "DEAD_LETTER", version |-> leads[l].version + 1,
                   shadow |-> leads[l].shadow]
<1>1. l \in Leads /\ leads[l] \in LeadRow /\ workers[w] \in WorkerState
  BY DEF RecordFailure, PipelineInv, PipelineTypeOK, LeadTypeOK,
         ProcessesHaveLeads
<1>2. /\ workers' = [workers EXCEPT ![w] = NextJob(w)]
      /\ UNCHANGED <<reviews, clients, acks, orgMode, receipts, emailed,
                     ranSimulated>>
  BY DEF RecordFailure, reviewVars
<1>3. NextJob(w) \in WorkerState /\ NextJob(w).pc \in {"idle", "next"}
  BY NextJobType DEF PipelineInv
<1>4. /\ workers' \in [Workers -> WorkerState]
      /\ \A v \in Workers : workers'[v] = IF v = w THEN NextJob(w)
                                                   ELSE workers[v]
  BY <1>2, <1>3 DEF PipelineInv, PipelineTypeOK
<1>5. ProcessesHaveLeads'
  BY <1>2, <1>3, <1>4 DEF PipelineInv, ProcessesHaveLeads
<1>6. /\ QueueInv'
      /\ \A k \in Leads : jobs'[k].status = "done" <=> jobs[k].status = "done"
  <2>1. CASE Fail(l, workers[w].owner)
    BY <1>1, <2>1, FailInv, FailKeepsDone, LeadsAreJobs
       DEF PipelineInv, WorkerState
  <2>2. CASE UNCHANGED queueVars
    BY <2>2 DEF PipelineInv, queueVars, QueueInv, QueueTypeOK,
                AttemptAccounting, DeadLetterIffSpent
  <2> QED
    BY <1>0, <2>1, <2>2 DEF RecordFailure
<1>7. \/ UNCHANGED leads
      \/ /\ QueueAdvances(leads[l].status)
         /\ leads' = [leads EXCEPT ![l] = row]
  BY <1>0 DEF RecordFailure, MarkLeadDeadLettered, ApplyTransitions
<1>8. CASE UNCHANGED leads
  BY <1>2, <1>3, <1>4, <1>5, <1>6, <1>8, QuietStep
     DEF PipelineInv, PipelineTypeOK, ProcessesHaveLeads
<1>9. CASE /\ QueueAdvances(leads[l].status)
           /\ leads' = [leads EXCEPT ![l] = row]
  <2>1. leads[l].status \in {"NEW", "SCORING", "FETCHING_EVIDENCE",
                             "INTEGRATING"}
    BY <1>9 DEF QueueAdvances, Transitions
  <2>2. /\ row \in LeadRow /\ row.status = "DEAD_LETTER"
        /\ leads[l].version < row.version
    BY <1>1 DEF LeadRow, LeadStatus
  <2>3. leads'[l] = row
    BY <1>1, <1>9 DEF PipelineInv, PipelineTypeOK, LeadTypeOK
  <2>4. /\ reviews[l].state # "answered" /\ reviews[l].state # "pending"
        /\ reviews[l].action = "none"
    BY <1>1, <2>1, ReviewedStatusFinal
       DEF PipelineInv, AnswerIsOutcome, AwaitingIffPending, FINALIZED,
           QUALIFIED, REJECTED
  <2>5. ~Decided(l)
    BY <2>1 DEF Decided, FINALIZED, QUALIFIED, REJECTED
  <2>6. ~Decided(l)'
    BY <2>2, <2>3 DEF Decided, FINALIZED, QUALIFIED, REJECTED
  <2>7. jobs'[l].status # "done" /\ receipts[l] = 0
    BY <1>1, <1>6, <2>5 DEF PipelineInv, DecidedOnceWithItsJob
  <2>8. /\ Decided(l)' <=> jobs'[l].status = "done"
        /\ receipts'[l] = IF Decided(l)' THEN 1 ELSE 0
    BY <1>2, <2>6, <2>7
  <2>9. /\ reviews' = [reviews EXCEPT ![l] = reviews[l]]
        /\ reviews[l] \in ReviewRow
    BY <1>1, <1>2 DEF PipelineInv, PipelineTypeOK, ReviewTypeOK
  <2>10. AcksAreRecorded'
    BY <1>2 DEF PipelineInv, AcksAreRecorded
  <2>11. /\ orgMode' \in ExecutionMode
         /\ receipts' \in [Leads -> Nat]
         /\ emailed' \subseteq Leads /\ ranSimulated' \subseteq Leads
         /\ clients' \in [Reviewers -> ClientState] /\ acks' \subseteq Ack
    BY <1>2 DEF PipelineInv, PipelineTypeOK, ReviewTypeOK
  <2> HIDE DEF row
  <2>12. MovesTo(l, row, reviews[l])
    BY <1>2, <1>3, <1>4, <1>5, <1>6, <1>9, <2>2, <2>4, <2>8, <2>9, <2>10,
       <2>11 DEF MovesTo
  <2> QED
    BY <1>1, <2>12, MoveStep
<1> QED
  BY <1>7, <1>8, <1>9
-----------------------------------------------------------------------------
(* A step of a client that changes no row. *)
LEMMA ClientStep ==
  ASSUME PipelineInv,
         UNCHANGED <<queueVars, leads, reviews, workers, orgMode, receipts,
                     emailed, ranSimulated>>,
         clients' \in [Reviewers -> ClientState], acks' \subseteq Ack,
         ProcessesHaveLeads', AcksAreRecorded'
  PROVE  PipelineInv'
<1>1. QueueInv' /\ UNCHANGED jobs
  BY DEF PipelineInv, queueVars, QueueInv, QueueTypeOK, AttemptAccounting,
         DeadLetterIffSpent
<1>2. PipelineTypeOK'
  BY <1>1 DEF PipelineInv, PipelineTypeOK, QueueInv, LeadTypeOK, ReviewTypeOK
<1>3. VersionVouchesForStatus'
  BY DEF PipelineInv, VersionVouchesForStatus
<1>4. DecidedOnceWithItsJob'
  BY <1>1 DEF PipelineInv, DecidedOnceWithItsJob, Decided
<1>5. AwaitingIffPending' /\ AnswerIsOutcome' /\ AbsentHasNoVersion'
  BY DEF PipelineInv, AwaitingIffPending, AnswerIsOutcome, AbsentHasNoVersion
<1> QED
  BY <1>1, <1>2, <1>3, <1>4, <1>5 DEF PipelineInv

(* The client that sent a decision, after the response or without it. *)
LEMMA AfterRespond ==
  ASSUME PipelineInv, NEW c \in Reviewers, clients[c].pc = "sent",
         NEW applied \in BOOLEAN, Respond(c, applied), UNCHANGED workers
  PROVE  /\ clients' \in [Reviewers -> ClientState]
         /\ acks' \subseteq Ack
         /\ ProcessesHaveLeads'
         /\ \A a \in acks' :
              \/ a \in acks
              \/ /\ applied
                 /\ a = [lead |-> clients[c].lead, reviewer |-> c,
                         action |-> clients[c].action]
<1>1. /\ clients \in [Reviewers -> ClientState]
      /\ acks \subseteq Ack
      /\ clients[c].lead \in Leads
      /\ clients[c].action \in ReviewAction
  BY DEF PipelineInv, PipelineTypeOK, ReviewTypeOK, ProcessesHaveLeads
<1> DEFINE new == [lead |-> clients[c].lead, reviewer |-> c,
                   action |-> clients[c].action]
<1>2. new \in Ack
  BY <1>1 DEF Ack
<1>3. IdleClient \in ClientState /\ IdleClient.pc = "idle"
  BY DEF IdleClient, ClientState
<1>4. \/ UNCHANGED <<clients, acks>>
      \/ /\ clients' = [clients EXCEPT ![c] = IdleClient]
         /\ acks' = IF applied THEN acks \cup {new} ELSE acks
  BY DEF Respond
<1> HIDE DEF new
<1>5. clients' \in [Reviewers -> ClientState] /\ acks' \subseteq Ack
  BY <1>1, <1>2, <1>3, <1>4
<1>6. \A a \in acks' : a \in acks \/ (applied /\ a = new)
  BY <1>4
<1>7. \A d \in Reviewers : clients'[d] = clients[d]
                           \/ clients'[d] = IdleClient
  BY <1>1, <1>4
<1>8. ProcessesHaveLeads'
  BY <1>3, <1>7 DEF PipelineInv, ProcessesHaveLeads
<1> QED
  BY <1>5, <1>6, <1>8 DEF new

LEMMA SendDecisionInv ==
  ASSUME PipelineInv, NEW c \in Reviewers, NEW l \in Leads,
         NEW version \in {1, leads[l].version}, NEW action \in ReviewAction,
         UNCHANGED <<queueVars, workers, orgMode, receipts, emailed,
                     ranSimulated>>,
         SendDecision(c, l, version, action)
  PROVE  PipelineInv'
<1> DEFINE new == [pc |-> "sent", lead |-> l, version |-> version,
                   action |-> action]
<1>1. /\ clients \in [Reviewers -> ClientState]
      /\ acks \subseteq Ack
  BY DEF PipelineInv, PipelineTypeOK, ReviewTypeOK
<1>2. version \in Nat
  BY DEF PipelineInv, PipelineTypeOK, LeadTypeOK, LeadRow
<1>3. /\ new \in ClientState /\ new.lead \in Leads
      /\ new.action \in ReviewAction
      /\ clients' = [clients EXCEPT ![c] = new]
  BY <1>2 DEF ClientState, SendDecision
<1> HIDE DEF new
<1>4. UNCHANGED <<leads, reviews, acks>>
  BY DEF SendDecision
<1>5. /\ clients' \in [Reviewers -> ClientState]
      /\ \A d \in Reviewers : clients'[d] = IF d = c THEN new ELSE clients[d]
  BY <1>1, <1>3
<1>6. ProcessesHaveLeads'
  BY <1>3, <1>5 DEF PipelineInv, ProcessesHaveLeads
<1>7. AcksAreRecorded'
  BY <1>4 DEF PipelineInv, AcksAreRecorded
<1> QED
  BY <1>1, <1>4, <1>5, <1>6, <1>7, ClientStep

(* DecisionStale and DecisionLostRace. *)
LEMMA DecisionRefusedInv ==
  ASSUME PipelineInv, NEW c \in Reviewers,
         UNCHANGED <<queueVars, workers, orgMode, receipts, emailed,
                     ranSimulated>>,
         DecisionStale(c) \/ DecisionLostRace(c)
  PROVE  PipelineInv'
<1> DEFINE l == clients[c].lead
<1>1. /\ clients[c].pc = "sent" /\ UNCHANGED <<leads, reviews>>
      /\ l \in Leads /\ reviews[l] \in ReviewRow
  BY DEF DecisionStale, DecisionLostRace, PipelineInv, ProcessesHaveLeads,
         PipelineTypeOK, ReviewTypeOK
<1>2. PICK applied \in BOOLEAN :
        /\ Respond(c, applied)
        /\ applied => ~WinsCompletion(l) /\ SameSubmission(l, c)
  <2>1. SameSubmission(l, c) \in BOOLEAN
    BY DEF SameSubmission
  <2> QED
    BY <2>1 DEF DecisionStale, DecisionLostRace
<1>3. /\ clients' \in [Reviewers -> ClientState]
      /\ acks' \subseteq Ack
      /\ ProcessesHaveLeads'
      /\ \A a \in acks' :
           \/ a \in acks
           \/ /\ applied
              /\ a = [lead |-> l, reviewer |-> c, action |-> clients[c].action]
  BY <1>1, <1>2, AfterRespond
<1>4. applied => reviews[l] = [state |-> "answered",
                               action |-> clients[c].action, reviewer |-> c]
  <2> SUFFICES ASSUME applied
               PROVE  reviews[l] = [state |-> "answered",
                                    action |-> clients[c].action,
                                    reviewer |-> c]
    OBVIOUS
  <2>1. /\ reviews[l].state # "pending"
        /\ reviews[l].action = clients[c].action
        /\ reviews[l].reviewer = c
    BY <1>2 DEF WinsCompletion, SameSubmission
  <2>2. clients[c].action \in ReviewAction
    BY <1>1 DEF PipelineInv, ProcessesHaveLeads
  <2>3. reviews[l].state = "answered"
    BY <1>1, <2>1, <2>2 DEF PipelineInv, AnswerIsOutcome, ReviewAction,
                            ReviewRow
  <2> QED
    BY <1>1, <2>1, <2>3 DEF ReviewRow
<1>5. AcksAreRecorded'
  <2> SUFFICES ASSUME NEW a \in acks'
               PROVE  reviews[a.lead] = [state |-> "answered",
                                         action |-> a.action,
                                         reviewer |-> a.reviewer]
    BY <1>1 DEF AcksAreRecorded
  <2>1. CASE a \in acks
    BY <2>1 DEF PipelineInv, AcksAreRecorded
  <2>2. CASE /\ applied
             /\ a = [lead |-> l, reviewer |-> c, action |-> clients[c].action]
    BY <1>4, <2>2
  <2> QED
    BY <1>3, <2>1, <2>2
<1> QED
  BY <1>1, <1>3, <1>5, ClientStep

LEMMA DecisionAppliedInv ==
  ASSUME PipelineInv, NEW c \in Reviewers,
         UNCHANGED <<queueVars, workers, orgMode, receipts, emailed,
                     ranSimulated>>,
         DecisionApplied(c)
  PROVE  PipelineInv'
<1>0. PICK l \in Leads : l = clients[c].lead
  BY DEF DecisionApplied, PipelineInv, ProcessesHaveLeads
<1>1. PICK action \in ReviewAction : action = clients[c].action
  BY DEF DecisionApplied, PipelineInv, ProcessesHaveLeads
<1> DEFINE row == [status |-> ReviewedStatus(action),
                   version |-> leads[l].version + 1,
                   shadow |-> leads[l].shadow]
           rev == [state |-> "answered", action |-> action, reviewer |-> c]
<1>2. /\ clients[c].pc = "sent"
      /\ reviews[l].state = "pending"
      /\ reviews' = [reviews EXCEPT ![l] = rev]
      /\ leads' = [leads EXCEPT ![l] = row]
      /\ Respond(c, TRUE)
  BY <1>0, <1>1 DEF DecisionApplied, WinsCompletion, ApplyTransitions
<1>3. leads[l] \in LeadRow /\ leads \in [Leads -> LeadRow]
      /\ reviews \in [Leads -> ReviewRow]
  BY DEF PipelineInv, PipelineTypeOK, LeadTypeOK, ReviewTypeOK
<1>4. ReviewedStatus(action) \in FINALIZED
      /\ ReviewedStatus(action) \in LeadStatus
  BY ReviewedStatusFinal
<1>5. ReviewedStatus(action) # "AWAITING_HUMAN"
      /\ ReviewedStatus(action) # "absent"
  BY <1>4 DEF FINALIZED, QUALIFIED, REJECTED
<1>6. /\ row \in LeadRow /\ row.status = ReviewedStatus(action)
      /\ leads[l].version < row.version
  BY <1>3, <1>4 DEF LeadRow
<1>7. rev \in ReviewRow /\ rev.state = "answered" /\ rev.action = action
  BY DEF ReviewRow
<1>8. Decided(l)
  BY <1>2 DEF Decided, PipelineInv, AwaitingIffPending
<1>9. Decided(l)'
  BY <1>2, <1>3, <1>4, <1>6 DEF Decided
<1>10. jobs[l].status = "done" /\ receipts[l] = 1
  BY <1>8 DEF PipelineInv, DecidedOnceWithItsJob
<1>11. QueueInv' /\ UNCHANGED jobs
  BY DEF PipelineInv, queueVars, QueueInv, QueueTypeOK, AttemptAccounting,
         DeadLetterIffSpent
<1>12. /\ Decided(l)' <=> jobs'[l].status = "done"
       /\ receipts'[l] = IF Decided(l)' THEN 1 ELSE 0
  BY <1>9, <1>10, <1>11
<1>13. /\ clients' \in [Reviewers -> ClientState]
       /\ acks' \subseteq Ack
       /\ ProcessesHaveLeads'
       /\ \A a \in acks' :
            a \in acks \/ a = [lead |-> l, reviewer |-> c, action |-> action]
  BY <1>0, <1>1, <1>2, AfterRespond
<1>14. AcksAreRecorded'
  <2> SUFFICES ASSUME NEW a \in acks'
               PROVE  reviews'[a.lead] = [state |-> "answered",
                                          action |-> a.action,
                                          reviewer |-> a.reviewer]
    BY DEF AcksAreRecorded
  <2>1. CASE a \in acks
    <3>1. a.lead \in Leads /\ reviews[a.lead].state = "answered"
      BY <2>1, AckedIsAnswered
    <3>2. a.lead # l
      BY <1>2, <3>1
    <3>3. reviews'[a.lead] = reviews[a.lead]
      BY <1>2, <1>3, <3>1, <3>2
    <3> QED
      BY <2>1, <3>3 DEF PipelineInv, AcksAreRecorded
  <2>2. CASE a = [lead |-> l, reviewer |-> c, action |-> action]
    BY <1>2, <1>3, <2>2
  <2> QED
    BY <1>13, <2>1, <2>2
<1>15. /\ workers' \in [Workers -> WorkerState]
       /\ orgMode' \in ExecutionMode
       /\ receipts' \in [Leads -> Nat]
       /\ emailed' \subseteq Leads /\ ranSimulated' \subseteq Leads
  BY DEF PipelineInv, PipelineTypeOK
<1> HIDE DEF row, rev
<1>16. MovesTo(l, row, rev)
  BY <1>2, <1>5, <1>6, <1>7, <1>11, <1>12, <1>13, <1>14, <1>15 DEF MovesTo
<1> QED
  BY <1>16, MoveStep

-----------------------------------------------------------------------------
(* Every step of the pipeline keeps the invariant. *)
LEMMA PipelineStepInv ==
  PipelineInv /\ [PipelineNext]_pipelineVars => PipelineInv'
<1> SUFFICES ASSUME PipelineInv, [PipelineNext]_pipelineVars
             PROVE  PipelineInv'
  OBVIOUS
<1>1. ASSUME NEW l \in Leads, NEW shadow \in BOOLEAN, Ingest(l, shadow)
      PROVE  PipelineInv'
  BY <1>1, IngestInv
<1>2. ASSUME NEW mode \in ExecutionMode, SetExecutionMode(mode)
      PROVE  PipelineInv'
  BY <1>2, SetExecutionModeInv
<1>3. ASSUME NEW w \in Workers, NEW S \in SUBSET Leads, StartCycle(w, S)
      PROVE  PipelineInv'
  BY <1>3, StartCycleInv
<1>4. ASSUME NEW w \in Workers, WorkerStep(w)
      PROVE  PipelineInv'
  BY <1>4, BeginWorkInv, CommitWorkInv, WorkerOnlyInv, RecordFailureInv
     DEF WorkerStep
<1>5. ASSUME NEW w \in Workers, Crash(w)
      PROVE  PipelineInv'
  BY <1>5, WorkerOnlyInv
<1>6. CASE Time
  BY <1>6, TimeInv
<1>7. CASE HumanReview
  BY <1>7, SendDecisionInv, DecisionRefusedInv, DecisionAppliedInv
     DEF HumanReview, ReviewStep
<1>8. CASE UNCHANGED pipelineVars
  <2>1. UNCHANGED <<queueVars, leads, reviews, clients, acks, workers, orgMode,
                    receipts, emailed, ranSimulated>>
    BY <1>8 DEF pipelineVars, storeVars, reviewVars
  <2> QED
    BY <2>1, ClientStep DEF PipelineInv, PipelineTypeOK, ReviewTypeOK,
                            ProcessesHaveLeads, AcksAreRecorded
<1> QED
  BY <1>1, <1>2, <1>3, <1>4, <1>5, <1>6, <1>7, <1>8 DEF PipelineNext

(* The inductive invariant of the whole pipeline holds in every reachable  *)
(* state of PipelineSpec.                                                  *)
THEOREM PipelineInvariant == PipelineSpec => []PipelineInv
BY PipelineInitInv, PipelineStepInv, PTL DEF PipelineSpec

(* Type correctness of every table and every process. *)
THEOREM PipelineTypeCorrect == PipelineSpec => []PipelineTypeOK
<1>1. PipelineInv => PipelineTypeOK
  BY DEF PipelineInv
<1> QED
  BY <1>1, PipelineInvariant, PTL

(* No interleaving of redeliveries, claims, crashes and lease expiries     *)
(* decides a lead twice or completes a job whose lead is undecided.        *)
THEOREM LeadsAreDecidedOnce == PipelineSpec => []DecidedOnceWithItsJob
<1>1. PipelineInv => DecidedOnceWithItsJob
  BY DEF PipelineInv
<1> QED
  BY <1>1, PipelineInvariant, PTL

(* A lead waits for a human exactly while its review can be answered.      *)
THEOREM AwaitingLeadsHaveReviews == PipelineSpec => []AwaitingIffPending
<1>1. PipelineInv => AwaitingIffPending
  BY DEF PipelineInv
<1> QED
  BY <1>1, PipelineInvariant, PTL

(* A submission that a reviewer was told had been applied is the recorded  *)
(* answer and the lead's outcome for ever after.                           *)
THEOREM AcknowledgedDecisionsStand == PipelineSpec => []AckedDecisionStands
<1>1. ASSUME PipelineInv PROVE AckedDecisionStands
  <2> SUFFICES ASSUME NEW a \in acks
               PROVE  /\ reviews[a.lead] = [state |-> "answered",
                                            action |-> a.action,
                                            reviewer |-> a.reviewer]
                      /\ leads[a.lead].status = ReviewedStatus(a.action)
    BY DEF AckedDecisionStands
  <2>1. reviews[a.lead] = [state |-> "answered", action |-> a.action,
                           reviewer |-> a.reviewer]
    BY <1>1 DEF PipelineInv, AcksAreRecorded
  <2>2. /\ a.lead \in Leads /\ reviews[a.lead].state = "answered"
        /\ reviews[a.lead].action = a.action
    BY <1>1, <2>1, AckedIsAnswered
  <2> QED
    BY <1>1, <2>1, <2>2 DEF PipelineInv, AnswerIsOutcome
<1> QED
  BY <1>1, PipelineInvariant, PTL

(* A version that still matches vouches for the status read with it.       *)
THEOREM VersionsVouch == PipelineSpec => []VersionVouchesForStatus
<1>1. PipelineInv => VersionVouchesForStatus
  BY DEF PipelineInv
<1> QED
  BY <1>1, PipelineInvariant, PTL
-----------------------------------------------------------------------------
(* The ways a lead's row may change. *)
LeadMove(l, row) ==
  /\ leads' = [leads EXCEPT ![l] = row]
  /\ \/ leads[l].status = "absent" /\ row.status = "NEW"
     \/ /\ leads[l].status = "NEW"
        /\ row.status
             \in FINALIZED \cup {"AWAITING_HUMAN", "SHADOW_EVALUATED"}
     \/ QueueAdvances(leads[l].status) /\ row.status = "DEAD_LETTER"
     \/ leads[l].status = "AWAITING_HUMAN" /\ row.status \in FINALIZED

(* No step of the pipeline changes a lead in any other way. *)
LEMMA LeadMoves ==
  ASSUME PipelineInv, [PipelineNext]_pipelineVars
  PROVE  \/ UNCHANGED leads
         \/ \E l \in Leads : \E row : LeadMove(l, row)
<1>1. ASSUME NEW l \in Leads, NEW shadow \in BOOLEAN, Ingest(l, shadow)
      PROVE  UNCHANGED leads \/ \E row : LeadMove(l, row)
  <2> DEFINE row == [status |-> "NEW", version |-> 1, shadow |-> shadow]
  <2>1. CASE leads[l].status = "absent"
    <3>1. LeadMove(l, row)
      BY <1>1, <2>1 DEF Ingest, UpsertLead, LeadMove
    <3> QED
      BY <3>1
  <2>2. CASE leads[l].status # "absent"
    BY <1>1, <2>2 DEF Ingest, UpsertLead, PipelineInv, PipelineTypeOK,
                      LeadTypeOK
  <2> QED
    BY <2>1, <2>2
<1>2. ASSUME NEW w \in Workers, NEW decision \in DOMAIN DECISION_OUTCOMES,
             NEW autonomous \in BOOLEAN, CommitWork(w, decision, autonomous)
      PROVE  \E l \in Leads : \E row : LeadMove(l, row)
  <2>1. PICK l \in Leads : l = workers[w].job
    BY <1>2 DEF CommitWork, PipelineInv, ProcessesHaveLeads
  <2> DEFINE status == FinalStatus(l, decision, autonomous, workers[w].mode)
             row == [status |-> status, version |-> leads[l].version + 5,
                     shadow |-> leads[l].shadow]
  <2>2. leads[l].status = "NEW"
    BY <1>2, <2>1 DEF CommitWork, HandlerAccepts, ApplyTransitions,
         VersionMatches, PipelineInv, VersionVouchesForStatus
  <2>3. status \in FINALIZED \cup {"AWAITING_HUMAN", "SHADOW_EVALUATED"}
    BY FinalStatusDecided
  <2>4. leads' = [leads EXCEPT ![l] = row]
    BY <1>2, <2>1 DEF CommitWork, ApplyTransitions
  <2> HIDE DEF status
  <2>5. LeadMove(l, row)
    BY <2>2, <2>3, <2>4 DEF LeadMove
  <2> QED
    BY <2>5
<1>3. ASSUME NEW w \in Workers, RecordFailure(w)
      PROVE  UNCHANGED leads \/ \E l \in Leads : \E row : LeadMove(l, row)
  <2>1. PICK l \in Leads : l = workers[w].job
    BY <1>3 DEF RecordFailure, PipelineInv, ProcessesHaveLeads
  <2> DEFINE row == [status |-> "DEAD_LETTER", version |-> leads[l].version + 1,
                     shadow |-> leads[l].shadow]
  <2>2. \/ UNCHANGED leads
        \/ /\ QueueAdvances(leads[l].status)
           /\ leads' = [leads EXCEPT ![l] = row]
    BY <1>3, <2>1 DEF RecordFailure, MarkLeadDeadLettered, ApplyTransitions
  <2>3. UNCHANGED leads \/ LeadMove(l, row)
    BY <2>2 DEF LeadMove
  <2> QED
    BY <2>3
<1>4. ASSUME NEW c \in Reviewers, DecisionApplied(c)
      PROVE  \E l \in Leads : \E row : LeadMove(l, row)
  <2>1. PICK l \in Leads : l = clients[c].lead
    BY <1>4 DEF DecisionApplied, PipelineInv, ProcessesHaveLeads
  <2>2. PICK action \in ReviewAction : action = clients[c].action
    BY <1>4 DEF DecisionApplied, PipelineInv, ProcessesHaveLeads
  <2> DEFINE row == [status |-> ReviewedStatus(action),
                     version |-> leads[l].version + 1,
                     shadow |-> leads[l].shadow]
  <2>3. leads' = [leads EXCEPT ![l] = row]
    BY <1>4, <2>1, <2>2 DEF DecisionApplied, ApplyTransitions
  <2>4. leads[l].status = "AWAITING_HUMAN"
    BY <1>4, <2>1 DEF DecisionApplied, WinsCompletion, PipelineInv,
                      AwaitingIffPending
  <2>5. LeadMove(l, row)
    BY <2>3, <2>4, ReviewedStatusFinal DEF LeadMove
  <2> QED
    BY <2>5
<1>5. CASE HumanReview
  BY <1>4, <1>5 DEF HumanReview, ReviewStep, SendDecision,
                    DecisionStale, DecisionLostRace
<1>6. ASSUME NEW w \in Workers, WorkerStep(w)
      PROVE  UNCHANGED leads \/ \E l \in Leads : \E row : LeadMove(l, row)
  BY <1>2, <1>3, <1>6
     DEF WorkerStep, BeginWork, LoseLease, HandlerRaises, Notify, storeVars
<1>7. ASSUME NEW w \in Workers, NEW S, StartCycle(w, S) \/ Crash(w)
      PROVE  UNCHANGED leads
  BY <1>7 DEF StartCycle, Crash, storeVars
<1>8. ASSUME NEW mode, SetExecutionMode(mode)
      PROVE  UNCHANGED leads
  BY <1>8 DEF SetExecutionMode
<1>9. ASSUME Time \/ UNCHANGED pipelineVars
      PROVE  UNCHANGED leads
  BY <1>9 DEF Time, pipelineVars, storeVars
<1> QED
  BY <1>1, <1>5, <1>6, <1>7, <1>8, <1>9 DEF PipelineNext

(* A finalized lead never changes again: no redelivery, failure, retry or  *)
(* second answer reaches it.                                               *)
THEOREM FinalizedLeadsStayFinal == PipelineSpec => FinalizedIsFinal
<1>1. ASSUME PipelineInv, [PipelineNext]_pipelineVars
      PROVE  [\A l \in Leads : leads[l].status \in FINALIZED
                                 => leads'[l] = leads[l]]_pipelineVars
  <2> SUFFICES ASSUME NEW k \in Leads, leads[k].status \in FINALIZED
               PROVE  leads'[k] = leads[k]
    OBVIOUS
  <2>1. CASE UNCHANGED leads
    BY <2>1
  <2>2. ASSUME NEW l \in Leads, NEW row, LeadMove(l, row)
        PROVE  leads'[k] = leads[k]
    <3>1. leads[l].status \notin FINALIZED
      BY <2>2 DEF LeadMove, QueueAdvances, Transitions, FINALIZED, QUALIFIED,
                  REJECTED
    <3>2. k # l
      BY <3>1
    <3> QED
      BY <2>2, <3>2 DEF LeadMove, PipelineInv, PipelineTypeOK, LeadTypeOK
  <2> QED
    BY <1>1, <2>1, <2>2, LeadMoves
<1> QED
  BY <1>1, PipelineInvariant, PTL DEF PipelineSpec, FinalizedIsFinal

(* The refinement mapping. *)
Life == [l \in Leads |-> Lifecycle(l)]

(* A change of a lead's row is a step of its life cycle, or none. *)
LEMMA MoveRefines ==
  ASSUME PipelineInv, NEW l \in Leads, NEW row, LeadMove(l, row)
  PROVE  Abstract!Next \/ UNCHANGED Life
<1> DEFINE new == Lifecycle(l)'
<1>1. leads'[l].status = row.status
  BY DEF LeadMove, PipelineInv, PipelineTypeOK, LeadTypeOK
<1>2. Life' = [Life EXCEPT ![l] = new]
  <2>1. \A k \in Leads \ {l} : leads'[k] = leads[k]
    BY DEF LeadMove, PipelineInv, PipelineTypeOK, LeadTypeOK
  <2>2. \A k \in Leads \ {l} : Lifecycle(k)' = Lifecycle(k)
    BY <2>1 DEF Lifecycle
  <2> QED
    BY <2>2 DEF Life
<1>3. Life[l] = Lifecycle(l)
  BY DEF Life
<1>4. CASE leads[l].status = "absent" /\ row.status = "NEW"
  <2>1. Lifecycle(l).phase = "unknown"
    BY <1>4 DEF Lifecycle, FINALIZED, QUALIFIED, REJECTED
  <2>2. new = [phase |-> "open", verdict |-> "none"]
    BY <1>1, <1>4 DEF Lifecycle, FINALIZED, QUALIFIED, REJECTED
  <2>3. Abstract!Arrive(l)
    BY <1>2, <1>3, <2>1, <2>2 DEF Abstract!Arrive, Abstract!Move,
                                  Abstract!Unsettled, Life
  <2> QED
    BY <2>3 DEF Abstract!Next
<1>5. ASSUME leads[l].status \in DOMAIN Transitions
      PROVE  Lifecycle(l).phase = "open"
  BY <1>5 DEF Transitions, Lifecycle, FINALIZED, QUALIFIED, REJECTED
<1>6. CASE leads[l].status = "NEW" /\ row.status = "AWAITING_HUMAN"
  <2>1. new = [phase |-> "review", verdict |-> "none"]
    BY <1>1, <1>6 DEF Lifecycle, FINALIZED, QUALIFIED, REJECTED
  <2>2. Lifecycle(l).phase = "open"
    BY <1>5, <1>6 DEF Transitions
  <2>3. Abstract!Escalate(l)
    BY <1>2, <1>3, <2>1, <2>2 DEF Abstract!Escalate, Abstract!Move,
                                  Abstract!Unsettled, Life
  <2> QED
    BY <2>3 DEF Abstract!Next
<1>7. CASE leads[l].status = "NEW" /\ row.status = "SHADOW_EVALUATED"
  <2>1. new = [phase |-> "shadow", verdict |-> "none"]
    BY <1>1, <1>7 DEF Lifecycle, FINALIZED, QUALIFIED, REJECTED
  <2>2. Lifecycle(l).phase = "open"
    BY <1>5, <1>7 DEF Transitions
  <2>3. Abstract!Evaluate(l)
    BY <1>2, <1>3, <2>1, <2>2 DEF Abstract!Evaluate, Abstract!Move,
                                  Abstract!Unsettled, Life
  <2> QED
    BY <2>3 DEF Abstract!Next
<1>8. CASE QueueAdvances(leads[l].status) /\ row.status = "DEAD_LETTER"
  <2>1. new = [phase |-> "failed", verdict |-> "none"]
    BY <1>1, <1>8 DEF Lifecycle, FINALIZED, QUALIFIED, REJECTED
  <2>2. Lifecycle(l).phase = "open"
    BY <1>5, <1>8 DEF QueueAdvances
  <2>3. Abstract!GiveUp(l)
    BY <1>2, <1>3, <2>1, <2>2 DEF Abstract!GiveUp, Abstract!Move,
                                  Abstract!Unsettled, Life
  <2> QED
    BY <2>3 DEF Abstract!Next
<1>9. ASSUME row.status \in FINALIZED
      PROVE  new = [phase |-> "settled", verdict |-> row.status]
  BY <1>1, <1>9 DEF Lifecycle, FINALIZED, QUALIFIED, REJECTED
<1>10. CASE leads[l].status = "NEW" /\ row.status \in FINALIZED
  <2>1. Lifecycle(l).phase = "open"
    BY <1>5, <1>10 DEF Transitions
  <2>2. Abstract!Decide(l, row.status)
    BY <1>2, <1>3, <1>9, <1>10, <2>1 DEF Abstract!Decide, Abstract!Move,
                                         Abstract!Settled, Life
  <2> QED
    BY <1>10, <2>2 DEF Abstract!Next
<1>11. CASE leads[l].status = "AWAITING_HUMAN" /\ row.status \in FINALIZED
  <2>1. Lifecycle(l).phase = "review"
    BY <1>11 DEF Lifecycle, FINALIZED, QUALIFIED, REJECTED
  <2>2. Abstract!Answer(l, row.status)
    BY <1>2, <1>3, <1>9, <1>11, <2>1 DEF Abstract!Answer, Abstract!Move,
                                         Abstract!Settled, Life
  <2> QED
    BY <1>11, <2>2 DEF Abstract!Next
<1> QED
  BY <1>4, <1>6, <1>7, <1>8, <1>10, <1>11 DEF LeadMove

(* The pipeline implements the life cycle: whatever queue, leases, workers *)
(* and reviewers do, a lead arrives once, is settled at most once, by the  *)
(* workers or by one human answer, and never leaves a final phase.         *)
THEOREM PipelineImplementsLifecycle == PipelineSpec => ImplementsLifecycle
<1>1. PipelineInit => Abstract!Init
  BY DEF PipelineInit, LeadInit, NoLead, Lifecycle, Abstract!Init,
         Abstract!Unsettled, FINALIZED, QUALIFIED, REJECTED
<1>2. ASSUME PipelineInv, [PipelineNext]_pipelineVars
      PROVE  [Abstract!Next]_Life
  <2>1. CASE UNCHANGED leads
    BY <2>1 DEF Life, Lifecycle
  <2> QED
    BY <1>2, <2>1, LeadMoves, MoveRefines
<1>3. [Abstract!Next]_Life <=> [Abstract!Next]_([l \in Leads |-> Lifecycle(l)])
  BY DEF Life
<1> QED
  BY <1>1, <1>2, <1>3, PipelineInvariant, PTL
     DEF PipelineSpec, ImplementsLifecycle, Abstract!Spec

-----------------------------------------------------------------------------
(* How one step may change the review of a lead: it stays, a lead that is  *)
(* being escalated gets one, or a pending one is answered.                 *)
ReviewMove(l) ==
  \/ reviews'[l] = reviews[l]
  \/ reviews'[l].state = "pending" /\ leads'[l].status = "AWAITING_HUMAN"
       /\ leads[l].status = "NEW"
  \/ reviews[l].state = "pending" /\ reviews'[l].state = "answered"

(* How one step may change a lead: arrival, a decision under the mode the  *)
(* worker read, a failure, a human's answer.                               *)
OutcomeMove(l) ==
  \/ leads'[l] = leads[l]
  \/ /\ leads[l].status = "absent" /\ leads'[l].status = "NEW"
     /\ \E shadow \in BOOLEAN : Ingest(l, shadow)
  \/ /\ leads[l].status = "NEW"
     /\ leads'[l].shadow = leads[l].shadow
     /\ \E w \in Workers : \E decision \in DOMAIN DECISION_OUTCOMES,
                              autonomous \in BOOLEAN :
          /\ workers[w].pc = "work" /\ workers[w].job = l
          /\ workers[w].status = "NEW"
          /\ leads'[l].status = FinalStatus(l, decision, autonomous,
                                            workers[w].mode)
  \/ /\ QueueAdvances(leads[l].status)
     /\ leads'[l].status = "DEAD_LETTER" /\ leads'[l].shadow = leads[l].shadow
  \/ /\ leads'[l].shadow = leads[l].shadow
     /\ reviews[l].state = "pending" /\ reviews'[l].state = "answered"

Moves == \A l \in Leads : ReviewMove(l) /\ OutcomeMove(l)

LEMMA CommitWorkMoves ==
  ASSUME PipelineInv, NEW w \in Workers,
         NEW decision \in DOMAIN DECISION_OUTCOMES, NEW autonomous \in BOOLEAN,
         CommitWork(w, decision, autonomous)
  PROVE  Moves
<1>1. PICK l \in Leads : l = workers[w].job
  BY DEF CommitWork, PipelineInv, ProcessesHaveLeads
<1> DEFINE status == FinalStatus(l, decision, autonomous, workers[w].mode)
           row == [status |-> status, version |-> leads[l].version + 5,
                   shadow |-> leads[l].shadow]
<1>2. /\ leads[l].status = "NEW" /\ workers[w].pc = "work"
      /\ workers[w].status = "NEW"
  BY <1>1 DEF CommitWork, HandlerAccepts, ApplyTransitions, VersionMatches,
              PipelineInv, VersionVouchesForStatus
<1>3. leads' = [leads EXCEPT ![l] = row]
  BY <1>1 DEF CommitWork, ApplyTransitions
<1>4. IF status = "AWAITING_HUMAN" THEN OpenReview(l) ELSE UNCHANGED reviews
  BY <1>1 DEF CommitWork
<1> SUFFICES ASSUME NEW k \in Leads PROVE ReviewMove(k) /\ OutcomeMove(k)
  BY DEF Moves
<1>5. CASE k # l
  <2>1. leads'[k] = leads[k]
    BY <1>3, <1>5 DEF PipelineInv, PipelineTypeOK, LeadTypeOK
  <2>2. reviews'[k] = reviews[k]
    BY <1>4, <1>5 DEF OpenReview, PipelineInv, PipelineTypeOK, ReviewTypeOK
  <2> QED
    BY <2>1, <2>2 DEF ReviewMove, OutcomeMove
<1>6. CASE k = l
  <2>1. leads'[l].status = status /\ leads'[l].shadow = leads[l].shadow
    BY <1>3 DEF PipelineInv, PipelineTypeOK, LeadTypeOK
  <2>2. OutcomeMove(l)
    BY <1>1, <1>2, <2>1 DEF OutcomeMove
  <2>3. ReviewMove(l)
    BY <1>2, <1>4, <2>1 DEF ReviewMove, OpenReview, PendingRow, PipelineInv,
                            PipelineTypeOK, ReviewTypeOK
  <2> QED
    BY <1>6, <2>2, <2>3
<1> QED
  BY <1>5, <1>6

LEMMA DecisionMoves ==
  ASSUME PipelineInv, NEW c \in Reviewers, DecisionApplied(c)
  PROVE  Moves
<1>1. PICK l \in Leads : l = clients[c].lead
  BY DEF DecisionApplied, PipelineInv, ProcessesHaveLeads
<1> DEFINE row == [status |-> ReviewedStatus(clients[c].action),
                   version |-> leads[l].version + 1,
                   shadow |-> leads[l].shadow]
           rev == [state |-> "answered", action |-> clients[c].action,
                   reviewer |-> c]
<1>2. /\ reviews[l].state = "pending"
      /\ reviews' = [reviews EXCEPT ![l] = rev]
      /\ leads' = [leads EXCEPT ![l] = row]
  BY <1>1 DEF DecisionApplied, WinsCompletion, ApplyTransitions
<1> SUFFICES ASSUME NEW k \in Leads PROVE ReviewMove(k) /\ OutcomeMove(k)
  BY DEF Moves
<1>3. CASE k # l
  BY <1>2, <1>3 DEF ReviewMove, OutcomeMove, PipelineInv, PipelineTypeOK,
                    LeadTypeOK, ReviewTypeOK
<1>4. CASE k = l
  <2>1. reviews'[l].state = "answered" /\ leads'[l].shadow = leads[l].shadow
    BY <1>2 DEF PipelineInv, PipelineTypeOK, LeadTypeOK, ReviewTypeOK
  <2> QED
    BY <1>2, <1>4, <2>1 DEF ReviewMove, OutcomeMove
<1> QED
  BY <1>3, <1>4

LEMMA PipelineMoves ==
  ASSUME PipelineInv, [PipelineNext]_pipelineVars
  PROVE  Moves
<1>1. ASSUME UNCHANGED <<leads, reviews>> PROVE Moves
  BY <1>1 DEF Moves, ReviewMove, OutcomeMove
<1>2. ASSUME NEW l \in Leads, NEW shadow \in BOOLEAN, Ingest(l, shadow)
      PROVE  Moves
  <2>1. leads' = [leads EXCEPT ![l] = leads'[l]]
    BY <1>2 DEF Ingest, UpsertLead, PipelineInv, PipelineTypeOK, LeadTypeOK
  <2>2. \/ leads'[l] = leads[l]
        \/ leads[l].status = "absent" /\ leads'[l].status = "NEW"
    <3>1. CASE leads[l].status = "absent"
      BY <1>2, <3>1 DEF Ingest, UpsertLead, PipelineInv, PipelineTypeOK,
                        LeadTypeOK
    <3>2. CASE leads[l].status # "absent"
      BY <1>2, <3>2 DEF Ingest, UpsertLead, PipelineInv, PipelineTypeOK,
                        LeadTypeOK
    <3> QED
      BY <3>1, <3>2
  <2>3. \A k \in Leads : k # l => leads'[k] = leads[k]
    BY <2>1 DEF PipelineInv, PipelineTypeOK, LeadTypeOK
  <2>4. UNCHANGED reviews
    BY <1>2 DEF Ingest, reviewVars
  <2> QED
    BY <1>2, <2>2, <2>3, <2>4 DEF Moves, ReviewMove, OutcomeMove
<1>3. ASSUME NEW w \in Workers, RecordFailure(w)
      PROVE  Moves
  <2>1. PICK l \in Leads : l = workers[w].job
    BY <1>3 DEF RecordFailure, PipelineInv, ProcessesHaveLeads
  <2>2. UNCHANGED reviews
    BY <1>3 DEF RecordFailure, reviewVars
  <2> DEFINE row == [status |-> "DEAD_LETTER", version |-> leads[l].version + 1,
                     shadow |-> leads[l].shadow]
  <2>3. \/ UNCHANGED leads
        \/ QueueAdvances(leads[l].status) /\ leads' = [leads EXCEPT ![l] = row]
    BY <1>3, <2>1 DEF RecordFailure, MarkLeadDeadLettered, ApplyTransitions
  <2>4. \A k \in Leads :
          \/ leads'[k] = leads[k]
          \/ /\ QueueAdvances(leads[k].status)
             /\ leads'[k].status = "DEAD_LETTER"
             /\ leads'[k].shadow = leads[k].shadow
    BY <2>3 DEF PipelineInv, PipelineTypeOK, LeadTypeOK
  <2> QED
    BY <2>2, <2>4 DEF Moves, ReviewMove, OutcomeMove
<1>4. ASSUME NEW w \in Workers, WorkerStep(w)
      PROVE  Moves
  BY <1>1, <1>3, <1>4, CommitWorkMoves
     DEF WorkerStep, BeginWork, LoseLease, HandlerRaises, Notify, storeVars,
         reviewVars
<1>5. CASE HumanReview
  BY <1>1, <1>5, DecisionMoves
     DEF HumanReview, ReviewStep, SendDecision, DecisionStale,
         DecisionLostRace
<1>6. ASSUME NEW w \in Workers, NEW S, StartCycle(w, S) \/ Crash(w)
      PROVE  Moves
  BY <1>1, <1>6 DEF StartCycle, Crash, storeVars, reviewVars
<1>7. ASSUME NEW mode, SetExecutionMode(mode)
      PROVE  Moves
  BY <1>1, <1>7 DEF SetExecutionMode, reviewVars
<1>8. ASSUME Time \/ UNCHANGED pipelineVars
      PROVE  Moves
  BY <1>1, <1>8 DEF Time, pipelineVars, storeVars, reviewVars
<1> QED
  BY <1>2, <1>4, <1>5, <1>6, <1>7, <1>8 DEF PipelineNext
-----------------------------------------------------------------------------
(* A lead that has not arrived has no review. *)
LEMMA AbsentHasNoReview ==
  ASSUME PipelineInv, NEW l \in Leads, leads[l].status = "absent"
  PROVE  reviews[l].state = "none"
<1>1. reviews[l].state # "pending"
  BY DEF PipelineInv, AwaitingIffPending
<1>2. reviews[l].state # "answered"
  BY ReviewedStatusFinal
     DEF PipelineInv, AnswerIsOutcome, FINALIZED, QUALIFIED, REJECTED
<1> QED
  BY <1>1, <1>2 DEF PipelineInv, PipelineTypeOK, ReviewTypeOK, ReviewRow

(* A shadow lead is never routed, rejected or put in front of a human,     *)
(* whatever the model decides and whoever works on it.                     *)
THEOREM ShadowLeadsAreInert == PipelineSpec => []ShadowIsInert
<1>1. PipelineInit => ShadowIsInert
  BY DEF PipelineInit, LeadInit, ReviewInit, NoLead, ShadowIsInert
<1>2. ASSUME PipelineInv, ShadowIsInert, [PipelineNext]_pipelineVars
      PROVE  ShadowIsInert'
  <2> SUFFICES ASSUME NEW l \in Leads, leads'[l].shadow
               PROVE  /\ leads'[l].status \notin FINALIZED
                      /\ reviews'[l].state = "none"
    BY DEF ShadowIsInert
  <2>1. ReviewMove(l) /\ OutcomeMove(l)
    BY <1>2, PipelineMoves DEF Moves
  <2>2. CASE leads[l].status = "absent"
    <3>1. reviews[l].state = "none"
      BY <1>2, <2>2, AbsentHasNoReview
    <3>2. reviews'[l].state = "none"
      BY <2>1, <2>2, <3>1 DEF ReviewMove
    <3>3. leads'[l].status \in {"absent", "NEW", "DEAD_LETTER"}
      BY <2>1, <2>2, <3>1 DEF OutcomeMove
    <3> QED
      BY <3>2, <3>3 DEF FINALIZED, QUALIFIED, REJECTED
  <2>3. CASE leads[l].status # "absent"
    <3>1. leads[l].shadow
      BY <2>1, <2>3 DEF OutcomeMove
    <3>2. leads[l].status \notin FINALIZED /\ reviews[l].state = "none"
      BY <1>2, <3>1 DEF ShadowIsInert
    <3>3. leads'[l].status \in {leads[l].status, "SHADOW_EVALUATED",
                                "DEAD_LETTER"}
      BY <2>1, <2>3, <3>1, <3>2 DEF OutcomeMove, FinalStatus
    <3>4. reviews'[l].state = "none"
      BY <2>1, <3>2, <3>3 DEF ReviewMove
    <3> QED
      BY <3>2, <3>3, <3>4 DEF FINALIZED, QUALIFIED, REJECTED
  <2> QED
    BY <2>2, <2>3
<1> QED
  BY <1>1, <1>2, PipelineInvariant, PTL DEF PipelineSpec

(* A review that exists never disappears, so an email about it is never    *)
(* about nothing.                                                          *)
THEOREM EmailsHaveReviews == PipelineSpec => []EmailedHasReview
<1>1. PipelineInit => EmailedHasReview
  BY DEF PipelineInit, EmailedHasReview
<1>2. ASSUME PipelineInv, EmailedHasReview, [PipelineNext]_pipelineVars
      PROVE  EmailedHasReview'
  <2>1. \A l \in Leads : reviews[l].state # "none" => reviews'[l].state # "none"
    BY <1>2, PipelineMoves DEF Moves, ReviewMove
  <2>2. emailed' = emailed
          \/ \E l \in Leads : reviews[l].state = "pending"
                              /\ emailed' = emailed \cup {l}
    <3>1. ASSUME NEW w \in Workers, Notify(w)
          PROVE  emailed' = emailed
                   \/ \E l \in Leads : reviews[l].state = "pending"
                                       /\ emailed' = emailed \cup {l}
      BY <1>2, <3>1 DEF Notify, HasPendingReview, PipelineInv,
                        ProcessesHaveLeads
    <3>2. ASSUME NEW w \in Workers, WorkerStep(w), ~Notify(w)
          PROVE  emailed' = emailed
      BY <3>2 DEF WorkerStep, BeginWork, CommitWork, LoseLease, HandlerRaises,
                  RecordFailure, storeVars
    <3> QED
      BY <1>2, <3>1, <3>2
         DEF PipelineNext, Ingest, SetExecutionMode, StartCycle, Crash, Time,
             HumanReview, storeVars, pipelineVars
  <2>3. emailed \subseteq Leads
    BY <1>2 DEF PipelineInv, PipelineTypeOK
  <2> QED
    BY <1>2, <2>1, <2>2, <2>3 DEF EmailedHasReview
<1> QED
  BY <1>1, <1>2, PipelineInvariant, PTL DEF PipelineSpec
-----------------------------------------------------------------------------
(* The mode a lead may be processed under is on record: a worker that read *)
(* SIMULATED, or an organization that runs simulated now, has left the     *)
(* trace that LiveLeadsNeedHuman excuses a lead by.                        *)
ModeIsRecorded ==
  /\ \A w \in Workers :
       /\ workers[w].pc = "work" /\ workers[w].mode = "SIMULATED"
       /\ workers[w].status = "NEW"
       => workers[w].job \in ranSimulated
  /\ \A l \in Leads : EffectiveMode = "SIMULATED" /\ leads[l].status # "absent"
                        => l \in ranSimulated

LEMMA ModeIsRecordedStep ==
  ASSUME PipelineInv, ModeIsRecorded, [PipelineNext]_pipelineVars
  PROVE  ModeIsRecorded' /\ ranSimulated \subseteq ranSimulated'
<1>0. workers \in [Workers -> WorkerState] /\ leads \in [Leads -> LeadRow]
  BY DEF PipelineInv, PipelineTypeOK, LeadTypeOK
<1>1. ASSUME UNCHANGED <<orgMode, ranSimulated>>,
             \A l \in Leads : leads[l].status = "absent"
                                => leads'[l].status = "absent",
             \A w \in Workers : workers'[w] = workers[w]
                                  \/ workers'[w].pc # "work"
      PROVE  ModeIsRecorded' /\ ranSimulated \subseteq ranSimulated'
  BY <1>1 DEF ModeIsRecorded, EffectiveMode
<1>2. ASSUME NEW l \in Leads, NEW shadow \in BOOLEAN, Ingest(l, shadow)
      PROVE  ModeIsRecorded' /\ ranSimulated \subseteq ranSimulated'
  <2>1. \A k \in Leads : k # l => leads'[k] = leads[k]
    BY <1>0, <1>2 DEF Ingest, UpsertLead
  <2>2. UNCHANGED <<workers, orgMode>>
        /\ ranSimulated' = IF EffectiveMode = "SIMULATED"
                           THEN ranSimulated \cup {l} ELSE ranSimulated
    BY <1>2 DEF Ingest
  <2> QED
    BY <2>1, <2>2 DEF ModeIsRecorded, EffectiveMode
<1>3. ASSUME NEW mode \in ExecutionMode, SetExecutionMode(mode)
      PROVE  ModeIsRecorded' /\ ranSimulated \subseteq ranSimulated'
  BY <1>3 DEF SetExecutionMode, ModeIsRecorded, EffectiveMode
<1>4. ASSUME NEW w \in Workers, NEW l \in Leads, BeginWork(w, l)
      PROVE  ModeIsRecorded' /\ ranSimulated \subseteq ranSimulated'
  <2> DEFINE v == [pc |-> "work", owner |-> workers[w].owner,
                   batch |-> workers[w].batch \ {l}, job |-> l,
                   status |-> leads[l].status, version |-> leads[l].version,
                   mode |-> ModeRead]
  <2>1. workers' = [workers EXCEPT ![w] = v]
        /\ UNCHANGED <<leads, orgMode, ranSimulated>>
    BY <1>4 DEF BeginWork, storeVars
  <2>2. \A u \in Workers : u # w => workers'[u] = workers[u]
    BY <1>0, <2>1
  <2>3. workers'[w] = v
    BY <1>0, <2>1
  <2>4. v.status = "NEW" /\ v.mode = "SIMULATED" => v.job \in ranSimulated
    BY DEF ModeIsRecorded, ModeRead
  <2> QED
    BY <2>1, <2>2, <2>3, <2>4 DEF ModeIsRecorded, EffectiveMode
<1>5. ASSUME NEW w \in Workers, NEW v, v.pc # "work",
             workers' = [workers EXCEPT ![w] = v]
      PROVE  \A u \in Workers : workers'[u] = workers[u]
                                  \/ workers'[u].pc # "work"
  BY <1>0, <1>5
<1>6. ASSUME ~\E l \in Leads, shadow \in BOOLEAN : Ingest(l, shadow)
      PROVE  \A l \in Leads : leads[l].status = "absent"
                                => leads'[l].status = "absent"
  <2> SUFFICES ASSUME NEW l \in Leads, leads[l].status = "absent"
               PROVE  leads'[l].status = "absent"
    OBVIOUS
  <2>1. OutcomeMove(l)
    BY PipelineMoves DEF Moves
  <2>2. ~QueueAdvances("absent") /\ reviews[l].state = "none"
    BY AbsentHasNoReview DEF QueueAdvances, Transitions
  <2> QED
    BY <1>6, <2>1, <2>2 DEF OutcomeMove
<1>7. ASSUME NEW w \in Workers, WorkerStep(w),
             ~\E l \in Leads : BeginWork(w, l)
      PROVE  /\ UNCHANGED <<orgMode, ranSimulated>>
             /\ \A u \in Workers : workers'[u] = workers[u]
                                     \/ workers'[u].pc # "work"
  <2>1. /\ NextJob(w).pc # "work"
        /\ AfterWork(w, "notify").pc # "work"
        /\ AfterWork(w, "failing").pc # "work"
    BY NextJobType, AfterWorkType DEF PipelineInv
  <2>2. \/ workers' = [workers EXCEPT ![w] = NextJob(w)]
        \/ workers' = [workers EXCEPT ![w] = AfterWork(w, "notify")]
        \/ workers' = [workers EXCEPT ![w] = AfterWork(w, "failing")]
    BY <1>7 DEF WorkerStep, CommitWork, LoseLease, HandlerRaises,
                RecordFailure, Notify
  <2>3. UNCHANGED <<orgMode, ranSimulated>>
    BY <1>7 DEF WorkerStep, CommitWork, LoseLease, HandlerRaises,
                RecordFailure, Notify, storeVars
  <2> QED
    BY <1>5, <2>1, <2>2, <2>3
<1>8. CASE \E l \in Leads, shadow \in BOOLEAN : Ingest(l, shadow)
  BY <1>2, <1>8
<1>9. CASE ~\E l \in Leads, shadow \in BOOLEAN : Ingest(l, shadow)
  <2>1. ASSUME NEW w \in Workers, WorkerStep(w)
        PROVE  ModeIsRecorded' /\ ranSimulated \subseteq ranSimulated'
    BY <1>1, <1>4, <1>6, <1>7, <1>9, <2>1
  <2>2. ASSUME NEW w \in Workers, NEW S, StartCycle(w, S) \/ Crash(w)
        PROVE  ModeIsRecorded' /\ ranSimulated \subseteq ranSimulated'
    <3>1. /\ IdleWorker.pc # "work"
          /\ Worker("next", nextOwner, S).pc # "work"
      BY DEF IdleWorker, Worker
    <3>2. \/ workers' = [workers EXCEPT ![w] = IdleWorker]
          \/ workers' = [workers EXCEPT ![w] = Worker("next", nextOwner, S)]
      BY <2>2 DEF StartCycle, Crash
    <3>3. UNCHANGED <<orgMode, ranSimulated>>
      BY <2>2 DEF StartCycle, Crash, storeVars
    <3> QED
      BY <1>1, <1>5, <1>6, <1>9, <3>1, <3>2, <3>3
  <2>3. ASSUME Time \/ HumanReview \/ UNCHANGED pipelineVars
        PROVE  ModeIsRecorded' /\ ranSimulated \subseteq ranSimulated'
    BY <1>1, <1>6, <1>9, <2>3 DEF Time, HumanReview, pipelineVars, storeVars
  <2> QED
    BY <1>3, <1>9, <2>1, <2>2, <2>3 DEF PipelineNext
<1> QED
  BY <1>8, <1>9

(* Only a decision made under SIMULATED finalizes a lead by itself. *)
LEMMA FinalStatusLive ==
  ASSUME NEW l, NEW d \in DOMAIN DECISION_OUTCOMES, NEW a \in BOOLEAN,
         NEW m, m # "SIMULATED"
  PROVE  FinalStatus(l, d, a, m) \notin FINALIZED
BY DEF FinalStatus, GuardedRoute, DECISION_OUTCOMES, FINALIZED, QUALIFIED,
       REJECTED

(* A lead that was never processed in simulated mode, nor could have been, *)
(* is finalized by a human's answer only, however the mode is switched     *)
(* while workers hold a mode they read before (safety.py).                 *)
THEOREM LiveLeadsNeedHumans == PipelineSpec => []LiveLeadsNeedHuman
<1>1. PipelineInit => LiveLeadsNeedHuman /\ ModeIsRecorded
  BY DEF PipelineInit, LeadInit, NoLead, LiveLeadsNeedHuman, ModeIsRecorded,
         IdleWorker, Worker, FINALIZED, QUALIFIED, REJECTED
<1>2. ASSUME PipelineInv, LiveLeadsNeedHuman, ModeIsRecorded,
             [PipelineNext]_pipelineVars
      PROVE  LiveLeadsNeedHuman' /\ ModeIsRecorded'
  <2>1. ModeIsRecorded' /\ ranSimulated \subseteq ranSimulated'
    BY <1>2, ModeIsRecordedStep
  <2> SUFFICES ASSUME NEW l \in Leads, leads'[l].status \in FINALIZED,
                      l \notin ranSimulated'
               PROVE  reviews'[l].state = "answered"
    BY <2>1 DEF LiveLeadsNeedHuman
  <2>2. ReviewMove(l) /\ OutcomeMove(l)
    BY <1>2, PipelineMoves DEF Moves
  <2>3. l \notin ranSimulated
    BY <2>1
  <2>4. CASE leads'[l] = leads[l]
    <3>1. reviews[l].state = "answered"
      BY <1>2, <2>3, <2>4 DEF LiveLeadsNeedHuman
    <3> QED
      BY <2>2, <2>4, <3>1 DEF ReviewMove, FINALIZED, QUALIFIED, REJECTED
  <2>5. ASSUME NEW w \in Workers, NEW d \in DOMAIN DECISION_OUTCOMES,
               NEW a \in BOOLEAN,
               workers[w].pc = "work", workers[w].job = l,
               workers[w].status = "NEW",
               leads'[l].status = FinalStatus(l, d, a, workers[w].mode)
        PROVE  FALSE
    <3>1. workers[w].mode # "SIMULATED"
      BY <1>2, <2>3, <2>5 DEF ModeIsRecorded
    <3> QED
      BY <2>5, <3>1, FinalStatusLive
  <2> QED
    BY <2>2, <2>4, <2>5 DEF OutcomeMove, FINALIZED, QUALIFIED, REJECTED
<1> QED
  BY <1>1, <1>2, PipelineInvariant, PTL DEF PipelineSpec

=============================================================================
