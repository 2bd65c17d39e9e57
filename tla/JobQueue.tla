------------------------------ MODULE JobQueue ------------------------------
(***************************************************************************)
(* The Postgres job queue (arie/jobs/queue.py, arie/jobs/backoff.py): job  *)
(* rows that are enqueued under an idempotency key, claimed by worker      *)
(* cycles under a lease, and completed, rescheduled or dead-lettered.      *)
(*                                                                         *)
(* A job is named by its idempotency key.  Every method of the queue is    *)
(* one transaction (or the last statement of its caller's), so one action  *)
(* per method.  The two timers of a row, the lease and next_retry_at, are  *)
(* Booleans that the passage of time sets: the code only ever compares     *)
(* each with now(), and never with the other.                              *)
(***************************************************************************)
EXTENDS Integers, FiniteSets

CONSTANTS
  Jobs,          \* idempotency keys
  MaxAttempts,   \* RUNTIME.worker_max_attempts
  BatchSize,     \* the LIMIT of a claim
  MaxRequeues    \* bound: redeliveries that find the job dead-lettered

ASSUME MaxAttemptsAssumption == MaxAttempts \in Nat \ {0}
ASSUME BatchSizeAssumption == BatchSize \in Nat \ {0}
ASSUME MaxRequeuesAssumption == MaxRequeues \in Nat

VARIABLES
  jobs,          \* the jobs table
  nextOwner,     \* worker ids are fresh for every cycle: uuid4 as a counter
  claims,        \* history: claims of a job since it was last (re)queued
  requeues       \* history: how often a dead-lettered job was requeued

queueVars == <<jobs, nextOwner, claims, requeues>>

JobStatus == {"absent", "pending", "processing", "done", "dead_letter"}

NoOwner == 0     \* locked_by IS NULL

JobRow == [status : JobStatus, attempts : Nat, lockedBy : Nat,
           leaseExpired : BOOLEAN, due : BOOLEAN]

NoRow == [status |-> "absent", attempts |-> 0, lockedBy |-> NoOwner,
          leaseExpired |-> FALSE, due |-> FALSE]

(* A row as INSERT leaves it: the column defaults of the jobs table. *)
FreshRow == [status |-> "pending", attempts |-> 0, lockedBy |-> NoOwner,
             leaseExpired |-> FALSE, due |-> TRUE]

QueueTypeOK ==
  /\ jobs \in [Jobs -> JobRow]
  /\ nextOwner \in Nat \ {0}
  /\ claims \in [Jobs -> Nat]
  /\ requeues \in [Jobs -> Nat]

QueueInit ==
  /\ jobs = [j \in Jobs |-> NoRow]
  /\ nextOwner = 1
  /\ claims = [j \in Jobs |-> 0]
  /\ requeues = [j \in Jobs |-> 0]

-----------------------------------------------------------------------------
(* Mutation: the fence forgets to check the worker id. *)
Owns_AnyOwner(j, o) == jobs[j].status = "processing"

(* The fencing predicate of complete and fail. *)
Owns(j, o) == jobs[j].status = "processing" /\ jobs[j].lockedBy = o

(* Mutation: > for >=. *)
OutOfAttempts_OffByOne(n) == n > MaxAttempts

OutOfAttempts(n) == n >= MaxAttempts

(* Mutation: a reclaimed lease is not counted as an attempt. *)
ReclaimedRow_Uncounted(row) ==
  IF row.status = "processing" /\ row.leaseExpired
  THEN [row EXCEPT !.status = "pending", !.lockedBy = NoOwner,
                   !.leaseExpired = FALSE]
  ELSE row

(* Mutation: expired leases are never reclaimed. *)
ReclaimedRow_Never(row) == row

(* The effect of _RECLAIM_EXPIRED_LEASES on one row. *)
ReclaimedRow(row) ==
  IF row.status = "processing" /\ row.leaseExpired
  THEN [status |-> IF OutOfAttempts(row.attempts + 1) THEN "dead_letter"
                                                     ELSE "pending",
        attempts |-> row.attempts + 1, lockedBy |-> NoOwner,
        leaseExpired |-> FALSE, due |-> TRUE]
  ELSE row

(* Mutation: a redelivery restarts the job whatever its status. *)
Enqueue_AnyStatus(j) ==
  /\ requeues[j] <= MaxRequeues
  /\ jobs' = [jobs EXCEPT ![j] = FreshRow]
  /\ claims' = [claims EXCEPT ![j] = 0]
  /\ requeues' = [requeues EXCEPT ![j] = @ + 1]
  /\ UNCHANGED nextOwner

(* The upsert of enqueue_in: a new key inserts a row, a dead-lettered job  *)
(* starts over with a fresh attempt budget, any other row is left alone.   *)
Enqueue(j) ==
  /\ jobs' = [jobs EXCEPT ![j] =
                IF @.status \in {"absent", "dead_letter"} THEN FreshRow ELSE @]
  /\ claims' = [claims EXCEPT ![j] =
                  IF jobs[j].status = "dead_letter" THEN 0 ELSE @]
  /\ IF jobs[j].status = "dead_letter"
     THEN /\ requeues[j] < MaxRequeues
          /\ requeues' = [requeues EXCEPT ![j] = @ + 1]
     ELSE UNCHANGED requeues
  /\ UNCHANGED nextOwner

(* The effect of _CLAIM_UPDATE on one row. *)
ClaimedRow(row, o) ==
  [status |-> "processing", attempts |-> row.attempts, lockedBy |-> o,
   leaseExpired |-> FALSE, due |-> row.due]

(* The jobs a claim may return: due after the reclaim of expired leases. *)
Claimable == {j \in Jobs : /\ ReclaimedRow(jobs[j]).status = "pending"
                           /\ ReclaimedRow(jobs[j]).due}

(* One claim transaction: reclaim every expired lease, then lock the set S *)
(* of due jobs for the fresh worker id nextOwner.  SKIP LOCKED may pass    *)
(* over any due row that another transaction holds, so S is any set of at  *)
(* most BatchSize of them; a claim that finds none leaves no id behind.    *)
Claim(S) ==
  /\ S \subseteq Claimable
  /\ Cardinality(S) <= BatchSize
  /\ jobs' = [j \in Jobs |->
                IF j \in S
                THEN ClaimedRow(ReclaimedRow(jobs[j]), nextOwner)
                ELSE ReclaimedRow(jobs[j])]
  /\ claims' = [j \in Jobs |-> IF j \in S THEN claims[j] + 1 ELSE claims[j]]
  /\ nextOwner' = IF S = {} THEN nextOwner ELSE nextOwner + 1
  /\ UNCHANGED requeues

(* complete: fenced; the row keeps its locked_by. *)
Complete(j, o) ==
  /\ Owns(j, o)
  /\ jobs' = [jobs EXCEPT ![j].status = "done"]
  /\ UNCHANGED <<nextOwner, claims, requeues>>

(* fail: fenced; the attempt that spends the budget dead-letters the job   *)
(* and keeps locked_by, an earlier one reschedules it after a backoff.     *)
FailedRow(row) ==
  IF OutOfAttempts(row.attempts + 1)
  THEN [status |-> "dead_letter", attempts |-> row.attempts + 1,
        lockedBy |-> row.lockedBy, leaseExpired |-> row.leaseExpired,
        due |-> row.due]
  ELSE [status |-> "pending", attempts |-> row.attempts + 1,
        lockedBy |-> NoOwner, leaseExpired |-> FALSE, due |-> FALSE]

Fail(j, o) ==
  /\ Owns(j, o)
  /\ jobs' = [jobs EXCEPT ![j] = FailedRow(@)]
  /\ UNCHANGED <<nextOwner, claims, requeues>>

(* Time passes locked_at + lease_seconds. *)
LeaseExpires(j) ==
  /\ jobs[j].status = "processing"
  /\ ~jobs[j].leaseExpired
  /\ jobs' = [jobs EXCEPT ![j].leaseExpired = TRUE]
  /\ UNCHANGED <<nextOwner, claims, requeues>>

(* Time passes next_retry_at, at most BACKOFF cap seconds after a failure. *)
RetryDue(j) ==
  /\ jobs[j].status = "pending"
  /\ ~jobs[j].due
  /\ jobs' = [jobs EXCEPT ![j].due = TRUE]
  /\ UNCHANGED <<nextOwner, claims, requeues>>

-----------------------------------------------------------------------------
(* The queue on its own: any worker cycle that ever claimed anything may   *)
(* report any job, at any time and any number of times, whatever has       *)
(* happened to the lease meanwhile.                                        *)
QueueNext ==
  \/ \E j \in Jobs : Enqueue(j)
  \/ \E S \in SUBSET Jobs : Claim(S)
  \/ \E j \in Jobs, o \in 1 .. nextOwner - 1 : Complete(j, o)
  \/ \E j \in Jobs, o \in 1 .. nextOwner - 1 : Fail(j, o)
  \/ \E j \in Jobs : LeaseExpires(j)
  \/ \E j \in Jobs : RetryDue(j)

QueueSpec == QueueInit /\ [][QueueNext]_queueVars

-----------------------------------------------------------------------------
(* Every claim of a job is accounted for by exactly one attempt: the ones  *)
(* that ended without completing it are attempt_count, and the one that is *)
(* running or completed it is the difference.  A failure reported after    *)
(* its lease was reclaimed is therefore not counted twice, and a crashed   *)
(* worker's attempt is not lost (queue.py, the comment on fencing).        *)
AttemptAccounting ==
  \A j \in Jobs :
    claims[j] = jobs[j].attempts
                  + (IF jobs[j].status \in {"processing", "done"} THEN 1 ELSE 0)

(* A job is in the dead letter queue exactly when its whole attempt budget *)
(* is spent, never earlier and never with attempts to spare, whether the   *)
(* last attempt ended in fail or in the reclaim of its lease.              *)
DeadLetterIffSpent ==
  \A j \in Jobs :
    /\ jobs[j].attempts <= MaxAttempts
    /\ jobs[j].status = "dead_letter" <=> jobs[j].attempts = MaxAttempts

(* No report of a worker, however late, and no redelivery resurrects a     *)
(* completed job (queue.py, the comment on _COMPLETE).                     *)
DoneIsFinal ==
  [][\A j \in Jobs : jobs[j].status = "done" => jobs'[j] = jobs[j]]_queueVars

(* A worker cycle that lost a job never owns it again: ownership is only   *)
(* ever gained by the fresh id of a claim, so a fencing check that passes  *)
(* passes for the attempt that is running now.                             *)
LeaseNeverRegained ==
  [][\A j \in Jobs, o \in 1 .. nextOwner - 1 :
       ~Owns(j, o) => ~Owns(j, o)']_queueVars
=============================================================================
