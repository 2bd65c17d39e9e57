------------------------------ MODULE LeadStore ------------------------------
(***************************************************************************)
(* The leads table and the only writer of leads.status: the transition     *)
(* graph of arie/statemachine/transitions.py and the compare-and-swap of   *)
(* arie/statemachine/apply.py.                                             *)
(***************************************************************************)
EXTENDS Integers

CONSTANTS
  Leads,
  Null           \* SQL NULL, and "no lead" in a process's local state

VARIABLE leads          \* status, version and is_shadow of every lead

LeadStatus ==
  {"NEW", "IDENTITY_RESOLVED", "SCORING", "FETCHING_EVIDENCE",
   "INTEGRATING", "DECISION", "AUTO_ROUTED", "AWAITING_HUMAN",
   "MANUAL_REVIEW", "ROUTED", "SYNCED", "SHADOW_EVALUATED", "FAILED",
   "DEAD_LETTER"}

(* The auto-advancing part of the graph, NEW to DECISION. *)
Transitions ==
  [NEW |-> "SCORING", SCORING |-> "FETCHING_EVIDENCE",
   FETCHING_EVIDENCE |-> "INTEGRATING", INTEGRATING |-> "DECISION"]

DECISION_OUTCOMES ==
  [auto_route |-> "AUTO_ROUTED", escalate_human |-> "AWAITING_HUMAN",
   reject |-> "SYNCED"]

HUMAN_REVIEW_OUTCOMES ==
  [auto_route |-> "AUTO_ROUTED", reject |-> "SYNCED",
   manual_review |-> "MANUAL_REVIEW"]

QUALIFIED == {"AUTO_ROUTED", "ROUTED", "MANUAL_REVIEW"}
REJECTED == {"SYNCED"}
FINALIZED == QUALIFIED \cup REJECTED

(* job_type_for(status) is not None: the queue owns the lead's progress. *)
QueueAdvances(status) == status \in DOMAIN Transitions

NoLead == [status |-> "absent", version |-> 0, shadow |-> FALSE]

LeadRow == [status : LeadStatus \cup {"absent"}, version : Nat,
            shadow : BOOLEAN]

LeadTypeOK == leads \in [Leads -> LeadRow]

LeadInit == leads = [l \in Leads |-> NoLead]

(* The upsert of ingest_lead: a redelivery keeps the status, the version   *)
(* and the mode of the lead that the first delivery created.               *)
UpsertLead(l, shadow) ==
  leads' = [leads EXCEPT ![l] =
              IF @.status = "absent"
              THEN [status |-> "NEW", version |-> 1, shadow |-> shadow]
              ELSE @]

(* The guard of apply_transition: WHERE version = expected_version.  When  *)
(* it fails the caller gets OptimisticConcurrencyError and nothing is      *)
(* written.                                                                *)
VersionMatches(l, expected) == leads[l].version = expected

(* n transitions of one lead inside one transaction, each bumping version; *)
(* the last one leaves the lead in status.                                 *)
ApplyTransitions(l, expected, n, status) ==
  /\ VersionMatches(l, expected)
  /\ leads' = [leads EXCEPT ![l] = [status |-> status,
                                    version |-> @.version + n,
                                    shadow |-> @.shadow]]
=============================================================================
