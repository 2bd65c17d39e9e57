------------------------------- MODULE Review -------------------------------
(***************************************************************************)
(* Human review (arie/approval/workflow.py and the /reviews endpoints of   *)
(* arie/api/main.py): the human_reviews table, and the reviewers' clients, *)
(* which send a decision on a review, and send it again when the           *)
(* response is lost.                                                       *)
(*                                                                         *)
(* A lead has at most one review, because only a NEW lead is ever          *)
(* escalated; so a review is named by its lead.  The reviewer and the      *)
(* notes of a submission, which are compared for equality only, are one    *)
(* value: the client that sends it.                                        *)
(***************************************************************************)
EXTENDS LeadStore

CONSTANT Reviewers   \* clients; each submits as its own reviewer and notes

VARIABLES
  reviews,       \* the human_reviews table
  clients,       \* what each client is doing
  acks           \* history: submissions a client was told had been applied

reviewVars == <<reviews, clients, acks>>

ReviewAction == {"approve", "reject", "edit"}

FINAL_DECISION ==
  [approve |-> "auto_route", reject |-> "reject", edit |-> "manual_review"]

(* The status a lead moves to when its reviewer takes an action. *)
ReviewedStatus(action) == HUMAN_REVIEW_OUTCOMES[FINAL_DECISION[action]]

NoReview == [state |-> "none", action |-> "none", reviewer |-> Null]

PendingRow == [state |-> "pending", action |-> "none", reviewer |-> Null]

ReviewRow == [state : {"none", "pending", "answered"},
              action : ReviewAction \cup {"none"},
              reviewer : Reviewers \cup {Null}]

IdleClient == [pc |-> "idle", lead |-> Null, version |-> 0,
               action |-> "none"]

ClientState == [pc : {"idle", "sent"}, lead : Leads \cup {Null},
                version : Nat, action : ReviewAction \cup {"none"}]

Ack == [lead : Leads, reviewer : Reviewers, action : ReviewAction]

ReviewTypeOK ==
  /\ reviews \in [Leads -> ReviewRow]
  /\ clients \in [Reviewers -> ClientState]
  /\ acks \subseteq Ack

ReviewInit ==
  /\ reviews = [l \in Leads |-> NoReview]
  /\ clients = [c \in Reviewers |-> IdleClient]
  /\ acks = {}

-----------------------------------------------------------------------------
(* request_review, after its transition to AWAITING_HUMAN: open the        *)
(* pending row, or keep the one that is already pending.                   *)
OpenReview(l) ==
  reviews' = [reviews EXCEPT ![l] =
                IF @.state = "pending" THEN @ ELSE PendingRow]

(* The client posts a decision, with the version of the lead that          *)
(* GET /reviews/{id} reports now or the one it remembers from ingesting    *)
(* it.  The request is handled later, when that version may be stale.      *)
SendDecision(c, l, version, action) ==
  /\ clients[c].pc = "idle"
  /\ reviews[l].state # "none"
  /\ version \in {1, leads[l].version}
  /\ clients' = [clients EXCEPT ![c] = [pc |-> "sent", lead |-> l,
                                        version |-> version,
                                        action |-> action]]
  /\ UNCHANGED <<leads, reviews, acks>>

(* The response reaches the client, or it is lost and the client will send *)
(* the same request again.                                                 *)
Respond(c, applied) ==
  \/ /\ clients' = [clients EXCEPT ![c] = IdleClient]
     /\ acks' = IF applied
                THEN acks \cup {[lead |-> clients[c].lead, reviewer |-> c,
                                 action |-> clients[c].action]}
                ELSE acks
  \/ UNCHANGED <<clients, acks>>

(* The compare-and-swap of _COMPLETE_REVIEW. *)
WinsCompletion(l) == reviews[l].state = "pending"

(* Mutation: the loser compares the decision only, not who made it. *)
SameSubmission_ActionOnly(l, c) == reviews[l].action = clients[c].action

(* _resolve_lost_race: is the recorded answer the one being submitted? *)
SameSubmission(l, c) == /\ reviews[l].action = clients[c].action
                        /\ reviews[l].reviewer = c

(* submit_decision wins the completion of the review, and the lead has the *)
(* version it was given: both writes commit together.                      *)
DecisionApplied(c) ==
  LET l == clients[c].lead IN
  /\ clients[c].pc = "sent"
  /\ WinsCompletion(l)
  /\ reviews' = [reviews EXCEPT ![l] = [state |-> "answered",
                                        action |-> clients[c].action,
                                        reviewer |-> c]]
  /\ ApplyTransitions(l, clients[c].version, 1,
                      ReviewedStatus(clients[c].action))
  /\ Respond(c, TRUE)

(* Mutation: the stale version is reported, but the review's completion is *)
(* committed.                                                              *)
DecisionStale_Committed(c) ==
  LET l == clients[c].lead IN
  /\ clients[c].pc = "sent"
  /\ WinsCompletion(l)
  /\ ~VersionMatches(l, clients[c].version)
  /\ reviews' = [reviews EXCEPT ![l] = [state |-> "answered",
                                        action |-> clients[c].action,
                                        reviewer |-> c]]
  /\ Respond(c, FALSE)
  /\ UNCHANGED leads

(* submit_decision wins the completion but the lead moved: the transaction *)
(* rolls back, the review is pending again, and the client gets 409.       *)
DecisionStale(c) ==
  /\ clients[c].pc = "sent"
  /\ WinsCompletion(clients[c].lead)
  /\ ~VersionMatches(clients[c].lead, clients[c].version)
  /\ Respond(c, FALSE)
  /\ UNCHANGED <<leads, reviews>>

(* submit_decision loses the completion: a repeat of the winning           *)
(* submission is acknowledged as already applied, any other gets 409.      *)
DecisionLostRace(c) ==
  /\ clients[c].pc = "sent"
  /\ ~WinsCompletion(clients[c].lead)
  /\ Respond(c, SameSubmission(clients[c].lead, c))
  /\ UNCHANGED <<leads, reviews>>

ReviewStep ==
  \/ \E c \in Reviewers, l \in Leads, action \in ReviewAction :
       \E version \in {1, leads[l].version} :
         SendDecision(c, l, version, action)
  \/ \E c \in Reviewers : DecisionApplied(c)
  \/ \E c \in Reviewers : DecisionStale(c)
  \/ \E c \in Reviewers : DecisionLostRace(c)
=============================================================================
