---------------------------- MODULE IcpProfiles -----------------------------
(***************************************************************************)
(* The targeting profile of one organization: its versions, the            *)
(* suggestions to revise it, and the feedback they are computed from       *)
(* (icp_profiles.py, intelligence/proposals.py, feedback.py,               *)
(* feedback_learning_service.py, the endpoints of api/main.py).            *)
(*                                                                         *)
(* A version is written under an advisory lock and never changes.  An      *)
(* analysis reads the active version, asks a model, and stores a           *)
(* suggestion later; accepting one checks it against the active version,   *)
(* commits a new version, and only then marks the suggestion accepted.     *)
(* What a draft or a suggestion says is in module Targeting.               *)
(***************************************************************************)
EXTENDS Integers, Sequences, FiniteSets

CONSTANTS
  Requests,       \* API requests that may be in flight together
  Leads,          \* leads that may get feedback
  MaxVersions,    \* bound on the versions explored
  MaxProposals,   \* bound on the suggestions explored
  MinFeedback     \* feedback rows that make an analysis eligible

ASSUME IcpAssumption == {MaxVersions, MaxProposals, MinFeedback} \subseteq Nat
ASSUME RequestsAssumption == IsFiniteSet(Requests)

VARIABLES
  profiles,       \* organization_icp_profiles; the index is the version
  proposals,      \* profile_revision_proposals, in order of creation
  feedback,       \* lead_recommendation_feedback: the sentiment per lead
  request         \* what every request has read so far

icpVars == <<profiles, proposals, feedback, request>>

NoFeedback == "none"
SENTIMENTS == {"positive", "negative"}
SOURCES == {"historical_outcomes", "user_feedback"}

Idle == [at |-> "idle"]
\* An analysis that waits for the model.
Interpreting(v, s) == [at |-> "interpreting", version |-> v, source |-> s]
\* A profile to write (described: it has a draft to revise; from: the
\* suggestion it comes from, 0 for a person's own edit).
Writing(described, p) == [at |-> "writing", described |-> described, from |-> p]
Locked(q, v) ==
  [at |-> "locked", described |-> q.described, from |-> q.from, version |-> v]
Created(p) == [at |-> "created", from |-> p]

Becomes(r, q) == request' = [request EXCEPT ![r] = q]
ActiveVersions == {v \in DOMAIN profiles : profiles[v].active}
\* get_active_profile: 0 when the organization never made one.
Active == IF ActiveVersions = {} THEN 0 ELSE CHOOSE v \in ActiveVersions : TRUE
IsOpen(p) == proposals[p].status = "proposed"

IcpInit ==
  /\ profiles = << >>
  /\ proposals = << >>
  /\ feedback = [l \in Leads |-> NoFeedback]
  /\ request = [r \in Requests |-> Idle]

\* POST /organization/icp or the confirmation of a reviewed draft.
SubmitProfile(r, described) ==
  /\ request[r] = Idle
  /\ Becomes(r, Writing(described, 0))
  /\ UNCHANGED <<profiles, proposals, feedback>>

\* create_profile: the advisory lock of the organization, then the newest
\* version.
OrgLockFree == \A r \in Requests : request[r].at # "locked"

BeginCreateProfile(r) ==
  /\ request[r].at = "writing"
  /\ OrgLockFree
  /\ Becomes(r, Locked(request[r], Len(profiles)))
  /\ UNCHANGED <<profiles, proposals, feedback>>

\* Retire the active versions, insert the next one, commit.  The unique index
\* on (organization, version) refuses a number that was taken meanwhile.
RetireActive == [v \in DOMAIN profiles |-> [profiles[v] EXCEPT !.active = FALSE]]

CommitCreateProfile(r) ==
  LET q == request[r]
  IN  /\ q.at = "locked"
      /\ q.version = Len(profiles) /\ Len(profiles) < MaxVersions
      /\ profiles' = Append(RetireActive,
           [active |-> TRUE, described |-> q.described, from |-> q.from])
      /\ Becomes(r, IF q.from = 0 THEN Idle ELSE Created(q.from))
      /\ UNCHANGED <<proposals, feedback>>

\* POST /leads/{id}/feedback: one verdict per person and lead, the last wins.
SubmitFeedback(l, s) ==
  /\ feedback[l] # s
  /\ feedback' = [feedback EXCEPT ![l] = s]
  /\ UNCHANGED <<profiles, proposals, request>>

Eligible == Cardinality({l \in Leads : feedback[l] # NoFeedback}) >= MinFeedback

OpenFeedbackProposals(v) ==
  {p \in DOMAIN proposals :
     IsOpen(p) /\ proposals[p].source = "user_feedback" /\ proposals[p].version = v}

FindOpenFeedbackProposal(v) == OpenFeedbackProposals(v) # {}

\* stored_draft: a profile that was written directly cannot be revised.
StoredDraft(v) == profiles[v].described

\* analyze_historical_outcomes, analyze_and_maybe_propose: up to the call of
\* the model.  The suggestions are read without a lock.
BeginAnalysis(r, s) ==
  /\ request[r] = Idle
  /\ Active # 0 /\ StoredDraft(Active)
  /\ s = "user_feedback" => Eligible /\ ~FindOpenFeedbackProposal(Active)
  /\ Becomes(r, Interpreting(Active, s))
  /\ UNCHANGED <<profiles, proposals, feedback>>

\* After the call: a suggestion for the version that was read, however old.
CreateProposal(r) ==
  LET q == request[r]
  IN  /\ q.at = "interpreting" /\ Len(proposals) < MaxProposals
      /\ proposals' = Append(proposals,
           [version |-> q.version, source |-> q.source, status |-> "proposed"])
      /\ Becomes(r, Idle)
      /\ UNCHANGED <<profiles, feedback>>

\* The UPDATE ... WHERE status = 'proposed' of both answers.
Resolvable(p) == IsOpen(p)
Resolve(p, status) ==
  proposals' = IF Resolvable(p) THEN [proposals EXCEPT ![p].status = status]
                                ELSE proposals

RejectProposal(r, p) ==
  /\ request[r] = Idle
  /\ Resolve(p, "rejected")
  /\ UNCHANGED <<profiles, feedback, request>>

VersionMatches_Ignored(p) == Active # 0
VersionMatches(p) == Active = proposals[p].version

Accepted_First(p) == Resolve(p, "accepted")
Accepted(p) == UNCHANGED proposals

\* accept_proposal: the checks, before any lock.
BeginAccept(r, p) ==
  /\ request[r] = Idle
  /\ IsOpen(p) /\ VersionMatches(p) /\ StoredDraft(Active)
  /\ Becomes(r, Writing(TRUE, p))
  /\ Accepted(p)
  /\ UNCHANGED <<profiles, feedback>>

\* The version is committed by now; the suggestion follows, if still open.
ResolveAccepted(r) ==
  /\ request[r].at = "created"
  /\ Resolve(request[r].from, "accepted")
  /\ Becomes(r, Idle)
  /\ UNCHANGED <<profiles, feedback>>

\* An error (a draft that no longer validates, a model that fails), or a
\* crash: what was not committed is lost, what was stays.
Leave(r) ==
  /\ request[r] # Idle
  /\ Becomes(r, Idle)
  /\ UNCHANGED <<profiles, proposals, feedback>>

IcpNext ==
  \/ \E r \in Requests :
       \/ \E d \in BOOLEAN : SubmitProfile(r, d)
       \/ BeginCreateProfile(r) \/ CommitCreateProfile(r)
       \/ \E s \in SOURCES : BeginAnalysis(r, s)
       \/ CreateProposal(r)
       \/ \E p \in DOMAIN proposals : RejectProposal(r, p) \/ BeginAccept(r, p)
       \/ ResolveAccepted(r)
       \/ Leave(r)
  \/ \E l \in Leads, s \in SENTIMENTS : SubmitFeedback(l, s)

IcpSpec == IcpInit /\ [][IcpNext]_icpVars

-----------------------------------------------------------------------------
\* Exactly one version is active once there is one, the newest: concurrent
\* edits are serialised by the advisory lock, and every decision finds one
\* configuration to score against.
NewestVersionRules ==
  \A v \in DOMAIN profiles : profiles[v].active <=> v = Len(profiles)

\* The lock of the organization: whoever holds it writes the number after the
\* newest one, and the unique index never has to refuse it.
LockHolderNumbersNext ==
  \A r \in Requests : request[r].at = "locked" => request[r].version = Len(profiles)

\* icp_profiles.py, "permanent audit history": a version keeps its content
\* and, once retired, is never active again.
VersionsArePermanent ==
  [][\A v \in DOMAIN profiles :
       /\ v \in DOMAIN profiles'
       /\ profiles'[v].described = profiles[v].described
       /\ profiles'[v].from = profiles[v].from
       /\ profiles'[v].active => profiles[v].active]_icpVars

VersionsFrom(p) == {v \in DOMAIN profiles : profiles[v].from = p}

\* accept_proposal: a suggestion that counts as accepted was applied; the
\* version is committed before the suggestion, so a crash in between never
\* leaves an accepted suggestion without its version.
AcceptedIsApplied ==
  \A p \in DOMAIN proposals :
    proposals[p].status = "accepted" => VersionsFrom(p) # {}

\* A crash after the version, before the suggestion, leaves a suggestion that
\* is applied and open.  Only the check against the active version keeps it
\* from being accepted again: whoever applies it a second time got past the
\* checks before the first version was committed.
AppliedIsNotAcceptedAgain ==
  [][\A r \in Requests, p \in DOMAIN proposals :
       request[r] = Idle /\ request'[r] = Writing(TRUE, p)
         => VersionsFrom(p) = {}]_icpVars

\* A suggestion is only ever applied to a profile as old as the one it was
\* computed from, and that one could be revised.
SuggestionsLookBack ==
  \A v \in DOMAIN profiles :
    profiles[v].from # 0 =>
      /\ proposals[profiles[v].from].version < v
      /\ profiles[proposals[profiles[v].from].version].described

\* An answer is final: of two admins who answer at once one is told that the
\* suggestion has been dealt with.
AnswersAreFinal ==
  [][\A p \in DOMAIN proposals :
       ~IsOpen(p) => proposals'[p] = proposals[p]]_icpVars

\* Analyses that run together may each store a suggestion from the feedback,
\* but those that start later find it: there are never more than requests.
OpenFeedbackBounded ==
  \A v \in DOMAIN profiles :
    Cardinality(OpenFeedbackProposals(v)) <= Cardinality(Requests)

\* proposals.py 508-511: no two versions come from the same suggestion.  The
\* code does not keep this: see the README.
OneVersionPerSuggestion ==
  \A p \in DOMAIN proposals : Cardinality(VersionsFrom(p)) <= 1

\* feedback_learning_service.py 147-150: one open suggestion from feedback per
\* profile version at a time.  The code does not keep this: see the README.
OneOpenFeedbackProposal ==
  \A v \in DOMAIN profiles : Cardinality(OpenFeedbackProposals(v)) <= 1
=============================================================================
