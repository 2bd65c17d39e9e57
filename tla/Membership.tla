----------------------------- MODULE Membership -----------------------------
(***************************************************************************)
(* One organization: its members, its invitations and the API requests     *)
(* that change them (invitations.py, members.py, provisioning.py and the   *)
(* seat quota of billing/plans.py).                                        *)
(*                                                                         *)
(* A request reads the caller's role once, when it is authenticated, and   *)
(* acts on it later.  A transaction is split where it waits for, or goes   *)
(* on without, the advisory lock of the organization: a step that reads    *)
(* under the lock is followed by one that writes and commits.              *)
(***************************************************************************)
EXTENDS Integers, FiniteSets

CONSTANTS
  People,        \* users, each with one verified email address
  MemberCalls,      \* API requests that may be in flight together
  Invitations,   \* invitation tokens that may ever be created
  SeatPlans,     \* max_members of the plans the organization may be on
  FreeSeats      \* max_members of an organization without a subscription

ASSUME SeatAssumption == SeatPlans \subseteq Nat /\ FreeSeats \in Nat
ASSUME PeopleAssumption == IsFiniteSet(People)

VARIABLES
  role,          \* the role of every active member, "none" for the others
  invitation,    \* the organization_invitations table
  seats,         \* max_members of the plan in force
  memberCall,       \* what every request has read so far
  peakSeats,     \* history: the largest plan there ever was
  returned,      \* history: who came back past the quota
  steppedDown    \* history: an acceptance has lowered an owner's role

membershipVars ==
  <<role, invitation, seats, memberCall, peakSeats, returned, steppedDown>>
membershipHistory == <<peakSeats, returned, steppedDown>>

ROLES == {"owner", "admin", "analyst_reviewer"}
Members == {u \in People : role[u] # "none"}
Owners == {u \in People : role[u] = "owner"}
Pending(i) == invitation[i].status = "pending"

NoInvitation == [status |-> "unused"]
NoCall == [at |-> "idle"]
Authed(u, r) == [at |-> "authed", user |-> u, role |-> r]
\* A roster change that has read the roster under the lock; grant is the
\* role to give, "none" for a removal.
Changing(u, g) == [at |-> "roster", target |-> u, grant |-> g]
\* An acceptance that holds the row lock of its invitation.
Accepting(i, u, a, n) ==
  [at |-> "accepting", item |-> i, user |-> u, grant |-> invitation[i].role,
   active |-> a, max |-> n]
Admitted(q) ==
  [at |-> "admitted", item |-> q.item, user |-> q.user, grant |-> q.grant]
Resending(u, g) == [at |-> "resending", user |-> u, grant |-> g]

IsOrgAdmin(q) == q.at = "authed" /\ q.role \in {"owner", "admin"}

MembershipInit ==
  /\ role = [u \in People |-> "none"]
  /\ invitation = [i \in Invitations |-> NoInvitation]
  /\ seats = FreeSeats
  /\ memberCall = [r \in MemberCalls |-> NoCall]
  /\ peakSeats = FreeSeats
  /\ returned = {}
  /\ steppedDown = FALSE

CallBecomes(r, q) == memberCall' = [memberCall EXCEPT ![r] = q]
Finish(r) == CallBecomes(r, NoCall)

\* The organization, its limits and its first owner, in one transaction.
CreateCustomerOrganization(u) ==
  /\ Members = {} /\ \A i \in Invitations : invitation[i] = NoInvitation
  /\ role' = [role EXCEPT ![u] = "owner"]
  /\ UNCHANGED <<invitation, seats, memberCall, membershipHistory>>

\* The subscription webhook puts the organization on another plan.
ChangePlan(n) ==
  /\ Members # {} /\ n # seats
  /\ seats' = n
  /\ peakSeats' = IF n > peakSeats THEN n ELSE peakSeats
  /\ UNCHANGED <<role, invitation, memberCall, returned, steppedDown>>

ResolveAuthContext(r, u) ==
  /\ memberCall[r] = NoCall
  /\ role[u] # "none"
  /\ CallBecomes(r, Authed(u, role[u]))
  /\ UNCHANGED <<role, invitation, seats, membershipHistory>>

\* A crash, an error or a refusal: the transaction is rolled back.
Rollback(r) ==
  /\ memberCall[r] # NoCall
  /\ Finish(r)
  /\ UNCHANGED <<role, invitation, seats, membershipHistory>>

\* pg_advisory_xact_lock: taken by roster changes and by the quota check of
\* an acceptance, held to the end of the transaction.
LockFree(r) ==
  \A q \in MemberCalls \ {r} : memberCall[q].at \notin {"roster", "admitted"}

RowLocked(i) ==
  \E q \in MemberCalls :
    memberCall[q].at \in {"accepting", "admitted"} /\ memberCall[q].item = i

QuotaAllows_OffByOne(max) == Cardinality(Members) <= max
QuotaAllows(max) == Cardinality(Members) < max

DuplicatePending(u) ==
  \E i \in Invitations : Pending(i) /\ invitation[i].email = u

FreshTokens == {i \in Invitations : invitation[i] = NoInvitation}

\* An unused token gets a pending invitation, if the quota and the partial
\* unique index on (organization, email) allow it.
InsertInvitation(u, r) ==
  /\ QuotaAllows(seats)
  /\ ~DuplicatePending(u)
  /\ FreshTokens # {}
  /\ invitation' = [invitation EXCEPT ![CHOOSE i \in FreshTokens : TRUE] =
       [status |-> "pending", email |-> u, role |-> r, late |-> FALSE]]

CreateInvitation(r, u, g) ==
  /\ IsOrgAdmin(memberCall[r])
  /\ LockFree(r)
  /\ InsertInvitation(u, g)
  /\ Finish(r)
  /\ UNCHANGED <<role, seats, membershipHistory>>

\* Nothing reads the address or the role of a settled invitation again.
Settled(status) == [status |-> status]
SettleInvitation(i, status) ==
  invitation' = [invitation EXCEPT ![i] = Settled(status)]

RevokeInvitation(r, i) ==
  /\ IsOrgAdmin(memberCall[r])
  /\ Pending(i) /\ ~RowLocked(i)
  /\ SettleInvitation(i, "revoked")
  /\ Finish(r)
  /\ UNCHANGED <<role, seats, membershipHistory>>

\* resend_invitation_endpoint: the revocation commits, then a second
\* transaction creates the replacement, which the quota may refuse.
ResendRevoke(r, i) ==
  /\ IsOrgAdmin(memberCall[r])
  /\ Pending(i) /\ ~RowLocked(i)
  /\ SettleInvitation(i, "revoked")
  /\ CallBecomes(r, Resending(invitation[i].email, invitation[i].role))
  /\ UNCHANGED <<role, seats, membershipHistory>>

ResendCreate(r) ==
  /\ memberCall[r].at = "resending"
  /\ LockFree(r)
  /\ InsertInvitation(memberCall[r].user, memberCall[r].grant)
  /\ Finish(r)
  /\ UNCHANGED <<role, seats, membershipHistory>>

Expire(i) ==
  /\ Pending(i) /\ ~invitation[i].late
  /\ invitation' = [invitation EXCEPT ![i].late = TRUE]
  /\ UNCHANGED <<role, seats, memberCall, membershipHistory>>

\* A token is good only for the address it was sent to.
EmailMatches_Any(u, i) == TRUE
EmailMatches(u, i) == invitation[i].email = u

\* accept_invitation: the invitation is locked FOR UPDATE; a late one is
\* marked expired and committed; otherwise the membership and the plan are
\* read, before any advisory lock.
BeginAcceptInvitation(r, u, i) ==
  /\ memberCall[r] = NoCall
  /\ ~RowLocked(i)
  /\ Pending(i) /\ EmailMatches(u, i)
  /\ IF invitation[i].late
       THEN SettleInvitation(i, "expired") /\ UNCHANGED memberCall
       ELSE /\ CallBecomes(r, Accepting(i, u, role[u] # "none", seats))
            /\ UNCHANGED invitation
  /\ UNCHANGED <<role, seats, membershipHistory>>

EnforceMemberQuota(r) ==
  /\ memberCall[r].at = "accepting" /\ ~memberCall[r].active
  /\ LockFree(r)
  /\ QuotaAllows(memberCall[r].max)
  /\ CallBecomes(r, Admitted(memberCall[r]))
  /\ UNCHANGED <<role, invitation, seats, membershipHistory>>

\* The membership takes the role of the invitation, whatever it was before.
\* A caller who was read as an active member skips quota and lock.
CommitAccept(r) ==
  LET q == memberCall[r]
  IN  /\ \/ q.at = "accepting" /\ q.active
         \/ q.at = "admitted"
      /\ role' = [role EXCEPT ![q.user] = q.grant]
      /\ SettleInvitation(q.item, "accepted")
      /\ Finish(r)
      /\ returned' = IF q.at = "accepting" /\ role[q.user] = "none"
                       THEN returned \cup {q.user} ELSE returned
      /\ steppedDown' = (steppedDown \/ (role[q.user] = "owner" /\ q.grant # "owner"))
      /\ UNCHANGED <<seats, peakSeats>>

\* LastOwnerError: an owner is neither demoted nor removed as the last one.
LastOwner(u, g) == role[u] = "owner" /\ g # "owner" /\ Cardinality(Owners) <= 1

\* update_member_role (grant a role) and remove_member (grant "none").
BeginRosterChange(r, u, g) ==
  /\ IsOrgAdmin(memberCall[r])
  /\ u # memberCall[r].user
  /\ LockFree(r)
  /\ role[u] # "none"
  /\ ~LastOwner(u, g)
  /\ CallBecomes(r, Changing(u, g))
  /\ UNCHANGED <<role, invitation, seats, membershipHistory>>

CommitRosterChange(r) ==
  /\ memberCall[r].at = "roster"
  /\ role' = [role EXCEPT ![memberCall[r].target] = memberCall[r].grant]
  /\ returned' = IF memberCall[r].grant = "none"
                   THEN returned \ {memberCall[r].target} ELSE returned
  /\ Finish(r)
  /\ UNCHANGED <<invitation, seats, peakSeats, steppedDown>>

MemberCallStep(r) ==
  \/ \E u \in People :
       \/ ResolveAuthContext(r, u)
       \/ \E g \in ROLES : CreateInvitation(r, u, g)
       \/ \E g \in ROLES \cup {"none"} : BeginRosterChange(r, u, g)
       \/ \E i \in Invitations : BeginAcceptInvitation(r, u, i)
  \/ \E i \in Invitations : RevokeInvitation(r, i) \/ ResendRevoke(r, i)
  \/ ResendCreate(r)
  \/ EnforceMemberQuota(r)
  \/ CommitAccept(r)
  \/ CommitRosterChange(r)
  \/ Rollback(r)

MembershipNext ==
  \/ \E u \in People : CreateCustomerOrganization(u)
  \/ \E n \in SeatPlans : ChangePlan(n)
  \/ \E i \in Invitations : Expire(i)
  \/ \E r \in MemberCalls : MemberCallStep(r)

MembershipSpec == MembershipInit /\ [][MembershipNext]_membershipVars

-----------------------------------------------------------------------------
InvitationRows ==
  [status : {"pending"}, email : People, role : ROLES, late : BOOLEAN]
  \cup {Settled(status) : status \in {"accepted", "revoked", "expired"}}

RequestStates ==
  {NoCall} \cup [at : {"authed"}, user : People, role : ROLES]
  \cup [at : {"roster"}, target : People, grant : ROLES \cup {"none"}]
  \cup [at : {"accepting"}, item : Invitations, user : People,
        grant : ROLES, active : BOOLEAN, max : Nat]
  \cup [at : {"admitted"}, item : Invitations, user : People, grant : ROLES]
  \cup [at : {"resending"}, user : People, grant : ROLES]

\* The tables and the requests hold what the code can put there.
MembershipTypeOK ==
  /\ role \in [People -> ROLES \cup {"none"}]
  /\ invitation \in [Invitations -> InvitationRows \cup {NoInvitation}]
  /\ seats \in Nat /\ peakSeats \in Nat /\ seats <= peakSeats
  /\ memberCall \in [MemberCalls -> RequestStates]
  /\ returned \subseteq People /\ steppedDown \in BOOLEAN

\* members.py, LastOwnerError: an organization that has members always has an
\* active owner.  Two owners who demote or remove each other at the same time
\* are stopped by the lock; only an acceptance, which replaces the role of a
\* member without looking at the owners, can break this.
OwnerRemains == Members # {} => Owners # {}
OwnerLostOnlyByAcceptance == steppedDown \/ OwnerRemains

\* enforce_member_quota: concurrent acceptances never seat more members than
\* the largest plan allowed, apart from members who were removed while their
\* own acceptance, which had read them as active, was still running.
SeatsWithinPlan ==
  Members # {} => Cardinality(Members \ returned) <= (IF peakSeats > 1 THEN peakSeats ELSE 1)

\* The partial unique index and the two steps of a resend: an address never
\* has two tokens that work.
OnePendingPerEmail ==
  \A i, j \in Invitations :
    Pending(i) /\ Pending(j) /\ invitation[i].email = invitation[j].email => i = j

\* An answered invitation stays answered: a token that was accepted, revoked
\* or found late never admits anyone again, even if the revocation runs while
\* the acceptance is under way.
InvitationSettledOnce ==
  [][\A i \in Invitations :
       ~Pending(i) /\ invitation[i] # NoInvitation
         => invitation'[i] = invitation[i]]_membershipVars

\* Only a token that is pending at that moment, sent to that address, makes
\* somebody a member, with its role; all others keep away or get in once, as
\* the founder.
JoinsByInvitation ==
  [][\A u \in People :
       role[u] = "none" /\ role'[u] # "none" /\ Members # {}
         => \E i \in Invitations :
              /\ Pending(i) /\ invitation'[i].status = "accepted"
              /\ invitation[i].email = u /\ invitation[i].role = role'[u]]_membershipVars
=============================================================================
