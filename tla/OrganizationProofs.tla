------------------------ MODULE OrganizationProofs -------------------------
(***************************************************************************)
(* What holds of an organization for any number of people, invitations,    *)
(* credentials, profile versions, requests, references, files, runs and    *)
(* databases: the inductive invariants of the roster, of the provider      *)
(* credential, of the targeting profile, of the intake and of the          *)
(* migrations, and the invariants of all five parts together as theorems   *)
(* of OrganizationSpec.                                                    *)
(***************************************************************************)
EXTENDS Organization, FiniteSetTheorems, WellFoundedInduction, TLAPS

-----------------------------------------------------------------------------
(* The roster.                                                             *)

HoldsLock(r) == memberCall[r].at \in {"roster", "admitted"}
HoldsRow(r) == memberCall[r].at \in {"accepting", "admitted"}

(* The advisory lock of the organization has one holder. *)
LockIsExclusive ==
  \A r, q \in MemberCalls : HoldsLock(r) /\ HoldsLock(q) => r = q

(* So has the row lock of an invitation. *)
RowLockIsExclusive ==
  \A r, q \in MemberCalls :
    HoldsRow(r) /\ HoldsRow(q) /\ memberCall[r].item = memberCall[q].item => r = q

(* The row lock keeps an invitation pending, and addressed to whoever      *)
(* accepts it, up to the commit.                                           *)
HeldTokenIsGood ==
  \A r \in MemberCalls : HoldsRow(r) =>
    /\ Pending(memberCall[r].item)
    /\ invitation[memberCall[r].item].email = memberCall[r].user
    /\ invitation[memberCall[r].item].role = memberCall[r].grant

(* The plan that an acceptance has read was in force once. *)
PlanReadWasInForce ==
  \A r \in MemberCalls : memberCall[r].at = "accepting" => memberCall[r].max <= peakSeats

Seated == Members \ returned
SeatLimit == IF peakSeats > 1 THEN peakSeats ELSE 1

(* The seat that the quota granted stays free while the lock is held. *)
SeatIsReserved ==
  \A r \in MemberCalls : memberCall[r].at = "admitted" => Cardinality(Seated) < peakSeats

(* The target of a roster change that holds the lock stays a member, and   *)
(* another owner remains unless an acceptance has lowered one.             *)
TargetStaysMember ==
  \A r \in MemberCalls : memberCall[r].at = "roster" => role[memberCall[r].target] # "none"

AnotherOwnerRemains ==
  \A r \in MemberCalls : memberCall[r].at = "roster" =>
    \/ steppedDown
    \/ memberCall[r].grant = "owner"
    \/ \E o \in People : o # memberCall[r].target /\ role[o] = "owner"

(* Nobody invites and nobody asks before the organization has a founder.   *)
Founded == Members # {} \/ steppedDown

NobodyBeforeFounder ==
  \/ Founded
  \/ /\ \A i \in Invitations : invitation[i] = NoInvitation
     /\ \A r \in MemberCalls : memberCall[r] = NoCall

LocksHold == LockIsExclusive /\ RowLockIsExclusive /\ HeldTokenIsGood
PlansHold ==
  PlanReadWasInForce /\ SeatIsReserved /\ Cardinality(Seated) <= SeatLimit
OwnersHold ==
  /\ TargetStaysMember /\ AnotherOwnerRemains /\ OwnerLostOnlyByAcceptance
  /\ NobodyBeforeFounder

(* The inductive invariant. *)
RosterInv ==
  MembershipTypeOK /\ LocksHold /\ PlansHold /\ OwnersHold /\ OnePendingPerEmail

-----------------------------------------------------------------------------
LEMMA CallFields ==
  ASSUME NEW q \in RequestStates
  PROVE  /\ q.at = "authed" => q.user \in People /\ q.role \in ROLES
         /\ q.at = "roster" => q.target \in People /\ q.grant \in ROLES \cup {"none"}
         /\ q.at \in {"accepting", "admitted"}
              => q.item \in Invitations /\ q.user \in People /\ q.grant \in ROLES
         /\ q.at = "accepting" => q.active \in BOOLEAN /\ q.max \in Nat
         /\ q.at = "resending" => q.user \in People /\ q.grant \in ROLES
BY DEF RequestStates, NoCall

LEMMA CallKinds ==
  /\ NoCall \in RequestStates
  /\ \A u \in People, r \in ROLES :
       Authed(u, r) \in RequestStates /\ Resending(u, r) \in RequestStates
  /\ \A u \in People, g \in ROLES \cup {"none"} : Changing(u, g) \in RequestStates
BY DEF RequestStates, Authed, Resending, Changing

LEMMA InvitationFields ==
  ASSUME NEW x \in InvitationRows \cup {NoInvitation}, x.status = "pending"
  PROVE  /\ x.email \in People /\ x.role \in ROLES /\ x.late \in BOOLEAN
         /\ x \in [status : {"pending"}, email : People, role : ROLES, late : BOOLEAN]
BY DEF InvitationRows, NoInvitation, Settled

LEMMA SettledRows ==
  ASSUME NEW s \in {"accepted", "revoked", "expired"}
  PROVE  Settled(s) \in InvitationRows /\ Settled(s).status = s
BY DEF InvitationRows, Settled

(* There are finitely many members. *)
LEMMA FiniteMembers ==
  /\ IsFiniteSet(Members) /\ IsFiniteSet(Seated)
  /\ Cardinality(Members) \in Nat /\ Cardinality(Seated) \in Nat
  /\ Cardinality(Seated) <= Cardinality(Members)
<1>1. IsFiniteSet(Members)
  BY PeopleAssumption, FS_Subset DEF Members
<1>2. Seated \subseteq Members
  BY DEF Seated
<1> QED
  BY <1>1, <1>2, FS_Subset, FS_CardinalityType

LEMMA RosterInit == MembershipInit => RosterInv
<1> SUFFICES ASSUME MembershipInit PROVE RosterInv
  OBVIOUS
<1>1. MembershipTypeOK
  <2>1. steppedDown \in BOOLEAN
    BY DEF MembershipInit
  <2> QED
    BY <2>1, SeatAssumption, CallKinds DEF MembershipInit, MembershipTypeOK
<1>2. Members = {} /\ Seated = {}
  BY DEF MembershipInit, Members, Seated
<1>3. Cardinality(Seated) <= SeatLimit
  BY <1>1, <1>2, FS_EmptySet DEF SeatLimit, MembershipTypeOK
<1>4. \A r \in MemberCalls : memberCall[r].at = "idle"
  BY DEF MembershipInit, NoCall
<1>5. LocksHold /\ PlanReadWasInForce /\ SeatIsReserved
  BY <1>4 DEF LocksHold, LockIsExclusive, RowLockIsExclusive, HeldTokenIsGood,
              HoldsLock, HoldsRow, PlanReadWasInForce, SeatIsReserved
<1>6. OwnersHold
  BY <1>2, <1>4 DEF OwnersHold, TargetStaysMember, AnotherOwnerRemains,
       OwnerLostOnlyByAcceptance, OwnerRemains, NobodyBeforeFounder, Founded, MembershipInit
<1>7. OnePendingPerEmail
  BY DEF MembershipInit, OnePendingPerEmail, Pending, NoInvitation
<1> QED
  BY <1>1, <1>3, <1>5, <1>6, <1>7 DEF RosterInv, PlansHold

-----------------------------------------------------------------------------
(* A step after which every request is as before or holds nothing, which   *)
(* leaves the roster alone and no held token worse.                        *)
LEMMA QuietStep ==
  ASSUME RosterInv, MembershipTypeOK', OnePendingPerEmail', NobodyBeforeFounder',
         UNCHANGED <<role, returned, steppedDown>>, peakSeats <= peakSeats',
         \A r \in MemberCalls :
           \/ memberCall'[r].at \in {"idle", "authed", "resending"}
           \/ /\ memberCall'[r] = memberCall[r]
              /\ HoldsRow(r) =>
                   LET i == memberCall[r].item
                   IN  Pending(i)' /\ invitation'[i].email = invitation[i].email
                                   /\ invitation'[i].role = invitation[i].role
  PROVE  RosterInv'
<1>0. MembershipTypeOK
  BY DEF RosterInv
<1>1. Members' = Members /\ Seated' = Seated /\ Owners' = Owners
  BY DEF Members, Seated, Owners
<1>2. LocksHold'
  BY DEF RosterInv, LocksHold, LockIsExclusive, RowLockIsExclusive,
         HeldTokenIsGood, HoldsLock, HoldsRow
<1>3. PlansHold'
  <2>1. peakSeats \in Nat /\ peakSeats' \in Nat /\ Cardinality(Seated) \in Nat
    BY <1>0, FiniteMembers DEF MembershipTypeOK
  <2>2. Cardinality(Seated)' <= SeatLimit'
    BY <1>1, <2>1 DEF RosterInv, PlansHold, SeatLimit
  <2>3. SeatIsReserved'
    BY <1>1, <2>1 DEF RosterInv, PlansHold, SeatIsReserved
  <2>4. PlanReadWasInForce'
    <3>1. \A r \in MemberCalls : memberCall[r].at = "accepting" => memberCall[r].max \in Nat
      BY <1>0, CallFields DEF MembershipTypeOK
    <3> QED
      BY <2>1, <3>1 DEF RosterInv, PlansHold, PlanReadWasInForce
  <2> QED
    BY <2>2, <2>3, <2>4 DEF PlansHold
<1>4. OwnersHold'
  BY <1>1 DEF RosterInv, OwnersHold, TargetStaysMember, AnotherOwnerRemains,
              OwnerLostOnlyByAcceptance, OwnerRemains
<1> QED
  BY <1>2, <1>3, <1>4 DEF RosterInv

(* INSERT: a token nobody uses becomes pending, for an address that has    *)
(* none.                                                                   *)
LEMMA InsertKeeps ==
  ASSUME RosterInv, NEW u \in People, NEW g \in ROLES, InsertInvitation(u, g)
  PROVE  /\ invitation' \in [Invitations -> InvitationRows \cup {NoInvitation}]
         /\ OnePendingPerEmail'
         /\ \A i \in Invitations : Pending(i) => invitation'[i] = invitation[i]
<1> DEFINE i == CHOOSE x \in FreshTokens : TRUE
           row == [status |-> "pending", email |-> u, role |-> g, late |-> FALSE]
<1>1. i \in Invitations /\ invitation[i] = NoInvitation
  BY DEF InsertInvitation, FreshTokens
<1>2. invitation' = [invitation EXCEPT ![i] = row]
  BY DEF InsertInvitation
<1>3. row \in InvitationRows
  BY DEF InvitationRows
<1>4. ~Pending(i)
  BY <1>1 DEF Pending, NoInvitation
<1>5. row.email = u
  OBVIOUS
<1> HIDE DEF i, row
<1>6. invitation \in [Invitations -> InvitationRows \cup {NoInvitation}]
  BY DEF RosterInv, MembershipTypeOK
<1>7. \A j \in Invitations : j # i => invitation'[j] = invitation[j]
  BY <1>1, <1>2, <1>6
<1>8. invitation'[i].email = u
  BY <1>1, <1>2, <1>5, <1>6
<1>9. \A j \in Invitations : Pending(j) => invitation[j].email # u
  BY DEF InsertInvitation, DuplicatePending
<1>10. OnePendingPerEmail'
  BY <1>7, <1>8, <1>9 DEF OnePendingPerEmail, Pending, RosterInv
<1> QED
  BY <1>1, <1>2, <1>3, <1>4, <1>6, <1>7, <1>10

(* What an invitation that gets settled, or late, leaves as it was. *)
LEMMA SettleKeeps ==
  ASSUME RosterInv, NEW i \in Invitations, NEW x \in InvitationRows, Pending(i),
         x.status = "pending" => x.email = invitation[i].email,
         invitation' = [invitation EXCEPT ![i] = x]
  PROVE  /\ invitation' \in [Invitations -> InvitationRows \cup {NoInvitation}]
         /\ OnePendingPerEmail'
         /\ \A j \in Invitations : j # i => invitation'[j] = invitation[j]
<1>1. invitation \in [Invitations -> InvitationRows \cup {NoInvitation}]
  BY DEF RosterInv, MembershipTypeOK
<1>2. \A j \in Invitations : invitation'[j] = IF j = i THEN x ELSE invitation[j]
  BY <1>1
<1>3. OnePendingPerEmail'
  BY <1>2 DEF OnePendingPerEmail, Pending, RosterInv
<1> QED
  BY <1>1, <1>2, <1>3

(* The tokens whose rows are locked are not written. *)
HeldTokensStay ==
  \A r \in MemberCalls : HoldsRow(r) =>
    invitation'[memberCall[r].item] = invitation[memberCall[r].item]

(* A request comes to hold nothing; whatever it does to the invitations,   *)
(* tokens that others hold stay as they are.                               *)
LEMMA RequestQuiet ==
  ASSUME RosterInv, NEW r \in MemberCalls, NEW q \in RequestStates,
         q.at \in {"idle", "authed", "resending"}, CallBecomes(r, q),
         UNCHANGED <<role, seats, membershipHistory>>,
         invitation' \in [Invitations -> InvitationRows \cup {NoInvitation}],
         OnePendingPerEmail',
         HeldTokensStay,
         Founded \/ (q = NoCall /\ UNCHANGED invitation)
  PROVE  RosterInv'
<1>0. MembershipTypeOK
  BY DEF RosterInv
<1>1. \A s \in MemberCalls : memberCall'[s] = IF s = r THEN q ELSE memberCall[s]
  BY <1>0 DEF MembershipTypeOK, CallBecomes
<1>2. MembershipTypeOK'
  BY <1>0 DEF MembershipTypeOK, CallBecomes, membershipHistory
<1>3. NobodyBeforeFounder'
  BY <1>1 DEF NobodyBeforeFounder, Founded, Members, RosterInv, OwnersHold, membershipHistory
<1>4. \A s \in MemberCalls :
        \/ memberCall'[s].at \in {"idle", "authed", "resending"}
        \/ /\ memberCall'[s] = memberCall[s]
           /\ HoldsRow(s) =>
                LET i == memberCall[s].item
                IN  Pending(i)' /\ invitation'[i].email = invitation[i].email
                                /\ invitation'[i].role = invitation[i].role
  BY <1>1 DEF RosterInv, LocksHold, HeldTokenIsGood, Pending, HeldTokensStay
<1>5. peakSeats <= peakSeats' /\ UNCHANGED <<role, returned, steppedDown>>
  BY <1>0 DEF membershipHistory, MembershipTypeOK
<1> QED
  BY <1>2, <1>3, <1>4, <1>5, QuietStep

(* An invitation no request has locked is settled. *)
LEMMA SettleFree ==
  ASSUME RosterInv, NEW i \in Invitations, NEW x \in InvitationRows, Pending(i),
         ~RowLocked(i), x.status # "pending",
         invitation' = [invitation EXCEPT ![i] = x]
  PROVE  /\ invitation' \in [Invitations -> InvitationRows \cup {NoInvitation}]
         /\ OnePendingPerEmail'
         /\ HeldTokensStay
<1>1. \A s \in MemberCalls : HoldsRow(s) =>
        memberCall[s].item # i /\ memberCall[s].item \in Invitations
  BY CallFields DEF HoldsRow, RowLocked, RosterInv, MembershipTypeOK
<1> QED
  BY <1>1, SettleKeeps DEF HeldTokensStay

(* Whoever asks, or finds an invitation, finds an organization. *)
LEMMA OrganizationExists ==
  ASSUME RosterInv,
         \/ \E r \in MemberCalls : memberCall[r].at # "idle"
         \/ \E i \in Invitations : Pending(i)
  PROVE  Founded
BY DEF RosterInv, OwnersHold, NobodyBeforeFounder, Pending, NoCall, NoInvitation

LEMMA QuietRequestInv ==
  ASSUME RosterInv, NEW r \in MemberCalls,
         \/ \E u \in People : ResolveAuthContext(r, u)
         \/ Rollback(r)
         \/ \E u \in People, g \in ROLES : CreateInvitation(r, u, g)
         \/ ResendCreate(r)
         \/ \E i \in Invitations : RevokeInvitation(r, i) \/ ResendRevoke(r, i)
  PROVE  RosterInv'
<1>0. MembershipTypeOK /\ OnePendingPerEmail
      /\ invitation \in [Invitations -> InvitationRows \cup {NoInvitation}]
      /\ memberCall[r] \in RequestStates /\ NoCall \in RequestStates
      /\ NoCall.at = "idle"
  BY CallKinds DEF RosterInv, MembershipTypeOK, NoCall
<1>1. ASSUME NEW u \in People, ResolveAuthContext(r, u) PROVE RosterInv'
  <2>1. Authed(u, role[u]) \in RequestStates /\ Authed(u, role[u]).at = "authed"
    BY <1>0, <1>1, CallKinds DEF ResolveAuthContext, MembershipTypeOK, Authed
  <2>2. OnePendingPerEmail'
    BY <1>0, <1>1 DEF ResolveAuthContext, OnePendingPerEmail, Pending
  <2>3. Founded
    BY <1>1 DEF ResolveAuthContext, Members, Founded
  <2> QED
    BY <1>0, <1>1, <2>1, <2>2, <2>3, RequestQuiet DEF ResolveAuthContext, HeldTokensStay
<1>2. CASE Rollback(r)
  <2>1. OnePendingPerEmail'
    BY <1>0, <1>2 DEF Rollback, OnePendingPerEmail, Pending
  <2> QED
    BY <1>0, <1>2, <2>1, RequestQuiet DEF Rollback, Finish, HeldTokensStay
<1>3. ASSUME NEW u \in People, NEW g \in ROLES, InsertInvitation(u, g),
             CallBecomes(r, NoCall), memberCall[r].at # "idle",
             UNCHANGED <<role, seats, membershipHistory>>
      PROVE  RosterInv'
  <2>1. \A s \in MemberCalls : HoldsRow(s) =>
          memberCall[s].item \in Invitations /\ Pending(memberCall[s].item)
    BY <1>0, CallFields
       DEF HoldsRow, MembershipTypeOK, RosterInv, LocksHold, HeldTokenIsGood
  <2>2. /\ invitation' \in [Invitations -> InvitationRows \cup {NoInvitation}]
        /\ OnePendingPerEmail'
        /\ HeldTokensStay
    BY <1>3, <2>1, InsertKeeps DEF HeldTokensStay
  <2>3. Founded
    BY <1>3, OrganizationExists
  <2> QED
    BY <1>0, <1>3, <2>2, <2>3, RequestQuiet
<1>4. ASSUME NEW u \in People, NEW g \in ROLES, CreateInvitation(r, u, g)
      PROVE  RosterInv'
  BY <1>3, <1>4 DEF CreateInvitation, Finish, IsOrgAdmin
<1>5. CASE ResendCreate(r)
  BY <1>0, <1>3, <1>5, CallFields DEF ResendCreate, Finish
<1>6. ASSUME NEW i \in Invitations, RevokeInvitation(r, i) \/ ResendRevoke(r, i)
      PROVE  RosterInv'
  <2>1. Pending(i) /\ ~RowLocked(i) /\ SettleInvitation(i, "revoked")
    BY <1>6 DEF RevokeInvitation, ResendRevoke
  <2>2. /\ invitation' \in [Invitations -> InvitationRows \cup {NoInvitation}]
        /\ OnePendingPerEmail'
        /\ HeldTokensStay
    BY <2>1, SettleFree, SettledRows DEF SettleInvitation
  <2>3. PICK q \in RequestStates :
          q.at \in {"idle", "resending"} /\ CallBecomes(r, q)
    <3>1. CASE RevokeInvitation(r, i)
      BY <1>0, <3>1 DEF RevokeInvitation, Finish
    <3>2. CASE ResendRevoke(r, i)
      <4>1. invitation[i].email \in People /\ invitation[i].role \in ROLES
        BY <1>0, <2>1, InvitationFields DEF Pending
      <4>2. Resending(invitation[i].email, invitation[i].role) \in RequestStates
            /\ Resending(invitation[i].email, invitation[i].role).at = "resending"
        BY <4>1, CallKinds DEF Resending
      <4> QED
        BY <3>2, <4>2 DEF ResendRevoke
    <3> QED
      BY <1>6, <3>1, <3>2
  <2>4. Founded
    BY <2>1, OrganizationExists
  <2>5. UNCHANGED <<role, seats, membershipHistory>>
    BY <1>6 DEF RevokeInvitation, ResendRevoke
  <2> QED
    BY <2>2, <2>3, <2>4, <2>5, RequestQuiet
<1> QED
  BY <1>1, <1>2, <1>4, <1>5, <1>6

-----------------------------------------------------------------------------
(* A step of nobody's: requests and roster stay as they are.               *)
LEMMA BackgroundStep ==
  ASSUME RosterInv, MembershipTypeOK', OnePendingPerEmail',
         UNCHANGED <<role, memberCall, returned, steppedDown>>,
         peakSeats <= peakSeats', Founded,
         \A r \in MemberCalls : HoldsRow(r) =>
           LET i == memberCall[r].item
           IN  Pending(i)' /\ invitation'[i].email = invitation[i].email
                           /\ invitation'[i].role = invitation[i].role
  PROVE  RosterInv'
<1>1. NobodyBeforeFounder'
  BY DEF NobodyBeforeFounder, Founded, Members
<1> QED
  BY <1>1, QuietStep

LEMMA ExpireInv ==
  ASSUME RosterInv, NEW i \in Invitations, Expire(i)
  PROVE  RosterInv'
<1> DEFINE x == [invitation[i] EXCEPT !.late = TRUE]
<1>0. MembershipTypeOK /\ Pending(i) /\ Founded
      /\ invitation \in [Invitations -> InvitationRows \cup {NoInvitation}]
  BY OrganizationExists DEF Expire, RosterInv, MembershipTypeOK
<1>1. invitation[i] \in [status : {"pending"}, email : People, role : ROLES, late : BOOLEAN]
  BY <1>0, InvitationFields DEF Pending
<1>2. /\ x \in InvitationRows /\ x.status = "pending"
      /\ x.email = invitation[i].email /\ x.role = invitation[i].role
  BY <1>1 DEF InvitationRows
<1>3. invitation' = [invitation EXCEPT ![i] = x]
      /\ UNCHANGED <<role, seats, memberCall, membershipHistory>>
  BY DEF Expire
<1> HIDE DEF x
<1>4. /\ invitation' \in [Invitations -> InvitationRows \cup {NoInvitation}]
      /\ OnePendingPerEmail'
      /\ \A j \in Invitations : j # i => invitation'[j] = invitation[j]
  BY <1>0, <1>2, <1>3, SettleKeeps
<1>5. MembershipTypeOK' /\ peakSeats <= peakSeats'
  BY <1>0, <1>3, <1>4 DEF MembershipTypeOK, membershipHistory
<1>6. \A j \in Invitations : Pending(j) =>
        Pending(j)' /\ invitation'[j].email = invitation[j].email
                    /\ invitation'[j].role = invitation[j].role
  BY <1>0, <1>2, <1>3, <1>4 DEF Pending
<1>7. \A r \in MemberCalls : HoldsRow(r) =>
        memberCall[r].item \in Invitations /\ Pending(memberCall[r].item)
  BY <1>0, CallFields
     DEF HoldsRow, MembershipTypeOK, RosterInv, LocksHold, HeldTokenIsGood
<1> QED
  BY <1>0, <1>3, <1>4, <1>5, <1>6, <1>7, BackgroundStep DEF membershipHistory

LEMMA ChangePlanInv ==
  ASSUME RosterInv, NEW n \in SeatPlans, ChangePlan(n)
  PROVE  RosterInv'
<1>1. MembershipTypeOK /\ n \in Nat /\ Founded
  BY SeatAssumption DEF RosterInv, ChangePlan, Founded
<1>2. MembershipTypeOK' /\ peakSeats <= peakSeats'
  BY <1>1 DEF ChangePlan, MembershipTypeOK
<1>3. UNCHANGED <<role, invitation, memberCall, returned, steppedDown>>
  BY DEF ChangePlan
<1>4. OnePendingPerEmail'
  BY <1>3 DEF RosterInv, OnePendingPerEmail, Pending
<1>5. \A r \in MemberCalls : HoldsRow(r) =>
        LET i == memberCall[r].item
        IN  Pending(i)' /\ invitation'[i].email = invitation[i].email
                        /\ invitation'[i].role = invitation[i].role
  BY <1>3 DEF RosterInv, LocksHold, HeldTokenIsGood, Pending
<1> QED
  BY <1>1, <1>2, <1>3, <1>4, <1>5, BackgroundStep

-----------------------------------------------------------------------------
(* A request takes a lock: what it must know for it is asserted of it.     *)
LEMMA LockingStep ==
  ASSUME RosterInv, NEW r \in MemberCalls, NEW q \in RequestStates,
         CallBecomes(r, q), Founded,
         UNCHANGED <<role, invitation, seats, membershipHistory>>,
         q.at \in {"roster", "admitted"} => LockFree(r),
         q.at \in {"accepting", "admitted"} =>
           /\ \A s \in MemberCalls : s # r /\ HoldsRow(s) => memberCall[s].item # q.item
           /\ Pending(q.item) /\ invitation[q.item].email = q.user
           /\ invitation[q.item].role = q.grant,
         q.at = "accepting" => q.max <= peakSeats,
         q.at = "admitted" => Cardinality(Seated) < peakSeats,
         q.at = "roster" =>
           /\ role[q.target] # "none"
           /\ \/ steppedDown
              \/ q.grant = "owner"
              \/ \E o \in People : o # q.target /\ role[o] = "owner"
  PROVE  RosterInv'
<1>0. MembershipTypeOK
  BY DEF RosterInv
<1>1. \A s \in MemberCalls : memberCall'[s] = IF s = r THEN q ELSE memberCall[s]
  BY <1>0 DEF MembershipTypeOK, CallBecomes
<1>2. MembershipTypeOK' /\ OnePendingPerEmail'
  BY <1>0 DEF MembershipTypeOK, CallBecomes, membershipHistory, RosterInv,
              OnePendingPerEmail, Pending
<1>3. Members' = Members /\ Seated' = Seated /\ Owners' = Owners /\ SeatLimit' = SeatLimit
      /\ UNCHANGED <<peakSeats, returned, steppedDown>>
  BY DEF Members, Seated, Owners, membershipHistory, SeatLimit
<1>4. LockIsExclusive'
  BY <1>1 DEF LockIsExclusive, HoldsLock, LockFree, RosterInv, LocksHold
<1>5. RowLockIsExclusive' /\ HeldTokenIsGood'
  BY <1>1 DEF RowLockIsExclusive, HeldTokenIsGood, HoldsRow, Pending, RosterInv, LocksHold
<1>6. PlansHold'
  BY <1>1, <1>3 DEF PlansHold, PlanReadWasInForce, SeatIsReserved, RosterInv
<1>7. TargetStaysMember' /\ AnotherOwnerRemains'
  BY <1>1, <1>3 DEF TargetStaysMember, AnotherOwnerRemains, RosterInv, OwnersHold
<1>8. OwnerLostOnlyByAcceptance' /\ NobodyBeforeFounder'
  BY <1>3 DEF OwnerLostOnlyByAcceptance, OwnerRemains, NobodyBeforeFounder, Founded,
              RosterInv, OwnersHold
<1> QED
  BY <1>2, <1>4, <1>5, <1>6, <1>7, <1>8 DEF RosterInv, LocksHold, OwnersHold

LEMMA BeginAcceptInv ==
  ASSUME RosterInv, NEW r \in MemberCalls, NEW u \in People, NEW i \in Invitations,
         BeginAcceptInvitation(r, u, i)
  PROVE  RosterInv'
<1>0. MembershipTypeOK /\ Pending(i) /\ ~RowLocked(i) /\ Founded
      /\ invitation[i] \in InvitationRows \cup {NoInvitation}
  BY OrganizationExists DEF BeginAcceptInvitation, RosterInv, MembershipTypeOK
<1>1. CASE invitation[i].late
  <2>1. SettleInvitation(i, "expired")
        /\ UNCHANGED <<role, seats, memberCall, membershipHistory>>
    BY <1>1 DEF BeginAcceptInvitation
  <2>2. /\ invitation' \in [Invitations -> InvitationRows \cup {NoInvitation}]
        /\ OnePendingPerEmail' /\ HeldTokensStay
    BY <1>0, <2>1, SettleFree, SettledRows DEF SettleInvitation
  <2>3. MembershipTypeOK' /\ peakSeats <= peakSeats'
    BY <1>0, <2>1, <2>2 DEF MembershipTypeOK, membershipHistory
  <2>4. \A s \in MemberCalls : HoldsRow(s) =>
          LET j == memberCall[s].item
          IN  Pending(j)' /\ invitation'[j].email = invitation[j].email
                          /\ invitation'[j].role = invitation[j].role
    BY <2>1, <2>2 DEF HeldTokensStay, RosterInv, LocksHold, HeldTokenIsGood, Pending
  <2> QED
    BY <1>0, <2>1, <2>2, <2>3, <2>4, BackgroundStep DEF membershipHistory
<1>2. CASE ~invitation[i].late
  <2> DEFINE q == Accepting(i, u, role[u] # "none", seats)
  <2>1. CallBecomes(r, q)
        /\ UNCHANGED <<role, invitation, seats, membershipHistory>>
    BY <1>2 DEF BeginAcceptInvitation
  <2>2. invitation[i].role \in ROLES /\ seats \in Nat /\ seats <= peakSeats
    BY <1>0, InvitationFields DEF Pending, MembershipTypeOK
  <2>3. q \in RequestStates
    BY <2>2 DEF Accepting, RequestStates
  <2>4. /\ q.at = "accepting" /\ q.item = i /\ q.user = u /\ q.max = seats
        /\ q.grant = invitation[i].role
    BY DEF Accepting
  <2> HIDE DEF q
  <2>5. \A s \in MemberCalls : s # r /\ HoldsRow(s) => memberCall[s].item # i
    BY <1>0 DEF RowLocked, HoldsRow
  <2>6. invitation[i].email = u
    BY DEF BeginAcceptInvitation, EmailMatches
  <2> QED
    BY <1>0, <2>1, <2>2, <2>3, <2>4, <2>5, <2>6, LockingStep
<1> QED
  BY <1>1, <1>2

LEMMA EnforceQuotaInv ==
  ASSUME RosterInv, NEW r \in MemberCalls, EnforceMemberQuota(r)
  PROVE  RosterInv'
<1> DEFINE q == Admitted(memberCall[r])
<1>0. MembershipTypeOK /\ memberCall[r] \in RequestStates
      /\ memberCall[r].at = "accepting" /\ Founded
  BY OrganizationExists DEF EnforceMemberQuota, RosterInv, MembershipTypeOK
<1>1. /\ q \in RequestStates /\ q.at = "admitted" /\ q.item = memberCall[r].item
      /\ q.user = memberCall[r].user /\ q.grant = memberCall[r].grant
  <2>1. /\ memberCall[r].item \in Invitations /\ memberCall[r].user \in People
        /\ memberCall[r].grant \in ROLES
    BY <1>0, CallFields
  <2> QED
    BY <2>1 DEF Admitted, RequestStates
<1>2. CallBecomes(r, q) /\ LockFree(r)
      /\ UNCHANGED <<role, invitation, seats, membershipHistory>>
  BY DEF EnforceMemberQuota
<1> HIDE DEF q
<1>3. HoldsRow(r)
  BY <1>0 DEF HoldsRow
<1>4. /\ Pending(q.item) /\ invitation[q.item].email = q.user
      /\ invitation[q.item].role = q.grant
      /\ \A s \in MemberCalls : s # r /\ HoldsRow(s) => memberCall[s].item # q.item
  BY <1>1, <1>3 DEF RosterInv, LocksHold, HeldTokenIsGood, RowLockIsExclusive
<1>5. Cardinality(Seated) < peakSeats
  <2>1. Cardinality(Members) < memberCall[r].max /\ memberCall[r].max <= peakSeats
    BY <1>0 DEF EnforceMemberQuota, QuotaAllows, RosterInv, PlansHold, PlanReadWasInForce
  <2>2. memberCall[r].max \in Nat /\ peakSeats \in Nat
    BY <1>0, CallFields DEF MembershipTypeOK
  <2> QED
    BY <2>1, <2>2, FiniteMembers
<1> QED
  BY <1>0, <1>1, <1>2, <1>4, <1>5, LockingStep

LEMMA BeginRosterChangeInv ==
  ASSUME RosterInv, NEW r \in MemberCalls, NEW u \in People,
         NEW g \in ROLES \cup {"none"}, BeginRosterChange(r, u, g)
  PROVE  RosterInv'
<1> DEFINE q == Changing(u, g)
<1>0. /\ MembershipTypeOK /\ role[u] # "none" /\ ~LastOwner(u, g) /\ LockFree(r)
      /\ CallBecomes(r, q)
      /\ UNCHANGED <<role, invitation, seats, membershipHistory>>
  BY DEF BeginRosterChange, RosterInv
<1>1. q \in RequestStates /\ q.at = "roster" /\ q.target = u /\ q.grant = g
  BY CallKinds DEF Changing
<1> HIDE DEF q
<1>2. Founded
  BY <1>0 DEF Founded, Members
<1>3. \/ steppedDown
      \/ g = "owner"
      \/ \E o \in People : o # u /\ role[o] = "owner"
  <2> SUFFICES ASSUME ~steppedDown, g # "owner"
               PROVE  \E o \in People : o # u /\ role[o] = "owner"
    OBVIOUS
  <2>1. Owners # {}
    BY <1>0 DEF RosterInv, OwnersHold, OwnerLostOnlyByAcceptance, OwnerRemains, Members
  <2>2. CASE role[u] # "owner"
    BY <2>1, <2>2 DEF Owners
  <2>3. CASE role[u] = "owner"
    <3>1. ~(Cardinality(Owners) <= 1)
      BY <1>0, <2>3 DEF LastOwner
    <3>2. Owners # {u}
      <4>1. Cardinality({u}) = 1
        BY FS_Singleton
      <4> QED
        BY <3>1, <4>1
    <3> QED
      BY <2>1, <3>2 DEF Owners
  <2> QED
    BY <2>2, <2>3
<1> QED
  BY <1>0, <1>1, <1>2, <1>3, LockingStep

-----------------------------------------------------------------------------
(* A step that commits a change of the roster and gives back its locks:    *)
(* requests other than r stay as they are, r holds nothing any more.       *)
LEMMA CommitStep ==
  ASSUME RosterInv, NEW r \in MemberCalls, Finish(r), MembershipTypeOK',
         UNCHANGED <<seats, peakSeats>>, OnePendingPerEmail',
         \A s \in MemberCalls : s # r /\ HoldsRow(s) =>
           invitation'[memberCall[s].item] = invitation[memberCall[s].item],
         Founded', OwnerLostOnlyByAcceptance',
         Cardinality(Seated') <= SeatLimit,
         \A s \in MemberCalls : s # r /\ memberCall[s].at = "admitted"
           => Cardinality(Seated') < peakSeats,
         \A s \in MemberCalls : s # r /\ memberCall[s].at = "roster" =>
           /\ role'[memberCall[s].target] # "none"
           /\ \/ steppedDown'
              \/ memberCall[s].grant = "owner"
              \/ \E o \in People : o # memberCall[s].target /\ role'[o] = "owner"
  PROVE  RosterInv'
<1>0. MembershipTypeOK
  BY DEF RosterInv
<1>1. \A s \in MemberCalls : memberCall'[s] = IF s = r THEN NoCall ELSE memberCall[s]
  BY <1>0 DEF MembershipTypeOK, Finish, CallBecomes
<1>2. NoCall.at = "idle"
  BY DEF NoCall
<1>3. LockIsExclusive' /\ RowLockIsExclusive'
  BY <1>1, <1>2 DEF LockIsExclusive, RowLockIsExclusive, HoldsLock, HoldsRow,
                    RosterInv, LocksHold
<1>4. HeldTokenIsGood'
  BY <1>1, <1>2 DEF HeldTokenIsGood, HoldsRow, Pending, RosterInv, LocksHold
<1>5. SeatLimit' = SeatLimit
  BY DEF SeatLimit
<1>6. PlanReadWasInForce' /\ SeatIsReserved' /\ Cardinality(Seated)' <= SeatLimit'
  BY <1>1, <1>2, <1>5 DEF PlanReadWasInForce, SeatIsReserved, RosterInv, PlansHold
<1>7. TargetStaysMember' /\ AnotherOwnerRemains'
  BY <1>1, <1>2 DEF TargetStaysMember, AnotherOwnerRemains
<1>8. NobodyBeforeFounder'
  BY DEF NobodyBeforeFounder
<1> QED
  BY <1>3, <1>4, <1>6, <1>7, <1>8 DEF RosterInv, LocksHold, PlansHold, OwnersHold

LEMMA CommitRosterChangeInv ==
  ASSUME RosterInv, NEW r \in MemberCalls, CommitRosterChange(r)
  PROVE  RosterInv'
<1> DEFINE t == memberCall[r].target
           g == memberCall[r].grant
<1>0. /\ MembershipTypeOK /\ memberCall[r] \in RequestStates
      /\ memberCall[r].at = "roster" /\ Finish(r)
      /\ UNCHANGED <<invitation, seats, peakSeats, steppedDown>>
  BY DEF CommitRosterChange, RosterInv, MembershipTypeOK
<1>1. t \in People /\ g \in ROLES \cup {"none"} /\ role[t] # "none"
  BY <1>0, CallFields DEF RosterInv, OwnersHold, TargetStaysMember
<1>2. /\ role' = [role EXCEPT ![t] = g]
      /\ returned' = IF g = "none" THEN returned \ {t} ELSE returned
  BY DEF CommitRosterChange
<1>3. \/ steppedDown \/ g = "owner" \/ \E o \in People : o # t /\ role[o] = "owner"
  BY <1>0 DEF RosterInv, OwnersHold, AnotherOwnerRemains
<1> HIDE DEF t, g
<1>4. role \in [People -> ROLES \cup {"none"}]
  BY <1>0 DEF MembershipTypeOK
<1>5. MembershipTypeOK'
  <2>1. memberCall' \in [MemberCalls -> RequestStates]
    BY <1>0, CallKinds DEF MembershipTypeOK, Finish, CallBecomes
  <2> QED
    BY <1>0, <1>1, <1>2, <2>1 DEF MembershipTypeOK
<1>6. OnePendingPerEmail'
  BY <1>0 DEF RosterInv, OnePendingPerEmail, Pending
<1>7. steppedDown \/ \E o \in People : role'[o] = "owner"
  BY <1>1, <1>2, <1>3, <1>4
<1>8. Founded' /\ OwnerLostOnlyByAcceptance'
  BY <1>0, <1>7 DEF Founded, OwnerLostOnlyByAcceptance, OwnerRemains, Members,
                    Owners
<1>9. Cardinality(Seated') <= Cardinality(Seated) /\ Cardinality(Seated') \in Nat
  <2>1. Seated' \subseteq Seated
    BY <1>1, <1>2, <1>4 DEF Seated, Members
  <2> QED
    BY <2>1, FiniteMembers, FS_Subset, FS_CardinalityType
<1>10. Cardinality(Seated') <= SeatLimit
  <2>1. Cardinality(Seated) <= SeatLimit /\ SeatLimit \in Nat
    BY <1>0 DEF RosterInv, PlansHold, SeatLimit, MembershipTypeOK
  <2> QED
    BY <1>9, <2>1, FiniteMembers
<1>11. \A s \in MemberCalls : s # r => ~HoldsLock(s)
  BY <1>0 DEF RosterInv, LocksHold, LockIsExclusive, HoldsLock
<1> QED
  BY <1>0, <1>5, <1>6, <1>8, <1>10, <1>11, CommitStep DEF HoldsLock

(* Nobody is seated but the new member, and nobody who was read as active. *)
LEMMA AcceptSeats ==
  ASSUME RosterInv, NEW r \in MemberCalls, CommitAccept(r)
  PROVE  /\ Cardinality(Seated') <= SeatLimit
         /\ \A s \in MemberCalls : s # r /\ memberCall[s].at = "admitted"
              => Cardinality(Seated') < peakSeats
<1> DEFINE u == memberCall[r].user
           g == memberCall[r].grant
<1>0. /\ MembershipTypeOK /\ memberCall[r] \in RequestStates
      /\ role \in [People -> ROLES \cup {"none"}]
      /\ \/ memberCall[r].at = "accepting" /\ memberCall[r].active
         \/ memberCall[r].at = "admitted"
      /\ role' = [role EXCEPT ![u] = g]
      /\ returned' = IF memberCall[r].at = "accepting" /\ role[u] = "none"
                       THEN returned \cup {u} ELSE returned
  BY DEF CommitAccept, RosterInv, MembershipTypeOK
<1>1. u \in People /\ g \in ROLES
  BY <1>0, CallFields
<1> HIDE DEF u, g
<1>2. /\ peakSeats \in Nat /\ SeatLimit \in Nat /\ peakSeats <= SeatLimit
      /\ Cardinality(Seated) <= SeatLimit /\ Cardinality(Seated) \in Nat
      /\ IsFiniteSet(Seated)
  BY <1>0, FiniteMembers DEF MembershipTypeOK, SeatLimit, RosterInv, PlansHold
<1>3. CASE memberCall[r].at = "accepting"
  <2>1. Seated' \subseteq Seated
    BY <1>0, <1>1, <1>3 DEF Seated, Members
  <2>2. Cardinality(Seated') <= Cardinality(Seated) /\ Cardinality(Seated') \in Nat
    BY <1>2, <2>1, FS_Subset, FS_CardinalityType
  <2>3. \A s \in MemberCalls : memberCall[s].at = "admitted" => Cardinality(Seated) < peakSeats
    BY DEF RosterInv, PlansHold, SeatIsReserved
  <2> QED
    BY <1>2, <2>2, <2>3
<1>4. CASE memberCall[r].at = "admitted"
  <2>1. Seated' \subseteq Seated \cup {u}
    BY <1>0, <1>1, <1>4 DEF Seated, Members
  <2>2. /\ IsFiniteSet(Seated \cup {u})
        /\ Cardinality(Seated \cup {u}) <= Cardinality(Seated) + 1
        /\ Cardinality(Seated \cup {u}) \in Nat
    <3>1. /\ IsFiniteSet(Seated \cup {u})
          /\ \/ Cardinality(Seated \cup {u}) = Cardinality(Seated)
             \/ Cardinality(Seated \cup {u}) = Cardinality(Seated) + 1
      BY <1>2, FS_AddElement
    <3> QED
      BY <1>2, <3>1
  <2>3. Cardinality(Seated') <= Cardinality(Seated \cup {u}) /\ Cardinality(Seated') \in Nat
    BY <2>1, <2>2, FS_Subset, FS_CardinalityType
  <2>4. Cardinality(Seated) < peakSeats
    BY <1>4 DEF RosterInv, PlansHold, SeatIsReserved
  <2>5. Cardinality(Seated') <= SeatLimit
    BY <1>2, <2>2, <2>3, <2>4
  <2>6. \A s \in MemberCalls : s # r => memberCall[s].at # "admitted"
    BY <1>4 DEF RosterInv, LocksHold, LockIsExclusive, HoldsLock
  <2> QED
    BY <2>5, <2>6
<1> QED
  BY <1>0, <1>3, <1>4

LEMMA CommitAcceptInv ==
  ASSUME RosterInv, NEW r \in MemberCalls, CommitAccept(r)
  PROVE  RosterInv'
<1> DEFINE u == memberCall[r].user
           g == memberCall[r].grant
           i == memberCall[r].item
<1>0. /\ MembershipTypeOK /\ memberCall[r] \in RequestStates /\ HoldsRow(r)
      /\ role \in [People -> ROLES \cup {"none"}]
      /\ role' = [role EXCEPT ![u] = g]
      /\ SettleInvitation(i, "accepted") /\ Finish(r)
      /\ UNCHANGED <<seats, peakSeats>>
  BY DEF CommitAccept, RosterInv, MembershipTypeOK, HoldsRow
<1>1. u \in People /\ g \in ROLES /\ i \in Invitations /\ Pending(i) /\ Founded
  BY <1>0, CallFields, OrganizationExists
     DEF HoldsRow, RosterInv, LocksHold, HeldTokenIsGood
<1>2. /\ returned' \subseteq returned \cup {u}
      /\ steppedDown' = (steppedDown \/ (role[u] = "owner" /\ g # "owner"))
  BY DEF CommitAccept
<1>3. \A s \in MemberCalls : s # r /\ HoldsRow(s) =>
        memberCall[s].item # i /\ memberCall[s].item \in Invitations
  BY <1>0, CallFields DEF HoldsRow, RosterInv, MembershipTypeOK, LocksHold,
                          RowLockIsExclusive
<1> HIDE DEF u, g, i
<1>4. /\ invitation' \in [Invitations -> InvitationRows \cup {NoInvitation}]
      /\ OnePendingPerEmail'
      /\ \A j \in Invitations : j # i => invitation'[j] = invitation[j]
  <2>1. Settled("accepted") \in InvitationRows /\ Settled("accepted").status # "pending"
    BY SettledRows
  <2> QED
    BY <1>0, <1>1, <2>1, SettleKeeps DEF SettleInvitation
<1>5. MembershipTypeOK'
  <2>1. memberCall' \in [MemberCalls -> RequestStates]
    BY <1>0, CallKinds DEF MembershipTypeOK, Finish, CallBecomes
  <2>2. steppedDown' \in BOOLEAN
    BY <1>2
  <2>3. /\ role' \in [People -> ROLES \cup {"none"}] /\ returned' \subseteq People
        /\ seats' \in Nat /\ peakSeats' \in Nat /\ seats' <= peakSeats'
    BY <1>0, <1>1, <1>2 DEF MembershipTypeOK
  <2> QED
    BY <1>4, <2>1, <2>2, <2>3 DEF MembershipTypeOK
<1>6. u \in Members' /\ Founded'
  BY <1>0, <1>1 DEF Members, Founded, ROLES
<1>7. OwnerLostOnlyByAcceptance'
  <2> SUFFICES ASSUME ~steppedDown' PROVE Owners' # {}
    BY DEF OwnerLostOnlyByAcceptance, OwnerRemains
  <2>1. ~steppedDown /\ (role[u] = "owner" => g = "owner")
    BY <1>2
  <2>2. PICK o \in People : role[o] = "owner"
    BY <1>1, <2>1 DEF Founded, RosterInv, OwnersHold, OwnerLostOnlyByAcceptance,
                      OwnerRemains, Owners
  <2>3. role'[o] = "owner"
    BY <1>0, <1>1, <2>1, <2>2
  <2> QED
    BY <2>3 DEF Owners
<1>8. \A s \in MemberCalls : s # r /\ memberCall[s].at = "roster" =>
        /\ role'[memberCall[s].target] # "none"
        /\ \/ steppedDown'
           \/ memberCall[s].grant = "owner"
           \/ \E o \in People : o # memberCall[s].target /\ role'[o] = "owner"
  <2> SUFFICES ASSUME NEW s \in MemberCalls, memberCall[s].at = "roster"
               PROVE  /\ role'[memberCall[s].target] # "none"
                      /\ \/ steppedDown'
                         \/ memberCall[s].grant = "owner"
                         \/ \E o \in People : o # memberCall[s].target /\ role'[o] = "owner"
    OBVIOUS
  <2>1. /\ memberCall[s].target \in People /\ role[memberCall[s].target] # "none"
        /\ \/ steppedDown
           \/ memberCall[s].grant = "owner"
           \/ \E o \in People : o # memberCall[s].target /\ role[o] = "owner"
    BY <1>0, CallFields DEF MembershipTypeOK, RosterInv, OwnersHold,
                            TargetStaysMember, AnotherOwnerRemains
  <2>2. role'[memberCall[s].target] # "none"
    BY <1>0, <1>1, <2>1 DEF ROLES
  <2>3. ASSUME NEW o \in People, role[o] = "owner", ~steppedDown'
        PROVE  role'[o] = "owner"
    BY <1>0, <1>1, <1>2, <2>3
  <2> QED
    BY <1>2, <2>1, <2>2, <2>3
<1>9. \A s \in MemberCalls : s # r /\ HoldsRow(s) =>
        invitation'[memberCall[s].item] = invitation[memberCall[s].item]
  BY <1>3, <1>4
<1> QED
  BY <1>0, <1>4, <1>5, <1>6, <1>7, <1>8, <1>9, AcceptSeats, CommitStep

LEMMA CreateOrganizationInv ==
  ASSUME RosterInv, NEW u \in People, CreateCustomerOrganization(u)
  PROVE  RosterInv'
<1>0. /\ MembershipTypeOK /\ Members = {}
      /\ \A i \in Invitations : invitation[i] = NoInvitation
      /\ role \in [People -> ROLES \cup {"none"}]
      /\ role' = [role EXCEPT ![u] = "owner"]
      /\ UNCHANGED <<invitation, seats, memberCall, membershipHistory>>
  BY DEF CreateCustomerOrganization, RosterInv, MembershipTypeOK
<1>1. \A r \in MemberCalls : ~HoldsRow(r) /\ memberCall[r].at # "roster"
  <2> SUFFICES ASSUME NEW r \in MemberCalls
               PROVE  ~HoldsRow(r) /\ memberCall[r].at # "roster"
    OBVIOUS
  <2>1. HoldsRow(r) => Pending(memberCall[r].item) /\ memberCall[r].item \in Invitations
    BY <1>0, CallFields DEF HoldsRow, RosterInv, LocksHold, HeldTokenIsGood, MembershipTypeOK
  <2>2. memberCall[r].at = "roster" =>
          memberCall[r].target \in People /\ role[memberCall[r].target] # "none"
    BY <1>0, CallFields DEF RosterInv, OwnersHold, TargetStaysMember, MembershipTypeOK
  <2> QED
    BY <1>0, <2>1, <2>2 DEF Pending, NoInvitation, Members
<1>2. MembershipTypeOK' /\ OnePendingPerEmail'
  BY <1>0 DEF MembershipTypeOK, ROLES, membershipHistory, RosterInv, OnePendingPerEmail,
              Pending
<1>3. LocksHold' /\ PlanReadWasInForce' /\ SeatIsReserved'
      /\ TargetStaysMember' /\ AnotherOwnerRemains'
  BY <1>0, <1>1
     DEF LocksHold, LockIsExclusive, RowLockIsExclusive, HeldTokenIsGood, HoldsLock,
         HoldsRow, PlanReadWasInForce, SeatIsReserved, TargetStaysMember,
         AnotherOwnerRemains
<1>4. u \in Members' /\ u \in Owners' /\ Seated' \subseteq {u}
  BY <1>0 DEF Members, Owners, Seated
<1>5. Cardinality(Seated)' <= SeatLimit'
  <2>1. Cardinality({u}) = 1 /\ IsFiniteSet({u})
    BY FS_Singleton
  <2>2. Cardinality(Seated') <= 1 /\ Cardinality(Seated') \in Nat
    BY <1>4, <2>1, FS_Subset, FS_CardinalityType
  <2>3. SeatLimit' \in Nat /\ SeatLimit' >= 1
    BY <1>2 DEF SeatLimit, MembershipTypeOK
  <2> QED
    BY <2>2, <2>3
<1>6. OwnerLostOnlyByAcceptance' /\ NobodyBeforeFounder'
  BY <1>4 DEF OwnerLostOnlyByAcceptance, OwnerRemains, NobodyBeforeFounder, Founded
<1> QED
  BY <1>2, <1>3, <1>5, <1>6 DEF RosterInv, PlansHold, OwnersHold

LEMMA RosterStepInv == RosterInv /\ [MembershipNext]_membershipVars => RosterInv'
<1> SUFFICES ASSUME RosterInv, [MembershipNext]_membershipVars PROVE RosterInv'
  OBVIOUS
<1>1. CASE UNCHANGED membershipVars
  BY <1>1 DEF membershipVars, RosterInv, MembershipTypeOK, LocksHold, LockIsExclusive,
     RowLockIsExclusive, HeldTokenIsGood, HoldsLock, HoldsRow, Pending, PlansHold,
     PlanReadWasInForce, SeatIsReserved, Seated, SeatLimit, Members, OwnersHold,
     TargetStaysMember, AnotherOwnerRemains, OwnerLostOnlyByAcceptance, OwnerRemains,
     Owners, NobodyBeforeFounder, Founded, OnePendingPerEmail
<1>2. ASSUME NEW r \in MemberCalls, MemberCallStep(r) PROVE RosterInv'
  BY <1>2, QuietRequestInv, BeginAcceptInv, EnforceQuotaInv, BeginRosterChangeInv,
     CommitRosterChangeInv, CommitAcceptInv DEF MemberCallStep
<1> QED
  BY <1>1, <1>2, CreateOrganizationInv, ChangePlanInv, ExpireInv DEF MembershipNext

-----------------------------------------------------------------------------
(* The inductive invariant of the roster.                                  *)
THEOREM RosterInvariant == MembershipSpec => []RosterInv
<1> QED
  BY RosterInit, RosterStepInv, PTL DEF MembershipSpec

(* What the proofs in other modules use of the invariant.                  *)
LEMMA RosterInvIsSound ==
  RosterInv => /\ MembershipTypeOK /\ SeatsWithinPlan /\ OnePendingPerEmail
               /\ OwnerLostOnlyByAcceptance
BY DEF RosterInv, PlansHold, OwnersHold, SeatsWithinPlan, Seated, SeatLimit

(* Concurrent acceptances, roster changes and changes of plan never seat   *)
(* more members than the largest plan allowed (enforce_member_quota).      *)
THEOREM SeatsStayWithinPlan == MembershipSpec => []SeatsWithinPlan
BY RosterInvariant, RosterInvIsSound, PTL

(* Two owners who demote or remove each other, in any number of requests,  *)
(* leave an owner (LastOwnerError).                                        *)
THEOREM OwnersRemain == MembershipSpec => []OwnerLostOnlyByAcceptance
BY RosterInvariant, RosterInvIsSound, PTL

-----------------------------------------------------------------------------
(* A step of the roster settles only invitations that are pending.         *)
LEMMA SettledStays ==
  ASSUME RosterInv, [MembershipNext]_membershipVars,
         NEW i \in Invitations, ~Pending(i), invitation[i] # NoInvitation
  PROVE  invitation'[i] = invitation[i]
<1>1. CASE UNCHANGED invitation
  BY <1>1
<1>0. invitation \in [Invitations -> InvitationRows \cup {NoInvitation}]
      /\ MembershipTypeOK
  BY DEF RosterInv, MembershipTypeOK
<1>2. ASSUME NEW j \in Invitations, NEW x, Pending(j),
             invitation' = [invitation EXCEPT ![j] = x]
      PROVE  invitation'[i] = invitation[i]
  BY <1>0, <1>2
<1>3. ASSUME NEW j \in Invitations, Expire(j) PROVE invitation'[i] = invitation[i]
  BY <1>0, <1>3 DEF Expire
<1>4. ASSUME NEW r \in MemberCalls, CommitAccept(r) PROVE invitation'[i] = invitation[i]
  <2>1. memberCall[r] \in RequestStates /\ HoldsRow(r)
    BY <1>0, <1>4 DEF CommitAccept, HoldsRow, MembershipTypeOK
  <2>2. memberCall[r].item \in Invitations /\ Pending(memberCall[r].item)
    BY <2>1, CallFields DEF HoldsRow, RosterInv, LocksHold, HeldTokenIsGood
  <2> QED
    BY <1>2, <1>4, <2>2 DEF CommitAccept, SettleInvitation
<1>5. ASSUME NEW u, NEW g, InsertInvitation(u, g) PROVE invitation'[i] = invitation[i]
  <2>1. (CHOOSE x \in FreshTokens : TRUE) # i
    BY <1>5 DEF InsertInvitation, FreshTokens
  <2> QED
    BY <1>0, <1>5, <2>1 DEF InsertInvitation
<1>6. ASSUME NEW r \in MemberCalls, NEW u \in People, NEW j \in Invitations,
             BeginAcceptInvitation(r, u, j)
      PROVE  invitation'[i] = invitation[i]
  BY <1>0, <1>2, <1>6 DEF BeginAcceptInvitation, SettleInvitation
<1>7. ASSUME NEW r \in MemberCalls, NEW j \in Invitations,
             RevokeInvitation(r, j) \/ ResendRevoke(r, j)
      PROVE  invitation'[i] = invitation[i]
  BY <1>2, <1>7 DEF RevokeInvitation, ResendRevoke, SettleInvitation
<1>8. ASSUME NEW r \in MemberCalls,
             ResendCreate(r) \/ \E u \in People, g \in ROLES : CreateInvitation(r, u, g)
      PROVE  invitation'[i] = invitation[i]
  BY <1>5, <1>8 DEF CreateInvitation, ResendCreate
<1>9. ASSUME NEW r \in MemberCalls, MemberCallStep(r)
      PROVE  invitation'[i] = invitation[i]
  BY <1>1, <1>4, <1>6, <1>7, <1>8, <1>9
     DEF MemberCallStep, ResolveAuthContext, BeginRosterChange, EnforceMemberQuota,
         CommitRosterChange, Rollback
<1> QED
  BY <1>1, <1>3, <1>9
     DEF MembershipNext, membershipVars, CreateCustomerOrganization, ChangePlan

(* Nobody becomes a member but by a pending invitation of that address, or *)
(* as the founder.                                                         *)
LEMMA JoiningStep ==
  ASSUME RosterInv, [MembershipNext]_membershipVars,
         NEW u \in People, role[u] = "none", role'[u] # "none", Members # {}
  PROVE  \E i \in Invitations :
           /\ Pending(i) /\ invitation'[i].status = "accepted"
           /\ invitation[i].email = u /\ invitation[i].role = role'[u]
<1>0. MembershipTypeOK /\ role \in [People -> ROLES \cup {"none"}]
      /\ invitation \in [Invitations -> InvitationRows \cup {NoInvitation}]
  BY DEF RosterInv, MembershipTypeOK
<1>1. role' # role
  OBVIOUS
<1>2. ASSUME NEW r \in MemberCalls, CommitRosterChange(r) PROVE FALSE
  <2>1. /\ memberCall[r].at = "roster" /\ memberCall[r].target \in People
        /\ role[memberCall[r].target] # "none"
    BY <1>0, <1>2, CallFields DEF CommitRosterChange, MembershipTypeOK, RosterInv,
                                  OwnersHold, TargetStaysMember
  <2> QED
    BY <1>0, <1>2, <2>1 DEF CommitRosterChange
<1>3. PICK r \in MemberCalls : CommitAccept(r)
  BY <1>1, <1>2
     DEF MembershipNext, MemberCallStep, membershipVars, CreateCustomerOrganization,
         ChangePlan, Expire, ResolveAuthContext, CreateInvitation, BeginRosterChange,
         BeginAcceptInvitation, RevokeInvitation, ResendRevoke, ResendCreate,
         EnforceMemberQuota, Rollback
<1> DEFINE q == memberCall[r]
<1>4. /\ HoldsRow(r) /\ q \in RequestStates
      /\ role' = [role EXCEPT ![q.user] = q.grant]
      /\ invitation' = [invitation EXCEPT ![q.item] = Settled("accepted")]
  BY <1>0, <1>3 DEF CommitAccept, HoldsRow, SettleInvitation, MembershipTypeOK
<1>5. /\ q.item \in Invitations /\ q.user \in People /\ Pending(q.item)
      /\ invitation[q.item].email = q.user /\ invitation[q.item].role = q.grant
  BY <1>4, CallFields DEF HoldsRow, RosterInv, LocksHold, HeldTokenIsGood
<1> HIDE DEF q
<1>6. q.user = u /\ role'[u] = q.grant
  BY <1>0, <1>4, <1>5
<1>7. invitation'[q.item].status = "accepted"
  BY <1>0, <1>4, <1>5, SettledRows
<1> QED
  BY <1>5, <1>6, <1>7

-----------------------------------------------------------------------------
(* The provider credential.                                                *)

ConfigRow ==
  [secret : SecretIds, enabled : BOOLEAN, lastTest : {"never", "success", "failure"}]

Reasons == {"provider_mode_disallows_live", "provider_not_configured", "provider_disabled",
            "credential_unavailable"}

Activity ==
  {NoActivity, Found, Available}
  \cup [at : {"setting"}, value : Credentials, existing : ConfigRow \cup {NoConfig}]
  \cup [at : {"testing"}, value : Credentials \cup {NoCredential}]
  \cup [at : {"recording"}, ok : BOOLEAN, value : Credentials \cup {NoCredential}]
  \cup [at : {"adapter"}, value : Credentials]
  \cup [at : {"unavailable"}, reason : Reasons]

ProviderTypeOK ==
  /\ config \in ConfigRow \cup {NoConfig}
  /\ vault \in [SecretIds -> Credentials \cup {Empty}]
  /\ actor \in [Actors -> Activity]
  /\ simulated \in BOOLEAN
  /\ configured \subseteq Credentials

(* The advisory lock of a replacement has one holder, whose reading of the *)
(* row is out of date only if the row has been deleted.                    *)
SetterIsAlone ==
  \A a, b \in Actors : actor[a].at = "setting" /\ actor[b].at = "setting" => a = b

SetterKnowsRow ==
  \A a \in Actors : actor[a].at = "setting" /\ IsConfigured =>
    actor[a].existing # NoConfig /\ actor[a].existing.secret = config.secret

(* What is in the vault, under test or tested has been configured once.    *)
SecretsWereConfigured ==
  /\ \A s \in SecretIds : vault[s] # Empty => vault[s] \in configured
  /\ \A a \in Actors :
       /\ actor[a].at = "testing" => actor[a].value \in configured \cup {NoCredential}
       /\ actor[a].at = "recording" /\ actor[a].ok => actor[a].value \in configured \cap Valid

(* The inductive invariant. *)
CredentialInv ==
  /\ ProviderTypeOK /\ SetterIsAlone /\ SetterKnowsRow /\ SecretsWereConfigured
  /\ VaultMatchesConfig /\ SuccessWasEarned

LEMMA ActivityFields ==
  ASSUME NEW x \in Activity
  PROVE  /\ x.at = "setting" => /\ x.value \in Credentials
                                /\ x.existing \in ConfigRow \cup {NoConfig}
         /\ x.at \in {"testing", "recording"} => x.value \in Credentials \cup {NoCredential}
         /\ x.at = "recording" => x.ok \in BOOLEAN
BY DEF Activity, NoActivity, Found, Available

LEMMA ActivityKinds ==
  /\ Available \in Activity /\ Available.at = "available"
  /\ \A s \in Reasons : Unavailable(s) \in Activity /\ Unavailable(s).at = "unavailable"
  /\ \A c \in Credentials : Adapter(c) \in Activity /\ Adapter(c).at = "adapter"
BY DEF Available, Unavailable, Adapter, Activity

LEMMA ConfigFields ==
  ASSUME NEW c \in ConfigRow \cup {NoConfig}, c # NoConfig
  PROVE  c \in ConfigRow /\ c.secret \in SecretIds /\ c.lastTest \in {"never", "success", "failure"}
BY DEF ConfigRow

LEMMA RowIsNoAbsence == \A c \in ConfigRow : c # NoConfig
BY DEF ConfigRow, NoConfig

LEMMA CredentialInit == ProviderInit => CredentialInv
<1> SUFFICES ASSUME ProviderInit PROVE CredentialInv
  OBVIOUS
<1>1. ProviderTypeOK
  <2>1. simulated \in BOOLEAN
    BY DEF ProviderInit
  <2> QED
    BY <2>1 DEF ProviderInit, ProviderTypeOK, Activity
<1>2. ~IsConfigured /\ \A a \in Actors : actor[a].at = "idle"
  BY DEF ProviderInit, IsConfigured, NoActivity
<1> QED
  BY <1>1, <1>2 DEF CredentialInv, SetterIsAlone, SetterKnowsRow, SecretsWereConfigured,
     VaultMatchesConfig, SuccessWasEarned, ProviderInit

(* A request moves on without writing a table.                             *)
LEMMA ActorStep ==
  ASSUME CredentialInv, NEW a \in Actors, NEW x \in Activity, ActorBecomes(a, x),
         UNCHANGED <<config, vault, simulated, configured>>,
         x.at = "setting" => SetLockFree /\ x.existing = config,
         x.at = "testing" => x.value \in configured \cup {NoCredential},
         x.at = "recording" /\ x.ok => x.value \in configured \cap Valid
  PROVE  CredentialInv'
<1>0. ProviderTypeOK
  BY DEF CredentialInv
<1>1. \A b \in Actors : actor'[b] = IF b = a THEN x ELSE actor[b]
  BY <1>0 DEF ProviderTypeOK, ActorBecomes
<1>2. ProviderTypeOK'
  BY <1>0 DEF ProviderTypeOK, ActorBecomes
<1>3. SetterIsAlone'
  BY <1>1 DEF CredentialInv, SetterIsAlone, SetLockFree
<1>4. SetterKnowsRow'
  BY <1>1 DEF CredentialInv, SetterKnowsRow, IsConfigured
<1>5. SecretsWereConfigured'
  BY <1>1 DEF CredentialInv, SecretsWereConfigured
<1>6. VaultMatchesConfig' /\ SuccessWasEarned'
  BY DEF CredentialInv, VaultMatchesConfig, SuccessWasEarned, IsConfigured
<1> QED
  BY <1>2, <1>3, <1>4, <1>5, <1>6 DEF CredentialInv

LEMMA ResolvedCredential ==
  ASSUME CredentialInv
  PROVE  ResolveProviderCredential \in (configured \cap Credentials) \cup {NoCredential}
BY ConfigFields DEF CredentialInv, ProviderTypeOK, SecretsWereConfigured,
   ResolveProviderCredential, IsConfigured

LEMMA ActorInv ==
  ASSUME CredentialInv, NEW a \in Actors,
         \/ \E c \in Credentials : BeginSet(a, c)
         \/ BeginTest(a) \/ ResolveForTest(a)
         \/ \E ok \in BOOLEAN : TestConnection(a, ok)
         \/ BeginAcquisition(a) \/ BuildAdapter(a)
         \/ LeaveActor(a)
  PROVE  CredentialInv'
<1>0. /\ ProviderTypeOK /\ actor[a] \in Activity
      /\ config \in ConfigRow \cup {NoConfig}
      /\ ResolveProviderCredential \in (configured \cap Credentials) \cup {NoCredential}
  BY ResolvedCredential DEF CredentialInv, ProviderTypeOK
<1>1. ASSUME NEW c \in Credentials, BeginSet(a, c) PROVE CredentialInv'
  <2>1. Setting(c, config) \in Activity
    BY <1>0 DEF Setting, Activity
  <2> QED
    BY <1>1, <2>1, ActorStep DEF BeginSet, Setting
<1>2. CASE BeginTest(a)
  <2>1. Found \in Activity
    BY DEF Activity
  <2> QED
    BY <1>2, <2>1, ActorStep DEF BeginTest, Found
<1>3. CASE ResolveForTest(a)
  <2> DEFINE c == ResolveProviderCredential
  <2>1. Testing(c) \in Activity /\ Testing(c).at = "testing" /\ Testing(c).value = c
    BY <1>0 DEF Testing, Activity
  <2>2. ActorBecomes(a, Testing(c)) /\ UNCHANGED <<config, vault, simulated, configured>>
    BY <1>3 DEF ResolveForTest
  <2> HIDE DEF c
  <2> QED
    BY <1>0, <2>1, <2>2, ActorStep DEF c
<1>4. ASSUME NEW ok \in BOOLEAN, TestConnection(a, ok) PROVE CredentialInv'
  <2> DEFINE v == actor[a].value
             x == Recording(ok, v)
  <2>1. /\ actor[a].at = "testing" /\ v \in Credentials \cup {NoCredential}
        /\ v \in configured \cup {NoCredential}
        /\ ok => v \in Valid
        /\ ActorBecomes(a, x) /\ UNCHANGED <<config, vault, simulated, configured>>
    BY <1>0, <1>4, ActivityFields DEF TestConnection, VendorAccepts, CredentialInv,
                                      SecretsWereConfigured
  <2>2. x \in Activity /\ x.at = "recording" /\ x.value = v /\ (x.ok => ok)
    BY <2>1 DEF Recording, Activity
  <2>3. v \in Valid => v # NoCredential
    BY CredentialAssumption, AbsenceAssumption
  <2> HIDE DEF x, v
  <2>4. x.ok => x.value \in configured \cap Valid
    BY <2>1, <2>2, <2>3
  <2> QED
    BY <2>1, <2>2, <2>4, ActorStep
<1>5. CASE BeginAcquisition(a)
  <2>1. PICK x \in Activity : x.at \in {"unavailable", "available"} /\ ActorBecomes(a, x)
    <3> DEFINE x == IF simulated THEN Unavailable("provider_mode_disallows_live")
                    ELSE IF ~IsConfigured THEN Unavailable("provider_not_configured")
                    ELSE IF ~config.enabled THEN Unavailable("provider_disabled")
                    ELSE Available
    <3>2. x \in Activity /\ x.at \in {"unavailable", "available"}
      <4>1. \/ x = Available
            \/ \E reason \in Reasons : x = Unavailable(reason)
        BY DEF Reasons
      <4> HIDE DEF x
      <4> QED
        BY <4>1, ActivityKinds DEF Reasons
    <3>3. ActorBecomes(a, x)
      BY <1>5 DEF BeginAcquisition
    <3> HIDE DEF x
    <3> QED
      BY <3>2, <3>3
  <2> QED
    BY <1>5, <2>1, ActorStep DEF BeginAcquisition
<1>6. CASE BuildAdapter(a)
  <2> DEFINE c == ResolveProviderCredential
  <2>1. PICK x \in Activity : x.at \in {"unavailable", "adapter"} /\ ActorBecomes(a, x)
    <3> DEFINE x == IF c = NoCredential THEN Unavailable("credential_unavailable")
                                        ELSE Adapter(c)
    <3>2. ActorBecomes(a, x)
      BY <1>6 DEF BuildAdapter
    <3>3. x \in Activity /\ x.at \in {"unavailable", "adapter"}
      <4>1. \/ x = Unavailable("credential_unavailable")
            \/ c \in Credentials /\ x = Adapter(c)
        BY <1>0
      <4> HIDE DEF c, x
      <4> QED
        BY <4>1, ActivityKinds DEF Reasons
    <3> HIDE DEF x
    <3> QED
      BY <3>2, <3>3
  <2> QED
    BY <1>6, <2>1, ActorStep DEF BuildAdapter
<1>7. CASE LeaveActor(a)
  <2>1. NoActivity \in Activity /\ NoActivity.at = "idle"
    BY DEF Activity, NoActivity
  <2> QED
    BY <1>7, <2>1, ActorStep DEF LeaveActor
<1> QED
  BY <1>1, <1>2, <1>3, <1>4, <1>5, <1>6, <1>7

(* A first credential: a free id of the vault, and a row that names it.    *)
LEMMA CreateConfigInv ==
  ASSUME CredentialInv, NEW a \in Actors, CreateConfig(a)
  PROVE  CredentialInv'
<1> DEFINE s == CHOOSE id \in FreeIds : TRUE
           v == actor[a].value
           row == [secret |-> s, enabled |-> TRUE, lastTest |-> "never"]
<1>0. /\ ProviderTypeOK /\ actor[a] \in Activity /\ actor[a].at = "setting"
      /\ v \in Credentials /\ actor[a].existing = NoConfig
      /\ NoActivity \in Activity /\ NoActivity.at = "idle"
  BY ActivityFields DEF CreateConfig, CredentialInv, ProviderTypeOK, Activity, NoActivity
<1>1. s \in SecretIds /\ vault[s] = Empty
  BY DEF CreateConfig, FreeIds
<1>2. /\ vault' = [vault EXCEPT ![s] = v] /\ config' = row
      /\ configured' = configured \cup {v} /\ UNCHANGED simulated
      /\ actor' = [actor EXCEPT ![a] = NoActivity]
  BY DEF CreateConfig, ActorBecomes
<1>3. row \in ConfigRow /\ row.secret = s /\ row.lastTest = "never"
  BY <1>1 DEF ConfigRow
<1>4. ~IsConfigured
  BY <1>0 DEF CredentialInv, SetterKnowsRow
<1> HIDE DEF s, v, row
<1>5. v # Empty /\ config' # NoConfig
  BY <1>0, <1>2, <1>3, AbsenceAssumption, RowIsNoAbsence
<1>6. ProviderTypeOK'
  BY <1>0, <1>1, <1>2, <1>3 DEF ProviderTypeOK
<1>7. \A b \in Actors : /\ b # a => actor'[b] = actor[b] /\ actor[b].at # "setting"
                        /\ actor'[a].at = "idle"
  BY <1>0, <1>2 DEF ProviderTypeOK, CredentialInv, SetterIsAlone
<1>8. SetterIsAlone' /\ SetterKnowsRow'
  BY <1>7 DEF SetterIsAlone, SetterKnowsRow
<1>9. \A id \in SecretIds : vault'[id] = IF id = s THEN v ELSE vault[id]
  BY <1>0, <1>1, <1>2 DEF ProviderTypeOK
<1>10. SecretsWereConfigured'
  BY <1>2, <1>7, <1>9 DEF SecretsWereConfigured, CredentialInv
<1>11. VaultMatchesConfig'
  BY <1>2, <1>3, <1>4, <1>5, <1>9 DEF VaultMatchesConfig, CredentialInv, IsConfigured
<1>12. SuccessWasEarned'
  BY <1>2, <1>3 DEF SuccessWasEarned
<1> QED
  BY <1>6, <1>8, <1>10, <1>11, <1>12 DEF CredentialInv

(* A replacement: in place, or not at all if the row is gone.              *)
LEMMA ReplaceSecretInv ==
  ASSUME CredentialInv, NEW a \in Actors, ReplaceSecret(a)
  PROVE  CredentialInv'
<1> DEFINE s == actor[a].existing.secret
           v == actor[a].value
<1>0. /\ ProviderTypeOK /\ actor[a] \in Activity /\ actor[a].at = "setting"
      /\ v \in Credentials /\ actor[a].existing # NoConfig
      /\ NoActivity \in Activity /\ NoActivity.at = "idle"
  BY ActivityFields DEF ReplaceSecret, CredentialInv, ProviderTypeOK, Activity, NoActivity
<1>1. IsConfigured => s = config.secret /\ s \in SecretIds
  BY <1>0, ConfigFields DEF CredentialInv, SetterKnowsRow, ProviderTypeOK, IsConfigured
<1>2. /\ IF IsConfigured THEN /\ vault' = [vault EXCEPT ![s] = v]
                              /\ configured' = configured \cup {v}
                         ELSE UNCHANGED <<vault, configured>>
      /\ UNCHANGED <<config, simulated>>
      /\ actor' = [actor EXCEPT ![a] = NoActivity]
  BY DEF ReplaceSecret, ActorBecomes
<1> HIDE DEF s, v
<1>3. v # Empty
  BY <1>0, AbsenceAssumption
<1>4. ProviderTypeOK'
  BY <1>0, <1>1, <1>2 DEF ProviderTypeOK
<1>5. \A b \in Actors : /\ b # a => actor'[b] = actor[b] /\ actor[b].at # "setting"
                        /\ actor'[a].at = "idle"
  BY <1>0, <1>2 DEF ProviderTypeOK, CredentialInv, SetterIsAlone
<1>6. SetterIsAlone' /\ SetterKnowsRow'
  BY <1>5 DEF SetterIsAlone, SetterKnowsRow
<1>7. \A id \in SecretIds :
        vault'[id] = IF IsConfigured /\ id = s THEN v ELSE vault[id]
  BY <1>0, <1>1, <1>2 DEF ProviderTypeOK
<1>8. configured \subseteq configured' /\ (IsConfigured => v \in configured')
  BY <1>2
<1>9. SecretsWereConfigured'
  BY <1>5, <1>7, <1>8 DEF SecretsWereConfigured, CredentialInv
<1>10. VaultMatchesConfig'
  BY <1>1, <1>2, <1>3, <1>7 DEF VaultMatchesConfig, CredentialInv, IsConfigured
<1>11. SuccessWasEarned'
  BY <1>2, <1>8 DEF SuccessWasEarned, CredentialInv, IsConfigured
<1> QED
  BY <1>4, <1>6, <1>9, <1>10, <1>11 DEF CredentialInv

(* The row's switch, its last test or its deletion.                        *)
LEMMA RowInv ==
  ASSUME CredentialInv,
         \/ \E on \in BOOLEAN : SetProviderEnabled(on) \/ SetExecutionMode(on)
         \/ DeleteProviderConfig
         \/ \E a \in Actors : RecordTestResult(a)
  PROVE  CredentialInv'
<1>0. /\ ProviderTypeOK /\ config \in ConfigRow \cup {NoConfig}
      /\ vault \in [SecretIds -> Credentials \cup {Empty}]
      /\ NoActivity \in Activity /\ NoActivity.at = "idle"
  BY DEF CredentialInv, ProviderTypeOK, Activity, NoActivity
<1>1. ASSUME NEW on \in BOOLEAN, SetProviderEnabled(on) PROVE CredentialInv'
  <2>1. /\ config \in ConfigRow /\ config' \in ConfigRow
        /\ config'.secret = config.secret /\ config'.lastTest = config.lastTest
        /\ UNCHANGED <<vault, actor, simulated, configured>>
    BY <1>0, <1>1 DEF SetProviderEnabled, IsConfigured, ConfigRow
  <2>2. IsConfigured /\ IsConfigured'
    BY <2>1, RowIsNoAbsence DEF IsConfigured
  <2>3. ProviderTypeOK'
    BY <1>0, <2>1 DEF ProviderTypeOK
  <2> QED
    BY <2>1, <2>2, <2>3 DEF CredentialInv, SetterIsAlone, SetterKnowsRow,
       SecretsWereConfigured, VaultMatchesConfig, SuccessWasEarned
<1>2. ASSUME NEW on \in BOOLEAN, SetExecutionMode(on) PROVE CredentialInv'
  <2>1. simulated' \in BOOLEAN /\ UNCHANGED <<config, vault, actor, configured>>
    BY <1>2 DEF SetExecutionMode
  <2> QED
    BY <2>1 DEF CredentialInv, ProviderTypeOK, SetterIsAlone, SetterKnowsRow,
       SecretsWereConfigured, VaultMatchesConfig, SuccessWasEarned, IsConfigured
<1>3. CASE DeleteProviderConfig
  <2>1. /\ config # NoConfig /\ config.secret \in SecretIds /\ config' = NoConfig
        /\ vault' = [vault EXCEPT ![config.secret] = Empty]
        /\ UNCHANGED <<actor, simulated, configured>>
    BY <1>0, <1>3, ConfigFields DEF DeleteProviderConfig, DropSecret, IsConfigured
  <2>2. ProviderTypeOK'
    BY <1>0, <2>1 DEF ProviderTypeOK
  <2>3. \A s \in SecretIds : vault'[s] = IF s = config.secret THEN Empty ELSE vault[s]
    BY <1>0, <2>1
  <2>4. VaultMatchesConfig'
    BY <2>1, <2>3 DEF VaultMatchesConfig, CredentialInv, IsConfigured
  <2>5. SecretsWereConfigured'
    BY <2>1, <2>3 DEF SecretsWereConfigured, CredentialInv
  <2> QED
    BY <2>1, <2>2, <2>4, <2>5
       DEF CredentialInv, SetterIsAlone, SetterKnowsRow, SuccessWasEarned, IsConfigured
<1>4. ASSUME NEW a \in Actors, RecordTestResult(a) PROVE CredentialInv'
  <2>1. /\ actor[a].at = "recording"
        /\ actor' = [actor EXCEPT ![a] = NoActivity]
        /\ UNCHANGED <<vault, simulated, configured>>
    BY <1>4 DEF RecordTestResult, ActorBecomes
  <2>2. /\ config' \in ConfigRow \cup {NoConfig}
        /\ IsConfigured' <=> IsConfigured
        /\ IsConfigured => config'.secret = config.secret
        /\ IsConfigured /\ config'.lastTest = "success" => actor[a].ok
    <3>1. CASE IsConfigured
      <4>1. config \in ConfigRow
        BY <1>0, <3>1 DEF IsConfigured
      <4>2. config' = [config EXCEPT !.lastTest =
                         IF actor[a].ok THEN "success" ELSE "failure"]
        BY <1>4, <3>1 DEF RecordTestResult
      <4>3. config' \in ConfigRow /\ config'.secret = config.secret
            /\ (config'.lastTest = "success" => actor[a].ok)
        BY <4>1, <4>2 DEF ConfigRow
      <4> QED
        BY <3>1, <4>3, RowIsNoAbsence DEF IsConfigured
    <3>2. CASE ~IsConfigured
      BY <1>0, <1>4, <3>2 DEF RecordTestResult, IsConfigured
    <3> QED
      BY <3>1, <3>2
  <2>3. ProviderTypeOK'
    BY <1>0, <2>1, <2>2 DEF ProviderTypeOK
  <2>4. \A b \in Actors : actor'[b] = IF b = a THEN NoActivity ELSE actor[b]
    BY <1>0, <2>1 DEF ProviderTypeOK
  <2>5. SetterIsAlone' /\ SetterKnowsRow' /\ SecretsWereConfigured'
    BY <1>0, <2>1, <2>2, <2>4 DEF CredentialInv, SetterIsAlone, SetterKnowsRow,
                                  SecretsWereConfigured
  <2>6. VaultMatchesConfig'
    BY <2>1, <2>2 DEF CredentialInv, VaultMatchesConfig
  <2>7. SuccessWasEarned'
    BY <2>1, <2>2 DEF CredentialInv, SuccessWasEarned, SecretsWereConfigured
  <2> QED
    BY <2>3, <2>5, <2>6, <2>7 DEF CredentialInv
<1> QED
  BY <1>1, <1>2, <1>3, <1>4

LEMMA CredentialStepInv == CredentialInv /\ [ProviderNext]_providerVars => CredentialInv'
<1> SUFFICES ASSUME CredentialInv, [ProviderNext]_providerVars PROVE CredentialInv'
  OBVIOUS
<1>1. CASE UNCHANGED providerVars
  BY <1>1 DEF providerVars, CredentialInv, ProviderTypeOK, SetterIsAlone, SetterKnowsRow,
     SecretsWereConfigured, VaultMatchesConfig, SuccessWasEarned, IsConfigured
<1> QED
  BY <1>1, ActorInv, CreateConfigInv, ReplaceSecretInv, RowInv DEF ProviderNext

(* The inductive invariant of the credential.                              *)
THEOREM CredentialInvariant == ProviderSpec => []CredentialInv
BY CredentialInit, CredentialStepInv, PTL DEF ProviderSpec

(* Replacements, deletions and crashes never leave a secret without its    *)
(* row or a row without its secret (provider_configs.py).                  *)
THEOREM VaultFollowsConfig == ProviderSpec => []VaultMatchesConfig
<1>1. CredentialInv => VaultMatchesConfig
  BY DEF CredentialInv
<1> QED
  BY <1>1, CredentialInvariant, PTL

(* A success on record was earned by a credential the organization had     *)
(* (record_test_result).                                                   *)
THEOREM SuccessIsEarned == ProviderSpec => []SuccessWasEarned
<1>1. CredentialInv => SuccessWasEarned
  BY DEF CredentialInv
<1> QED
  BY <1>1, CredentialInvariant, PTL

-----------------------------------------------------------------------------
(* The targeting profile.                                                  *)

Version == [active : BOOLEAN, described : BOOLEAN, from : Nat]
Proposal ==
  [version : Nat, source : SOURCES, status : {"proposed", "accepted", "rejected"}]

EditorState ==
  {Idle}
  \cup [at : {"interpreting"}, version : Nat, source : SOURCES]
  \cup [at : {"writing"}, described : BOOLEAN, from : Nat]
  \cup [at : {"locked"}, described : BOOLEAN, from : Nat, version : Nat]
  \cup [at : {"created"}, from : Nat]

IcpTypeOK ==
  /\ profiles \in Seq(Version) /\ proposals \in Seq(Proposal)
  /\ request \in [Requests -> EditorState]
  /\ feedback \in [Leads -> SENTIMENTS \cup {NoFeedback}]

(* The advisory lock of create_profile has one holder. *)
EditorIsAlone ==
  \A r, s \in Requests : request[r].at = "locked" /\ request[s].at = "locked" => r = s

(* What is under way, or was applied, names a suggestion that exists, or   *)
(* none.                                                                   *)
SuggestionsAreKnown ==
  /\ \A v \in DOMAIN profiles : profiles[v].from \in DOMAIN proposals \cup {0}
  /\ \A r \in Requests :
       /\ request[r].at \in {"writing", "locked"}
            => request[r].from \in DOMAIN proposals \cup {0}
       /\ request[r].at = "created"
            => request[r].from \in DOMAIN proposals /\ VersionsFrom(request[r].from) # {}

(* A suggestion, made or in the making, is about a version that can be     *)
(* revised.                                                                *)
Revisable(v) == v \in DOMAIN profiles /\ profiles[v].described
SuggestionsAreAboutDrafts ==
  /\ \A p \in DOMAIN proposals : Revisable(proposals[p].version)
  /\ \A r \in Requests : request[r].at = "interpreting" => Revisable(request[r].version)

AppliedLater ==
  \A v \in DOMAIN profiles :
    profiles[v].from # 0 => proposals[profiles[v].from].version < v

(* Every analysis of the feedback that is under way may store one more     *)
(* suggestion.                                                             *)
Analysing(v) ==
  {r \in Requests : /\ request[r].at = "interpreting" /\ request[r].version = v
                    /\ request[r].source = "user_feedback"}
FeedbackIsCounted ==
  \A v \in Nat :
    Cardinality(OpenFeedbackProposals(v)) + Cardinality(Analysing(v)) <= Cardinality(Requests)

(* The inductive invariant. *)
IcpInv ==
  /\ IcpTypeOK /\ EditorIsAlone /\ SuggestionsAreKnown /\ SuggestionsAreAboutDrafts
  /\ AppliedLater /\ FeedbackIsCounted
  /\ NewestVersionRules /\ LockHolderNumbersNext /\ AcceptedIsApplied

LEMMA EditorFields ==
  ASSUME NEW q \in EditorState
  PROVE  /\ q.at = "interpreting" => q.version \in Nat /\ q.source \in SOURCES
         /\ q.at = "writing" => q.described \in BOOLEAN /\ q.from \in Nat
         /\ q.at = "locked" => /\ q.described \in BOOLEAN /\ q.from \in Nat
                               /\ q.version \in Nat
         /\ q.at = "created" => q.from \in Nat
BY DEF EditorState, Idle

LEMMA EditorKinds ==
  /\ Idle \in EditorState /\ Idle.at = "idle"
  /\ \A v \in Nat, s \in SOURCES : Interpreting(v, s) \in EditorState
  /\ \A d \in BOOLEAN, p \in Nat : Writing(d, p) \in EditorState
  /\ \A p \in Nat : Created(p) \in EditorState
BY DEF EditorState, Idle, Interpreting, Writing, Created

(* The active version is the newest one, or there is none.                 *)
LEMMA ActiveIsNewest ==
  ASSUME IcpTypeOK, NewestVersionRules
  PROVE  Active = Len(profiles)
<1>1. Len(profiles) \in Nat /\ DOMAIN profiles = 1 .. Len(profiles)
  BY DEF IcpTypeOK
<1>2. ActiveVersions = {v \in DOMAIN profiles : v = Len(profiles)}
  BY DEF ActiveVersions, NewestVersionRules
<1>3. CASE Len(profiles) = 0
  BY <1>1, <1>2, <1>3 DEF Active
<1>4. CASE Len(profiles) # 0
  <2>1. ActiveVersions = {Len(profiles)}
    BY <1>1, <1>2, <1>4
  <2> QED
    BY <2>1 DEF Active
<1> QED
  BY <1>3, <1>4

LEMMA FiniteSuggestions ==
  ASSUME IcpTypeOK, NEW v
  PROVE  /\ IsFiniteSet(OpenFeedbackProposals(v)) /\ IsFiniteSet(Analysing(v))
         /\ Cardinality(OpenFeedbackProposals(v)) \in Nat
         /\ Cardinality(Analysing(v)) \in Nat /\ Cardinality(Requests) \in Nat
         /\ Cardinality(Analysing(v)) <= Cardinality(Requests)
<1>1. IsFiniteSet(DOMAIN proposals)
  <2>1. Len(proposals) \in Nat /\ DOMAIN proposals = 1 .. Len(proposals)
    BY DEF IcpTypeOK
  <2> QED
    BY <2>1, FS_Interval
<1>2. OpenFeedbackProposals(v) \subseteq DOMAIN proposals /\ Analysing(v) \subseteq Requests
  BY DEF OpenFeedbackProposals, Analysing
<1> QED
  BY <1>1, <1>2, RequestsAssumption, FS_Subset, FS_CardinalityType

(* Fewer open suggestions and fewer analyses are counted too.              *)
LEMMA FewerCounted ==
  ASSUME IcpInv, NEW v \in Nat,
         OpenFeedbackProposals(v)' \subseteq OpenFeedbackProposals(v),
         Analysing(v)' \subseteq Analysing(v)
  PROVE  Cardinality(OpenFeedbackProposals(v)') + Cardinality(Analysing(v)')
           <= Cardinality(Requests)
<1>1. /\ Cardinality(OpenFeedbackProposals(v)') <= Cardinality(OpenFeedbackProposals(v))
      /\ Cardinality(OpenFeedbackProposals(v)') \in Nat
      /\ Cardinality(Analysing(v)') <= Cardinality(Analysing(v))
      /\ Cardinality(Analysing(v)') \in Nat
  BY FiniteSuggestions, FS_Subset, FS_CardinalityType DEF IcpInv
<1>2. Cardinality(OpenFeedbackProposals(v)) + Cardinality(Analysing(v))
        <= Cardinality(Requests)
  BY DEF IcpInv, FeedbackIsCounted
<1> QED
  BY <1>1, <1>2, FiniteSuggestions DEF IcpInv

LEMMA IcpInitInv == IcpInit => IcpInv
<1> SUFFICES ASSUME IcpInit PROVE IcpInv
  OBVIOUS
<1>1. IcpTypeOK
  BY EditorKinds DEF IcpInit, IcpTypeOK
<1>2. /\ Len(profiles) = 0 /\ DOMAIN profiles = {} /\ DOMAIN proposals = {}
      /\ \A r \in Requests : request[r].at = "idle"
  BY EditorKinds DEF IcpInit
<1>3. FeedbackIsCounted
  <2> SUFFICES ASSUME NEW v \in Nat
               PROVE  Cardinality(OpenFeedbackProposals(v)) + Cardinality(Analysing(v))
                        <= Cardinality(Requests)
    BY DEF FeedbackIsCounted
  <2>1. OpenFeedbackProposals(v) = {} /\ Analysing(v) = {}
    BY <1>2 DEF OpenFeedbackProposals, Analysing
  <2> QED
    BY <1>1, <2>1, FS_EmptySet, FiniteSuggestions
<1> QED
  BY <1>1, <1>2, <1>3
     DEF IcpInv, EditorIsAlone, SuggestionsAreKnown, SuggestionsAreAboutDrafts,
         AppliedLater, NewestVersionRules, LockHolderNumbersNext, AcceptedIsApplied

(* A request moves on without writing a version or a suggestion.           *)
LEMMA EditorStep ==
  ASSUME IcpInv, NEW r \in Requests, NEW q \in EditorState, Becomes(r, q),
         UNCHANGED <<profiles, proposals, feedback>>,
         q.at # "created",
         q.at = "locked" => OrgLockFree /\ q.version = Len(profiles),
         q.at \in {"writing", "locked"} => q.from \in DOMAIN proposals \cup {0},
         q.at = "interpreting" =>
           /\ Revisable(q.version)
           /\ q.source = "user_feedback" => OpenFeedbackProposals(q.version) = {}
  PROVE  IcpInv'
<1>0. IcpTypeOK
  BY DEF IcpInv
<1>1. \A s \in Requests : request'[s] = IF s = r THEN q ELSE request[s]
  BY <1>0 DEF IcpTypeOK, Becomes
<1>2. IcpTypeOK'
  BY <1>0 DEF IcpTypeOK, Becomes
<1>3. EditorIsAlone'
  BY <1>1 DEF IcpInv, EditorIsAlone, OrgLockFree
<1>4. SuggestionsAreKnown'
  BY <1>1 DEF IcpInv, SuggestionsAreKnown, VersionsFrom
<1>5. SuggestionsAreAboutDrafts'
  BY <1>1 DEF IcpInv, SuggestionsAreAboutDrafts, Revisable
<1>6. AppliedLater' /\ NewestVersionRules' /\ AcceptedIsApplied'
  BY DEF IcpInv, AppliedLater, NewestVersionRules, AcceptedIsApplied, VersionsFrom
<1>7. LockHolderNumbersNext'
  BY <1>1 DEF IcpInv, LockHolderNumbersNext
<1>8. FeedbackIsCounted'
  <2> SUFFICES ASSUME NEW v \in Nat
               PROVE  Cardinality(OpenFeedbackProposals(v)') + Cardinality(Analysing(v)')
                        <= Cardinality(Requests)
    BY DEF FeedbackIsCounted
  <2>1. OpenFeedbackProposals(v)' = OpenFeedbackProposals(v)
    BY DEF OpenFeedbackProposals, IsOpen
  <2>2. CASE q.at = "interpreting" /\ q.source = "user_feedback" /\ q.version = v
    <3>1. OpenFeedbackProposals(v)' = {}
      BY <2>1, <2>2
    <3>2. Cardinality(Analysing(v)') <= Cardinality(Requests)
          /\ Cardinality(Analysing(v)') \in Nat
      <4>1. Analysing(v)' \subseteq Requests
        BY DEF Analysing
      <4> QED
        BY <4>1, RequestsAssumption, FS_Subset, FS_CardinalityType
    <3>3. Cardinality({}) = 0
      BY FS_EmptySet
    <3> QED
      BY <1>0, <3>1, <3>2, <3>3, FiniteSuggestions
  <2>3. CASE ~(q.at = "interpreting" /\ q.source = "user_feedback" /\ q.version = v)
    <3>1. Analysing(v)' \subseteq Analysing(v)
      BY <1>1, <2>3 DEF Analysing
    <3> QED
      BY <2>1, <3>1, FewerCounted
  <2> QED
    BY <2>2, <2>3
<1> QED
  BY <1>2, <1>3, <1>4, <1>5, <1>6, <1>7, <1>8 DEF IcpInv

LEMMA EditorInv ==
  ASSUME IcpInv, NEW r \in Requests,
         \/ \E d \in BOOLEAN : SubmitProfile(r, d)
         \/ BeginCreateProfile(r)
         \/ \E s \in SOURCES : BeginAnalysis(r, s)
         \/ \E p \in DOMAIN proposals : BeginAccept(r, p)
         \/ Leave(r)
  PROVE  IcpInv'
<1>0. /\ IcpTypeOK /\ request[r] \in EditorState
      /\ Len(profiles) \in Nat /\ DOMAIN profiles = 1 .. Len(profiles)
      /\ DOMAIN proposals \subseteq Nat
      /\ Active = Len(profiles)
  BY ActiveIsNewest DEF IcpInv, IcpTypeOK
<1>1. ASSUME NEW d \in BOOLEAN, SubmitProfile(r, d) PROVE IcpInv'
  <2>1. Writing(d, 0) \in EditorState /\ Writing(d, 0).at = "writing" /\ Writing(d, 0).from = 0
    BY EditorKinds DEF Writing
  <2> QED
    BY <1>1, <2>1, EditorStep DEF SubmitProfile
<1>2. CASE BeginCreateProfile(r)
  <2> DEFINE q == Locked(request[r], Len(profiles))
  <2>1. /\ request[r].described \in BOOLEAN /\ request[r].from \in Nat
        /\ request[r].from \in DOMAIN proposals \cup {0}
    BY <1>0, <1>2, EditorFields DEF BeginCreateProfile, IcpInv, SuggestionsAreKnown
  <2>2. /\ q \in EditorState /\ q.at = "locked" /\ q.from = request[r].from
        /\ q.version = Len(profiles)
    BY <1>0, <2>1 DEF Locked, EditorState
  <2>3. OrgLockFree /\ Becomes(r, q) /\ UNCHANGED <<profiles, proposals, feedback>>
    BY <1>2 DEF BeginCreateProfile
  <2> HIDE DEF q
  <2> QED
    BY <2>1, <2>2, <2>3, EditorStep
<1>3. ASSUME NEW s \in SOURCES, BeginAnalysis(r, s) PROVE IcpInv'
  <2> DEFINE q == Interpreting(Active, s)
  <2>1. /\ q \in EditorState /\ q.at = "interpreting" /\ q.version = Active
        /\ q.source = s
    BY <1>0, EditorKinds DEF Interpreting
  <2>2. Becomes(r, q) /\ UNCHANGED <<profiles, proposals, feedback>>
    BY <1>3 DEF BeginAnalysis
  <2>3. /\ Revisable(Active)
        /\ s = "user_feedback" => OpenFeedbackProposals(Active) = {}
    BY <1>0, <1>3 DEF BeginAnalysis, Revisable, StoredDraft, FindOpenFeedbackProposal
  <2> HIDE DEF q
  <2> QED
    BY <2>1, <2>2, <2>3, EditorStep
<1>4. ASSUME NEW p \in DOMAIN proposals, BeginAccept(r, p) PROVE IcpInv'
  <2>1. Writing(TRUE, p) \in EditorState /\ Writing(TRUE, p).at = "writing"
        /\ Writing(TRUE, p).from = p
    BY <1>0, EditorKinds DEF Writing
  <2> QED
    BY <1>4, <2>1, EditorStep DEF BeginAccept, Accepted
<1>5. CASE Leave(r)
  BY <1>5, EditorKinds, EditorStep DEF Leave
<1> QED
  BY <1>1, <1>2, <1>3, <1>4, <1>5

(* Retiring the active version changes nothing else of any version.        *)
LEMMA RetireActiveKeeps ==
  ASSUME profiles \in Seq(Version)
  PROVE  /\ RetireActive \in Seq(Version) /\ Len(RetireActive) = Len(profiles)
         /\ \A v \in DOMAIN profiles :
              /\ RetireActive[v].active = FALSE
              /\ RetireActive[v].described = profiles[v].described
              /\ RetireActive[v].from = profiles[v].from
<1> DEFINE n == Len(profiles)
<1>0. n \in Nat /\ DOMAIN profiles = 1 .. n
  OBVIOUS
<1>1. \A v \in DOMAIN profiles : profiles[v] \in Version
  OBVIOUS
<1>2. \A v \in DOMAIN profiles :
        /\ [profiles[v] EXCEPT !.active = FALSE] \in Version
        /\ [profiles[v] EXCEPT !.active = FALSE].active = FALSE
        /\ [profiles[v] EXCEPT !.active = FALSE].described = profiles[v].described
        /\ [profiles[v] EXCEPT !.active = FALSE].from = profiles[v].from
  BY <1>1 DEF Version
<1>3. RetireActive = [v \in 1 .. n |-> [profiles[v] EXCEPT !.active = FALSE]]
  BY <1>0 DEF RetireActive
<1> HIDE DEF n
<1>4. RetireActive \in Seq(Version) /\ Len(RetireActive) = n
  BY <1>0, <1>2, <1>3
<1> QED
  BY <1>0, <1>2, <1>3, <1>4 DEF n

(* The next version, by the holder of the lock.                            *)
LEMMA CommitCreateProfileInv ==
  ASSUME IcpInv, NEW r \in Requests, CommitCreateProfile(r)
  PROVE  IcpInv'
<1> DEFINE n == Len(profiles)
           p == request[r].from
           row == [active |-> TRUE, described |-> request[r].described, from |-> p]
           q == IF p = 0 THEN Idle ELSE Created(p)
<1>0. /\ IcpTypeOK /\ request[r] \in EditorState /\ request[r].at = "locked"
      /\ profiles \in Seq(Version) /\ n \in Nat /\ DOMAIN profiles = 1 .. n
      /\ profiles' = Append(RetireActive, row) /\ Becomes(r, q)
      /\ UNCHANGED <<proposals, feedback>>
  BY DEF CommitCreateProfile, IcpInv, IcpTypeOK
<1>1. p \in DOMAIN proposals \cup {0} /\ p \in Nat /\ request[r].described \in BOOLEAN
  BY <1>0, EditorFields DEF IcpInv, SuggestionsAreKnown
<1>2. row \in Version /\ row.active = TRUE /\ row.from = p
  BY <1>1 DEF Version
<1>3. q \in EditorState /\ q.at \in {"idle", "created"} /\ (q.at = "created" => q.from = p /\ p # 0)
  BY <1>1, EditorKinds DEF Created
<1> HIDE DEF n, p, row, q
<1>4. /\ RetireActive \in Seq(Version) /\ Len(RetireActive) = n
      /\ \A v \in DOMAIN profiles :
           /\ RetireActive[v].active = FALSE
           /\ RetireActive[v].described = profiles[v].described
           /\ RetireActive[v].from = profiles[v].from
  BY <1>0, RetireActiveKeeps DEF n
<1>5. /\ profiles' \in Seq(Version) /\ Len(profiles') = n + 1
      /\ DOMAIN profiles' = 1 .. n + 1
      /\ profiles'[n + 1] = row
      /\ \A v \in DOMAIN profiles :
           /\ v \in DOMAIN profiles' /\ v # n + 1
           /\ profiles'[v].active = FALSE
           /\ profiles'[v].described = profiles[v].described
           /\ profiles'[v].from = profiles[v].from
      /\ \A v \in DOMAIN profiles' : v \in DOMAIN profiles \/ v = n + 1
  BY <1>0, <1>2, <1>4
<1>6. \A s \in Requests : request'[s] = IF s = r THEN q ELSE request[s]
  BY <1>0 DEF IcpTypeOK, Becomes
<1>7. IcpTypeOK'
  BY <1>0, <1>3, <1>5 DEF IcpTypeOK, Becomes
<1>8. \A s \in Requests : s # r => request[s].at # "locked"
  BY <1>0 DEF IcpInv, EditorIsAlone
<1>9. EditorIsAlone' /\ LockHolderNumbersNext'
  BY <1>3, <1>6, <1>8 DEF EditorIsAlone, LockHolderNumbersNext
<1>10. NewestVersionRules'
  BY <1>0, <1>2, <1>5 DEF NewestVersionRules
<1>11. \A x : x = p \/ VersionsFrom(x) # {} => VersionsFrom(x)' # {}
  <2>1. \A x : VersionsFrom(x) \subseteq VersionsFrom(x)'
    BY <1>5 DEF VersionsFrom
  <2>2. \A x : x = p => n + 1 \in VersionsFrom(x)'
    BY <1>0, <1>2, <1>5 DEF VersionsFrom
  <2> QED
    BY <2>1, <2>2
<1>12. AcceptedIsApplied'
  BY <1>0, <1>11 DEF IcpInv, AcceptedIsApplied
<1>13. SuggestionsAreKnown'
  <2>1. \A v \in DOMAIN profiles' : profiles'[v].from \in DOMAIN proposals \cup {0}
    BY <1>1, <1>2, <1>5 DEF IcpInv, SuggestionsAreKnown
  <2>2. \A s \in Requests : request'[s].at \in {"writing", "locked"}
          => request'[s].from \in DOMAIN proposals \cup {0}
    BY <1>3, <1>6 DEF IcpInv, SuggestionsAreKnown
  <2>3. ASSUME NEW s \in Requests, request'[s].at = "created"
        PROVE  request'[s].from \in DOMAIN proposals /\ VersionsFrom(request[s].from)' # {}
    <3>1. \/ request'[s].from = p /\ p \in DOMAIN proposals
          \/ /\ request'[s].from = request[s].from /\ request[s].from \in DOMAIN proposals
             /\ VersionsFrom(request[s].from) # {}
      BY <1>1, <1>3, <1>6, <2>3 DEF IcpInv, SuggestionsAreKnown
    <3> QED
      BY <1>11, <3>1 DEF VersionsFrom
  <2> QED
    BY <1>0, <2>1, <2>2, <2>3 DEF SuggestionsAreKnown
<1>14. SuggestionsAreAboutDrafts'
  BY <1>0, <1>3, <1>5, <1>6 DEF IcpInv, SuggestionsAreAboutDrafts, Revisable
<1>15. AppliedLater'
  <2>1. p # 0 => proposals[p].version \in 1 .. n
    BY <1>0, <1>1 DEF IcpInv, SuggestionsAreAboutDrafts, Revisable
  <2> QED
    BY <1>0, <1>2, <1>5, <2>1 DEF IcpInv, AppliedLater
<1>16. FeedbackIsCounted'
  <2> SUFFICES ASSUME NEW v \in Nat
               PROVE  Cardinality(OpenFeedbackProposals(v)') + Cardinality(Analysing(v)')
                        <= Cardinality(Requests)
    BY DEF FeedbackIsCounted
  <2>1. OpenFeedbackProposals(v)' = OpenFeedbackProposals(v)
    BY <1>0 DEF OpenFeedbackProposals, IsOpen
  <2>2. Analysing(v)' \subseteq Analysing(v)
    BY <1>3, <1>6 DEF Analysing
  <2> QED
    BY <2>1, <2>2, FewerCounted
<1> QED
  BY <1>7, <1>9, <1>10, <1>12, <1>13, <1>14, <1>15, <1>16 DEF IcpInv

(* A suggestion is stored, whatever has become of its version meanwhile.   *)
LEMMA CreateProposalInv ==
  ASSUME IcpInv, NEW r \in Requests, CreateProposal(r)
  PROVE  IcpInv'
<1> DEFINE n == Len(proposals)
           row == [version |-> request[r].version, source |-> request[r].source,
                   status |-> "proposed"]
<1>0. /\ IcpTypeOK /\ request[r] \in EditorState /\ request[r].at = "interpreting"
      /\ proposals \in Seq(Proposal) /\ n \in Nat /\ DOMAIN proposals = 1 .. n
      /\ proposals' = Append(proposals, row) /\ Becomes(r, Idle)
      /\ UNCHANGED <<profiles, feedback>>
  BY DEF CreateProposal, IcpInv, IcpTypeOK
<1>1. /\ row \in Proposal /\ row.status = "proposed"
      /\ row.version = request[r].version /\ row.source = request[r].source
      /\ Revisable(row.version)
  BY <1>0, EditorFields DEF Proposal, IcpInv, SuggestionsAreAboutDrafts
<1>2. row.version = request[r].version /\ row.source = request[r].source
  BY <1>1
<1> HIDE DEF n, row
<1>3. /\ proposals' \in Seq(Proposal) /\ DOMAIN proposals' = 1 .. n + 1
      /\ proposals'[n + 1] = row
      /\ \A p \in DOMAIN proposals : p \in DOMAIN proposals' /\ p # n + 1
                                     /\ proposals'[p] = proposals[p]
      /\ \A p \in DOMAIN proposals' : p \in DOMAIN proposals \/ p = n + 1
  BY <1>0, <1>1
<1>4. \A s \in Requests : request'[s] = IF s = r THEN Idle ELSE request[s]
  BY <1>0 DEF IcpTypeOK, Becomes
<1>5. IcpTypeOK'
  BY <1>0, <1>3, EditorKinds DEF IcpTypeOK, Becomes
<1>6. EditorIsAlone' /\ LockHolderNumbersNext' /\ NewestVersionRules'
  BY <1>0, <1>4, EditorKinds DEF IcpInv, EditorIsAlone, LockHolderNumbersNext,
                                 NewestVersionRules
<1>7. SuggestionsAreKnown'
  <2>1. \A v \in DOMAIN profiles : profiles[v].from \in DOMAIN proposals' \cup {0}
    BY <1>3 DEF IcpInv, SuggestionsAreKnown
  <2>2. ASSUME NEW s \in Requests
        PROVE  /\ request'[s].at \in {"writing", "locked"}
                    => request'[s].from \in DOMAIN proposals' \cup {0}
               /\ request'[s].at = "created"
                    => /\ request'[s].from \in DOMAIN proposals'
                       /\ VersionsFrom(request'[s].from) # {}
    BY <1>3, <1>4, EditorKinds DEF IcpInv, SuggestionsAreKnown
  <2> QED
    BY <1>0, <2>1, <2>2 DEF SuggestionsAreKnown, VersionsFrom
<1>8. SuggestionsAreAboutDrafts'
  BY <1>0, <1>1, <1>3, <1>4, EditorKinds DEF IcpInv, SuggestionsAreAboutDrafts, Revisable
<1>9. AppliedLater'
  <2>1. \A v \in DOMAIN profiles : profiles[v].from # 0 => profiles[v].from \in DOMAIN proposals
    BY DEF IcpInv, SuggestionsAreKnown
  <2> QED
    BY <1>0, <1>3, <2>1 DEF IcpInv, AppliedLater
<1>10. AcceptedIsApplied'
  <2>1. \A x : VersionsFrom(x)' = VersionsFrom(x)
    BY <1>0 DEF VersionsFrom
  <2> QED
    BY <1>1, <1>3, <2>1 DEF IcpInv, AcceptedIsApplied
<1>11. FeedbackIsCounted'
  <2> SUFFICES ASSUME NEW v \in Nat
               PROVE  Cardinality(OpenFeedbackProposals(v)') + Cardinality(Analysing(v)')
                        <= Cardinality(Requests)
    BY DEF FeedbackIsCounted
  <2>1. CASE row.source = "user_feedback" /\ row.version = v
    <3>1. OpenFeedbackProposals(v)' = OpenFeedbackProposals(v) \cup {n + 1}
      BY <1>0, <1>1, <1>3, <2>1 DEF OpenFeedbackProposals, IsOpen
    <3>2. r \in Analysing(v) /\ Analysing(v)' = Analysing(v) \ {r}
      BY <1>0, <1>2, <1>4, <2>1, EditorKinds DEF Analysing
    <3>3. /\ Cardinality(OpenFeedbackProposals(v)')
               \in {Cardinality(OpenFeedbackProposals(v)), Cardinality(OpenFeedbackProposals(v)) + 1}
          /\ Cardinality(Analysing(v)') = Cardinality(Analysing(v)) - 1
      <4>1. Cardinality(OpenFeedbackProposals(v) \cup {n + 1})
              \in {Cardinality(OpenFeedbackProposals(v)),
                   Cardinality(OpenFeedbackProposals(v)) + 1}
        BY <1>0, FiniteSuggestions, FS_AddElement
      <4>2. Cardinality(Analysing(v) \ {r}) = Cardinality(Analysing(v)) - 1
        BY <1>0, <3>2, FiniteSuggestions, FS_RemoveElement
      <4> QED
        BY <3>1, <3>2, <4>1, <4>2
    <3>4. Cardinality(OpenFeedbackProposals(v)) + Cardinality(Analysing(v))
            <= Cardinality(Requests)
      BY DEF IcpInv, FeedbackIsCounted
    <3> QED
      BY <1>0, <3>3, <3>4, FiniteSuggestions
  <2>2. CASE ~(row.source = "user_feedback" /\ row.version = v)
    <3>1. OpenFeedbackProposals(v)' \subseteq OpenFeedbackProposals(v)
      BY <1>0, <1>3, <2>2 DEF OpenFeedbackProposals, IsOpen
    <3>2. Analysing(v)' \subseteq Analysing(v)
      BY <1>4, EditorKinds DEF Analysing
    <3> QED
      BY <3>1, <3>2, FewerCounted
  <2> QED
    BY <2>1, <2>2
<1> QED
  BY <1>5, <1>6, <1>7, <1>8, <1>9, <1>10, <1>11 DEF IcpInv

(* An answer: the status of a suggestion that was open.                    *)
LEMMA ResolveStep ==
  ASSUME IcpInv, NEW p \in DOMAIN proposals, NEW st \in {"accepted", "rejected"},
         Resolve(p, st), UNCHANGED <<profiles, feedback>>,
         st = "accepted" => VersionsFrom(p) # {},
         \/ UNCHANGED request
         \/ \E r \in Requests : Becomes(r, Idle)
  PROVE  IcpInv'
<1>0. /\ IcpTypeOK /\ proposals \in Seq(Proposal)
      /\ Len(proposals) \in Nat /\ DOMAIN proposals = 1 .. Len(proposals)
      /\ request \in [Requests -> EditorState]
  BY DEF IcpInv, IcpTypeOK
<1>1. /\ proposals' \in Seq(Proposal) /\ DOMAIN proposals' = DOMAIN proposals
      /\ \A x \in DOMAIN proposals :
           /\ proposals'[x].version = proposals[x].version
           /\ proposals'[x].source = proposals[x].source
           /\ \/ proposals'[x].status = proposals[x].status
              \/ x = p /\ proposals'[x].status = st
  <2>1. CASE ~Resolvable(p)
    BY <1>0, <2>1 DEF Resolve
  <2>2. CASE Resolvable(p)
    <3>1. proposals[p] \in Proposal
      BY <1>0
    <3>2. proposals' = [proposals EXCEPT ![p] = [proposals[p] EXCEPT !.status = st]]
      BY <2>2 DEF Resolve
    <3>3. /\ [proposals[p] EXCEPT !.status = st] \in Proposal
          /\ [proposals[p] EXCEPT !.status = st].status = st
          /\ [proposals[p] EXCEPT !.status = st].version = proposals[p].version
          /\ [proposals[p] EXCEPT !.status = st].source = proposals[p].source
      BY <3>1 DEF Proposal
    <3> QED
      BY <1>0, <3>2, <3>3
  <2> QED
    BY <2>1, <2>2
<1>2. /\ request' \in [Requests -> EditorState]
      /\ \A s \in Requests : request'[s] = request[s] \/ request'[s] = Idle
  BY <1>0, EditorKinds DEF Becomes
<1>3. IcpTypeOK'
  BY <1>0, <1>1, <1>2 DEF IcpTypeOK
<1>4. \A x : VersionsFrom(x)' = VersionsFrom(x)
  BY DEF VersionsFrom
<1>5. EditorIsAlone' /\ LockHolderNumbersNext' /\ NewestVersionRules'
  BY <1>2, EditorKinds DEF IcpInv, EditorIsAlone, LockHolderNumbersNext,
                           NewestVersionRules
<1>6. SuggestionsAreKnown'
  <2>1. ASSUME NEW s \in Requests
        PROVE  /\ request'[s].at \in {"writing", "locked"}
                    => request'[s].from \in DOMAIN proposals' \cup {0}
               /\ request'[s].at = "created"
                    => /\ request'[s].from \in DOMAIN proposals'
                       /\ VersionsFrom(request'[s].from) # {}
    BY <1>1, <1>2, EditorKinds DEF IcpInv, SuggestionsAreKnown
  <2> QED
    BY <1>1, <2>1 DEF IcpInv, SuggestionsAreKnown, VersionsFrom
<1>7. SuggestionsAreAboutDrafts'
  BY <1>1, <1>2, EditorKinds DEF IcpInv, SuggestionsAreAboutDrafts, Revisable
<1>8. AppliedLater'
  <2>1. \A v \in DOMAIN profiles : profiles[v].from # 0 => profiles[v].from \in DOMAIN proposals
    BY DEF IcpInv, SuggestionsAreKnown
  <2> QED
    BY <1>1, <2>1 DEF IcpInv, AppliedLater
<1>9. AcceptedIsApplied'
  BY <1>1, <1>4 DEF IcpInv, AcceptedIsApplied
<1>10. FeedbackIsCounted'
  <2> SUFFICES ASSUME NEW v \in Nat
               PROVE  Cardinality(OpenFeedbackProposals(v)') + Cardinality(Analysing(v)')
                        <= Cardinality(Requests)
    BY DEF FeedbackIsCounted
  <2>1. OpenFeedbackProposals(v)' \subseteq OpenFeedbackProposals(v)
    BY <1>1 DEF OpenFeedbackProposals, IsOpen
  <2>2. Analysing(v)' \subseteq Analysing(v)
    BY <1>2, EditorKinds DEF Analysing
  <2> QED
    BY <2>1, <2>2, FewerCounted
<1> QED
  BY <1>3, <1>5, <1>6, <1>7, <1>8, <1>9, <1>10 DEF IcpInv

LEMMA IcpStepInv == IcpInv /\ [IcpNext]_icpVars => IcpInv'
<1> SUFFICES ASSUME IcpInv, [IcpNext]_icpVars PROVE IcpInv'
  OBVIOUS
<1>1. CASE UNCHANGED icpVars
  BY <1>1 DEF icpVars, IcpInv, IcpTypeOK, EditorIsAlone, SuggestionsAreKnown,
     SuggestionsAreAboutDrafts, Revisable, AppliedLater, FeedbackIsCounted,
     OpenFeedbackProposals, IsOpen, Analysing, NewestVersionRules,
     LockHolderNumbersNext, AcceptedIsApplied, VersionsFrom
<1>2. ASSUME NEW r \in Requests, ResolveAccepted(r) PROVE IcpInv'
  <2>1. /\ request[r].at = "created" /\ request[r].from \in DOMAIN proposals
        /\ VersionsFrom(request[r].from) # {}
    BY <1>2 DEF ResolveAccepted, IcpInv, SuggestionsAreKnown
  <2> QED
    BY <1>2, <2>1, ResolveStep DEF ResolveAccepted
<1>3. ASSUME NEW r \in Requests, NEW p \in DOMAIN proposals, RejectProposal(r, p)
      PROVE  IcpInv'
  BY <1>3, ResolveStep DEF RejectProposal
<1>4. ASSUME NEW l \in Leads, NEW s \in SENTIMENTS, SubmitFeedback(l, s) PROVE IcpInv'
  <2>1. UNCHANGED <<profiles, proposals, request>>
        /\ feedback' = [feedback EXCEPT ![l] = s]
    BY <1>4 DEF SubmitFeedback
  <2>2. IcpTypeOK'
    BY <2>1 DEF IcpInv, IcpTypeOK
  <2> QED
    BY <2>1, <2>2 DEF IcpInv, EditorIsAlone, SuggestionsAreKnown,
     SuggestionsAreAboutDrafts, Revisable, AppliedLater, FeedbackIsCounted,
     OpenFeedbackProposals, IsOpen, Analysing, NewestVersionRules,
     LockHolderNumbersNext, AcceptedIsApplied, VersionsFrom
<1> QED
  BY <1>1, <1>2, <1>3, <1>4, EditorInv, CommitCreateProfileInv, CreateProposalInv
     DEF IcpNext

(* The inductive invariant of the targeting profile.                       *)
THEOREM IcpInvariant == IcpSpec => []IcpInv
BY IcpInitInv, IcpStepInv, PTL DEF IcpSpec

(* What the invariant says of versions and suggestions.                    *)
LEMMA IcpInvIsSound ==
  ASSUME IcpInv
  PROVE  /\ NewestVersionRules /\ LockHolderNumbersNext
         /\ AcceptedIsApplied /\ SuggestionsLookBack /\ OpenFeedbackBounded
<1>1. NewestVersionRules /\ LockHolderNumbersNext /\ AcceptedIsApplied
  BY DEF IcpInv
<1>2. SuggestionsLookBack
  <2>1. \A v \in DOMAIN profiles : profiles[v].from # 0 => profiles[v].from \in DOMAIN proposals
    BY DEF IcpInv, SuggestionsAreKnown
  <2> QED
    BY <2>1 DEF SuggestionsLookBack, IcpInv, AppliedLater, SuggestionsAreAboutDrafts, Revisable
<1>3. OpenFeedbackBounded
  <2> SUFFICES ASSUME NEW v \in DOMAIN profiles
               PROVE  Cardinality(OpenFeedbackProposals(v)) <= Cardinality(Requests)
    BY DEF OpenFeedbackBounded
  <2>1. IcpTypeOK /\ v \in Nat
    BY DEF IcpInv, IcpTypeOK
  <2>2. Cardinality(OpenFeedbackProposals(v)) + Cardinality(Analysing(v))
          <= Cardinality(Requests)
    BY <2>1 DEF IcpInv, FeedbackIsCounted
  <2> QED
    BY <2>1, <2>2, FiniteSuggestions
<1> QED
  BY <1>1, <1>2, <1>3

(* The newest version rules, whoever edits at once (create_profile).       *)
THEOREM NewestVersionAlwaysRules == IcpSpec => []NewestVersionRules
<1>1. IcpInv => NewestVersionRules
  BY DEF IcpInv
<1> QED
  BY <1>1, IcpInvariant, PTL

-----------------------------------------------------------------------------
(* A version keeps its content and is retired once.                        *)
LEMMA VersionStep ==
  ASSUME IcpInv, [IcpNext]_icpVars, NEW v \in DOMAIN profiles
  PROVE  /\ v \in DOMAIN profiles'
         /\ profiles'[v].described = profiles[v].described
         /\ profiles'[v].from = profiles[v].from
         /\ profiles'[v].active => profiles[v].active
<1>1. CASE UNCHANGED profiles
  BY <1>1
<1>2. ASSUME NEW r \in Requests, CommitCreateProfile(r)
      PROVE  /\ v \in DOMAIN profiles'
             /\ profiles'[v].described = profiles[v].described
             /\ profiles'[v].from = profiles[v].from
             /\ profiles'[v].active => profiles[v].active
  <2> DEFINE row == [active |-> TRUE, described |-> request[r].described,
                     from |-> request[r].from]
  <2>1. /\ IcpTypeOK /\ profiles \in Seq(Version) /\ request[r] \in EditorState
        /\ request[r].at = "locked" /\ profiles' = Append(RetireActive, row)
    BY <1>2 DEF CommitCreateProfile, IcpInv, IcpTypeOK
  <2>2. request[r].from \in Nat /\ request[r].described \in BOOLEAN
    BY <2>1, EditorFields DEF IcpInv, SuggestionsAreKnown
  <2>3. row \in Version
    BY <2>2 DEF Version
  <2> HIDE DEF row
  <2>4. v \in DOMAIN profiles' /\ profiles'[v] = RetireActive[v]
    BY <2>1, <2>3, RetireActiveKeeps
  <2> QED
    BY <2>1, <2>4, RetireActiveKeeps
<1> QED
  BY <1>1, <1>2
     DEF IcpNext, icpVars, SubmitProfile, BeginCreateProfile, BeginAnalysis,
         CreateProposal, RejectProposal, BeginAccept, ResolveAccepted, Leave,
         SubmitFeedback

(* A suggestion that was applied is behind the active version, so nobody   *)
(* who looks after that accepts it.                                        *)
LEMMA AcceptingStep ==
  ASSUME IcpInv, [IcpNext]_icpVars, NEW r \in Requests, NEW p \in DOMAIN proposals,
         request[r] = Idle, request'[r] = Writing(TRUE, p)
  PROVE  VersionsFrom(p) = {}
<1>0. /\ IcpTypeOK /\ p \in Nat /\ p # 0 /\ request \in [Requests -> EditorState]
      /\ Len(profiles) \in Nat /\ DOMAIN profiles = 1 .. Len(profiles)
      /\ Active = Len(profiles)
  BY ActiveIsNewest DEF IcpInv, IcpTypeOK
<1>1. Idle.at = "idle" /\ Writing(TRUE, p).at = "writing" /\ Writing(TRUE, p).from = p
  BY DEF Idle, Writing
<1>2. \E x \in DOMAIN proposals : BeginAccept(r, x) /\ Writing(TRUE, x).from = p
  <2>1. ASSUME NEW s \in Requests, NEW q, Becomes(s, q), q.at # "writing" \/ s # r
        PROVE  FALSE
    BY <1>0, <1>1, <2>1 DEF Becomes
  <2>2. ASSUME UNCHANGED request PROVE FALSE
    BY <1>1, <2>2
  <2>3. ASSUME NEW s \in Requests, NEW d \in BOOLEAN, SubmitProfile(s, d) PROVE FALSE
    <3>1. Writing(d, 0).from = 0
      BY DEF Writing
    <3> QED
      BY <1>0, <1>1, <2>1, <2>3, <3>1 DEF SubmitProfile, Becomes
  <2>4. ASSUME NEW s \in Requests, BeginCreateProfile(s) PROVE FALSE
    BY <2>1, <2>4 DEF BeginCreateProfile, Locked
  <2>5. ASSUME NEW s \in Requests, CommitCreateProfile(s) PROVE FALSE
    <3> DEFINE q == IF request[s].from = 0 THEN Idle ELSE Created(request[s].from)
    <3>1. Becomes(s, q)
      BY <2>5 DEF CommitCreateProfile
    <3>2. q.at # "writing"
      BY <1>1 DEF Created
    <3> HIDE DEF q
    <3> QED
      BY <2>1, <3>1, <3>2
  <2>6. ASSUME NEW s \in Requests, NEW x \in SOURCES, BeginAnalysis(s, x) PROVE FALSE
    BY <2>1, <2>6 DEF BeginAnalysis, Interpreting
  <2>7. ASSUME NEW s \in Requests, CreateProposal(s) \/ ResolveAccepted(s) \/ Leave(s)
        PROVE  FALSE
    BY <1>1, <2>1, <2>7 DEF CreateProposal, ResolveAccepted, Leave
  <2>8. PICK s \in Requests, x \in DOMAIN proposals : BeginAccept(s, x)
    BY <2>2, <2>3, <2>4, <2>5, <2>6, <2>7
       DEF IcpNext, icpVars, RejectProposal, SubmitFeedback
  <2>9. s = r
    BY <1>0, <1>1, <2>8 DEF BeginAccept, Becomes
  <2>10. Writing(TRUE, x) = Writing(TRUE, p)
    BY <1>0, <2>8, <2>9 DEF BeginAccept, Becomes
  <2> QED
    BY <1>1, <2>8, <2>9, <2>10
<1>3. BeginAccept(r, p)
  <2>1. \A x \in DOMAIN proposals : Writing(TRUE, x).from = x
    BY DEF Writing
  <2> QED
    BY <1>2, <2>1
<1>4. proposals[p].version = Len(profiles)
  BY <1>0, <1>3 DEF BeginAccept, VersionMatches
<1> SUFFICES ASSUME NEW v \in VersionsFrom(p) PROVE FALSE
  OBVIOUS
<1>5. v \in DOMAIN profiles /\ profiles[v].from = p
  BY DEF VersionsFrom
<1> QED
  BY <1>0, <1>4, <1>5 DEF IcpInv, AppliedLater

(* An answer is final. *)
LEMMA AnswerStep ==
  ASSUME IcpInv, [IcpNext]_icpVars, NEW p \in DOMAIN proposals, ~IsOpen(p)
  PROVE  proposals'[p] = proposals[p]
<1>0. IcpTypeOK /\ proposals \in Seq(Proposal)
  BY DEF IcpInv, IcpTypeOK
<1>1. CASE UNCHANGED proposals
  BY <1>1
<1>2. ASSUME NEW x, NEW st, Resolve(x, st) PROVE proposals'[p] = proposals[p]
  BY <1>0, <1>2 DEF Resolve, Resolvable
<1>3. ASSUME NEW r \in Requests, CreateProposal(r) PROVE proposals'[p] = proposals[p]
  <2>1. PICK row : proposals' = Append(proposals, row)
    BY <1>3 DEF CreateProposal
  <2> QED
    BY <1>0, <2>1
<1> QED
  BY <1>1, <1>2, <1>3
     DEF IcpNext, icpVars, SubmitProfile, BeginCreateProfile, BeginAnalysis,
         CommitCreateProfile, RejectProposal, BeginAccept, Accepted, ResolveAccepted,
         Leave, SubmitFeedback

-----------------------------------------------------------------------------
(* Intake: the states of the tables and of the requests.                   *)
LeadState == [batch : Batches \cup {NoBatch}, month : Nat, counted : BOOLEAN]

IngestingState ==
  [at : {"ingesting"}, rows : Seq(Rows), batch : Batches \cup {NoBatch},
   counted : BOOLEAN]
ResolvedState ==
  [at : {"resolved"}, rows : Seq(Rows), batch : Batches \cup {NoBatch},
   counted : BOOLEAN, found : BOOLEAN]
IntakeState ==
  IngestingState \cup ResolvedState \cup {NoIntake, Ended}
    \cup [at : {"notifying"}, kind : Kinds]

IntakeTyped ==
  /\ lead \in [Refs -> LeadState \cup {NoLead}]
  /\ company \in [Companies -> Nat]
  /\ batch \in [Batches -> {NoBatch} \cup SUBSET Rows]
  /\ intakeCall \in [IntakeCalls -> IntakeState]
  /\ month \in Nat
  /\ sent \subseteq Kinds
  /\ emails \in [Kinds -> Nat]

AtWork(r) == intakeCall[r].at \in {"ingesting", "resolved"}

\* A request that is at work has a row to write and the batch it writes to; a
\* row whose company was looked for is one that validates.
RequestsAtWork ==
  \A r \in IntakeCalls : AtWork(r) =>
    /\ intakeCall[r].rows # << >> /\ Len(intakeCall[r].rows) <= MaxRows
    /\ intakeCall[r].batch # NoBatch => batch[intakeCall[r].batch] # NoBatch
    /\ intakeCall[r].at = "resolved" => Head(intakeCall[r].rows) \in Refs

LeadsArePast == \A x \in Refs : Exists(x) => lead[x].month <= month

\* The request looks for, or has just looked for, a company by its name.
Names(r, c) == intakeCall[r].at = "resolved" /\ CompanyOf[Head(intakeCall[r].rows)] = c

\* The lock on a name: one holder, who knows whether the name has a row.
NameLock ==
  \A c \in NameOnly : \A r \in IntakeCalls : Names(r, c) =>
    /\ \A s \in IntakeCalls : Names(s, c) => s = r
    /\ ~intakeCall[r].found => company[c] = 0

NotifiersOf(k) ==
  {r \in IntakeCalls : intakeCall[r].at = "notifying" /\ intakeCall[r].kind = k}

\* Without an audit row no email went out; with one nobody new prepares any.
EmailsAreAccounted ==
  \A k \in Kinds :
    /\ k \notin sent => emails[k] = 0
    /\ emails[k] + Cardinality(NotifiersOf(k)) <= Cardinality(IntakeCalls)

IntakeInv ==
  /\ IntakeTyped /\ RequestsAtWork /\ LeadsArePast
  /\ NameLock /\ OneRowPerCompany
  /\ AttributedLeadHasRow
  /\ LeadQuotaIsSoft
  /\ EmailsAreAccounted

-----------------------------------------------------------------------------
(* What a request carries at each point.                                   *)
LEMMA IntakeFields ==
  ASSUME NEW q \in IntakeState
  PROVE  /\ q.at \in {"ingesting", "resolved"} =>
              /\ q.rows \in Seq(Rows) /\ q.batch \in Batches \cup {NoBatch}
              /\ q.counted \in BOOLEAN
         /\ q.at = "resolved" => q.found \in BOOLEAN
         /\ q.at = "notifying" => q.kind \in Kinds
BY DEF IntakeState, IngestingState, ResolvedState, NoIntake, Ended

LEMMA IntakeKinds ==
  /\ NoIntake \in IntakeState /\ NoIntake.at = "idle"
  /\ Ended \in IntakeState /\ Ended.at = "ended"
  /\ \A k \in Kinds : /\ Notifying(k) \in IntakeState
                      /\ Notifying(k).at = "notifying" /\ Notifying(k).kind = k
BY DEF NoIntake, Ended, Notifying, IntakeState

LEMMA IngestingKind ==
  ASSUME NEW rows \in Seq(Rows), NEW b \in Batches \cup {NoBatch}, NEW counted \in BOOLEAN
  PROVE  /\ Ingesting(rows, b, counted) \in IntakeState
         /\ Ingesting(rows, b, counted).at = "ingesting"
         /\ Ingesting(rows, b, counted).rows = rows /\ Ingesting(rows, b, counted).batch = b
BY DEF Ingesting, IntakeState, IngestingState

LEMMA ResolvedKind ==
  ASSUME NEW q \in IntakeState, q.at = "ingesting", NEW found \in BOOLEAN
  PROVE  /\ Resolved(q, found) \in IntakeState
         /\ Resolved(q, found).at = "resolved" /\ Resolved(q, found).rows = q.rows
         /\ Resolved(q, found).batch = q.batch
         /\ Resolved(q, found).counted = q.counted /\ Resolved(q, found).found = found
<1>1. q.rows \in Seq(Rows) /\ q.batch \in Batches \cup {NoBatch} /\ q.counted \in BOOLEAN
  BY IntakeFields
<1> QED
  BY <1>1 DEF Resolved, IntakeState, ResolvedState

(* The leads of the month, and the rows still to be written, are finite.   *)
LEMMA FiniteLeads ==
  ASSUME NEW S \in SUBSET Refs
  PROVE  IsFiniteSet(S) /\ Cardinality(S) \in Nat
BY FS_Subset, FS_CardinalityType, CallersAssumption

LEMMA FiniteCallers ==
  ASSUME NEW S \in SUBSET IntakeCalls
  PROVE  /\ IsFiniteSet(S) /\ Cardinality(S) \in Nat /\ Cardinality(IntakeCalls) \in Nat
         /\ Cardinality(S) <= Cardinality(IntakeCalls)
BY FS_Subset, FS_CardinalityType, CallersAssumption

LEMMA FiniteRows ==
  ASSUME NEW S \in SUBSET (IntakeCalls \X (1 .. MaxRows))
  PROVE  /\ IsFiniteSet(S) /\ Cardinality(S) \in Nat
         /\ Cardinality(IntakeCalls) * MaxRows \in Nat
         /\ Cardinality(S) <= Cardinality(IntakeCalls) * MaxRows
<1>1. IsFiniteSet(1 .. MaxRows) /\ Cardinality(1 .. MaxRows) = MaxRows
  BY FS_Interval, IntakeAssumption
<1>2. Cardinality(IntakeCalls) \in Nat
  BY FS_CardinalityType, CallersAssumption
<1>3. /\ IsFiniteSet(IntakeCalls \X (1 .. MaxRows))
      /\ Cardinality(IntakeCalls \X (1 .. MaxRows))
           = Cardinality(IntakeCalls) * Cardinality(1 .. MaxRows)
  BY <1>1, FS_Product, CallersAssumption
<1>4. Cardinality(IntakeCalls) * MaxRows \in Nat
  BY <1>1, <1>3, FS_CardinalityType
<1> QED
  BY <1>1, <1>3, <1>4, FS_Subset, FS_CardinalityType

LEMMA QuotaNumbers ==
  /\ LeadLimit \in Nat /\ LeadLimit > 0
  /\ UnwrittenRows(IntakeCalls) \in SUBSET (IntakeCalls \X (1 .. MaxRows))
  /\ UnwrittenRows(IntakeCalls)' \in SUBSET (IntakeCalls \X (1 .. MaxRows))
  /\ {x \in Refs : Counted(x)} \in SUBSET Refs
  /\ {x \in Refs : Counted(x)'} \in SUBSET Refs
  /\ LeadsProcessed \in Nat /\ LeadsProcessed' \in Nat
  /\ InFlight(IntakeCalls) \in Nat /\ InFlight(IntakeCalls)' \in Nat
BY IntakeAssumption, FiniteLeads, FiniteRows DEF UnwrittenRows, InFlight, LeadsProcessed

(* A request is admitted below the limit: whatever was in flight then fits *)
(* in the overshoot.  The first of a month finds nothing counted.          *)
LEMMA AdmittedBelowLimit ==
  ASSUME LeadsProcessed' < LeadLimit
  PROVE  LeadQuotaIsSoft'
<1>1. /\ InFlight(IntakeCalls)' <= Cardinality(IntakeCalls) * MaxRows
      /\ Cardinality(IntakeCalls) * MaxRows \in Nat
  BY FiniteRows, QuotaNumbers DEF InFlight
<1> QED
  BY <1>1, QuotaNumbers DEF LeadQuotaIsSoft

(* Nothing is counted and no request gets more to write.                   *)
LEMMA NothingCounted ==
  ASSUME LeadQuotaIsSoft, LeadsProcessed' = LeadsProcessed,
         \A r \in IntakeCalls : \A n \in 1 .. MaxRows : n <= RowsLeft(r)' => n <= RowsLeft(r)
  PROVE  LeadQuotaIsSoft'
<1>1. UnwrittenRows(IntakeCalls)' \in SUBSET UnwrittenRows(IntakeCalls)
  BY DEF UnwrittenRows
<1>2. InFlight(IntakeCalls)' <= InFlight(IntakeCalls)
  BY <1>1, FiniteRows, QuotaNumbers, FS_Subset DEF InFlight
<1>3. Cardinality(IntakeCalls) * MaxRows \in Nat
  BY FiniteRows, QuotaNumbers
<1> QED
  BY <1>2, <1>3, QuotaNumbers DEF LeadQuotaIsSoft

(* A request writes one row, which counts for at most one lead.            *)
LEMMA OneRowWritten ==
  ASSUME LeadQuotaIsSoft, NEW r \in IntakeCalls, RowsLeft(r) \in 1 .. MaxRows,
         RowsLeft(r)' = RowsLeft(r) - 1,
         \A s \in IntakeCalls : s # r => RowsLeft(s)' = RowsLeft(s),
         NEW x, {y \in Refs : Counted(y)'} \subseteq {y \in Refs : Counted(y)} \cup {x}
  PROVE  LeadQuotaIsSoft'
<1> DEFINE U == UnwrittenRows(IntakeCalls)
           row == <<r, RowsLeft(r)>>
           L == {y \in Refs : Counted(y)}
           M == {y \in Refs : Counted(y)'}
<1>1. row \in U /\ U' = U \ {row}
  BY DEF UnwrittenRows
<1>2. IsFiniteSet(U) /\ Cardinality(U) \in Nat /\ Cardinality(IntakeCalls) * MaxRows \in Nat
  BY FiniteRows, QuotaNumbers
<1>3. IsFiniteSet(L) /\ Cardinality(L) \in Nat
  BY FiniteLeads, QuotaNumbers
<1>4. Cardinality(U \ {row}) = Cardinality(U) - 1
  BY <1>1, <1>2, FS_RemoveElement
<1>5. IsFiniteSet(L \cup {x}) /\ Cardinality(L \cup {x}) <= Cardinality(L) + 1
  <2>1. Cardinality(L \cup {x}) = IF x \in L THEN Cardinality(L) ELSE Cardinality(L) + 1
    BY <1>3, FS_AddElement
  <2> QED
    BY <1>3, <2>1, FS_AddElement
<1>6. Cardinality(M) <= Cardinality(L \cup {x}) /\ Cardinality(M) \in Nat
  BY <1>5, FS_Subset, FS_CardinalityType
<1>7. Cardinality(L \cup {x}) \in Nat
  BY <1>5, FS_CardinalityType
<1>8. /\ LeadsProcessed = Cardinality(L) /\ LeadsProcessed' = Cardinality(M)
      /\ InFlight(IntakeCalls) = Cardinality(U) /\ InFlight(IntakeCalls)' = Cardinality(U \ {row})
  BY <1>1 DEF LeadsProcessed, InFlight
<1> HIDE DEF U, row, L, M
<1> QED
  BY <1>2, <1>3, <1>4, <1>5, <1>6, <1>7, <1>8, QuotaNumbers DEF LeadQuotaIsSoft

-----------------------------------------------------------------------------
(* The emails of a kind and who is about to send one.                      *)
LEMMA EmailsStep ==
  ASSUME IntakeInv, emails' \in [Kinds -> Nat],
         \A k \in Kinds :
           /\ k \notin sent' => emails'[k] = 0
           /\ \/ emails'[k] = emails[k] /\ NotifiersOf(k)' \subseteq NotifiersOf(k)
              \/ emails'[k] = 0
              \/ /\ emails'[k] = emails[k] + 1
                 /\ \E r \in NotifiersOf(k) : NotifiersOf(k)' \subseteq NotifiersOf(k) \ {r}
  PROVE  EmailsAreAccounted'
<1> SUFFICES ASSUME NEW k \in Kinds
             PROVE  emails'[k] + Cardinality(NotifiersOf(k)') <= Cardinality(IntakeCalls)
  BY DEF EmailsAreAccounted
<1> DEFINE N == NotifiersOf(k)
           M == NotifiersOf(k)'
<1>1. N \in SUBSET IntakeCalls /\ M \in SUBSET IntakeCalls
  BY DEF NotifiersOf
<1>2. /\ emails[k] \in Nat /\ emails'[k] \in Nat
      /\ emails[k] + Cardinality(N) <= Cardinality(IntakeCalls)
  BY DEF IntakeInv, IntakeTyped, EmailsAreAccounted
<1>3. /\ emails'[k] = emails[k] /\ M \subseteq N
      \/ emails'[k] = 0
      \/ (emails'[k] = emails[k] + 1 /\ \E r \in N : M \subseteq N \ {r})
  OBVIOUS
<1> HIDE DEF N, M
<1>4. /\ IsFiniteSet(N) /\ Cardinality(N) \in Nat /\ Cardinality(IntakeCalls) \in Nat
      /\ Cardinality(M) \in Nat /\ Cardinality(M) <= Cardinality(IntakeCalls)
  BY <1>1, FiniteCallers
<1>5. CASE emails'[k] = emails[k] /\ M \subseteq N
  BY <1>2, <1>4, <1>5, FS_Subset DEF M
<1>6. CASE emails'[k] = 0
  BY <1>4, <1>6 DEF M
<1>7. CASE emails'[k] = emails[k] + 1 /\ \E r \in N : M \subseteq N \ {r}
  <2>1. PICK r \in N : M \subseteq N \ {r}
    BY <1>7
  <2>2. IsFiniteSet(N \ {r}) /\ Cardinality(N \ {r}) = Cardinality(N) - 1
    BY <1>4, FS_RemoveElement
  <2>3. Cardinality(M) <= Cardinality(N \ {r})
    BY <2>1, <2>2, FS_Subset
  <2> QED
    BY <1>2, <1>4, <1>7, <2>2, <2>3 DEF M
<1> QED
  BY <1>2, <1>3, <1>4, <1>5, <1>6, <1>7 DEF M

(* A request that goes on has rows left and a batch that is there.         *)
LEMMA RequestsGoOn ==
  ASSUME IntakeTyped, RequestsAtWork,
         NEW r \in IntakeCalls, NEW q \in IntakeState, IntakeBecomes(r, q),
         \A b \in Batches : batch[b] # NoBatch => batch'[b] # NoBatch,
         q.at \in {"ingesting", "resolved"} =>
           /\ q.rows # << >> /\ Len(q.rows) <= MaxRows
           /\ q.batch # NoBatch => batch'[q.batch] # NoBatch,
         q.at = "resolved" => Head(q.rows) \in Refs
  PROVE  RequestsAtWork'
<1>0. \A s \in IntakeCalls : intakeCall'[s] = IF s = r THEN q ELSE intakeCall[s]
  BY DEF IntakeTyped, IntakeBecomes
<1> SUFFICES ASSUME NEW s \in IntakeCalls, AtWork(s)'
             PROVE  /\ intakeCall'[s].rows # << >> /\ Len(intakeCall'[s].rows) <= MaxRows
                    /\ intakeCall'[s].batch # NoBatch
                         => batch'[intakeCall'[s].batch] # NoBatch
                    /\ intakeCall'[s].at = "resolved" => Head(intakeCall'[s].rows) \in Refs
  BY DEF RequestsAtWork
<1>1. CASE s = r
  BY <1>0, <1>1 DEF AtWork
<1>2. CASE s # r
  <2>1. intakeCall'[s] = intakeCall[s] /\ intakeCall[s] \in IntakeState /\ AtWork(s)
    BY <1>0, <1>2 DEF IntakeTyped, AtWork
  <2>2. intakeCall[s].batch \in Batches \cup {NoBatch}
    BY <2>1, IntakeFields DEF AtWork
  <2> QED
    BY <1>0, <2>1, <2>2 DEF RequestsAtWork
<1> QED
  BY <1>1, <1>2

(* What is kept when one request takes a step and neither a lead nor a     *)
(* company is written: batches may only gain rows.                         *)
LEMMA RequestStep ==
  ASSUME IntakeInv, NEW r \in IntakeCalls, NEW q \in IntakeState, IntakeBecomes(r, q),
         UNCHANGED <<lead, company, month>>,
         batch' \in [Batches -> {NoBatch} \cup SUBSET Rows],
         \A b \in Batches : /\ batch[b] # NoBatch => batch'[b] # NoBatch
                            /\ batch[b] \cap Refs \subseteq batch'[b],
         sent' \subseteq Kinds, emails' \in [Kinds -> Nat],
         q.at \in {"ingesting", "resolved"} =>
           /\ q.rows # << >> /\ Len(q.rows) <= MaxRows
           /\ q.batch # NoBatch => batch'[q.batch] # NoBatch,
         q.at = "resolved" =>
           /\ Head(q.rows) \in Refs
           /\ CompanyOf[Head(q.rows)] \in NameOnly =>
                /\ \A s \in IntakeCalls : s # r => ~Names(s, CompanyOf[Head(q.rows)])
                /\ ~q.found => company[CompanyOf[Head(q.rows)]] = 0,
         LeadQuotaIsSoft', EmailsAreAccounted'
  PROVE  IntakeInv'
<1>0. /\ IntakeTyped /\ RequestsAtWork /\ NameLock
      /\ \A s \in IntakeCalls : intakeCall'[s] = IF s = r THEN q ELSE intakeCall[s]
  BY DEF IntakeInv, IntakeTyped, IntakeBecomes
<1>1. IntakeTyped'
  BY <1>0 DEF IntakeTyped, IntakeBecomes
<1>2. RequestsAtWork'
  BY <1>0, RequestsGoOn
<1>3. LeadsArePast' /\ OneRowPerCompany'
  BY DEF IntakeInv, LeadsArePast, OneRowPerCompany, Exists
<1>4. NameLock'
  <2> SUFFICES ASSUME NEW c \in NameOnly, NEW s \in IntakeCalls, Names(s, c)'
               PROVE  /\ \A t \in IntakeCalls : Names(t, c)' => t = s
                      /\ ~intakeCall'[s].found => company'[c] = 0
    BY DEF NameLock
  <2>1. \A t \in IntakeCalls : t # r => (Names(t, c)' <=> Names(t, c))
    BY <1>0 DEF Names
  <2>2. Names(r, c)' => /\ q.at = "resolved" /\ CompanyOf[Head(q.rows)] = c
                        /\ \A t \in IntakeCalls : t # r => ~Names(t, c)
                        /\ ~q.found => company[c] = 0
    BY <1>0 DEF Names
  <2>3. CASE s = r
    BY <1>0, <2>1, <2>2, <2>3
  <2>4. CASE s # r
    BY <1>0, <2>1, <2>2, <2>4 DEF NameLock
  <2> QED
    BY <2>3, <2>4
<1>5. AttributedLeadHasRow'
  <2>1. \A b \in Batches : Attributed(b)' = Attributed(b) /\ Attributed(b) \subseteq Refs
    BY DEF Attributed, Exists
  <2> QED
    BY <2>1 DEF IntakeInv, AttributedLeadHasRow
<1> QED
  BY <1>1, <1>2, <1>3, <1>4, <1>5 DEF IntakeInv

LEMMA NobodyNotified ==
  ASSUME IntakeInv, NEW r \in IntakeCalls, NEW q, q.at # "notifying", IntakeBecomes(r, q),
         UNCHANGED <<sent, emails>>
  PROVE  EmailsAreAccounted'
<1>1. /\ emails' \in [Kinds -> Nat] /\ intakeCall \in [IntakeCalls -> IntakeState]
      /\ \A k \in Kinds : k \notin sent' => emails'[k] = 0
  BY DEF IntakeInv, IntakeTyped, EmailsAreAccounted
<1>2. \A k \in Kinds : NotifiersOf(k)' \subseteq NotifiersOf(k)
  BY <1>1 DEF NotifiersOf, IntakeBecomes
<1> QED
  BY <1>1, <1>2, EmailsStep

(* The usage and the leads are as they were.                               *)
LEMMA SameUsage ==
  ASSUME UNCHANGED <<lead, month>>
  PROVE  LeadsProcessed' = LeadsProcessed
BY DEF LeadsProcessed, Counted, Exists

LEMMA SameQuota ==
  ASSUME IntakeInv, NEW r \in IntakeCalls, NEW q, IntakeBecomes(r, q),
         UNCHANGED <<lead, month>>,
         q.at \in {"ingesting", "resolved"} =>
           AtWork(r) /\ Len(q.rows) \in Nat /\ Len(q.rows) <= Len(intakeCall[r].rows)
  PROVE  LeadQuotaIsSoft'
<1>1. intakeCall \in [IntakeCalls -> IntakeState] /\ LeadQuotaIsSoft
  BY DEF IntakeInv, IntakeTyped
<1>2. \A s \in IntakeCalls : s # r => RowsLeft(s)' = RowsLeft(s)
  BY <1>1 DEF RowsLeft, IntakeBecomes
<1>3. AtWork(r) => Len(intakeCall[r].rows) \in Nat
  BY <1>1, IntakeFields DEF AtWork
<1>4. \A n \in 1 .. MaxRows : n <= RowsLeft(r)' => n <= RowsLeft(r)
  BY <1>1, <1>3, IntakeAssumption DEF RowsLeft, IntakeBecomes, AtWork
<1> QED
  BY <1>1, <1>2, <1>4, SameUsage, NothingCounted

-----------------------------------------------------------------------------
LEMMA IntakeInitInv == IntakeInit => IntakeInv
<1> SUFFICES ASSUME IntakeInit PROVE IntakeInv
  OBVIOUS
<1>1. \A r \in IntakeCalls : intakeCall[r].at = "idle"
  BY IntakeKinds DEF IntakeInit
<1>2. IntakeTyped
  BY IntakeKinds DEF IntakeInit, IntakeTyped
<1>3. RequestsAtWork /\ NameLock
  BY <1>1 DEF RequestsAtWork, AtWork, NameLock, Names
<1>4. LeadsArePast /\ OneRowPerCompany /\ AttributedLeadHasRow
  BY DEF IntakeInit, LeadsArePast, OneRowPerCompany, AttributedLeadHasRow, Attributed,
         Exists
<1>5. LeadQuotaIsSoft
  <2>1. UnwrittenRows(IntakeCalls) = {}
    BY <1>1, IntakeAssumption DEF UnwrittenRows, RowsLeft
  <2>2. {x \in Refs : Counted(x)} = {}
    BY DEF IntakeInit, Counted, Exists
  <2>3. Cardinality(IntakeCalls) * MaxRows \in Nat
    BY FiniteRows, QuotaNumbers
  <2>4. LeadsProcessed = 0 /\ InFlight(IntakeCalls) = 0
    BY <2>1, <2>2, FS_EmptySet DEF LeadsProcessed, InFlight
  <2> QED
    BY <2>3, <2>4, QuotaNumbers DEF LeadQuotaIsSoft
<1>6. EmailsAreAccounted
  <2>1. \A k \in Kinds : NotifiersOf(k) = {} /\ emails[k] = 0
    BY <1>1 DEF NotifiersOf, IntakeInit
  <2>2. Cardinality({}) = 0 /\ Cardinality(IntakeCalls) \in Nat
    BY FS_EmptySet, FiniteCallers
  <2> QED
    BY <2>1, <2>2 DEF EmailsAreAccounted
<1> QED
  BY <1>2, <1>3, <1>4, <1>5, <1>6 DEF IntakeInv

(* A post and an upload are admitted below the limit; the upload creates   *)
(* its batch.                                                              *)
LEMMA AdmissionInv ==
  ASSUME IntakeInv, NEW r \in IntakeCalls,
         \/ \E via \in {"session", "key"}, x \in Refs, counted \in BOOLEAN :
              PostLead(r, via, x, counted)
         \/ \E b \in Batches, file \in Files : UploadBatch(r, b, file)
  PROVE  IntakeInv'
<1>0. IntakeTyped
  BY DEF IntakeInv
<1>1. ASSUME NEW via, NEW x \in Refs, NEW counted \in BOOLEAN, PostLead(r, via, x, counted)
      PROVE  IntakeInv'
  <2> DEFINE rows == <<x>>
             q == Ingesting(rows, NoBatch, counted)
  <2>1. /\ rows \in Seq(Rows) /\ Len(rows) = 1 /\ rows # << >>
        /\ NoBatch \in Batches \cup {NoBatch} /\ 1 <= MaxRows
    BY IntakeAssumption DEF Rows
  <2> HIDE DEF rows
  <2>2. /\ q \in IntakeState /\ q.at = "ingesting" /\ q.rows = rows /\ q.batch = NoBatch
    BY <2>1, IngestingKind
  <2>3. /\ IntakeBecomes(r, q) /\ LeadsProcessed < LeadLimit
        /\ UNCHANGED <<lead, company, batch, month, sent, emails>>
    BY <1>1 DEF PostLead, KeepTables, tables, EnforceLeadQuota, rows
  <2> HIDE DEF q
  <2>4. LeadQuotaIsSoft'
    BY <2>3, SameUsage, AdmittedBelowLimit
  <2>5. EmailsAreAccounted'
    BY <2>2, <2>3, NobodyNotified
  <2>6. Len(q.rows) <= MaxRows /\ q.rows # << >>
    BY <2>1, <2>2
  <2>7. /\ batch' \in [Batches -> {NoBatch} \cup SUBSET Rows] /\ sent' \subseteq Kinds
        /\ emails' \in [Kinds -> Nat]
        /\ \A b \in Batches : /\ batch[b] # NoBatch => batch'[b] # NoBatch
                              /\ batch[b] \cap Refs \subseteq batch'[b]
    BY <1>0, <2>3 DEF IntakeTyped
  <2> QED
    BY <2>2, <2>3, <2>4, <2>5, <2>6, <2>7, RequestStep
<1>2. ASSUME NEW b \in Batches, NEW file \in Files, UploadBatch(r, b, file)
      PROVE  IntakeInv'
  <2> DEFINE q == Ingesting(file, b, TRUE)
  <2>1. file \in Seq(Rows) /\ file # << >> /\ Len(file) <= MaxRows
    BY <1>2 DEF UploadBatch, Files
  <2>2. q \in IntakeState /\ q.at = "ingesting" /\ q.rows = file /\ q.batch = b
    BY <2>1, IngestingKind
  <2>3. /\ IntakeBecomes(r, q) /\ LeadsProcessed < LeadLimit /\ batch[b] = NoBatch
        /\ batch' = [batch EXCEPT ![b] = {}]
        /\ UNCHANGED <<lead, company, month, sent, emails>>
    BY <1>2 DEF UploadBatch, EnforceLeadQuota
  <2> HIDE DEF q
  <2>4. /\ batch' \in [Batches -> {NoBatch} \cup SUBSET Rows] /\ batch'[b] # NoBatch
        /\ \A c \in Batches : /\ batch[c] # NoBatch => batch'[c] # NoBatch
                              /\ batch[c] \cap Refs \subseteq batch'[c]
    BY <1>0, <2>3, NoBatchAssumption DEF IntakeTyped, NoBatch, Rows
  <2>5. LeadQuotaIsSoft'
    BY <2>3, SameUsage, AdmittedBelowLimit
  <2>6. EmailsAreAccounted'
    BY <2>2, <2>3, NobodyNotified
  <2> QED
    BY <1>0, <2>1, <2>2, <2>3, <2>4, <2>5, <2>6, RequestStep DEF IntakeTyped
<1> QED
  BY <1>1, <1>2

(* The tables and the emails are as they were: the request moved.          *)
LEMMA OnlyTheRequest ==
  ASSUME IntakeInv, NEW r \in IntakeCalls, NEW q \in IntakeState, IntakeBecomes(r, q),
         UNCHANGED <<lead, company, batch, month, sent, emails>>,
         q.at \in {"ingesting", "resolved"} =>
           AtWork(r) /\ q.rows = intakeCall[r].rows /\ q.batch = intakeCall[r].batch,
         q.at = "resolved" =>
           /\ Head(q.rows) \in Refs
           /\ CompanyOf[Head(q.rows)] \in NameOnly =>
                /\ \A s \in IntakeCalls : s # r => ~Names(s, CompanyOf[Head(q.rows)])
                /\ ~q.found => company[CompanyOf[Head(q.rows)]] = 0,
         EmailsAreAccounted'
  PROVE  IntakeInv'
<1>1. IntakeTyped /\ RequestsAtWork
  BY DEF IntakeInv
<1>2. q.at \in {"ingesting", "resolved"} =>
        /\ q.rows # << >> /\ Len(q.rows) <= MaxRows
        /\ q.batch # NoBatch => batch[q.batch] # NoBatch
  BY <1>1 DEF RequestsAtWork
<1>3. LeadQuotaIsSoft'
  <2>1. AtWork(r) => Len(intakeCall[r].rows) \in Nat
    BY <1>1, IntakeFields DEF IntakeTyped, AtWork
  <2>2. q.at \in {"ingesting", "resolved"} =>
          AtWork(r) /\ Len(q.rows) \in Nat /\ Len(q.rows) <= Len(intakeCall[r].rows)
    BY <2>1
  <2> QED
    BY <2>2, SameQuota
<1>4. /\ batch' \in [Batches -> {NoBatch} \cup SUBSET Rows] /\ sent' \subseteq Kinds
      /\ emails' \in [Kinds -> Nat]
      /\ \A b \in Batches : /\ batch[b] # NoBatch => batch'[b] # NoBatch
                            /\ batch[b] \cap Refs \subseteq batch'[b]
  BY <1>1 DEF IntakeTyped
<1>5. batch' = batch
  OBVIOUS
<1> QED
  BY <1>2, <1>3, <1>4, <1>5, RequestStep

(* The company of the next row is looked for, under the lock of its name.  *)
LEMMA ResolveCompanyInv ==
  ASSUME IntakeInv, NEW r \in IntakeCalls, ResolveCompany(r)
  PROVE  IntakeInv'
<1> DEFINE p == intakeCall[r]
           c == CompanyOf[Head(p.rows)]
           f == company[c] > 0
           q == Resolved(p, f)
<1>1. /\ IntakeTyped /\ RequestsAtWork /\ p \in IntakeState /\ p.at = "ingesting"
      /\ p.rows # << >> /\ Head(p.rows) # Bad
      /\ NameLockFree(r, c) /\ IntakeBecomes(r, q)
      /\ UNCHANGED <<lead, company, batch, month, sent, emails>>
  BY DEF ResolveCompany, IntakeInv, IntakeTyped, KeepTables, tables
<1>2. Head(p.rows) \in Refs
  <2>1. p.rows \in Seq(Rows) /\ p.rows # << >>
    BY <1>1, IntakeFields
  <2>2. Head(p.rows) \in Rows
    BY <2>1
  <2> QED
    BY <1>1, <2>2 DEF Rows
<1>3. company[c] \in Nat
  BY <1>1, <1>2 DEF IntakeTyped, Companies
<1>4. f \in BOOLEAN /\ (~f => company[c] = 0)
  BY <1>3
<1> HIDE DEF f
<1>5. /\ q \in IntakeState /\ q.at = "resolved" /\ q.rows = p.rows /\ q.batch = p.batch
      /\ q.found = f
  BY <1>1, <1>4, ResolvedKind
<1>6. c \in NameOnly => \A s \in IntakeCalls : s # r => ~Names(s, c)
  BY <1>1 DEF NameLockFree, Names
<1>7. ~q.found => company[c] = 0
  BY <1>4, <1>5
<1>8. AtWork(r)
  BY <1>1 DEF AtWork
<1> HIDE DEF q
<1>9. EmailsAreAccounted'
  BY <1>1, <1>5, NobodyNotified
<1> QED
  BY <1>1, <1>2, <1>6, <1>7, <1>8, <1>9, <1>5, OnlyTheRequest

(* A request gives up, checks the usage, or sends the email of a kind.     *)
LEMMA LeavingInv ==
  ASSUME IntakeInv, NEW r \in IntakeCalls,
         Abort(r) \/ CheckUsage(r) \/ SendUsageEmail(r)
  PROVE  IntakeInv'
<1>0. IntakeTyped /\ intakeCall[r] \in IntakeState /\ EmailsAreAccounted
  BY DEF IntakeInv, IntakeTyped
<1>1. ASSUME IntakeBecomes(r, NoIntake), KeepTables PROVE IntakeInv'
  <2>1. UNCHANGED <<lead, company, batch, month, sent, emails>>
    BY <1>1 DEF KeepTables, tables
  <2>2. EmailsAreAccounted'
    BY <1>1, <2>1, IntakeKinds, NobodyNotified
  <2> QED
    BY <1>1, <2>1, <2>2, IntakeKinds, OnlyTheRequest
<1>2. ASSUME NEW k \in Kinds, k \notin sent, IntakeBecomes(r, Notifying(k)), KeepTables
      PROVE  IntakeInv'
  <2>1. UNCHANGED <<lead, company, batch, month, sent, emails>>
    BY <1>2 DEF KeepTables, tables
  <2>2. Notifying(k) \in IntakeState /\ Notifying(k).at = "notifying" /\ Notifying(k).kind = k
    BY IntakeKinds
  <2>3. \A i \in Kinds : i # k => NotifiersOf(i)' \subseteq NotifiersOf(i)
    BY <1>0, <1>2, <2>2 DEF NotifiersOf, IntakeBecomes, IntakeTyped
  <2>4. emails'[k] = 0 /\ emails' \in [Kinds -> Nat]
        /\ \A i \in Kinds : (i \notin sent' => emails'[i] = 0) /\ emails'[i] = emails[i]
    BY <1>0, <1>2, <2>1 DEF IntakeTyped, EmailsAreAccounted
  <2>5. EmailsAreAccounted'
    BY <2>3, <2>4, EmailsStep
  <2> QED
    BY <1>2, <2>1, <2>2, <2>5, OnlyTheRequest
<1>3. CASE Abort(r)
  BY <1>1, <1>3 DEF Abort
<1>4. CASE CheckUsage(r)
  <2> DEFINE atLimit == LeadsProcessed >= LeadLimit /\ ~AlreadySent("limit_reached")
             warn == LeadsProcessed >= WarnAt /\ ~AlreadySent("usage_warning")
  <2>1. /\ IntakeBecomes(r, IF atLimit THEN Notifying("limit_reached")
                            ELSE IF warn THEN Notifying("usage_warning") ELSE NoIntake)
        /\ KeepTables
    BY <1>4 DEF CheckUsage
  <2>2. /\ atLimit => "limit_reached" \in Kinds /\ "limit_reached" \notin sent
        /\ warn => "usage_warning" \in Kinds /\ "usage_warning" \notin sent
    BY DEF AlreadySent, Kinds
  <2> HIDE DEF atLimit, warn
  <2> QED
    BY <1>1, <1>2, <2>1, <2>2
<1>5. CASE SendUsageEmail(r)
  <2> DEFINE k == intakeCall[r].kind
  <2>1. /\ intakeCall[r].at = "notifying" /\ k \in Kinds
        /\ IntakeBecomes(r, NoIntake) /\ UNCHANGED <<lead, company, batch, month>>
        /\ emails' = [emails EXCEPT ![k] = @ + 1] /\ sent' = sent \cup {k}
    BY <1>0, <1>5, IntakeFields DEF SendUsageEmail, tables
  <2>2. /\ r \in NotifiersOf(k)
        /\ \A i \in Kinds : NotifiersOf(i)' \subseteq NotifiersOf(i) \ {r}
    BY <1>0, <2>1, IntakeKinds DEF NotifiersOf, IntakeBecomes, IntakeTyped
  <2>3. /\ emails' \in [Kinds -> Nat] /\ sent' \subseteq Kinds
        /\ emails'[k] = emails[k] + 1
        /\ \A i \in Kinds : i # k => emails'[i] = emails[i]
        /\ \A i \in Kinds : i \notin sent' => emails'[i] = 0
    BY <1>0, <2>1 DEF IntakeTyped, EmailsAreAccounted
  <2> HIDE DEF k
  <2>4. EmailsAreAccounted'
    BY <2>2, <2>3, EmailsStep
  <2>5. LeadQuotaIsSoft'
    BY <2>1, IntakeKinds, SameQuota
  <2>6. /\ batch' \in [Batches -> {NoBatch} \cup SUBSET Rows]
        /\ \A b \in Batches : /\ batch[b] # NoBatch => batch'[b] # NoBatch
                              /\ batch[b] \cap Refs \subseteq batch'[b]
    BY <1>0, <2>1 DEF IntakeTyped
  <2> QED
    BY <2>1, <2>3, <2>4, <2>5, <2>6, IntakeKinds, RequestStep
<1> QED
  BY <1>3, <1>4, <1>5

(* lead_batch_rows only gains rows: the one that names the reference.      *)
LEMMA RowRecorded ==
  ASSUME IntakeTyped, NEW b \in Batches \cup {NoBatch}, NEW x \in Rows,
         b # NoBatch => batch[b] # NoBatch, RecordRow(b, x)
  PROVE  /\ batch' \in [Batches -> {NoBatch} \cup SUBSET Rows]
         /\ \A i \in Batches : /\ batch[i] # NoBatch => batch'[i] # NoBatch
                               /\ batch[i] \cap Refs \subseteq batch'[i]
         /\ b # NoBatch => b \in Batches /\ x \in batch'[b]
<1>1. CASE b = NoBatch
  BY <1>1 DEF RecordRow, IntakeTyped
<1>2. CASE b # NoBatch
  <2>1. /\ b \in Batches /\ batch[b] \in SUBSET Rows
        /\ batch' = [batch EXCEPT ![b] = batch[b] \cup {x}]
    BY <1>2 DEF RecordRow, IntakeTyped
  <2>2. batch[b] \cup {x} \in SUBSET Rows /\ batch[b] \cup {x} # NoBatch
    BY <2>1, NoBatchAssumption
  <2> QED
    BY <2>1, <2>2 DEF IntakeTyped
<1> QED
  BY <1>1, <1>2

LEMMA RowsAfterFirst ==
  ASSUME NEW s \in Seq(Rows), s # << >>, Len(s) # 1
  PROVE  Tail(s) \in Seq(Rows) /\ Len(Tail(s)) = Len(s) - 1 /\ Tail(s) # << >>
<1>1. Len(s) \in Nat /\ Len(s) # 0
  OBVIOUS
<1>2. Tail(s) \in Seq(Rows) /\ Len(Tail(s)) = Len(s) - 1
  BY <1>1
<1>3. Len(Tail(s)) # 0
  BY <1>1, <1>2
<1> QED
  BY <1>2, <1>3

(* What a request becomes when its next row is written.                    *)
LEMMA RowWritten ==
  ASSUME IntakeInv, NEW r \in IntakeCalls, AtWork(r), RowDone(r)
  PROVE  \E q \in IntakeState :
           /\ IntakeBecomes(r, q)
           /\ q.at \in {"ended", "ingesting"}
           /\ Len(intakeCall[r].rows) \in 1 .. MaxRows
           /\ q.at = "ended" => Len(intakeCall[r].rows) = 1
           /\ q.at = "ingesting" => /\ q.rows # << >> /\ q.batch = intakeCall[r].batch
                                    /\ Len(q.rows) = Len(intakeCall[r].rows) - 1
<1> DEFINE p == intakeCall[r]
<1>1. /\ p \in IntakeState /\ p.rows \in Seq(Rows) /\ p.batch \in Batches \cup {NoBatch}
      /\ p.counted \in BOOLEAN /\ p.rows # << >> /\ Len(p.rows) <= MaxRows
  BY IntakeFields DEF IntakeInv, IntakeTyped, RequestsAtWork, AtWork
<1>2. Len(p.rows) \in 1 .. MaxRows
  BY <1>1, IntakeAssumption
<1>3. CASE Len(p.rows) = 1
  BY <1>2, <1>3, IntakeKinds DEF RowDone
<1>4. CASE Len(p.rows) # 1
  <2> DEFINE rows == Tail(p.rows)
  <2>1. rows \in Seq(Rows) /\ Len(rows) = Len(p.rows) - 1 /\ rows # << >>
    BY <1>1, <1>4, RowsAfterFirst
  <2> DEFINE q == Ingesting(rows, p.batch, p.counted)
  <2>2. IntakeBecomes(r, q)
    BY <1>4 DEF RowDone
  <2> HIDE DEF rows
  <2>3. /\ rows \in Seq(Rows) /\ p.batch \in Batches \cup {NoBatch}
        /\ p.counted \in BOOLEAN
    BY <1>1, <2>1
  <2>4. q \in IntakeState /\ q.at = "ingesting" /\ q.rows = rows /\ q.batch = p.batch
    BY <2>3, IngestingKind
  <2> HIDE DEF q
  <2> QED
    BY <1>2, <2>1, <2>2, <2>4
<1> QED
  BY <1>3, <1>4

(* A row that does not validate is recorded in its batch, and no more.     *)
LEMMA CommitRejectedRowInv ==
  ASSUME IntakeInv, NEW r \in IntakeCalls, CommitRejectedRow(r)
  PROVE  IntakeInv'
<1> DEFINE p == intakeCall[r]
<1>1. /\ IntakeTyped /\ RequestsAtWork /\ AtWork(r) /\ p \in IntakeState
      /\ RecordRow(p.batch, Bad) /\ RowDone(r)
      /\ UNCHANGED <<lead, company, month, sent, emails>>
  BY DEF CommitRejectedRow, IntakeInv, IntakeTyped, AtWork
<1>2. PICK q \in IntakeState :
        /\ IntakeBecomes(r, q) /\ q.at \in {"ended", "ingesting"}
        /\ Len(p.rows) \in 1 .. MaxRows
        /\ q.at = "ingesting" => /\ q.rows # << >> /\ q.batch = p.batch
                                 /\ Len(q.rows) = Len(p.rows) - 1
  BY <1>1, RowWritten
<1>3. p.batch \in Batches \cup {NoBatch} /\ (p.batch # NoBatch => batch[p.batch] # NoBatch)
  BY <1>1, IntakeFields DEF RequestsAtWork, AtWork
<1>4. Bad \in Rows
  BY DEF Rows
<1>5. /\ batch' \in [Batches -> {NoBatch} \cup SUBSET Rows]
      /\ \A b \in Batches : /\ batch[b] # NoBatch => batch'[b] # NoBatch
                            /\ batch[b] \cap Refs \subseteq batch'[b]
  BY <1>1, <1>3, <1>4, RowRecorded
<1>6. p.batch # NoBatch => batch'[p.batch] # NoBatch
  BY <1>3, <1>5
<1> HIDE DEF p
<1>7. EmailsAreAccounted'
  BY <1>1, <1>2, NobodyNotified
<1>8. q.at \in {"ingesting", "resolved"} =>
        /\ Len(q.rows) \in Nat /\ Len(q.rows) <= Len(p.rows) /\ Len(q.rows) <= MaxRows
        /\ q.rows # << >> /\ q.batch = p.batch
  BY <1>2, IntakeAssumption
<1>9. LeadQuotaIsSoft'
  BY <1>1, <1>2, <1>8, SameQuota DEF p
<1>10. sent' \subseteq Kinds /\ emails' \in [Kinds -> Nat] /\ q.at # "resolved"
  BY <1>1, <1>2 DEF IntakeTyped
<1> QED
  BY <1>1, <1>2, <1>5, <1>6, <1>7, <1>8, <1>9, <1>10, RequestStep

(* The first of the rows is committed with its company, its lead and the   *)
(* row of its batch, while the lock on a name is held.                     *)
LEMMA CommitRowInv ==
  ASSUME IntakeInv, NEW r \in IntakeCalls, CommitRow(r)
  PROVE  IntakeInv'
<1> DEFINE p == intakeCall[r]
           x == Head(p.rows)
           c == CompanyOf[x]
<1>1. /\ IntakeTyped /\ RequestsAtWork /\ AtWork(r) /\ p \in IntakeState
      /\ p.at = "resolved" /\ x \in Refs
      /\ AddCompany(c, p.found) /\ UpsertLead(x, p) /\ RecordRow(p.batch, x)
      /\ RowDone(r) /\ UNCHANGED <<month, sent, emails>>
  BY DEF CommitRow, IntakeInv, IntakeTyped, RequestsAtWork, AtWork
<1>2. PICK q \in IntakeState :
        /\ IntakeBecomes(r, q) /\ q.at \in {"ended", "ingesting"}
        /\ Len(p.rows) \in 1 .. MaxRows
        /\ q.at = "ended" => Len(p.rows) = 1
        /\ q.at = "ingesting" => /\ q.rows # << >> /\ q.batch = p.batch
                                 /\ Len(q.rows) = Len(p.rows) - 1
  BY <1>1, RowWritten
<1>3. /\ p.batch \in Batches \cup {NoBatch} /\ p.counted \in BOOLEAN
      /\ p.batch # NoBatch => batch[p.batch] # NoBatch
  BY <1>1, IntakeFields DEF RequestsAtWork, AtWork
<1>4. c \in Companies /\ x \in Rows
  BY <1>1 DEF Companies, Rows
<1> HIDE DEF c
<1>5. /\ batch' \in [Batches -> {NoBatch} \cup SUBSET Rows]
      /\ \A b \in Batches : /\ batch[b] # NoBatch => batch'[b] # NoBatch
                            /\ batch[b] \cap Refs \subseteq batch'[b]
      /\ p.batch # NoBatch => p.batch \in Batches /\ x \in batch'[p.batch]
  BY <1>1, <1>3, <1>4, RowRecorded
<1>6. /\ lead' \in [Refs -> LeadState \cup {NoLead}]
      /\ \A y \in Refs : y # x => lead'[y] = lead[y]
      /\ Exists(x) => lead'[x] = lead[x]
      /\ ~Exists(x) => lead'[x].batch = p.batch /\ lead'[x].month = month
  <2>1. CASE Exists(x)
    BY <1>1, <2>1 DEF UpsertLead, IntakeTyped
  <2>2. CASE ~Exists(x)
    <3> DEFINE row == [batch |-> p.batch, month |-> month, counted |-> p.counted]
    <3>1. lead' = [lead EXCEPT ![x] = row]
      BY <2>2 , <1>1 DEF UpsertLead
    <3>2. row \in LeadState /\ row.batch = p.batch /\ row.month = month
      BY <1>1, <1>3 DEF LeadState, IntakeTyped
    <3> HIDE DEF row
    <3> QED
      BY <1>1, <2>2, <3>1, <3>2 DEF IntakeTyped
  <2> QED
    BY <2>1, <2>2
<1>7. c \in NameOnly => /\ ~p.found => company[c] = 0
                        /\ \A s \in IntakeCalls : s # r => ~Names(s, c)
  <2>1. Names(r, c)
    BY <1>1 DEF Names, c
  <2> QED
    BY <2>1 DEF IntakeInv, NameLock
<1>8. /\ company' \in [Companies -> Nat]
      /\ \A d \in Companies : d # c => company'[d] = company[d]
      /\ company'[c] <= 1
  <2>1. company \in [Companies -> Nat] /\ company[c] <= 1 /\ company[c] \in Nat
    BY <1>1, <1>4 DEF IntakeInv, IntakeTyped, OneRowPerCompany
  <2>2. CASE UNCHANGED company
    BY <2>1, <2>2
  <2>3. CASE company[c] = 0 /\ company' = [company EXCEPT ![c] = company[c] + 1]
    BY <1>4, <2>1, <2>3
  <2> QED
    BY <1>1, <1>7, <2>2, <2>3 DEF AddCompany
<1>9. IntakeTyped'
  BY <1>1, <1>2, <1>5, <1>6, <1>8 DEF IntakeTyped, IntakeBecomes
<1>10. /\ q.at \in {"ingesting", "resolved"} =>
            /\ Len(q.rows) \in Nat /\ Len(q.rows) = Len(p.rows) - 1
            /\ Len(q.rows) <= MaxRows /\ q.rows # << >>
            /\ q.batch # NoBatch => batch'[q.batch] # NoBatch
       /\ q.at # "resolved" /\ q.at # "notifying"
  BY <1>2, <1>3, <1>5, IntakeAssumption
<1>11. RequestsAtWork'
  BY <1>1, <1>2, <1>5, <1>10, RequestsGoOn
<1>12. LeadsArePast'
  <2>1. \A y \in Refs : Exists(y)' => lead'[y].month <= month
    BY <1>1, <1>6 DEF IntakeInv, IntakeTyped, LeadsArePast, Exists
  <2> QED
    BY <1>1, <2>1 DEF LeadsArePast
<1>13. OneRowPerCompany'
  BY <1>8 DEF IntakeInv, OneRowPerCompany
<1>14. NameLock'
  <2> SUFFICES ASSUME NEW d \in NameOnly, NEW s \in IntakeCalls, Names(s, d)'
               PROVE  /\ \A t \in IntakeCalls : Names(t, d)' => t = s
                      /\ ~intakeCall'[s].found => company'[d] = 0
    BY DEF NameLock
  <2>1. \A t \in IntakeCalls : Names(t, d)' =>
          t # r /\ Names(t, d) /\ intakeCall'[t] = intakeCall[t]
    BY <1>1, <1>2, <1>10 DEF IntakeTyped, IntakeBecomes, Names
  <2>2. /\ \A t \in IntakeCalls : Names(t, d) => t = s
        /\ ~intakeCall[s].found => company[d] = 0
    BY <2>1 DEF IntakeInv, NameLock
  <2>3. d # c /\ d \in Companies
    <3>1. Head(intakeCall[s].rows) \in Refs /\ CompanyOf[Head(intakeCall[s].rows)] = d
      BY <1>1, <2>1 DEF RequestsAtWork, AtWork, Names
    <3> QED
      BY <1>7, <2>1, <3>1 DEF Companies
  <2> QED
    BY <1>8, <2>1, <2>2, <2>3
<1>15. AttributedLeadHasRow'
  <2> SUFFICES ASSUME NEW b \in Batches, NEW y \in Attributed(b)' PROVE y \in batch'[b]
    BY DEF AttributedLeadHasRow
  <2>1. y \in Refs /\ Exists(y)' /\ lead'[y].batch = b
    BY DEF Attributed
  <2>2. CASE y # x \/ Exists(x)
    <3>1. y \in Attributed(b)
      BY <1>6, <2>1, <2>2 DEF Attributed, Exists
    <3> QED
      BY <1>5, <2>1, <3>1 DEF IntakeInv, AttributedLeadHasRow
  <2>3. CASE y = x /\ ~Exists(x)
    BY <1>5, <1>6, <2>1, <2>3, NoBatchAssumption
  <2> QED
    BY <2>2, <2>3
<1>16. LeadQuotaIsSoft'
  <2>1. RowsLeft(r) = Len(p.rows) /\ RowsLeft(r)' = Len(p.rows) - 1
    <3>1. intakeCall'[r] = q
      BY <1>1, <1>2 DEF IntakeTyped, IntakeBecomes
    <3>2. RowsLeft(r)' = IF q.at = "ended" THEN 0 ELSE Len(q.rows)
      BY <1>2, <3>1 DEF RowsLeft
    <3>3. RowsLeft(r) = Len(p.rows)
      BY <1>1 DEF RowsLeft
    <3>4. CASE q.at = "ended"
      BY <1>2, <3>2, <3>3, <3>4
    <3>5. CASE q.at = "ingesting"
      BY <1>2, <3>2, <3>3, <3>5
    <3> QED
      BY <1>2, <3>4, <3>5
  <2>2. \A s \in IntakeCalls : s # r => RowsLeft(s)' = RowsLeft(s)
    BY <1>1, <1>2 DEF RowsLeft, IntakeTyped, IntakeBecomes
  <2>3. {y \in Refs : Counted(y)'} \subseteq {y \in Refs : Counted(y)} \cup {x}
    BY <1>1, <1>6 DEF Counted, Exists
  <2>4. LeadQuotaIsSoft /\ RowsLeft(r) \in 1 .. MaxRows /\ RowsLeft(r)' = RowsLeft(r) - 1
    BY <1>2, <2>1 DEF IntakeInv
  <2> QED
    BY <2>2, <2>3, <2>4, OneRowWritten
<1>17. EmailsAreAccounted'
  BY <1>1, <1>2, <1>10, NobodyNotified
<1> QED
  BY <1>9, <1>11, <1>12, <1>13, <1>14, <1>15, <1>16, <1>17 DEF IntakeInv

(* A key is revoked; a month begins, with no lead of its own and no email. *)
LEMMA RevokeApiKeyInv ==
  ASSUME IntakeInv, UNCHANGED <<lead, company, batch, intakeCall, month, sent, emails>>
  PROVE  IntakeInv'
BY DEF IntakeInv, IntakeTyped, RequestsAtWork, AtWork, LeadsArePast, NameLock, Names,
       OneRowPerCompany, AttributedLeadHasRow, Attributed, Exists, LeadQuotaIsSoft,
       LeadsProcessed, Counted, InFlight, UnwrittenRows, RowsLeft, EmailsAreAccounted,
       NotifiersOf

LEMMA NextMonthInv ==
  ASSUME IntakeInv, NextMonth
  PROVE  IntakeInv'
<1>1. /\ IntakeTyped /\ month' = month + 1 /\ month \in Nat
      /\ emails' = [k \in Kinds |-> 0] /\ sent' = {}
      /\ UNCHANGED <<lead, company, batch, intakeCall>>
  BY DEF NextMonth, IntakeInv, IntakeTyped, tables
<1>2. IntakeTyped' /\ RequestsAtWork' /\ NameLock' /\ OneRowPerCompany'
  BY <1>1 DEF IntakeInv, IntakeTyped, RequestsAtWork, AtWork, NameLock, Names,
              OneRowPerCompany
<1>3. \A x \in Refs : Exists(x) => lead[x].month \in Nat /\ lead[x].month <= month
  BY <1>1 DEF IntakeInv, IntakeTyped, LeadsArePast, LeadState, Exists
<1>4. LeadsArePast'
  BY <1>1, <1>3 DEF LeadsArePast, Exists
<1>5. AttributedLeadHasRow'
  BY <1>1 DEF IntakeInv, AttributedLeadHasRow, Attributed, Exists
<1>6. LeadQuotaIsSoft'
  <2>1. {x \in Refs : Counted(x)'} = {}
    BY <1>1, <1>3 DEF Counted, Exists
  <2>2. LeadsProcessed' = 0
    BY <2>1, FS_EmptySet DEF LeadsProcessed
  <2> QED
    BY <2>2, QuotaNumbers, AdmittedBelowLimit
<1>7. EmailsAreAccounted'
  BY <1>1, EmailsStep
<1> QED
  BY <1>2, <1>4, <1>5, <1>6, <1>7 DEF IntakeInv

LEMMA IntakeStepInv == IntakeInv /\ [IntakeNext]_intakeVars => IntakeInv'
<1> SUFFICES ASSUME IntakeInv, [IntakeNext]_intakeVars PROVE IntakeInv'
  OBVIOUS
<1>1. ASSUME NEW r \in IntakeCalls, IntakeStep(r) PROVE IntakeInv'
  BY <1>1, AdmissionInv, ResolveCompanyInv, CommitRowInv, CommitRejectedRowInv,
     LeavingInv DEF IntakeStep
<1>2. CASE RevokeApiKey \/ UNCHANGED intakeVars
  BY <1>2, RevokeApiKeyInv DEF RevokeApiKey, intakeVars, tables
<1> QED
  BY <1>1, <1>2, NextMonthInv DEF IntakeNext

(* The inductive invariant of the intake (api/ingest.py, batches.py,       *)
(* usage_notifications.py).                                                *)
THEOREM IntakeInvariant == IntakeSpec => []IntakeInv
BY IntakeInitInv, IntakeStepInv, PTL DEF IntakeSpec

(* What the invariant says of the tables, the quota and the emails.        *)
LEMMA IntakeInvIsSound ==
  ASSUME IntakeInv
  PROVE  /\ IntakeTypeOK /\ LeadQuotaIsSoft /\ UsageEmailsBounded
         /\ OneRowPerCompany /\ AttributedLeadHasRow
<1>0. IntakeTyped
  BY DEF IntakeInv
<1>1. IntakeTypeOK
  <2>1. ASSUME NEW x \in Refs, Exists(x)
        PROVE  lead[x] \in [batch : Batches \cup {NoBatch}, month : 0 .. month,
                            counted : BOOLEAN]
    <3>1. lead[x] \in LeadState /\ lead[x].month <= month /\ lead[x].month \in Nat
          /\ month \in Nat
      BY <1>0, <2>1 DEF IntakeInv, IntakeTyped, LeadsArePast, Exists, LeadState
    <3> QED
      BY <3>1 DEF LeadState
  <2>2. ASSUME NEW r \in IntakeCalls PROVE RowsLeft(r) <= MaxRows
    BY IntakeAssumption DEF RowsLeft, IntakeInv, RequestsAtWork, AtWork
  <2> QED
    BY <1>0, <2>1, <2>2 DEF IntakeTypeOK, IntakeTyped
<1>2. UsageEmailsBounded
  <2> SUFFICES ASSUME NEW k \in Kinds PROVE emails[k] <= Cardinality(IntakeCalls)
    BY DEF UsageEmailsBounded
  <2>1. NotifiersOf(k) \in SUBSET IntakeCalls
    BY DEF NotifiersOf
  <2>2. Cardinality(NotifiersOf(k)) \in Nat /\ Cardinality(IntakeCalls) \in Nat
    BY <2>1, FiniteCallers
  <2> QED
    BY <1>0, <2>2 DEF IntakeInv, IntakeTyped, EmailsAreAccounted
<1> QED
  BY <1>1, <1>2 DEF IntakeInv

(* A lead that exists keeps its batch, its month and its class.            *)
LEMMA FirstWriteStep ==
  ASSUME IntakeInv, [IntakeNext]_intakeVars, NEW x \in Refs, Exists(x)
  PROVE  lead'[x] = lead[x]
<1>1. lead \in [Refs -> LeadState \cup {NoLead}]
  BY DEF IntakeInv, IntakeTyped
<1>2. ASSUME NEW y, NEW q, UpsertLead(y, q) PROVE lead'[x] = lead[x]
  BY <1>1, <1>2 DEF UpsertLead, Exists
<1> QED
  BY <1>2
     DEF IntakeNext, IntakeStep, intakeVars, tables, KeepTables, RevokeApiKey, NextMonth,
         PostLead, UploadBatch, ResolveCompany, CommitRow, CommitRejectedRow, Abort,
         CheckUsage, SendUsageEmail

-----------------------------------------------------------------------------
(* Migrations: the states of the databases and of the runs.                *)
Targets == {"test", "production"}
Urls ==
  (UNION {{e.testDirect, e.testPooled, e.direct, e.pooled} : e \in Environments})
    \ {Unset}
AppliedRows == UNION {[S -> Texts] : S \in SUBSET (1 .. MaxFile)}
Invocation == [target : Targets, dry : BOOLEAN, confirmed : BOOLEAN, url : Urls]
AppliedFile == [file : 1 .. MaxFile, text : Texts, by : Invocation]

ConnectedRun ==
  [at : {"connected"}, target : Targets, dry : BOOLEAN, confirmed : BOOLEAN, url : Urls]
ReadRun ==
  [at : {"read"}, target : Targets, dry : BOOLEAN, confirmed : BOOLEAN, url : Urls,
   already : AppliedRows]
LoopingRun ==
  [at : {"looping"}, target : Targets, dry : BOOLEAN, confirmed : BOOLEAN, url : Urls,
   already : AppliedRows, listed : SUBSET (1 .. MaxFile), todo : SUBSET (1 .. MaxFile)]
DoneRun == [at : {"done"}, url : Urls, listed : SUBSET (1 .. MaxFile)]
RunState == {NotRunning} \cup ConnectedRun \cup ReadRun \cup LoopingRun \cup DoneRun

MigrationsTyped ==
  /\ env \in Environments
  /\ tree \in AppliedRows
  /\ schemaRows \in [Databases -> {NoTable} \cup AppliedRows]
  /\ runner \in [Runners -> RunState]
  /\ ran \in [Databases -> Seq(AppliedFile)]

\* The invocation is one that main lets through.
Acknowledged(by) ==
  /\ by.target = "production" /\ ~by.dry => by.confirmed /\ by.url = env.direct
  /\ by.target = "test" => /\ by.url \in {env.testDirect, env.testPooled}
                           /\ by.url.place \notin ProductionIdentities

\* The committed DDL and the rows that say so, entry by entry.
RowsMatch ==
  \A db \in Databases :
    /\ \A i, j \in DOMAIN ran[db] : ran[db][i].file = ran[db][j].file => i = j
    /\ \A i \in DOMAIN ran[db] : /\ ran[db][i].file \in DOMAIN RowsOf(db)
                                 /\ RowsOf(db)[ran[db][i].file] = ran[db][i].text
    /\ \A f \in DOMAIN RowsOf(db) : \E i \in DOMAIN ran[db] : ran[db][i].file = f

\* What a run has read or passed is in its database.
RunIsBacked(r) ==
  /\ runner[r].at \in {"connected", "read", "looping"} => Acknowledged(runner[r])
  /\ runner[r].at \in {"read", "looping"} =>
       DOMAIN runner[r].already \subseteq DOMAIN RowsOf(Db(r))
  /\ runner[r].at = "read" => ~runner[r].dry
  /\ runner[r].at = "looping" =>
       /\ ~runner[r].dry => schemaRows[Db(r)] # NoTable
       /\ runner[r].todo \subseteq runner[r].listed
       /\ runner[r].listed \subseteq DOMAIN tree
       /\ \A f \in runner[r].listed \ runner[r].todo :
            /\ ~runner[r].dry => f \in DOMAIN RowsOf(Db(r))
            /\ \A g \in runner[r].todo : f < g
  /\ runner[r].at = "done" => runner[r].listed \subseteq DOMAIN RowsOf(Db(r))

MigrationsInv ==
  /\ MigrationsTyped
  /\ RowsMatch
  /\ \A r \in Runners : RunIsBacked(r)
  /\ \A db \in Databases : \A i \in DOMAIN ran[db] :
       ~ran[db][i].by.dry /\ Acknowledged(ran[db][i].by)

-----------------------------------------------------------------------------
(* A nonempty set of numbers has a least one.                              *)
LEMMA LeastNumber ==
  ASSUME NEW S \in SUBSET Nat, S # {}
  PROVE  \E x \in S : \A y \in S : x <= y
<1> DEFINE R == {ss \in Nat \X Nat : ss[1] < ss[2]}
<1>1. IsWellFoundedOn(R, Nat)
  BY NatLessThanWellFounded DEF OpToRel
<1>2. PICK x \in S : \A y \in S : ~(<<y, x>> \in R)
  <2> HIDE DEF R
  <2> QED
    BY <1>1, WFMin
<1>3. ASSUME NEW y \in S PROVE x <= y
  <2>1. <<y, x>> \in R <=> y < x
    OBVIOUS
  <2>2. y \in Nat /\ x \in Nat /\ ~(<<y, x>> \in R)
    BY <1>2
  <2> HIDE DEF R
  <2> QED
    BY <2>1, <2>2
<1> QED
  BY <1>3

(* The rows of a database without the table are no rows.                   *)
LEMMA AppliedRowsFacts ==
  /\ << >> \in AppliedRows /\ DOMAIN << >> = {}
  /\ NoTable \notin AppliedRows
  /\ \A s \in AppliedRows : /\ DOMAIN s \in SUBSET (1 .. MaxFile)
                            /\ s \in [DOMAIN s -> Texts]
  /\ \A S \in SUBSET (1 .. MaxFile) : [S -> Texts] \subseteq AppliedRows
<1>1. \A S \in SUBSET (1 .. MaxFile) : [S -> Texts] \subseteq AppliedRows
  BY DEF AppliedRows
<1>2. \A s \in AppliedRows : /\ DOMAIN s \in SUBSET (1 .. MaxFile)
                             /\ s \in [DOMAIN s -> Texts]
  BY DEF AppliedRows
<1>3. << >> \in [{} -> Texts] /\ DOMAIN << >> = {}
  OBVIOUS
<1>4. DOMAIN NoTable = {0} /\ 0 \notin 1 .. MaxFile
  BY MigrationsAssumption DEF NoTable
<1> QED
  BY <1>1, <1>2, <1>3, <1>4

LEMMA RowsOfTyped ==
  ASSUME MigrationsTyped, NEW db \in Databases
  PROVE  /\ RowsOf(db) \in AppliedRows
         /\ schemaRows[db] # NoTable => RowsOf(db) = schemaRows[db]
BY AppliedRowsFacts DEF MigrationsTyped, RowsOf

(* What a run carries at each point.                                       *)
LEMMA RunFields ==
  ASSUME NEW q \in RunState
  PROVE  /\ q.at \in {"connected", "read", "looping"} =>
              /\ q.target \in Targets /\ q.dry \in BOOLEAN /\ q.confirmed \in BOOLEAN
              /\ q.url \in Urls
         /\ q.at \in {"read", "looping"} => q.already \in AppliedRows
         /\ q.at = "looping" => /\ q \in LoopingRun
                                /\ q.listed \in SUBSET (1 .. MaxFile)
                                /\ q.todo \in SUBSET (1 .. MaxFile)
         /\ q.at = "done" => q.url \in Urls /\ q.listed \in SUBSET (1 .. MaxFile)
BY DEF RunState, ConnectedRun, ReadRun, LoopingRun, DoneRun, NotRunning

LEMMA UrlsReachDatabases ==
  ASSUME NEW u \in Urls
  PROVE  u.db \in Databases
BY EnvironmentsAssumption DEF Urls

LEMMA IdleRun == NotRunning \in RunState /\ NotRunning.at = "idle"
BY DEF NotRunning, RunState

LEMMA NextFileIsLeast ==
  ASSUME NEW r \in Runners, runner[r] \in LoopingRun, runner[r].todo # {}
  PROVE  /\ NextFile(r) \in runner[r].todo /\ NextFile(r) \in 1 .. MaxFile
         /\ \A g \in runner[r].todo : NextFile(r) <= g
<1>1. runner[r].todo \in SUBSET (1 .. MaxFile)
  BY DEF LoopingRun
<1>2. runner[r].todo \in SUBSET Nat
  BY <1>1
<1>3. \E f \in runner[r].todo : \A g \in runner[r].todo : f <= g
  BY <1>2, LeastNumber
<1> QED
  BY <1>1, <1>3 DEF NextFile

(* A run that does not move keeps what backs it while rows only grow.      *)
LEMMA OthersAreBacked ==
  ASSUME MigrationsInv, NEW s \in Runners, runner'[s] = runner[s], env' = env,
         DOMAIN tree \subseteq DOMAIN tree',
         \A db \in Databases :
           /\ DOMAIN RowsOf(db) \subseteq DOMAIN RowsOf(db)'
           /\ schemaRows[db] # NoTable => schemaRows'[db] # NoTable
  PROVE  RunIsBacked(s)'
<1>1. RunIsBacked(s) /\ runner[s] \in RunState
  BY DEF MigrationsInv, MigrationsTyped
<1>2. runner[s].at # "idle" => Db(s) \in Databases
  BY <1>1, RunFields, UrlsReachDatabases DEF Db, RunState, NotRunning, ConnectedRun,
     ReadRun, LoopingRun, DoneRun
<1>3. /\ Acknowledged(runner[s]) => Acknowledged(runner[s])'
      /\ Db(s)' = Db(s)
  BY DEF Acknowledged, ProductionIdentities, Db
<1>4. ASSUME runner[s].at # "idle"
      PROVE  /\ DOMAIN RowsOf(Db(s)) \subseteq DOMAIN RowsOf(Db(s))'
             /\ schemaRows[Db(s)] # NoTable => (schemaRows[Db(s)] # NoTable)'
  <2> DEFINE d == runner[s].url.db
  <2>1. d \in Databases /\ Db(s) = d /\ runner'[s].url.db = d
    BY <1>2, <1>4 DEF Db
  <2>2. RowsOf(Db(s))' = IF schemaRows'[d] = NoTable THEN << >> ELSE schemaRows'[d]
    BY <2>1 DEF RowsOf, Db
  <2>3. RowsOf(d)' = IF schemaRows'[d] = NoTable THEN << >> ELSE schemaRows'[d]
    BY DEF RowsOf
  <2> QED
    BY <1>3, <2>1, <2>2, <2>3
<1> QED
  BY <1>1, <1>3, <1>4 DEF RunIsBacked

(* A run moves and the databases stay as they are.                         *)
LEMMA OnlyTheRun ==
  ASSUME MigrationsInv, NEW r \in Runners, NEW q \in RunState, RunnerBecomes(r, q),
         KeepDatabases, RunIsBacked(r)'
  PROVE  MigrationsInv'
<1>1. /\ UNCHANGED <<env, tree, schemaRows, ran>> /\ MigrationsTyped
      /\ \A s \in Runners : runner'[s] = IF s = r THEN q ELSE runner[s]
  BY DEF KeepDatabases, MigrationsInv, MigrationsTyped, RunnerBecomes
<1>2. MigrationsTyped'
  BY <1>1 DEF MigrationsTyped, RunnerBecomes
<1>3. \A db \in Databases : RowsOf(db)' = RowsOf(db)
  BY <1>1 DEF RowsOf
<1>4. RowsMatch'
  BY <1>1, <1>3 DEF MigrationsInv, RowsMatch
<1>5. ASSUME NEW s \in Runners PROVE RunIsBacked(s)'
  <2>1. CASE s = r
    BY <2>1
  <2>2. CASE s # r
    BY <1>1, <1>3, <2>2, OthersAreBacked
  <2> QED
    BY <2>1, <2>2
<1>6. \A db \in Databases : \A i \in DOMAIN ran'[db] :
        ~ran'[db][i].by.dry /\ Acknowledged(ran[db][i].by)'
  BY <1>1 DEF MigrationsInv, Acknowledged, ProductionIdentities
<1> QED
  BY <1>2, <1>4, <1>5, <1>6 DEF MigrationsInv

LEMMA MigrationsInitInv == MigrationsInit => MigrationsInv
<1> SUFFICES ASSUME MigrationsInit PROVE MigrationsInv
  OBVIOUS
<1>1. tree \in AppliedRows
  <2>1. [f \in {MaxFile} |-> "first"] \in [{MaxFile} -> Texts]
    BY DEF Texts
  <2>2. {MaxFile} \in SUBSET (1 .. MaxFile)
    BY MigrationsAssumption
  <2> QED
    BY <2>1, <2>2, AppliedRowsFacts DEF MigrationsInit
<1>2. \A db \in Databases : ran[db] = << >> /\ RowsOf(db) = << >>
  BY DEF MigrationsInit, RowsOf
<1>3. << >> \in Seq(AppliedFile)
  OBVIOUS
<1>4. MigrationsTyped
  BY <1>1, <1>3, IdleRun DEF MigrationsInit, MigrationsTyped
<1>5. RowsMatch
  BY <1>2, AppliedRowsFacts DEF RowsMatch
<1>6. \A r \in Runners : RunIsBacked(r)
  BY IdleRun DEF MigrationsInit, RunIsBacked
<1> QED
  BY <1>2, <1>4, <1>5, <1>6 DEF MigrationsInv

(* main lets an invocation through that resolves to what it names.         *)
LEMMA InvokeInv ==
  ASSUME MigrationsInv, NEW r \in Runners, NEW target \in Targets, NEW dry \in BOOLEAN,
         NEW confirmed \in Flags(target, dry), Invoke(r, target, dry, confirmed)
  PROVE  MigrationsInv'
<1> DEFINE u == Candidate(target)
           q == [at |-> "connected", target |-> target, dry |-> dry,
                 confirmed |-> confirmed, url |-> u]
<1>1. /\ env \in Environments /\ RunnerBecomes(r, q) /\ KeepDatabases
      /\ u # Unset /\ confirmed \in BOOLEAN
      /\ target = "test" => u.place \notin ProductionIdentities
      /\ target = "production" /\ ~dry => confirmed /\ ~PooledFallback(target)
  BY DEF Invoke, MigrationsInv, MigrationsTyped, MayRun, Resolves, Flags
<1>2. /\ u \in {env.testDirect, env.testPooled, env.direct, env.pooled}
      /\ target = "test" => u \in {env.testDirect, env.testPooled}
      /\ target = "production" /\ ~PooledFallback(target) => u = env.direct
  BY DEF Candidate, DirectUrl, PooledUrl, PooledFallback, Targets
<1>3. u \in Urls
  BY <1>1, <1>2 DEF Urls
<1>4. /\ q \in RunState /\ q.at = "connected" /\ q.target = target /\ q.dry = dry
      /\ q.confirmed = confirmed /\ q.url = u
  BY <1>1, <1>3 DEF RunState, ConnectedRun
<1> HIDE DEF q, u
<1>5. /\ q.target = "production" /\ ~q.dry => q.confirmed /\ q.url = env.direct
      /\ q.target = "test" => /\ q.url \in {env.testDirect, env.testPooled}
                              /\ q.url.place \notin ProductionIdentities
  BY <1>1, <1>2, <1>4
<1>6. Acknowledged(runner[r])' /\ runner'[r].at = "connected"
  <2>1. runner'[r] = q /\ env' = env
    BY <1>1 DEF KeepDatabases, RunnerBecomes, MigrationsInv, MigrationsTyped
  <2> QED
    BY <1>4, <1>5, <2>1 DEF Acknowledged, ProductionIdentities
<1>7. RunIsBacked(r)'
  BY <1>6 DEF RunIsBacked
<1> QED
  BY <1>1, <1>4, <1>7, OnlyTheRun

(* What backs a run that has moved.                                        *)
LEMMA MovedRunIsBacked ==
  ASSUME NEW r \in Runners, NEW q, NEW d, d = q.url.db, runner'[r] = q, env' = env,
         q.at \in {"connected", "read", "looping"} => Acknowledged(q),
         q.at \in {"read", "looping"} => DOMAIN q.already \subseteq DOMAIN RowsOf(d)',
         q.at = "read" => ~q.dry,
         q.at = "looping" =>
           /\ ~q.dry => schemaRows'[d] # NoTable
           /\ q.todo \subseteq q.listed /\ q.listed \subseteq DOMAIN tree'
           /\ \A f \in q.listed \ q.todo : /\ ~q.dry => f \in DOMAIN RowsOf(d)'
                                           /\ \A g \in q.todo : f < g,
         q.at = "done" => q.listed \subseteq DOMAIN RowsOf(d)'
  PROVE  RunIsBacked(r)'
<1>1. RowsOf(Db(r))' = RowsOf(d)' /\ Db(r)' = d
  BY DEF Db, RowsOf
<1>2. Acknowledged(q) => Acknowledged(runner[r])'
  BY DEF Acknowledged, ProductionIdentities
<1> QED
  BY <1>1, <1>2 DEF RunIsBacked

(* A run begins to look at the files it lists.                             *)
LEMMA StartedRun ==
  ASSUME tree \in AppliedRows, NEW run \in ConnectedRun \cup ReadRun,
         NEW already \in AppliedRows
  PROVE  /\ Started(run, already) \in RunState
         /\ \/ Started(run, already) = NotRunning
            \/ /\ Started(run, already).at = "looping"
               /\ Started(run, already).target = run.target
               /\ Started(run, already).dry = run.dry
               /\ Started(run, already).confirmed = run.confirmed
               /\ Started(run, already).url = run.url
               /\ Started(run, already).already = already
               /\ Started(run, already).todo = Started(run, already).listed
               /\ Started(run, already).listed = DOMAIN tree
<1>1. CASE tree = << >>
  BY <1>1, IdleRun DEF Started
<1>2. CASE tree # << >>
  <2> DEFINE q == [at |-> "looping", target |-> run.target, dry |-> run.dry,
                   confirmed |-> run.confirmed, url |-> run.url, already |-> already,
                   listed |-> DOMAIN tree, todo |-> DOMAIN tree]
  <2>1. Started(run, already) = q
    BY <1>2 DEF Started
  <2>2. DOMAIN tree \in SUBSET (1 .. MaxFile)
    BY AppliedRowsFacts
  <2>3. /\ run.target \in Targets /\ run.dry \in BOOLEAN /\ run.confirmed \in BOOLEAN
        /\ run.url \in Urls
    BY DEF ConnectedRun, ReadRun
  <2>4. q \in LoopingRun
    BY <2>2, <2>3 DEF LoopingRun
  <2> QED
    BY <2>1, <2>4 DEF RunState
<1> QED
  BY <1>1, <1>2

LEMMA SameAcknowledged ==
  ASSUME NEW p, NEW q, Acknowledged(p), q.target = p.target, q.dry = p.dry,
         q.confirmed = p.confirmed, q.url = p.url
  PROVE  Acknowledged(q)
BY DEF Acknowledged

(* What a run that begins to loop is backed by.                            *)
LEMMA StartedIsBacked ==
  ASSUME MigrationsInv, NEW r \in Runners, runner[r].at \in {"connected", "read"},
         NEW d, d = runner[r].url.db, NEW already \in AppliedRows,
         DOMAIN already \subseteq DOMAIN RowsOf(d)', env' = env, tree' = tree,
         ~runner[r].dry => schemaRows'[d] # NoTable,
         RunnerBecomes(r, Started(runner[r], already))
  PROVE  Started(runner[r], already) \in RunState /\ RunIsBacked(r)'
<1> DEFINE q == Started(runner[r], already)
<1>1. /\ tree \in AppliedRows /\ runner[r] \in ConnectedRun \cup ReadRun
      /\ Acknowledged(runner[r]) /\ runner'[r] = q
  BY DEF MigrationsInv, MigrationsTyped, RunIsBacked, RunState, NotRunning, LoopingRun,
         DoneRun, RunnerBecomes
<1>2. /\ q \in RunState
      /\ \/ q = NotRunning
         \/ /\ q.at = "looping" /\ q.target = runner[r].target /\ q.dry = runner[r].dry
            /\ q.confirmed = runner[r].confirmed /\ q.url = runner[r].url
            /\ q.already = already /\ q.todo = q.listed /\ q.listed = DOMAIN tree
  BY <1>1, StartedRun
<1> HIDE DEF q
<1>3. ASSUME q = NotRunning PROVE RunIsBacked(r)'
  BY <1>1, <1>3, IdleRun DEF RunIsBacked
<1>4. ASSUME q # NotRunning PROVE RunIsBacked(r)'
  <2>1. Acknowledged(q)
    BY <1>1, <1>2, <1>4, SameAcknowledged
  <2> QED
    BY <1>1, <1>2, <1>4, <2>1, MovedRunIsBacked
<1> QED
  BY <1>2, <1>3, <1>4 DEF q

(* The rows are read, once for the run (_already_applied).                 *)
LEMMA ReadAppliedInv ==
  ASSUME MigrationsInv, NEW r \in Runners, ReadApplied(r)
  PROVE  MigrationsInv'
<1> DEFINE p == runner[r]
           d == p.url.db
           already == RowsOf(d)
           read == Read(p, already)
<1>1. /\ MigrationsTyped /\ p \in RunState /\ p.at = "connected"
      /\ KeepDatabases /\ env' = env /\ tree' = tree /\ schemaRows' = schemaRows
      /\ RunnerBecomes(r, IF p.dry THEN Started(p, already) ELSE read)
      /\ Acknowledged(p)
  BY DEF ReadApplied, MigrationsInv, MigrationsTyped, KeepDatabases, Db, RunIsBacked
<1>2. /\ p.target \in Targets /\ p.dry \in BOOLEAN /\ p.confirmed \in BOOLEAN
      /\ p.url \in Urls /\ d \in Databases
  BY <1>1, RunFields, UrlsReachDatabases
<1>3. already \in AppliedRows /\ already = RowsOf(d)
  BY <1>1, <1>2, RowsOfTyped
<1>4. \A e : e = d => RowsOf(e)' = already
  BY <1>1 DEF RowsOf
<1>5. CASE p.dry
  <2> HIDE DEF already
  <2>1. RunnerBecomes(r, Started(p, already))
    BY <1>1, <1>5
  <2>2. Started(runner[r], already) \in RunState /\ RunIsBacked(r)'
    BY <1>1, <1>2, <1>3, <1>4, <1>5, <2>1, StartedIsBacked
  <2> QED
    BY <1>1, <2>1, <2>2, OnlyTheRun
<1>6. CASE ~p.dry
  <2> HIDE DEF already
  <2>1. /\ read \in ReadRun /\ read.at = "read" /\ read.target = p.target
        /\ read.dry = p.dry /\ read.confirmed = p.confirmed /\ read.url = p.url
        /\ read.already = already
    BY <1>2, <1>3 DEF Read, ReadRun
  <2>2. RunnerBecomes(r, read) /\ read \in RunState
    BY <1>1, <1>6, <2>1 DEF RunState
  <2> HIDE DEF read
  <2>3. Acknowledged(read) /\ runner'[r] = read
    BY <1>1, <2>1, <2>2, SameAcknowledged DEF RunnerBecomes, MigrationsTyped
  <2>4. RunIsBacked(r)'
    BY <1>1, <1>2, <1>4, <1>6, <2>1, <2>3, MovedRunIsBacked
  <2> QED
    BY <1>1, <2>2, <2>4, OnlyTheRun
<1> QED
  BY <1>5, <1>6

(* The table is created, and the run begins to loop.                       *)
LEMMA BootstrapInv ==
  ASSUME MigrationsInv, NEW r \in Runners, Bootstrap(r)
  PROVE  MigrationsInv'
<1> DEFINE p == runner[r]
           d == p.url.db
           q == Started(p, p.already)
<1>1. /\ MigrationsTyped /\ p \in RunState /\ p.at = "read" /\ RunnerBecomes(r, q)
      /\ schemaRows' = [schemaRows EXCEPT ![d] = RowsOf(d)]
      /\ UNCHANGED <<env, tree, ran>> /\ ~p.dry
      /\ DOMAIN p.already \subseteq DOMAIN RowsOf(d)
  BY DEF Bootstrap, MigrationsInv, MigrationsTyped, Db, RunIsBacked
<1>2. d \in Databases /\ p.already \in AppliedRows
  BY <1>1, RunFields, UrlsReachDatabases
<1>3. RowsOf(d) \in AppliedRows
  BY <1>1, <1>2, RowsOfTyped
<1>4. /\ schemaRows' \in [Databases -> {NoTable} \cup AppliedRows]
      /\ schemaRows'[d] # NoTable
      /\ \A db \in Databases : schemaRows[db] # NoTable => schemaRows'[db] # NoTable
  BY <1>1, <1>2, <1>3, AppliedRowsFacts DEF MigrationsTyped
<1>5. \A db \in Databases : RowsOf(db)' = RowsOf(db)
  <2> SUFFICES ASSUME NEW db \in Databases PROVE RowsOf(db)' = RowsOf(db)
    OBVIOUS
  <2>1. CASE db = d
    <3>1. schemaRows'[db] = RowsOf(db) /\ schemaRows'[db] # NoTable
      BY <1>1, <1>2, <1>4, <2>1 DEF MigrationsTyped
    <3> QED
      BY <3>1 DEF RowsOf
  <2>2. CASE db # d
    BY <1>1, <2>2 DEF RowsOf, MigrationsTyped
  <2> QED
    BY <2>1, <2>2
<1>6. q \in RunState /\ RunIsBacked(r)'
  BY <1>1, <1>2, <1>4, <1>5, StartedIsBacked
<1> HIDE DEF q
<1>7. MigrationsTyped'
  BY <1>1, <1>4, <1>6 DEF MigrationsTyped, RunnerBecomes
<1>8. RowsMatch'
  BY <1>1, <1>5 DEF MigrationsInv, RowsMatch
<1>9. ASSUME NEW s \in Runners PROVE RunIsBacked(s)'
  <2>1. CASE s = r
    BY <1>6, <2>1
  <2>2. CASE s # r
    <3>1. runner'[s] = runner[s]
      BY <1>1, <2>2 DEF MigrationsTyped, RunnerBecomes
    <3> QED
      BY <1>1, <1>4, <1>5, <3>1, OthersAreBacked
  <2> QED
    BY <2>1, <2>2
<1>10. \A db \in Databases : \A i \in DOMAIN ran'[db] :
        ~ran'[db][i].by.dry /\ Acknowledged(ran[db][i].by)'
  BY <1>1 DEF MigrationsInv, Acknowledged, ProductionIdentities
<1> QED
  BY <1>7, <1>8, <1>9, <1>10 DEF MigrationsInv

(* A run passes its least file, which is applied if it is to be.           *)
LEMMA PassingRun ==
  ASSUME MigrationsInv, NEW r \in Runners, runner[r].at = "looping", runner[r].todo # {},
         NEW f, f = NextFile(r), NEW d, d = runner[r].url.db, Passes(r), env' = env, tree' = tree,
         DOMAIN RowsOf(d) \subseteq DOMAIN RowsOf(d)',
         schemaRows[d] # NoTable => schemaRows'[d] # NoTable,
         ~runner[r].dry => f \in DOMAIN RowsOf(d)'
  PROVE  /\ \E q \in RunState : RunnerBecomes(r, q)
         /\ RunIsBacked(r)'
<1> DEFINE p == runner[r]
           q == [p EXCEPT !.todo = @ \ {f}]
<1>1. /\ p \in LoopingRun /\ RunIsBacked(r) /\ RunnerBecomes(r, q) /\ runner'[r] = q
      /\ Db(r) = d
  BY RunFields DEF MigrationsInv, MigrationsTyped, Passes, RunnerBecomes, Db
<1>2. f \in p.todo /\ \A g \in p.todo : f <= g
  BY <1>1, NextFileIsLeast
<1>3. p.todo \in SUBSET (1 .. MaxFile) /\ p.todo \subseteq p.listed
  BY <1>1 DEF LoopingRun, RunIsBacked
<1>4. /\ q \in LoopingRun /\ q.at = "looping" /\ q.target = p.target /\ q.dry = p.dry
      /\ q.confirmed = p.confirmed /\ q.url = p.url /\ q.already = p.already
      /\ q.listed = p.listed /\ q.todo = p.todo \ {f}
  BY <1>1, <1>3 DEF LoopingRun
<1> HIDE DEF q
<1>5. Acknowledged(q)
  BY <1>1, <1>4, SameAcknowledged DEF RunIsBacked
<1>6. DOMAIN q.already \subseteq DOMAIN RowsOf(d)'
  BY <1>1, <1>4 DEF RunIsBacked
<1>7. /\ ~q.dry => schemaRows'[d] # NoTable
      /\ q.todo \subseteq q.listed /\ q.listed \subseteq DOMAIN tree'
  BY <1>1, <1>3, <1>4 DEF RunIsBacked
<1>8. \A g \in q.todo : f < g
  BY <1>2, <1>3, <1>4
<1>9. ASSUME NEW e \in q.listed \ q.todo
      PROVE  (~q.dry => e \in DOMAIN RowsOf(d)') /\ \A g \in q.todo : e < g
  <2>1. CASE e = f
    BY <1>4, <1>8, <2>1
  <2>2. CASE e # f
    <3>1. e \in p.listed \ p.todo
      BY <1>4, <2>2
    <3> QED
      BY <1>1, <1>4, <3>1 DEF RunIsBacked
  <2> QED
    BY <2>1, <2>2
<1>10. RunIsBacked(r)'
  BY <1>1, <1>4, <1>5, <1>6, <1>7, <1>9, MovedRunIsBacked
<1>11. q \in RunState
  BY <1>4 DEF RunState
<1> QED
  BY <1>1, <1>10, <1>11

(* What is applied, what a dry run would apply, the end, and a death.      *)
LEMMA KeepingDatabasesInv ==
  ASSUME MigrationsInv, NEW r \in Runners,
         SkipApplied(r) \/ WouldApply(r) \/ FinishRun(r) \/ Exit(r)
           \/ (Fails(r) /\ KeepDatabases)
  PROVE  MigrationsInv'
<1> DEFINE p == runner[r]
<1>0. /\ MigrationsTyped /\ p \in RunState /\ RunIsBacked(r)
  BY DEF MigrationsInv, MigrationsTyped
<1>1. ASSUME Fails(r), KeepDatabases PROVE MigrationsInv'
  <2>1. RunnerBecomes(r, NotRunning) /\ runner'[r] = NotRunning
    BY <1>0, <1>1 DEF Fails, RunnerBecomes, MigrationsTyped
  <2>2. RunIsBacked(r)'
    BY <2>1, IdleRun DEF RunIsBacked
  <2> QED
    BY <1>1, <2>1, <2>2, IdleRun, OnlyTheRun
<1>2. ASSUME KeepDatabases, p.at = "looping", p.todo # {}, Passes(r),
             ~p.dry => NextFile(r) \in DOMAIN p.already
      PROVE  MigrationsInv'
  <2> DEFINE d == p.url.db
  <2>1. /\ env' = env /\ tree' = tree /\ schemaRows' = schemaRows /\ Db(r) = d
    BY <1>2 DEF KeepDatabases, Db
  <2>2. \A e : RowsOf(e)' = RowsOf(e)
    BY <2>1 DEF RowsOf
  <2>3. ~p.dry => NextFile(r) \in DOMAIN RowsOf(d)
    BY <1>0, <1>2, <2>1 DEF RunIsBacked
  <2> HIDE DEF d
  <2>4. (\E q \in RunState : RunnerBecomes(r, q)) /\ RunIsBacked(r)'
    BY <1>2, <2>1, <2>2, <2>3, PassingRun DEF d
  <2> QED
    BY <1>2, <2>4, OnlyTheRun
<1>3. CASE SkipApplied(r)
  BY <1>1, <1>2, <1>3 DEF SkipApplied
<1>4. CASE WouldApply(r)
  BY <1>2, <1>4 DEF WouldApply, PendingFile
<1>5. CASE FinishRun(r)
  <2> DEFINE q == [at |-> "done", url |-> p.url, listed |-> p.listed]
             d == p.url.db
  <2>1. /\ p.at = "looping" /\ p.todo = {} /\ KeepDatabases
        /\ RunnerBecomes(r, IF p.dry THEN NotRunning ELSE q)
    BY <1>5 DEF FinishRun
  <2>2. CASE p.dry
    BY <1>1, <2>1, <2>2 DEF Fails
  <2>3. CASE ~p.dry
    <3>1. q \in RunState /\ q.at = "done" /\ q.url = p.url /\ q.listed = p.listed
      BY <1>0, <2>1, RunFields DEF RunState, DoneRun
    <3> HIDE DEF q
    <3>2. RunnerBecomes(r, q) /\ runner'[r] = q /\ env' = env
      BY <1>0, <2>1, <2>3, <3>1 DEF RunnerBecomes, MigrationsTyped, KeepDatabases
    <3>3. \A e : RowsOf(e)' = RowsOf(e)
      BY <2>1 DEF RowsOf, KeepDatabases
    <3>4. p.listed \subseteq DOMAIN RowsOf(d)
      BY <1>0, <2>1, <2>3 DEF RunIsBacked, Db
    <3>5. RunIsBacked(r)'
      BY <3>1, <3>2, <3>3, <3>4, MovedRunIsBacked
    <3> QED
      BY <2>1, <3>1, <3>2, <3>5, OnlyTheRun
  <2> QED
    BY <2>2, <2>3
<1>6. CASE Exit(r)
  BY <1>1, <1>6 DEF Exit, Fails
<1> QED
  BY <1>1, <1>3, <1>4, <1>5, <1>6

(* A file is added to the directory, or edited.                            *)
LEMMA RepositoryInv ==
  ASSUME MigrationsInv, AddFile \/ EditFile \/ UNCHANGED migrationVars
  PROVE  MigrationsInv'
<1>0. MigrationsTyped /\ UNCHANGED <<env, schemaRows, runner, ran>>
  BY DEF MigrationsInv, AddFile, EditFile, migrationVars
<1>1. tree' \in AppliedRows /\ DOMAIN tree \subseteq DOMAIN tree'
  <2>0. /\ DOMAIN tree \in SUBSET (1 .. MaxFile) /\ tree \in [DOMAIN tree -> Texts]
    BY <1>0, AppliedRowsFacts DEF MigrationsTyped
  <2>1. CASE AddFile
    <3>1. PICK file \in 1 .. MaxFile : tree' =
            [f \in DOMAIN tree \cup {file} |-> IF f = file THEN "first" ELSE tree[f]]
      BY <2>1 DEF AddFile
    <3>2. tree' \in [DOMAIN tree \cup {file} -> Texts]
      BY <2>0, <3>1 DEF Texts
    <3>3. DOMAIN tree \cup {file} \in SUBSET (1 .. MaxFile)
      BY <2>0
    <3> QED
      BY <3>1, <3>2, <3>3, AppliedRowsFacts
  <2>2. CASE EditFile
    <3>1. tree' \in [DOMAIN tree -> Texts]
      BY <2>0, <2>2 DEF EditFile, Texts
    <3> QED
      BY <2>0, <2>2, <3>1, AppliedRowsFacts DEF EditFile
  <2>3. CASE UNCHANGED migrationVars
    BY <1>0, <2>3 DEF MigrationsTyped, migrationVars
  <2> QED
    BY <2>1, <2>2, <2>3
<1>2. MigrationsTyped'
  BY <1>0, <1>1 DEF MigrationsTyped
<1>3. \A e : RowsOf(e)' = RowsOf(e)
  BY <1>0 DEF RowsOf
<1>4. RowsMatch'
  BY <1>0, <1>3 DEF MigrationsInv, RowsMatch
<1>5. ASSUME NEW s \in Runners PROVE RunIsBacked(s)'
  BY <1>0, <1>1, <1>3, OthersAreBacked
<1>6. \A db \in Databases : \A i \in DOMAIN ran'[db] :
        ~ran'[db][i].by.dry /\ Acknowledged(ran[db][i].by)'
  BY <1>0 DEF MigrationsInv, Acknowledged, ProductionIdentities
<1> QED
  BY <1>2, <1>4, <1>5, <1>6 DEF MigrationsInv

LEMMA AppendedEntry ==
  ASSUME NEW S, NEW s \in Seq(S), NEW e \in S
  PROVE  /\ Len(s) \in Nat /\ DOMAIN s = 1 .. Len(s)
         /\ DOMAIN Append(s, e) = 1 .. Len(s) + 1
         /\ Append(s, e)[Len(s) + 1] = e
         /\ \A i \in DOMAIN s : Append(s, e)[i] = s[i] /\ i # Len(s) + 1
         /\ \A i \in DOMAIN Append(s, e) : i \in DOMAIN s \/ i = Len(s) + 1
         /\ Len(s) + 1 \in DOMAIN Append(s, e) /\ DOMAIN s \subseteq DOMAIN Append(s, e)
OBVIOUS

(* A file is committed with its row, or its run fails.                     *)
LEMMA ApplyFileInv ==
  ASSUME MigrationsInv, NEW r \in Runners, ApplyFile(r)
  PROVE  MigrationsInv'
<1> DEFINE p == runner[r]
           d == p.url.db
           f == NextFile(r)
           old == schemaRows[d]
           new == [e \in DOMAIN old \cup {f} |-> IF e = f THEN tree[f] ELSE old[e]]
           entry == [file |-> f, text |-> tree[f], by |-> Named(r)]
<1>0. /\ MigrationsTyped /\ RowsMatch /\ p \in LoopingRun /\ RunIsBacked(r)
      /\ p.at = "looping" /\ p.todo # {} /\ ~p.dry /\ Db(r) = d
  BY RunFields DEF MigrationsInv, MigrationsTyped, ApplyFile, PendingFile, Db
<1>1. CASE Fails(r) /\ KeepDatabases
  BY <1>1, KeepingDatabasesInv
<1>2. CASE ~(Fails(r) /\ KeepDatabases)
  <2>1. /\ f \notin DOMAIN old /\ schemaRows' = [schemaRows EXCEPT ![d] = new]
        /\ ran' = [ran EXCEPT ![d] = Append(ran[d], entry)]
        /\ Passes(r) /\ UNCHANGED <<env, tree>>
    BY <1>2 DEF ApplyFile, Unrecorded, Db
  <2>2. /\ d \in Databases /\ old \in AppliedRows /\ old # NoTable /\ RowsOf(d) = old
        /\ DOMAIN old \in SUBSET (1 .. MaxFile)
    <3>1. d \in Databases /\ old # NoTable
      BY <1>0, UrlsReachDatabases DEF LoopingRun, RunIsBacked
    <3> QED
      BY <1>0, <3>1, RowsOfTyped, AppliedRowsFacts DEF MigrationsTyped
  <2>3. f \in 1 .. MaxFile /\ f \in DOMAIN tree /\ tree[f] \in Texts
    <3>1. f \in p.todo /\ f \in 1 .. MaxFile
      BY <1>0, NextFileIsLeast
    <3>2. f \in DOMAIN tree
      BY <1>0, <3>1 DEF RunIsBacked
    <3> QED
      BY <1>0, <3>1, <3>2, AppliedRowsFacts DEF MigrationsTyped
  <2>4. /\ entry \in AppliedFile /\ entry.file = f /\ entry.text = tree[f]
        /\ ~entry.by.dry /\ Acknowledged(entry.by)
    <3> DEFINE by == Named(r)
    <3>1. /\ by \in Invocation /\ by.target = p.target /\ by.dry = p.dry
          /\ by.confirmed = p.confirmed /\ by.url = p.url
      BY <1>0 DEF Named, Invocation, LoopingRun
    <3> HIDE DEF by
    <3>2. Acknowledged(by)
      BY <1>0, <3>1, SameAcknowledged DEF RunIsBacked
    <3> QED
      BY <1>0, <2>3, <3>1, <3>2 DEF AppliedFile, by
  <2>5. /\ new \in AppliedRows /\ DOMAIN new = DOMAIN old \cup {f} /\ new[f] = tree[f]
        /\ \A e \in DOMAIN old : new[e] = old[e]
    <3>1. old \in [DOMAIN old -> Texts]
      BY <2>2, AppliedRowsFacts
    <3>2. new \in [DOMAIN old \cup {f} -> Texts]
      BY <2>3, <3>1
    <3>3. DOMAIN old \cup {f} \in SUBSET (1 .. MaxFile)
      BY <2>2, <2>3
    <3>4. new \in AppliedRows
      BY <3>2, <3>3, AppliedRowsFacts
    <3> QED
      BY <2>1, <3>4
  <2> HIDE DEF new, entry
  <2>6. /\ schemaRows' \in [Databases -> {NoTable} \cup AppliedRows]
        /\ schemaRows'[d] = new /\ new # NoTable
        /\ \A e \in Databases : e # d => schemaRows'[e] = schemaRows[e]
    BY <1>0, <2>1, <2>2, <2>5, AppliedRowsFacts DEF MigrationsTyped
  <2>7. /\ \A e \in Databases : e = d => RowsOf(e)' = new
        /\ \A e \in Databases : e # d => RowsOf(e)' = RowsOf(e)
    BY <2>6 DEF RowsOf
  <2>8. /\ ran[d] \in Seq(AppliedFile) /\ ran' \in [Databases -> Seq(AppliedFile)]
        /\ ran'[d] = Append(ran[d], entry)
        /\ \A e \in Databases : e # d => ran'[e] = ran[e]
    BY <1>0, <2>1, <2>2, <2>4 DEF MigrationsTyped
  <2> DEFINE n == Len(ran[d])
  <2>9. /\ n \in Nat /\ DOMAIN ran[d] = 1 .. n /\ DOMAIN ran'[d] = 1 .. n + 1
        /\ ran'[d][n + 1] = entry
        /\ \A i \in DOMAIN ran[d] : ran'[d][i] = ran[d][i] /\ i # n + 1
        /\ \A i \in DOMAIN ran'[d] : i \in DOMAIN ran[d] \/ i = n + 1
        /\ n + 1 \in DOMAIN ran'[d] /\ DOMAIN ran[d] \subseteq DOMAIN ran'[d]
    BY <2>4, <2>8, AppendedEntry
  <2> HIDE DEF n, old, f, d
  <2>10. /\ \E q \in RunState : RunnerBecomes(r, q)
         /\ RunIsBacked(r)'
    <3>1. /\ \A e : e = d => RowsOf(e)' = new
          /\ \A e : e = d => RowsOf(e) = old
      BY <2>2, <2>7
    <3>2. f \in DOMAIN new /\ DOMAIN old \subseteq DOMAIN new
      BY <2>5
    <3> QED
      BY <1>0, <2>1, <2>6, <3>1, <3>2, PassingRun DEF d, f
  <2>11. MigrationsTyped'
    BY <1>0, <2>1, <2>6, <2>8, <2>10 DEF MigrationsTyped, RunnerBecomes
  <2>12. RowsMatch'
    <3> SUFFICES ASSUME NEW db \in Databases
                 PROVE  /\ \A i, j \in DOMAIN ran'[db] :
                             ran'[db][i].file = ran'[db][j].file => i = j
                        /\ \A i \in DOMAIN ran'[db] :
                             /\ ran'[db][i].file \in DOMAIN RowsOf(db)'
                             /\ RowsOf(db)'[ran'[db][i].file] = ran'[db][i].text
                        /\ \A e \in DOMAIN RowsOf(db)' :
                             \E i \in DOMAIN ran'[db] : ran'[db][i].file = e
      BY DEF RowsMatch
    <3>1. /\ \A i, j \in DOMAIN ran[db] : ran[db][i].file = ran[db][j].file => i = j
          /\ \A i \in DOMAIN ran[db] : /\ ran[db][i].file \in DOMAIN RowsOf(db)
                                       /\ RowsOf(db)[ran[db][i].file] = ran[db][i].text
          /\ \A e \in DOMAIN RowsOf(db) : \E i \in DOMAIN ran[db] : ran[db][i].file = e
      BY <1>0 DEF RowsMatch
    <3>2. CASE db # d
      BY <2>7, <2>8, <3>1, <3>2
    <3>3. CASE db = d
      <4>1. /\ RowsOf(db)' = new /\ RowsOf(db) = old
            /\ ran[db] = ran[d] /\ ran'[db] = ran'[d]
        BY <2>2, <2>7, <3>3
      <4>2. \A i \in DOMAIN ran[db] : ran'[db][i].file # f
        BY <2>1, <2>9, <3>1, <3>3, <4>1
      <4>3. \A i, j \in DOMAIN ran'[db] :
              ran'[db][i].file = ran'[db][j].file => i = j
        <5> SUFFICES ASSUME NEW i \in DOMAIN ran'[db], NEW j \in DOMAIN ran'[db],
                            ran'[db][i].file = ran'[db][j].file
                     PROVE  i = j
          OBVIOUS
        <5>1. ran'[db][n + 1].file = f
          BY <2>4, <2>9, <4>1
        <5>2. /\ i \in DOMAIN ran[db] \/ i = n + 1
              /\ j \in DOMAIN ran[db] \/ j = n + 1
          BY <2>9, <4>1
        <5>3. CASE i \in DOMAIN ran[db] /\ j \in DOMAIN ran[db]
          <6>1. ran'[db][i] = ran[db][i] /\ ran'[db][j] = ran[db][j]
            BY <2>9, <4>1, <5>3
          <6> QED
            BY <3>1, <5>3, <6>1
        <5> QED
          BY <4>2, <5>1, <5>2, <5>3
      <4>4. \A i \in DOMAIN ran'[db] : /\ ran'[db][i].file \in DOMAIN new
                                       /\ new[ran'[db][i].file] = ran'[db][i].text
        BY <2>4, <2>5, <2>9, <3>1, <3>3, <4>1
      <4>5. \A e \in DOMAIN new : \E i \in DOMAIN ran'[db] : ran'[db][i].file = e
        BY <2>4, <2>5, <2>9, <3>1, <3>3, <4>1
      <4> QED
        BY <4>1, <4>3, <4>4, <4>5
    <3> QED
      BY <3>2, <3>3
  <2>13. ASSUME NEW s \in Runners PROVE RunIsBacked(s)'
    <3>1. CASE s = r
      BY <2>10, <3>1
    <3>2. CASE s # r
      <4>1. runner'[s] = runner[s]
        BY <1>0, <2>10, <3>2 DEF MigrationsTyped, RunnerBecomes
      <4>2. \A e \in Databases :
              /\ DOMAIN RowsOf(e) \subseteq DOMAIN RowsOf(e)'
              /\ schemaRows[e] # NoTable => schemaRows'[e] # NoTable
        BY <2>2, <2>5, <2>6, <2>7
      <4> QED
        BY <2>1, <4>1, <4>2, OthersAreBacked
    <3> QED
      BY <3>1, <3>2
  <2>14. \A db \in Databases : \A i \in DOMAIN ran'[db] :
           ~ran'[db][i].by.dry /\ Acknowledged(ran[db][i].by)'
    <3> SUFFICES ASSUME NEW db \in Databases, NEW i \in DOMAIN ran'[db]
                 PROVE  ~ran'[db][i].by.dry /\ Acknowledged(ran[db][i].by)'
      OBVIOUS
    <3>1. ran'[db][i] = entry \/ (i \in DOMAIN ran[db] /\ ran'[db][i] = ran[db][i])
      BY <2>8, <2>9
    <3>2. ~ran'[db][i].by.dry /\ Acknowledged(ran'[db][i].by)
      BY <2>4, <3>1 DEF MigrationsInv
    <3> QED
      BY <2>1, <3>2 DEF Acknowledged, ProductionIdentities
  <2> QED
    BY <2>11, <2>12, <2>13, <2>14 DEF MigrationsInv
<1> QED
  BY <1>1, <1>2

LEMMA MigrationsStepInv == MigrationsInv /\ [MigrationsNext]_migrationVars => MigrationsInv'
<1> SUFFICES ASSUME MigrationsInv, [MigrationsNext]_migrationVars PROVE MigrationsInv'
  OBVIOUS
<1>1. ASSUME NEW r \in Runners, NEW target \in {"test", "production"}, NEW dry \in BOOLEAN,
             NEW confirmed \in Flags(target, dry), Invoke(r, target, dry, confirmed)
      PROVE  MigrationsInv'
  BY <1>1, InvokeInv DEF Targets
<1>2. ASSUME NEW r \in Runners,
             ReadApplied(r) \/ Bootstrap(r) \/ SkipApplied(r) \/ WouldApply(r)
               \/ ApplyFile(r) \/ FinishRun(r) \/ Exit(r)
      PROVE  MigrationsInv'
  BY <1>2, ReadAppliedInv, BootstrapInv, ApplyFileInv, KeepingDatabasesInv
<1>3. CASE AddFile \/ EditFile \/ UNCHANGED migrationVars
  BY <1>3, RepositoryInv
<1> QED
  BY <1>1, <1>2, <1>3 DEF MigrationsNext

(* What the invariant says of the databases.                               *)
LEMMA MigrationsInvIsSound == MigrationsInv => MigrationsAreSound
<1> SUFFICES ASSUME MigrationsInv PROVE MigrationsAreSound
  OBVIOUS
<1>1. ASSUME NEW db \in Databases
      PROVE  /\ \A i, j \in DOMAIN ran[db] : ran[db][i].file = ran[db][j].file => i = j
             /\ {<<ran[db][i].file, ran[db][i].text>> : i \in DOMAIN ran[db]}
                  = {<<f, RowsOf(db)[f]>> : f \in DOMAIN RowsOf(db)}
  <2> DEFINE done == ran[db]
             rows == RowsOf(db)
  <2>1. /\ \A i, j \in DOMAIN done : done[i].file = done[j].file => i = j
        /\ \A i \in DOMAIN done : done[i].file \in DOMAIN rows
                                  /\ rows[done[i].file] = done[i].text
        /\ \A f \in DOMAIN rows : \E i \in DOMAIN done : done[i].file = f
    BY DEF MigrationsInv, RowsMatch
  <2> HIDE DEF done, rows
  <2>2. {<<done[i].file, done[i].text>> : i \in DOMAIN done}
          \subseteq {<<f, rows[f]>> : f \in DOMAIN rows}
    BY <2>1
  <2>3. {<<f, rows[f]>> : f \in DOMAIN rows}
          \subseteq {<<done[i].file, done[i].text>> : i \in DOMAIN done}
    <3> SUFFICES ASSUME NEW f \in DOMAIN rows
                 PROVE  \E i \in DOMAIN done : <<f, rows[f]>> = <<done[i].file, done[i].text>>
      OBVIOUS
    <3> QED
      BY <2>1
  <2> QED
    BY <2>1, <2>2, <2>3 DEF done, rows
<1>2. AppliedOnceInOrder
  BY <1>1 DEF AppliedOnceInOrder, MigrationsInv, RunIsBacked
<1>3. CompletedIsApplied
  BY DEF CompletedIsApplied, MigrationsInv, RunIsBacked
<1>4. WrittenAsNamed
  BY DEF WrittenAsNamed, MigrationsInv, Acknowledged
<1> QED
  BY <1>2, <1>3, <1>4 DEF MigrationsAreSound

-----------------------------------------------------------------------------
(* The five parts together.                                                *)
OrganizationInv ==
  RosterInv /\ CredentialInv /\ IcpInv /\ IntakeInv /\ MigrationsInv

LEMMA OrganizationInitInv == OrganizationInit => OrganizationInv
BY RosterInit, CredentialInit, IcpInitInv, IntakeInitInv, MigrationsInitInv
   DEF OrganizationInit, OrganizationInv

(* A step of the organization is a step of one part: the others stutter.   *)
LEMMA OnePartMoves ==
  ASSUME [OrganizationNext]_organizationVars
  PROVE  /\ [MembershipNext]_membershipVars /\ [ProviderNext]_providerVars
         /\ [IcpNext]_icpVars /\ [IntakeNext]_intakeVars
         /\ [MigrationsNext]_migrationVars
BY DEF OrganizationNext, RosterStep, CredentialStep, TargetingStep, LeadStep, SchemaStep,
       organizationVars

LEMMA OrganizationStepInv ==
  OrganizationInv /\ [OrganizationNext]_organizationVars => OrganizationInv'
BY OnePartMoves, RosterStepInv, CredentialStepInv, IcpStepInv, IntakeStepInv,
   MigrationsStepInv DEF OrganizationInv

(* The inductive invariant of an organization.                             *)
THEOREM OrganizationInvariant == OrganizationSpec => []OrganizationInv
BY OrganizationInitInv, OrganizationStepInv, PTL DEF OrganizationSpec

(* The tables and requests of the roster and of the intake are typed.      *)
THEOREM OrganizationIsTyped == OrganizationSpec => []OrganizationTypeOK
<1>1. OrganizationInv => OrganizationTypeOK
  BY RosterInvIsSound, IntakeInvIsSound DEF OrganizationInv, OrganizationTypeOK
<1> QED
  BY <1>1, OrganizationInvariant, PTL

(* No interleaving of invitations, acceptances, demotions and plan changes *)
(* seats more than a plan once allowed, leaves two tokens for an address,  *)
(* or loses the last owner otherwise than by an acceptance.                *)
THEOREM RosterStaysSound == OrganizationSpec => []RosterIsSound
<1>1. OrganizationInv => RosterIsSound
  BY RosterInvIsSound DEF OrganizationInv, RosterIsSound
<1> QED
  BY <1>1, OrganizationInvariant, PTL

(* The vault holds what the row says, and a success was earned.            *)
THEOREM CredentialsStayHonest == OrganizationSpec => []CredentialsAreHonest
<1>1. OrganizationInv => CredentialsAreHonest
  BY DEF OrganizationInv, CredentialInv, CredentialsAreHonest
<1> QED
  BY <1>1, OrganizationInvariant, PTL

(* One profile version rules, the newest, whoever edits and whatever is    *)
(* accepted twice or crashes in between.                                   *)
THEOREM OneProfileAlwaysRules == OrganizationSpec => []OneProfileRules
<1>1. OrganizationInv => OneProfileRules
  BY IcpInvIsSound DEF OrganizationInv, OneProfileRules
<1> QED
  BY <1>1, OrganizationInvariant, PTL

(* A month ends at most one upload per concurrent request over the quota,  *)
(* with at most one email of a kind per request.                           *)
THEOREM UsageStaysBounded == OrganizationSpec => []UsageIsBounded
<1>1. OrganizationInv => UsageIsBounded
  BY IntakeInvIsSound DEF OrganizationInv, UsageIsBounded
<1> QED
  BY <1>1, OrganizationInvariant, PTL

(* One row per company, a row for every lead of a batch, and every file of *)
(* the schema committed once, in order, where the operator said.           *)
THEOREM EverythingIsWrittenOnce == OrganizationSpec => []WrittenOnce
<1>1. OrganizationInv => WrittenOnce
  BY IntakeInvIsSound, MigrationsInvIsSound DEF OrganizationInv, WrittenOnce
<1> QED
  BY <1>1, OrganizationInvariant, PTL

(* Who becomes a member came in by an invitation that was pending, and an  *)
(* invitation that was settled stays as it is.                             *)
THEOREM MembersOnlyByInvitation == OrganizationSpec => MembersComeByInvitation
<1>1. ASSUME OrganizationInv, [OrganizationNext]_organizationVars
      PROVE  /\ [\A u \in People :
                   role[u] = "none" /\ role'[u] # "none" /\ Members # {}
                     => \E i \in Invitations :
                          /\ Pending(i) /\ invitation'[i].status = "accepted"
                          /\ invitation[i].email = u /\ invitation[i].role = role'[u]
                ]_membershipVars
             /\ [\A i \in Invitations :
                   ~Pending(i) /\ invitation[i] # NoInvitation
                     => invitation'[i] = invitation[i]]_membershipVars
  <2>1. RosterInv /\ [MembershipNext]_membershipVars
    BY <1>1, OnePartMoves DEF OrganizationInv
  <2> QED
    BY <2>1, JoiningStep, SettledStays
<1> QED
  BY <1>1, OrganizationInvariant, PTL
     DEF OrganizationSpec, MembersComeByInvitation, JoinsByInvitation, InvitationSettledOnce

(* What is written for good: versions, answers, applied suggestions, and   *)
(* the batch, month and class of a lead.                                   *)
THEOREM HistoryStaysPermanent == OrganizationSpec => HistoryIsPermanent
<1>1. ASSUME OrganizationInv, [OrganizationNext]_organizationVars
      PROVE  /\ [\A v \in DOMAIN profiles :
                   /\ v \in DOMAIN profiles'
                   /\ profiles'[v].described = profiles[v].described
                   /\ profiles'[v].from = profiles[v].from
                   /\ profiles'[v].active => profiles[v].active]_icpVars
             /\ [\A p \in DOMAIN proposals :
                   ~IsOpen(p) => proposals'[p] = proposals[p]]_icpVars
             /\ [\A r \in Requests, p \in DOMAIN proposals :
                   request[r] = Idle /\ request'[r] = Writing(TRUE, p)
                     => VersionsFrom(p) = {}]_icpVars
             /\ [\A x \in Refs : Exists(x) => lead'[x] = lead[x]]_intakeVars
  <2>1. IcpInv /\ [IcpNext]_icpVars /\ IntakeInv /\ [IntakeNext]_intakeVars
    BY <1>1, OnePartMoves DEF OrganizationInv
  <2> QED
    BY <2>1, VersionStep, AnswerStep, AcceptingStep, FirstWriteStep
<1> QED
  BY <1>1, OrganizationInvariant, PTL
     DEF OrganizationSpec, HistoryIsPermanent, VersionsArePermanent, AnswersAreFinal,
         AppliedIsNotAcceptedAgain, FirstWriteWins

=============================================================================
