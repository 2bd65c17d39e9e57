---------------------------- MODULE BillingProofs ----------------------------
(***************************************************************************)
(* The billing webhook's safety properties for any number of API           *)
(* processes, checkouts and events.                                        *)
(***************************************************************************)
EXTENDS Billing, FiniteSetTheorems, TLAPS

(* A server handles an event that Stripe has emitted. *)
DeliveriesAreKnown ==
  \A s \in Servers : servers[s].pc # "idle" => servers[s].event \in DOMAIN log

(* Whether the committed event row exists tells a first delivery that is   *)
(* not yet committed from every other one.                                 *)
RowTellsDelivery ==
  \A s \in Servers :
    /\ servers[s].pc \in {"begun", "sync"} => events[servers[s].event] = "absent"
    /\ servers[s].pc \in {"duplicate", "finish"}
         => events[servers[s].event] # "absent"

Handling(s, e) ==
  servers[s].pc \in {"begun", "sync", "finish"} /\ servers[s].event = e

(* The unique index on the event id leaves an event to one server. *)
OneHandlerPerEvent ==
  \A s, t \in Servers, e \in EventId :
    Handling(s, e) /\ Handling(t, e) => s = t

(* Nothing comes of an event before its row, and its audit row is the last *)
(* thing that is written.                                                  *)
EffectsFollowRow ==
  /\ \A e \in EventId :
       events[e] = "absent" => audited[e] = 0 /\ applications[e] = 0
  /\ \A s \in Servers :
       servers[s].pc = "finish" => audited[servers[s].event] = 0

(* What Stripe says of a deleted subscription is that it is canceled. *)
DeletedIsCanceled ==
  \A e \in DOMAIN log : log[e].kind = "deleted" => log[e].status = "canceled"

(* The inductive invariant. *)
BillingInv ==
  /\ BillingTypeOK
  /\ DeliveriesAreKnown
  /\ RowTellsDelivery
  /\ OneHandlerPerEvent
  /\ EffectsFollowRow
  /\ EventsApplyOnce
  /\ DeletedIsCanceled
  /\ Applied \subseteq DOMAIN log
  /\ ReflectsNewestSecond

SubRow == [customer : Nat, plan : Plans \cup {Unmapped},
           status : Statuses \cup {"canceled"}]

CheckoutState == [pc : {"create", "commit"}, plan : Plans, customer : Nat]
                   \cup {IdleCheckout}

ServerState == BusyServer \cup {IdleServer}

LEMMA EntitlementType ==
  ASSUME NEW row \in BillingRow
  PROVE  Entitlement(row) \in Plan \cup {"unsubscribed"}
BY DEF Entitlement, BillingRow

LEMMA BillingInitType == BillingInit => BillingTypeOK
<1> SUFFICES ASSUME BillingInit PROVE BillingTypeOK
  OBVIOUS
<1>1. billing \in BillingRow
  BY PlansAssumption, StatusesAssumption
     DEF BillingInit, Provisioned, BillingRow, Plan, Status, Null
<1>2. limits \in Plan \cup {"unsubscribed"}
  BY <1>1, EntitlementType DEF BillingInit
<1>3. servers \in [Servers -> ServerState]
      /\ checkouts \in [Admins -> CheckoutState]
  BY DEF BillingInit, ServerState, CheckoutState
<1>4. /\ events \in [EventId -> EventStatus]
      /\ audited \in [EventId -> Nat] /\ applications \in [EventId -> Nat]
  BY DEF BillingInit, EventStatus
<1>5. /\ log \in Seq(StripeEvent) /\ Len(log) <= MaxEvents
      /\ subs \in Seq(SubRow)
  BY MaxEventsAssumption DEF BillingInit
<1>6. /\ customers \in Nat /\ sessions \subseteq Nat \X Plans
      /\ served \subseteq Nat /\ acked \subseteq EventId /\ second \in Nat
      /\ started \in Nat /\ faults \in Nat
  BY DEF BillingInit
<1> QED
  BY <1>1, <1>2, <1>3, <1>4, <1>5, <1>6
     DEF BillingTypeOK, ServerState, CheckoutState, SubRow

LEMMA BillingInitInv == BillingInit => BillingInv
<1> SUFFICES ASSUME BillingInit PROVE BillingInv
  OBVIOUS
<1>1. Applied = {}
  BY DEF Applied, BillingInit
<1>2. /\ DeliveriesAreKnown /\ RowTellsDelivery /\ OneHandlerPerEvent
      /\ EffectsFollowRow /\ EventsApplyOnce
  BY DEF BillingInit, DeliveriesAreKnown, RowTellsDelivery,
         OneHandlerPerEvent, Handling, EffectsFollowRow, EventsApplyOnce,
         IdleServer
<1>3. DeletedIsCanceled
  BY DEF BillingInit, DeletedIsCanceled
<1> QED
  BY <1>1, <1>2, <1>3, BillingInitType DEF BillingInv, ReflectsNewestSecond

-----------------------------------------------------------------------------
(* A step of a checkout or of Stripe: deliveries and their effects stay,   *)
(* the log may grow.                                                       *)
LEMMA OutsideStep ==
  ASSUME BillingInv, BillingTypeOK', DeletedIsCanceled',
         UNCHANGED <<events, audited, applications, servers>>,
         DOMAIN log \subseteq DOMAIN log',
         \A e \in DOMAIN log : log'[e] = log[e],
         /\ billing'.lastAt = billing.lastAt /\ billing'.sub = billing.sub
         /\ billing'.status = billing.status /\ billing'.plan = billing.plan
  PROVE  BillingInv'
<1>1. Applied' = Applied
  BY DEF Applied
<1>2. /\ DeliveriesAreKnown' /\ RowTellsDelivery' /\ OneHandlerPerEvent'
      /\ EffectsFollowRow' /\ EventsApplyOnce'
  BY DEF BillingInv, DeliveriesAreKnown, RowTellsDelivery,
         OneHandlerPerEvent, Handling, EffectsFollowRow, EventsApplyOnce
<1>3. \A e \in Applied : SaidBy(e) => SaidBy(e)'
  BY DEF SaidBy, BillingInv
<1>4. ReflectsNewestSecond'
  BY <1>1, <1>3 DEF ReflectsNewestSecond, BillingInv
<1> QED
  BY <1>1, <1>2, <1>4 DEF BillingInv

LEMMA CheckoutInv ==
  ASSUME BillingInv, NEW a \in Admins,
         \/ \E p \in Plans : StartCheckout(a, p)
         \/ GetOrCreateCustomer(a)
         \/ CommitCheckout(a)
         \/ CheckoutFails(a)
  PROVE  BillingInv'
<1>1. BillingTypeOK
  BY DEF BillingInv
<1>2. checkouts \in [Admins -> CheckoutState] /\ billing \in BillingRow
  BY <1>1 DEF BillingTypeOK, CheckoutState
<1>3. UNCHANGED <<limits, events, audited, applications, servers, log, subs,
                  second, acked>>
  BY DEF StartCheckout, GetOrCreateCustomer, CommitCheckout, CheckoutFails,
         orgVars, stripeVars
<1>4. /\ checkouts' \in [Admins -> CheckoutState] /\ billing' \in BillingRow
      /\ billing'.lastAt = billing.lastAt /\ billing'.sub = billing.sub
      /\ billing'.status = billing.status /\ billing'.plan = billing.plan
      /\ customers' \in Nat /\ sessions' \subseteq Nat \X Plans
      /\ served' \subseteq Nat /\ started' \in Nat /\ faults' \in Nat
  <2>0. /\ customers \in Nat /\ sessions \subseteq Nat \X Plans
        /\ served \subseteq Nat /\ started \in Nat /\ faults \in Nat
    BY <1>1 DEF BillingTypeOK
  <2>1. CASE \E p \in Plans : StartCheckout(a, p)
    BY <1>2, <2>0, <2>1 DEF StartCheckout, orgVars, CheckoutState, BillingRow
  <2>2. ASSUME checkouts[a].pc # "idle"
        PROVE  /\ checkouts[a].plan \in Plans /\ checkouts[a].customer \in Nat
               /\ checkouts[a] \in [pc : {"create", "commit"}, plan : Plans,
                                    customer : Nat]
    BY <1>2, <2>2 DEF CheckoutState, IdleCheckout
  <2>3. CASE GetOrCreateCustomer(a)
    <3>1. /\ UNCHANGED <<billing, sessions, served, started, faults>>
          /\ checkouts[a].pc = "create"
          /\ customers' \in Nat
          /\ \/ checkouts' = [checkouts EXCEPT ![a].pc = "commit"]
             \/ checkouts' = [checkouts EXCEPT ![a].pc = "commit",
                                               ![a].customer = customers + 1]
      BY <2>0, <2>3 DEF GetOrCreateCustomer, orgVars
    <3>2. checkouts' \in [Admins -> CheckoutState]
      BY <1>2, <2>0, <2>2, <3>1 DEF CheckoutState
    <3> QED
      BY <1>2, <2>0, <3>1, <3>2
  <2>4. CASE CommitCheckout(a)
    <3> DEFINE c == checkouts[a].customer
    <3>1. /\ UNCHANGED <<customers, started, faults>>
          /\ c \in Nat /\ checkouts[a].plan \in Plans
          /\ billing' = [billing EXCEPT !.customer = c]
          /\ sessions' = sessions \cup {<<c, checkouts[a].plan>>}
          /\ served' = served \cup {c}
          /\ checkouts' = [checkouts EXCEPT ![a] = IdleCheckout]
      BY <2>2, <2>4 DEF CommitCheckout
    <3> HIDE DEF c
    <3>2. checkouts' \in [Admins -> CheckoutState]
      BY <1>2, <3>1 DEF CheckoutState
    <3>3. /\ billing' \in BillingRow
          /\ billing'.lastAt = billing.lastAt /\ billing'.sub = billing.sub
          /\ billing'.status = billing.status /\ billing'.plan = billing.plan
      BY <1>2, <3>1 DEF BillingRow
    <3> QED
      BY <2>0, <3>1, <3>2, <3>3
  <2>5. CASE CheckoutFails(a)
    BY <1>2, <2>0, <2>5 DEF CheckoutFails, orgVars, CheckoutState
  <2> QED
    BY <2>1, <2>3, <2>4, <2>5
<1>5. BillingTypeOK'
  BY <1>1, <1>3, <1>4 DEF BillingTypeOK, CheckoutState
<1>6. DeletedIsCanceled'
  BY <1>3 DEF BillingInv, DeletedIsCanceled
<1> QED
  BY <1>3, <1>4, <1>5, <1>6, OutsideStep

LEMMA StripeInv ==
  ASSUME BillingInv, StripeStep
  PROVE  BillingInv'
<1>1. BillingTypeOK /\ DeletedIsCanceled
  BY DEF BillingInv
<1>2. UNCHANGED <<orgVars, servers, checkouts, customers, served, started,
                  acked, faults>>
  BY DEF StripeStep, CompleteCheckout, ChangeSubscription, EndSubscription,
         OtherEvent, StrangerEvent, Tick, StripeUnchanged
<1>3. /\ subs \in Seq(SubRow) /\ log \in Seq(StripeEvent) /\ second \in Nat
      /\ Len(log) \in Nat /\ Len(log) <= MaxEvents /\ MaxEvents \in Nat
      /\ sessions \subseteq Nat \X Plans
  BY <1>1, MaxEventsAssumption DEF BillingTypeOK, SubRow
<1> DEFINE Said(kind, i, row) ==
             /\ Len(log) < MaxEvents
             /\ log' = Append(log, About(kind, i, row))
             /\ About(kind, i, row) \in StripeEvent
             /\ kind = "deleted" => row.status = "canceled"
<1>4. ASSUME NEW kind \in EventKind, NEW i \in Nat, NEW row \in SubRow
      PROVE  About(kind, i, row) \in StripeEvent
  BY <1>3, <1>4 DEF About, StripeEvent, SubRow
<1> DEFINE Spoken ==
             /\ subs' \in Seq(SubRow) /\ sessions' \subseteq Nat \X Plans
             /\ second' \in Nat
             /\ \/ UNCHANGED log
                \/ \E kind \in EventKind, i \in Nat, row \in SubRow :
                     Said(kind, i, row)
<1>5. ASSUME NEW x \in sessions, CompleteCheckout(x[1], x[2])
      PROVE  Spoken
  <2> DEFINE row == [customer |-> x[1], plan |-> x[2],
                     status |-> CHOOSE s \in Subscribed : TRUE]
             i == Len(subs) + 1
  <2>1. (CHOOSE s \in Subscribed : TRUE) \in Statuses
    BY StatusesAssumption
  <2>2. row \in SubRow /\ i \in Nat
    BY <1>3, <1>5, <2>1 DEF SubRow
  <2>3. /\ subs' = Append(subs, row) /\ sessions' \subseteq sessions
        /\ Len(log) < MaxEvents /\ log' = Append(log, About("created", i, row))
        /\ second' = second
    BY <1>5 DEF CompleteCheckout
  <2>4. Said("created", i, row)
    BY <1>4, <2>2, <2>3 DEF EventKind
  <2>5. \E kind \in EventKind, j \in Nat, r \in SubRow : Said(kind, j, r)
    BY <2>2, <2>4 DEF EventKind
  <2> HIDE DEF row, i, Said
  <2> QED
    BY <1>3, <2>2, <2>3, <2>5
<1>6. ASSUME NEW j \in DOMAIN subs, NEW row \in SubRow, NEW kind \in EventKind,
             kind = "deleted" => row.status = "canceled",
             subs' \in {subs, [subs EXCEPT ![j] = row]},
             Len(log) < MaxEvents, log' = Append(log, About(kind, j, row)),
             UNCHANGED <<second, sessions>>
      PROVE  Spoken
  <2>1. j \in Nat /\ [subs EXCEPT ![j] = row] \in Seq(SubRow)
    BY <1>3
  <2>2. Said(kind, j, row)
    BY <1>4, <1>6, <2>1
  <2> HIDE DEF Said
  <2> QED
    BY <1>3, <1>6, <2>1, <2>2
<1>7. ASSUME NEW j \in DOMAIN subs, NEW p \in Plans \cup {Unmapped},
             NEW t \in Statuses, ChangeSubscription(j, p, t)
      PROVE  Spoken
  <2> DEFINE row == [customer |-> subs[j].customer, plan |-> p, status |-> t]
  <2>0. subs[j] \in SubRow
    BY <1>3
  <2>1. row \in SubRow
    BY <2>0 DEF SubRow
  <2>2. /\ subs' = [subs EXCEPT ![j] = row] /\ Len(log) < MaxEvents
        /\ log' = Append(log, About("updated", j, row))
        /\ UNCHANGED <<second, sessions>>
    BY <1>7 DEF ChangeSubscription
  <2> HIDE DEF row, Spoken
  <2> QED
    BY <1>6, <2>1, <2>2 DEF EventKind
<1>8. ASSUME NEW j \in DOMAIN subs, EndSubscription(j)
      PROVE  Spoken
  <2> DEFINE row == [subs[j] EXCEPT !.status = "canceled"]
  <2>0. subs[j] \in SubRow
    BY <1>3
  <2>1. row \in SubRow /\ row.status = "canceled"
    BY <2>0 DEF SubRow
  <2>2. /\ subs' = [subs EXCEPT ![j] = row] /\ Len(log) < MaxEvents
        /\ log' = Append(log, About("deleted", j, row))
        /\ UNCHANGED <<second, sessions>>
    BY <1>8 DEF EndSubscription
  <2> HIDE DEF row, Spoken
  <2> QED
    BY <1>6, <2>1, <2>2 DEF EventKind
<1>9. ASSUME NEW j \in DOMAIN subs, NEW kind \in OtherKinds,
             OtherEvent(j, kind)
      PROVE  Spoken
  <2>1. subs[j] \in SubRow /\ kind \in EventKind /\ kind # "deleted"
    BY <1>3, OtherKindsAssumption DEF EventKind
  <2>2. /\ subs' = subs /\ Len(log) < MaxEvents
        /\ log' = Append(log, About(kind, j, subs[j]))
        /\ UNCHANGED <<second, sessions>>
    BY <1>9 DEF OtherEvent
  <2> HIDE DEF Spoken
  <2> QED
    BY <1>6, <2>1, <2>2
<1>10. ASSUME Tick \/ StrangerEvent PROVE Spoken
  <2>1. CASE Tick
    BY <1>3, <2>1 DEF Tick
  <2>2. CASE StrangerEvent
    <3> DEFINE row == [customer |-> Stranger, plan |-> Unmapped,
                       status |-> "canceled"]
    <3>1. row \in SubRow /\ Null \in Nat
      BY MaxCheckoutsAssumption DEF SubRow, Stranger, Null
    <3>2. /\ Len(log) < MaxEvents /\ log' = Append(log, About("updated", Null, row))
          /\ UNCHANGED <<second, subs, sessions>>
      BY <2>2 DEF StrangerEvent
    <3>3. Said("updated", Null, row)
      BY <1>4, <3>1, <3>2 DEF EventKind
    <3> HIDE DEF row, Said
    <3>4. \E kind \in EventKind, j \in Nat, r \in SubRow : Said(kind, j, r)
      BY <3>1, <3>3 DEF EventKind
    <3> QED
      BY <1>3, <3>2, <3>4
  <2> QED
    BY <1>10, <2>1, <2>2
<1>11. Spoken
  <2> HIDE DEF Spoken
  <2> QED
    BY <1>5, <1>7, <1>8, <1>9, <1>10 DEF StripeStep
<1>12. /\ log' \in Seq(StripeEvent) /\ Len(log') <= MaxEvents
       /\ DOMAIN log \subseteq DOMAIN log'
       /\ \A e \in DOMAIN log : log'[e] = log[e]
       /\ DeletedIsCanceled'
  <2>1. CASE UNCHANGED log
    BY <1>1, <1>3, <2>1 DEF DeletedIsCanceled
  <2>2. ASSUME NEW kind \in EventKind, NEW i \in Nat, NEW row \in SubRow,
               Said(kind, i, row)
        PROVE  /\ log' \in Seq(StripeEvent) /\ Len(log') <= MaxEvents
               /\ DOMAIN log \subseteq DOMAIN log'
               /\ \A e \in DOMAIN log : log'[e] = log[e]
               /\ DeletedIsCanceled'
    <3> DEFINE ev == About(kind, i, row)
    <3>1. ev \in StripeEvent /\ log' = Append(log, ev)
      BY <2>2
    <3>2. ev.kind = "deleted" => ev.status = "canceled"
      BY <2>2 DEF About
    <3> HIDE DEF ev
    <3>3. /\ log' \in Seq(StripeEvent) /\ Len(log') = Len(log) + 1
          /\ \A e \in DOMAIN log : e \in DOMAIN log' /\ log'[e] = log[e]
          /\ \A e \in DOMAIN log' : e \in DOMAIN log \/ log'[e] = ev
      BY <1>3, <3>1
    <3> QED
      BY <1>1, <1>3, <2>2, <3>2, <3>3 DEF DeletedIsCanceled
  <2> QED
    BY <1>11, <2>1, <2>2
<1>13. BillingTypeOK'
  BY <1>1, <1>2, <1>11, <1>12 DEF BillingTypeOK, SubRow, orgVars
<1>14. UNCHANGED <<events, audited, applications, servers, billing>>
  BY <1>2 DEF orgVars
<1> QED
  BY <1>12, <1>13, <1>14, OutsideStep

-----------------------------------------------------------------------------
(* A server that is not idle has a delivery. *)
LEMMA BusyType ==
  ASSUME BillingTypeOK, NEW s \in Servers, servers[s].pc # "idle"
  PROVE  servers[s] \in BusyServer
BY DEF BillingTypeOK, IdleServer

(* What the invariant says of the rest while one server moves on with its  *)
(* delivery: nobody else is about to write the event's row.                *)
LEMMA OnlyHandler ==
  ASSUME BillingInv, NEW s \in Servers, servers[s].pc # "idle",
         NEW t \in Servers, t # s, servers[t].pc # "idle",
         servers[t].event = servers[s].event
  PROVE  /\ servers[s].pc \in {"begun", "sync", "finish"}
              => servers[t].pc = "duplicate"
         /\ servers[s].pc = "duplicate"
              => servers[t].pc \in {"duplicate", "finish"}
<1>1. servers[s] \in BusyServer /\ servers[t] \in BusyServer
  BY BusyType DEF BillingInv
<1> QED
  BY <1>1 DEF BillingInv, OneHandlerPerEvent, Handling, RowTellsDelivery,
              BusyServer

(* A delivery ends, with or without a last commit. *)
LEMMA ReleaseInv ==
  ASSUME BillingInv, NEW s \in Servers, servers[s].pc # "idle",
         NEW n \in {0, 1}, NEW status \in EventStatus,
         servers' = [servers EXCEPT ![s] = IdleServer],
         UNCHANGED <<billing, limits, applications, checkoutVars, stripeVars>>,
         events' = [events EXCEPT ![servers[s].event] = status],
         audited' = [audited EXCEPT ![servers[s].event] = @ + n],
         acked' \subseteq EventId, faults' \in Nat,
         status = "absent" => n = 0 /\ events[servers[s].event] = "absent",
         n = 1 => servers[s].pc \in {"begun", "finish"}
  PROVE  BillingInv'
<1> DEFINE e == servers[s].event
<1>0. BillingTypeOK
  BY DEF BillingInv
<1>1. /\ e \in EventId /\ e \in DOMAIN log /\ servers[s] \in BusyServer
      /\ servers[s].event = e
  BY <1>0, BusyType DEF BusyServer, BillingInv, DeliveriesAreKnown
<1>2. /\ \A t \in Servers : t # s => servers'[t] = servers[t]
      /\ servers'[s].pc = "idle"
      /\ servers' \in [Servers -> BusyServer \cup {IdleServer}]
  BY <1>0 DEF BillingTypeOK, IdleServer
<1>3. /\ \A d \in EventId : d # e => events'[d] = events[d]
                                     /\ audited'[d] = audited[d]
      /\ events'[e] = status /\ audited'[e] = audited[e] + n
      /\ events' \in [EventId -> EventStatus] /\ audited' \in [EventId -> Nat]
      /\ audited[e] \in Nat
  BY <1>0, <1>1 DEF BillingTypeOK
<1>4. BillingTypeOK'
  BY <1>0, <1>2, <1>3 DEF BillingTypeOK, checkoutVars, stripeVars
<1> HIDE DEF e
<1>5. ASSUME NEW t \in Servers, servers'[t].pc # "idle"
      PROVE  /\ t # s /\ servers'[t] = servers[t]
             /\ servers[t] \in BusyServer
             /\ servers[t].event \in EventId
             /\ servers[t].event \in DOMAIN log
  BY <1>0, <1>2, <1>5, BusyType
     DEF BusyServer, BillingInv, DeliveriesAreKnown
<1>6. DeliveriesAreKnown' /\ OneHandlerPerEvent'
  <2>1. log' = log
    BY DEF stripeVars
  <2> QED
    BY <1>2, <1>5, <2>1 DEF DeliveriesAreKnown, OneHandlerPerEvent, Handling,
                            BillingInv
<1>7. RowTellsDelivery'
  <2> SUFFICES ASSUME NEW t \in Servers, servers'[t].pc # "idle"
               PROVE  /\ servers[t].pc \in {"begun", "sync"}
                           => events'[servers[t].event] = "absent"
                      /\ servers[t].pc \in {"duplicate", "finish"}
                           => events'[servers[t].event] # "absent"
    BY <1>5 DEF RowTellsDelivery
  <2>1. /\ t # s /\ servers[t].event \in EventId /\ servers[t].pc # "idle"
        /\ servers[t].pc \in {"begun", "sync"}
             => events[servers[t].event] = "absent"
        /\ servers[t].pc \in {"duplicate", "finish"}
             => events[servers[t].event] # "absent"
    BY <1>5 DEF BillingInv, RowTellsDelivery
  <2>2. CASE servers[t].event # e
    BY <1>3, <2>1, <2>2
  <2>3. CASE servers[t].event = e
    <3>1. servers[t].pc \notin {"begun", "sync"}
      BY <1>1, <1>5, <2>1, <2>3, OnlyHandler DEF BusyServer
    <3> QED
      BY <1>1, <1>3, <2>1, <2>3, <3>1
  <2> QED
    BY <2>2, <2>3
<1>8. n = 1 => audited[e] = 0
  BY <1>1 DEF BillingInv, EffectsFollowRow, RowTellsDelivery
<1>9. EventsApplyOnce'
  BY <1>1, <1>3, <1>8 DEF BillingInv, EventsApplyOnce
<1>10. EffectsFollowRow'
  <2>1. \A d \in EventId : events'[d] = "absent"
                             => audited'[d] = 0 /\ applications'[d] = 0
    BY <1>1, <1>3 DEF BillingInv, EffectsFollowRow
  <2>2. ASSUME NEW t \in Servers, servers'[t].pc = "finish"
        PROVE  audited'[servers'[t].event] = 0
    <3>1. /\ t # s /\ servers'[t] = servers[t] /\ servers[t].event \in EventId
          /\ audited[servers[t].event] = 0
      BY <1>5, <2>2 DEF BillingInv, EffectsFollowRow
    <3>2. CASE servers[t].event # e
      BY <1>3, <3>1, <3>2
    <3>3. CASE servers[t].event = e
      <4>1. servers[s].pc = "duplicate"
        BY <1>1, <2>2, <3>1, <3>3, OnlyHandler DEF BusyServer
      <4> QED
        BY <1>3, <3>1, <3>3, <4>1
    <3> QED
      BY <3>2, <3>3
  <2> QED
    BY <2>1, <2>2 DEF EffectsFollowRow
<1>11. /\ Applied' = Applied /\ (Applied \subseteq DOMAIN log)'
       /\ ReflectsNewestSecond' /\ DeletedIsCanceled'
  BY DEF Applied, ReflectsNewestSecond, SaidBy, DeletedIsCanceled, BillingInv,
         stripeVars
<1> QED
  BY <1>4, <1>6, <1>7, <1>9, <1>10, <1>11 DEF BillingInv

(* The first commit of a delivery: the event's row, and perhaps its        *)
(* effect on the billing row.                                              *)
LEMMA FirstCommitInv ==
  ASSUME BillingInv, NEW s \in Servers, servers[s].pc \in {"begun", "sync"},
         NEW n \in {0, 1}, BillingTypeOK',
         servers' = [servers EXCEPT ![s].pc = "finish"],
         UNCHANGED <<audited, log>>,
         events' = [events EXCEPT ![servers[s].event] = "pending"],
         applications' = [applications EXCEPT ![servers[s].event] = @ + n],
         ReflectsNewestSecond'
  PROVE  BillingInv'
<1> DEFINE e == servers[s].event
<1>0. BillingTypeOK
  BY DEF BillingInv
<1>1. /\ e \in EventId /\ e \in DOMAIN log /\ servers[s] \in BusyServer
      /\ servers[s].event = e /\ events[e] = "absent"
      /\ audited[e] = 0 /\ applications[e] = 0
  BY <1>0, BusyType
     DEF BusyServer, BillingInv, DeliveriesAreKnown, RowTellsDelivery,
         EffectsFollowRow
<1>2. /\ \A t \in Servers : t # s => servers'[t] = servers[t]
      /\ servers'[s].pc = "finish" /\ servers'[s].event = e
  BY <1>0, <1>1 DEF BillingTypeOK, BusyServer
<1>3. /\ \A d \in EventId : d # e => events'[d] = events[d]
                                     /\ applications'[d] = applications[d]
      /\ events'[e] = "pending" /\ applications'[e] = n
  BY <1>0, <1>1 DEF BillingTypeOK
<1> HIDE DEF e
<1>4. ASSUME NEW t \in Servers, t # s, servers[t].pc # "idle"
      PROVE  /\ servers'[t] = servers[t] /\ servers[t].event \in EventId
             /\ servers[t].event = e => servers[t].pc = "duplicate"
  BY <1>0, <1>1, <1>2, <1>4, BusyType, OnlyHandler DEF BusyServer
<1>5. DeliveriesAreKnown'
  BY <1>1, <1>2 DEF DeliveriesAreKnown, BillingInv
<1>6. RowTellsDelivery'
  <2> SUFFICES ASSUME NEW t \in Servers
               PROVE  /\ servers'[t].pc \in {"begun", "sync"}
                           => events'[servers'[t].event] = "absent"
                      /\ servers'[t].pc \in {"duplicate", "finish"}
                           => events'[servers'[t].event] # "absent"
    BY DEF RowTellsDelivery
  <2>1. CASE t = s
    BY <1>2, <1>3, <2>1
  <2>2. CASE t # s /\ servers[t].pc # "idle"
    BY <1>3, <1>4, <2>2 DEF BillingInv, RowTellsDelivery
  <2>3. CASE t # s /\ servers[t].pc = "idle"
    BY <1>2, <2>3
  <2> QED
    BY <2>1, <2>2, <2>3
<1>7. OneHandlerPerEvent'
  <2> SUFFICES ASSUME NEW t \in Servers, NEW u \in Servers, NEW d \in EventId,
                      Handling(t, d)', Handling(u, d)', t # u
               PROVE  FALSE
    BY DEF OneHandlerPerEvent
  <2>1. CASE t # s /\ u # s
    BY <1>2, <2>1 DEF Handling, BillingInv, OneHandlerPerEvent
  <2>2. CASE t = s
    BY <1>2, <1>4, <2>2 DEF Handling
  <2>3. CASE u = s
    BY <1>2, <1>4, <2>3 DEF Handling
  <2> QED
    BY <2>1, <2>2, <2>3
<1>8. EffectsFollowRow' /\ EventsApplyOnce'
  <2>1. \A d \in EventId : events'[d] = "absent"
                             => audited'[d] = 0 /\ applications'[d] = 0
    BY <1>3 DEF BillingInv, EffectsFollowRow
  <2>2. \A t \in Servers : servers'[t].pc = "finish"
                             => audited'[servers'[t].event] = 0
    BY <1>1, <1>2 DEF BillingInv, EffectsFollowRow
  <2>3. \A d \in EventId : audited'[d] <= 1 /\ applications'[d] <= 1
    BY <1>1, <1>3 DEF BillingInv, EventsApplyOnce
  <2> QED
    BY <2>1, <2>2, <2>3 DEF EffectsFollowRow, EventsApplyOnce
<1>9. (Applied \subseteq DOMAIN log)' /\ DeletedIsCanceled'
  BY <1>1, <1>3 DEF Applied, DeletedIsCanceled, BillingInv
<1> QED
  BY <1>5, <1>6, <1>7, <1>8, <1>9 DEF BillingInv

(* A snapshot that passes the guard on last_event_created_at is of no      *)
(* earlier second than any that was applied.                               *)
LEMMA SnapshotInv ==
  ASSUME BillingInv, NEW s \in Servers, servers[s].pc = "begun",
         NEW row \in BillingRow, CommitSnapshot(s, row), Current(Event(s)),
         row.lastAt = Event(s).at, row.sub = Event(s).sub,
         row.status = Event(s).status,
         Event(s).kind # "deleted" => row.plan = Event(s).plan
  PROVE  BillingInv'
<1>0. BillingTypeOK
  BY DEF BillingInv
<1>1. PICK e \in EventId :
      /\ e \in DOMAIN log /\ servers[s] \in BusyServer
      /\ servers[s].event = e /\ events[e] = "absent" /\ Event(s) = log[e]
      /\ applications[e] = 0
  BY <1>0, BusyType
     DEF BusyServer, BillingInv, DeliveriesAreKnown, RowTellsDelivery, Event,
         EffectsFollowRow
<1>2. /\ billing' = row /\ limits' = Entitlement(row)
      /\ events' = [events EXCEPT ![e] = "pending"]
      /\ applications' = [applications EXCEPT ![e] = @ + 1]
      /\ servers' = [servers EXCEPT ![s].pc = "finish"]
      /\ UNCHANGED <<audited, checkoutVars, log, subs, second, acked, faults>>
  BY <1>1 DEF CommitSnapshot, stripeVars
<1>3. BillingTypeOK'
  <2>1. limits' \in Plan \cup {"unsubscribed"} /\ billing' \in BillingRow
    BY <1>2, EntitlementType
  <2>2. /\ events' \in [EventId -> EventStatus]
        /\ applications' \in [EventId -> Nat]
    BY <1>0, <1>1, <1>2 DEF BillingTypeOK, EventStatus
  <2>3. servers' \in [Servers -> BusyServer \cup {IdleServer}]
    BY <1>0, <1>1, <1>2 DEF BillingTypeOK, BusyServer
  <2> QED
    BY <1>0, <1>2, <2>1, <2>2, <2>3 DEF BillingTypeOK, checkoutVars
<1>4. Applied' = Applied \cup {e}
  BY <1>0, <1>1, <1>2 DEF Applied, BillingTypeOK
<1>5. \A d \in Applied : log[d].at <= log[e].at
  <2>0. \A d \in DOMAIN log : log[d] \in StripeEvent
    BY <1>0 DEF BillingTypeOK
  <2>1. \A d \in DOMAIN log : log[d].at \in Nat
    BY <2>0 DEF StripeEvent
  <2>2. billing.lastAt <= log[e].at
    BY <1>1 DEF Current
  <2>3. \A d \in Applied : d \in DOMAIN log /\ log[d].at <= billing.lastAt
    BY DEF BillingInv, ReflectsNewestSecond, SaidBy
  <2>4. billing.lastAt \in Nat
    BY <1>0 DEF BillingTypeOK, BillingRow
  <2> QED
    BY <1>1, <2>1, <2>2, <2>3, <2>4
<1>6. SaidBy(e)'
  BY <1>1, <1>2 DEF SaidBy
<1>7. log[e].at <= log[e].at
  <2>1. log[e] \in StripeEvent
    BY <1>0, <1>1 DEF BillingTypeOK
  <2> QED
    BY <2>1 DEF StripeEvent
<1>8. ReflectsNewestSecond'
  BY <1>2, <1>4, <1>5, <1>6, <1>7 DEF ReflectsNewestSecond
<1> QED
  BY <1>1, <1>2, <1>3, <1>8, FirstCommitInv

(* The event of a busy server. *)
LEMMA EventType ==
  ASSUME BillingInv, NEW s \in Servers, servers[s].pc # "idle"
  PROVE  /\ servers[s] \in BusyServer /\ servers[s].event \in EventId
         /\ Event(s) \in StripeEvent
<1>1. /\ servers[s] \in BusyServer /\ log \in Seq(StripeEvent)
      /\ servers[s].event \in DOMAIN log
  BY BusyType DEF BillingInv, BillingTypeOK, DeliveriesAreKnown
<1> QED
  BY <1>1 DEF BusyServer, Event

LEMMA ReceiveInv ==
  ASSUME BillingInv, NEW s \in Servers, NEW e \in DOMAIN log, Receive(s, e)
  PROVE  BillingInv'
<1> DEFINE v == Delivery(e, events[e] = "absent")
<1>0. BillingTypeOK
  BY DEF BillingInv
<1>1. e \in EventId
  BY <1>0, MaxEventsAssumption DEF BillingTypeOK, EventId
<1>2. /\ servers' = [servers EXCEPT ![s] = v] /\ servers[s].pc = "idle"
      /\ UNCHANGED <<orgVars, checkoutVars, stripeVars, acked, faults>>
  BY DEF Receive
<1>3. /\ v \in BusyServer /\ v.event = e
      /\ v.pc = IF events[e] = "absent" THEN "begun" ELSE "duplicate"
  <2>1. Resolves(log[e]) \in BOOLEAN /\ billing.plan \in Plan
    BY <1>0 DEF Resolves, BillingTypeOK, BillingRow
  <2> QED
    BY <1>1, <2>1 DEF Delivery, BusyServer
<1> HIDE DEF v
<1>4. /\ \A t \in Servers : t # s => servers'[t] = servers[t]
      /\ servers'[s] = v
      /\ servers' \in [Servers -> BusyServer \cup {IdleServer}]
  BY <1>0, <1>2, <1>3 DEF BillingTypeOK
<1>5. BillingTypeOK'
  BY <1>0, <1>2, <1>4 DEF BillingTypeOK, orgVars, checkoutVars, stripeVars
<1>6. UNCHANGED <<events, audited, applications, log, billing>>
  BY <1>2 DEF orgVars, stripeVars
<1>7. DeliveriesAreKnown' /\ RowTellsDelivery' /\ EffectsFollowRow'
      /\ EventsApplyOnce'
  BY <1>3, <1>4, <1>6 DEF BillingInv, DeliveriesAreKnown, RowTellsDelivery,
                          EffectsFollowRow, EventsApplyOnce
<1>8. ASSUME NEW t \in Servers, t # s, Handling(t, e) PROVE v.pc = "duplicate"
  BY <1>3, <1>8 DEF Receive, InsertBlocked, Handling, BillingInv,
                    RowTellsDelivery
<1>9. OneHandlerPerEvent'
  <2> SUFFICES ASSUME NEW t \in Servers, NEW u \in Servers, NEW d \in EventId,
                      Handling(t, d)', Handling(u, d)', t # u
               PROVE  FALSE
    BY DEF OneHandlerPerEvent
  <2>1. CASE t # s /\ u # s
    BY <1>4, <2>1 DEF Handling, BillingInv, OneHandlerPerEvent
  <2>2. CASE t = s
    BY <1>3, <1>4, <1>8, <2>2 DEF Handling
  <2>3. CASE u = s
    BY <1>3, <1>4, <1>8, <2>3 DEF Handling
  <2> QED
    BY <2>1, <2>2, <2>3
<1>10. /\ (Applied \subseteq DOMAIN log)' /\ ReflectsNewestSecond'
       /\ DeletedIsCanceled'
  BY <1>6 DEF Applied, ReflectsNewestSecond, SaidBy, DeletedIsCanceled,
              BillingInv
<1> QED
  BY <1>5, <1>7, <1>9, <1>10 DEF BillingInv

LEMMA CloseInv ==
  ASSUME BillingInv, NEW s \in Servers, servers[s].pc # "idle",
         NEW status \in EventStatus \ {"absent"}, NEW n \in {0, 1},
         Close(s, status, n), n = 1 => servers[s].pc \in {"begun", "finish"}
  PROVE  BillingInv'
<1>1. acked' \subseteq EventId /\ faults' \in Nat
  BY EventType DEF Close, Answer, BillingInv, BillingTypeOK
<1> QED
  BY <1>1, ReleaseInv DEF Close, Answer

LEMMA DropInv ==
  ASSUME BillingInv, NEW s \in Servers,
         DuplicateEvent(s) \/ InternalError(s) \/ Crash(s)
  PROVE  BillingInv'
<1>0. PICK e \in EventId : e = servers[s].event
  BY EventType DEF DuplicateEvent, InternalError, Crash
<1>1. /\ BillingTypeOK /\ servers[s].pc # "idle"
      /\ events[e] \in EventStatus /\ audited[e] \in Nat
  BY DEF BillingInv, BillingTypeOK, DuplicateEvent, InternalError, Crash
<1>2. /\ servers' = [servers EXCEPT ![s] = IdleServer]
      /\ UNCHANGED <<billing, limits, audited, applications, checkoutVars,
                     stripeVars>>
      /\ acked' \subseteq EventId /\ faults' \in Nat
  BY <1>0, <1>1 DEF DuplicateEvent, InternalError, Crash, Answer, orgVars,
              BillingTypeOK
<1>3. PICK n \in {0, 1} : n = 0 /\ audited' = [audited EXCEPT ![e] = @ + n]
  BY <1>1, <1>2 DEF BillingTypeOK
<1>4. \E status \in EventStatus :
        /\ events' = [events EXCEPT ![e] = status]
        /\ status = "absent" => events[e] = "absent"
  <2>1. CASE DuplicateEvent(s) \/ Crash(s)
    <3>1. events' = [events EXCEPT ![e] = events[e]]
      BY <1>1, <2>1 DEF DuplicateEvent, Crash, orgVars, BillingTypeOK
    <3> QED
      BY <1>1, <3>1
  <2>2. CASE InternalError(s)
    BY <1>0, <1>1, <2>2 DEF InternalError, EventStatus
  <2> QED
    BY <2>1, <2>2
<1>5. PICK status \in EventStatus :
        /\ events' = [events EXCEPT ![e] = status]
        /\ status = "absent" => events[e] = "absent"
  BY <1>4
<1>6. /\ events' = [events EXCEPT ![servers[s].event] = status]
      /\ audited' = [audited EXCEPT ![servers[s].event] = @ + n]
      /\ status = "absent" => n = 0 /\ events[servers[s].event] = "absent"
      /\ n # 1
  BY <1>0, <1>3, <1>5
<1> QED
  BY <1>1, <1>2, <1>6, ReleaseInv

(* A stale deletion: the row is not written, but the limits are, in the    *)
(* delivery's first commit.                                                *)
LEMMA StaleInv ==
  ASSUME BillingInv, NEW s \in Servers, CancelStale(s) \/ SyncStale(s)
  PROVE  BillingInv'
<1>0. /\ BillingTypeOK /\ servers[s] \in BusyServer
      /\ servers[s].event \in EventId /\ servers[s].pc # "idle"
  BY EventType DEF BillingInv, CancelStale, SyncStale, Begun
<1>1. CASE CancelStale(s)
  <2>1. /\ servers' = [servers EXCEPT ![s].pc = "sync",
                                      ![s].entitled = Entitlement(billing)]
        /\ servers[s].pc = "begun"
        /\ UNCHANGED <<orgVars, checkoutVars, stripeVars, acked, faults>>
    BY <1>1 DEF CancelStale, Begun
  <2>2. Entitlement(billing) \in Plan \cup {"unsubscribed"}
    BY <1>0, EntitlementType DEF BillingTypeOK
  <2>3. /\ \A t \in Servers : t # s => servers'[t] = servers[t]
        /\ servers'[s].pc = "sync" /\ servers'[s].event = servers[s].event
        /\ servers' \in [Servers -> BusyServer \cup {IdleServer}]
    BY <1>0, <2>1, <2>2 DEF BillingTypeOK, BusyServer
  <2>4. BillingTypeOK'
    BY <1>0, <2>1, <2>3
       DEF BillingTypeOK, orgVars, checkoutVars, stripeVars
  <2>5. UNCHANGED <<events, audited, applications, log, billing>>
    BY <2>1 DEF orgVars, stripeVars
  <2>6. /\ DeliveriesAreKnown' /\ RowTellsDelivery' /\ EffectsFollowRow'
        /\ EventsApplyOnce' /\ OneHandlerPerEvent'
    BY <2>1, <2>3, <2>5
       DEF BillingInv, DeliveriesAreKnown, RowTellsDelivery,
           EffectsFollowRow, EventsApplyOnce, OneHandlerPerEvent, Handling
  <2>7. /\ (Applied \subseteq DOMAIN log)' /\ ReflectsNewestSecond'
        /\ DeletedIsCanceled'
    BY <2>5 DEF Applied, ReflectsNewestSecond, SaidBy, DeletedIsCanceled,
                BillingInv
  <2> QED
    BY <2>4, <2>6, <2>7 DEF BillingInv
<1>2. CASE SyncStale(s)
  <2>1. /\ limits' \in Plan \cup {"unsubscribed"}
        /\ events' = [events EXCEPT ![servers[s].event] = "pending"]
        /\ servers' = [servers EXCEPT ![s].pc = "finish"]
        /\ servers[s].pc = "sync"
        /\ UNCHANGED <<billing, audited, applications, checkoutVars, log,
                       subs, second, acked, faults>>
    BY <1>0, <1>2 DEF SyncStale, stripeVars, BusyServer
  <2>2. /\ events' \in [EventId -> EventStatus]
        /\ servers' \in [Servers -> BusyServer \cup {IdleServer}]
    BY <1>0, <2>1 DEF BillingTypeOK, EventStatus, BusyServer
  <2>3. BillingTypeOK'
    BY <1>0, <2>1, <2>2 DEF BillingTypeOK, checkoutVars
  <2>4. applications' = [applications EXCEPT ![servers[s].event] = @ + 0]
    BY <1>0, <2>1 DEF BillingTypeOK
  <2>5. ReflectsNewestSecond'
    BY <2>1 DEF BillingInv, ReflectsNewestSecond, SaidBy, Applied
  <2> QED
    BY <2>1, <2>3, <2>4, <2>5, FirstCommitInv
<1> QED
  BY <1>1, <1>2

LEMMA ServerInv ==
  ASSUME BillingInv, NEW s \in Servers, ServerStep(s)
  PROVE  BillingInv'
<1>1. CASE IgnoreEvent(s) \/ NotResolvable(s)
  BY <1>1, CloseInv DEF IgnoreEvent, NotResolvable, Begun, EventStatus
<1>2. CASE NoteEvent(s) \/ DiscardSubscription(s) \/ FinishEvent(s)
  BY <1>2, CloseInv DEF NoteEvent, DiscardSubscription, FinishEvent, Begun,
                        EventStatus
<1>3. CASE DuplicateEvent(s)
  BY <1>3, DropInv
<1>4. CASE CancelStale(s) \/ SyncStale(s)
  BY <1>4, StaleInv
<1>5. CASE ApplySubscription(s) \/ CancelSubscription(s)
  <2> DEFINE ev == Event(s)
             status == IF ApplySubscription(s) THEN ev.status ELSE "canceled"
             plan == IF ApplySubscription(s) THEN ev.plan ELSE servers[s].plan
  <2>1. /\ servers[s].pc = "begun" /\ servers[s] \in BusyServer
        /\ ev \in StripeEvent /\ billing \in BillingRow
    BY <1>5, EventType DEF ApplySubscription, CancelSubscription, Begun,
                           BillingInv, BillingTypeOK
  <2>2. ev.kind = "deleted" => ev.status = "canceled"
    BY <2>1 DEF BillingInv, DeletedIsCanceled, DeliveriesAreKnown, Event
  <2>3. CASE ApplySubscription(s)
    <3> DEFINE row == Snapshot(ev, ev.plan, ev.status)
    <3>1. /\ row \in BillingRow /\ row.lastAt = ev.at /\ row.sub = ev.sub
          /\ row.status = ev.status /\ row.plan = ev.plan
      BY <2>1, <2>3 DEF ApplySubscription, Snapshot, BillingRow, StripeEvent,
                        Plan, Status
    <3>2. CommitSnapshot(s, row) /\ Current(ev)
      BY <2>3 DEF ApplySubscription
    <3> HIDE DEF row
    <3> QED
      BY <2>1, <3>1, <3>2, SnapshotInv
  <2>4. CASE CancelSubscription(s)
    <3> DEFINE row == Snapshot(ev, servers[s].plan, "canceled")
    <3>1. /\ row \in BillingRow /\ row.lastAt = ev.at /\ row.sub = ev.sub
          /\ row.status = "canceled"
      BY <2>1 DEF Snapshot, BillingRow, StripeEvent, BusyServer, Plan, Status
    <3>2. CommitSnapshot(s, row) /\ Current(ev) /\ ev.kind = "deleted"
      BY <2>4 DEF CancelSubscription
    <3> HIDE DEF row
    <3> QED
      BY <2>1, <2>2, <3>1, <3>2, SnapshotInv
  <2> QED
    BY <1>5, <2>3, <2>4
<1> QED
  BY <1>1, <1>2, <1>3, <1>4, <1>5 DEF ServerStep

LEMMA BillingStepInv == BillingInv /\ [BillingNext]_billingVars => BillingInv'
<1> SUFFICES ASSUME BillingInv, [BillingNext]_billingVars PROVE BillingInv'
  OBVIOUS
<1>1. CASE UNCHANGED billingVars
  <2>1. BillingTypeOK'
    BY <1>1 DEF BillingInv, BillingTypeOK, billingVars, orgVars, checkoutVars,
                stripeVars
  <2>2. UNCHANGED <<events, audited, applications, servers, log, billing>>
    BY <1>1 DEF billingVars, orgVars, stripeVars
  <2>3. DeletedIsCanceled'
    BY <2>2 DEF BillingInv, DeletedIsCanceled
  <2> QED
    BY <2>1, <2>2, <2>3, OutsideStep
<1>2. CASE CheckoutStep \/ \E a \in Admins : CheckoutFails(a)
  BY <1>2, CheckoutInv DEF CheckoutStep
<1>3. CASE \E s \in Servers : InternalError(s) \/ Crash(s)
  BY <1>3, DropInv
<1>4. CASE \E s \in Servers, e \in DOMAIN log : Receive(s, e)
  BY <1>4, ReceiveInv
<1>5. CASE \E s \in Servers : ServerStep(s)
  BY <1>5, ServerInv
<1> QED
  BY <1>1, <1>2, <1>3, <1>4, <1>5, StripeInv DEF BillingNext, Failure

-----------------------------------------------------------------------------
(* The inductive invariant of billing, for any number of API processes,    *)
(* checkouts, plans and events.                                            *)
THEOREM BillingInvariant == BillingSpec => []BillingInv
<1> QED
  BY BillingInitInv, BillingStepInv, PTL DEF BillingSpec

(* Every row, process and event keeps its type (billing/models.py).        *)
THEOREM BillingTypeCorrect == BillingSpec => []BillingTypeOK
<1>1. BillingInv => BillingTypeOK
  BY DEF BillingInv
<1> QED
  BY <1>1, BillingInvariant, PTL

(* Redeliveries, also concurrent ones and those after a crash or an error, *)
(* neither apply nor audit an event twice (record_webhook_event).          *)
THEOREM EventsAreAppliedOnce == BillingSpec => []EventsApplyOnce
<1>1. BillingInv => EventsApplyOnce
  BY DEF BillingInv
<1> QED
  BY <1>1, BillingInvariant, PTL

(* No order of deliveries to any number of processes leaves the billing    *)
(* row behind the newest second that was applied                           *)
(* (_UPDATE_FROM_SUBSCRIPTION).                                            *)
THEOREM SubscriptionsNeverRollBack == BillingSpec => []ReflectsNewestSecond
<1>1. BillingInv => ReflectsNewestSecond
  BY DEF BillingInv
<1> QED
  BY <1>1, BillingInvariant, PTL

-----------------------------------------------------------------------------
(* The entitlement that a stale deletion has read is the one in force. *)
SyncIsCurrent ==
  \A s \in Servers : servers[s].pc = "sync"
                       => servers[s].entitled = Entitlement(billing)

LEMMA LimitsStep ==
  ASSUME \A s, t \in Servers : s = t, BillingInv, LimitsMatchBilling,
         SyncIsCurrent, [BillingNext]_billingVars
  PROVE  LimitsMatchBilling' /\ SyncIsCurrent'
<1>0. servers \in [Servers -> BusyServer \cup {IdleServer}]
  BY DEF BillingInv, BillingTypeOK
<1>1. ASSUME /\ billing'.plan = billing.plan /\ billing'.status = billing.status
             /\ UNCHANGED limits,
             \A s \in Servers : servers'[s] = servers[s]
                                  \/ servers'[s].pc # "sync"
      PROVE  LimitsMatchBilling' /\ SyncIsCurrent'
  BY <1>1 DEF LimitsMatchBilling, SyncIsCurrent, Entitlement
<1>2. CASE CheckoutStep \/ \E a \in Admins : CheckoutFails(a)
  <2>1. /\ billing'.plan = billing.plan /\ billing'.status = billing.status
        /\ UNCHANGED <<limits, servers>>
    BY <1>2 DEF CheckoutStep, StartCheckout, GetOrCreateCustomer,
                CommitCheckout, CheckoutFails, orgVars, BillingInv,
                BillingTypeOK, BillingRow
  <2> QED
    BY <1>1, <2>1
<1>3. CASE StripeStep \/ UNCHANGED billingVars
  <2>1. UNCHANGED <<billing, limits, servers>>
    BY <1>3 DEF StripeStep, CompleteCheckout, ChangeSubscription,
                EndSubscription, OtherEvent, StrangerEvent, Tick,
                StripeUnchanged, orgVars, billingVars
  <2> QED
    BY <1>1, <2>1
<1>4. ASSUME NEW s \in Servers, NEW v, v.pc # "sync",
             servers' = [servers EXCEPT ![s] = v]
      PROVE  \A t \in Servers : servers'[t] = servers[t]
                                  \/ servers'[t].pc # "sync"
  BY <1>0, <1>4
<1>5. ASSUME NEW s \in Servers,
             \/ \E e \in DOMAIN log : Receive(s, e)
             \/ IgnoreEvent(s) \/ NotResolvable(s) \/ NoteEvent(s)
             \/ DiscardSubscription(s) \/ FinishEvent(s) \/ DuplicateEvent(s)
             \/ InternalError(s) \/ Crash(s)
      PROVE  LimitsMatchBilling' /\ SyncIsCurrent'
  <2>1. UNCHANGED <<billing, limits>>
    BY <1>5 DEF Receive, IgnoreEvent, NotResolvable, NoteEvent,
                DiscardSubscription, FinishEvent, DuplicateEvent,
                InternalError, Crash, Close, orgVars
  <2>2. \/ \E e \in DOMAIN log :
             servers' = [servers EXCEPT ![s] = Delivery(e, events[e] = "absent")]
        \/ servers' = [servers EXCEPT ![s] = IdleServer]
    BY <1>5 DEF Receive, IgnoreEvent, NotResolvable, NoteEvent,
                DiscardSubscription, FinishEvent, DuplicateEvent,
                InternalError, Crash, Close, Answer
  <2>3. /\ IdleServer.pc # "sync"
        /\ \A e : Delivery(e, events[e] = "absent").pc # "sync"
    BY DEF IdleServer, Delivery
  <2> QED
    BY <1>1, <1>4, <2>1, <2>2, <2>3
<1>6. ASSUME NEW s \in Servers, NEW row, CommitSnapshot(s, row),
             servers[s].pc # "idle"
      PROVE  LimitsMatchBilling' /\ SyncIsCurrent'
  <2>1. servers'[s].pc = "finish"
    BY <1>0, <1>6, EventType DEF CommitSnapshot, BusyServer
  <2> QED
    BY <1>6, <2>1 DEF CommitSnapshot, LimitsMatchBilling, SyncIsCurrent
<1>7. ASSUME NEW s \in Servers, CancelStale(s) \/ SyncStale(s)
      PROVE  LimitsMatchBilling' /\ SyncIsCurrent'
  <2>1. servers[s] \in BusyServer
    BY <1>7, EventType DEF CancelStale, SyncStale, Begun
  <2>2. CASE CancelStale(s)
    <3>1. /\ UNCHANGED <<billing, limits>>
          /\ servers'[s].entitled = Entitlement(billing)
      BY <1>0, <2>1, <2>2 DEF CancelStale, orgVars, BusyServer
    <3> QED
      BY <3>1 DEF LimitsMatchBilling, SyncIsCurrent
  <2>3. CASE SyncStale(s)
    <3>1. /\ UNCHANGED billing /\ limits' = Entitlement(billing)
          /\ servers'[s].pc = "finish"
      BY <1>0, <2>1, <2>3 DEF SyncStale, BusyServer, SyncIsCurrent
    <3> QED
      BY <3>1 DEF LimitsMatchBilling, SyncIsCurrent
  <2> QED
    BY <1>7, <2>2, <2>3
<1>8. ASSUME NEW s \in Servers, ApplySubscription(s) \/ CancelSubscription(s)
      PROVE  LimitsMatchBilling' /\ SyncIsCurrent'
  BY <1>6, <1>8 DEF ApplySubscription, CancelSubscription, Begun
<1> QED
  BY <1>2, <1>3, <1>5, <1>7, <1>8 DEF BillingNext, ServerStep, Failure

(* With one API process the enforced ceilings are those of the entitlement *)
(* in every committed state (sync_organization_limits).  The assumption is *)
(* needed: with two, a stale deletion writes limits it resolved before     *)
(* another event was applied.                                              *)
THEOREM LimitsFollowBilling ==
  ASSUME \A s, t \in Servers : s = t
  PROVE  BillingSpec => []LimitsMatchBilling
<1>1. BillingInit => LimitsMatchBilling /\ SyncIsCurrent
  BY DEF BillingInit, LimitsMatchBilling, SyncIsCurrent, IdleServer
<1>2. /\ BillingInv /\ LimitsMatchBilling /\ SyncIsCurrent
      /\ [BillingNext]_billingVars
      => LimitsMatchBilling' /\ SyncIsCurrent'
  BY LimitsStep
<1> QED
  BY <1>1, <1>2, BillingInvariant, PTL DEF BillingSpec

-----------------------------------------------------------------------------
(* What a checkout holds is on file, or nothing is; who was served is on   *)
(* file.                                                                   *)
CustomerOnFile ==
  /\ served \subseteq {billing.customer} \ {Null}
  /\ \A a \in Admins :
       /\ checkouts[a].pc = "create" => checkouts[a].customer = billing.customer
       /\ checkouts[a].pc = "commit" =>
            /\ checkouts[a].customer # Null
            /\ billing.customer # Null => checkouts[a].customer = billing.customer

LEMMA CustomerStep ==
  ASSUME \A a, b \in Admins : a = b, BillingTypeOK, CustomerOnFile,
         [BillingNext]_billingVars
  PROVE  CustomerOnFile'
<1>0. /\ checkouts \in [Admins -> CheckoutState] /\ billing \in BillingRow
      /\ customers \in Nat
  BY DEF BillingTypeOK, CheckoutState
<1>1. ASSUME UNCHANGED <<checkouts, served>>, billing'.customer = billing.customer
      PROVE  CustomerOnFile'
  BY <1>1 DEF CustomerOnFile
<1>2. CASE StripeStep \/ UNCHANGED billingVars
  <2>1. UNCHANGED <<checkouts, served, billing>>
    BY <1>2 DEF StripeStep, CompleteCheckout, ChangeSubscription, EndSubscription,
                OtherEvent, StrangerEvent, Tick, StripeUnchanged, orgVars,
                billingVars, checkoutVars
  <2> QED
    BY <1>1, <2>1
<1>3. ASSUME NEW s \in Servers,
             \/ \E e \in DOMAIN log : Receive(s, e)
             \/ ServerStep(s) \/ InternalError(s) \/ Crash(s)
      PROVE  CustomerOnFile'
  <2>1. UNCHANGED <<checkouts, served>>
    BY <1>3 DEF ServerStep, Receive, IgnoreEvent, NotResolvable, NoteEvent,
                DiscardSubscription, FinishEvent, DuplicateEvent, ApplySubscription,
                CancelSubscription, CancelStale, SyncStale, CommitSnapshot,
                InternalError, Crash, Close, checkoutVars
  <2>2. UNCHANGED billing \/ \E ev, plan, status : billing' = Snapshot(ev, plan, status)
    BY <1>3 DEF ServerStep, Receive, IgnoreEvent, NotResolvable, NoteEvent,
                DiscardSubscription, FinishEvent, DuplicateEvent, ApplySubscription,
                CancelSubscription, CancelStale, SyncStale, CommitSnapshot,
                InternalError, Crash, Close, orgVars
  <2>3. billing'.customer = billing.customer
    BY <2>2 DEF Snapshot
  <2> QED
    BY <1>1, <2>1, <2>3
<1>4. ASSUME NEW a \in Admins,
             \/ \E p \in Plans : StartCheckout(a, p)
             \/ GetOrCreateCustomer(a) \/ CheckoutFails(a)
      PROVE  CustomerOnFile'
  <2>1. UNCHANGED <<billing, served>> /\ \A b \in Admins : b = a
    BY <1>4 DEF StartCheckout, GetOrCreateCustomer, CheckoutFails, orgVars
  <2>2. CASE \E p \in Plans : StartCheckout(a, p)
    <3>1. checkouts'[a].pc = "create" /\ checkouts'[a].customer = billing.customer
      BY <1>0, <2>2 DEF StartCheckout
    <3> QED
      BY <2>1, <3>1 DEF CustomerOnFile
  <2>3. CASE CheckoutFails(a)
    <3>1. checkouts'[a].pc = "idle"
      BY <1>0, <2>3 DEF CheckoutFails, IdleCheckout
    <3> QED
      BY <2>1, <3>1 DEF CustomerOnFile
  <2>4. CASE GetOrCreateCustomer(a)
    <3>1. checkouts[a] \in [pc : {"create", "commit"}, plan : Plans, customer : Nat]
          /\ checkouts[a].customer = billing.customer
      BY <1>0, <2>4 DEF GetOrCreateCustomer, CheckoutState, IdleCheckout, CustomerOnFile
    <3>2. /\ checkouts'[a].pc = "commit"
          /\ checkouts'[a].customer
               = IF billing.customer # Null THEN billing.customer ELSE customers + 1
      BY <1>0, <2>4, <3>1 DEF GetOrCreateCustomer
    <3>3. checkouts'[a].customer # Null
      BY <1>0, <3>2 DEF Null
    <3> QED
      BY <2>1, <3>2, <3>3 DEF CustomerOnFile
  <2> QED
    BY <1>4, <2>2, <2>3, <2>4
<1>5. ASSUME NEW a \in Admins, CommitCheckout(a)
      PROVE  CustomerOnFile'
  <2> DEFINE c == checkouts[a].customer
  <2>1. /\ c # Null /\ (billing.customer # Null => c = billing.customer)
        /\ served \subseteq {billing.customer} \ {Null}
    BY <1>5 DEF CommitCheckout, CustomerOnFile
  <2>2. /\ billing'.customer = c /\ served' = served \cup {c}
        /\ checkouts'[a].pc = "idle"
    BY <1>0, <1>5 DEF CommitCheckout, IdleCheckout, BillingRow
  <2> HIDE DEF c
  <2>3. served' \subseteq {billing'.customer} \ {Null}
    BY <2>1, <2>2
  <2>4. \A b \in Admins : checkouts'[b].pc = "idle"
    BY <2>2
  <2> QED
    BY <2>3, <2>4 DEF CustomerOnFile
<1> QED
  BY <1>2, <1>3, <1>4, <1>5 DEF BillingNext, CheckoutStep, Failure

(* One owner at a time who starts checkouts is enough for one customer     *)
(* (get_or_create_customer), whatever fails in between.  The assumption is *)
(* needed: two who start together find no customer on file and create one  *)
(* each.                                                                   *)
THEOREM OneCustomerIsServed ==
  ASSUME \A a, b \in Admins : a = b
  PROVE  BillingSpec => []OneCustomer
<1>1. BillingInit => CustomerOnFile
  BY DEF BillingInit, CustomerOnFile, IdleCheckout
<1>2. BillingTypeOK /\ CustomerOnFile /\ [BillingNext]_billingVars => CustomerOnFile'
  BY CustomerStep
<1>3. CustomerOnFile => OneCustomer
  <2> SUFFICES ASSUME CustomerOnFile PROVE OneCustomer
    OBVIOUS
  <2>1. served = {} \/ served = {billing.customer}
    BY DEF CustomerOnFile
  <2>2. Cardinality({}) = 0 /\ Cardinality({billing.customer}) = 1
    BY FS_EmptySet, FS_Singleton
  <2> QED
    BY <2>1, <2>2 DEF OneCustomer
<1> QED
  BY <1>1, <1>2, <1>3, BillingTypeCorrect, PTL DEF BillingSpec
=============================================================================
