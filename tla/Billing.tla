------------------------------ MODULE Billing -------------------------------
(***************************************************************************)
(* Billing of one organization (arie/billing/): checkouts that give it a   *)
(* Stripe customer, and the webhook through which Stripe says what has     *)
(* become of its subscriptions.                                            *)
(*                                                                         *)
(* Stripe is external: it delivers every event until it is answered with   *)
(* 200, in any order, possibly again after that, and dates it in whole     *)
(* seconds.  An API process handles one delivery at a time (the endpoint   *)
(* blocks the event loop); checkouts run in threads.  A delivery that      *)
(* changes an entitlement is two transactions, because set_limits commits: *)
(* first the event row, the billing row and the limits, then the audit row *)
(* and the event's final status.                                           *)
(***************************************************************************)
EXTENDS Integers, Sequences, FiniteSets

CONSTANTS
  Servers,       \* API processes
  Admins,        \* threads in which an owner may start a checkout
  Plans,         \* PURCHASABLE_PLANS
  Unmapped,      \* a price that STRIPE_PRICE_* maps to no plan
  Statuses,      \* Stripe's subscription statuses other than canceled
  Subscribed,    \* SUBSCRIBED_STATUSES
  OtherKinds,    \* event types the endpoint gets besides the subscriptions'
  MaxCheckouts,  \* bound on checkouts that are started
  MaxEvents,     \* bound on events Stripe emits
  MaxSeconds,    \* bound on time
  MaxFaults      \* bound on crashes and database errors

ASSUME PlansAssumption ==
  "starter" \in Plans /\ Unmapped \notin Plans /\ Plans \cap {"internal", "unsubscribed"} = {}
ASSUME StatusesAssumption ==
  Subscribed # {} /\ Subscribed \subseteq Statuses /\ Statuses \cap {"none", "canceled"} = {}
ASSUME OtherKindsAssumption ==
  OtherKinds \subseteq {"checkout", "payment_failed", "paid", "other"}
ASSUME MaxEventsAssumption == MaxEvents \in Nat
ASSUME MaxCheckoutsAssumption == MaxCheckouts \in Nat

VARIABLES
  billing,       \* the organization_billing row
  limits,        \* the ceilings on the organizations row, by entitlement
  events,        \* billing_webhook_events: processing_status by event
  audited,       \* organization_audit_events: rows written for an event
  servers,       \* where each API process is in process_webhook_event
  checkouts,     \* where each thread is in start_checkout
  log,           \* Stripe: the events it has emitted
  subs,          \* Stripe: the subscriptions
  customers,     \* Stripe: how many customers were created
  sessions,      \* Stripe: customers and plans of open checkout sessions
  acked,         \* Stripe: events answered with 200
  second,        \* Stripe: the time that stamps its events
  applications,  \* history: how often an event's snapshot was written
  served,        \* history: customers that were handed a checkout session
  started, faults

orgVars == <<billing, limits, events, audited, applications>>
stripeVars == <<log, subs, second>>
checkoutVars == <<checkouts, customers, sessions, served, started>>
billingVars == <<orgVars, servers, checkoutVars, stripeVars, acked, faults>>

Null == 0        \* SQL NULL of a customer, a subscription and a time

EventId == 1 .. MaxEvents

EventKind == {"checkout", "created", "updated", "deleted", "payment_failed",
              "paid", "other"}

(* HANDLED_EVENT_TYPES. *)
Handled(kind) == kind # "other"

StripeEvent == [kind : EventKind, customer : Nat, sub : Nat,
                plan : Plans \cup {Unmapped}, status : Statuses \cup {"canceled"},
                at : Nat]

Plan == Plans \cup {"internal"}
Status == Statuses \cup {"none", "canceled"}

BillingRow == [customer : Nat, sub : Nat, plan : Plan, status : Status,
               lastAt : Nat]

EventStatus == {"absent", "pending", "processed", "failed", "ignored"}

IdleServer == [pc |-> "idle"]

(* A delivery being handled: what was read of the billing row before the   *)
(* row that it is about to write is locked.                                *)
BusyServer == [pc : {"begun", "duplicate", "sync", "finish"}, event : EventId,
               resolved : BOOLEAN, plan : Plan,
               entitled : Plan \cup {"unsubscribed"}]

IdleCheckout == [pc |-> "idle"]

BillingTypeOK ==
  /\ billing \in BillingRow
  /\ limits \in Plan \cup {"unsubscribed"}
  /\ events \in [EventId -> EventStatus]
  /\ audited \in [EventId -> Nat]
  /\ applications \in [EventId -> Nat]
  /\ servers \in [Servers -> BusyServer \cup {IdleServer}]
  /\ checkouts \in [Admins -> [pc : {"create", "commit"}, plan : Plans,
                               customer : Nat] \cup {IdleCheckout}]
  /\ log \in Seq(StripeEvent) /\ Len(log) <= MaxEvents
  /\ subs \in Seq([customer : Nat, plan : Plans \cup {Unmapped},
                   status : Statuses \cup {"canceled"}])
  /\ customers \in Nat
  /\ sessions \subseteq Nat \X Plans
  /\ served \subseteq Nat
  /\ acked \subseteq EventId
  /\ second \in Nat
  /\ started \in Nat /\ faults \in Nat

-----------------------------------------------------------------------------
(* resolve_organization_entitlements: the plan of a subscription that is   *)
(* paid for, the floor otherwise.                                          *)
Entitlement(row) ==
  IF row.plan = "internal" \/ row.status \in Subscribed THEN row.plan
  ELSE "unsubscribed"

(* create_customer_organization leaves a starter plan that nobody has paid *)
(* for and its ceilings; the migration left the legacy organization an     *)
(* internal plan.                                                          *)
Provisioned(plan, status) ==
  [customer |-> Null, sub |-> Null, plan |-> plan, status |-> status,
   lastAt |-> Null]

BillingInit ==
  /\ billing \in {Provisioned("starter", "none")}
                   \cup {Provisioned("internal", s) : s \in Subscribed}
  /\ limits = Entitlement(billing)
  /\ events = [e \in EventId |-> "absent"]
  /\ audited = [e \in EventId |-> 0]
  /\ applications = [e \in EventId |-> 0]
  /\ servers = [s \in Servers |-> IdleServer]
  /\ checkouts = [a \in Admins |-> IdleCheckout]
  /\ log = <<>> /\ subs = <<>> /\ second = 1
  /\ customers = 0 /\ sessions = {} /\ served = {}
  /\ acked = {}
  /\ started = 0 /\ faults = 0

-----------------------------------------------------------------------------
(* start_checkout reads the billing row. *)
StartCheckout(a, plan) ==
  /\ checkouts[a].pc = "idle"
  /\ started < MaxCheckouts
  /\ started' = started + 1
  /\ checkouts' = [checkouts EXCEPT ![a] =
                     [pc |-> "create", plan |-> plan,
                      customer |-> billing.customer]]
  /\ UNCHANGED <<orgVars, servers, customers, sessions, served, stripeVars,
                 acked, faults>>

(* Mutation: the customer on file is not looked at. *)
GetOrCreateCustomer_Always(a) ==
  /\ checkouts[a].pc = "create"
  /\ customers' = customers + 1
  /\ checkouts' = [checkouts EXCEPT ![a].pc = "commit",
                                    ![a].customer = customers + 1]
  /\ UNCHANGED <<orgVars, servers, sessions, served, started, stripeVars, acked,
                 faults>>

(* get_or_create_customer: the customer that was on file, or a new one. *)
GetOrCreateCustomer(a) ==
  /\ checkouts[a].pc = "create"
  /\ IF checkouts[a].customer # Null
     THEN /\ checkouts' = [checkouts EXCEPT ![a].pc = "commit"]
          /\ UNCHANGED customers
     ELSE /\ customers' = customers + 1
          /\ checkouts' = [checkouts EXCEPT ![a].pc = "commit",
                                            ![a].customer = customers + 1]
  /\ UNCHANGED <<orgVars, servers, sessions, served, started, stripeVars, acked,
                 faults>>

(* The customer is put on file, the session is created and its URL given   *)
(* to the browser.                                                         *)
CommitCheckout(a) ==
  LET c == checkouts[a].customer IN
  /\ checkouts[a].pc = "commit"
  /\ billing' = [billing EXCEPT !.customer = c]
  /\ sessions' = sessions \cup {<<c, checkouts[a].plan>>}
  /\ served' = served \cup {c}
  /\ checkouts' = [checkouts EXCEPT ![a] = IdleCheckout]
  /\ UNCHANGED <<limits, events, audited, applications, servers, customers,
                 started, stripeVars, acked, faults>>

(* The request fails before it commits; what Stripe has created stays. *)
CheckoutFails(a) ==
  /\ checkouts[a].pc # "idle"
  /\ faults < MaxFaults
  /\ faults' = faults + 1
  /\ checkouts' = [checkouts EXCEPT ![a] = IdleCheckout]
  /\ UNCHANGED <<orgVars, servers, customers, sessions, served, started,
                 stripeVars, acked>>

-----------------------------------------------------------------------------
(* What Stripe says of subscription i. *)
About(kind, i, row) ==
  [kind |-> kind, customer |-> row.customer, sub |-> i, plan |-> row.plan,
   status |-> row.status, at |-> second]

StripeUnchanged == UNCHANGED <<orgVars, servers, checkouts, customers, served,
                               started, acked, faults>>

(* The customer pays: a subscription begins.  The completion of the        *)
(* session is an event of its own, in either order.                        *)
CompleteCheckout(c, plan) ==
  LET row == [customer |-> c, plan |-> plan,
              status |-> CHOOSE s \in Subscribed : TRUE]
      i   == Len(subs) + 1
  IN
  /\ <<c, plan>> \in sessions
  /\ Len(log) < MaxEvents
  /\ sessions' = sessions \ {<<c, plan>>}
  /\ subs' = Append(subs, row)
  /\ log' = Append(log, About("created", i, row))
  /\ UNCHANGED second
  /\ StripeUnchanged

(* The subscription changes plan or status, in the portal or by itself. *)
ChangeSubscription(i, plan, status) ==
  LET row == [customer |-> subs[i].customer, plan |-> plan, status |-> status] IN
  /\ subs[i].status # "canceled"
  /\ row # subs[i]
  /\ Len(log) < MaxEvents
  /\ subs' = [subs EXCEPT ![i] = row]
  /\ log' = Append(log, About("updated", i, row))
  /\ UNCHANGED <<second, sessions>>
  /\ StripeUnchanged

EndSubscription(i) ==
  LET row == [subs[i] EXCEPT !.status = "canceled"] IN
  /\ subs[i].status # "canceled"
  /\ Len(log) < MaxEvents
  /\ subs' = [subs EXCEPT ![i] = row]
  /\ log' = Append(log, About("deleted", i, row))
  /\ UNCHANGED <<second, sessions>>
  /\ StripeUnchanged

(* A session is completed, an invoice is paid or not, or something happens *)
(* that is not handled.                                                    *)
OtherEvent(i, kind) ==
  /\ Len(log) < MaxEvents
  /\ log' = Append(log, About(kind, i, subs[i]))
  /\ UNCHANGED <<second, subs, sessions>>
  /\ StripeUnchanged

(* The endpoint is that of the whole Stripe account: it also gets events   *)
(* of customers that no organization has on file.  One will do.            *)
Stranger == MaxCheckouts + 1

StrangerEvent ==
  LET row == [customer |-> Stranger, plan |-> Unmapped, status |-> "canceled"] IN
  /\ Len(log) < MaxEvents
  /\ \A e \in DOMAIN log : log[e].customer # Stranger
  /\ log' = Append(log, About("updated", Null, row))
  /\ UNCHANGED <<second, subs, sessions>>
  /\ StripeUnchanged

Tick ==
  /\ second < MaxSeconds
  /\ second' = second + 1
  /\ UNCHANGED <<log, subs, sessions>>
  /\ StripeUnchanged

-----------------------------------------------------------------------------
Event(s) == log[servers[s].event]

Begun(s) == servers[s].pc = "begun" /\ Handled(Event(s).kind)

(* _resolve_organization: by the customer on file; a checkout session also *)
(* names the organization itself.                                          *)
Resolves(ev) == ev.customer = billing.customer \/ ev.kind = "checkout"

(* An insert of the same event id waits for the transaction that has it. *)
InsertBlocked(e) ==
  \E s \in Servers : servers[s].pc \in {"begun", "sync"} /\ servers[s].event = e

Delivery(e, fresh) ==
  [pc |-> IF fresh THEN "begun" ELSE "duplicate", event |-> e,
   resolved |-> Resolves(log[e]), plan |-> billing.plan,
   entitled |-> "unsubscribed"]

(* Mutation: the event row is committed before the event is applied. *)
Receive_CommitsFirst(s, e) ==
  /\ servers[s].pc = "idle"
  /\ ~InsertBlocked(e)
  /\ servers' = [servers EXCEPT ![s] = Delivery(e, events[e] = "absent")]
  /\ events' = [events EXCEPT ![e] = IF @ = "absent" THEN "pending" ELSE @]
  /\ UNCHANGED <<billing, limits, audited, applications, checkoutVars,
                 stripeVars, acked, faults>>

(* Mutation: the insert does not look for the row of an earlier delivery. *)
Receive_NoDedup(s, e) ==
  /\ servers[s].pc = "idle"
  /\ ~InsertBlocked(e)
  /\ servers' = [servers EXCEPT ![s] = Delivery(e, TRUE)]
  /\ UNCHANGED <<orgVars, checkoutVars, stripeVars, acked, faults>>

(* A delivery arrives: the organization is looked up and the event row is  *)
(* inserted, unless it is there.                                           *)
Receive(s, e) ==
  /\ servers[s].pc = "idle"
  /\ ~InsertBlocked(e)
  /\ servers' = [servers EXCEPT ![s] = Delivery(e, events[e] = "absent")]
  /\ UNCHANGED <<orgVars, checkoutVars, stripeVars, acked, faults>>

(* The response is 200.  Stripe may deliver an event again even so. *)
Answer(s) ==
  /\ servers' = [servers EXCEPT ![s] = IdleServer]
  /\ acked' = acked \cup {servers[s].event}

(* The last commit of a delivery. *)
Close(s, status, audits) ==
  LET e == servers[s].event IN
  /\ events' = [events EXCEPT ![e] = status]
  /\ audited' = [audited EXCEPT ![e] = @ + audits]
  /\ Answer(s)
  /\ UNCHANGED <<billing, limits, applications, checkoutVars, stripeVars, faults>>

(* An event type that is not handled is recorded, or recorded again. *)
IgnoreEvent(s) ==
  /\ servers[s].pc \in {"begun", "duplicate"}
  /\ ~Handled(Event(s).kind)
  /\ Close(s, "ignored", 0)

DuplicateEvent(s) ==
  /\ servers[s].pc = "duplicate"
  /\ Handled(Event(s).kind)
  /\ Answer(s)
  /\ UNCHANGED <<orgVars, checkoutVars, stripeVars, faults>>

(* No organization has this customer: answered 200, never retried. *)
NotResolvable(s) ==
  /\ Begun(s)
  /\ ~servers[s].resolved
  /\ Close(s, "failed", 0)

(* A session or an invoice changes no entitlement. *)
NoteEvent(s) ==
  /\ Begun(s)
  /\ servers[s].resolved
  /\ Event(s).kind \in {"checkout", "payment_failed", "paid"}
  /\ Close(s, "processed", IF Event(s).kind = "paid" THEN 0 ELSE 1)

(* Mutation: the guard on last_event_created_at is dropped. *)
Current_Always(ev) == TRUE

(* The guard of _UPDATE_FROM_SUBSCRIPTION. *)
Current(ev) == billing.lastAt <= ev.at

(* Mutation: the plan is always that of the price, mapped or not. *)
Snapshot_PlanOfEvent(ev, plan, status) ==
  [customer |-> billing.customer, sub |-> ev.sub, plan |-> ev.plan,
   status |-> status, lastAt |-> ev.at]

(* The billing row as an event leaves it. *)
Snapshot(ev, plan, status) ==
  [customer |-> billing.customer, sub |-> ev.sub, plan |-> plan,
   status |-> status, lastAt |-> ev.at]

(* The first commit: event row, billing row and limits together. *)
CommitSnapshot(s, row) ==
  LET e == servers[s].event IN
  /\ billing' = row
  /\ limits' = Entitlement(row)
  /\ events' = [events EXCEPT ![e] = IF @ = "absent" THEN "pending" ELSE @]
  /\ applications' = [applications EXCEPT ![e] = @ + 1]
  /\ servers' = [servers EXCEPT ![s].pc = "finish"]
  /\ UNCHANGED <<audited, checkoutVars, stripeVars, acked, faults>>

(* _apply_subscription: a snapshot whose price is a plan. *)
ApplySubscription(s) ==
  LET ev == Event(s) IN
  /\ Begun(s) /\ servers[s].resolved
  /\ ev.kind \in {"created", "updated"}
  /\ ev.plan \in Plans
  /\ Current(ev)
  /\ CommitSnapshot(s, Snapshot(ev, ev.plan, ev.status))

(* An unmapped price fails for good; a stale snapshot is audited as if it  *)
(* had been applied.                                                       *)
DiscardSubscription(s) ==
  LET ev == Event(s) IN
  /\ Begun(s) /\ servers[s].resolved
  /\ ev.kind \in {"created", "updated"}
  /\ \/ ev.plan \notin Plans /\ Close(s, "failed", 0)
     \/ ev.plan \in Plans /\ ~Current(ev) /\ Close(s, "processed", 1)

(* Mutation: the end of a subscription does not reach the limits. *)
CancelSubscription_NoSync(s) ==
  LET ev == Event(s) IN
  /\ Begun(s) /\ servers[s].resolved
  /\ ev.kind = "deleted"
  /\ Current(ev)
  /\ billing' = Snapshot(ev, servers[s].plan, "canceled")
  /\ applications' = [applications EXCEPT ![servers[s].event] = @ + 1]
  /\ servers' = [servers EXCEPT ![s].pc = "finish"]
  /\ UNCHANGED <<limits, events, audited, checkoutVars, stripeVars, acked, faults>>

(* customer.subscription.deleted, whichever subscription was deleted: the  *)
(* plan is the one read at the beginning.                                  *)
CancelSubscription(s) ==
  LET ev == Event(s) IN
  /\ Begun(s) /\ servers[s].resolved
  /\ ev.kind = "deleted"
  /\ Current(ev)
  /\ CommitSnapshot(s, Snapshot(ev, servers[s].plan, "canceled"))

(* A stale deletion changes nothing, but the limits are synchronized all   *)
(* the same: the entitlement is read ...                                   *)
CancelStale(s) ==
  /\ Begun(s) /\ servers[s].resolved
  /\ Event(s).kind = "deleted"
  /\ ~Current(Event(s))
  /\ servers' = [servers EXCEPT ![s].pc = "sync",
                                ![s].entitled = Entitlement(billing)]
  /\ UNCHANGED <<orgVars, checkoutVars, stripeVars, acked, faults>>

(* ... and written, in the first commit. *)
SyncStale(s) ==
  /\ servers[s].pc = "sync"
  /\ limits' = servers[s].entitled
  /\ events' = [events EXCEPT ![servers[s].event] = "pending"]
  /\ servers' = [servers EXCEPT ![s].pc = "finish"]
  /\ UNCHANGED <<billing, audited, applications, checkoutVars, stripeVars,
                 acked, faults>>

(* The second commit. *)
FinishEvent(s) ==
  /\ servers[s].pc = "finish"
  /\ Close(s, "processed", 1)

(* A database error: what is not committed rolls back, the event row is    *)
(* marked failed if there is one, and the answer is 500.                   *)
InternalError(s) ==
  /\ servers[s].pc \in {"begun", "sync", "finish"}
  /\ faults < MaxFaults
  /\ faults' = faults + 1
  /\ events' = [events EXCEPT ![servers[s].event] =
                  IF @ = "absent" THEN @ ELSE "failed"]
  /\ servers' = [servers EXCEPT ![s] = IdleServer]
  /\ UNCHANGED <<billing, limits, audited, applications, checkoutVars,
                 stripeVars, acked>>

Crash(s) ==
  /\ servers[s].pc # "idle"
  /\ faults < MaxFaults
  /\ faults' = faults + 1
  /\ servers' = [servers EXCEPT ![s] = IdleServer]
  /\ UNCHANGED <<orgVars, checkoutVars, stripeVars, acked>>

-----------------------------------------------------------------------------
(* Everything a server does with the delivery it has. *)
ServerStep(s) ==
  \/ IgnoreEvent(s)
  \/ DuplicateEvent(s)
  \/ NotResolvable(s)
  \/ NoteEvent(s)
  \/ ApplySubscription(s)
  \/ DiscardSubscription(s)
  \/ CancelSubscription(s)
  \/ CancelStale(s)
  \/ SyncStale(s)
  \/ FinishEvent(s)

Failure ==
  \/ \E s \in Servers : InternalError(s) \/ Crash(s)
  \/ \E a \in Admins : CheckoutFails(a)

CheckoutStep ==
  \E a \in Admins :
    \/ \E p \in Plans : StartCheckout(a, p)
    \/ GetOrCreateCustomer(a)
    \/ CommitCheckout(a)

StripeStep ==
  \/ \E x \in sessions : CompleteCheckout(x[1], x[2])
  \/ \E i \in DOMAIN subs :
       \/ \E p \in Plans \cup {Unmapped}, t \in Statuses :
            ChangeSubscription(i, p, t)
       \/ EndSubscription(i)
       \/ \E kind \in OtherKinds : OtherEvent(i, kind)
  \/ StrangerEvent
  \/ Tick

BillingNext ==
  \/ \E s \in Servers, e \in DOMAIN log : Receive(s, e)
  \/ \E s \in Servers : ServerStep(s)
  \/ CheckoutStep
  \/ StripeStep
  \/ Failure

BillingSpec == BillingInit /\ [][BillingNext]_billingVars

(* A server works on what it has accepted, and Stripe delivers an event    *)
(* again and again until it is answered with 200.                          *)
BillingFairness ==
  /\ \A s \in Servers : WF_billingVars(ServerStep(s))
  /\ \A e \in EventId :
       SF_billingVars(/\ e \in DOMAIN log
                      /\ e \notin acked
                      /\ \E s \in Servers : Receive(s, e))

BillingLiveSpec == BillingSpec /\ BillingFairness

-----------------------------------------------------------------------------
(* plans.py: the enforced ceilings are those of the resolved entitlement,  *)
(* in every committed state and whatever fails halfway.                    *)
LimitsMatchBilling == limits = Entitlement(billing)

(* A redelivery is acknowledged, not applied again: no event is audited    *)
(* twice or written to the billing row twice, whatever is retried.         *)
EventsApplyOnce ==
  \A e \in EventId : audited[e] <= 1 /\ applications[e] <= 1

Applied == {e \in EventId : applications[e] > 0}

(* The billing row says what event e said; a deletion keeps the plan. *)
SaidBy(e) ==
  /\ billing.lastAt = log[e].at
  /\ billing.sub = log[e].sub
  /\ billing.status = log[e].status
  /\ log[e].kind # "deleted" => billing.plan = log[e].plan

(* The billing row is what one event said, and none of the events that     *)
(* were applied before or after it is of a later second: no order of       *)
(* deliveries rolls the subscription back.                                 *)
ReflectsNewestSecond ==
  Applied # {} =>
    \E e \in Applied :
      /\ SaidBy(e)
      /\ \A d \in Applied : log[d].at <= log[e].at

(* audit.py and repository.py: an entitlement change and its audit row     *)
(* land together - when nobody is handling an event any more, it was       *)
(* audited if it was applied.                                              *)
AuditedWithItsEffect ==
  \A e \in Applied :
    (\A s \in Servers : servers[s].pc = "idle" \/ servers[s].event # e)
      => audited[e] = 1

(* stripe_gateway.py: an organization has exactly one Stripe customer: the *)
(* sessions it is handed are all of that one.                              *)
OneCustomer == Cardinality(served) <= 1

(* The events of the organization's customer that say something. *)
Binding ==
  {e \in DOMAIN log :
     /\ log[e].kind \in {"created", "updated", "deleted"}
     /\ log[e].kind = "deleted" \/ log[e].plan \in Plans
     /\ Resolves(log[e])}

(* Every subscription event of the organization's customer takes effect or *)
(* is overtaken by a later one, although deliveries fail and are repeated: *)
(* no error path tells Stripe that an event was taken when it was not.     *)
EventsTakeEffect ==
  \A e \in EventId :
    e \in Binding ~> e \in {d \in DOMAIN log : log[d].at <= billing.lastAt}
=============================================================================
