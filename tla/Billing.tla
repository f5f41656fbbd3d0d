------------------------------- MODULE Billing -------------------------------
(***************************************************************************)
(* Subscriptions of the OfferLeaks API (services/billing_service.py):      *)
(* checkout and cancellation requests, the webhook handler, the tables it  *)
(* keeps (subscriptions, webhook_events, usage_ledger) and the credits it  *)
(* grants.  Razorpay, the payment provider, is external: it charges        *)
(* customers and delivers each webhook at least once, in any order, until  *)
(* it is answered with a 2xx.                                              *)
(*                                                                         *)
(* Requests and webhook handlers load the subscription row without a lock, *)
(* and write later what they then believe has changed: an UPDATE of the    *)
(* ORM names only the columns whose value differs from the loaded one.     *)
(* Plan and period columns are left out, and so is the period key taken    *)
(* from the dates: Razorpay sends paid_count with every cycle.             *)
(***************************************************************************)
EXTENDS Integers, FiniteSets

CONSTANTS
  Users,        \* account holders
  Subs,         \* subscription ids of Razorpay
  None,         \* no row, NULL, nothing in hand
  Requests,     \* API requests in flight at the same time
  Handlers,     \* webhook deliveries handled at the same time
  MaxCycles,    \* total_count: cycles a subscription is charged for
  Creditless,   \* <<user, id>> of checkouts of a plan with monthly_credit_grant 0
  Unfunded      \* users without a credit_balances row

ASSUME BillingAssumption ==
  /\ None \notin Users \union Subs
  /\ MaxCycles \in Nat \ {0}
  /\ Creditless \subseteq Users \X Subs
  /\ Unfunded \subseteq Users

VARIABLES
  \* the subscriptions table: at most one row per user
  sub,          \* razorpay_subscription_id, None where there is no row
  status,       \* status, "none" where there is no row
  ending,       \* cancel_at_period_end
  \* the other tables
  recorded,     \* events with a row in webhook_events
  processed,    \* those with processed_at
  ledger,       \* usage_ledger: the (row of the) user and the period key
  granted,      \* credit grants caused by the events of each Razorpay id
  \* processes
  request,      \* where each API request stands, with what it has loaded
  handler,      \* the event each handler applies, with what it has loaded
  \* Razorpay
  customer,     \* who each of its subscriptions belongs to
  provider,     \* the state of each of its subscriptions
  paidCount,    \* cycles charged so far
  cancelling,   \* cancelled at the end of the cycle
  sent,         \* webhooks due
  acked         \* webhooks answered with a 2xx

subVars      == <<sub, status, ending>>
webhookVars  == <<recorded, processed, ledger, granted>>
providerVars == <<customer, provider, paidCount, cancelling>>
vars == <<subVars, webhookVars, request, handler, providerVars, sent, acked>>

-----------------------------------------------------------------------------
Status == {"none", "created", "active", "past_due", "canceled"}
Grants == {"activated", "charged"}
Ends == {"cancelled", "completed", "halted"}
Event == [type : Grants \union Ends \union {"pending"}, sub : Subs, count : 0..MaxCycles]
Idle == [stage |-> "idle"]
Request ==
  {Idle}
    \union [stage : {"subscribe"}, user : Users, loaded : Status, loadedEnding : BOOLEAN]
    \union [stage : {"subscribed"}, user : Users, loaded : Status, loadedEnding : BOOLEAN,
            sub : Subs]
    \union [stage : {"cancel", "cancelled"}, user : Users, sub : Subs, loadedEnding : BOOLEAN]
Handling == [event : Event, user : Users \union {None}, loaded : Status]
ProviderState == {"unknown", "created", "active", "pending", "halted", "cancelled", "completed"}

TypeOK ==
  /\ sub \in [Users -> Subs \union {None}]
  /\ status \in [Users -> Status]
  /\ ending \in [Users -> BOOLEAN]
  /\ recorded \subseteq Event
  /\ processed \subseteq recorded
  /\ ledger \subseteq Users \X (1..MaxCycles)
  /\ granted \in [Subs -> Nat]
  /\ request \in [Requests -> Request]
  /\ handler \in [Handlers -> Handling \union {None}]
  /\ customer \in [Subs -> Users \union {None}]
  /\ provider \in [Subs -> ProviderState]
  /\ paidCount \in [Subs -> 0..MaxCycles]
  /\ cancelling \in [Subs -> BOOLEAN]
  /\ sent \subseteq Event
  /\ acked \subseteq sent

Init ==
  /\ sub = [u \in Users |-> None]
  /\ status = [u \in Users |-> "none"]
  /\ ending = [u \in Users |-> FALSE]
  /\ recorded = {}
  /\ processed = {}
  /\ ledger = {}
  /\ granted = [r \in Subs |-> 0]
  /\ request = [q \in Requests |-> Idle]
  /\ handler = [h \in Handlers |-> None]
  /\ customer = [r \in Subs |-> None]
  /\ provider = [r \in Subs |-> "unknown"]
  /\ paidCount = [r \in Subs |-> 0]
  /\ cancelling = [r \in Subs |-> FALSE]
  /\ sent = {}
  /\ acked = {}

-----------------------------------------------------------------------------
(***************************************************************************)
(* The subscription row.                                                   *)
(***************************************************************************)

\* The value a column has after an UPDATE that assigns new to an attribute
\* that was loaded as old: unchanged attributes are not in the UPDATE.
Flushed(current, old, new) == IF new = old THEN current ELSE new

\* Mutation: every status but "canceled" entitles.
NotCanceled(u) == status[u] \notin {"none", "canceled"}

\* _ENTITLING_STATUSES: the paid plan is in effect.
Entitled(u) == status[u] \in {"active", "past_due"}

RequestGoes(q, to) == request' = [request EXCEPT ![q] = to]

-----------------------------------------------------------------------------
(***************************************************************************)
(* create_subscription.                                                    *)
(***************************************************************************)

\* Load the row; a user with a subscription in effect is refused.
Subscribe(q, u) ==
  /\ request[q] = Idle
  /\ ~Entitled(u)
  /\ RequestGoes(q, [stage |-> "subscribe", user |-> u, loaded |-> status[u],
                     loadedEnding |-> ending[u]])
  /\ UNCHANGED <<subVars, webhookVars, handler, providerVars, sent, acked>>

\* Razorpay creates the subscription.
CreateAtProvider(q, r) ==
  /\ request[q].stage = "subscribe"
  /\ customer[r] = None
  /\ customer' = [customer EXCEPT ![r] = request[q].user]
  /\ RequestGoes(q, [stage |-> "subscribed", user |-> request[q].user, sub |-> r,
                     loaded |-> request[q].loaded,
                     loadedEnding |-> request[q].loadedEnding])
  /\ UNCHANGED <<subVars, webhookVars, handler, provider, paidCount, cancelling, sent, acked>>

\* The row of the user is created, or taken over by the new subscription, and
\* the client may open the checkout.
CommitSubscription(q) ==
  LET u == request[q].user
      r == request[q].sub
  IN
  /\ request[q].stage = "subscribed"
  /\ \/ request[q].loaded # "none"
     \/ sub[u] = None                    \* uq_subscriptions_user_id
  /\ sub' = [sub EXCEPT ![u] = r]
  /\ status' = [status EXCEPT ![u] = Flushed(@, request[q].loaded, "created")]
  /\ ending' = [ending EXCEPT ![u] = Flushed(@, request[q].loadedEnding, FALSE)]
  /\ provider' = [provider EXCEPT ![r] = "created"]
  /\ RequestGoes(q, Idle)
  /\ UNCHANGED <<webhookVars, handler, customer, paidCount, cancelling, sent, acked>>

(***************************************************************************)
(* cancel_subscription.                                                    *)
(***************************************************************************)
Cancel(q, u) ==
  /\ request[q] = Idle
  /\ sub[u] # None
  /\ RequestGoes(q, [stage |-> "cancel", user |-> u, sub |-> sub[u],
                     loadedEnding |-> ending[u]])
  /\ UNCHANGED <<subVars, webhookVars, handler, providerVars, sent, acked>>

\* Razorpay ends the subscription with its current cycle.
CancelAtProvider(q) ==
  /\ request[q].stage = "cancel"
  /\ provider[request[q].sub] \in {"active", "pending"}
  /\ cancelling' = [cancelling EXCEPT ![request[q].sub] = TRUE]
  /\ RequestGoes(q, [request[q] EXCEPT !.stage = "cancelled"])
  /\ UNCHANGED <<subVars, webhookVars, handler, customer, provider, paidCount, sent, acked>>

\* status is assigned the value it was loaded with: it is not written.
CommitCancel(q) ==
  LET u == request[q].user IN
  /\ request[q].stage = "cancelled"
  /\ ending' = [ending EXCEPT ![u] = Flushed(@, request[q].loadedEnding, TRUE)]
  /\ RequestGoes(q, Idle)
  /\ UNCHANGED <<sub, status, webhookVars, handler, providerVars, sent, acked>>

\* Razorpay refuses, its answer is lost, the insert meets another row of the
\* user, or the process stops: nothing is written.
RequestFails(q) ==
  /\ request[q] # Idle
  /\ RequestGoes(q, Idle)
  /\ UNCHANGED <<subVars, webhookVars, handler, providerVars, sent, acked>>

-----------------------------------------------------------------------------
(***************************************************************************)
(* Razorpay.                                                               *)
(***************************************************************************)
Webhook(t, r, n) == [type |-> t, sub |-> r, count |-> n]

ProviderMoves(r, from, to) ==
  /\ provider[r] \in from
  /\ provider' = [provider EXCEPT ![r] = to]

\* The customer completes the checkout: the first cycle is charged.
FirstCharge(r) ==
  /\ ProviderMoves(r, {"created"}, "active")
  /\ paidCount' = [paidCount EXCEPT ![r] = 1]
  /\ sent' = sent \union {Webhook("activated", r, 1), Webhook("charged", r, 1)}
  /\ UNCHANGED <<subVars, webhookVars, request, handler, customer, cancelling, acked>>

Renewal(r) ==
  /\ ProviderMoves(r, {"active", "pending"}, "active")
  /\ ~cancelling[r]
  /\ paidCount[r] < MaxCycles
  /\ paidCount' = [paidCount EXCEPT ![r] = @ + 1]
  /\ sent' = sent \union {Webhook("charged", r, paidCount[r] + 1)}
  /\ UNCHANGED <<subVars, webhookVars, request, handler, customer, cancelling, acked>>

\* A renewal fails, and is tried again until the subscription is halted.
RenewalFails(r) ==
  /\ \/ /\ ProviderMoves(r, {"active"}, "pending")
        /\ sent' = sent \union {Webhook("pending", r, paidCount[r])}
     \/ /\ ProviderMoves(r, {"pending"}, "halted")
        /\ sent' = sent \union {Webhook("halted", r, paidCount[r])}
  /\ ~cancelling[r]
  /\ UNCHANGED <<subVars, webhookVars, request, handler, customer, paidCount, cancelling, acked>>

\* The last cycle is over, or the one it was cancelled in.
SubscriptionEnds(r) ==
  /\ \/ /\ cancelling[r]
        /\ ProviderMoves(r, {"active", "pending"}, "cancelled")
        /\ sent' = sent \union {Webhook("cancelled", r, paidCount[r])}
     \/ /\ ~cancelling[r]
        /\ paidCount[r] = MaxCycles
        /\ ProviderMoves(r, {"active"}, "completed")
        /\ sent' = sent \union {Webhook("completed", r, paidCount[r])}
  /\ UNCHANGED <<subVars, webhookVars, request, handler, customer, paidCount, cancelling, acked>>

-----------------------------------------------------------------------------
(***************************************************************************)
(* The webhook handler.                                                    *)
(***************************************************************************)
HandlerDone(h) == handler' = [handler EXCEPT ![h] = None]

InHand(e) == \E h \in Handlers : handler[h] # None /\ handler[h].event = e

\* Mutation: an event whose row is not yet committed counts as handled.
RecordedOrInHand(e) == e \in recorded \/ InHand(e)

\* Mutation: the id of an event has no created_at.
SameTypeRecorded(e) == \E d \in recorded : d.sub = e.sub /\ d.type = e.type

\* record_once meets the unique (provider, provider_event_id).
IsDuplicate(e) == e \in recorded

\* The user whose row has the Razorpay id, None if there is none.
UserOf(r) ==
  IF \E u \in Users : sub[u] = r THEN CHOOSE u \in Users : sub[u] = r ELSE None

\* The event is inserted and the row loaded.  An insert of the same event by
\* another handler waits until this one commits or rolls back.
ReceiveWebhook(h, e) ==
  /\ handler[h] = None
  /\ e \in sent
  /\ ~IsDuplicate(e)
  /\ ~InHand(e)
  /\ LET u == UserOf(e.sub) IN
       handler' = [handler EXCEPT ![h] =
                     [event |-> e, user |-> u,
                      loaded |-> IF u = None THEN "none" ELSE status[u]]]
  /\ UNCHANGED <<subVars, webhookVars, request, providerVars, sent, acked>>

\* A replay is answered with a 2xx and changes nothing.
ReceiveDuplicate(h, e) ==
  /\ handler[h] = None
  /\ e \in sent
  /\ IsDuplicate(e)
  /\ acked' = acked \union {e}
  /\ UNCHANGED <<subVars, webhookVars, request, handler, providerVars, sent>>

\* update_status of the loaded row.
UpdateStatus(h, new) ==
  /\ status' = [status EXCEPT ![handler[h].user] = Flushed(@, handler[h].loaded, new)]
  /\ UNCHANGED <<sub, ending>>

\* Mutation: no row of the ledger is ever in the way.
NoLedger(u, e) == <<u, e.sub>> \notin Creditless

\* Mutation: the first cycle was granted when the subscription was created.
RenewalsOnly(u, e) ==
  <<u, e.sub>> \notin Creditless /\ e.count > 1 /\ <<u, e.count>> \notin ledger

\* _grant_period_credits: a plan without credits grants none, and others one per
\* period, by the unique (subscription_id, period_key) of record_grant_once.
FirstGrant(u, e) == <<u, e.sub>> \notin Creditless /\ <<u, e.count>> \notin ledger

\* Mutation: the row of the event stays behind in its savepoint.
ProcessOnly(h) ==
  LET e == handler[h].event IN
  /\ processed' = processed \union {e}
  /\ acked' = acked \union {e}
  /\ HandlerDone(h)
  /\ UNCHANGED <<recorded, request, providerVars, sent>>

\* The transaction of the event commits, processed, and is answered with a
\* 2xx; if that is lost or late, Razorpay delivers the event once more, which
\* it may do anyway.
Finish(h) ==
  LET e == handler[h].event IN
  /\ recorded' = recorded \union {e}
  /\ processed' = processed \union {e}
  /\ acked' = acked \union {e}
  /\ HandlerDone(h)
  /\ UNCHANGED <<request, providerVars, sent>>

\* An event of a Razorpay id that no row has: recorded, and ignored.
IgnoreUnknown(h) ==
  /\ handler[h] # None
  /\ handler[h].user = None
  /\ Finish(h)
  /\ UNCHANGED <<subVars, ledger, granted>>

\* subscription.activated and subscription.charged.
ApplyPayment(h) ==
  LET e == handler[h].event
      u == handler[h].user
  IN
  /\ handler[h] # None
  /\ u # None
  /\ e.type \in Grants
  /\ u \in Unfunded => ~FirstGrant(u, e)
  /\ UpdateStatus(h, "active")
  /\ IF FirstGrant(u, e)
     THEN /\ ledger' = ledger \union {<<u, e.count>>}
          /\ granted' = [granted EXCEPT ![e.sub] = @ + 1]
     ELSE UNCHANGED <<ledger, granted>>
  /\ Finish(h)

\* add_balance finds no row and raises; the except block commits what was
\* written so far, and the delivery is answered with a 500.
GrantRaises(h) ==
  LET e == handler[h].event
      u == handler[h].user
  IN
  /\ handler[h] # None
  /\ e.type \in Grants
  /\ u \in Unfunded
  /\ FirstGrant(u, e)
  /\ UpdateStatus(h, "active")
  /\ ledger' = ledger \union {<<u, e.count>>}
  /\ recorded' = recorded \union {e}
  /\ HandlerDone(h)
  /\ UNCHANGED <<processed, granted, request, providerVars, sent, acked>>

\* subscription.pending, and the three events that end a subscription.
ApplyOther(h) ==
  /\ handler[h] # None
  /\ handler[h].user # None
  /\ \/ handler[h].event.type = "pending" /\ UpdateStatus(h, "past_due")
     \/ handler[h].event.type \in Ends /\ UpdateStatus(h, "canceled")
  /\ Finish(h)
  /\ UNCHANGED <<ledger, granted>>

\* The process stops before its commit; Razorpay has no answer.
HandlerCrash(h) ==
  /\ handler[h] # None
  /\ HandlerDone(h)
  /\ UNCHANGED <<subVars, webhookVars, request, providerVars, sent, acked>>

Apply(h) == IgnoreUnknown(h) \/ ApplyPayment(h) \/ GrantRaises(h) \/ ApplyOther(h)

-----------------------------------------------------------------------------
RequestNext(q) ==
  \/ \E u \in Users : Subscribe(q, u) \/ Cancel(q, u)
  \/ \E r \in Subs : CreateAtProvider(q, r)
  \/ CommitSubscription(q)
  \/ CancelAtProvider(q)
  \/ CommitCancel(q)
  \/ RequestFails(q)

ProviderNext(r) == FirstCharge(r) \/ Renewal(r) \/ RenewalFails(r) \/ SubscriptionEnds(r)

Deliver(h, e) == ReceiveWebhook(h, e) \/ ReceiveDuplicate(h, e)

Next ==
  \/ \E q \in Requests : RequestNext(q)
  \/ \E r \in Subs : ProviderNext(r)
  \/ \E h \in Handlers : Apply(h) \/ HandlerCrash(h) \/ \E e \in sent : Deliver(h, e)

Spec == Init /\ [][Next]_vars

(***************************************************************************)
(* Fairness: Razorpay delivers webhooks until they are acknowledged, and   *)
(* handlers do not crash for ever.  Nothing is assumed of the order or of  *)
(* any single event: an event leaves the competition once it is processed. *)
(***************************************************************************)
Fairness ==
  /\ SF_vars(\E h \in Handlers : \E e \in sent \ acked : Deliver(h, e))
  /\ SF_vars(\E h \in Handlers : Apply(h))

FairSpec == Spec /\ Fairness

-----------------------------------------------------------------------------
(***************************************************************************)
(* Properties.                                                             *)
(***************************************************************************)

\* However webhooks are repeated, reordered or handled at the same time, a
\* subscription is granted no more credits than it paid cycles for, although
\* two events announce its first cycle.
NeverMoreThanPaid == \A r \in Subs : granted[r] <= paidCount[r]

\* A webhook is answered with a 2xx only when its effects are committed: a
\* crash of the handler never loses an event Razorpay will not send again.
AcknowledgedIsProcessed == acked \subseteq processed

\* Nobody has the paid plan who never paid for it.
EntitledHasPaid ==
  \A u \in Users : Entitled(u) => \E r \in Subs : customer[r] = u /\ paidCount[r] > 0

\* A charge that was applied has its row in the ledger of the user whose
\* subscription it is, by the charge itself or by an earlier event of the
\* same period: unless its plan has no credits, a grant is skipped only where
\* one was recorded.
AppliedChargeIsLedgered ==
  \A u \in Users, e \in processed :
    e.type = "charged" /\ e.sub = sub[u] /\ <<u, e.sub>> \notin Creditless =>
      <<u, e.count>> \in ledger

\* Every webhook is eventually recorded, and applied if its user's credits
\* can be granted, however often it is delivered and handlers crash.
EveryEventIsApplied ==
  \A e \in Event :
    e \in sent ~>
      /\ e \in recorded
      /\ customer[e.sub] \in Unfunded \/ e \in processed

(***************************************************************************)
(* What comments of the code say and the code does not do.                 *)
(***************************************************************************)

\* Plan: "Credits granted once per billing period"; billing_service.py: "a grant
\* still only fires once per distinct period".  For a user who has a balance
\* and a plan with credits, every charge of the subscription that was applied
\* granted its credits.
PaidPeriodIsGranted ==
  \A u \in Users \ Unfunded, r \in Subs :
    sub[u] = r /\ <<u, r>> \notin Creditless =>
      Cardinality({e \in processed : e.type = "charged" /\ e.sub = r}) <= granted[r]
=============================================================================
