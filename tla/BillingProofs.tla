---------------------------- MODULE BillingProofs ----------------------------
(***************************************************************************)
(* Theorems about Billing, for any number of users, subscriptions, cycles, *)
(* requests and handlers.                                                  *)
(***************************************************************************)
EXTENDS Billing, FiniteSetTheorems, TLAPS

-----------------------------------------------------------------------------
(***************************************************************************)
(* The inductive invariant.                                                *)
(***************************************************************************)

\* A subscription belongs to one user, in Razorpay, in the row that has its id,
\* in the request that creates it and in the handlers of its events.
RowsAreOwned ==
  /\ \A u \in Users : sub[u] # None => customer[sub[u]] = u
  /\ \A q \in Requests :
       request[q].stage = "subscribed" =>
         /\ customer[request[q].sub] = request[q].user
         /\ provider[request[q].sub] = "unknown"
  /\ \A p, q \in Requests :
       request[p].stage = "subscribed" /\ request[q].stage = "subscribed" /\ p # q =>
         request[p].sub # request[q].sub
  /\ \A r \in Subs : customer[r] = None => provider[r] = "unknown"

\* The event in a handler was sent; its user is the customer, and a handler
\* that found no row will find none later.
HandlersAreRight ==
  \A h \in Handlers :
    handler[h] # None =>
      /\ handler[h].event \in sent
      /\ handler[h].user # None => customer[handler[h].event.sub] = handler[h].user
      /\ handler[h].user = None => \A u \in Users : sub[u] # handler[h].event.sub

\* Only subscriptions that have been paid for have events.
CyclesArePaid ==
  /\ \A r \in Subs :
       IF provider[r] \in {"unknown", "created"} THEN paidCount[r] = 0 ELSE paidCount[r] > 0
  /\ \A e \in sent : e.count \in 1..paidCount[e.sub]
  /\ processed \subseteq sent

\* The paid cycles of r in the ledger of its customer.
Ledgered(r) == {n \in 1..paidCount[r] : <<customer[r], n>> \in ledger}

\* Every grant has a paid cycle of its own in the ledger.
GrantsAreLedgered ==
  \A r \in Subs :
    /\ customer[r] = None => granted[r] = 0
    /\ granted[r] <= Cardinality(Ledgered(r))

BillingInv ==
  /\ TypeOK
  /\ RowsAreOwned
  /\ HandlersAreRight
  /\ CyclesArePaid
  /\ GrantsAreLedgered
  /\ EntitledHasPaid
  /\ AppliedChargeIsLedgered

-----------------------------------------------------------------------------
LEMMA BillingInit == Init => BillingInv
<1> SUFFICES ASSUME Init
             PROVE  BillingInv
  OBVIOUS
<1>1. TypeOK /\ RowsAreOwned /\ HandlersAreRight /\ CyclesArePaid
  BY BillingAssumption
  DEF Init, TypeOK, RowsAreOwned, HandlersAreRight, CyclesArePaid, Status, Request, Idle,
      ProviderState
<1>2. \A r \in Subs : Ledgered(r) = {}
  BY DEF Init, Ledgered
<1>3. GrantsAreLedgered
  BY <1>2, FS_EmptySet DEF Init, GrantsAreLedgered
<1>4. EntitledHasPaid /\ AppliedChargeIsLedgered
  BY DEF Init, EntitledHasPaid, Entitled, AppliedChargeIsLedgered
<1> QED
  BY <1>1, <1>3, <1>4 DEF BillingInv

\* The cycles of a subscription in the ledger: finitely many, and more of them
\* in a larger set.
LEMMA SetsOfCycles ==
  ASSUME NEW n \in Nat
  PROVE  /\ \A S \in SUBSET (1..n) : IsFiniteSet(S) /\ Cardinality(S) \in 0..n
         /\ \A S, T \in SUBSET (1..n) : S \subseteq T => Cardinality(S) <= Cardinality(T)
<1>1. IsFiniteSet(1..n) /\ Cardinality(1..n) = n
  BY FS_Interval
<1>2. ASSUME NEW S \in SUBSET (1..n)
      PROVE  IsFiniteSet(S) /\ Cardinality(S) \in 0..n
  <2>1. IsFiniteSet(S) /\ Cardinality(S) <= Cardinality(1..n)
    BY <1>1, FS_Subset
  <2>2. Cardinality(S) \in Nat
    BY <2>1, FS_CardinalityType
  <2> QED
    BY <1>1, <2>1, <2>2
<1>3. ASSUME NEW S \in SUBSET (1..n), NEW T \in SUBSET (1..n), S \subseteq T
      PROVE  Cardinality(S) <= Cardinality(T)
  BY <1>2, <1>3, FS_Subset
<1> QED
  BY <1>2, <1>3

\* More cycles paid and more rows in the ledger keep the grants covered.
LEMMA LedgeredGrows ==
  ASSUME TypeOK, TypeOK', NEW r \in Subs, customer'[r] = customer[r],
         paidCount[r] <= paidCount'[r], ledger \subseteq ledger'
  PROVE  /\ Cardinality(Ledgered(r)) \in Nat
         /\ Cardinality(Ledgered(r)') \in Nat
         /\ Cardinality(Ledgered(r)) <= Cardinality(Ledgered(r)')
<1>1. paidCount[r] \in Nat /\ paidCount'[r] \in Nat
  BY BillingAssumption DEF TypeOK
<1>2. Ledgered(r) \in SUBSET (1..paidCount'[r]) /\ Ledgered(r)' \in SUBSET (1..paidCount'[r])
  BY <1>1 DEF Ledgered
<1>3. Ledgered(r) \subseteq Ledgered(r)'
  BY <1>1 DEF Ledgered
<1> QED
  BY <1>1, <1>2, <1>3, SetsOfCycles

LEMMA RequestFields ==
  ASSUME TypeOK, NEW q \in Requests
  PROVE  /\ request[q].stage = "subscribe" =>
              request[q].user \in Users /\ request[q].loaded \in Status
                /\ request[q].loadedEnding \in BOOLEAN
         /\ request[q].stage = "subscribed" =>
              request[q].user \in Users /\ request[q].sub \in Subs
                /\ request[q].loaded \in Status /\ request[q].loadedEnding \in BOOLEAN
         /\ request[q].stage \in {"cancel", "cancelled"} =>
              request[q].user \in Users /\ request[q].sub \in Subs
                /\ request[q].loadedEnding \in BOOLEAN
  BY DEF TypeOK, Request, Idle

LEMMA RequestType ==
  ASSUME BillingInv, NEW q \in Requests, RequestNext(q)
  PROVE  TypeOK'
<1> USE DEF BillingInv, TypeOK, RequestGoes, subVars, webhookVars, providerVars
<1>1. ASSUME NEW u \in Users, Subscribe(q, u)
      PROVE  TypeOK'
  BY <1>1 DEF Subscribe, Request
<1>2. ASSUME NEW u \in Users, Cancel(q, u)
      PROVE  TypeOK'
  BY <1>2 DEF Cancel, Request
<1>3. ASSUME NEW r \in Subs, CreateAtProvider(q, r)
      PROVE  TypeOK'
  BY <1>3, RequestFields DEF CreateAtProvider, Request
<1>4. CASE CommitSubscription(q)
  BY <1>4, RequestFields DEF CommitSubscription, Request, Flushed, Status, ProviderState
<1>5. CASE CancelAtProvider(q)
  <2>1. [request[q] EXCEPT !.stage = "cancelled"] \in Request
    BY <1>5, RequestFields DEF CancelAtProvider, Request, Idle
  <2> QED
    BY <1>5, <2>1, RequestFields DEF CancelAtProvider
<1>6. CASE CommitCancel(q)
  BY <1>6, RequestFields DEF CommitCancel, Request, Flushed
<1>7. CASE RequestFails(q)
  BY <1>7 DEF RequestFails, Request
<1> QED
  BY <1>1, <1>2, <1>3, <1>4, <1>5, <1>6, <1>7 DEF RequestNext

LEMMA ProviderType ==
  ASSUME BillingInv, NEW r \in Subs, ProviderNext(r)
  PROVE  TypeOK' /\ sent \subseteq sent'
<1> USE BillingAssumption
    DEF BillingInv, TypeOK, ProviderMoves, ProviderState, Webhook, Event, Grants, Ends,
        subVars, webhookVars
<1>1. CASE FirstCharge(r)
  BY <1>1 DEF FirstCharge
<1>2. CASE Renewal(r)
  BY <1>2 DEF Renewal
<1>3. CASE RenewalFails(r)
  BY <1>3 DEF RenewalFails
<1>4. CASE SubscriptionEnds(r)
  BY <1>4 DEF SubscriptionEnds
<1> QED
  BY <1>1, <1>2, <1>3, <1>4 DEF ProviderNext

LEMMA HandlerFields ==
  ASSUME BillingInv, NEW h \in Handlers, handler[h] # None
  PROVE  /\ handler[h].event \in sent
         /\ handler[h].event \in Event
         /\ handler[h].event.sub \in Subs
         /\ handler[h].event.count \in 1..paidCount[handler[h].event.sub]
         /\ handler[h].event.count \in 1..MaxCycles
         /\ handler[h].user \in Users \union {None}
         /\ handler[h].loaded \in Status
<1>1. handler[h] \in Handling
  BY DEF BillingInv, TypeOK
<1>2. /\ handler[h].event \in Event /\ handler[h].event.sub \in Subs
      /\ handler[h].user \in Users \union {None} /\ handler[h].loaded \in Status
  BY <1>1 DEF Handling, Event
<1>3. handler[h].event \in sent
  BY DEF BillingInv, HandlersAreRight
<1>4. handler[h].event.count \in 1..paidCount[handler[h].event.sub]
  BY <1>3 DEF BillingInv, CyclesArePaid
<1>5. paidCount[handler[h].event.sub] \in 0..MaxCycles
  BY <1>2 DEF BillingInv, TypeOK
<1> QED
  BY <1>2, <1>3, <1>4, <1>5, BillingAssumption

LEMMA HandlerType ==
  ASSUME BillingInv, NEW h \in Handlers,
         \/ Apply(h)
         \/ HandlerCrash(h)
         \/ \E e \in sent : Deliver(h, e)
  PROVE  TypeOK'
<1> USE DEF BillingInv, TypeOK, HandlerDone, UpdateStatus, subVars, webhookVars, providerVars
<1>1. CASE IgnoreUnknown(h)
  BY <1>1, HandlerFields DEF IgnoreUnknown, Finish
<1>2. CASE ApplyPayment(h)
  <2>1. handler[h] # None /\ handler[h].user \in Users
    BY <1>2, HandlerFields DEF ApplyPayment
  <2>2. status' \in [Users -> Status]
    BY <1>2, <2>1 DEF ApplyPayment, Flushed, Status
  <2>3. ledger' \subseteq Users \X (1..MaxCycles) /\ granted' \in [Subs -> Nat]
    BY <1>2, <2>1, HandlerFields DEF ApplyPayment
  <2>4. /\ recorded' \subseteq Event /\ processed' \subseteq recorded' /\ acked' \subseteq sent'
        /\ handler' \in [Handlers -> Handling \union {None}]
    BY <1>2, <2>1, HandlerFields DEF ApplyPayment, Finish
  <2> QED
    BY <1>2, <2>2, <2>3, <2>4 DEF ApplyPayment, Finish
<1>3. CASE GrantRaises(h)
  <2>1. handler[h] # None /\ handler[h].user \in Users
    BY <1>3, BillingAssumption DEF GrantRaises
  <2>2. status' \in [Users -> Status]
    BY <1>3, <2>1 DEF GrantRaises, Flushed, Status
  <2>3. ledger' \subseteq Users \X (1..MaxCycles) /\ recorded' \subseteq Event
    BY <1>3, <2>1, HandlerFields DEF GrantRaises
  <2> QED
    BY <1>3, <2>2, <2>3 DEF GrantRaises
<1>4. CASE ApplyOther(h)
  <2>1. handler[h] # None /\ handler[h].user \in Users
    BY <1>4, HandlerFields DEF ApplyOther
  <2>2. status' \in [Users -> Status]
    BY <1>4, <2>1 DEF ApplyOther, Flushed, Status
  <2> QED
    BY <1>4, <2>1, <2>2, HandlerFields DEF ApplyOther, Finish
<1>5. CASE HandlerCrash(h)
  BY <1>5 DEF HandlerCrash
<1>6. ASSUME NEW e \in sent, ReceiveWebhook(h, e)
      PROVE  TypeOK'
  <2>1. UserOf(e.sub) \in Users \union {None}
    BY DEF UserOf
  <2>2. [event |-> e, user |-> UserOf(e.sub),
         loaded |-> IF UserOf(e.sub) = None THEN "none" ELSE status[UserOf(e.sub)]] \in Handling
    BY <2>1 DEF Handling, Status
  <2> QED
    BY <1>6, <2>2 DEF ReceiveWebhook
<1>7. ASSUME NEW e \in sent, ReceiveDuplicate(h, e)
      PROVE  TypeOK'
  BY <1>7 DEF ReceiveDuplicate
<1> QED
  BY <1>1, <1>2, <1>3, <1>4, <1>5, <1>6, <1>7 DEF Apply, Deliver

-----------------------------------------------------------------------------
(***************************************************************************)
(* Requests.                                                               *)
(***************************************************************************)

\* What a request does to rows and customers: it gives a new subscription its
\* customer, or the row of a user its new subscription.
LEMMA RequestEffects ==
  ASSUME BillingInv, NEW q \in Requests, RequestNext(q)
  PROVE  /\ UNCHANGED <<webhookVars, handler, paidCount, sent, acked>>
         /\ \A r \in Subs : customer[r] # None => customer'[r] = customer[r]
         /\ \A r \in Subs :
              provider'[r] # provider[r] => provider[r] = "unknown" /\ provider'[r] = "created"
         /\ \A u \in Users :
              sub'[u] # sub[u] =>
                /\ sub'[u] \in Subs
                /\ provider[sub'[u]] = "unknown"
                /\ provider'[sub'[u]] = "created"
                /\ customer[sub'[u]] = u
         /\ \A u \in Users : status'[u] # status[u] => status'[u] = "created"
<1> USE DEF BillingInv, TypeOK, RowsAreOwned, RequestGoes, subVars, webhookVars, providerVars
<1>1. CASE CommitSubscription(q)
  BY <1>1, RequestFields DEF CommitSubscription, Flushed
<1>2. ASSUME NEW r \in Subs, CreateAtProvider(q, r)
      PROVE  /\ UNCHANGED <<webhookVars, handler, paidCount, sent, acked, subVars, provider>>
             /\ \A s \in Subs : customer[s] # None => customer'[s] = customer[s]
  BY <1>2 DEF CreateAtProvider
<1>3. CASE ~CommitSubscription(q) /\ \A r \in Subs : ~CreateAtProvider(q, r)
  BY <1>3 DEF RequestNext, Subscribe, Cancel, CancelAtProvider, CommitCancel, RequestFails
<1> QED
  BY <1>1, <1>2, <1>3

LEMMA RequestOwned ==
  ASSUME BillingInv, NEW q \in Requests, RequestNext(q)
  PROVE  RowsAreOwned'
<1> USE DEF BillingInv, TypeOK, RowsAreOwned, RequestGoes, subVars, providerVars
<1>1. ASSUME NEW r \in Subs, CreateAtProvider(q, r)
      PROVE  RowsAreOwned'
  <2>1. /\ request[q].stage = "subscribe" /\ request[q].user \in Users
        /\ customer[r] = None
        /\ customer' = [customer EXCEPT ![r] = request[q].user]
        /\ sub' = sub /\ provider' = provider
        /\ request'[q].stage = "subscribed" /\ request'[q].sub = r
        /\ request'[q].user = request[q].user
        /\ \A p \in Requests : p # q => request'[p] = request[p]
    BY <1>1, RequestFields DEF CreateAtProvider
  <2>2. \A u \in Users : sub[u] # r
    BY <2>1, BillingAssumption
  <2>3. \A p \in Requests : request[p].stage = "subscribed" => request[p].sub # r
    BY <2>1, RequestFields, BillingAssumption
  <2>4. provider[r] = "unknown"
    BY <2>1
  <2> DEFINE Holds(p) == request[p].stage = "subscribed"
  <2>5. \A u \in Users : sub'[u] # None => customer'[sub'[u]] = u
    BY <2>1, <2>2
  <2>6. \A p \in Requests \ {q} :
          Holds(p) => customer'[request[p].sub] = customer[request[p].sub]
    BY <2>1, <2>3
  <2>7. \A p \in Requests :
          Holds(p)' => /\ customer'[request'[p].sub] = request'[p].user
                       /\ provider'[request'[p].sub] = "unknown"
    BY <2>1, <2>4, <2>6
  <2>8. \A p, n \in Requests :
          Holds(p)' /\ Holds(n)' /\ p # n => request'[p].sub # request'[n].sub
    BY <2>1, <2>3
  <2>9. \A s \in Subs : customer'[s] = None => provider'[s] = "unknown"
    BY <2>1
  <2> QED
    BY <2>5, <2>7, <2>8, <2>9
<1>2. CASE CommitSubscription(q)
  <2>1. /\ request[q].stage = "subscribed" /\ request[q].user \in Users
        /\ request[q].sub \in Subs
        /\ sub' = [sub EXCEPT ![request[q].user] = request[q].sub]
        /\ provider' = [provider EXCEPT ![request[q].sub] = "created"]
        /\ customer' = customer
        /\ request'[q].stage = "idle"
        /\ \A p \in Requests : p # q => request'[p] = request[p]
    BY <1>2, RequestFields DEF CommitSubscription, Idle
  <2>2. customer[request[q].sub] = request[q].user
    BY <2>1
  <2>3. \A u \in Users : sub'[u] # None => customer'[sub'[u]] = u
    BY <2>1, <2>2
  <2>4. \A p \in Requests :
          request[p].stage = "subscribed" /\ p # q => request[p].sub \in Subs \ {request[q].sub}
    BY <2>1, RequestFields
  <2>5. \A p \in Requests :
          request'[p].stage = "subscribed" =>
            /\ customer'[request'[p].sub] = request'[p].user
            /\ provider'[request'[p].sub] = "unknown"
    BY <2>1, <2>4
  <2>6. \A r \in Subs : customer'[r] = None => provider'[r] = "unknown"
    BY <2>1, <2>2, BillingAssumption
  <2> QED
    BY <2>1, <2>3, <2>5, <2>6
<1>3. CASE CancelAtProvider(q)
  <2>1. request'[q].stage = "cancelled"
    BY <1>3, RequestFields DEF CancelAtProvider, Request, Idle
  <2> QED
    BY <1>3, <2>1 DEF CancelAtProvider
<1>4. ASSUME NEW u \in Users, Subscribe(q, u) \/ Cancel(q, u)
      PROVE  RowsAreOwned'
  <2>1. /\ request'[q].stage \in {"subscribe", "cancel"}
        /\ \A p \in Requests : p # q => request'[p] = request[p]
        /\ UNCHANGED <<sub, customer, provider>>
    BY <1>4 DEF Subscribe, Cancel
  <2> QED
    BY <2>1
<1>5. CASE CommitCancel(q) \/ RequestFails(q)
  <2>1. request' = [request EXCEPT ![q] = Idle] /\ UNCHANGED <<sub, customer, provider>>
    BY <1>5 DEF CommitCancel, RequestFails
  <2>2. /\ request'[q].stage = "idle"
        /\ \A p \in Requests : p # q => request'[p] = request[p]
    BY <2>1 DEF Idle
  <2> QED
    BY <2>1, <2>2
<1> QED
  BY <1>1, <1>2, <1>3, <1>4, <1>5 DEF RequestNext

LEMMA RequestStep ==
  ASSUME BillingInv, NEW q \in Requests, RequestNext(q)
  PROVE  BillingInv'
<1>1. TypeOK' /\ RowsAreOwned'
  BY RequestType, RequestOwned
<1>2. /\ RowsAreOwned /\ HandlersAreRight /\ CyclesArePaid /\ GrantsAreLedgered
      /\ EntitledHasPaid /\ AppliedChargeIsLedgered
  BY DEF BillingInv
<1>3. \A e \in sent : e.sub \in Subs /\ provider[e.sub] \notin {"unknown", "created"}
  BY DEF BillingInv, CyclesArePaid, TypeOK, Event
<1>4. HandlersAreRight'
  <2>1. \A h \in Handlers : handler[h] # None => handler[h].event \in sent
    BY <1>2 DEF HandlersAreRight
  <2>2. \A h \in Handlers :
          handler[h] # None => customer[handler[h].event.sub] # None
                                 /\ provider[handler[h].event.sub] # "unknown"
                                 /\ handler[h].event.sub \in Subs
    BY <1>2, <1>3, <2>1 DEF RowsAreOwned
  <2> QED
    BY <1>2, <2>1, <2>2, RequestEffects DEF HandlersAreRight, webhookVars
<1>5. CyclesArePaid'
  BY <1>2, <1>3, RequestEffects DEF CyclesArePaid, webhookVars
<1>6. GrantsAreLedgered'
  <2>1. ASSUME NEW r \in Subs, customer[r] # None
        PROVE  granted'[r] <= Cardinality(Ledgered(r)') /\ customer'[r] # None
    <3>1. customer'[r] = customer[r] /\ paidCount' = paidCount
          /\ ledger' = ledger /\ granted' = granted
      BY <2>1, RequestEffects DEF webhookVars
    <3>2. Ledgered(r)' = Ledgered(r)
      BY <3>1 DEF Ledgered
    <3> QED
      BY <1>2, <2>1, <3>1, <3>2 DEF GrantsAreLedgered
  <2>2. ASSUME NEW r \in Subs, customer[r] = None
        PROVE  granted'[r] = 0 /\ granted'[r] <= Cardinality(Ledgered(r)')
    <3>1. granted'[r] = 0
      BY <1>2, <2>2, RequestEffects DEF webhookVars, GrantsAreLedgered
    <3>2. paidCount'[r] \in Nat
      BY <1>1, BillingAssumption DEF TypeOK
    <3>3. Ledgered(r)' \in SUBSET (1..paidCount'[r])
      BY DEF Ledgered
    <3>4. Cardinality(Ledgered(r)') \in 0..paidCount'[r]
      BY <3>2, <3>3, SetsOfCycles
    <3> QED
      BY <3>1, <3>2, <3>4
  <2> QED
    BY <2>1, <2>2 DEF GrantsAreLedgered
<1>7. EntitledHasPaid'
  <2>1. ASSUME NEW u \in Users, Entitled(u)'
        PROVE  \E r \in Subs : customer'[r] = u /\ paidCount'[r] > 0
    <3>1. Entitled(u)
      BY <2>1, RequestEffects DEF Entitled
    <3>2. PICK r \in Subs : customer[r] = u /\ paidCount[r] > 0
      BY <1>2, <3>1 DEF EntitledHasPaid
    <3> QED
      BY <3>2, BillingAssumption, RequestEffects
  <2> QED
    BY <2>1 DEF EntitledHasPaid
<1>8. AppliedChargeIsLedgered'
  <2>1. \A e \in processed : e.sub \in Subs /\ provider[e.sub] # "unknown"
    BY <1>2, <1>3 DEF CyclesArePaid
  <2>2. \A u \in Users, e \in processed : e.sub = sub'[u] => e.sub = sub[u]
    BY <2>1, RequestEffects
  <2> QED
    BY <1>2, <2>2, RequestEffects DEF AppliedChargeIsLedgered, webhookVars
<1> QED
  BY <1>1, <1>4, <1>5, <1>6, <1>7, <1>8 DEF BillingInv

-----------------------------------------------------------------------------
(***************************************************************************)
(* Razorpay.                                                               *)
(***************************************************************************)

\* Cycles are only added, and what is sent is of a paid subscription.
LEMMA ProviderEffects ==
  ASSUME BillingInv, NEW r \in Subs, ProviderNext(r)
  PROVE  /\ UNCHANGED <<subVars, webhookVars, request, handler, customer, acked>>
         /\ \A s \in Subs : provider[s] = "unknown" <=> provider'[s] = "unknown"
         /\ \A s \in Subs : paidCount[s] <= paidCount'[s]
         /\ \A s \in Subs :
              provider'[s] # provider[s] =>
                provider'[s] \notin {"unknown", "created"} /\ paidCount'[s] > 0
         /\ sent \subseteq sent'
         /\ \A e \in sent' \ sent : e.sub = r /\ e.count = paidCount'[r] /\ e.count > 0
<1> USE BillingAssumption
    DEF BillingInv, TypeOK, CyclesArePaid, ProviderMoves, Webhook, subVars, webhookVars
<1>1. CASE FirstCharge(r)
  BY <1>1 DEF FirstCharge
<1>2. CASE Renewal(r)
  BY <1>2 DEF Renewal
<1>3. CASE RenewalFails(r)
  BY <1>3 DEF RenewalFails
<1>4. CASE SubscriptionEnds(r)
  BY <1>4 DEF SubscriptionEnds
<1> QED
  BY <1>1, <1>2, <1>3, <1>4 DEF ProviderNext

LEMMA ProviderStep ==
  ASSUME BillingInv, NEW r \in Subs, ProviderNext(r)
  PROVE  BillingInv'
<1>1. TypeOK' /\ sent \subseteq sent'
  BY ProviderType
<1>2. /\ TypeOK /\ RowsAreOwned /\ HandlersAreRight /\ CyclesArePaid /\ GrantsAreLedgered
      /\ EntitledHasPaid /\ AppliedChargeIsLedgered
  BY DEF BillingInv
<1>3. /\ UNCHANGED <<sub, status, processed, ledger, granted, request, handler, customer>>
      /\ \A s \in Subs : paidCount[s] <= paidCount'[s]
      /\ \A s \in Subs : paidCount[s] \in Nat /\ paidCount'[s] \in Nat
  BY <1>1, <1>2, ProviderEffects, BillingAssumption DEF subVars, webhookVars, TypeOK
<1>4. RowsAreOwned'
  <2>1. \A q \in Requests : request[q].stage = "subscribed" => request[q].sub \in Subs
    BY <1>2, RequestFields
  <2> QED
    BY <1>2, <1>3, <2>1, ProviderEffects DEF RowsAreOwned
<1>5. HandlersAreRight'
  BY <1>1, <1>2, <1>3 DEF HandlersAreRight
<1>6. CyclesArePaid'
  <2>1. \A e \in sent : e.sub \in Subs /\ e.count \in Nat
    BY <1>2, BillingAssumption DEF TypeOK, Event
  <2>2. \A e \in sent' : e.count \in 1..paidCount'[e.sub]
    BY <1>2, <1>3, <2>1, ProviderEffects DEF CyclesArePaid
  <2>3. \A s \in Subs :
          IF provider'[s] \in {"unknown", "created"} THEN paidCount'[s] = 0 ELSE paidCount'[s] > 0
    <3>1. ASSUME NEW s \in Subs, provider'[s] = provider[s], paidCount'[s] # paidCount[s]
          PROVE  provider[s] \notin {"unknown", "created"}
      BY <1>2, <3>1 DEF ProviderNext, FirstCharge, Renewal, RenewalFails, SubscriptionEnds,
                        ProviderMoves, TypeOK
    <3> QED
      BY <1>2, <1>3, <3>1, ProviderEffects DEF CyclesArePaid
  <2> QED
    BY <1>1, <1>2, <1>3, <2>2, <2>3 DEF CyclesArePaid
<1>7. GrantsAreLedgered'
  <2>1. ASSUME NEW s \in Subs
        PROVE  /\ customer'[s] = None => granted'[s] = 0
               /\ granted'[s] <= Cardinality(Ledgered(s)')
    <3>1. /\ Cardinality(Ledgered(s)) \in Nat
          /\ Cardinality(Ledgered(s)') \in Nat
          /\ Cardinality(Ledgered(s)) <= Cardinality(Ledgered(s)')
      BY <1>1, <1>2, <1>3, LedgeredGrows
    <3>2. granted[s] \in Nat
      BY <1>2 DEF TypeOK
    <3> QED
      BY <1>2, <1>3, <3>1, <3>2 DEF GrantsAreLedgered
  <2> QED
    BY <2>1 DEF GrantsAreLedgered
<1>8. EntitledHasPaid'
  <2>1. ASSUME NEW u \in Users, Entitled(u)'
        PROVE  \E s \in Subs : customer'[s] = u /\ paidCount'[s] > 0
    <3>1. PICK s \in Subs : customer[s] = u /\ paidCount[s] > 0
      BY <1>2, <1>3, <2>1 DEF EntitledHasPaid, Entitled
    <3> QED
      BY <1>3, <3>1
  <2> QED
    BY <2>1 DEF EntitledHasPaid
<1>9. AppliedChargeIsLedgered'
  BY <1>2, <1>3 DEF AppliedChargeIsLedgered
<1> QED
  BY <1>1, <1>4, <1>5, <1>6, <1>7, <1>8, <1>9 DEF BillingInv

-----------------------------------------------------------------------------
(***************************************************************************)
(* The webhook handler.                                                    *)
(***************************************************************************)

\* What a handler does to the row and the ledger: everything is done for the
\* customer of the subscription, and a grant has a new row in the ledger.
LEMMA HandlerEffects ==
  ASSUME BillingInv, NEW h \in Handlers, Apply(h)
  PROVE  LET e == handler[h].event
             u == handler[h].user
         IN  /\ handler[h] # None
             /\ UNCHANGED <<sub, request, providerVars, sent>>
             /\ handler' = [handler EXCEPT ![h] = None]
             /\ processed' \subseteq processed \union {e}
             /\ \A v \in Users :
                  status'[v] # status[v] => v = u /\ customer[e.sub] = v
             /\ \/ ledger' = ledger /\ granted' = granted
                \/ /\ u \in Users /\ customer[e.sub] = u
                   /\ <<u, e.count>> \notin ledger
                   /\ ledger' = ledger \union {<<u, e.count>>}
                   /\ \/ u \in Unfunded /\ granted' = granted
                      \/ granted' = [granted EXCEPT ![e.sub] = @ + 1]
             /\ e \in processed' /\ e.type = "charged" /\ e \notin processed =>
                  u = None \/ <<u, e.sub>> \in Creditless \/ <<u, e.count>> \in ledger'
<1> USE DEF HandlerDone, UpdateStatus, subVars, webhookVars, providerVars
<1>1. CASE IgnoreUnknown(h)
  BY <1>1 DEF IgnoreUnknown, Finish
<1>2. handler[h] # None => HandlersAreRight /\ TypeOK /\ handler[h].user \in Users \union {None}
  BY HandlerFields DEF BillingInv
<1>3. handler[h] # None /\ handler[h].user # None =>
        customer[handler[h].event.sub] = handler[h].user
  BY <1>2 DEF HandlersAreRight
<1>4. CASE ApplyPayment(h)
  BY <1>2, <1>3, <1>4 DEF ApplyPayment, Finish, FirstGrant, TypeOK
<1>5. CASE GrantRaises(h)
  BY <1>2, <1>3, <1>5, BillingAssumption DEF GrantRaises, FirstGrant, TypeOK
<1>6. CASE ApplyOther(h)
  BY <1>2, <1>3, <1>6 DEF ApplyOther, Finish, TypeOK, Ends
<1> QED
  BY <1>1, <1>4, <1>5, <1>6 DEF Apply

LEMMA ApplyStep ==
  ASSUME BillingInv, NEW h \in Handlers, Apply(h)
  PROVE  BillingInv'
<1> DEFINE e == handler[h].event
           u == handler[h].user
<1>1. TypeOK'
  BY HandlerType
<1>2. /\ TypeOK /\ RowsAreOwned /\ HandlersAreRight /\ CyclesArePaid /\ GrantsAreLedgered
      /\ EntitledHasPaid /\ AppliedChargeIsLedgered
  BY DEF BillingInv
<1>3. /\ handler[h] # None
      /\ UNCHANGED <<sub, request, customer, provider, paidCount, sent>>
      /\ handler' = [handler EXCEPT ![h] = None]
      /\ processed' \subseteq processed \union {e}
      /\ ledger \subseteq ledger'
  BY HandlerEffects DEF providerVars
<1>4. e \in sent /\ e.sub \in Subs /\ e.count \in 1..paidCount[e.sub]
  BY <1>3, HandlerFields
<1>5. /\ u \in Users \union {None}
      /\ u # None => customer[e.sub] = u
      /\ u = None => \A v \in Users : sub[v] # e.sub
  BY <1>2, <1>3, HandlerFields DEF HandlersAreRight
<1>6. /\ \A v \in Users : status'[v] # status[v] => v = u /\ customer[e.sub] = v
      /\ \/ ledger' = ledger /\ granted' = granted
         \/ /\ u \in Users /\ customer[e.sub] = u
            /\ <<u, e.count>> \notin ledger
            /\ ledger' = ledger \union {<<u, e.count>>}
            /\ \/ granted' = granted
               \/ granted' = [granted EXCEPT ![e.sub] = @ + 1]
      /\ e \in processed' /\ e.type = "charged" /\ e \notin processed =>
           u = None \/ <<u, e.sub>> \in Creditless \/ <<u, e.count>> \in ledger'
  BY HandlerEffects
<1> HIDE DEF e, u
<1>7. \A r \in Subs : paidCount[r] \in Nat /\ granted[r] \in Nat
  BY <1>2, BillingAssumption DEF TypeOK
<1>8. RowsAreOwned'
  BY <1>2, <1>3 DEF RowsAreOwned
<1>9. HandlersAreRight'
  BY <1>2, <1>3 DEF HandlersAreRight, TypeOK
<1>10. CyclesArePaid'
  BY <1>2, <1>3, <1>4 DEF CyclesArePaid
<1>11. GrantsAreLedgered'
  <2>1. ASSUME NEW r \in Subs
        PROVE  /\ customer'[r] = None => granted'[r] = 0
               /\ granted'[r] <= Cardinality(Ledgered(r)')
    <3>1. /\ Cardinality(Ledgered(r)) \in Nat
          /\ Cardinality(Ledgered(r)') \in Nat
          /\ Cardinality(Ledgered(r)) <= Cardinality(Ledgered(r)')
      BY <1>1, <1>2, <1>3, <1>7, LedgeredGrows
    <3>2. CASE granted'[r] = granted[r]
      BY <1>2, <1>3, <1>7, <3>1, <3>2 DEF GrantsAreLedgered
    <3>3. CASE granted'[r] # granted[r]
      <4>1. /\ r = e.sub /\ granted'[r] = granted[r] + 1 /\ customer[r] = u /\ u \in Users
            /\ <<u, e.count>> \notin ledger /\ ledger' = ledger \union {<<u, e.count>>}
        BY <1>2, <1>6, <3>3 DEF TypeOK
      <4>2. Ledgered(r)' = Ledgered(r) \union {e.count} /\ e.count \notin Ledgered(r)
        BY <1>3, <1>4, <4>1 DEF Ledgered
      <4>3. IsFiniteSet(Ledgered(r))
        BY <1>7, SetsOfCycles DEF Ledgered
      <4>4. Cardinality(Ledgered(r)') = Cardinality(Ledgered(r)) + 1
        BY <4>2, <4>3, FS_AddElement
      <4>5. granted[r] <= Cardinality(Ledgered(r))
        BY <1>2 DEF GrantsAreLedgered
      <4> QED
        BY <1>3, <1>7, <3>1, <4>1, <4>4, <4>5, BillingAssumption
    <3> QED
      BY <3>2, <3>3
  <2> QED
    BY <2>1 DEF GrantsAreLedgered
<1>12. EntitledHasPaid'
  <2>1. ASSUME NEW v \in Users, Entitled(v)'
        PROVE  \E r \in Subs : customer'[r] = v /\ paidCount'[r] > 0
    <3>1. CASE status'[v] = status[v]
      BY <1>2, <1>3, <2>1, <3>1 DEF EntitledHasPaid, Entitled
    <3>2. CASE status'[v] # status[v]
      <4>1. customer[e.sub] = v /\ paidCount[e.sub] > 0
        BY <1>4, <1>6, <1>7, <3>2
      <4> QED
        BY <1>3, <1>4, <4>1
    <3> QED
      BY <3>1, <3>2
  <2> QED
    BY <2>1 DEF EntitledHasPaid
<1>13. AppliedChargeIsLedgered'
  <2>1. ASSUME NEW v \in Users, NEW d \in processed', d.type = "charged", d.sub = sub[v],
               <<v, d.sub>> \notin Creditless
        PROVE  <<v, d.count>> \in ledger'
    <3>1. CASE d \in processed
      BY <1>2, <1>3, <2>1, <3>1 DEF AppliedChargeIsLedgered
    <3>2. CASE d \notin processed
      <4>1. d = e
        BY <1>3, <2>1, <3>2
      <4>2. customer[e.sub] = v
        BY <1>2, <1>4, <2>1, <4>1, BillingAssumption DEF RowsAreOwned
      <4>3. u = v
        BY <1>5, <2>1, <4>1, <4>2
      <4> QED
        BY <1>6, <2>1, <3>2, <4>1, <4>3, BillingAssumption
    <3> QED
      BY <3>1, <3>2
  <2> QED
    BY <1>3, <2>1 DEF AppliedChargeIsLedgered
<1> QED
  BY <1>1, <1>8, <1>9, <1>10, <1>11, <1>12, <1>13 DEF BillingInv

LEMMA DeliverStep ==
  ASSUME BillingInv, NEW h \in Handlers,
         HandlerCrash(h) \/ \E e \in sent : Deliver(h, e)
  PROVE  BillingInv'
<1>1. TypeOK'
  BY HandlerType
<1>2. /\ TypeOK /\ RowsAreOwned /\ HandlersAreRight /\ CyclesArePaid /\ GrantsAreLedgered
      /\ EntitledHasPaid /\ AppliedChargeIsLedgered
  BY DEF BillingInv
<1>3. UNCHANGED <<subVars, webhookVars, request, providerVars, sent>>
  BY DEF HandlerCrash, Deliver, ReceiveWebhook, ReceiveDuplicate
<1>4. /\ RowsAreOwned' /\ CyclesArePaid' /\ GrantsAreLedgered'
      /\ EntitledHasPaid' /\ AppliedChargeIsLedgered'
  BY <1>2, <1>3
  DEF RowsAreOwned, CyclesArePaid, GrantsAreLedgered, Ledgered, EntitledHasPaid, Entitled,
      AppliedChargeIsLedgered, subVars, webhookVars, providerVars
<1>5. HandlersAreRight'
  <2>1. CASE HandlerCrash(h)
    BY <1>2, <1>3, <2>1
    DEF HandlerCrash, HandlerDone, HandlersAreRight, TypeOK, subVars, providerVars
  <2>2. ASSUME NEW e \in sent, ReceiveWebhook(h, e)
        PROVE  HandlersAreRight'
    <3>1. /\ \A g \in Handlers : g # h => handler'[g] = handler[g]
          /\ handler'[h].event = e /\ handler'[h].user = UserOf(e.sub)
      BY <1>2, <2>2 DEF ReceiveWebhook, TypeOK
    <3>2. UserOf(e.sub) = None => \A u \in Users : sub[u] # e.sub
      BY BillingAssumption DEF UserOf
    <3>3. UserOf(e.sub) # None => customer[e.sub] = UserOf(e.sub)
      <4>1. e.sub \in Subs
        BY <1>2 DEF TypeOK, Event
      <4> QED
        BY <1>2, <4>1, BillingAssumption DEF UserOf, RowsAreOwned
    <3> QED
      BY <1>2, <1>3, <3>1, <3>2, <3>3 DEF HandlersAreRight, subVars, providerVars
  <2>3. ASSUME NEW e \in sent, ReceiveDuplicate(h, e)
        PROVE  HandlersAreRight'
    BY <1>2, <1>3, <2>3 DEF ReceiveDuplicate, HandlersAreRight, subVars, providerVars
  <2> QED
    BY <2>1, <2>2, <2>3 DEF Deliver
<1> QED
  BY <1>1, <1>4, <1>5 DEF BillingInv

-----------------------------------------------------------------------------
LEMMA BillingStep == BillingInv /\ [Next]_vars => BillingInv'
<1> SUFFICES ASSUME BillingInv, [Next]_vars
             PROVE  BillingInv'
  OBVIOUS
<1>1. CASE UNCHANGED vars
  BY <1>1
  DEF BillingInv, TypeOK, RowsAreOwned, HandlersAreRight, CyclesArePaid, GrantsAreLedgered,
      Ledgered, EntitledHasPaid, Entitled, AppliedChargeIsLedgered, vars, subVars,
      webhookVars, providerVars
<1> QED
  BY <1>1, RequestStep, ProviderStep, ApplyStep, DeliverStep DEF Next

LEMMA BillingAlways == Spec => []BillingInv
  BY BillingInit, BillingStep, PTL DEF Spec

\* Every variable keeps its type: ledger rows name cycles that exist, counts of
\* cycles stay within the subscription.
THEOREM TypeCorrect == Spec => []TypeOK
<1>1. BillingInv => TypeOK
  BY DEF BillingInv
<1> QED
  BY <1>1, BillingAlways, PTL

\* No subscription is granted more credits than it paid cycles for, whatever
\* the number of handlers and however webhooks are repeated and reordered.
THEOREM GrantsNeverExceedPayments == Spec => []NeverMoreThanPaid
<1>1. BillingInv => NeverMoreThanPaid
  <2>1. ASSUME BillingInv, NEW r \in Subs
        PROVE  granted[r] <= paidCount[r]
    <3>1. paidCount[r] \in Nat /\ granted[r] \in Nat
      BY <2>1, BillingAssumption DEF BillingInv, TypeOK
    <3>2. Ledgered(r) \in SUBSET (1..paidCount[r])
      BY DEF Ledgered
    <3>3. Cardinality(Ledgered(r)) \in 0..paidCount[r]
      BY <3>1, <3>2, SetsOfCycles
    <3> QED
      BY <2>1, <3>1, <3>3 DEF BillingInv, GrantsAreLedgered
  <2> QED
    BY <2>1 DEF NeverMoreThanPaid
<1> QED
  BY <1>1, BillingAlways, PTL

\* Nobody has the paid plan who never paid for it.
THEOREM PaidPlanIsPaidFor == Spec => []EntitledHasPaid
<1>1. BillingInv => EntitledHasPaid
  BY DEF BillingInv
<1> QED
  BY <1>1, BillingAlways, PTL

\* Every charge that was applied, of a plan with credits, has its row in the
\* ledger of its user.
THEOREM ChargesAreLedgered == Spec => []AppliedChargeIsLedgered
<1>1. BillingInv => AppliedChargeIsLedgered
  BY DEF BillingInv
<1> QED
  BY <1>1, BillingAlways, PTL

-----------------------------------------------------------------------------
(***************************************************************************)
(* Acknowledgement.                                                        *)
(***************************************************************************)

\* An event that was recorded and not processed is of a user without a balance:
\* only a grant that raises leaves one behind.
OnlyUnfundedAreLost == \A e \in recorded \ processed : customer[e.sub] \in Unfunded

AckInv == acked \subseteq recorded /\ OnlyUnfundedAreLost

LEMMA AckStep == BillingInv /\ AckInv /\ [Next]_vars => AckInv'
<1> SUFFICES ASSUME BillingInv, AckInv, [Next]_vars
             PROVE  AckInv'
  OBVIOUS
<1> USE DEF AckInv, OnlyUnfundedAreLost, webhookVars, providerVars
<1>1. CASE UNCHANGED vars
  BY <1>1 DEF vars
<1>2. ASSUME NEW q \in Requests, RequestNext(q)
      PROVE  AckInv'
  <2>1. \A e \in recorded : e.sub \in Subs
    BY DEF BillingInv, TypeOK, Event
  <2>2. \A r \in Subs : customer[r] \in Unfunded => customer'[r] = customer[r]
    BY <1>2, RequestEffects, BillingAssumption
  <2> QED
    BY <1>2, <2>1, <2>2, RequestEffects
<1>3. ASSUME NEW r \in Subs, ProviderNext(r)
      PROVE  AckInv'
  BY <1>3, ProviderEffects
<1>4. ASSUME NEW h \in Handlers, Apply(h)
      PROVE  AckInv'
  <2>1. CASE GrantRaises(h)
    <3>1. customer[handler[h].event.sub] \in Unfunded
      BY <2>1, BillingAssumption DEF GrantRaises, BillingInv, HandlersAreRight
    <3> QED
      BY <2>1, <3>1 DEF GrantRaises
  <2>2. CASE ~GrantRaises(h)
    BY <1>4, <2>2 DEF Apply, IgnoreUnknown, ApplyPayment, ApplyOther, Finish
  <2> QED
    BY <2>1, <2>2
<1>5. ASSUME NEW h \in Handlers, HandlerCrash(h)
      PROVE  AckInv'
  BY <1>5 DEF HandlerCrash
<1>6. ASSUME NEW h \in Handlers, NEW e \in sent, Deliver(h, e)
      PROVE  AckInv'
  BY <1>6 DEF Deliver, ReceiveWebhook, ReceiveDuplicate, IsDuplicate
<1> QED
  BY <1>1, <1>2, <1>3, <1>4, <1>5, <1>6 DEF Next

LEMMA AckAlways == Spec => []AckInv
<1>1. Init => AckInv
  BY DEF Init, AckInv, OnlyUnfundedAreLost
<1> QED
  BY <1>1, AckStep, BillingAlways, PTL DEF Spec

\* The only webhooks that are recorded and whose effects are lost, which the
\* handler answers with a 2xx at the next delivery, are those of users without
\* a balance.
THEOREM LostEventsAreUnfunded == Spec => []OnlyUnfundedAreLost
<1>1. AckInv => OnlyUnfundedAreLost
  BY DEF AckInv
<1> QED
  BY <1>1, AckAlways, PTL

\* Where every user has a balance, a webhook is answered with a 2xx only when
\* its effects are committed.
THEOREM AcknowledgedIsCommitted == Unfunded = {} => (Spec => []AcknowledgedIsProcessed)
<1> SUFFICES ASSUME Unfunded = {}
             PROVE  Spec => []AcknowledgedIsProcessed
  OBVIOUS
<1>1. AckInv => AcknowledgedIsProcessed
  BY DEF AckInv, OnlyUnfundedAreLost, AcknowledgedIsProcessed
<1> QED
  BY <1>1, AckAlways, PTL

-----------------------------------------------------------------------------
(***************************************************************************)
(* Paid periods.  A grant is keyed by the user's row and the number of the *)
(* cycle, and a second subscription of the user counts its cycles from 1   *)
(* again.  That is all that can go wrong: users of one subscription are    *)
(* granted every charge.                                                   *)
(***************************************************************************)

\* Nobody has more than one subscription at Razorpay, neither after another
\* nor by requests that overlap.
OneSubscriptionEach ==
  \A r, s \in Subs : customer[r] = customer[s] /\ customer[r] # None => r = s

\* The cycles in the ledger of u.
RowsOf(u) == {n \in 1..MaxCycles : <<u, n>> \in ledger}

\* Every row of a user whose credits can be granted is a grant of the user's
\* subscription; who has no subscription has no rows.
RowsAreGrants ==
  /\ \A u \in Users \ Unfunded, r \in Subs :
       customer[r] = u => granted[r] = Cardinality(RowsOf(u))
  /\ \A u \in Users : (\A r \in Subs : customer[r] # u) => RowsOf(u) = {}

LEMMA RowsAreGrantsInit == Init => RowsAreGrants
  BY BillingAssumption DEF Init, RowsAreGrants, RowsOf

\* Requests: a new subscription is of a user who has had none, without rows.
LEMMA RequestKeepsGrants ==
  ASSUME BillingInv, RowsAreGrants, OneSubscriptionEach', NEW q \in Requests, RequestNext(q)
  PROVE  RowsAreGrants'
<1>1. /\ granted' = granted
      /\ \A u \in Users : RowsOf(u)' = RowsOf(u)
      /\ \A r \in Subs : customer[r] # None => customer'[r] = customer[r]
  BY RequestEffects DEF webhookVars, RowsOf
<1>2. \A r \in Subs : customer[r] \in Users \union {None}
  BY DEF BillingInv, TypeOK
<1>3. ASSUME NEW u \in Users \ Unfunded, NEW r \in Subs, customer'[r] = u
      PROVE  granted'[r] = Cardinality(RowsOf(u)')
  <2>1. CASE customer[r] # None
    BY <1>1, <1>3, <2>1 DEF RowsAreGrants
  <2>2. CASE customer[r] = None
    <3>1. granted[r] = 0
      BY <2>2 DEF BillingInv, GrantsAreLedgered
    <3>2. \A s \in Subs : customer[s] # u
      BY <1>1, <1>3, <2>2, BillingAssumption DEF OneSubscriptionEach
    <3>3. RowsOf(u) = {}
      BY <3>2 DEF RowsAreGrants
    <3> QED
      BY <1>1, <1>3, <3>1, <3>3, FS_EmptySet
  <2> QED
    BY <2>1, <2>2
<1>4. ASSUME NEW u \in Users, \A r \in Subs : customer'[r] # u
      PROVE  RowsOf(u)' = {}
  <2>1. \A r \in Subs : customer[r] # u
    BY <1>1, <1>4, BillingAssumption
  <2> QED
    BY <1>1, <2>1 DEF RowsAreGrants
<1> QED
  BY <1>3, <1>4 DEF RowsAreGrants

\* Handlers: a new row of a user whose credits can be granted comes with the
\* grant of the event's subscription, the only one of the user.
LEMMA ApplyKeepsGrants ==
  ASSUME BillingInv, RowsAreGrants, OneSubscriptionEach, NEW h \in Handlers, Apply(h)
  PROVE  RowsAreGrants'
<1> DEFINE e == handler[h].event
           u == handler[h].user
<1>1. /\ customer' = customer
      /\ \/ ledger' = ledger /\ granted' = granted
         \/ /\ u \in Users /\ customer[e.sub] = u
            /\ <<u, e.count>> \notin ledger
            /\ ledger' = ledger \union {<<u, e.count>>}
            /\ \/ u \in Unfunded /\ granted' = granted
               \/ granted' = [granted EXCEPT ![e.sub] = @ + 1]
  BY HandlerEffects DEF providerVars
<1>2. e.sub \in Subs /\ e.count \in 1..MaxCycles
  BY HandlerEffects, HandlerFields
<1> HIDE DEF e, u
<1>3. CASE ledger' = ledger /\ granted' = granted
  BY <1>1, <1>3 DEF RowsAreGrants, RowsOf
<1>4. CASE /\ u \in Users /\ customer[e.sub] = u
           /\ <<u, e.count>> \notin ledger
           /\ ledger' = ledger \union {<<u, e.count>>}
           /\ \/ u \in Unfunded /\ granted' = granted
              \/ granted' = [granted EXCEPT ![e.sub] = @ + 1]
  <2>1. \A v \in Users : v # u => RowsOf(v)' = RowsOf(v)
    BY <1>4 DEF RowsOf
  <2>2. ASSUME NEW v \in Users \ Unfunded, NEW r \in Subs, customer[r] = v
        PROVE  granted'[r] = Cardinality(RowsOf(v)')
    <3>1. granted[r] = Cardinality(RowsOf(v)) /\ granted \in [Subs -> Nat]
      BY <2>2 DEF RowsAreGrants, BillingInv, TypeOK
    <3>2. CASE r # e.sub
      <4>1. v # u
        BY <1>2, <1>4, <2>2, <3>2, BillingAssumption DEF OneSubscriptionEach
      <4> QED
        BY <1>4, <2>1, <3>1, <3>2, <4>1
    <3>3. CASE r = e.sub
      <4> u = v
        BY <1>4, <2>2, <3>3
      <4>1. granted'[r] = granted[r] + 1
        BY <1>4, <2>2, <3>1, <3>3
      <4>2. RowsOf(v)' = RowsOf(v) \union {e.count} /\ e.count \notin RowsOf(v)
        BY <1>2, <1>4 DEF RowsOf
      <4>3. RowsOf(v) \in SUBSET (1..MaxCycles)
        BY DEF RowsOf
      <4>4. IsFiniteSet(RowsOf(v))
        BY <4>3, SetsOfCycles, BillingAssumption
      <4>5. Cardinality(RowsOf(v)') = Cardinality(RowsOf(v)) + 1
        BY <4>2, <4>4, FS_AddElement
      <4> QED
        BY <3>1, <4>1, <4>5
    <3> QED
      BY <3>2, <3>3
  <2>3. \A v \in Users : (\A r \in Subs : customer[r] # v) => RowsOf(v)' = {}
    BY <1>2, <1>4, <2>1 DEF RowsAreGrants
  <2> QED
    BY <1>1, <2>2, <2>3 DEF RowsAreGrants
<1> QED
  BY <1>1, <1>3, <1>4

LEMMA RowsAreGrantsStep ==
  BillingInv /\ RowsAreGrants /\ OneSubscriptionEach /\ OneSubscriptionEach' /\ [Next]_vars
    => RowsAreGrants'
<1> SUFFICES ASSUME BillingInv, RowsAreGrants, OneSubscriptionEach, OneSubscriptionEach',
                    [Next]_vars
             PROVE  RowsAreGrants'
  OBVIOUS
<1> USE DEF RowsAreGrants, RowsOf, webhookVars, providerVars
<1>1. CASE UNCHANGED vars
  BY <1>1 DEF vars
<1>2. ASSUME NEW r \in Subs, ProviderNext(r)
      PROVE  RowsAreGrants'
  BY <1>2, ProviderEffects
<1>3. ASSUME NEW h \in Handlers, HandlerCrash(h) \/ \E e \in sent : Deliver(h, e)
      PROVE  RowsAreGrants'
  BY <1>3 DEF HandlerCrash, Deliver, ReceiveWebhook, ReceiveDuplicate
<1> QED
  BY <1>1, <1>2, <1>3, RequestKeepsGrants, ApplyKeepsGrants DEF Next

\* The applied charges of a subscription are of different cycles, each with its
\* row, and the rows of the user are its grants.
LEMMA ChargesAreGranted == BillingInv /\ RowsAreGrants => PaidPeriodIsGranted
<1> SUFFICES ASSUME BillingInv, RowsAreGrants, NEW u \in Users \ Unfunded, NEW r \in Subs,
                    sub[u] = r, <<u, r>> \notin Creditless
             PROVE  Cardinality({e \in processed : e.type = "charged" /\ e.sub = r})
                      <= granted[r]
  BY DEF PaidPeriodIsGranted
<1> DEFINE Charges == {e \in processed : e.type = "charged" /\ e.sub = r}
           cycle == [e \in Charges |-> e.count]
<1>1. granted[r] = Cardinality(RowsOf(u))
  BY BillingAssumption DEF BillingInv, RowsAreOwned, RowsAreGrants
<1>2. \A e \in Charges : e \in Event /\ <<u, e.count>> \in ledger
  BY DEF BillingInv, TypeOK, AppliedChargeIsLedgered
<1>3. \A e \in Charges : e.count \in RowsOf(u)
  BY <1>2 DEF BillingInv, TypeOK, RowsOf
<1>4. \A d, e \in Charges : d.count = e.count => d = e
  <2>1. \A d, e \in Event : d.type = e.type /\ d.sub = e.sub /\ d.count = e.count => d = e
    BY DEF Event
  <2> QED
    BY <1>2, <2>1
<1>5. cycle \in Injection(Charges, RowsOf(u))
  BY <1>3, <1>4 DEF Injection, IsInjective
<1>6. RowsOf(u) \in SUBSET (1..MaxCycles)
  BY DEF RowsOf
<1>7. IsFiniteSet(RowsOf(u))
  BY <1>6, SetsOfCycles, BillingAssumption
<1> HIDE DEF cycle, Charges
<1>8. Cardinality(Charges) <= Cardinality(RowsOf(u))
  BY <1>5, <1>7, FS_Injection
<1> QED
  BY <1>1, <1>8 DEF Charges

\* Users who have one subscription are granted every charge of it that was
\* applied, however webhooks are repeated, reordered and handled at the same
\* time, and by whichever event of the cycle comes first.
THEOREM OneSubscriptionIsGranted ==
  Spec /\ []OneSubscriptionEach => []PaidPeriodIsGranted
  BY RowsAreGrantsInit, RowsAreGrantsStep, ChargesAreGranted, BillingAlways, PTL DEF Spec
=============================================================================
