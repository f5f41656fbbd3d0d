---------------------------- MODULE AccountsProofs ----------------------------
(***************************************************************************)
(* Theorems about Accounts, for any number of mailboxes, spellings, Google *)
(* identities, accounts, tokens, browsers, requests and limiter keys.      *)
(***************************************************************************)
EXTENDS Accounts, TLAPS

-----------------------------------------------------------------------------
(***************************************************************************)
(* The inductive invariant of the rows.                                    *)
(***************************************************************************)

\* What a request at each step has in hand.
FieldsOK(q) ==
  /\ q.step \in {"count", "expire"} =>
       /\ q.op \in {"register", "login"}
       /\ q.key \in Keys
  /\ q.step \in {"count", "expire", "by_email", "create", "commit"} /\ q.op # "google" =>
       /\ q.op \in {"register", "login"}
       /\ q.email \in Spellings
       /\ q.subject = None
  /\ q.step \in {"by_identity", "by_email", "link", "create", "commit"} /\ q.op = "google" =>
       /\ q.subject \in Subjects
       /\ q.email = EmailOf[q.subject]
  /\ q.step \in {"by_identity", "link"} => q.op = "google"
  /\ q.step \in {"check", "load", "revoke"} => q.token \in Tokens

\* The user a request works on is registered, and its row says what the
\* request read of it.
UserOK(q) ==
  /\ q.step \in {"store", "load", "link"} => q.user \in Registered
  /\ q.step = "revoke" /\ q.op \in Rotations => q.user \in Registered
  /\ q.step = "link" => account[q.user].email = Lower[q.email]

\* A row about to be committed takes a new id and a new e-mail.
InsertOK(q) ==
  q.step = "commit" => /\ q.user \in Users
                       /\ account[q.user] = None
                       /\ \A u \in Registered : account[u].email # Lower[q.email]

InsertsDiffer ==
  \A r, q \in Requests :
    req[r].step = "commit" /\ req[q].step = "commit" /\ r # q =>
      /\ req[r].user # req[q].user
      /\ Lower[req[r].email] # Lower[req[q].email]

Mailboxes ==
  /\ \A u \in Registered :
       /\ Lower[account[u].email] = account[u].email
       /\ account[u].subject # None => account[u].email = Lower[EmailOf[account[u].subject]]
  /\ \A u, v \in Registered : account[u].email = account[v].email => u = v

RowInv ==
  /\ TypeOK
  /\ EveryAccountIsGranted
  /\ \A r \in Requests : FieldsOK(req[r]) /\ UserOK(req[r]) /\ InsertOK(req[r])
  /\ InsertsDiffer
  /\ Mailboxes
  /\ TokensNameAccounts

-----------------------------------------------------------------------------
(***************************************************************************)
(* Steps that leave the rows alone.                                        *)
(***************************************************************************)

\* Everything of the type but the requests.
StoreTypes ==
  /\ LimitsTypeOK
  /\ live \in [Tokens -> Users \union {None}]
  /\ cookie \in [Browsers -> Cookie]
  /\ own \in [Browsers -> SUBSET Tokens]
  /\ quiet \in SUBSET Browsers

\* A request that moves to q, not to an insert, keeps the invariant.
LEMMA RequestMoves ==
  ASSUME RowInv, UNCHANGED rows, StoreTypes', TokensNameAccounts',
         NEW r \in Requests, NEW q \in Request,
         req' = [req EXCEPT ![r] = q],
         FieldsOK(q), UserOK(q), q.step # "commit"
  PROVE  RowInv'
<1> USE DEF RowInv
<1>1. Registered' = Registered /\ account' = account
  BY DEF Registered, rows
<1>2. \A p \in Requests : req'[p] = IF p = r THEN q ELSE req[p]
  BY DEF TypeOK
<1>3. req' \in [Requests -> Request]
  BY DEF TypeOK
<1>4. TypeOK'
  BY <1>3 DEF TypeOK, StoreTypes, rows
<1>5. EveryAccountIsGranted'
  BY <1>1 DEF EveryAccountIsGranted, rows
<1>6. \A p \in Requests : (FieldsOK(req[p]) /\ UserOK(req[p]) /\ InsertOK(req[p]))'
  <2> TAKE p \in Requests
  <2>1. CASE p = r
    BY <1>1, <1>2, <2>1 DEF FieldsOK, UserOK, InsertOK
  <2>2. CASE p # r
    BY <1>1, <1>2, <2>2 DEF FieldsOK, UserOK, InsertOK
  <2> QED
    BY <2>1, <2>2
<1>7. InsertsDiffer'
  BY <1>2 DEF InsertsDiffer
<1>8. Mailboxes'
  BY <1>1 DEF Mailboxes
<1> QED
  BY <1>4, <1>5, <1>6, <1>7, <1>8

\* The fields of a request, and of the requests it becomes.
LEMMA RequestFields ==
  ASSUME TypeOK, NEW r \in Requests, req[r] # Idle
  PROVE  /\ req[r] \in [op : Ops, step : Steps, key : Keys \union {None},
                         browser : Browsers \union {None},
                         email : Spellings \union {None}, subject : Subjects \union {None},
                         user : Users \union {None}, token : Tokens \union {None},
                         fresh : Tokens \union {None}]
         /\ \A s \in Steps : [req[r] EXCEPT !.step = s] \in Request
         /\ \A s \in Steps, u \in Users : WithUser(r, s, u) \in Request
         /\ \A s \in Steps, t \in Tokens \union {None} : Answered(r, s, t) \in Request
<1>1. req[r] \in Request /\ req[r] # Idle
  BY DEF TypeOK
<1>2. req[r] \in [op : Ops, step : Steps, key : Keys \union {None},
                  browser : Browsers \union {None},
                  email : Spellings \union {None}, subject : Subjects \union {None},
                  user : Users \union {None}, token : Tokens \union {None},
                  fresh : Tokens \union {None}]
  BY <1>1 DEF Request
<1>3. ASSUME NEW s \in Steps
      PROVE  [req[r] EXCEPT !.step = s] \in Request
  BY <1>2 DEF Request
<1>4. ASSUME NEW s \in Steps, NEW u \in Users
      PROVE  WithUser(r, s, u) \in Request
  BY <1>2 DEF Request, WithUser, Idle
<1>5. ASSUME NEW s \in Steps, NEW t \in Tokens \union {None}
      PROVE  Answered(r, s, t) \in Request
  BY <1>2 DEF Request, Answered, Idle
<1> HIDE DEF Request
<1> QED
  BY <1>2, <1>3, <1>4, <1>5

LEMMA UserField ==
  ASSUME TypeOK, NEW r \in Requests, req[r] # Idle, NEW s \in {"link", "commit"}, NEW u \in Users
  PROVE  [req[r] EXCEPT !.step = s, !.user = u] \in Request
<1>1. req[r] \in Request \ {Idle}
  BY DEF TypeOK
<1> QED
  BY <1>1 DEF Request, Steps

LEMMA AdmittedField ==
  ASSUME TypeOK, NEW r \in Requests, req[r] # Idle
  PROVE  [req[r] EXCEPT !.step = "by_email", !.key = None] \in Request
<1>1. req[r] \in Request \ {Idle}
  BY DEF TypeOK
<1> QED
  BY <1>1 DEF Request, Steps

\* A step other than "idle" is that of a request.
LEMMA RequestAt ==
  ASSUME TypeOK, NEW r \in Requests, NEW s \in Steps, At(r, s)
  PROVE  req[r] # Idle
  BY DEF At, Idle, Steps

LEMMA StoresKept ==
  ASSUME TypeOK, LimitsTypeOK', UNCHANGED <<sessions, cookie>>, quiet' \in SUBSET Browsers
  PROVE  StoreTypes'
  BY DEF TypeOK, StoreTypes, sessions

LEMMA LimitsKept ==
  ASSUME TypeOK, UNCHANGED limits
  PROVE  LimitsTypeOK'
  BY DEF TypeOK, LimitsTypeOK, limits

LEMMA TokensKept ==
  ASSUME RowInv, UNCHANGED <<rows, sessions>>
  PROVE  TokensNameAccounts'
  BY DEF RowInv, TokensNameAccounts, rows, sessions

-----------------------------------------------------------------------------
(* Arrivals *)

LEMMA ArrivalRows ==
  ASSUME RowInv, NEW r \in Requests, Arrival(r)
  PROVE  RowInv'
<1> USE DEF RowInv
<1>1. ASSUME NEW q \in Request, Arrives(r, q), quiet' \in SUBSET Browsers,
             FieldsOK(q), q.step \notin {"store", "load", "link", "commit"},
             q.step = "revoke" => q.op = "logout"
      PROVE  RowInv'
  <2>1. StoreTypes'
    BY <1>1, StoresKept, LimitsKept DEF Arrives
  <2>2. UserOK(q)
    BY <1>1 DEF UserOK, Rotations
  <2>3. TokensNameAccounts'
    BY <1>1, TokensKept DEF Arrives
  <2> QED
    BY <1>1, <2>1, <2>2, <2>3, RequestMoves DEF Arrives
<1>2. ASSUME NEW b \in Browsers, Overlaps(b)
      PROVE  quiet' \in SUBSET Browsers
  BY <1>2 DEF Overlaps, TypeOK
<1> USE DEF Request, Idle, FieldsOK, Ops, Steps
<1>3. ASSUME NEW k \in Keys, NEW e \in Spellings, Register(r, k, e)
      PROVE  RowInv'
  <2> DEFINE q == [Idle EXCEPT !.op = "register", !.step = "count", !.key = k, !.email = e]
  <2>1. q \in Request /\ FieldsOK(q) /\ q.step = "count"
    OBVIOUS
  <2>2. quiet' \in SUBSET Browsers /\ Arrives(r, q)
    BY <1>3 DEF Register, TypeOK
  <2> QED
    BY <1>1, <2>1, <2>2
<1>4. ASSUME NEW k \in Keys, NEW e \in Spellings, NEW b \in Browsers, SignIn(r, k, b, e)
      PROVE  RowInv'
  <2> DEFINE q == [Idle EXCEPT !.op = "login", !.step = "count", !.key = k,
                              !.browser = b, !.email = e]
  <2>1. q \in Request /\ FieldsOK(q) /\ q.step = "count"
    OBVIOUS
  <2>2. quiet' \in SUBSET Browsers /\ Arrives(r, q)
    BY <1>2, <1>4 DEF SignIn
  <2> QED
    BY <1>1, <2>1, <2>2
<1>5. ASSUME NEW b \in Browsers, NEW s \in Subjects, GoogleSignIn(r, b, s)
      PROVE  RowInv'
  <2> DEFINE q == [Idle EXCEPT !.op = "google", !.step = "by_identity", !.browser = b,
                              !.email = EmailOf[s], !.subject = s]
  <2>1. q \in Request /\ FieldsOK(q) /\ q.step = "by_identity"
    BY AccountsAssumption
  <2>2. quiet' \in SUBSET Browsers /\ Arrives(r, q)
    BY <1>2, <1>5 DEF GoogleSignIn
  <2> QED
    BY <1>1, <2>1, <2>2
<1>6. ASSUME NEW b \in Browsers, cookie[b].token # None
      PROVE  cookie[b].token \in Tokens
  BY <1>6 DEF TypeOK, Cookie
<1>7. ASSUME NEW b \in Browsers, Rotate(r, b)
      PROVE  RowInv'
  <2> DEFINE q == [Idle EXCEPT !.op = "refresh", !.step = "check", !.browser = b,
                              !.token = cookie[b].token]
  <2>1. q \in Request /\ FieldsOK(q) /\ q.step = "check"
    BY <1>6, <1>7 DEF Rotate
  <2>2. quiet' \in SUBSET Browsers /\ Arrives(r, q)
    BY <1>2, <1>7 DEF Rotate
  <2> QED
    BY <1>1, <2>1, <2>2
<1>8. ASSUME NEW b \in Browsers, Visit(r, b)
      PROVE  RowInv'
  <2> DEFINE q == [Idle EXCEPT !.op = "visit", !.step = "done", !.browser = b,
                              !.token = cookie[b].token]
  <2>1. q \in Request /\ FieldsOK(q) /\ q.step = "done"
    BY <1>6, <1>8 DEF Visit
  <2>2. quiet' \in SUBSET Browsers /\ Arrives(r, q)
    BY <1>2, <1>8 DEF Visit
  <2> QED
    BY <1>1, <2>1, <2>2
<1>9. ASSUME NEW b \in Browsers, SignOut(r, b)
      PROVE  RowInv'
  <2> DEFINE q == [Idle EXCEPT !.op = "logout", !.step = "revoke", !.browser = b,
                              !.token = cookie[b].token]
  <2>1. q \in Request /\ FieldsOK(q) /\ q.step = "revoke" /\ q.op = "logout"
    BY <1>6, <1>9 DEF SignOut
  <2>2. quiet' \in SUBSET Browsers /\ Arrives(r, q)
    BY <1>2, <1>9 DEF SignOut
  <2> QED
    BY <1>1, <2>1, <2>2
<1>10. ASSUME NEW b \in Browsers, Lookup(r, b)
       PROVE  RowInv'
  <2> DEFINE q == [Idle EXCEPT !.op = "lookup", !.step = "check", !.browser = b,
                              !.token = cookie[b].token]
  <2>1. q \in Request /\ FieldsOK(q) /\ q.step = "check"
    BY <1>6, <1>10 DEF Lookup
  <2>2. quiet' \in SUBSET Browsers /\ Arrives(r, q)
    BY <1>10 DEF Lookup, TypeOK
  <2> QED
    BY <1>1, <2>1, <2>2
<1> QED
  BY <1>3, <1>4, <1>5, <1>7, <1>8, <1>9, <1>10 DEF Arrival

-----------------------------------------------------------------------------
(* The limiter *)

LEMMA LimitsStep ==
  ASSUME LimitsTypeOK, NEW k \in Keys,
         \/ Increment(k) /\ \A j \in Keys : admitted[j] <= attempts[j]
         \/ SetExpiry(k) \/ WindowEnds(k) \/ Orphan(k)
  PROVE  LimitsTypeOK'
<1> USE DEF LimitsTypeOK
<1>1. MaxAttempts \in Nat /\ Refusing \in Nat /\ Refusing > MaxAttempts
  BY RateLimitAssumption DEF Refusing
<1>2. CASE Increment(k) /\ (\A j \in Keys : admitted[j] <= attempts[j])
  <2>1. attempts[k] \in 0..Refusing /\ admitted[k] \in 0..Refusing /\ admitted[k] <= attempts[k]
    BY <1>2
  <2>2. Current(k) \in 0..Refusing
    BY <1>1, <2>1 DEF Current
  <2>3. Admits(Current(k)) => admitted[k] + 1 \in 0..Refusing
    BY <1>1, <2>1 DEF Current, Admits, Refusing
  <2> QED
    BY <1>2, <2>2, <2>3 DEF Increment
<1>3. CASE SetExpiry(k)
  BY <1>3 DEF SetExpiry
<1>4. CASE WindowEnds(k)
  BY <1>1, <1>4 DEF WindowEnds
<1>5. CASE Orphan(k)
  BY <1>5 DEF Orphan
<1> QED
  BY <1>2, <1>3, <1>4, <1>5

\* A window lets through no more attempts than it has counted, and no more than
\* the limit; a counter in use expires, is about to, or was orphaned.
LimitInv ==
  /\ \A k \in Keys : admitted[k] <= attempts[k]
  /\ WindowIsBounded
  /\ CountersExpire

\* A count keeps the window bounded.
LEMMA CountIsBounded ==
  ASSUME RowInv, LimitInv, NEW k \in Keys, Increment(k)
  PROVE  (\A j \in Keys : admitted[j] <= attempts[j])' /\ WindowIsBounded'
<1>1. MaxAttempts \in Nat /\ Refusing = MaxAttempts + 1
  BY RateLimitAssumption DEF Refusing
<1>2. attempts \in [Keys -> 0..Refusing] /\ admitted \in [Keys -> 0..Refusing]
  BY DEF RowInv, TypeOK, LimitsTypeOK
<1>3. attempts[k] <= Current(k)
  BY <1>1, <1>2 DEF Current
<1>4. Admits(Current(k)) => Current(k) = attempts[k] + 1 /\ Current(k) <= MaxAttempts
  BY <1>1, <1>2 DEF Current, Admits
<1>5. \A j \in Keys : admitted[j] <= attempts[j] /\ admitted[j] <= MaxAttempts
  BY DEF LimitInv, WindowIsBounded
<1>6. \A j \in Keys : attempts'[j] = IF j = k THEN Current(k) ELSE attempts[j]
  BY <1>2 DEF Increment
<1>7. CASE Admits(Current(k))
  <2>1. \A j \in Keys : admitted'[j] = IF j = k THEN admitted[k] + 1 ELSE admitted[j]
    BY <1>2, <1>7 DEF Increment
  <2> QED
    BY <1>1, <1>2, <1>4, <1>5, <1>6, <1>7, <2>1 DEF WindowIsBounded
<1>8. CASE ~Admits(Current(k))
  <2>1. admitted' = admitted
    BY <1>8 DEF Increment
  <2>2. Current(k) \in Nat
    BY <1>1, <1>2 DEF Current
  <2> QED
    BY <1>1, <1>2, <1>3, <1>5, <1>6, <2>1, <2>2 DEF WindowIsBounded
<1> QED
  BY <1>7, <1>8

-----------------------------------------------------------------------------
(* Requests are served. *)

\* A read moves the request and nothing else.
LEMMA ReadMoves ==
  ASSUME RowInv, NEW r \in Requests, NEW q \in Request, Reads(r),
         req' = [req EXCEPT ![r] = q], FieldsOK(q), UserOK(q), q.step # "commit"
  PROVE  RowInv'
<1>1. TypeOK
  BY DEF RowInv
<1>2. quiet' \in SUBSET Browsers /\ StoreTypes'
  BY <1>1, StoresKept, LimitsKept DEF Reads, TypeOK, browsers
<1>3. TokensNameAccounts'
  BY TokensKept DEF Reads
<1> QED
  BY <1>2, <1>3, RequestMoves DEF Reads

\* A refusal ends the request.
LEMMA RefusalMoves ==
  ASSUME RowInv, NEW r \in Requests, req[r] # Idle
  PROVE  LET q == Answered(r, "refused", None) IN
           q \in Request /\ FieldsOK(q) /\ UserOK(q) /\ q.step = "refused"
<1>1. "refused" \in Steps
  BY DEF Steps
<1>2. Answered(r, "refused", None) \in Request
  BY <1>1, RequestFields DEF RowInv
<1>3. Answered(r, "refused", None).step = "refused"
  BY DEF Answered, Idle
<1> QED
  BY <1>2, <1>3 DEF FieldsOK, UserOK

\* A request that has its user goes on to the tokens.
LEMMA UserMoves ==
  ASSUME RowInv, NEW r \in Requests, req[r] # Idle, NEW u \in Registered
  PROVE  LET q == WithUser(r, "store", u) IN
           q \in Request /\ FieldsOK(q) /\ UserOK(q) /\ q.step = "store"
<1>1. "store" \in Steps /\ u \in Users
  BY DEF Steps, Registered
<1>2. WithUser(r, "store", u) \in Request
  BY <1>1, RequestFields DEF RowInv
<1>3. WithUser(r, "store", u).step = "store" /\ WithUser(r, "store", u).user = u
  BY DEF WithUser, Idle
<1> QED
  BY <1>2, <1>3 DEF FieldsOK, UserOK

LEMMA LimiterRows ==
  ASSUME RowInv, LimitInv, NEW r \in Requests, Count(r) \/ Expire(r)
  PROVE  RowInv'
<1>1. TypeOK /\ FieldsOK(req[r])
  BY DEF RowInv
<1>2. req[r] # Idle /\ req[r].step \in {"count", "expire"}
  BY DEF Count, Expire, At, Idle
<1>3. req[r].key \in Keys
  BY <1>1, <1>2 DEF FieldsOK
<1>4. LimitsTypeOK'
  BY <1>1, <1>3, LimitsStep DEF Count, Expire, TypeOK, LimitInv
<1>5. StoreTypes' /\ TokensNameAccounts' /\ UNCHANGED rows
  BY <1>1, <1>4, StoresKept, TokensKept DEF Count, Expire, browsers, TypeOK
<1>6. ASSUME Goes(r, "expire"), At(r, "count")
      PROVE  RowInv'
  <2> DEFINE q == [req[r] EXCEPT !.step = "expire"]
  <2>1. q \in Request
    BY <1>1, <1>2, RequestFields DEF Steps
  <2>2. q.step = "expire" /\ q.op = req[r].op /\ q.key = req[r].key /\ q.email = req[r].email
          /\ q.subject = req[r].subject
    BY <1>1, <1>2, RequestFields
  <2>3. FieldsOK(q) /\ UserOK(q)
    BY <1>1, <1>2, <2>2 DEF FieldsOK, UserOK
  <2>4. req' = [req EXCEPT ![r] = q]
    BY <1>6 DEF Goes
  <2> HIDE DEF q
  <2> QED
    BY <1>5, <2>1, <2>2, <2>3, <2>4, RequestMoves
<1>7. ASSUME IsAdmitted(r)
      PROVE  RowInv'
  <2> DEFINE q == [req[r] EXCEPT !.step = "by_email", !.key = None]
  <2>1. q \in Request
    BY <1>1, <1>2, AdmittedField
  <2>2. q.step = "by_email" /\ q.op = req[r].op /\ q.email = req[r].email
          /\ q.subject = req[r].subject
    BY <1>1, <1>2, RequestFields
  <2>3. FieldsOK(q) /\ UserOK(q)
    BY <1>1, <1>2, <2>2 DEF FieldsOK, UserOK
  <2>4. req' = [req EXCEPT ![r] = q]
    BY <1>7 DEF IsAdmitted
  <2> HIDE DEF q
  <2> QED
    BY <1>5, <2>1, <2>2, <2>3, <2>4, RequestMoves
<1>8. ASSUME IsRefused(r)
      PROVE  RowInv'
  BY <1>2, <1>5, <1>8, RefusalMoves, RequestMoves DEF IsRefused
<1> QED
  BY <1>6, <1>7, <1>8 DEF Count, Expire

\* Steps that only move a request to its next step.
LEMMA GoesFields ==
  ASSUME RowInv, NEW r \in Requests, req[r] # Idle, NEW s \in Steps
  PROVE  LET q == [req[r] EXCEPT !.step = s] IN
           /\ q \in Request
           /\ q.step = s
           /\ q.op = req[r].op /\ q.email = req[r].email /\ q.subject = req[r].subject
           /\ q.user = req[r].user /\ q.token = req[r].token
  BY RequestFields DEF RowInv

LEMMA ReadRows ==
  ASSUME RowInv, NEW r \in Requests,
         \/ FindEmail(r) \/ RefuseSignIn(r) \/ Authenticate(r)
         \/ FindIdentity(r) \/ CheckSession(r) \/ LoadUser(r)
  PROVE  RowInv'
<1>1. TypeOK /\ FieldsOK(req[r]) /\ UserOK(req[r])
  BY DEF RowInv
<1>2. req[r] # Idle
  BY DEF FindEmail, RefuseSignIn, Authenticate, FindIdentity, CheckSession, LoadUser, At, Idle
<1>3. Reads(r)
  BY DEF FindEmail, RefuseSignIn, Authenticate, FindIdentity, CheckSession, LoadUser
<1>4. ASSUME IsRefused(r)
      PROVE  RowInv'
  BY <1>2, <1>3, <1>4, RefusalMoves, ReadMoves DEF IsRefused
<1>5. ASSUME NEW u \in Registered, GetsUser(r, "store", u)
      PROVE  RowInv'
  BY <1>2, <1>3, <1>5, UserMoves, ReadMoves DEF GetsUser
<1>6. CASE FindEmail(r)
  <2> DEFINE q == [req[r] EXCEPT !.step = "create"]
  <2>1. CASE Goes(r, "create")
    <3>1. "create" \in Steps
      BY DEF Steps
    <3>2. q \in Request /\ FieldsOK(q) /\ UserOK(q) /\ q.step # "commit"
      BY <1>1, <1>2, <1>6, <3>1, GoesFields DEF FieldsOK, UserOK, FindEmail, At
    <3>3. req' = [req EXCEPT ![r] = q]
      BY <2>1 DEF Goes
    <3> HIDE DEF q
    <3> QED
      BY <1>3, <3>2, <3>3, ReadMoves
  <2> QED
    BY <1>4, <1>6, <2>1 DEF FindEmail
<1>7. CASE RefuseSignIn(r)
  BY <1>4, <1>7 DEF RefuseSignIn
<1>8. CASE Authenticate(r)
  BY <1>5, <1>8 DEF Authenticate, WithEmail
<1>9. CASE FindIdentity(r)
  <2> DEFINE q == [req[r] EXCEPT !.step = "by_email"]
  <2>1. CASE Goes(r, "by_email")
    <3>1. "by_email" \in Steps
      BY DEF Steps
    <3>2. q \in Request /\ FieldsOK(q) /\ UserOK(q) /\ q.step # "commit"
      BY <1>1, <1>2, <1>9, <3>1, GoesFields DEF FieldsOK, UserOK, FindIdentity, At
    <3>3. req' = [req EXCEPT ![r] = q]
      BY <2>1 DEF Goes
    <3> HIDE DEF q
    <3> QED
      BY <1>3, <3>2, <3>3, ReadMoves
  <2> QED
    BY <1>5, <1>9, <2>1 DEF FindIdentity, WithIdentity
<1>10. CASE CheckSession(r)
  <2>1. req[r].token \in Tokens
    BY <1>1, <1>10 DEF FieldsOK, CheckSession, At
  <2> DEFINE u == live[req[r].token]
  <2> DEFINE q == WithUser(r, "load", u)
  <2>2. CASE u # None /\ GetsUser(r, "load", u)
    <3>1. u \in Registered
      BY <2>1, <2>2 DEF RowInv, TypeOK, TokensNameAccounts, Registered
    <3>2. "load" \in Steps /\ u \in Users
      BY <3>1 DEF Steps, Registered
    <3>3. q \in Request
      BY <1>1, <1>2, <3>2, RequestFields
    <3>4. q.step = "load" /\ q.user = u /\ q.token = req[r].token
      BY DEF WithUser, Idle
    <3>5. FieldsOK(q) /\ UserOK(q)
      BY <2>1, <3>1, <3>4 DEF FieldsOK, UserOK
    <3> QED
      BY <1>3, <2>2, <3>3, <3>4, <3>5, ReadMoves DEF GetsUser
  <2> QED
    BY <1>4, <1>10, <2>2 DEF CheckSession
<1>11. CASE LoadUser(r)
  <2> DEFINE q == [req[r] EXCEPT !.step = "revoke"]
  <2>1. CASE Goes(r, "revoke")
    <3>1. "revoke" \in Steps
      BY DEF Steps
    <3>2. q \in Request /\ FieldsOK(q) /\ UserOK(q) /\ q.step # "commit"
      BY <1>1, <1>2, <1>11, <3>1, GoesFields DEF FieldsOK, UserOK, LoadUser, At
    <3>3. req' = [req EXCEPT ![r] = q]
      BY <2>1 DEF Goes
    <3> HIDE DEF q
    <3> QED
      BY <1>3, <3>2, <3>3, ReadMoves
  <2> QED
    BY <1>4, <1>11, <2>1 DEF LoadUser
<1> QED
  BY <1>6, <1>7, <1>8, <1>9, <1>10, <1>11

LEMMA FindGoogleEmailRows ==
  ASSUME RowInv, NEW r \in Requests, FindGoogleEmail(r)
  PROVE  RowInv'
<1>1. TypeOK /\ FieldsOK(req[r])
  BY DEF RowInv
<1>2. req[r] # Idle /\ req[r].step = "by_email" /\ req[r].op = "google"
  BY DEF FindGoogleEmail, At, Idle
<1>3. CASE Goes(r, "create")
  <2> DEFINE q == [req[r] EXCEPT !.step = "create"]
  <2>1. "create" \in Steps
    BY DEF Steps
  <2>2. q \in Request /\ FieldsOK(q) /\ UserOK(q) /\ q.step # "commit"
    BY <1>1, <1>2, <2>1, GoesFields DEF FieldsOK, UserOK
  <2>3. req' = [req EXCEPT ![r] = q]
    BY <1>3 DEF Goes
  <2> HIDE DEF q
  <2> QED
    BY <2>2, <2>3, ReadMoves DEF FindGoogleEmail
<1>4. ASSUME NEW u \in WithEmail(req[r].email),
             req' = [req EXCEPT ![r].step = "link", ![r].user = u]
      PROVE  RowInv'
  <2> DEFINE q == [req[r] EXCEPT !.step = "link", !.user = u]
  <2>1. u \in Registered /\ u \in Users /\ account[u].email = Lower[req[r].email]
    BY DEF WithEmail, Registered
  <2>2. q \in Request
    BY <1>1, <1>2, <2>1, UserField
  <2>3. q.step = "link" /\ q.user = u /\ q.op = req[r].op /\ q.email = req[r].email
          /\ q.subject = req[r].subject
    BY <1>1, <1>2, RequestFields
  <2>4. FieldsOK(q) /\ UserOK(q)
    BY <1>1, <1>2, <2>1, <2>3 DEF FieldsOK, UserOK
  <2>5. req' = [req EXCEPT ![r] = q]
    BY <1>4
  <2> HIDE DEF q
  <2> QED
    BY <2>2, <2>3, <2>4, <2>5, ReadMoves DEF FindGoogleEmail
<1> QED
  BY <1>3, <1>4 DEF FindGoogleEmail

\* The row of an account, once it has another identity.
LEMMA LinkRows ==
  ASSUME RowInv, NEW r \in Requests, Link(r)
  PROVE  RowInv'
<1> DEFINE u == req[r].user
<1> DEFINE s == req[r].subject
<1>1. TypeOK /\ FieldsOK(req[r]) /\ UserOK(req[r]) /\ Mailboxes
  BY DEF RowInv
<1>2. req[r] # Idle /\ req[r].step = "link"
  BY DEF Link, At, Idle
<1>3. u \in Registered /\ u \in Users /\ s \in Subjects /\ s # None
        /\ account[u].email = Lower[EmailOf[s]]
  BY <1>1, <1>2, AccountsAssumption DEF FieldsOK, UserOK, Registered
<1>4. account[u] \in Row
  BY <1>1, <1>3 DEF TypeOK, Registered
<1>5. \A v \in Users : account'[v] = IF v = u THEN [account[u] EXCEPT !.subject = s]
                                              ELSE account[v]
  BY <1>1 DEF Link, TypeOK
<1>6. account'[u] \in Row /\ account'[u] # None
  BY <1>3, <1>4, <1>5, NoneAssumption DEF Row
<1>7. Registered' = Registered
  BY <1>3, <1>5, <1>6 DEF Registered
<1>8. /\ \A v \in Registered : account'[v].email = account[v].email
      /\ \A v \in Registered : account'[v].subject = IF v = u THEN s ELSE account[v].subject
  BY <1>3, <1>4, <1>5 DEF Row, Registered
<1> DEFINE q == WithUser(r, "store", u)
<1>9. q \in Request /\ FieldsOK(q) /\ q.step = "store" /\ q.user = u
  <2>1. q.user = u
    BY DEF WithUser, Idle
  <2> QED
    BY <1>2, <1>3, <2>1, UserMoves
<1> HIDE DEF q
<1>10. req' = [req EXCEPT ![r] = q]
  BY DEF Link, GetsUser, q
<1>11. \A p \in Requests : req'[p] = IF p = r THEN q ELSE req[p]
  BY <1>1, <1>10 DEF TypeOK
<1>12. TypeOK'
  <2>1. account' \in [Users -> Row \union {None}]
    BY <1>1, <1>3, <1>5, <1>6 DEF Link, TypeOK
  <2>2. req' \in [Requests -> Request]
    BY <1>1, <1>9, <1>10 DEF TypeOK
  <2> QED
    BY <1>1, <2>1, <2>2, LimitsKept DEF Link, TypeOK, sessions, browsers
<1>13. EveryAccountIsGranted'
  BY <1>7 DEF RowInv, EveryAccountIsGranted, Link
<1>14. \A p \in Requests : (FieldsOK(req[p]) /\ UserOK(req[p]) /\ InsertOK(req[p]))'
  <2> TAKE p \in Requests
  <2>1. CASE p = r
    BY <1>3, <1>7, <1>9, <1>11, <2>1 DEF FieldsOK, UserOK, InsertOK
  <2>2. CASE p # r
    <3>1. FieldsOK(req[p]) /\ UserOK(req[p]) /\ InsertOK(req[p]) /\ req'[p] = req[p]
      BY <1>11, <2>2 DEF RowInv
    <3>2. FieldsOK(req[p])'
      BY <3>1 DEF FieldsOK
    <3>3. UserOK(req[p])'
      BY <1>7, <1>8, <3>1 DEF UserOK
    <3>4. InsertOK(req[p])'
      BY <1>3, <1>5, <1>7, <1>8, <3>1 DEF InsertOK, Registered
    <3> QED
      BY <3>2, <3>3, <3>4
  <2> QED
    BY <2>1, <2>2
<1>15. InsertsDiffer'
  BY <1>9, <1>11 DEF RowInv, InsertsDiffer
<1>16. Mailboxes'
  BY <1>1, <1>3, <1>7, <1>8 DEF Mailboxes
<1>17. TokensNameAccounts'
  BY <1>1, <1>3, <1>7 DEF RowInv, TokensNameAccounts, TypeOK, Registered, Link, sessions
<1> QED
  BY <1>12, <1>13, <1>14, <1>15, <1>16, <1>17 DEF RowInv

\* An insert that did not wait and was not refused has an e-mail of its own.
LEMMA CreateRows ==
  ASSUME RowInv, NEW r \in Requests, Create(r)
  PROVE  RowInv'
<1>1. TypeOK /\ FieldsOK(req[r])
  BY DEF RowInv
<1>2. req[r] # Idle /\ req[r].step = "create" /\ Reads(r) /\ ~IsPending(r)
  BY DEF Create, At, Idle
<1>3. CASE IsRefused(r)
  BY <1>2, <1>3, RefusalMoves, ReadMoves DEF IsRefused
<1>4. ASSUME ~IsTaken(r), NEW u \in FreshUsers,
             req' = [req EXCEPT ![r].step = "commit", ![r].user = u]
      PROVE  RowInv'
  <2> DEFINE q == [req[r] EXCEPT !.step = "commit", !.user = u]
  <2>1. u \in Users /\ account[u] = None /\ \A p \in Requests : req[p].user # u
    BY DEF FreshUsers
  <2>2. q \in Request
    BY <1>1, <1>2, <2>1, UserField
  <2>3. q.step = "commit" /\ q.user = u /\ q.op = req[r].op /\ q.email = req[r].email
          /\ q.subject = req[r].subject
    BY <1>1, <1>2, RequestFields
  <2>4. FieldsOK(q) /\ UserOK(q)
    BY <1>1, <1>2, <2>3 DEF FieldsOK, UserOK
  <2>5. req' = [req EXCEPT ![r] = q]
    BY <1>4
  <2> HIDE DEF q
  <2>6. \A p \in Requests : req'[p] = IF p = r THEN q ELSE req[p]
    BY <1>1, <2>5 DEF TypeOK
  <2>7. Registered' = Registered /\ account' = account /\ UNCHANGED <<limits, rows, sessions, browsers>>
    BY <1>2 DEF Reads, rows, Registered
  <2>8. InsertOK(q)
    BY <1>4, <2>1, <2>3 DEF InsertOK, IsTaken, NewRow, Registered
  <2>9. TypeOK'
    <3>1. req' \in [Requests -> Request]
      BY <1>1, <2>2, <2>5 DEF TypeOK
    <3> QED
      BY <1>1, <2>7, <3>1, LimitsKept DEF TypeOK, rows, sessions, browsers
  <2>10. \A p \in Requests : (FieldsOK(req[p]) /\ UserOK(req[p]) /\ InsertOK(req[p]))'
    <3> TAKE p \in Requests
    <3>1. CASE p = r
      BY <2>4, <2>6, <2>7, <2>8, <3>1 DEF FieldsOK, UserOK, InsertOK
    <3>2. CASE p # r
      BY <2>6, <2>7, <3>2 DEF RowInv, FieldsOK, UserOK, InsertOK
    <3> QED
      BY <3>1, <3>2
  <2>11. InsertsDiffer'
    <3>1. \A p \in Requests : req[p].step = "commit" => Lower[req[p].email] # Lower[req[r].email]
      BY <1>2 DEF IsPending, Inserting, NewRow
    <3> QED
      BY <1>2, <2>1, <2>3, <2>6, <3>1 DEF RowInv, InsertsDiffer
  <2>12. Mailboxes' /\ EveryAccountIsGranted' /\ TokensNameAccounts'
    BY <2>7, TokensKept DEF RowInv, Mailboxes, EveryAccountIsGranted, rows
  <2> QED
    BY <2>9, <2>10, <2>11, <2>12 DEF RowInv
<1> QED
  BY <1>3, <1>4 DEF Create

LEMMA RowType ==
  ASSUME NEW e \in Spellings, NEW p \in BOOLEAN, NEW s \in Subjects \union {None}
  PROVE  [email |-> e, password |-> p, subject |-> s, active |-> TRUE] \in Row
  BY DEF Row

\* The transaction of an account commits all its rows.
LEMMA CommitRows ==
  ASSUME RowInv, NEW r \in Requests, Commit(r)
  PROVE  RowInv'
<1> DEFINE u == req[r].user
<1> DEFINE row == NewRow(r)
<1>1. TypeOK /\ FieldsOK(req[r]) /\ InsertOK(req[r]) /\ Mailboxes /\ EveryAccountIsGranted
  BY DEF RowInv
<1>2. req[r] # Idle /\ req[r].step = "commit"
  BY DEF Commit, At, Idle
<1>3. u \in Users /\ account[u] = None /\ u \notin Registered
        /\ \A v \in Registered : account[v].email # Lower[req[r].email]
  BY <1>1, <1>2 DEF InsertOK, Registered
<1>4. req[r].email \in Spellings /\ req[r].subject \in Subjects \union {None}
        /\ (req[r].subject # None => req[r].email = EmailOf[req[r].subject])
  BY <1>1, <1>2, AccountsAssumption DEF FieldsOK
<1>5. row \in Row /\ row # None /\ row.email = Lower[req[r].email] /\ row.subject = req[r].subject
  <2>1. Lower[req[r].email] \in Spellings
    BY <1>4, AccountsAssumption
  <2>2. (req[r].op = "register") \in BOOLEAN
    OBVIOUS
  <2>3. row \in Row
    BY <1>4, <2>1, <2>2, RowType DEF NewRow
  <2>4. row.email = Lower[req[r].email] /\ row.subject = req[r].subject
    BY DEF NewRow
  <2> QED
    BY <2>3, <2>4, NoneAssumption
<1> HIDE DEF row
<1>6. \A v \in Users : account'[v] = IF v = u THEN row ELSE account[v]
  BY <1>1 DEF Commit, TypeOK, row
<1>7. Registered' = Registered \union {u}
  BY <1>3, <1>5, <1>6 DEF Registered
<1>8. balances' = balances \union {u}
        /\ \A v \in Users : grants'[v] = IF v = u THEN 1 ELSE grants[v]
  <2>1. u \notin balances /\ grants[u] = 0
    BY <1>1, <1>3 DEF EveryAccountIsGranted
  <2>2. grants' = [grants EXCEPT ![u] = @ + 1]
    BY <2>1 DEF Commit, Granted
  <2> QED
    BY <1>1, <2>1, <2>2 DEF Commit, WithBalance, TypeOK
<1> DEFINE q == WithUser(r, "store", u)
<1>9. q.step = "store" /\ q.user = u /\ q \in Request
  BY <1>1, <1>2, <1>3, RequestFields DEF WithUser, Idle, Steps
<1> HIDE DEF q
<1>10. req' = [req EXCEPT ![r] = q]
  BY DEF Commit, GetsUser, q
<1>11. \A p \in Requests : req'[p] = IF p = r THEN q ELSE req[p]
  BY <1>1, <1>10 DEF TypeOK
<1>12. TypeOK'
  <2>1. account' \in [Users -> Row \union {None}]
    BY <1>1, <1>5 DEF Commit, TypeOK, row
  <2>2. req' \in [Requests -> Request]
    BY <1>1, <1>9, <1>10 DEF TypeOK
  <2>3. balances' \in SUBSET Users
    BY <1>1, <1>3, <1>8 DEF TypeOK
  <2>4. grants' \in [Users -> 0..1]
    <3>1. \A v \in Users : grants'[v] \in 0..1
      BY <1>1, <1>8 DEF TypeOK
    <3>2. DOMAIN grants' = Users /\ grants' = [v \in Users |-> grants'[v]]
      BY <1>1 DEF Commit, Granted, TypeOK
    <3> QED
      BY <3>1, <3>2
  <2> QED
    BY <1>1, <2>1, <2>2, <2>3, <2>4, LimitsKept DEF Commit, TypeOK, sessions, browsers
<1>13. EveryAccountIsGranted'
  BY <1>1, <1>3, <1>7, <1>8 DEF EveryAccountIsGranted
<1>14. \A p \in Requests : (FieldsOK(req[p]) /\ UserOK(req[p]) /\ InsertOK(req[p]))'
  <2> TAKE p \in Requests
  <2>1. CASE p = r
    BY <1>7, <1>9, <1>11, <2>1 DEF FieldsOK, UserOK, InsertOK
  <2>2. CASE p # r
    <3>1. FieldsOK(req[p]) /\ UserOK(req[p]) /\ InsertOK(req[p]) /\ req'[p] = req[p]
      BY <1>11, <2>2 DEF RowInv
    <3>2. FieldsOK(req[p])'
      BY <3>1 DEF FieldsOK
    <3>3. UserOK(req[p])'
      BY <1>3, <1>6, <1>7, <3>1 DEF UserOK, Registered
    <3>4. InsertOK(req[p])'
      BY <1>2, <1>5, <1>6, <1>7, <2>2, <3>1 DEF RowInv, InsertsDiffer, InsertOK, Registered
    <3> QED
      BY <3>2, <3>3, <3>4
  <2> QED
    BY <2>1, <2>2
<1>15. InsertsDiffer'
  BY <1>9, <1>11 DEF RowInv, InsertsDiffer
<1>16. Mailboxes'
  <2>1. Lower[row.email] = row.email
    BY <1>4, <1>5, AccountsAssumption
  <2>2. \A v \in Registered : account'[v] = account[v] /\ v # u
    BY <1>3, <1>6 DEF Registered
  <2>3. account'[u] = row
    BY <1>3, <1>6
  <2> QED
    BY <1>1, <1>3, <1>4, <1>5, <1>7, <2>1, <2>2, <2>3 DEF Mailboxes
<1>17. TokensNameAccounts'
  BY <1>3, <1>5, <1>6 DEF RowInv, TokensNameAccounts, TypeOK, Registered, Commit, sessions
<1> QED
  BY <1>12, <1>13, <1>14, <1>15, <1>16, <1>17 DEF RowInv

\* A token is issued to a registered user.
LEMMA StoreRows ==
  ASSUME RowInv, NEW r \in Requests, Store(r)
  PROVE  RowInv'
<1>1. TypeOK /\ UserOK(req[r])
  BY DEF RowInv
<1>2. req[r] # Idle /\ req[r].step = "store" /\ UNCHANGED <<limits, rows, cookie>>
  BY DEF Store, At, Idle
<1>3. req[r].user \in Registered
  BY <1>1, <1>2 DEF UserOK
<1>4. PICK t \in FreshTokens :
        /\ live' = [live EXCEPT ![t] = req[r].user]
        /\ req' = [req EXCEPT ![r] = Answered(r, "done", t)]
        /\ own' = [b \in Browsers |->
                    IF b # req[r].browser THEN own[b]
                    ELSE IF req[r].op \in Rotations THEN own[b] \union {t} ELSE {t}]
  BY DEF Store
<1>5. t \in Tokens
  BY DEF FreshTokens
<1>6. req[r].browser \in Browsers \union {None}
  BY <1>1, <1>2, RequestFields
<1>7. StoreTypes'
  <2>1. live' \in [Tokens -> Users \union {None}]
    BY <1>1, <1>3, <1>4 DEF TypeOK, Registered
  <2>2. own' \in [Browsers -> SUBSET Tokens]
    BY <1>1, <1>4, <1>5 DEF TypeOK
  <2>3. quiet' \in SUBSET Browsers
    BY <1>1, <1>6 DEF Store, TypeOK
  <2> QED
    BY <1>1, <1>2, <2>1, <2>2, <2>3, LimitsKept DEF StoreTypes, TypeOK
<1>8. TokensNameAccounts'
  BY <1>1, <1>2, <1>3, <1>4 DEF RowInv, TokensNameAccounts, TypeOK, Registered, rows
<1> DEFINE q == Answered(r, "done", t)
<1>9. q \in Request /\ q.step = "done"
  BY <1>1, <1>2, <1>5, RequestFields DEF Answered, Idle, Steps
<1>10. FieldsOK(q) /\ UserOK(q)
  BY <1>9 DEF FieldsOK, UserOK
<1> HIDE DEF q
<1>11. req' = [req EXCEPT ![r] = q]
  BY <1>4 DEF q
<1> QED
  BY <1>2, <1>7, <1>8, <1>9, <1>10, <1>11, RequestMoves

\* A token is deleted.
LEMMA DeleteTypes ==
  ASSUME RowInv, NEW t \in Tokens, Delete(t), UNCHANGED <<limits, rows, cookie>>,
         quiet' \in SUBSET Browsers
  PROVE  StoreTypes' /\ TokensNameAccounts'
<1>1. TypeOK
  BY DEF RowInv
<1>2. live' \in [Tokens -> Users \union {None}] /\ own' \in [Browsers -> SUBSET Tokens]
  BY <1>1 DEF Delete, TypeOK
<1>3. StoreTypes'
  BY <1>1, <1>2, LimitsKept DEF StoreTypes, TypeOK
<1>4. TokensNameAccounts'
  BY <1>1 DEF RowInv, TokensNameAccounts, Delete, rows, TypeOK
<1> QED
  BY <1>3, <1>4

LEMMA RevokeRows ==
  ASSUME RowInv, NEW r \in Requests, Revoke(r)
  PROVE  RowInv'
<1>1. TypeOK /\ FieldsOK(req[r]) /\ UserOK(req[r])
  BY DEF RowInv
<1>2. req[r] # Idle /\ req[r].step = "revoke" /\ req[r].token \in Tokens
  BY <1>1 DEF Revoke, At, Idle, FieldsOK
<1>3. StoreTypes' /\ TokensNameAccounts' /\ UNCHANGED rows
  BY <1>1, <1>2, DeleteTypes DEF Revoke, browsers, TypeOK
<1> DEFINE s == IF req[r].op \in Rotations THEN "store" ELSE "done"
<1> DEFINE q == [req[r] EXCEPT !.step = s]
<1>4. s \in Steps
  BY DEF Steps
<1> HIDE DEF s
<1>5. q \in Request /\ q.step = s /\ q.op = req[r].op /\ q.user = req[r].user
  BY <1>2, <1>4, GoesFields
<1>6. FieldsOK(q) /\ UserOK(q) /\ q.step # "commit"
  BY <1>1, <1>2, <1>5 DEF FieldsOK, UserOK, s
<1>7. req' = [req EXCEPT ![r] = q]
  BY DEF Revoke, Goes, s
<1> HIDE DEF q
<1> QED
  BY <1>3, <1>5, <1>6, <1>7, RequestMoves

\* A request that is over holds nothing.
LEMMA IdleFields == Idle \in Request /\ FieldsOK(Idle) /\ UserOK(Idle) /\ Idle.step # "commit"
  BY DEF Idle, Request, FieldsOK, UserOK

\* A cookie holds what the answer brought.
LEMMA CookieType ==
  ASSUME TypeOK, NEW r \in Requests, req[r] # Idle, req[r].browser # None
  PROVE  CookieAfter(r) \in Cookie
<1>1. req[r].token \in Tokens \union {None} /\ req[r].fresh \in Tokens \union {None}
        /\ req[r].browser \in Browsers
  BY RequestFields
<1>2. cookie[req[r].browser] \in Cookie
  BY <1>1 DEF TypeOK
<1> QED
  BY <1>1, <1>2 DEF CookieAfter, Cookie, SignedOut

LEMMA EndRows ==
  ASSUME RowInv, NEW r \in Requests, Answer(r) \/ Fail(r)
  PROVE  RowInv'
<1>1. TypeOK
  BY DEF RowInv
<1>2. req[r] # Idle
  BY DEF Answer, Fail, Idle
<1>3. req' = [req EXCEPT ![r] = Idle] /\ UNCHANGED <<rows, sessions>>
  BY DEF Answer, Fail
<1>4. cookie' \in [Browsers -> Cookie]
  <2>1. CASE Answer(r)
    BY <1>1, <1>2, <2>1, CookieType DEF Answer, TypeOK
  <2>2. CASE Fail(r)
    <3>1. SignedOut \in Cookie
      BY DEF SignedOut, Cookie
    <3> QED
      BY <1>1, <2>2, <3>1 DEF Fail, TypeOK
  <2> QED
    BY <2>1, <2>2
<1>5. LimitsTypeOK'
  <2>1. CASE UNCHANGED limits
    BY <1>1, <2>1, LimitsKept
  <2>2. CASE Fail(r) /\ At(r, "expire")
    <3>1. req[r].key \in Keys
      BY <2>2 DEF RowInv, FieldsOK, At
    <3> QED
      BY <1>1, <2>2, <3>1, LimitsStep DEF Fail, TypeOK
  <2> QED
    BY <2>1, <2>2 DEF Answer, Fail
<1>6. StoreTypes'
  BY <1>1, <1>3, <1>4, <1>5 DEF StoreTypes, TypeOK, sessions, Answer, Fail
<1>7. TokensNameAccounts'
  BY <1>3, TokensKept
<1> QED
  BY <1>3, <1>6, <1>7, IdleFields, RequestMoves

-----------------------------------------------------------------------------
(* Time and the operator *)

LEMMA StoreMoves ==
  ASSUME RowInv, UNCHANGED <<rows, req>>, StoreTypes', TokensNameAccounts'
  PROVE  RowInv'
<1>1. Registered' = Registered /\ account' = account /\ req' = req
  BY DEF Registered, rows
<1>2. TypeOK'
  BY DEF RowInv, TypeOK, StoreTypes, rows
<1>3. EveryAccountIsGranted' /\ Mailboxes' /\ InsertsDiffer'
  BY <1>1 DEF RowInv, EveryAccountIsGranted, Mailboxes, InsertsDiffer, rows
<1>4. \A p \in Requests : (FieldsOK(req[p]) /\ UserOK(req[p]) /\ InsertOK(req[p]))'
  BY <1>1 DEF RowInv, FieldsOK, UserOK, InsertOK
<1> QED
  BY <1>2, <1>3, <1>4 DEF RowInv

LEMMA TimeRows ==
  ASSUME RowInv,
         (\E k \in Keys : EndWindow(k)) \/ (\E t \in Tokens : TokenExpires(t))
  PROVE  RowInv'
<1>1. TypeOK
  BY DEF RowInv
<1>2. ASSUME NEW k \in Keys, EndWindow(k)
      PROVE  RowInv'
  <2>1. LimitsTypeOK'
    BY <1>1, <1>2, LimitsStep DEF EndWindow, TypeOK
  <2>2. StoreTypes' /\ TokensNameAccounts'
    BY <1>1, <1>2, <2>1, StoresKept, TokensKept DEF EndWindow, browsers, TypeOK
  <2> QED
    BY <1>2, <2>2, StoreMoves DEF EndWindow
<1>3. ASSUME NEW t \in Tokens, TokenExpires(t)
      PROVE  RowInv'
  <2>1. StoreTypes' /\ TokensNameAccounts'
    BY <1>1, <1>3, DeleteTypes DEF TokenExpires, TypeOK
  <2> QED
    BY <1>3, <2>1, StoreMoves DEF TokenExpires
<1> QED
  BY <1>2, <1>3

\* A deactivated account keeps its mailbox.
LEMMA DeactivateRows ==
  ASSUME RowInv, NEW u \in Users, Deactivate(u)
  PROVE  RowInv'
<1>1. TypeOK /\ Mailboxes /\ u \in Registered
  BY DEF RowInv, Deactivate
<1>2. account[u] \in Row
  BY <1>1 DEF TypeOK, Registered
<1>3. \A v \in Users : account'[v] = IF v = u THEN [account[u] EXCEPT !.active = FALSE]
                                              ELSE account[v]
  BY <1>1 DEF Deactivate, TypeOK
<1>4. account'[u] \in Row /\ account'[u] # None
  BY <1>2, <1>3, NoneAssumption DEF Row
<1>5. Registered' = Registered
  BY <1>1, <1>3, <1>4 DEF Registered
<1>6. \A v \in Registered : /\ account'[v].email = account[v].email
                            /\ account'[v].subject = account[v].subject
  BY <1>2, <1>3 DEF Row, Registered
<1>7. \A v \in Users : account[v] = None => account'[v] = None
  BY <1>1, <1>3 DEF Registered
<1>8. req' = req
  BY DEF Deactivate
<1>9. TypeOK'
  <2>1. account' \in [Users -> Row \union {None}]
    BY <1>1, <1>3, <1>4 DEF Deactivate, TypeOK
  <2> QED
    BY <1>1, <2>1, LimitsKept DEF Deactivate, TypeOK, sessions, browsers
<1>10. EveryAccountIsGranted'
  BY <1>5 DEF RowInv, EveryAccountIsGranted, Deactivate
<1>11. \A p \in Requests : (FieldsOK(req[p]) /\ UserOK(req[p]) /\ InsertOK(req[p]))'
  <2> TAKE p \in Requests
  <2>1. FieldsOK(req[p]) /\ UserOK(req[p]) /\ InsertOK(req[p])
    BY DEF RowInv
  <2>2. FieldsOK(req[p])'
    BY <1>8, <2>1 DEF FieldsOK
  <2>3. UserOK(req[p])'
    BY <1>5, <1>6, <1>8, <2>1 DEF UserOK
  <2>4. InsertOK(req[p])'
    BY <1>5, <1>6, <1>7, <1>8, <2>1 DEF InsertOK
  <2> QED
    BY <2>2, <2>3, <2>4
<1>12. InsertsDiffer'
  BY <1>8 DEF RowInv, InsertsDiffer
<1>13. Mailboxes'
  BY <1>1, <1>5, <1>6 DEF Mailboxes
<1>14. TokensNameAccounts'
  BY <1>1, <1>5 DEF RowInv, TokensNameAccounts, TypeOK, Registered, Deactivate, sessions
<1> QED
  BY <1>9, <1>10, <1>11, <1>12, <1>13, <1>14 DEF RowInv

-----------------------------------------------------------------------------
(***************************************************************************)
(* The limiter's invariant.                                                *)
(***************************************************************************)

\* A request that is not about to set an expiry may move.
LEMMA LimitsUndisturbed ==
  ASSUME LimitInv, UNCHANGED limits,
         \A p \in Requests : At(p, "expire") => req'[p] = req[p]
  PROVE  LimitInv'
<1>1. attempts' = attempts /\ admitted' = admitted /\ expiring' = expiring
        /\ orphaned' = orphaned
  BY DEF limits
<1>2. \A p \in Requests : At(p, "expire") => At(p, "expire")' /\ req'[p].key = req[p].key
  BY DEF At
<1> QED
  BY <1>1, <1>2 DEF LimitInv, WindowIsBounded, CountersExpire

\* The steps of a request disturb no other.
LEMMA OthersKept ==
  ASSUME TypeOK, NEW r \in Requests, Arrival(r) \/ Serve(r) \/ Fail(r)
  PROVE  \A p \in Requests \ {r} : req'[p] = req[p]
<1> USE DEF TypeOK
<1>1. CASE Arrival(r)
  BY <1>1 DEF Arrival, Register, SignIn, Rotate, Lookup, Visit, SignOut, GoogleSignIn, Arrives
<1>2. CASE Fail(r) \/ Answer(r)
  BY <1>2 DEF Fail, Answer
<1> USE DEF Goes, GetsUser, IsRefused
<1>3. CASE Count(r) \/ Expire(r)
  <2>1. IsAdmitted(r) => \A p \in Requests \ {r} : req'[p] = req[p]
    BY DEF IsAdmitted
  <2> QED
    BY <1>3, <2>1 DEF Count, Expire
<1>4. CASE FindEmail(r) \/ RefuseSignIn(r) \/ Authenticate(r) \/ FindIdentity(r)
  BY <1>4 DEF FindEmail, RefuseSignIn, Authenticate, FindIdentity
<1>5. CASE FindGoogleEmail(r)
  BY <1>5 DEF FindGoogleEmail
<1>6. CASE Link(r) \/ Commit(r)
  BY <1>6 DEF Link, Commit
<1>7. CASE Create(r)
  BY <1>7 DEF Create
<1>8. CASE CheckSession(r) \/ LoadUser(r) \/ Revoke(r)
  BY <1>8 DEF CheckSession, LoadUser, Revoke
<1>9. CASE Store(r)
  BY <1>9 DEF Store
<1> QED
  BY <1>1, <1>2, <1>3, <1>4, <1>5, <1>6, <1>7, <1>8, <1>9 DEF Serve

LEMMA CountLimits ==
  ASSUME RowInv, LimitInv, NEW r \in Requests, Count(r)
  PROVE  LimitInv'
<1> DEFINE k == req[r].key
<1>1. TypeOK /\ k \in Keys /\ req[r].step = "count" /\ Increment(k)
  BY DEF RowInv, FieldsOK, Count, At
<1>2. (\A j \in Keys : admitted[j] <= attempts[j])' /\ WindowIsBounded'
  BY <1>1, CountIsBounded
<1>3. \A p \in Requests \ {r} : req'[p] = req[p]
  BY <1>1, OthersKept DEF Serve
<1>4. MaxAttempts \in Nat \ {0} /\ Refusing = MaxAttempts + 1
  BY RateLimitAssumption DEF Refusing
<1>5. attempts \in [Keys -> 0..Refusing]
  BY <1>1 DEF TypeOK, LimitsTypeOK
<1>6. CountersExpire'
  <2> SUFFICES ASSUME NEW j \in Keys, attempts'[j] > 0
               PROVE  \/ j \in expiring' \union orphaned'
                      \/ \E p \in Requests : At(p, "expire")' /\ req'[p].key = j
    BY DEF CountersExpire
  <2>1. expiring' = expiring /\ orphaned' = orphaned
    BY <1>1 DEF Increment
  <2>2. \A p \in Requests : At(p, "expire") => p # r /\ req'[p] = req[p]
    BY <1>1, <1>3 DEF At
  <2>3. CASE attempts[j] > 0
    BY <2>1, <2>2, <2>3 DEF LimitInv, CountersExpire, At
  <2>4. CASE ~(attempts[j] > 0)
    <3>1. j = k /\ attempts[k] = 0
      BY <1>1, <1>5, <1>4, <2>4 DEF Increment
    <3>2. Current(k) = 1
      BY <1>4, <3>1 DEF Current
    <3>3. Goes(r, "expire")
      BY <3>2 DEF Count, OpensWindow
    <3>4. req'[r].step = "expire" /\ req'[r].key = k
      BY <1>1, <3>3, RequestFields DEF Goes, TypeOK, Idle
    <3> QED
      BY <3>1, <3>4 DEF At
  <2> QED
    BY <2>3, <2>4
<1> QED
  BY <1>2, <1>6 DEF LimitInv

LEMMA ExpireLimits ==
  ASSUME RowInv, LimitInv, NEW r \in Requests,
         Expire(r) \/ (Fail(r) /\ At(r, "expire"))
  PROVE  LimitInv'
<1>1. TypeOK
  BY DEF RowInv
<1>2. \A p \in Requests \ {r} : req'[p] = req[p]
  BY <1>1, OthersKept DEF Serve
<1>3. /\ attempts' = attempts /\ admitted' = admitted
      /\ expiring' \union orphaned' = expiring \union orphaned \union {req[r].key}
  BY DEF Expire, Fail, SetExpiry, Orphan
<1>4. CountersExpire'
  BY <1>2, <1>3 DEF LimitInv, CountersExpire, At
<1> QED
  BY <1>3, <1>4 DEF LimitInv, WindowIsBounded

LEMMA EndWindowLimits ==
  ASSUME RowInv, LimitInv, NEW k \in Keys, EndWindow(k)
  PROVE  LimitInv'
<1>1. attempts \in [Keys -> 0..Refusing] /\ admitted \in [Keys -> 0..Refusing]
  BY DEF RowInv, TypeOK, LimitsTypeOK
<1>2. \A j \in Keys : /\ attempts'[j] = IF j = k THEN 0 ELSE attempts[j]
                      /\ admitted'[j] = IF j = k THEN 0 ELSE admitted[j]
  BY <1>1 DEF EndWindow, WindowEnds
<1>3. expiring' = expiring \ {k} /\ orphaned' = orphaned /\ req' = req
  BY DEF EndWindow, WindowEnds
<1>4. MaxAttempts \in Nat
  BY RateLimitAssumption
<1>5. CountersExpire'
  BY <1>1, <1>2, <1>3 DEF LimitInv, CountersExpire, At
<1>6. WindowIsBounded' /\ (\A j \in Keys : admitted[j] <= attempts[j])'
  BY <1>1, <1>2, <1>4 DEF LimitInv, WindowIsBounded
<1> QED
  BY <1>5, <1>6 DEF LimitInv

-----------------------------------------------------------------------------
(***************************************************************************)
(* Every step keeps both.                                                  *)
(***************************************************************************)

LEMMA InitInv ==
  ASSUME Init
  PROVE  RowInv /\ LimitInv
<1> USE DEF Init, LimitsInit
<1>1. TypeOK
  <2>1. LimitsTypeOK
    BY RateLimitAssumption DEF LimitsTypeOK, Refusing
  <2>2. SignedOut \in Cookie /\ Idle \in Request
    BY IdleFields DEF SignedOut, Cookie
  <2> QED
    BY <2>1, <2>2 DEF TypeOK
<1>2. Registered = {} /\ \A r \in Requests : req[r] = Idle
  BY DEF Registered
<1>3. EveryAccountIsGranted /\ Mailboxes
  BY <1>2 DEF EveryAccountIsGranted, Mailboxes
<1>4. \A r \in Requests : FieldsOK(req[r]) /\ UserOK(req[r]) /\ InsertOK(req[r])
  BY <1>2, IdleFields DEF InsertOK
<1>5. InsertsDiffer
  BY <1>2, IdleFields DEF InsertsDiffer
<1>6. TokensNameAccounts
  BY DEF TokensNameAccounts
<1>7. LimitInv
  BY RateLimitAssumption DEF LimitInv, WindowIsBounded, CountersExpire
<1> QED
  BY <1>1, <1>3, <1>4, <1>5, <1>6, <1>7 DEF RowInv

LEMMA ServeStep ==
  ASSUME RowInv, LimitInv, NEW r \in Requests, Serve(r)
  PROVE  RowInv' /\ LimitInv'
<1>1. RowInv'
  BY LimiterRows, ReadRows, FindGoogleEmailRows, LinkRows, CreateRows, CommitRows,
     StoreRows, RevokeRows, EndRows DEF Serve
<1>2. CASE Count(r) \/ Expire(r)
  <2>1. CASE Count(r)
    BY <1>1, <2>1, CountLimits
  <2>2. CASE Expire(r)
    BY <1>1, <2>2, ExpireLimits
  <2> QED
    BY <1>2, <2>1, <2>2
<1>3. CASE ~(Count(r) \/ Expire(r))
  <2>1. UNCHANGED limits
    BY <1>3 DEF Serve, FindEmail, RefuseSignIn, Authenticate, FindIdentity, FindGoogleEmail,
       Link, Create, Commit, CheckSession, LoadUser, Revoke, Store, Answer, Reads
  <2>2. ~At(r, "expire")
    BY <1>3 DEF Serve, FindEmail, RefuseSignIn, Authenticate, FindIdentity, FindGoogleEmail,
       Link, Create, Commit, CheckSession, LoadUser, Revoke, Store, Answer, At
  <2>3. \A p \in Requests : At(p, "expire") => req'[p] = req[p]
    BY <2>2, OthersKept DEF RowInv
  <2> QED
    BY <1>1, <2>1, <2>3, LimitsUndisturbed
<1> QED
  BY <1>2, <1>3

LEMMA StepInv ==
  ASSUME RowInv, LimitInv, [Next]_vars
  PROVE  RowInv' /\ LimitInv'
<1>1. TypeOK
  BY DEF RowInv
<1>2. ASSUME NEW r \in Requests, Arrival(r)
      PROVE  RowInv' /\ LimitInv'
  <2>1. UNCHANGED limits /\ req[r] = Idle
    BY <1>2 DEF Arrival, Register, SignIn, Rotate, Lookup, Visit, SignOut, GoogleSignIn, Arrives
  <2>2. \A p \in Requests : At(p, "expire") => req'[p] = req[p]
    BY <1>1, <1>2, <2>1, OthersKept DEF At, Idle
  <2> QED
    BY <1>2, <2>1, <2>2, ArrivalRows, LimitsUndisturbed
<1>3. ASSUME NEW r \in Requests, Fail(r)
      PROVE  RowInv' /\ LimitInv'
  <2>1. CASE At(r, "expire")
    BY <1>3, <2>1, EndRows, ExpireLimits
  <2>2. CASE ~At(r, "expire")
    <3>1. UNCHANGED limits
      BY <1>3, <2>2 DEF Fail
    <3>2. \A p \in Requests : At(p, "expire") => req'[p] = req[p]
      BY <1>1, <1>3, <2>2, OthersKept
    <3> QED
      BY <1>3, <3>1, <3>2, EndRows, LimitsUndisturbed
  <2> QED
    BY <2>1, <2>2
<1>4. CASE \E k \in Keys : EndWindow(k)
  BY <1>4, TimeRows, EndWindowLimits
<1>5. CASE \E t \in Tokens : TokenExpires(t)
  <2>1. UNCHANGED limits /\ req' = req
    BY <1>5 DEF TokenExpires
  <2> QED
    BY <1>5, <2>1, TimeRows, LimitsUndisturbed
<1>6. CASE \E u \in Users : Deactivate(u)
  BY <1>6, DeactivateRows, LimitsUndisturbed DEF Deactivate
<1>7. CASE UNCHANGED vars
  <2>1. UNCHANGED <<limits, rows, sessions, cookie, quiet, req>>
    BY <1>7 DEF vars, browsers
  <2>2. StoreTypes' /\ TokensNameAccounts'
    BY <1>1, <2>1, StoresKept, LimitsKept, TokensKept DEF TypeOK
  <2>3. RowInv'
    BY <2>1, <2>2, StoreMoves
  <2>4. LimitInv'
    <3>1. UNCHANGED limits /\ req' = req
      BY <2>1
    <3> QED
      BY <3>1, LimitsUndisturbed
  <2> QED
    BY <2>3, <2>4
<1> QED
  BY <1>2, <1>3, <1>4, <1>5, <1>6, <1>7, ServeStep DEF Next

-----------------------------------------------------------------------------
(***************************************************************************)
(* Theorems                                                                *)
(***************************************************************************)

THEOREM Invariance == Spec => [](RowInv /\ LimitInv)
<1>1. Init => RowInv /\ LimitInv
  BY InitInv
<1>2. RowInv /\ LimitInv /\ [Next]_vars => RowInv' /\ LimitInv'
  BY StepInv
<1> QED
  BY <1>1, <1>2, PTL DEF Spec

\* The stores hold what their types say; in particular, no account is granted
\* its initial credits twice.
THEOREM TypeCorrect == Spec => []TypeOK
<1>1. RowInv => TypeOK
  BY DEF RowInv
<1> QED
  BY <1>1, Invariance, PTL

\* An account and its grant are committed together (AuthService.register and
\* upsert_google_user).
THEOREM AccountsAreGranted == Spec => []EveryAccountIsGranted
<1>1. RowInv => EveryAccountIsGranted
  BY DEF RowInv
<1> QED
  BY <1>1, Invariance, PTL

\* No mailbox and no Google identity has two accounts, whichever requests
\* create and link them at the same time.
THEOREM MailboxesAreUnique == Spec => []OneAccountPerMailbox
<1>1. ASSUME RowInv
      PROVE  OneAccountPerMailbox
  <2> SUFFICES ASSUME NEW u \in Registered, NEW v \in Registered,
                      \/ Lower[account[u].email] = Lower[account[v].email]
                      \/ account[u].subject = account[v].subject /\ account[u].subject # None
               PROVE  u = v
    BY DEF OneAccountPerMailbox
  <2>1. Mailboxes
    BY <1>1 DEF RowInv
  <2>2. account[u].email = account[v].email
    BY <2>1 DEF Mailboxes
  <2> QED
    BY <2>1, <2>2 DEF Mailboxes
<1> QED
  BY <1>1, Invariance, PTL

\* Refresh tokens in Redis name committed accounts.
THEOREM TokensAreOfAccounts == Spec => []TokensNameAccounts
<1>1. RowInv => TokensNameAccounts
  BY DEF RowInv
<1> QED
  BY <1>1, Invariance, PTL

\* A window of the limiter admits no more than max_attempts.
THEOREM WindowsAreBounded == Spec => []WindowIsBounded
<1>1. LimitInv => WindowIsBounded
  BY DEF LimitInv
<1> QED
  BY <1>1, Invariance, PTL

\* A counter without an expiry is about to get one, or its caller died.
THEOREM CountersDoExpire == Spec => []CountersExpire
<1>1. LimitInv => CountersExpire
  BY DEF LimitInv
<1> QED
  BY <1>1, Invariance, PTL

\* A linked identity is one of the mailbox, and nothing else of a row changes
\* but is_active (UserRepository.link_oauth_identity).
THEOREM AccountsStay == Spec => AccountsAreKept
<1> DEFINE Kept == \A u \in Registered :
       /\ account'[u] # None
       /\ account'[u].email = account[u].email
       /\ account'[u].password = account[u].password
       /\ account'[u].subject # account[u].subject =>
            /\ account'[u].subject # None
            /\ Lower[EmailOf[account'[u].subject]] = account[u].email
<1>1. ASSUME RowInv, [Next]_vars
      PROVE  Kept
  <2>1. TypeOK /\ \A u \in Registered : u \in Users /\ account[u] \in Row /\ account[u] # None
    BY <1>1 DEF RowInv, TypeOK, Registered
  <2>2. CASE UNCHANGED account
    BY <2>1, <2>2
  <2>3. ASSUME NEW r \in Requests, Link(r)
        PROVE  Kept
    <3> DEFINE v == req[r].user
    <3>1. FieldsOK(req[r]) /\ UserOK(req[r]) /\ req[r].step = "link"
      BY <1>1, <2>3 DEF RowInv, Link, At
    <3>2. req[r].subject \in Subjects /\ v \in Registered
            /\ account[v].email = Lower[EmailOf[req[r].subject]]
      BY <3>1 DEF FieldsOK, UserOK
    <3>3. req[r].subject # None
      BY <3>2, AccountsAssumption
    <3>4. \A u \in Users : account'[u] = IF u = v THEN [account[u] EXCEPT !.subject = req[r].subject]
                                                  ELSE account[u]
      BY <2>1, <2>3 DEF Link, TypeOK
    <3>5. [account[v] EXCEPT !.subject = req[r].subject] \in Row
      BY <2>1, <3>2 DEF Row
    <3>6. account'[v] # None
      BY <2>1, <3>2, <3>4, <3>5, NoneAssumption
    <3>7. /\ account'[v].email = account[v].email
          /\ account'[v].password = account[v].password
          /\ account'[v].subject = req[r].subject
      BY <2>1, <3>2, <3>4 DEF Row
    <3> QED
      BY <2>1, <3>2, <3>3, <3>4, <3>6, <3>7
  <2>4. ASSUME NEW r \in Requests, Commit(r)
        PROVE  Kept
    <3>1. req[r].user \notin Registered
      BY <1>1, <2>4 DEF RowInv, InsertOK, Commit, At, Registered
    <3>2. \A u \in Registered : account'[u] = account[u]
      BY <2>1, <2>4, <3>1 DEF Commit, TypeOK
    <3> QED
      BY <2>1, <3>2
  <2>5. ASSUME NEW v \in Users, Deactivate(v)
        PROVE  Kept
    <3>1. v \in Registered
      BY <2>5 DEF Deactivate
    <3>2. \A u \in Users : account'[u] = IF u = v THEN [account[u] EXCEPT !.active = FALSE]
                                                  ELSE account[u]
      BY <2>1, <2>5 DEF Deactivate, TypeOK
    <3>3. [account[v] EXCEPT !.active = FALSE] \in Row
      BY <2>1, <3>1 DEF Row
    <3>4. account'[v] # None
      BY <2>1, <3>1, <3>2, <3>3, NoneAssumption
    <3>5. /\ account'[v].email = account[v].email
          /\ account'[v].password = account[v].password
          /\ account'[v].subject = account[v].subject
      BY <2>1, <3>1, <3>2 DEF Row
    <3> QED
      BY <2>1, <3>1, <3>2, <3>4, <3>5
  <2>6. ASSUME NEW r \in Requests, Serve(r), ~Link(r), ~Commit(r)
        PROVE  UNCHANGED account
    BY <2>6 DEF Serve, Count, Expire, FindEmail, RefuseSignIn, Authenticate, FindIdentity,
       FindGoogleEmail, Create, CheckSession, LoadUser, Revoke, Store, Answer, Reads, rows
  <2>7. ASSUME NEW r \in Requests, Arrival(r) \/ Fail(r)
        PROVE  UNCHANGED account
    BY <2>7 DEF Arrival, Register, SignIn, Rotate, Lookup, Visit, SignOut, GoogleSignIn, Arrives,
       Fail, rows
  <2>8. (\E k \in Keys : EndWindow(k)) \/ (\E t \in Tokens : TokenExpires(t)) \/ UNCHANGED vars
          => UNCHANGED account
    BY DEF EndWindow, TokenExpires, vars, rows
  <2> HIDE DEF Kept
  <2> QED
    BY <1>1, <2>2, <2>3, <2>4, <2>5, <2>6, <2>7, <2>8 DEF Next
<1>2. RowInv /\ [Next]_vars => [Kept]_vars
  BY <1>1
<1> QED
  BY <1>2, Invariance, PTL DEF Spec, AccountsAreKept

-----------------------------------------------------------------------------
(***************************************************************************)
(* The session of an undisturbed browser.                                  *)
(***************************************************************************)

\* A refresh token of an account that was deactivated.
IsInactive(t) ==
  live[t] # None /\ account[live[t]] # None /\ ~account[live[t]].active

\* What the property says of a browser without requests.
Settled(b) ==
  IF cookie[b].error
    THEN cookie[b].token = None \/ (own[b] = {cookie[b].token} /\ IsInactive(cookie[b].token))
    ELSE own[b] = {cookie[b].token} \ {None}

\* ... and what holds on the way to it, by operation and step.
UnderWay(b, q) ==
  \/ /\ q.op \in {"login", "google"}
     /\ q.step \in {"count", "expire", "by_email", "by_identity", "link", "create", "commit",
                    "store", "refused"}
     /\ Settled(b)
  \/ /\ q.op \in {"login", "google", "refresh"} /\ q.step = "done"
     /\ q.fresh # None /\ own[b] = {q.fresh}
  \/ q.op = "visit" /\ q.step = "done" /\ q.token # None /\ own[b] = {q.token}
  \/ q.op = "logout" /\ q.step = "revoke" /\ own[b] \subseteq {q.token}
  \/ q.op = "logout" /\ q.step = "done" /\ own[b] = {}
  \/ /\ q.op = "refresh" /\ q.step \in {"check", "load", "revoke"}
     /\ q.token # None /\ own[b] = {q.token}
     /\ q.step = "load" => q.user = live[q.token]
  \/ q.op = "refresh" /\ q.step = "store" /\ own[b] = {}
  \/ /\ q.op = "refresh" /\ q.step = "refused"
     /\ q.token # None /\ own[b] = {q.token} /\ IsInactive(q.token)

QuietOK(b) ==
  /\ \A r, p \in RequestsOf(b) : r = p
  /\ RequestsOf(b) = {} => Settled(b)
  /\ \A r \in RequestsOf(b) : UnderWay(b, req[r])

\* Only a browser itself knows its valid tokens.
Knows(b, t) ==
  \/ cookie[b].token = t
  \/ \E r \in Requests : req[r].browser = b /\ t \in {req[r].token, req[r].fresh}

Exclusive ==
  \A b \in Browsers : \A t \in own[b] :
    live[t] # None /\ \A c \in Browsers \ {b} : t \notin own[c] /\ ~Knows(c, t)

\* Who issues tokens, and for whom.
IssueOK(q) ==
  /\ q.browser # None => q.op # "register"
  /\ q.step = "store" => q.op \in {"register", "login", "google", "refresh", "lookup"}
  /\ q.token # None => q.browser # None

SessionInv ==
  /\ \A r \in Requests : IssueOK(req[r])
  /\ Exclusive
  /\ \A b \in quiet : QuietOK(b)

InactiveStays ==
  \A u \in Users : account[u] # None /\ ~account[u].active
                     => account'[u] # None /\ ~account'[u].active

LEMMA QuietIsQuiet ==
  ASSUME SessionInv
  PROVE  QuietSessionHasOneToken
BY DEF SessionInv, QuietOK, Settled, IsInactive, QuietSessionHasOneToken

\* A deactivated account is never activated.
LEMMA InactiveStep ==
  ASSUME RowInv, [Next]_vars
  PROVE  InactiveStays
<1>1. TypeOK
  BY DEF RowInv
<1>2. CASE UNCHANGED account
  BY <1>2 DEF InactiveStays
<1>3. ASSUME NEW r \in Requests, Link(r)
      PROVE  InactiveStays
  <2>1. \A u \in Users : account'[u] = IF u = req[r].user
                                         THEN [account[u] EXCEPT !.subject = req[r].subject]
                                         ELSE account[u]
    BY <1>1, <1>3 DEF Link, TypeOK
  <2>2. FieldsOK(req[r]) /\ req[r].step = "link"
    BY <1>3 DEF RowInv, Link, At
  <2>3. req[r].subject \in Subjects
    BY <2>2 DEF FieldsOK
  <2>4. ASSUME NEW u \in Users, account[u] # None
        PROVE  /\ account'[u] # None
               /\ account'[u].active = account[u].active
    <3>1. account[u] \in Row
      BY <1>1, <2>4 DEF TypeOK
    <3>2. [account[u] EXCEPT !.subject = req[r].subject] \in Row
      BY <2>3, <3>1 DEF Row
    <3> QED
      BY <2>1, <2>4, <3>1, <3>2, NoneAssumption DEF Row
  <2> QED
    BY <2>4 DEF InactiveStays
<1>4. ASSUME NEW r \in Requests, Commit(r)
      PROVE  InactiveStays
  <2>1. account[req[r].user] = None
    BY <1>4 DEF RowInv, InsertOK, Commit, At
  <2>2. \A u \in Users : account[u] # None => account'[u] = account[u]
    BY <1>1, <1>4, <2>1 DEF Commit, TypeOK
  <2> QED
    BY <2>2 DEF InactiveStays
<1>5. ASSUME NEW v \in Users, Deactivate(v)
      PROVE  InactiveStays
  <2>1. account[v].active
    BY <1>5 DEF Deactivate
  <2>2. \A u \in Users \ {v} : account'[u] = account[u]
    BY <1>1, <1>5 DEF Deactivate, TypeOK
  <2> QED
    BY <2>1, <2>2 DEF InactiveStays
<1>6. ASSUME NEW r \in Requests, Serve(r), ~Link(r), ~Commit(r)
      PROVE  UNCHANGED account
  BY <1>6 DEF Serve, Count, Expire, FindEmail, RefuseSignIn, Authenticate, FindIdentity,
     FindGoogleEmail, Create, CheckSession, LoadUser, Revoke, Store, Answer, Reads, rows
<1>7. ASSUME NEW r \in Requests, Arrival(r) \/ Fail(r)
      PROVE  UNCHANGED account
  BY <1>7 DEF Arrival, Register, SignIn, Rotate, Lookup, Visit, SignOut, GoogleSignIn, Arrives,
     Fail, rows
<1>8. (\E k \in Keys : EndWindow(k)) \/ (\E t \in Tokens : TokenExpires(t)) \/ UNCHANGED vars
        => UNCHANGED account
  BY DEF EndWindow, TokenExpires, vars, rows
<1> QED
  BY <1>2, <1>3, <1>4, <1>5, <1>6, <1>7, <1>8 DEF Next

\* The requests of a browser, by function application.
LEMMA BrowserField ==
  ASSUME TypeOK, NEW r \in Requests
  PROVE  /\ req[r].browser \in Browsers \union {None}
         /\ req[r].token \in Tokens \union {None}
         /\ req[r].fresh \in Tokens \union {None}
         /\ req[r].browser # None => req[r] # Idle
<1>1. CASE req[r] = Idle
  BY <1>1 DEF Idle
<1>2. CASE req[r] # Idle
  BY <1>2, RequestFields
<1> QED
  BY <1>1, <1>2

\* What a request holds stays right while its browser's cookie and tokens do.
LEMMA UnderWayKept ==
  ASSUME InactiveStays, TypeOK, NEW b \in Browsers, NEW q,
         own'[b] = own[b], cookie'[b] = cookie[b], \A t \in own[b] : live'[t] = live[t]
  PROVE  /\ Settled(b) => Settled(b)'
         /\ UnderWay(b, q) => UnderWay(b, q)'
<1>1. ASSUME NEW t \in own[b], IsInactive(t)
      PROVE  IsInactive(t)'
  <2>1. live[t] \in Users
    BY <1>1 DEF IsInactive, TypeOK
  <2> QED
    BY <1>1, <2>1 DEF IsInactive, InactiveStays
<1>2. Settled(b) => Settled(b)'
  BY <1>1 DEF Settled
<1> QED
  BY <1>1, <1>2 DEF UnderWay

\* A step of one browser x, or of a request without one, leaves the others
\* alone, if it touches no token of theirs.
LEMMA OneBrowser ==
  ASSUME RowInv, SessionInv, InactiveStays, NEW x \in Browsers \union {None},
         \A r \in Requests : IssueOK(req[r])',
         \A r \in Requests : req'[r] # req[r] =>
           req[r].browser \in {x, None} /\ req'[r].browser \in {x, None},
         \A b \in Browsers \ {x} : cookie'[b] = cookie[b] /\ own'[b] = own[b],
         \A b \in Browsers \ {x} : \A t \in own[b] : live'[t] = live[t],
         quiet' \subseteq quiet \union {x}, quiet' \subseteq Browsers,
         x \in Browsers => \A t : Knows(x, t)' \/ t \in own'[x]
                                   => \A b \in Browsers \ {x} : t \notin own[b],
         x \in Browsers => \A t \in own'[x] :
           live'[t] # None /\ \A b \in Browsers \ {x} : ~Knows(b, t),
         x \in quiet' => QuietOK(x)'
  PROVE  SessionInv'
<1>1. TypeOK
  BY DEF RowInv
<1>2. ASSUME NEW b \in Browsers \ {x}
      PROVE  RequestsOf(b)' = RequestsOf(b) /\ \A r \in RequestsOf(b) : req'[r] = req[r]
  BY <1>2, AccountsAssumption DEF RequestsOf
<1>3. ASSUME NEW b \in Browsers \ {x}, NEW t
      PROVE  Knows(b, t)' <=> Knows(b, t)
  <2>1. b # None
    BY AccountsAssumption
  <2>2. \A r \in Requests : req'[r] # req[r] => req[r].browser # b /\ req'[r].browser # b
    BY <2>1
  <2> QED
    BY <2>2 DEF Knows
<1>4. Exclusive'
  <2> SUFFICES ASSUME NEW b \in Browsers, NEW t \in own'[b]
               PROVE  /\ live'[t] # None
                      /\ \A c \in Browsers \ {b} : t \notin own'[c] /\ ~Knows(c, t)'
    BY DEF Exclusive
  <2>1. CASE b = x
    BY <1>3, <2>1 DEF SessionInv, Exclusive
  <2>2. CASE b # x
    <3>1. t \in own[b] /\ live'[t] = live[t]
      BY <2>2
    <3>2. live[t] # None /\ \A c \in Browsers \ {b} : t \notin own[c] /\ ~Knows(c, t)
      BY <3>1 DEF SessionInv, Exclusive
    <3>3. x \in Browsers => t \notin own'[x] /\ ~Knows(x, t)'
      BY <2>2, <3>1
    <3> QED
      BY <1>3, <3>1, <3>2, <3>3
  <2> QED
    BY <2>1, <2>2
<1>5. ASSUME NEW b \in quiet'
      PROVE  QuietOK(b)'
  <2>1. CASE b = x
    BY <1>5, <2>1
  <2>2. CASE b # x
    <3>1. b \in quiet /\ b \in Browsers \ {x} /\ QuietOK(b)
      BY <1>5, <2>2 DEF SessionInv
    <3>2. RequestsOf(b)' = RequestsOf(b) /\ \A r \in RequestsOf(b) : req'[r] = req[r]
      BY <1>2, <3>1
    <3>3. Settled(b) => Settled(b)'
      BY <1>1, <3>1, UnderWayKept
    <3>4. ASSUME NEW r \in RequestsOf(b)
          PROVE  UnderWay(b, req[r])'
      <4>1. PICK q : q = req[r] /\ q = req'[r]
        BY <3>2, <3>4
      <4>2. UnderWay(b, q)
        BY <3>1, <3>4, <4>1 DEF QuietOK
      <4>3. UnderWay(b, q)'
        BY <1>1, <3>1, <4>2, UnderWayKept
      <4> QED
        BY <4>1, <4>3 DEF UnderWay
    <3> QED
      BY <3>1, <3>2, <3>3, <3>4 DEF QuietOK
  <2> QED
    BY <2>1, <2>2
<1> QED
  BY <1>4, <1>5 DEF SessionInv

\* In particular a request that moves on, with the tokens it had.
LEMMA MoveSessions ==
  ASSUME RowInv, SessionInv, InactiveStays, UNCHANGED <<sessions, browsers>>,
         NEW r \in Requests, NEW q, req' = [req EXCEPT ![r] = q],
         q.browser = req[r].browser, q.op = req[r].op \/ q.browser = None,
         q.token \in {req[r].token, None}, q.fresh \in {req[r].fresh, None},
         IssueOK(q),
         \A b \in quiet : b = req[r].browser /\ UnderWay(b, req[r]) /\ req[r].op # "lookup"
                          => UnderWay(b, q)
  PROVE  SessionInv'
<1>1. PICK x : x = req[r].browser
  OBVIOUS
<1>2. TypeOK /\ x \in Browsers \union {None}
  BY <1>1, BrowserField DEF RowInv
<1>3. /\ req'[r] = q /\ \A p \in Requests \ {r} : req'[p] = req[p]
      /\ own' = own /\ cookie' = cookie /\ live' = live /\ quiet' = quiet
      /\ quiet \subseteq Browsers
  BY <1>2 DEF TypeOK, sessions, browsers
<1>4. ASSUME NEW b \in Browsers
      PROVE  RequestsOf(b)' = RequestsOf(b)
  BY <1>3, AccountsAssumption DEF RequestsOf
<1>5. ASSUME NEW b \in Browsers, NEW t, Knows(b, t)'
      PROVE  Knows(b, t) \/ t = None
  BY <1>3, <1>5 DEF Knows
<1>6. \A p \in Requests : IssueOK(req[p])'
  BY <1>3 DEF SessionInv, IssueOK
<1>7. \A b \in Browsers : None \notin own[b]
  BY <1>2, AccountsAssumption DEF TypeOK
<1>8. x \in quiet => QuietOK(x)'
  <2> SUFFICES ASSUME x \in quiet PROVE QuietOK(x)'
    OBVIOUS
  <2>1. x \in Browsers /\ QuietOK(x)
    BY <1>3 DEF SessionInv
  <2>2. CASE req[r].op # "lookup"
    <3>1. RequestsOf(x) = {r} /\ UnderWay(x, req[r])
      BY <1>1, <2>1, <2>2 DEF QuietOK, RequestsOf
    <3>2. UnderWay(x, q)
      BY <1>1, <2>2, <3>1
    <3>3. UnderWay(x, q)'
      BY <1>2, <1>3, <2>1, <3>2, UnderWayKept
    <3>4. UnderWay(x, req[r])'
      BY <1>3, <3>3 DEF UnderWay
    <3> QED
      BY <1>3, <1>4, <2>1, <3>1, <3>4 DEF QuietOK
  <2>3. CASE req[r].op = "lookup"
    <3>1. r \notin RequestsOf(x)
      BY <2>3 DEF RequestsOf
    <3>2. Settled(x) => Settled(x)'
      BY <1>2, <1>3, <2>1, UnderWayKept
    <3>3. ASSUME NEW p \in RequestsOf(x)
          PROVE  UnderWay(x, req[p])'
      <4>1. PICK o : o = req[p] /\ o = req'[p]
        BY <1>3, <3>1, <3>3 DEF RequestsOf
      <4>2. UnderWay(x, o)'
        BY <1>2, <1>3, <2>1, <3>3, <4>1, UnderWayKept DEF QuietOK
      <4> QED
        BY <4>1, <4>2 DEF UnderWay
    <3> QED
      BY <1>4, <2>1, <3>2, <3>3 DEF QuietOK
  <2> QED
    BY <2>2, <2>3
<1>9. /\ \A p \in Requests : req'[p] # req[p] => /\ req[p].browser \in {x, None}
                                                /\ req'[p].browser \in {x, None}
      /\ x \in Browsers => \A t : Knows(x, t)' \/ t \in own'[x]
                                => \A b \in Browsers \ {x} : t \notin own[b]
      /\ x \in Browsers => \A t \in own'[x] :
           live'[t] # None /\ \A b \in Browsers \ {x} : ~Knows(b, t)
  <2>1. \A p \in Requests : req'[p] # req[p] => p = r
    BY <1>3
  <2> QED
    BY <1>1, <1>3, <1>5, <1>7, <2>1 DEF SessionInv, Exclusive
<1> QED
  BY <1>2, <1>3, <1>6, <1>8, <1>9, OneBrowser

\* The steps of a registration or a sign-in up to its answer.
SignInSteps == {"count", "expire", "by_email", "by_identity", "link", "create", "commit"}

LEMMA SignInMoves ==
  ASSUME RowInv, SessionInv, InactiveStays, UNCHANGED <<sessions, browsers>>,
         NEW r \in Requests, req[r].step \in SignInSteps,
         NEW q, req' = [req EXCEPT ![r] = q],
         q.step \in SignInSteps \union {"store", "refused"},
         q.op = req[r].op, q.browser = req[r].browser,
         q.token \in {req[r].token, None}, q.fresh \in {req[r].fresh, None}
  PROVE  SessionInv'
<1>1. FieldsOK(req[r]) /\ IssueOK(req[r])
  BY DEF RowInv, SessionInv
<1>2. req[r].op \in {"register", "login", "google"}
  BY <1>1 DEF FieldsOK, SignInSteps
<1>3. IssueOK(q)
  BY <1>1, <1>2 DEF IssueOK
<1>4. ASSUME NEW b \in quiet, UnderWay(b, req[r])
      PROVE  UnderWay(b, q)
  <2>1. Settled(b) /\ req[r].op \in {"login", "google"}
    BY <1>4 DEF UnderWay, SignInSteps
  <2> QED
    BY <2>1 DEF UnderWay, SignInSteps
<1> QED
  BY <1>3, <1>4, MoveSessions

\* What stays of a request in each of its moves.
LEMMA MovedFields ==
  ASSUME TypeOK, NEW r \in Requests, req[r] # Idle
  PROVE  /\ \A s : LET q == [req[r] EXCEPT !.step = s] IN
              q.step = s /\ q.op = req[r].op /\ q.browser = req[r].browser
              /\ q.token = req[r].token /\ q.fresh = req[r].fresh /\ q.user = req[r].user
         /\ \A s, k : LET q == [req[r] EXCEPT !.step = s, !.key = k] IN
              q.step = s /\ q.op = req[r].op /\ q.browser = req[r].browser
              /\ q.token = req[r].token /\ q.fresh = req[r].fresh
         /\ \A s, u : LET q == [req[r] EXCEPT !.step = s, !.user = u] IN
              q.step = s /\ q.op = req[r].op /\ q.browser = req[r].browser
              /\ q.token = req[r].token /\ q.fresh = req[r].fresh
         /\ \A s, u : LET q == WithUser(r, s, u) IN
              q.step = s /\ q.op = req[r].op /\ q.browser = req[r].browser
              /\ q.token = req[r].token /\ q.fresh = None /\ q.user = u
         /\ \A s, t : LET q == Answered(r, s, t) IN
              q.step = s /\ q.op = req[r].op /\ q.browser = req[r].browser
              /\ q.token = req[r].token /\ q.fresh = t
<1>1. req[r] \in [op : Ops, step : Steps, key : Keys \union {None},
                  browser : Browsers \union {None},
                  email : Spellings \union {None}, subject : Subjects \union {None},
                  user : Users \union {None}, token : Tokens \union {None},
                  fresh : Tokens \union {None}]
  BY RequestFields
<1> QED
  BY <1>1 DEF WithUser, Answered, Idle

LEMMA SignInSessions ==
  ASSUME RowInv, SessionInv, InactiveStays, NEW r \in Requests,
         \/ Count(r) \/ Expire(r) \/ FindEmail(r) \/ RefuseSignIn(r) \/ Authenticate(r)
         \/ FindIdentity(r) \/ FindGoogleEmail(r) \/ Link(r) \/ Create(r) \/ Commit(r)
  PROVE  SessionInv'
<1>1. /\ TypeOK /\ req[r] # Idle /\ req[r].step \in SignInSteps
      /\ UNCHANGED <<sessions, browsers>>
  BY DEF RowInv, Count, Expire, FindEmail, RefuseSignIn, Authenticate, FindIdentity,
     FindGoogleEmail, Link, Create, Commit, At, Idle, SignInSteps, Reads
<1>2. ASSUME NEW s \in SignInSteps \union {"store", "refused"}, Goes(r, s)
      PROVE  SessionInv'
  <2>1. PICK q : q = [req[r] EXCEPT !.step = s]
    OBVIOUS
  <2>2. /\ q.op = req[r].op /\ q.browser = req[r].browser /\ q.token = req[r].token
        /\ q.fresh \in {req[r].fresh, None} /\ q.step = s
    BY <1>1, <2>1, MovedFields
  <2>3. req' = [req EXCEPT ![r] = q]
    BY <1>2, <2>1 DEF Goes
  <2> QED
    BY <1>1, <1>2, <2>2, <2>3, SignInMoves DEF SignInSteps
<1>3. ASSUME IsAdmitted(r)
      PROVE  SessionInv'
  <2>1. PICK q : q = [req[r] EXCEPT !.step = "by_email", !.key = None]
    OBVIOUS
  <2>2. /\ q.op = req[r].op /\ q.browser = req[r].browser /\ q.token = req[r].token
        /\ q.fresh \in {req[r].fresh, None} /\ q.step = "by_email"
    BY <1>1, <2>1, MovedFields
  <2>3. req' = [req EXCEPT ![r] = q]
    BY <1>3, <2>1 DEF IsAdmitted
  <2> QED
    BY <1>1, <1>3, <2>2, <2>3, SignInMoves DEF SignInSteps
<1>4. ASSUME IsRefused(r)
      PROVE  SessionInv'
  <2>1. PICK q : q = Answered(r, "refused", None)
    OBVIOUS
  <2>2. /\ q.op = req[r].op /\ q.browser = req[r].browser /\ q.token = req[r].token
        /\ q.fresh \in {req[r].fresh, None} /\ q.step = "refused"
    BY <1>1, <2>1, MovedFields
  <2>3. req' = [req EXCEPT ![r] = q]
    BY <1>4, <2>1 DEF IsRefused
  <2> QED
    BY <1>1, <1>4, <2>2, <2>3, SignInMoves DEF SignInSteps
<1>5. ASSUME NEW u, GetsUser(r, "store", u)
      PROVE  SessionInv'
  <2>1. PICK q : q = WithUser(r, "store", u)
    OBVIOUS
  <2>2. /\ q.op = req[r].op /\ q.browser = req[r].browser /\ q.token = req[r].token
        /\ q.fresh \in {req[r].fresh, None} /\ q.step = "store"
    BY <1>1, <2>1, MovedFields
  <2>3. req' = [req EXCEPT ![r] = q]
    BY <1>5, <2>1 DEF GetsUser
  <2> QED
    BY <1>1, <1>5, <2>2, <2>3, SignInMoves DEF SignInSteps
<1>6. ASSUME NEW s \in SignInSteps, NEW u, req' = [req EXCEPT ![r].step = s, ![r].user = u]
      PROVE  SessionInv'
  <2>1. PICK q : q = [req[r] EXCEPT !.step = s, !.user = u]
    OBVIOUS
  <2>2. /\ q.op = req[r].op /\ q.browser = req[r].browser /\ q.token = req[r].token
        /\ q.fresh \in {req[r].fresh, None} /\ q.step = s
    BY <1>1, <2>1, MovedFields
  <2>3. req' = [req EXCEPT ![r] = q]
    BY <1>6, <2>1
  <2> QED
    BY <1>1, <1>6, <2>2, <2>3, SignInMoves DEF SignInSteps
<1>7. CASE Count(r) \/ Expire(r)
  BY <1>2, <1>3, <1>4, <1>7 DEF Count, Expire, SignInSteps
<1>8. CASE FindEmail(r) \/ RefuseSignIn(r) \/ Authenticate(r)
  BY <1>2, <1>4, <1>5, <1>8 DEF FindEmail, RefuseSignIn, Authenticate, SignInSteps
<1>9. CASE FindIdentity(r) \/ FindGoogleEmail(r)
  BY <1>2, <1>5, <1>6, <1>9 DEF FindIdentity, FindGoogleEmail, SignInSteps
<1>10. CASE Link(r) \/ Create(r) \/ Commit(r)
  BY <1>4, <1>5, <1>6, <1>10 DEF Link, Create, Commit, SignInSteps
<1> QED
  BY <1>7, <1>8, <1>9, <1>10

\* The reads of a rotation.  A quiet browser's token is valid, and refused only
\* because its account is inactive.
LEMMA RotationSessions ==
  ASSUME RowInv, SessionInv, InactiveStays, NEW r \in Requests, CheckSession(r) \/ LoadUser(r)
  PROVE  SessionInv'
<1>1. /\ TypeOK /\ req[r] # Idle /\ req[r].step \in {"check", "load"}
      /\ UNCHANGED <<sessions, browsers>>
  BY DEF RowInv, CheckSession, LoadUser, At, Idle, Reads
<1>2. FieldsOK(req[r]) /\ IssueOK(req[r]) /\ UserOK(req[r])
  BY DEF RowInv, SessionInv
<1>3. ASSUME NEW b \in quiet, b = req[r].browser, UnderWay(b, req[r]), req[r].op # "lookup"
      PROVE  /\ req[r].op = "refresh" /\ req[r].token # None /\ own[b] = {req[r].token}
             /\ req[r].step = "load" => req[r].user = live[req[r].token]
             /\ live[req[r].token] # None
  <2>1. /\ req[r].op = "refresh" /\ req[r].token # None /\ own[b] = {req[r].token}
        /\ req[r].step = "load" => req[r].user = live[req[r].token]
    BY <1>1, <1>3 DEF UnderWay
  <2>2. b \in Browsers /\ req[r].token \in own[b]
    BY <1>1, <2>1 DEF TypeOK
  <2> QED
    BY <2>1, <2>2 DEF SessionInv, Exclusive
<1>4. CASE /\ IsRefused(r)
           /\ \/ At(r, "check") /\ live[req[r].token] = None
              \/ At(r, "load") /\ ~account[req[r].user].active
  <2> DEFINE q == Answered(r, "refused", None)
  <2>1. /\ q.step = "refused" /\ q.op = req[r].op /\ q.browser = req[r].browser
        /\ q.token = req[r].token /\ q.fresh = None
    BY <1>1, MovedFields
  <2>2. req' = [req EXCEPT ![r] = q]
    BY <1>4 DEF IsRefused
  <2> HIDE DEF q
  <2>3. IssueOK(q)
    BY <1>2, <2>1 DEF IssueOK
  <2>4. ASSUME NEW b \in quiet, b = req[r].browser, UnderWay(b, req[r]), req[r].op # "lookup"
        PROVE  UnderWay(b, q)
    <3>1. /\ req[r].op = "refresh" /\ req[r].token # None /\ own[b] = {req[r].token}
          /\ req[r].step = "load" => req[r].user = live[req[r].token]
          /\ live[req[r].token] # None
      BY <1>3, <2>4
    <3>2. At(r, "load") /\ ~account[req[r].user].active
      BY <1>4, <3>1
    <3>3. account[req[r].user] # None
      BY <1>2, <3>2 DEF UserOK, Registered, At
    <3>4. req[r].user = live[req[r].token]
      BY <3>1, <3>2 DEF At
    <3>5. IsInactive(req[r].token)
      BY <3>1, <3>2, <3>3, <3>4 DEF IsInactive
    <3> QED
      BY <2>1, <3>1, <3>5 DEF UnderWay, IsInactive
  <2> QED
    BY <1>1, <2>1, <2>2, <2>3, <2>4, MoveSessions
<1>5. CASE At(r, "check") /\ GetsUser(r, "load", live[req[r].token])
  <2> DEFINE q == WithUser(r, "load", live[req[r].token])
  <2>1. /\ q.step = "load" /\ q.op = req[r].op /\ q.browser = req[r].browser
        /\ q.token = req[r].token /\ q.fresh = None /\ q.user = live[req[r].token]
    BY <1>1, MovedFields
  <2>2. req' = [req EXCEPT ![r] = q]
    BY <1>5 DEF GetsUser
  <2> HIDE DEF q
  <2>3. IssueOK(q)
    BY <1>2, <2>1 DEF IssueOK
  <2>4. ASSUME NEW b \in quiet, b = req[r].browser, UnderWay(b, req[r]), req[r].op # "lookup"
        PROVE  UnderWay(b, q)
    BY <1>3, <2>1, <2>4 DEF UnderWay
  <2> QED
    BY <1>1, <2>1, <2>2, <2>3, <2>4, MoveSessions
<1>6. CASE At(r, "load") /\ Goes(r, "revoke")
  <2> DEFINE q == [req[r] EXCEPT !.step = "revoke"]
  <2>1. /\ q.step = "revoke" /\ q.op = req[r].op /\ q.browser = req[r].browser
        /\ q.token = req[r].token /\ q.fresh = req[r].fresh
    BY <1>1, MovedFields
  <2>2. req' = [req EXCEPT ![r] = q]
    BY <1>6 DEF Goes
  <2> HIDE DEF q
  <2>3. IssueOK(q)
    BY <1>2, <2>1 DEF IssueOK
  <2>4. ASSUME NEW b \in quiet, b = req[r].browser, UnderWay(b, req[r]), req[r].op # "lookup"
        PROVE  UnderWay(b, q)
    BY <1>3, <2>1, <2>4 DEF UnderWay
  <2> QED
    BY <1>1, <2>1, <2>2, <2>3, <2>4, MoveSessions
<1> QED
  BY <1>4, <1>5, <1>6 DEF CheckSession, LoadUser

\* Steps of no browser.
LEMMA NoRequestMoves ==
  ASSUME RowInv, SessionInv, InactiveStays, UNCHANGED <<sessions, browsers, req>>
  PROVE  SessionInv'
<1>1. /\ own' = own /\ cookie' = cookie /\ live' = live /\ quiet' = quiet /\ req' = req
      /\ quiet \subseteq Browsers
  BY DEF RowInv, TypeOK, sessions, browsers
<1>2. None \notin Browsers
  BY AccountsAssumption
<1>3. \A r \in Requests : IssueOK(req[r])'
  BY <1>1 DEF SessionInv, IssueOK
<1> QED
  BY <1>1, <1>2, <1>3, OneBrowser

\* A browser begins a request that will write its cookie.  If it has another one
\* under way it is not quiet any more.
LEMMA ArriveSessions ==
  ASSUME RowInv, SessionInv, InactiveStays, NEW r \in Requests, NEW b \in Browsers, NEW q,
         Arrives(r, q), Overlaps(b), q.op # "lookup",
         q.browser = b, q.token \in {cookie[b].token, None}, q.fresh = None,
         q.op # "register", q.step # "store",
         Settled(b) => UnderWay(b, q)
  PROVE  SessionInv'
<1>1. /\ TypeOK /\ req[r] = Idle /\ b # None
      /\ req'[r] = q /\ \A p \in Requests \ {r} : req'[p] = req[p]
      /\ own' = own /\ cookie' = cookie /\ live' = live
      /\ quiet' \subseteq quiet /\ quiet \subseteq Browsers
      /\ b \in quiet' => b \in quiet /\ RequestsOf(b) = {}
  BY AccountsAssumption DEF RowInv, TypeOK, Arrives, sessions, Overlaps
<1>2. Idle.browser = None /\ Idle.token = None /\ Idle.fresh = None
  BY DEF Idle
<1>3. \A p \in Requests : IssueOK(req[p])'
  BY <1>1 DEF SessionInv, IssueOK
<1>4. RequestsOf(b)' = RequestsOf(b) \union {r}
  BY <1>1, <1>2 DEF RequestsOf
<1>5. ASSUME NEW t, Knows(b, t)'
      PROVE  Knows(b, t) \/ t = None
  BY <1>1, <1>5 DEF Knows
<1>6. \A c \in Browsers : None \notin own[c]
  BY <1>1, AccountsAssumption DEF TypeOK
<1>7. ASSUME b \in quiet' PROVE QuietOK(b)'
  <2>1. RequestsOf(b)' = {r} /\ UnderWay(b, q)
    BY <1>1, <1>4, <1>7 DEF SessionInv, QuietOK
  <2>2. UnderWay(b, q)'
    BY <1>1, <2>1, UnderWayKept
  <2>3. UnderWay(b, req[r])'
    BY <1>1, <2>2 DEF UnderWay
  <2> QED
    BY <2>1, <2>3 DEF QuietOK
<1>8. /\ \A p \in Requests : req'[p] # req[p] => /\ req[p].browser \in {b, None}
                                                /\ req'[p].browser \in {b, None}
      /\ \A t : Knows(b, t)' \/ t \in own'[b] => \A c \in Browsers \ {b} : t \notin own[c]
      /\ \A t \in own'[b] : live'[t] # None /\ \A c \in Browsers \ {b} : ~Knows(c, t)
  <2>1. \A p \in Requests : req'[p] # req[p] => p = r
    BY <1>1
  <2> QED
    BY <1>1, <1>2, <1>5, <1>6, <2>1 DEF SessionInv, Exclusive
<1> QED
  BY <1>1, <1>3, <1>7, <1>8, OneBrowser

\* A page or a route handler begins to rotate: it knows the token of the cookie.
LEMMA LookupSessions ==
  ASSUME RowInv, SessionInv, InactiveStays, NEW r \in Requests, NEW b \in Browsers, Lookup(r, b)
  PROVE  SessionInv'
<1>1. PICK q : q = [Idle EXCEPT !.op = "lookup", !.step = "check", !.browser = b,
                                !.token = cookie[b].token]
  OBVIOUS
<1>2. /\ q.browser = b /\ q.step = "check" /\ q.op = "lookup" /\ q.token = cookie[b].token
      /\ q.fresh = None /\ Idle.browser = None
  BY <1>1 DEF Idle
<1>3. /\ TypeOK /\ req[r] = Idle /\ b # None
      /\ req'[r] = q /\ \A p \in Requests \ {r} : req'[p] = req[p]
      /\ own' = own /\ cookie' = cookie /\ live' = live
      /\ quiet' = quiet /\ quiet \subseteq Browsers
  BY <1>1, AccountsAssumption DEF RowInv, TypeOK, Lookup, Arrives, sessions
<1>4. \A p \in Requests : IssueOK(req[p])'
  BY <1>2, <1>3 DEF SessionInv, IssueOK
<1>5. RequestsOf(b)' = RequestsOf(b) /\ r \notin RequestsOf(b)
  BY <1>2, <1>3 DEF RequestsOf
<1>6. ASSUME NEW t, Knows(b, t)'
      PROVE  Knows(b, t) \/ t = None
  BY <1>2, <1>3, <1>6 DEF Knows
<1>7. \A c \in Browsers : None \notin own[c]
  BY <1>3, AccountsAssumption DEF TypeOK
<1>8. ASSUME b \in quiet PROVE QuietOK(b)'
  <2>1. Settled(b) => Settled(b)'
    BY <1>3, UnderWayKept
  <2>2. ASSUME NEW p \in RequestsOf(b)
        PROVE  UnderWay(b, req[p])'
    <3>1. PICK o : o = req[p] /\ o = req'[p]
      BY <1>3, <1>5, <2>2 DEF RequestsOf
    <3>2. UnderWay(b, o)'
      BY <1>3, <1>8, <2>2, <3>1, UnderWayKept DEF SessionInv, QuietOK
    <3> QED
      BY <3>1, <3>2 DEF UnderWay
  <2> QED
    BY <1>5, <1>8, <2>1, <2>2 DEF SessionInv, QuietOK
<1>9. /\ \A p \in Requests : req'[p] # req[p] => /\ req[p].browser \in {b, None}
                                                /\ req'[p].browser \in {b, None}
      /\ \A t : Knows(b, t)' \/ t \in own'[b] => \A c \in Browsers \ {b} : t \notin own[c]
      /\ \A t \in own'[b] : live'[t] # None /\ \A c \in Browsers \ {b} : ~Knows(c, t)
  <2>1. \A p \in Requests : req'[p] # req[p] => p = r
    BY <1>3
  <2> QED
    BY <1>2, <1>3, <1>6, <1>7, <2>1 DEF SessionInv, Exclusive
<1> QED
  BY <1>3, <1>4, <1>8, <1>9, OneBrowser

LEMMA ArrivalSessions ==
  ASSUME RowInv, SessionInv, InactiveStays, NEW r \in Requests, Arrival(r)
  PROVE  SessionInv'
<1>1. CASE \E k \in Keys, e \in Spellings : Register(r, k, e)
  <2>1. PICK k \in Keys, e \in Spellings : Register(r, k, e)
    BY <1>1
  <2>2. PICK q : q = [Idle EXCEPT !.op = "register", !.step = "count", !.key = k, !.email = e]
    OBVIOUS
  <2>3. /\ q.browser = None /\ q.step = "count" /\ q.op = "register" /\ q.token = None
        /\ q.fresh = None /\ Idle.browser = None /\ Idle.token = None /\ Idle.fresh = None
    BY <2>2 DEF Idle
  <2>4. /\ req[r] = Idle /\ req' = [req EXCEPT ![r] = q] /\ UNCHANGED <<sessions, browsers>>
    BY <2>1, <2>2 DEF Register, Arrives, browsers
  <2>5. None \notin quiet
    BY AccountsAssumption DEF RowInv, TypeOK
  <2>6. IssueOK(q)
    BY <2>3 DEF IssueOK
  <2> QED
    BY <2>3, <2>4, <2>5, <2>6, MoveSessions
<1>2. ASSUME NEW b \in Browsers, NEW k \in Keys, NEW e \in Spellings, SignIn(r, k, b, e)
      PROVE  SessionInv'
  <2>1. PICK q : q = [Idle EXCEPT !.op = "login", !.step = "count", !.key = k,
                                  !.browser = b, !.email = e]
    OBVIOUS
  <2>2. /\ q.browser = b /\ q.step = "count" /\ q.op = "login" /\ q.token = None
        /\ q.fresh = None
    BY <2>1 DEF Idle
  <2>3. Settled(b) => UnderWay(b, q)
    BY <2>2 DEF UnderWay
  <2> QED
    BY <1>2, <2>1, <2>2, <2>3, ArriveSessions DEF SignIn
<1>3. ASSUME NEW b \in Browsers, NEW s \in Subjects, GoogleSignIn(r, b, s)
      PROVE  SessionInv'
  <2>1. PICK q : q = [Idle EXCEPT !.op = "google", !.step = "by_identity", !.browser = b,
                                  !.email = EmailOf[s], !.subject = s]
    OBVIOUS
  <2>2. /\ q.browser = b /\ q.step = "by_identity" /\ q.op = "google" /\ q.token = None
        /\ q.fresh = None
    BY <2>1 DEF Idle
  <2>3. Settled(b) => UnderWay(b, q)
    BY <2>2 DEF UnderWay
  <2> QED
    BY <1>3, <2>1, <2>2, <2>3, ArriveSessions DEF GoogleSignIn
<1>4. ASSUME NEW b \in Browsers, Rotate(r, b)
      PROVE  SessionInv'
  <2>1. PICK q : q = [Idle EXCEPT !.op = "refresh", !.step = "check", !.browser = b,
                                  !.token = cookie[b].token]
    OBVIOUS
  <2>2. /\ q.browser = b /\ q.step = "check" /\ q.op = "refresh" /\ q.token = cookie[b].token
        /\ q.fresh = None
    BY <2>1 DEF Idle
  <2>3. Settled(b) => UnderWay(b, q)
    BY <1>4, <2>2 DEF Rotate, Settled, UnderWay
  <2> QED
    BY <1>4, <2>1, <2>2, <2>3, ArriveSessions DEF Rotate
<1>5. ASSUME NEW b \in Browsers, Visit(r, b)
      PROVE  SessionInv'
  <2>1. PICK q : q = [Idle EXCEPT !.op = "visit", !.step = "done", !.browser = b,
                                  !.token = cookie[b].token]
    OBVIOUS
  <2>2. /\ q.browser = b /\ q.step = "done" /\ q.op = "visit" /\ q.token = cookie[b].token
        /\ q.fresh = None
    BY <2>1 DEF Idle
  <2>3. Settled(b) => UnderWay(b, q)
    BY <1>5, <2>2 DEF Visit, Settled, UnderWay
  <2> QED
    BY <1>5, <2>1, <2>2, <2>3, ArriveSessions DEF Visit
<1>6. ASSUME NEW b \in Browsers, SignOut(r, b)
      PROVE  SessionInv'
  <2>1. PICK q : q = [Idle EXCEPT !.op = "logout", !.step = "revoke", !.browser = b,
                                  !.token = cookie[b].token]
    OBVIOUS
  <2>2. /\ q.browser = b /\ q.step = "revoke" /\ q.op = "logout" /\ q.token = cookie[b].token
        /\ q.fresh = None
    BY <2>1 DEF Idle
  <2>3. Settled(b) => UnderWay(b, q)
    BY <1>6, <2>2 DEF SignOut, Settled, UnderWay
  <2> QED
    BY <1>6, <2>1, <2>2, <2>3, ArriveSessions DEF SignOut
<1> QED
  BY <1>1, <1>2, <1>3, <1>4, <1>5, <1>6, LookupSessions DEF Arrival

\* A token is revoked by the browser that has it, if any has.
LEMMA RevokeSessions ==
  ASSUME RowInv, SessionInv, InactiveStays, NEW r \in Requests, Revoke(r)
  PROVE  SessionInv'
<1>1. PICK x : x = req[r].browser
  OBVIOUS
<1>2. PICK t : t = req[r].token
  OBVIOUS
<1>3. PICK s : s = IF req[r].op \in Rotations THEN "store" ELSE "done"
  OBVIOUS
<1>4. PICK q : q = [req[r] EXCEPT !.step = s]
  OBVIOUS
<1>5. /\ TypeOK /\ req[r] # Idle /\ FieldsOK(req[r]) /\ IssueOK(req[r]) /\ req[r].step = "revoke"
  BY DEF RowInv, SessionInv, Revoke, At, Idle
<1>6. /\ q.step = s /\ q.op = req[r].op /\ q.browser = x /\ q.token = t
      /\ q.fresh = req[r].fresh
  BY <1>1, <1>2, <1>4, <1>5, MovedFields
<1>7. t \in Tokens /\ t # None /\ x \in Browsers
  BY <1>1, <1>2, <1>5, BrowserField, AccountsAssumption DEF FieldsOK, IssueOK
<1>8. /\ req'[r] = q /\ \A p \in Requests \ {r} : req'[p] = req[p]
      /\ cookie' = cookie /\ quiet \subseteq Browsers
      /\ quiet' = IF req[r].op = "lookup" THEN quiet \ {x} ELSE quiet
      /\ \A b \in Browsers : own'[b] = own[b] \ {t}
      /\ \A y \in Tokens : live'[y] = IF y = t THEN None ELSE live[y]
      /\ \A b \in Browsers : own[b] \subseteq Tokens
  BY <1>1, <1>2, <1>3, <1>4, <1>5 DEF Revoke, Delete, Goes, TypeOK
<1>9. Knows(x, t) /\ \A b \in Browsers \ {x} : t \notin own[b]
  BY <1>1, <1>2, <1>7 DEF Knows, SessionInv, Exclusive
<1>10. \A b : RequestsOf(b)' = RequestsOf(b)
  BY <1>1, <1>6, <1>8 DEF RequestsOf
<1>11. \A y : Knows(x, y)' => Knows(x, y)
  BY <1>1, <1>2, <1>6, <1>8, <1>10 DEF Knows
<1>12. \A p \in Requests : IssueOK(req[p])'
  <2>1. IssueOK(q)
    <3>1. q.browser # None /\ q.op # "register"
      BY <1>1, <1>5, <1>6, <1>7, AccountsAssumption DEF IssueOK
    <3>2. q.step = "store" => q.op \in {"refresh", "lookup"}
      BY <1>3, <1>6 DEF Rotations
    <3> QED
      BY <3>1, <3>2 DEF IssueOK
  <2> QED
    BY <1>8, <2>1 DEF SessionInv, IssueOK
<1>13. ASSUME x \in quiet' PROVE QuietOK(x)'
  <2>1. RequestsOf(x) = {r} /\ UnderWay(x, req[r]) /\ req[r].op # "lookup"
    BY <1>1, <1>7, <1>8, <1>13 DEF SessionInv, QuietOK, RequestsOf
  <2>2. req[r].op \in {"refresh", "logout"} /\ own[x] \subseteq {t}
    BY <1>2, <1>5, <2>1 DEF UnderWay
  <2>3. own'[x] = {}
    BY <1>7, <1>8, <2>2
  <2>4. UnderWay(x, req[r])'
    BY <1>3, <1>6, <1>8, <2>2, <2>3 DEF UnderWay, Rotations
  <2> QED
    BY <1>10, <2>1, <2>4 DEF QuietOK
<1>14. /\ \A p \in Requests : req'[p] # req[p] => /\ req[p].browser \in {x, None}
                                                 /\ req'[p].browser \in {x, None}
       /\ \A b \in Browsers \ {x} : own'[b] = own[b] /\ \A y \in own[b] : live'[y] = live[y]
       /\ \A y : Knows(x, y)' \/ y \in own'[x] => \A b \in Browsers \ {x} : y \notin own[b]
       /\ \A y \in own'[x] : live'[y] # None /\ \A b \in Browsers \ {x} : ~Knows(b, y)
  <2>1. \A p \in Requests : req'[p] # req[p] => p = r
    BY <1>8
  <2>2. \A p \in Requests : req'[p] # req[p] => /\ req[p].browser \in {x, None}
                                                /\ req'[p].browser \in {x, None}
    BY <1>1, <1>6, <1>8, <2>1
  <2>3. \A b \in Browsers \ {x} : own'[b] = own[b] /\ \A y \in own[b] : live'[y] = live[y]
    BY <1>8, <1>9
  <2>4. \A y : Knows(x, y)' \/ y \in own'[x] => \A b \in Browsers \ {x} : y \notin own[b]
    BY <1>7, <1>8, <1>11 DEF SessionInv, Exclusive
  <2>5. \A y \in own'[x] : live'[y] # None /\ \A b \in Browsers \ {x} : ~Knows(b, y)
    BY <1>7, <1>8 DEF SessionInv, Exclusive
  <2> QED
    BY <2>2, <2>3, <2>4, <2>5
<1> QED
  BY <1>7, <1>8, <1>12, <1>13, <1>14, OneBrowser

\* A new token is known to its browser alone, and its only one after a sign-in.
LEMMA StoreSessions ==
  ASSUME RowInv, SessionInv, InactiveStays, NEW r \in Requests, Store(r)
  PROVE  SessionInv'
<1>1. PICK x : x = req[r].browser
  OBVIOUS
<1>2. PICK t \in FreshTokens :
        /\ live' = [live EXCEPT ![t] = req[r].user]
        /\ req' = [req EXCEPT ![r] = Answered(r, "done", t)]
        /\ own' = [b \in Browsers |->
                    IF b # req[r].browser THEN own[b]
                    ELSE IF req[r].op \in Rotations THEN own[b] \union {t} ELSE {t}]
  BY DEF Store
<1>3. PICK q : q = Answered(r, "done", t)
  OBVIOUS
<1>4. /\ TypeOK /\ req[r] # Idle /\ UserOK(req[r]) /\ IssueOK(req[r]) /\ req[r].step = "store"
  BY DEF RowInv, SessionInv, Store, At, Idle
<1>5. /\ q.step = "done" /\ q.op = req[r].op /\ q.browser = x /\ q.token = req[r].token
      /\ q.fresh = t
  BY <1>1, <1>3, <1>4, MovedFields
<1>6. /\ x \in Browsers \union {None} /\ req[r].user \in Users /\ req[r].user # None
      /\ t \in Tokens /\ t # None /\ live[t] = None
      /\ \A b \in Browsers : ~Knows(b, t)
  <2>1. req[r].user \in Users
    BY <1>4 DEF UserOK, Registered
  <2>2. t \in Tokens /\ live[t] = None /\ \A b \in Browsers : cookie[b].token # t
    BY DEF FreshTokens
  <2>3. \A p \in Requests : t # req[p].token /\ t # req[p].fresh
    BY DEF FreshTokens
  <2>4. \A b \in Browsers : ~Knows(b, t)
    BY <2>2, <2>3 DEF Knows
  <2> QED
    BY <1>1, <1>4, <2>1, <2>2, <2>4, BrowserField, AccountsAssumption
<1>7. /\ req'[r] = q /\ \A p \in Requests \ {r} : req'[p] = req[p]
      /\ cookie' = cookie /\ quiet \subseteq Browsers
      /\ \A b \in Browsers \ {x} : own'[b] = own[b]
      /\ x \in Browsers => own'[x] = IF req[r].op \in Rotations THEN own[x] \union {t} ELSE {t}
      /\ \A y \in Tokens : live'[y] = IF y = t THEN req[r].user ELSE live[y]
      /\ \A b \in Browsers : own[b] \subseteq Tokens /\ t \notin own[b]
  <2>1. \A b \in Browsers : own[b] \subseteq Tokens /\ t \notin own[b]
    BY <1>4, <1>6 DEF TypeOK, SessionInv, Exclusive
  <2>2. cookie' = cookie
    BY DEF Store
  <2> QED
    BY <1>1, <1>2, <1>3, <1>4, <2>1, <2>2 DEF TypeOK
<1>8. quiet' = IF x = None \/ req[r].op = "refresh" THEN quiet
               ELSE IF req[r].op # "lookup" /\ RequestsOf(x) = {r} THEN quiet \union {x}
               ELSE quiet \ {x}
  BY <1>1 DEF Store
<1>9. \A b : RequestsOf(b)' = RequestsOf(b)
  BY <1>1, <1>5, <1>7 DEF RequestsOf
<1>10. \A b \in Browsers : \A y : Knows(b, y)' => Knows(b, y) \/ (b = x /\ y = t)
  BY <1>1, <1>5, <1>7, <1>9 DEF Knows
<1>11. \A p \in Requests : IssueOK(req[p])'
  <2>1. IssueOK(q)
    BY <1>1, <1>4, <1>5 DEF IssueOK
  <2> QED
    BY <1>7, <2>1 DEF SessionInv, IssueOK
<1>12. ASSUME x \in Browsers, x \in quiet' PROVE QuietOK(x)'
  <2>1. x # None
    BY <1>12, AccountsAssumption
  <2>2. RequestsOf(x) = {r} /\ own'[x] = {t} /\ req[r].op \in {"login", "google", "refresh"}
    <3>1. CASE req[r].op = "refresh"
      <4>1. x \in quiet
        BY <1>8, <1>12, <3>1
      <4>2. RequestsOf(x) = {r} /\ UnderWay(x, req[r])
        BY <1>1, <3>1, <4>1 DEF SessionInv, QuietOK, RequestsOf
      <4>3. own[x] = {}
        BY <1>4, <3>1, <4>2 DEF UnderWay
      <4> QED
        BY <1>7, <1>12, <3>1, <4>2, <4>3 DEF Rotations
    <3>2. CASE req[r].op # "refresh"
      <4>1. RequestsOf(x) = {r} /\ req[r].op # "lookup"
        BY <1>8, <1>12, <2>1, <3>2
      <4>2. req[r].op \in {"login", "google"}
        BY <1>1, <1>4, <2>1, <3>2, <4>1 DEF IssueOK
      <4> QED
        BY <1>7, <1>12, <3>2, <4>1, <4>2 DEF Rotations
    <3> QED
      BY <3>1, <3>2
  <2>3. UnderWay(x, req[r])'
    BY <1>5, <1>6, <1>7, <2>2 DEF UnderWay
  <2> QED
    BY <1>9, <2>2, <2>3 DEF QuietOK
<1>13. /\ \A p \in Requests : req'[p] # req[p] => /\ req[p].browser \in {x, None}
                                                 /\ req'[p].browser \in {x, None}
       /\ \A b \in Browsers \ {x} : \A y \in own[b] : live'[y] = live[y]
       /\ quiet' \subseteq quiet \union {x} /\ quiet' \subseteq Browsers
       /\ x \in Browsers => \A y : Knows(x, y)' \/ y \in own'[x]
                                     => \A b \in Browsers \ {x} : y \notin own[b]
       /\ x \in Browsers => \A y \in own'[x] :
            live'[y] # None /\ \A b \in Browsers \ {x} : ~Knows(b, y)
  <2>1. \A p \in Requests : req'[p] # req[p] => p = r
    BY <1>7
  <2>2. \A p \in Requests : req'[p] # req[p] => /\ req[p].browser \in {x, None}
                                                /\ req'[p].browser \in {x, None}
    BY <1>1, <1>5, <1>7, <2>1
  <2>3. \A b \in Browsers \ {x} : \A y \in own[b] : live'[y] = live[y]
    BY <1>7
  <2>4. quiet' \subseteq quiet \union {x} /\ quiet' \subseteq Browsers
    BY <1>6, <1>7, <1>8
  <2>5. x \in Browsers => \A y : Knows(x, y)' \/ y \in own'[x]
                                   => \A b \in Browsers \ {x} : y \notin own[b]
    BY <1>7, <1>10 DEF SessionInv, Exclusive
  <2>6. x \in Browsers => \A y \in own'[x] :
          live'[y] # None /\ \A b \in Browsers \ {x} : ~Knows(b, y)
    BY <1>6, <1>7 DEF SessionInv, Exclusive
  <2> QED
    BY <2>2, <2>3, <2>4, <2>5, <2>6
<1>14. x \in quiet' => QuietOK(x)'
  BY <1>12, <1>13
<1> QED
  BY <1>6, <1>7, <1>11, <1>13, <1>14, OneBrowser

\* An answer settles the session of a quiet browser.
LEMMA AnswerSessions ==
  ASSUME RowInv, SessionInv, InactiveStays, NEW r \in Requests, Answer(r) \/ Fail(r)
  PROVE  SessionInv'
<1>1. PICK x : x = req[r].browser
  OBVIOUS
<1>2. /\ TypeOK /\ req[r] # Idle /\ x \in Browsers \union {None} /\ None \notin Browsers
      /\ Idle.browser = None /\ IssueOK(Idle)
  BY <1>1, BrowserField, AccountsAssumption DEF RowInv, Answer, Fail, Idle, IssueOK
<1>3. /\ req'[r] = Idle /\ \A p \in Requests \ {r} : req'[p] = req[p]
      /\ own' = own /\ live' = live
      /\ quiet' = IF Answer(r) \/ req[r].op = "lookup" THEN quiet ELSE quiet \ {x}
  <2>1. req' = [req EXCEPT ![r] = Idle] /\ UNCHANGED sessions
    BY DEF Answer, Fail
  <2>2. quiet' = IF Answer(r) \/ req[r].op = "lookup" THEN quiet ELSE quiet \ {x}
    <3>1. CASE Answer(r)
      BY <3>1 DEF Answer
    <3>2. CASE ~Answer(r)
      <4>1. quiet' = IF req[r].op = "lookup" THEN quiet ELSE quiet \ {x}
        BY <1>1, <3>2 DEF Fail
      <4> QED
        BY <3>2, <4>1
    <3> QED
      BY <3>1, <3>2
  <2> QED
    BY <1>2, <2>1, <2>2 DEF TypeOK, sessions
<1>4. /\ quiet \subseteq Browsers
      /\ \A b \in Browsers \ {x} : cookie'[b] = cookie[b]
      /\ x \in Browsers => cookie'[x] \in {cookie[x], SignedOut, CookieAfter(r)}
      /\ Answer(r) /\ x \in Browsers => cookie'[x] = CookieAfter(r)
      /\ req[r].op = "lookup" => \A b \in Browsers : cookie'[b] = cookie[b]
  <2>1. CASE Answer(r)
    BY <1>1, <1>2, <2>1 DEF TypeOK, Answer, CookieAfter
  <2>2. CASE ~Answer(r)
    BY <1>1, <1>2, <2>2 DEF TypeOK, Fail
  <2> QED
    BY <2>1, <2>2
<1>5. x \in Browsers => CookieAfter(r).token \in {cookie[x].token, req[r].token, req[r].fresh, None}
  BY <1>1 DEF CookieAfter, SignedOut
<1>6. x \in Browsers => RequestsOf(x)' = RequestsOf(x) \ {r}
  BY <1>1, <1>2, <1>3 DEF RequestsOf
<1>7. ASSUME x \in Browsers, NEW y, Knows(x, y)'
      PROVE  Knows(x, y) \/ y = None
  <2>1. cookie'[x].token \in {cookie[x].token, req[r].token, req[r].fresh, None}
    BY <1>4, <1>5, <1>7 DEF SignedOut
  <2>2. cookie'[x].token = y => Knows(x, y) \/ y = None
    BY <1>1, <2>1 DEF Knows
  <2>3. \A p \in Requests : req'[p].browser = x => req'[p] = req[p]
    BY <1>2, <1>3, <1>7
  <2> QED
    BY <1>7, <2>2, <2>3 DEF Knows
<1>8. \A b \in Browsers : None \notin own[b]
  BY <1>2, AccountsAssumption DEF TypeOK
<1>9. \A p \in Requests : IssueOK(req[p])'
  BY <1>2, <1>3 DEF SessionInv, IssueOK
<1>10. ASSUME x \in quiet', req[r].op # "lookup" PROVE QuietOK(x)'
  <2>1. x \in quiet /\ x \in Browsers /\ Answer(r)
    BY <1>3, <1>4, <1>10
  <2>2. RequestsOf(x)' = {} /\ UnderWay(x, req[r])
    BY <1>1, <1>6, <1>10, <2>1 DEF SessionInv, QuietOK, RequestsOf
  <2>3. PICK q : q = req[r]
    OBVIOUS
  <2>4. PICK c : c = CookieAfter(r)
    OBVIOUS
  <2>5. /\ q.step \in {"done", "refused"} /\ UnderWay(x, q) /\ cookie'[x] = c
        /\ c = CASE q.step = "refused" /\ q.op = "refresh" -> [token |-> q.token, error |-> TRUE]
                 [] q.step = "refused" /\ q.op = "google"  -> [token |-> None, error |-> TRUE]
                 [] q.step = "refused" /\ q.op = "login"   -> cookie[x]
                 [] q.step = "done" /\ q.op = "visit"      -> [token |-> q.token, error |-> FALSE]
                 [] q.step = "done" /\ q.op = "logout"     -> SignedOut
                 [] OTHER                                  -> [token |-> q.fresh, error |-> FALSE]
    BY <1>1, <1>4, <1>10, <2>1, <2>2, <2>3, <2>4 DEF Answer, CookieAfter
  <2>6. \A t : t # None /\ own[x] = {t} /\ IsInactive(t) => IsInactive(t)'
    <3>1. account' = account
      BY DEF Answer, Fail, rows
    <3> QED
      BY <1>3, <3>1 DEF IsInactive
  <2>7. own'[x] = own[x]
    BY <1>3
  <2>8. Settled(x)'
    <3>1. CASE q.op = "login" /\ q.step = "refused"
      <4>1. Settled(x) /\ c = cookie[x]
        BY <2>5, <3>1 DEF UnderWay
      <4> QED
        BY <1>2, <1>3, <2>1, <2>5, <4>1, UnderWayKept
    <3>2. CASE q.op = "google" /\ q.step = "refused"
      BY <2>5, <3>2 DEF Settled
    <3>3. CASE q.op = "refresh" /\ q.step = "refused"
      <4>1. c = [token |-> q.token, error |-> TRUE]
        BY <2>5, <3>3
      <4>2. q.token # None /\ own[x] = {q.token} /\ IsInactive(q.token)
        BY <2>5, <3>3 DEF UnderWay
      <4> QED
        BY <2>5, <2>6, <2>7, <4>1, <4>2 DEF Settled
    <3>4. CASE q.op = "visit" /\ q.step = "done"
      <4>1. c = [token |-> q.token, error |-> FALSE]
        BY <2>5, <3>4
      <4>2. q.token # None /\ own[x] = {q.token}
        BY <2>5, <3>4 DEF UnderWay
      <4> QED
        BY <2>5, <2>7, <4>1, <4>2 DEF Settled
    <3>5. CASE q.op = "logout" /\ q.step = "done"
      <4>1. c = SignedOut
        BY <2>5, <3>5
      <4>2. own[x] = {}
        BY <2>5, <3>5 DEF UnderWay
      <4> QED
        BY <2>5, <2>7, <4>1, <4>2 DEF Settled, SignedOut
    <3>6. CASE q.op \in {"login", "google", "refresh"} /\ q.step = "done"
      <4>1. c = [token |-> q.fresh, error |-> FALSE]
        BY <2>5, <3>6
      <4>2. q.fresh # None /\ own[x] = {q.fresh}
        BY <2>5, <3>6 DEF UnderWay
      <4> QED
        BY <2>5, <2>7, <4>1, <4>2 DEF Settled
    <3> QED
      BY <2>5, <3>1, <3>2, <3>3, <3>4, <3>5, <3>6 DEF UnderWay
  <2> QED
    BY <2>2, <2>8 DEF QuietOK
<1>11. ASSUME x \in quiet', req[r].op = "lookup" PROVE QuietOK(x)'
  <2>1. x \in quiet /\ x \in Browsers /\ cookie'[x] = cookie[x]
    BY <1>3, <1>4, <1>11
  <2>2. RequestsOf(x)' = RequestsOf(x) /\ r \notin RequestsOf(x)
    BY <1>6, <1>11, <2>1 DEF RequestsOf
  <2>3. Settled(x) => Settled(x)'
    BY <1>2, <1>3, <2>1, UnderWayKept
  <2>4. ASSUME NEW p \in RequestsOf(x)
        PROVE  UnderWay(x, req[p])'
    <3>1. PICK o : o = req[p] /\ o = req'[p]
      BY <1>3, <2>2, <2>4 DEF RequestsOf
    <3>2. UnderWay(x, o)'
      BY <1>2, <1>3, <2>1, <2>4, <3>1, UnderWayKept DEF SessionInv, QuietOK
    <3> QED
      BY <3>1, <3>2 DEF UnderWay
  <2> QED
    BY <2>1, <2>2, <2>3, <2>4 DEF SessionInv, QuietOK
<1>12. /\ \A p \in Requests : req'[p] # req[p] => /\ req[p].browser \in {x, None}
                                                 /\ req'[p].browser \in {x, None}
       /\ quiet' \subseteq quiet \union {x} /\ quiet' \subseteq Browsers
       /\ x \in Browsers => \A y : Knows(x, y)' \/ y \in own'[x]
                                     => \A b \in Browsers \ {x} : y \notin own[b]
       /\ x \in Browsers => \A y \in own'[x] :
            live'[y] # None /\ \A b \in Browsers \ {x} : ~Knows(b, y)
  <2>1. \A p \in Requests : req'[p] # req[p] => /\ req[p].browser \in {x, None}
                                                /\ req'[p].browser \in {x, None}
    BY <1>1, <1>2, <1>3
  <2>2. quiet' \subseteq quiet \union {x} /\ quiet' \subseteq Browsers
    BY <1>3, <1>4
  <2>3. x \in Browsers => \A y : Knows(x, y)' \/ y \in own'[x]
                                   => \A b \in Browsers \ {x} : y \notin own[b]
    BY <1>3, <1>7, <1>8 DEF SessionInv, Exclusive
  <2>4. x \in Browsers => \A y \in own'[x] :
          live'[y] # None /\ \A b \in Browsers \ {x} : ~Knows(b, y)
    BY <1>3 DEF SessionInv, Exclusive
  <2> QED
    BY <2>1, <2>2, <2>3, <2>4
<1> QED
  BY <1>2, <1>3, <1>4, <1>9, <1>10, <1>11, <1>12, OneBrowser

\* A token expires: its browser, if it has one, is not quiet any more.
LEMMA ExpirySessions ==
  ASSUME RowInv, SessionInv, InactiveStays, NEW t \in Tokens, TokenExpires(t)
  PROVE  SessionInv'
<1>1. /\ TypeOK /\ req' = req /\ cookie' = cookie /\ None \notin Browsers
      /\ \A b \in Browsers : own'[b] = own[b] \ {t}
      /\ \A y \in Tokens : live'[y] = IF y = t THEN None ELSE live[y]
      /\ \A b \in Browsers : own[b] \subseteq Tokens
      /\ quiet' = {b \in quiet : t \notin own[b]} /\ quiet \subseteq Browsers
  BY AccountsAssumption DEF RowInv, TypeOK, TokenExpires, Delete
<1>2. \A p \in Requests : IssueOK(req[p])'
  BY <1>1 DEF SessionInv, IssueOK
<1>3. \A b, y : Knows(b, y)' <=> Knows(b, y)
  BY <1>1 DEF Knows
<1>4. CASE \E x \in Browsers : t \in own[x]
  <2>1. PICK x \in Browsers : t \in own[x]
    BY <1>4
  <2>2. \A b \in Browsers \ {x} : t \notin own[b] /\ ~Knows(b, t)
    BY <2>1 DEF SessionInv, Exclusive
  <2>3. \A b \in Browsers \ {x} : own'[b] = own[b] /\ \A y \in own[b] : live'[y] = live[y]
    BY <1>1, <2>2
  <2>4. \A y : Knows(x, y)' \/ y \in own'[x] => \A b \in Browsers \ {x} : y \notin own[b]
    BY <1>1, <1>3, <2>1, <2>2 DEF SessionInv, Exclusive
  <2>5. \A y \in own'[x] : live'[y] # None /\ \A b \in Browsers \ {x} : ~Knows(b, y)
    BY <1>1, <2>1 DEF SessionInv, Exclusive
  <2>6. x \notin quiet'
    BY <1>1, <2>1
  <2> QED
    BY <1>1, <1>2, <2>1, <2>3, <2>4, <2>5, <2>6, OneBrowser
<1>5. CASE \A x \in Browsers : t \notin own[x]
  <2>1. \A b \in Browsers : own'[b] = own[b] /\ \A y \in own[b] : live'[y] = live[y]
    BY <1>1, <1>5
  <2> QED
    BY <1>1, <1>2, <2>1, OneBrowser
<1> QED
  BY <1>4, <1>5

\* For any number of browsers and requests, a browser whose requests never
\* overlapped and were all answered, and for which no page or route handler
\* rotated, has exactly one valid token, the one of its cookie, and is sent to
\* sign in again only if its account was deactivated.
THEOREM QuietSessionsHaveOneToken == Spec => []QuietSessionHasOneToken
<1>1. ASSUME Init
      PROVE  SessionInv
  <2>1. /\ \A r \in Requests : req[r] = Idle
        /\ \A b \in Browsers : cookie[b] = SignedOut /\ own[b] = {}
        /\ quiet = Browsers /\ None \notin Browsers
        /\ Idle.browser = None /\ Idle.step = "idle" /\ Idle.token = None
    BY <1>1, AccountsAssumption DEF Init, Idle
  <2>2. \A b \in Browsers : RequestsOf(b) = {} /\ Settled(b)
    BY <2>1 DEF RequestsOf, Settled, SignedOut
  <2> QED
    BY <2>1, <2>2 DEF SessionInv, Exclusive, QuietOK, IssueOK
<1>2. ASSUME RowInv, SessionInv, [Next]_vars
      PROVE  SessionInv'
  <2>1. InactiveStays
    BY <1>2, InactiveStep
  <2>2. ASSUME NEW r \in Requests, Arrival(r) \/ Fail(r)
        PROVE  SessionInv'
    BY <1>2, <2>1, <2>2, ArrivalSessions, AnswerSessions
  <2>3. ASSUME NEW r \in Requests, Serve(r)
        PROVE  SessionInv'
    BY <1>2, <2>1, <2>3, SignInSessions, RotationSessions, RevokeSessions, StoreSessions,
       AnswerSessions DEF Serve
  <2>4. CASE \E t \in Tokens : TokenExpires(t)
    BY <1>2, <2>1, <2>4, ExpirySessions
  <2>5. CASE \/ \E k \in Keys : EndWindow(k)
             \/ \E u \in Users : Deactivate(u)
             \/ UNCHANGED vars
    <3>1. UNCHANGED <<sessions, browsers, req>>
      BY <2>5 DEF EndWindow, Deactivate, vars, browsers
    <3> QED
      BY <1>2, <2>1, <3>1, NoRequestMoves
  <2> QED
    BY <1>2, <2>2, <2>3, <2>4, <2>5 DEF Next
<1>3. SessionInv => QuietSessionHasOneToken
  BY QuietIsQuiet
<1> QED
  BY <1>1, <1>2, <1>3, Invariance, PTL DEF Spec
=============================================================================
