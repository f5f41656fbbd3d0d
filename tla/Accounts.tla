------------------------------ MODULE Accounts ------------------------------
(***************************************************************************)
(* Accounts and sessions of the OfferLeaks API (services/auth_service.py,  *)
(* auth/sessions.py) with the limiter in front of them and the browsers    *)
(* behind the web server that call them (apps/web/src/auth.ts).            *)
(*                                                                         *)
(* A request is a process; each of its steps is one call to Postgres or    *)
(* Redis.  The rows of an account are written by one transaction, at READ  *)
(* COMMITTED: an INSERT of an e-mail that an open transaction has inserted *)
(* waits, and fails if a committed row has it.  The valid refresh tokens   *)
(* are keys of Redis, outside any transaction.  A browser keeps one        *)
(* session cookie with one refresh token; its requests read the cookie     *)
(* when they start, and those that pass the middleware or an endpoint of   *)
(* Auth.js write it when they are answered, in any order.                  *)
(*                                                                         *)
(* Abstractions: a password is right or wrong, its hash is not kept;       *)
(* access tokens are not kept, a browser may always find its own expired.  *)
(***************************************************************************)
EXTENDS RateLimit

CONSTANTS
  Spellings,    \* e-mail addresses as typed
  Lower,        \* email.lower() of each spelling
  Subjects,     \* Google identities
  EmailOf,      \* the e-mail address Google asserts for each identity
  Users,        \* ids of users (bound: as many accounts as ids)
  Tokens,       \* jtis of refresh tokens, used again once nobody knows them
  Browsers,
  Requests,     \* requests served at the same time
  None

ASSUME AccountsAssumption ==
  /\ Lower \in [Spellings -> Spellings]
  /\ \A e \in Spellings : Lower[Lower[e]] = Lower[e]
  /\ EmailOf \in [Subjects -> Spellings]
  /\ None \notin Spellings \union Subjects \union Users \union Tokens
                   \union Browsers \union Keys

VARIABLES
  account,      \* the users table, None where there is no row
  balances,     \* users with a row in credit_balances
  grants,       \* GRANT entries of each user in credit_transactions
  live,         \* Redis: the user of each valid refresh token, None if invalid
  cookie,       \* of each browser: its refresh token and session error
  req,          \* the requests
  \* history, for the properties
  own,          \* valid tokens issued to each browser since its last sign-in
  quiet         \* browsers whose requests since then never overlapped, were
                \* all answered, and whose token was neither rotated by a
                \* lookup nor expired

rows == <<account, balances, grants>>
sessions == <<live, own>>
browsers == <<cookie, quiet>>
vars == <<limits, rows, sessions, browsers, req>>

-----------------------------------------------------------------------------
Row == [email : Spellings, password : BOOLEAN,
        subject : Subjects \union {None}, active : BOOLEAN]

ASSUME NoneAssumption == None \notin Row

Cookie == [token : Tokens \union {None}, error : BOOLEAN]
SignedOut == [token |-> None, error |-> FALSE]

\* The endpoints of api/routers/auth.py, and where each request stands: the
\* call it makes next, or the answer it has.
\* A "visit" is a page that finds its access token still fresh.  A "lookup" is
\* auth() in a page or a route handler, which rotates as a "refresh" does.
Ops == {"register", "login", "google", "refresh", "lookup", "logout", "visit"}
Rotations == {"refresh", "lookup"}
Steps == {"count", "expire", "by_email", "by_identity", "link", "create", "commit",
          "check", "load", "revoke", "store", "done", "refused"}

Idle == [op |-> "none", step |-> "idle", key |-> None, browser |-> None,
         email |-> None, subject |-> None, user |-> None, token |-> None,
         fresh |-> None]

\* user: the row the request holds or has inserted; token: the one presented;
\* fresh: the one issued.
Request ==
  [op : Ops, step : Steps, key : Keys \union {None}, browser : Browsers \union {None},
   email : Spellings \union {None}, subject : Subjects \union {None},
   user : Users \union {None}, token : Tokens \union {None},
   fresh : Tokens \union {None}] \union {Idle}

TypeOK ==
  /\ LimitsTypeOK
  /\ account \in [Users -> Row \union {None}]
  /\ balances \in SUBSET Users
  /\ grants \in [Users -> 0..1]
  /\ live \in [Tokens -> Users \union {None}]
  /\ cookie \in [Browsers -> Cookie]
  /\ req \in [Requests -> Request]
  /\ own \in [Browsers -> SUBSET Tokens]
  /\ quiet \in SUBSET Browsers

Init ==
  /\ LimitsInit
  /\ account = [u \in Users |-> None]
  /\ balances = {}
  /\ grants = [u \in Users |-> 0]
  /\ live = [t \in Tokens |-> None]
  /\ cookie = [b \in Browsers |-> SignedOut]
  /\ req = [r \in Requests |-> Idle]
  /\ own = [b \in Browsers |-> {}]
  /\ quiet = Browsers

-----------------------------------------------------------------------------
(* Rows *)

Registered == {u \in Users : account[u] # None}

\* Mutation: the address is stored as it was typed.
NewRowAsTyped(r) ==
  [email |-> req[r].email, password |-> req[r].op = "register",
   subject |-> req[r].subject, active |-> TRUE]

\* The row a request inserts: a registration has a password, a Google sign-in
\* the identity.
NewRow(r) ==
  [email |-> Lower[req[r].email], password |-> req[r].op = "register",
   subject |-> req[r].subject, active |-> TRUE]

\* get_by_email and get_by_oauth_identity
WithEmail(e) == {u \in Registered : account[u].email = Lower[e]}
WithIdentity(s) == {u \in Registered : account[u].subject = s}

\* Requests that have inserted a row and not committed it.
Inserting == {r \in Requests : req[r].step = "commit"}

\* The unique index on users.email: another transaction is about to add the
\* e-mail of r, or has added it.
IsPending(r) == \E q \in Inserting : NewRow(q).email = NewRow(r).email
IsTaken(r) == \E u \in Registered : account[u].email = NewRow(r).email

FreshUsers == {u \in Users : account[u] = None /\ \A r \in Requests : req[r].user # u}

(* Tokens *)

FreshTokens ==
  {t \in Tokens : /\ live[t] = None
                  /\ \A b \in Browsers : cookie[b].token # t
                  /\ \A r \in Requests : t \notin {req[r].token, req[r].fresh}}

(* Requests *)

At(r, step) == req[r].step = step
Goes(r, step) == req' = [req EXCEPT ![r].step = step]

\* What a request still needs once it has its user, and once it has its answer.
WithUser(r, step, u) == [Idle EXCEPT !.op = req[r].op, !.step = step, !.browser = req[r].browser,
                                    !.token = req[r].token, !.user = u]
Answered(r, step, t) == [Idle EXCEPT !.op = req[r].op, !.step = step, !.browser = req[r].browser,
                                    !.token = req[r].token, !.fresh = t]
GetsUser(r, step, u) == req' = [req EXCEPT ![r] = WithUser(r, step, u)]
IsRefused(r) == req' = [req EXCEPT ![r] = Answered(r, "refused", None)]

\* Requests of a browser that will write its cookie.
RequestsOf(b) == {r \in Requests : req[r].browser = b /\ req[r].op # "lookup"}

-----------------------------------------------------------------------------
(***************************************************************************)
(* Requests arrive: a registration by itself, the others from a browser,   *)
(* with what its cookie holds.                                             *)
(***************************************************************************)
Arrives(r, request) ==
  /\ req[r] = Idle
  /\ req' = [req EXCEPT ![r] = request]
  /\ UNCHANGED <<limits, rows, sessions, cookie>>

\* A second request of a browser overlaps the ones under way.
Overlaps(b) == quiet' = IF RequestsOf(b) = {} THEN quiet ELSE quiet \ {b}

Register(r, k, e) ==
  /\ Arrives(r, [Idle EXCEPT !.op = "register", !.step = "count", !.key = k, !.email = e])
  /\ UNCHANGED quiet

\* A browser may sign in although it is signed in.
SignIn(r, k, b, e) ==
  /\ Arrives(r, [Idle EXCEPT !.op = "login", !.step = "count", !.key = k,
                             !.browser = b, !.email = e])
  /\ Overlaps(b)

GoogleSignIn(r, b, s) ==
  /\ Arrives(r, [Idle EXCEPT !.op = "google", !.step = "by_identity", !.browser = b,
                             !.email = EmailOf[s], !.subject = s])
  /\ Overlaps(b)

\* The access token is about to expire: the refresh token is rotated.
Rotate(r, b) ==
  /\ cookie[b].token # None
  /\ Arrives(r, [Idle EXCEPT !.op = "refresh", !.step = "check", !.browser = b,
                             !.token = cookie[b].token])
  /\ Overlaps(b)

\* The same in a page or a route handler, with the cookie its request came with,
\* whatever the middleware does to it meanwhile.
Lookup(r, b) ==
  /\ cookie[b].token # None
  /\ Arrives(r, [Idle EXCEPT !.op = "lookup", !.step = "check", !.browser = b,
                             !.token = cookie[b].token])
  /\ UNCHANGED quiet

\* The access token is still fresh: the cookie is written back as it was read.
Visit(r, b) ==
  /\ cookie[b].token # None /\ ~cookie[b].error
  /\ Arrives(r, [Idle EXCEPT !.op = "visit", !.step = "done", !.browser = b,
                             !.token = cookie[b].token])
  /\ Overlaps(b)

SignOut(r, b) ==
  /\ cookie[b].token # None
  /\ Arrives(r, [Idle EXCEPT !.op = "logout", !.step = "revoke", !.browser = b,
                             !.token = cookie[b].token])
  /\ Overlaps(b)

-----------------------------------------------------------------------------
(***************************************************************************)
(* The limiter in front of registration and login.                         *)
(***************************************************************************)
IsAdmitted(r) == req' = [req EXCEPT ![r].step = "by_email", ![r].key = None]

Count(r) ==
  /\ At(r, "count")
  /\ Increment(req[r].key)
  /\ LET current == Current(req[r].key) IN
       IF OpensWindow(current) THEN Goes(r, "expire")
       ELSE IF Admits(current) THEN IsAdmitted(r)
       ELSE IsRefused(r)
  /\ UNCHANGED <<rows, sessions, browsers>>

Expire(r) ==
  /\ At(r, "expire")
  /\ SetExpiry(req[r].key)
  /\ IsAdmitted(r)
  /\ UNCHANGED <<rows, sessions, browsers>>

-----------------------------------------------------------------------------
(***************************************************************************)
(* register, authenticate, upsert_google_user                              *)
(***************************************************************************)
Reads(r) == UNCHANGED <<limits, rows, sessions, browsers>>

FindEmail(r) ==
  /\ At(r, "by_email") /\ req[r].op = "register"
  /\ IF WithEmail(req[r].email) = {} THEN Goes(r, "create") ELSE IsRefused(r)
  /\ Reads(r)

\* Nobody there, no password, a wrong one, or not active.
RefuseSignIn(r) ==
  /\ At(r, "by_email") /\ req[r].op = "login"
  /\ IsRefused(r)
  /\ Reads(r)

Authenticate(r) ==
  /\ At(r, "by_email") /\ req[r].op = "login"
  /\ \E u \in WithEmail(req[r].email) :
       /\ account[u].password /\ account[u].active
       /\ GetsUser(r, "store", u)
  /\ Reads(r)

FindIdentity(r) ==
  /\ At(r, "by_identity")
  /\ \/ /\ WithIdentity(req[r].subject) = {}
        /\ Goes(r, "by_email")
     \/ \E u \in WithIdentity(req[r].subject) : GetsUser(r, "store", u)
  /\ Reads(r)

FindGoogleEmail(r) ==
  /\ At(r, "by_email") /\ req[r].op = "google"
  /\ \/ /\ WithEmail(req[r].email) = {}
        /\ Goes(r, "create")
     \/ \E u \in WithEmail(req[r].email) :
          req' = [req EXCEPT ![r].step = "link", ![r].user = u]
  /\ Reads(r)

\* A mutation: linking grants credits again.
LinkAndGrant(r) ==
  /\ At(r, "link")
  /\ account' = [account EXCEPT ![req[r].user].subject = req[r].subject]
  /\ grants' = [grants EXCEPT ![req[r].user] = @ + 1]
  /\ GetsUser(r, "store", req[r].user)
  /\ UNCHANGED <<limits, balances, sessions, browsers>>

\* The account found by its e-mail takes the identity, whichever it had.
Link(r) ==
  /\ At(r, "link")
  /\ account' = [account EXCEPT ![req[r].user].subject = req[r].subject]
  /\ GetsUser(r, "store", req[r].user)
  /\ UNCHANGED <<limits, balances, grants, sessions, browsers>>

\* Mutations: the user is committed before the grant, or never.
CreateAtOnce(r) ==
  /\ At(r, "create")
  /\ ~IsTaken(r)
  /\ \E u \in FreshUsers :
       /\ account' = [account EXCEPT ![u] = NewRow(r)]
       /\ req' = [req EXCEPT ![r].step = "commit", ![r].user = u]
  /\ UNCHANGED <<limits, balances, grants, sessions, browsers>>

CreateUncommitted(r) ==
  /\ At(r, "create")
  /\ ~IsTaken(r)
  /\ \E u \in FreshUsers : GetsUser(r, "store", u)
  /\ Reads(r)

\* The INSERT of the user waits for one of the same e-mail, and fails if it
\* was committed: no handler catches that, the answer is an error.
Create(r) ==
  /\ At(r, "create")
  /\ ~IsPending(r)
  /\ \/ /\ IsTaken(r)
        /\ IsRefused(r)
     \/ /\ ~IsTaken(r)
        /\ \E u \in FreshUsers :
             req' = [req EXCEPT ![r].step = "commit", ![r].user = u]
  /\ Reads(r)

\* initialize_balance inserts a row unless there is one, and the grant is
\* recorded if it did.
WithBalance(u) == balances \union {u}
Granted(u) == IF u \in balances THEN grants ELSE [grants EXCEPT ![u] = @ + 1]

\* The initial credits are granted in the transaction of the account, once
\* for a user without a balance.
Commit(r) ==
  /\ At(r, "commit")
  /\ LET u == req[r].user IN
       /\ account' = [account EXCEPT ![u] = NewRow(r)]
       /\ balances' = WithBalance(u)
       /\ grants' = Granted(u)
       /\ GetsUser(r, "store", u)
  /\ UNCHANGED <<limits, sessions, browsers>>

-----------------------------------------------------------------------------
(***************************************************************************)
(* issue_tokens, refresh, logout                                           *)
(***************************************************************************)
Store(r) ==
  /\ At(r, "store")
  /\ \E t \in FreshTokens :
       /\ live' = [live EXCEPT ![t] = req[r].user]
       /\ req' = [req EXCEPT ![r] = Answered(r, "done", t)]
       /\ own' = [b \in Browsers |->
                   IF b # req[r].browser THEN own[b]
                   ELSE IF req[r].op \in Rotations THEN own[b] \union {t} ELSE {t}]
  /\ quiet' = IF req[r].browser = None \/ req[r].op = "refresh" THEN quiet
              ELSE IF req[r].op # "lookup" /\ RequestsOf(req[r].browser) = {r}
                THEN quiet \union {req[r].browser}
              ELSE quiet \ {req[r].browser}
  /\ UNCHANGED <<limits, rows, cookie>>

CheckSession(r) ==
  /\ At(r, "check")
  /\ IF live[req[r].token] = None THEN IsRefused(r)
     ELSE GetsUser(r, "load", live[req[r].token])
  /\ Reads(r)

LoadUser(r) ==
  /\ At(r, "load")
  /\ IF account[req[r].user].active THEN Goes(r, "revoke") ELSE IsRefused(r)
  /\ Reads(r)

Delete(t) ==
  /\ live' = [live EXCEPT ![t] = None]
  /\ own' = [b \in Browsers |-> own[b] \ {t}]

\* Mutation: rotation leaves the old token valid.
RevokeOnSignOut(r) ==
  /\ At(r, "revoke")
  /\ IF req[r].op \in Rotations THEN UNCHANGED sessions ELSE Delete(req[r].token)
  /\ Goes(r, IF req[r].op \in Rotations THEN "store" ELSE "done")
  /\ quiet' = IF req[r].op = "lookup" THEN quiet \ {req[r].browser} ELSE quiet
  /\ UNCHANGED <<limits, rows, cookie>>

Revoke(r) ==
  /\ At(r, "revoke")
  /\ Delete(req[r].token)
  /\ Goes(r, IF req[r].op \in Rotations THEN "store" ELSE "done")
  /\ quiet' = IF req[r].op = "lookup" THEN quiet \ {req[r].browser} ELSE quiet
  /\ UNCHANGED <<limits, rows, cookie>>

-----------------------------------------------------------------------------
(***************************************************************************)
(* Answers reach the browser, or not.                                      *)
(***************************************************************************)
\* What the jwt callback makes of the answer.  What it returns to a lookup is not
\* written to the cookie: a page cannot, and a route handler does not.
CookieAfter(r) ==
  LET q == req[r] IN
  CASE q.op = "lookup"                       -> cookie[q.browser]
    [] q.step = "refused" /\ q.op = "refresh" -> [token |-> q.token, error |-> TRUE]
    [] q.step = "refused" /\ q.op = "google"  -> [token |-> None, error |-> TRUE]
    [] q.step = "refused" /\ q.op = "login"   -> cookie[q.browser]
    [] q.step = "done" /\ q.op = "visit"      -> [token |-> q.token, error |-> FALSE]
    [] q.step = "done" /\ q.op = "logout"     -> SignedOut
    [] OTHER                                  -> [token |-> q.fresh, error |-> FALSE]

Answer(r) ==
  /\ req[r].step \in {"done", "refused"}
  /\ cookie' = IF req[r].browser = None THEN cookie
               ELSE [cookie EXCEPT ![req[r].browser] = CookieAfter(r)]
  /\ req' = [req EXCEPT ![r] = Idle]
  /\ UNCHANGED <<limits, rows, sessions, quiet>>

\* The server dies between two steps, or the answer is lost: an open
\* transaction is rolled back.  The browser keeps its cookie, or the web server
\* takes the error for a broken session and clears it.
Fail(r) ==
  /\ req[r] # Idle
  /\ req' = [req EXCEPT ![r] = Idle]
  /\ \/ UNCHANGED cookie
     \/ /\ req[r].browser # None /\ req[r].op # "lookup"
        /\ cookie' = [cookie EXCEPT ![req[r].browser] = SignedOut]
  /\ quiet' = IF req[r].op = "lookup" THEN quiet ELSE quiet \ {req[r].browser}
  /\ IF At(r, "expire") THEN Orphan(req[r].key) ELSE UNCHANGED limits
  /\ UNCHANGED <<rows, sessions>>

-----------------------------------------------------------------------------
(***************************************************************************)
(* Time and the operator.                                                  *)
(***************************************************************************)
EndWindow(k) ==
  /\ WindowEnds(k)
  /\ UNCHANGED <<rows, sessions, browsers, req>>

\* The key of a refresh token expires with the token.
TokenExpires(t) ==
  /\ live[t] # None
  /\ Delete(t)
  /\ quiet' = {b \in quiet : t \notin own[b]}
  /\ UNCHANGED <<limits, rows, cookie, req>>

\* No endpoint writes is_active: an operator does.
Deactivate(u) ==
  /\ u \in Registered /\ account[u].active
  /\ account' = [account EXCEPT ![u].active = FALSE]
  /\ UNCHANGED <<limits, balances, grants, sessions, browsers, req>>

-----------------------------------------------------------------------------
Serve(r) ==
  \/ Count(r) \/ Expire(r)
  \/ FindEmail(r) \/ RefuseSignIn(r) \/ Authenticate(r)
  \/ FindIdentity(r) \/ FindGoogleEmail(r) \/ Link(r) \/ Create(r) \/ Commit(r)
  \/ CheckSession(r) \/ LoadUser(r) \/ Revoke(r) \/ Store(r)
  \/ Answer(r)

Arrival(r) ==
  \/ \E k \in Keys, e \in Spellings :
       Register(r, k, e) \/ \E b \in Browsers : SignIn(r, k, b, e)
  \/ \E b \in Browsers :
       \/ Rotate(r, b) \/ Lookup(r, b) \/ Visit(r, b) \/ SignOut(r, b)
       \/ \E s \in Subjects : GoogleSignIn(r, b, s)

Next ==
  \/ \E r \in Requests : Arrival(r) \/ Serve(r) \/ Fail(r)
  \/ \E k \in Keys : EndWindow(k)
  \/ \E t \in Tokens : TokenExpires(t)
  \/ \E u \in Users : Deactivate(u)

Spec == Init /\ [][Next]_vars

-----------------------------------------------------------------------------
(***************************************************************************)
(* Properties                                                              *)
(***************************************************************************)

\* Every account has its balance and exactly one grant, and nobody else has
\* either, whatever dies between creating the account and granting
\* (CreditService.grant_initial_credits).
EveryAccountIsGranted ==
  \A u \in Users : /\ u \in Registered <=> u \in balances
                   /\ grants[u] = IF u \in Registered THEN 1 ELSE 0

\* One mailbox has one account, and so has one Google identity, however its
\* address is spelled and whichever requests create accounts at the same time
\* (upsert_google_user: no silent duplicate).
OneAccountPerMailbox ==
  \A u, v \in Registered :
    \/ Lower[account[u].email] = Lower[account[v].email]
    \/ account[u].subject = account[v].subject /\ account[u].subject # None
    => u = v

\* A valid refresh token names an account that was committed: tokens are
\* issued after the transaction of the account, which may still fail.
TokensNameAccounts == \A t \in Tokens : live[t] # None => account[live[t]] # None

\* A browser whose requests never overlapped and were all answered has exactly
\* one valid token since its last sign-in, the one of its cookie, and none once
\* it has signed out; it is sent to sign in again only if its account was
\* deactivated.  This is so while no page or route handler rotates the token:
\* those that find it rotated already, or that fail before, do no harm.
QuietSessionHasOneToken ==
  \A b \in quiet : RequestsOf(b) = {} =>
    IF cookie[b].error
      THEN cookie[b].token = None \/ ~account[live[cookie[b].token]].active
      ELSE own[b] = {cookie[b].token} \ {None}

\* The attempts let through between two ends of a window stay within the
\* limit, however the counting of concurrent requests interleaves.
WindowIsBounded == \A k \in Keys : admitted[k] <= MaxAttempts

\* A counter in use has an expiry, or the request that opened the window is
\* about to set it: only the death of that request leaves a key that will be
\* refused for ever.
CountersExpire ==
  \A k \in Keys : attempts[k] > 0 =>
    \/ k \in expiring \union orphaned
    \/ \E r \in Requests : At(r, "expire") /\ req[r].key = k

\* An account is never removed, changes neither its e-mail nor whether it has
\* a password, and a Google identity once linked is only replaced by another
\* of the same mailbox (models/user.py: linking never overwrites a password).
AccountsAreKept ==
  [][\A u \in Registered :
       /\ account'[u] # None
       /\ account'[u].email = account[u].email
       /\ account'[u].password = account[u].password
       /\ account'[u].subject # account[u].subject =>
            /\ account'[u].subject # None
            /\ Lower[EmailOf[account'[u].subject]] = account[u].email]_vars

=============================================================================
