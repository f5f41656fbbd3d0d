--------------------------- MODULE CompanyProfile ---------------------------
(***************************************************************************)
(* The shared company profiles of OfferLeaks (company_profile_service.py): *)
(* the worker resolves a company inside the transaction of an analysis,    *)
(* readers of the API and analyses have stale profiles refreshed by a job  *)
(* of their own, and Redis caches profiles and holds the lock and the      *)
(* rate budget of the refreshes.                                           *)
(*                                                                         *)
(* A company is a row with an id and an identity key.  Refreshes name the  *)
(* id, everything in Redis the key; an analysis that knows the domain of a *)
(* company first found by name moves its row to the key of the domain.     *)
(*                                                                         *)
(* Of a signal only the age of its last check is kept, of a cached profile *)
(* only whose it is: nothing depends on the age of a cached one.  Domains, *)
(* email_domain_match, the locks of the company row and the deadlocks they *)
(* lead to are CompanyIdentity's.  A cache entry that cannot be read or    *)
(* written is one that has expired; TTLs and the clock are choices.        *)
(***************************************************************************)
EXTENDS Integers

CONSTANTS
  Companies,    \* ids of rows (bound: as many companies as ids)
  Domains,      \* identity keys of companies with a domain
  Names,        \* identity keys of companies known by name alone
  Letters,      \* what the offer letter of an analysis may say of its company
  None,
  Analyzers,    \* analyses in the worker at the same time
  Readers,      \* API requests that build a company response
  Refreshers,   \* workers of the company_refresh queue
  RateLimit,    \* company_lookup_rate_limit_per_minute
  MaxQueued,    \* bound: more refreshes of one company are not told apart
  MaxFaults     \* bound on processes stopping, jobs failing, Redis being down

Keys == Domains \union Names

\* A letter names a domain, a company, or both.
IdentityKey(l) == IF l.domain # None THEN l.domain ELSE l.name

ASSUME ProfileAssumption ==
  /\ Letters \in [Analyzers ->
                    SUBSET [domain : Domains \union {None}, name : Names \union {None}]]
  /\ \A p \in Analyzers : \A l \in Letters[p] : IdentityKey(l) # None
  /\ Domains \cap Names = {}
  /\ None \notin Companies \union Keys
  /\ RateLimit \in Nat \ {0}
  /\ MaxQueued \in Nat \ {0}
  /\ MaxFaults \in Nat
  /\ Analyzers \cap Readers = {}

VARIABLES
  \* committed rows of companies and company_signals
  key,          \* normalized_key of the company, None without a row
  checked,      \* age of last_checked_at, "absent" without a signal row
  \* Redis
  cache,        \* company of the cached profile, by key
  locked,       \* company_lookup_lock, by key
  spent,        \* company_lookup_rate of the current minute
  jobs,         \* refresh jobs in the queue, by company
  \* processes
  caller,       \* where each analysis and each reader stands
  refresh,      \* where each refresh worker stands
  faults,       \* so far
  named         \* history: companies whose row was inserted under a name

rows == <<key, checked, named>>
redisVars == <<cache, locked, spent, jobs>>
vars == <<rows, redisVars, caller, refresh, faults>>

-----------------------------------------------------------------------------
Callers == Analyzers \union Readers

\* "never" is the placeholder with _NEVER_CHECKED_SENTINEL.
Age == {"never", "stale", "fresh"}

Idle == [at |-> "idle"]

\* How an analysis holds its company: as a row committed before, as one it has
\* moved to its key, or as one it has inserted; the last two are its own until
\* it commits.
Row == {"kept", "moved", "new"}

\* A caller that has found no company of its domain (company: one of its name,
\* to be upgraded), has found it and read its signal, has written its own part
\* of the signal (aged seen), has found a fresh or a stale profile, holds the
\* lock, is within the budget, is done with ensure_fresh, or has a profile to
\* put in the cache.
Caller ==
  {Idle}
    \union [at : {"finding"}, key : Keys, company : Companies \union {None}]
    \union [at : {"found", "resolved"}, key : Keys, company : Companies, row : Row, seen : Age]
    \union [at : {"resolved", "fresh", "stale", "locked", "budgeted", "ensured", "loaded"},
            key : Keys, company : Companies, row : Row]

Refresh == {Idle} \union [at : {"looking_up", "stored"}, key : Keys, company : Companies]

TypeOK ==
  /\ key \in [Companies -> Keys \union {None}]
  /\ checked \in [Companies -> Age \union {"absent"}]
  /\ \A c \in Companies : key[c] # None <=> checked[c] # "absent"
  /\ cache \in [Keys -> Companies \union {None}]
  /\ locked \in SUBSET Keys
  /\ spent \in 0..RateLimit
  /\ jobs \in [Companies -> 0..MaxQueued]
  /\ caller \in [Callers -> Caller]
  /\ refresh \in [Refreshers -> Refresh]
  /\ faults \in 0..MaxFaults
  /\ named \in SUBSET Companies

Init ==
  /\ key = [c \in Companies |-> None]
  /\ checked = [c \in Companies |-> "absent"]
  /\ cache = [k \in Keys |-> None]
  /\ locked = {}
  /\ spent = 0
  /\ jobs = [c \in Companies |-> 0]
  /\ caller = [p \in Callers |-> Idle]
  /\ refresh = [w \in Refreshers |-> Idle]
  /\ faults = 0
  /\ named = {}

-----------------------------------------------------------------------------
(***************************************************************************)
(* The rows, and who waits for whom.                                       *)
(***************************************************************************)
Goes(p, to) == caller' = [caller EXCEPT ![p] = to]
MovesTo(p, at) == Goes(p, [caller[p] EXCEPT !.at = at])

\* get_by_key
WithKey(k) == {c \in Companies : key[c] = k}

\* Nobody knows the id.
FreshCompanies ==
  {c \in Companies : /\ key[c] = None /\ jobs[c] = 0
                     /\ \A p \in Callers : caller[p].at # "idle" => caller[p].company # c}

\* An analysis that has inserted or moved its row and not ended.
Owns(p, row) == /\ p \in Analyzers
                /\ caller[p].at \notin {"idle", "finding"}
                /\ caller[p].row = row

\* An open transaction has inserted a company of key k, or has moved one to k
\* or away from it: other inserts of k, and other upgrades, wait.
KeyTaken(k) ==
  \E p \in Analyzers : \/ Owns(p, "new") /\ caller[p].key = k
                       \/ Owns(p, "moved") /\ k \in {caller[p].key, key[caller[p].company]}

\* The transaction of an analysis of c, or of a refresh, has written the
\* company's signal row and not ended: other writers of the row wait.
SignalTaken(c) ==
  \/ \E p \in Analyzers : caller[p].at \notin {"idle", "finding", "found"} /\ caller[p].company = c
  \/ \E w \in Refreshers : refresh[w].at = "stored" /\ refresh[w].company = c

-----------------------------------------------------------------------------
(***************************************************************************)
(* resolve_for_analysis.                                                   *)
(***************************************************************************)

Finds(p, k, c) == Goes(p, [at |-> "finding", key |-> k, company |-> c])

\* A letter with a domain and a name: no row has the key of the domain, and one
\* may have the name.
Find(p, l) ==
  /\ p \in Analyzers /\ l \in Letters[p]
  /\ caller[p] = Idle
  /\ None \notin {l.domain, l.name} /\ WithKey(l.domain) = {}
  /\ \/ WithKey(l.name) = {} /\ Finds(p, l.domain, None)
     \/ \E c \in WithKey(l.name) : Finds(p, l.domain, c)
  /\ UNCHANGED <<rows, redisVars, refresh, faults>>

\* The company is there and its signal is read; row: how it is held.
Reads(p, k, c, row) ==
  Goes(p, [at |-> "found", key |-> k, company |-> c, row |-> row, seen |-> checked[c]])

\* get_or_create_by_key: a row of the key is kept; or one is inserted, and with
\* it the placeholder of its signal.
GetOrCreate(p, k) ==
  /\ p \in Analyzers
  /\ \/ caller[p].at = "finding" /\ caller[p].key = k /\ caller[p].company = None
     \/ /\ caller[p] = Idle
        /\ \E l \in Letters[p] :
             IdentityKey(l) = k /\ (None \in {l.domain, l.name} \/ WithKey(k) # {})
  /\ ~KeyTaken(k)
  /\ \/ \E c \in WithKey(k) : Reads(p, k, c, "kept")
     \/ /\ WithKey(k) = {}
        /\ \E c \in FreshCompanies :
             Goes(p, [at |-> "resolved", key |-> k, company |-> c,
                      row |-> "new", seen |-> "never"])
  /\ UNCHANGED <<rows, redisVars, refresh, faults>>

\* upgrade_name_only_company: the row moves to the key, unless another company
\* has taken it; a row that has got a domain meanwhile is left as it is, and
\* the analysis goes on with it under its own key.
Upgrade(p) ==
  LET k == caller[p].key
      c == caller[p].company IN
  /\ caller[p].at = "finding" /\ c # None
  /\ ~KeyTaken(k) /\ ~KeyTaken(key[c])
  /\ \/ key[c] \in Names /\ WithKey(k) = {} /\ Reads(p, k, c, "moved")
     \/ key[c] \in Names /\ \E d \in WithKey(k) : Reads(p, k, d, "kept")
     \/ key[c] \in Domains /\ Reads(p, k, c, "kept")
  /\ UNCHANGED <<rows, redisVars, refresh, faults>>

\* set_email_domain_match: the signal row may be waited for, and is not read
\* again.
Resolve(p) ==
  /\ caller[p].at = "found"
  /\ ~SignalTaken(caller[p].company)
  /\ MovesTo(p, "resolved")
  /\ UNCHANGED <<rows, redisVars, refresh, faults>>

-----------------------------------------------------------------------------
(***************************************************************************)
(* ensure_fresh and get_profile.                                           *)
(***************************************************************************)

\* _build_company_response: an analysis of a committed company is read.
Look(p, c) ==
  /\ p \in Readers
  /\ caller[p] = Idle
  /\ key[c] # None
  /\ Goes(p, [at |-> "resolved", key |-> key[c], company |-> c, row |-> "kept"])
  /\ UNCHANGED <<rows, redisVars, refresh, faults>>

\* A reader reads the signal only after the cache.
AgeSeen(p) == IF p \in Analyzers THEN caller[p].seen ELSE checked[caller[p].company]

\* Mutation: the placeholder counts as a check of just now.
StaleOnceChecked(age) == age = "stale"

Stale(age) == age \in {"never", "stale"}

\* ensure_fresh up to its decision: a cached profile, whatever its age, is
\* taken to be fresh.
EnsureFresh(p) ==
  LET q == caller[p] IN
  /\ q.at = "resolved"
  /\ Goes(p, [at |-> IF cache[q.key] # None THEN "ensured"
                     ELSE IF Stale(AgeSeen(p)) THEN "stale" ELSE "fresh",
              key |-> q.key, company |-> q.company, row |-> q.row])
  /\ UNCHANGED <<rows, redisVars, refresh, faults>>

\* _write_cache
Caches(q) == cache' = [cache EXCEPT ![q.key] = q.company]

\* The row is fresh: it is cached again.
CacheFreshRow(p) ==
  /\ caller[p].at = "fresh"
  /\ Caches(caller[p])
  /\ MovesTo(p, "ensured")
  /\ UNCHANGED <<rows, locked, spent, jobs, refresh, faults>>

\* _try_acquire_lock: SET NX.
AcquireLock(p) ==
  LET k == caller[p].key IN
  /\ caller[p].at = "stale"
  /\ MovesTo(p, IF k \in locked THEN "ensured" ELSE "locked")
  /\ locked' = locked \union {k}
  /\ UNCHANGED <<rows, cache, spent, jobs, refresh, faults>>

\* _try_consume_rate_budget: INCR, counted up to the limit; a refused caller
\* keeps the lock.
ConsumeBudget(p) ==
  /\ caller[p].at = "locked"
  /\ spent' = IF spent < RateLimit THEN spent + 1 ELSE spent
  /\ MovesTo(p, IF spent < RateLimit THEN "budgeted" ELSE "ensured")
  /\ UNCHANGED <<rows, cache, locked, jobs, refresh, faults>>

EnqueueRefresh(p) ==
  LET c == caller[p].company IN
  /\ caller[p].at = "budgeted"
  /\ jobs' = [jobs EXCEPT ![c] = IF @ < MaxQueued THEN @ + 1 ELSE @]
  /\ MovesTo(p, "ensured")
  /\ UNCHANGED <<rows, cache, locked, spent, refresh, faults>>

\* get_profile: a cached profile is returned, otherwise the row is read...
GetProfile(p) ==
  LET q == caller[p] IN
  /\ p \in Readers
  /\ q.at = "ensured"
  /\ IF cache[q.key] # None
     THEN Goes(p, Idle)
     ELSE MovesTo(p, "loaded")
  /\ UNCHANGED <<rows, redisVars, refresh, faults>>

\* ... and cached.
CacheProfile(p) ==
  /\ caller[p].at = "loaded"
  /\ Caches(caller[p])
  /\ Goes(p, Idle)
  /\ UNCHANGED <<rows, locked, spent, jobs, refresh, faults>>

-----------------------------------------------------------------------------
(***************************************************************************)
(* The end of an analysis.                                                 *)
(***************************************************************************)

\* Mutation: the placeholder of a new company is forgotten.
CommitWithoutPlaceholder(p) ==
  LET q == caller[p] IN
  /\ p \in Analyzers
  /\ q.at = "ensured"
  /\ key' = [key EXCEPT ![q.company] = q.key]
  /\ Goes(p, Idle)
  /\ UNCHANGED <<checked, named, redisVars, refresh, faults>>

\* Mutation: an upgraded company is treated like a new one.
CommitWithPlaceholder(p) ==
  LET q == caller[p]
      c == q.company IN
  /\ p \in Analyzers
  /\ q.at = "ensured"
  /\ key' = [key EXCEPT ![c] = IF q.row = "kept" THEN @ ELSE q.key]
  /\ checked' = [checked EXCEPT ![c] = IF q.row = "kept" THEN @ ELSE "never"]
  /\ named' = IF q.row = "new" /\ q.key \in Names THEN named \union {c} ELSE named
  /\ Goes(p, Idle)
  /\ UNCHANGED <<redisVars, refresh, faults>>

\* The transaction of the analysis commits, with its result or its failure.
CommitAnalysis(p) ==
  LET q == caller[p]
      c == q.company IN
  /\ p \in Analyzers
  /\ q.at = "ensured"
  /\ key' = [key EXCEPT ![c] = IF q.row = "kept" THEN @ ELSE q.key]
  /\ checked' = [checked EXCEPT ![c] = IF q.row = "new" THEN "never" ELSE @]
  /\ named' = IF q.row = "new" /\ q.key \in Names THEN named \union {c} ELSE named
  /\ Goes(p, Idle)
  /\ UNCHANGED <<redisVars, refresh, faults>>

\* The lock or the budget is unavailable, and no refresh is enqueued; the
\* worker goes on when the queue is.
RedisIsDown(p) ==
  /\ \/ caller[p].at \in {"stale", "locked"}
     \/ p \in Analyzers /\ caller[p].at = "budgeted"
  /\ faults < MaxFaults
  /\ faults' = faults + 1
  /\ MovesTo(p, "ensured")
  /\ UNCHANGED <<rows, redisVars, refresh>>

\* A lost claim or a deadlock rolls the analysis back; a request or a process
\* stops.
CallerStops(p) ==
  /\ caller[p] # Idle
  /\ faults < MaxFaults
  /\ faults' = faults + 1
  /\ Goes(p, Idle)
  /\ UNCHANGED <<rows, redisVars, refresh>>

-----------------------------------------------------------------------------
(***************************************************************************)
(* refresh_company_profile.                                                *)
(***************************************************************************)
RefreshGoes(w, to) == refresh' = [refresh EXCEPT ![w] = to]

\* A company that is not (yet) committed is not found: the job is over.
TakeRefresh(w, c) ==
  /\ refresh[w] = Idle
  /\ jobs[c] > 0
  /\ jobs' = [jobs EXCEPT ![c] = @ - 1]
  /\ RefreshGoes(w, IF key[c] = None THEN Idle
                    ELSE [at |-> "looking_up", key |-> key[c], company |-> c])
  /\ UNCHANGED <<rows, cache, locked, spent, caller, faults>>

\* perform_refresh after the providers answered or failed: the row is written,
\* and the cache, before the commit.
StoreSignal(w) ==
  /\ refresh[w].at = "looking_up"
  /\ ~SignalTaken(refresh[w].company)
  /\ Caches(refresh[w])
  /\ RefreshGoes(w, [refresh[w] EXCEPT !.at = "stored"])
  /\ UNCHANGED <<rows, locked, spent, jobs, caller, faults>>

CommitRefresh(w) ==
  /\ refresh[w].at = "stored"
  /\ checked' = [checked EXCEPT ![refresh[w].company] = "fresh"]
  /\ RefreshGoes(w, Idle)
  /\ UNCHANGED <<key, named, redisVars, caller, faults>>

\* An exception or the job timeout: rolled back, not retried.
RefreshFails(w) ==
  /\ refresh[w] # Idle
  /\ faults < MaxFaults
  /\ faults' = faults + 1
  /\ RefreshGoes(w, Idle)
  /\ UNCHANGED <<rows, redisVars, caller>>

-----------------------------------------------------------------------------
(***************************************************************************)
(* Time.                                                                   *)
(***************************************************************************)

\* company_profile_stale_after_seconds pass.
GrowsStale(c) ==
  /\ checked[c] = "fresh"
  /\ checked' = [checked EXCEPT ![c] = "stale"]
  /\ UNCHANGED <<key, named, redisVars, caller, refresh, faults>>

CacheExpires(k) ==
  /\ cache[k] # None
  /\ cache' = [cache EXCEPT ![k] = None]
  /\ UNCHANGED <<rows, locked, spent, jobs, caller, refresh, faults>>

LockExpires(k) ==
  /\ k \in locked
  /\ locked' = locked \ {k}
  /\ UNCHANGED <<rows, cache, spent, jobs, caller, refresh, faults>>

NewMinute ==
  /\ spent > 0
  /\ spent' = 0
  /\ UNCHANGED <<rows, cache, locked, jobs, caller, refresh, faults>>

-----------------------------------------------------------------------------
GoesOn(p) ==
  \/ \E k \in Keys : GetOrCreate(p, k)
  \/ Upgrade(p)
  \/ Resolve(p)
  \/ EnsureFresh(p)
  \/ CacheFreshRow(p)
  \/ AcquireLock(p)
  \/ ConsumeBudget(p)
  \/ EnqueueRefresh(p)
  \/ GetProfile(p)
  \/ CacheProfile(p)
  \/ CommitAnalysis(p)

CallerNext(p) ==
  \/ p \in Analyzers /\ \E l \in Letters[p] : Find(p, l)
  \/ \E c \in Companies : Look(p, c)
  \/ GoesOn(p)
  \/ RedisIsDown(p)
  \/ CallerStops(p)

RefreshNext(w) ==
  \/ \E c \in Companies : TakeRefresh(w, c)
  \/ StoreSignal(w)
  \/ CommitRefresh(w)
  \/ RefreshFails(w)

TimeNext ==
  \/ NewMinute
  \/ \E c \in Companies : GrowsStale(c)
  \/ \E k \in Keys : CacheExpires(k) \/ LockExpires(k)

Next ==
  \/ \E p \in Callers : CallerNext(p)
  \/ \E w \in Refreshers : RefreshNext(w)
  \/ TimeNext

Spec == Init /\ [][Next]_vars

(***************************************************************************)
(* Fairness: the clock runs, callers and jobs that were started go on, the *)
(* company is looked at again, its cache entry does not always expire in   *)
(* the middle of a response, and a writer gets a row it waits for.         *)
(***************************************************************************)
\* p is about to look at the cache for c.
About(p, c) == caller[p].at = "resolved" /\ caller[p].company = c

Fairness ==
  /\ WF_vars(NewMinute)
  /\ \A k \in Keys : WF_vars(LockExpires(k))
  /\ \A p \in Callers : WF_vars(caller[p] # Idle /\ GoesOn(p))
  /\ \A w \in Refreshers : SF_vars(StoreSignal(w)) /\ WF_vars(CommitRefresh(w))
  /\ \A c \in Companies :
       /\ WF_vars(\E p \in Readers : Look(p, c))
       /\ SF_vars(\E p \in Readers : About(p, c) /\ CacheExpires(caller[p].key))
       /\ SF_vars(\E p \in Readers :
                    About(p, c) /\ cache[caller[p].key] = None /\ EnsureFresh(p))
       /\ WF_vars(\E w \in Refreshers : TakeRefresh(w, c))

FairSpec == Spec /\ Fairness

-----------------------------------------------------------------------------
(***************************************************************************)
(* Properties.                                                             *)
(***************************************************************************)

\* Redis never holds the profile of a company that is not committed: an
\* analysis that inserts one and is rolled back leaves no ghost.  A profile is
\* cached under another key than the company's only if it was first known by
\* its name: an upgrade leaves the key of the name behind, and caches under the
\* key of the domain before it commits, or although it is lost.
OnlyUpgradesLeaveGhosts ==
  \A k \in Keys : cache[k] # None =>
    /\ key[cache[k]] # None
    /\ key[cache[k]] = k \/ cache[k] \in named

\* A completed check is never replaced by a placeholder, whichever analyses
\* and refreshes of a company race.
CheckIsNeverUndone ==
  [][\A c \in Companies :
       checked[c] \in {"stale", "fresh"} => checked'[c] \in {"stale", "fresh"}]_vars

\* A company that is looked at again and again is eventually checked, although
\* placeholders and ghosts are cached, locks are kept by callers that stop,
\* budgets run out, and the job of the creating analysis may come too early.
CompanyIsChecked ==
  \A c \in Companies : key[c] # None ~> checked[c] \in {"stale", "fresh"}
=============================================================================
