------------------------- MODULE CompanyProfileProofs -------------------------
(***************************************************************************)
(* Theorems about CompanyProfile, for any number of companies, domains,    *)
(* names, analyses, readers and refresh workers, any letters, and any      *)
(* budget and bounds.                                                      *)
(***************************************************************************)
EXTENDS CompanyProfile, TLAPS

-----------------------------------------------------------------------------
(***************************************************************************)
(* The inductive invariant.                                                *)
(***************************************************************************)

\* The company c is committed, and may be used under the key k: k is its key,
\* or the company may have moved, or not have moved, to or from k.
GoesBy(c, k) == key[c] # None /\ (key[c] = k \/ c \in named)

\* A caller that has its company.
HasCompany(q) == q.at \notin {"idle", "finding"}

\* An analysis that has inserted its company.
IsNew(q) == HasCompany(q) /\ q.row = "new"

\* What the caller p may hold as its q.  The company that it has inserted has
\* never been checked, so it is neither taken to be fresh nor cached.
Right(p, q) ==
  /\ q.at = "finding" /\ q.company # None => key[q.company] # None /\ q.company \in named
  /\ HasCompany(q) /\ q.row # "new" => GoesBy(q.company, q.key)
  /\ HasCompany(q) /\ q.row = "moved" => q.company \in named
  /\ IsNew(q) => /\ p \in Analyzers
                 /\ key[q.company] = None
                 /\ q.at \notin {"found", "fresh", "loaded"}
                 /\ q.at = "resolved" => q.seen = "never"

CallersRight == \A p \in Callers : Right(p, caller[p])

\* No two analyses insert the same row.
NewApart ==
  \A p, q \in Callers :
    p # q /\ IsNew(caller[p]) /\ IsNew(caller[q]) => caller[p].company # caller[q].company

RefreshesRight ==
  \A w \in Refreshers : refresh[w] # Idle => GoesBy(refresh[w].company, refresh[w].key)

\* A company whose key is a name was inserted under it.
NamesRight ==
  \A c \in Companies : /\ key[c] \in Names => c \in named
                       /\ c \in named => key[c] # None

ProfileInv ==
  /\ TypeOK
  /\ CallersRight
  /\ NewApart
  /\ RefreshesRight
  /\ NamesRight
  /\ OnlyUpgradesLeaveGhosts

-----------------------------------------------------------------------------
LEMMA ProfileInit == Init => ProfileInv
<1> SUFFICES ASSUME Init
             PROVE  ProfileInv
  OBVIOUS
<1>1. TypeOK
  BY ProfileAssumption DEF Init, TypeOK, Caller, Refresh, Idle
<1>2. \A p \in Callers : caller[p].at = "idle"
  BY DEF Init, Idle
<1>3. CallersRight /\ NewApart
  BY <1>2 DEF CallersRight, NewApart, Right, IsNew, HasCompany
<1>4. RefreshesRight /\ OnlyUpgradesLeaveGhosts
  BY DEF Init, RefreshesRight, OnlyUpgradesLeaveGhosts
<1>5. NamesRight
  BY ProfileAssumption DEF Init, NamesRight, Keys
<1> QED
  BY <1>1, <1>3, <1>4, <1>5 DEF ProfileInv

\* What the phases of a caller hold.
LEMMA CallerFields ==
  ASSUME TypeOK, NEW p \in Callers
  PROVE  /\ caller[p] # Idle <=> caller[p].at # "idle"
         /\ caller[p].at = "finding" => /\ caller[p].key \in Keys
                                        /\ caller[p].company \in Companies \union {None}
         /\ HasCompany(caller[p]) => /\ caller[p].key \in Keys
                                     /\ caller[p].company \in Companies
                                     /\ caller[p].row \in Row
         /\ caller[p].at = "found" => [caller[p] EXCEPT !.at = "resolved"] \in Caller
<1>1. caller[p] \in Caller
  BY DEF TypeOK
<1>2. CASE caller[p] = Idle
  BY <1>2 DEF Idle, HasCompany
<1>3. CASE caller[p] \in [at : {"finding"}, key : Keys, company : Companies \union {None}]
  BY <1>3 DEF Idle, HasCompany
<1>4. CASE caller[p] \in [at : {"found", "resolved"}, key : Keys, company : Companies,
                          row : Row, seen : Age]
  <2>1. [caller[p] EXCEPT !.at = "resolved"] \in
          [at : {"found", "resolved"}, key : Keys, company : Companies, row : Row, seen : Age]
    BY <1>4
  <2> QED
    BY <1>4, <2>1 DEF Idle, HasCompany, Caller
<1>5. CASE caller[p] \in [at : {"resolved", "fresh", "stale", "locked", "budgeted", "ensured",
                                "loaded"},
                          key : Keys, company : Companies, row : Row]
  BY <1>5 DEF Idle, HasCompany
<1> QED
  BY <1>1, <1>2, <1>3, <1>4, <1>5 DEF Caller

\* A caller that moves on inside ensure_fresh or get_profile keeps its type, its
\* key, its company and its row.
LEMMA MovesOn ==
  ASSUME TypeOK, NEW p \in Callers,
         NEW at \in {"stale", "locked", "budgeted", "ensured", "loaded"},
         caller[p].at \in {"fresh", "stale", "locked", "budgeted", "ensured"}
  PROVE  LET to == [caller[p] EXCEPT !.at = at] IN
         /\ to \in Caller
         /\ HasCompany(caller[p]) /\ HasCompany(to) /\ to.at = at
         /\ to.key = caller[p].key /\ to.company = caller[p].company /\ to.row = caller[p].row
<1>1. caller[p] \in [at : {"resolved", "fresh", "stale", "locked", "budgeted", "ensured",
                           "loaded"},
                     key : Keys, company : Companies, row : Row]
  BY DEF TypeOK, Caller, Idle
<1>2. [caller[p] EXCEPT !.at = at] \in
        [at : {"resolved", "fresh", "stale", "locked", "budgeted", "ensured", "loaded"},
         key : Keys, company : Companies, row : Row]
  BY <1>1
<1> QED
  BY <1>1, <1>2 DEF Caller, HasCompany

-----------------------------------------------------------------------------
(***************************************************************************)
(* Callers that move while no row is committed.                            *)
(***************************************************************************)

LEMMA CallerMoves ==
  ASSUME ProfileInv, NEW p \in Callers, NEW to \in Caller, Goes(p, to),
         UNCHANGED <<key, checked, named, refresh>>,
         cache' \in [Keys -> Companies \union {None}],
         locked' \in SUBSET Keys,
         spent' \in 0..RateLimit,
         jobs' \in [Companies -> 0..MaxQueued],
         faults' \in 0..MaxFaults,
         \A k \in Keys : cache'[k] # cache[k] => GoesBy(cache'[k], k),
         Right(p, to),
         IsNew(to) =>
           \/ IsNew(caller[p]) /\ caller[p].company = to.company
           \/ \A q \in Callers : IsNew(caller[q]) => caller[q].company # to.company
  PROVE  ProfileInv'
<1>1. TypeOK'
  BY DEF ProfileInv, TypeOK, Goes
<1>2. caller'[p] = to /\ \A q \in Callers : q # p => caller'[q] = caller[q]
  BY DEF ProfileInv, TypeOK, Goes
<1>3. CallersRight'
  BY <1>2 DEF ProfileInv, CallersRight, Right, GoesBy, IsNew, HasCompany
<1>4. NewApart'
  BY <1>2 DEF ProfileInv, NewApart, IsNew, HasCompany
<1>5. RefreshesRight' /\ NamesRight'
  BY DEF ProfileInv, RefreshesRight, NamesRight, GoesBy
<1>6. OnlyUpgradesLeaveGhosts'
  BY DEF ProfileInv, OnlyUpgradesLeaveGhosts, GoesBy
<1> QED
  BY <1>1, <1>3, <1>4, <1>5, <1>6 DEF ProfileInv

\* Nothing but the caller moves.
LEMMA OnlyTheCaller ==
  ASSUME ProfileInv, NEW p \in Callers, NEW to \in Caller, Goes(p, to),
         UNCHANGED <<rows, redisVars, refresh, faults>>,
         Right(p, to),
         IsNew(to) =>
           \/ IsNew(caller[p]) /\ caller[p].company = to.company
           \/ \A q \in Callers : IsNew(caller[q]) => caller[q].company # to.company
  PROVE  ProfileInv'
<1>1. UNCHANGED <<key, checked, named, refresh, cache, locked, spent, jobs, faults>>
  BY DEF rows, redisVars
<1>2. /\ cache' \in [Keys -> Companies \union {None}] /\ locked' \in SUBSET Keys
      /\ spent' \in 0..RateLimit /\ jobs' \in [Companies -> 0..MaxQueued]
      /\ faults' \in 0..MaxFaults
  BY <1>1 DEF ProfileInv, TypeOK
<1> QED
  BY <1>1, <1>2, CallerMoves

\* A caller ends, or has nothing yet.
LEMMA IdleIsRight ==
  ASSUME NEW p \in Callers
  PROVE  Idle \in Caller /\ Right(p, Idle) /\ ~IsNew(Idle)
  BY DEF Caller, Idle, Right, IsNew, HasCompany

\* resolve_for_analysis, the reads of both keys.
LEMMA FindStep ==
  ASSUME ProfileInv, NEW p \in Callers, NEW l, Find(p, l)
  PROVE  ProfileInv'
<1>1. /\ UNCHANGED <<rows, redisVars, refresh, faults>>
      /\ p \in Analyzers /\ l \in Letters[p] /\ l.domain # None /\ l.name # None
  BY DEF Find
<1>2. l.domain \in Keys /\ l.name \in Names
  BY <1>1, ProfileAssumption DEF Keys
<1>3. PICK c \in Companies \union {None} :
        /\ Goes(p, [at |-> "finding", key |-> l.domain, company |-> c])
        /\ c # None => c \in WithKey(l.name)
  BY DEF Find, Finds, WithKey
<1> DEFINE to == [at |-> "finding", key |-> l.domain, company |-> c]
<1>4. to \in Caller
  BY <1>2 DEF Caller
<1>5. c # None => key[c] # None /\ c \in named
  BY <1>2, <1>3, ProfileAssumption DEF WithKey, ProfileInv, NamesRight, Keys
<1>6. Right(p, to) /\ ~IsNew(to)
  BY <1>5 DEF Right, IsNew, HasCompany
<1> QED
  BY <1>1, <1>3, <1>4, <1>6, OnlyTheCaller

\* A company that has been found.
LEMMA ReadsStep ==
  ASSUME ProfileInv, NEW p \in Callers, NEW k \in Keys, NEW c \in Companies,
         NEW row \in {"kept", "moved"}, Reads(p, k, c, row),
         UNCHANGED <<rows, redisVars, refresh, faults>>,
         GoesBy(c, k), row = "moved" => c \in named
  PROVE  ProfileInv'
<1> DEFINE to == [at |-> "found", key |-> k, company |-> c, row |-> row, seen |-> checked[c]]
<1>1. Goes(p, to)
  BY DEF Reads
<1>2. checked[c] \in Age
  BY DEF ProfileInv, TypeOK, GoesBy
<1>3. to \in Caller
  BY <1>2 DEF Caller, Row
<1>4. Right(p, to) /\ ~IsNew(to)
  BY DEF Right, IsNew, HasCompany
<1> QED
  BY <1>1, <1>3, <1>4, OnlyTheCaller

\* get_or_create_by_key.
LEMMA GetOrCreateStep ==
  ASSUME ProfileInv, NEW p \in Callers, NEW k \in Keys, GetOrCreate(p, k)
  PROVE  ProfileInv'
<1>1. UNCHANGED <<rows, redisVars, refresh, faults>> /\ p \in Analyzers
  BY DEF GetOrCreate
<1>2. ASSUME NEW c \in WithKey(k), Reads(p, k, c, "kept")
      PROVE  ProfileInv'
  <2>1. c \in Companies /\ GoesBy(c, k)
    BY <1>2, ProfileAssumption DEF WithKey, GoesBy
  <2> QED
    BY <1>1, <1>2, <2>1, ReadsStep
<1>3. ASSUME NEW c \in FreshCompanies,
             Goes(p, [at |-> "resolved", key |-> k, company |-> c,
                      row |-> "new", seen |-> "never"])
      PROVE  ProfileInv'
  <2> DEFINE to == [at |-> "resolved", key |-> k, company |-> c, row |-> "new", seen |-> "never"]
  <2>1. c \in Companies /\ key[c] = None
    BY DEF FreshCompanies
  <2>2. to \in Caller
    BY <2>1 DEF Caller, Row, Age
  <2>3. Right(p, to)
    BY <1>1, <2>1 DEF Right, IsNew, HasCompany
  <2>4. \A q \in Callers : IsNew(caller[q]) => caller[q].company # to.company
    BY DEF FreshCompanies, IsNew, HasCompany
  <2> QED
    BY <1>1, <1>3, <2>2, <2>3, <2>4, OnlyTheCaller
<1> QED
  BY <1>2, <1>3 DEF GetOrCreate

\* upgrade_name_only_company.
LEMMA UpgradeStep ==
  ASSUME ProfileInv, NEW p \in Callers, Upgrade(p)
  PROVE  ProfileInv'
<1> DEFINE k == caller[p].key
           c == caller[p].company
<1>1. UNCHANGED <<rows, redisVars, refresh, faults>> /\ caller[p].at = "finding" /\ c # None
  BY DEF Upgrade
<1>2. k \in Keys /\ c \in Companies
  BY <1>1, CallerFields DEF ProfileInv
<1>3. GoesBy(c, k) /\ c \in named
  BY <1>1 DEF ProfileInv, CallersRight, Right, GoesBy
<1>4. \/ Reads(p, k, c, "moved") \/ Reads(p, k, c, "kept")
      \/ \E d \in WithKey(k) : Reads(p, k, d, "kept")
  BY DEF Upgrade
<1>5. ASSUME NEW d \in WithKey(k), Reads(p, k, d, "kept")
      PROVE  ProfileInv'
  <2>1. d \in Companies /\ GoesBy(d, k)
    BY <1>2, ProfileAssumption DEF WithKey, GoesBy
  <2> QED
    BY <1>1, <1>2, <1>5, <2>1, ReadsStep
<1> QED
  BY <1>1, <1>2, <1>3, <1>4, <1>5, ReadsStep

\* The wait for the signal row is over.
LEMMA ResolveStep ==
  ASSUME ProfileInv, NEW p \in Callers, Resolve(p)
  PROVE  ProfileInv'
<1> DEFINE to == [caller[p] EXCEPT !.at = "resolved"]
<1>1. /\ UNCHANGED <<rows, redisVars, refresh, faults>>
      /\ caller[p].at = "found" /\ Goes(p, to)
  BY DEF Resolve, MovesTo
<1>2. to \in Caller
  BY <1>1, CallerFields DEF ProfileInv
<1>3. caller[p] \in [at : {"found", "resolved"}, key : Keys, company : Companies, row : Row,
                     seen : Age]
  BY <1>1 DEF ProfileInv, TypeOK, Caller, Idle
<1>4. /\ to.at = "resolved" /\ to.key = caller[p].key /\ to.company = caller[p].company
      /\ to.row = caller[p].row
  BY <1>3
<1>5. Right(p, caller[p])
  BY DEF ProfileInv, CallersRight
<1>6. Right(p, to) /\ ~IsNew(to)
  BY <1>1, <1>4, <1>5 DEF Right, IsNew, HasCompany
<1> QED
  BY <1>1, <1>2, <1>6, OnlyTheCaller

\* The first step of a reader.
LEMMA LookStep ==
  ASSUME ProfileInv, NEW p \in Callers, NEW c \in Companies, Look(p, c)
  PROVE  ProfileInv'
<1> DEFINE to == [at |-> "resolved", key |-> key[c], company |-> c, row |-> "kept"]
<1>1. UNCHANGED <<rows, redisVars, refresh, faults>> /\ key[c] # None /\ Goes(p, to)
  BY DEF Look
<1>2. key[c] \in Keys
  BY <1>1 DEF ProfileInv, TypeOK
<1>3. to \in Caller
  BY <1>2 DEF Caller, Row
<1>4. Right(p, to) /\ ~IsNew(to)
  BY <1>1 DEF Right, IsNew, HasCompany, GoesBy
<1> QED
  BY <1>1, <1>3, <1>4, OnlyTheCaller

\* The decision of ensure_fresh.
LEMMA EnsureStep ==
  ASSUME ProfileInv, NEW p \in Callers, EnsureFresh(p)
  PROVE  ProfileInv'
<1> DEFINE q == caller[p]
           next == IF cache[q.key] # None THEN "ensured"
                   ELSE IF Stale(AgeSeen(p)) THEN "stale" ELSE "fresh"
           to == [at |-> next, key |-> q.key, company |-> q.company, row |-> q.row]
<1>1. UNCHANGED <<rows, redisVars, refresh, faults>> /\ q.at = "resolved" /\ Goes(p, to)
  BY DEF EnsureFresh
<1>2. next \in {"ensured", "stale", "fresh"}
  OBVIOUS
<1>3. Right(p, q) /\ HasCompany(q)
  BY <1>1 DEF ProfileInv, CallersRight, HasCompany
<1>4. next = "fresh" => q.row # "new"
  BY <1>1, <1>3 DEF Right, IsNew, AgeSeen, Stale
<1>5. q.key \in Keys /\ q.company \in Companies /\ q.row \in Row
  BY <1>3, CallerFields DEF ProfileInv
<1> HIDE DEF next
<1>6. to \in Caller
  BY <1>2, <1>5 DEF Caller
<1>7. Right(p, to)
  BY <1>2, <1>3, <1>4 DEF Right, IsNew, HasCompany
<1>8. IsNew(to) => IsNew(q) /\ q.company = to.company
  BY <1>3 DEF IsNew
<1> QED
  BY <1>1, <1>6, <1>7, <1>8, OnlyTheCaller

\* A caller that moves on still has its company, and still as it had it.
LEMMA StillRight ==
  ASSUME ProfileInv, NEW p \in Callers,
         NEW at \in {"stale", "locked", "budgeted", "ensured", "loaded"},
         caller[p].at \in {"fresh", "stale", "locked", "budgeted", "ensured"},
         at = "loaded" => p \notin Analyzers
  PROVE  LET to == [caller[p] EXCEPT !.at = at] IN
         /\ to \in Caller
         /\ Right(p, to)
         /\ IsNew(to) => IsNew(caller[p]) /\ caller[p].company = to.company
<1> DEFINE to == [caller[p] EXCEPT !.at = at]
<1>1. /\ to \in Caller
      /\ HasCompany(caller[p]) /\ HasCompany(to) /\ to.at = at
      /\ to.key = caller[p].key /\ to.company = caller[p].company /\ to.row = caller[p].row
  BY MovesOn DEF ProfileInv
<1>2. Right(p, caller[p])
  BY DEF ProfileInv, CallersRight
<1> HIDE DEF to
<1>3. IsNew(to) => IsNew(caller[p]) /\ caller[p].company = to.company
  BY <1>1 DEF IsNew
<1>4. Right(p, to)
  BY <1>1, <1>2, <1>3 DEF Right, HasCompany
<1> QED
  BY <1>1, <1>3, <1>4 DEF to

\* _write_cache of a committed company.
LEMMA CachesRight ==
  ASSUME ProfileInv, NEW q, Caches(q), q.key \in Keys, q.company \in Companies,
         GoesBy(q.company, q.key)
  PROVE  /\ cache' \in [Keys -> Companies \union {None}]
         /\ \A k \in Keys : cache'[k] # cache[k] => GoesBy(cache'[k], k)
  BY DEF ProfileInv, TypeOK, Caches

\* A row that is fresh has been committed.
LEMMA CachedRowIsRight ==
  ASSUME ProfileInv, NEW p \in Callers, caller[p].at \in {"fresh", "loaded"}
  PROVE  /\ caller[p].key \in Keys /\ caller[p].company \in Companies
         /\ GoesBy(caller[p].company, caller[p].key)
<1>1. HasCompany(caller[p]) /\ Right(p, caller[p])
  BY DEF ProfileInv, CallersRight, HasCompany
<1> QED
  BY <1>1, CallerFields DEF ProfileInv, Right, IsNew

\* ensure_fresh, the cache repopulated from the row.
LEMMA CacheFreshStep ==
  ASSUME ProfileInv, NEW p \in Callers, CacheFreshRow(p)
  PROVE  ProfileInv'
<1> DEFINE to == [caller[p] EXCEPT !.at = "ensured"]
<1>1. /\ UNCHANGED <<key, checked, named, locked, spent, jobs, refresh, faults>>
      /\ caller[p].at = "fresh" /\ Caches(caller[p]) /\ Goes(p, to)
  BY DEF CacheFreshRow, MovesTo, rows
<1>2. /\ cache' \in [Keys -> Companies \union {None}]
      /\ \A k \in Keys : cache'[k] # cache[k] => GoesBy(cache'[k], k)
  BY <1>1, CachedRowIsRight, CachesRight
<1>3. /\ locked' \in SUBSET Keys /\ spent' \in 0..RateLimit
      /\ jobs' \in [Companies -> 0..MaxQueued] /\ faults' \in 0..MaxFaults
  BY <1>1 DEF ProfileInv, TypeOK
<1>4. /\ to \in Caller /\ Right(p, to)
      /\ IsNew(to) => IsNew(caller[p]) /\ caller[p].company = to.company
  BY <1>1, StillRight
<1> QED
  BY <1>1, <1>2, <1>3, <1>4, CallerMoves

\* get_profile, the row put in the cache.
LEMMA CacheProfileStep ==
  ASSUME ProfileInv, NEW p \in Callers, CacheProfile(p)
  PROVE  ProfileInv'
<1>1. /\ UNCHANGED <<key, checked, named, locked, spent, jobs, refresh, faults>>
      /\ caller[p].at = "loaded" /\ Caches(caller[p]) /\ Goes(p, Idle)
  BY DEF CacheProfile, rows
<1>2. /\ cache' \in [Keys -> Companies \union {None}]
      /\ \A k \in Keys : cache'[k] # cache[k] => GoesBy(cache'[k], k)
  BY <1>1, CachedRowIsRight, CachesRight
<1>3. /\ locked' \in SUBSET Keys /\ spent' \in 0..RateLimit
      /\ jobs' \in [Companies -> 0..MaxQueued] /\ faults' \in 0..MaxFaults
  BY <1>1 DEF ProfileInv, TypeOK
<1> QED
  BY <1>1, <1>2, <1>3, IdleIsRight, CallerMoves

\* A step of ensure_fresh or get_profile that leaves rows and cache alone.
LEMMA InsideStep ==
  ASSUME ProfileInv, NEW p \in Callers,
         NEW at \in {"stale", "locked", "budgeted", "ensured", "loaded"},
         MovesTo(p, at),
         caller[p].at \in {"fresh", "stale", "locked", "budgeted", "ensured"},
         at = "loaded" => p \notin Analyzers,
         UNCHANGED <<key, checked, named, cache, refresh>>,
         locked' \in SUBSET Keys,
         spent' \in 0..RateLimit,
         jobs' \in [Companies -> 0..MaxQueued],
         faults' \in 0..MaxFaults
  PROVE  ProfileInv'
<1> DEFINE to == [caller[p] EXCEPT !.at = at]
<1>1. Goes(p, to)
  BY DEF MovesTo
<1>2. cache' \in [Keys -> Companies \union {None}]
  BY DEF ProfileInv, TypeOK
<1>3. /\ to \in Caller /\ Right(p, to)
      /\ IsNew(to) => IsNew(caller[p]) /\ caller[p].company = to.company
  BY StillRight
<1> QED
  BY <1>1, <1>2, <1>3, CallerMoves

\* The lock, the budget, the queue, and the read of the cache after them.
LEMMA DispatchStep ==
  ASSUME ProfileInv, NEW p \in Callers,
         \/ AcquireLock(p) \/ ConsumeBudget(p) \/ EnqueueRefresh(p) \/ GetProfile(p)
         \/ RedisIsDown(p) \/ CallerStops(p)
  PROVE  ProfileInv'
<1>1. TypeOK
  BY DEF ProfileInv
<1>2. CASE AcquireLock(p)
  <2>1. /\ UNCHANGED <<key, checked, named, cache, spent, jobs, refresh, faults>>
        /\ caller[p].at = "stale" /\ locked' = locked \union {caller[p].key}
        /\ MovesTo(p, "ensured") \/ MovesTo(p, "locked")
    BY <1>2 DEF AcquireLock, rows
  <2>2. caller[p].key \in Keys
    BY <1>1, <2>1, CallerFields DEF HasCompany
  <2>3. /\ locked' \in SUBSET Keys /\ spent' \in 0..RateLimit
        /\ jobs' \in [Companies -> 0..MaxQueued] /\ faults' \in 0..MaxFaults
    BY <1>1, <2>1, <2>2 DEF TypeOK
  <2> QED
    BY <2>1, <2>3, InsideStep
<1>3. CASE ConsumeBudget(p)
  <2>1. /\ UNCHANGED <<key, checked, named, cache, locked, jobs, refresh, faults>>
        /\ caller[p].at = "locked"
        /\ MovesTo(p, "ensured") \/ MovesTo(p, "budgeted")
    BY <1>3 DEF ConsumeBudget, rows
  <2>2. spent' \in 0..RateLimit
    BY <1>1, <1>3, ProfileAssumption DEF ConsumeBudget, TypeOK
  <2>3. /\ locked' \in SUBSET Keys
        /\ jobs' \in [Companies -> 0..MaxQueued] /\ faults' \in 0..MaxFaults
    BY <1>1, <2>1 DEF TypeOK
  <2> QED
    BY <2>1, <2>2, <2>3, InsideStep
<1>4. CASE EnqueueRefresh(p)
  <2>1. /\ UNCHANGED <<key, checked, named, cache, locked, spent, refresh, faults>>
        /\ caller[p].at = "budgeted" /\ MovesTo(p, "ensured")
    BY <1>4 DEF EnqueueRefresh, rows
  <2>2. jobs' \in [Companies -> 0..MaxQueued]
    <3>1. caller[p].company \in Companies
      BY <1>1, <2>1, CallerFields DEF HasCompany
    <3>2. jobs' = [jobs EXCEPT ![caller[p].company] = IF @ < MaxQueued THEN @ + 1 ELSE @]
      BY <1>4 DEF EnqueueRefresh
    <3>3. /\ jobs[caller[p].company] \in 0..MaxQueued
          /\ jobs \in [Companies -> 0..MaxQueued] /\ MaxQueued \in Nat
      BY <1>1, <3>1, ProfileAssumption DEF TypeOK
    <3> QED
      BY <3>1, <3>2, <3>3
  <2>3. locked' \in SUBSET Keys /\ spent' \in 0..RateLimit /\ faults' \in 0..MaxFaults
    BY <1>1, <2>1 DEF TypeOK
  <2> QED
    BY <2>1, <2>2, <2>3, InsideStep
<1>5. CASE GetProfile(p)
  <2>1. /\ UNCHANGED <<rows, redisVars, refresh, faults>>
        /\ p \notin Analyzers /\ caller[p].at = "ensured"
        /\ Goes(p, Idle) \/ MovesTo(p, "loaded")
    BY <1>5, ProfileAssumption DEF GetProfile
  <2>2. CASE Goes(p, Idle)
    BY <2>1, <2>2, IdleIsRight, OnlyTheCaller
  <2>3. CASE MovesTo(p, "loaded")
    <3>1. UNCHANGED <<key, checked, named, cache, locked, spent, jobs, refresh, faults>>
      BY <2>1 DEF rows, redisVars
    <3>2. /\ locked' \in SUBSET Keys /\ spent' \in 0..RateLimit
          /\ jobs' \in [Companies -> 0..MaxQueued] /\ faults' \in 0..MaxFaults
      BY <1>1, <3>1 DEF TypeOK
    <3> QED
      BY <2>1, <2>3, <3>1, <3>2, InsideStep
  <2> QED
    BY <2>1, <2>2, <2>3
<1>6. CASE RedisIsDown(p)
  <2>1. /\ UNCHANGED <<key, checked, named, cache, locked, spent, jobs, refresh>>
        /\ caller[p].at \in {"stale", "locked", "budgeted"}
        /\ faults < MaxFaults /\ faults' = faults + 1 /\ MovesTo(p, "ensured")
    BY <1>6 DEF RedisIsDown, rows, redisVars
  <2>2. /\ locked' \in SUBSET Keys /\ spent' \in 0..RateLimit
        /\ jobs' \in [Companies -> 0..MaxQueued] /\ faults' \in 0..MaxFaults
    BY <1>1, <2>1, ProfileAssumption DEF TypeOK
  <2> QED
    BY <2>1, <2>2, InsideStep
<1>7. CASE CallerStops(p)
  <2>1. /\ UNCHANGED <<key, checked, named, cache, locked, spent, jobs, refresh>>
        /\ faults < MaxFaults /\ faults' = faults + 1 /\ Goes(p, Idle)
    BY <1>7 DEF CallerStops, rows, redisVars
  <2>2. /\ cache' \in [Keys -> Companies \union {None}]
        /\ locked' \in SUBSET Keys /\ spent' \in 0..RateLimit
        /\ jobs' \in [Companies -> 0..MaxQueued] /\ faults' \in 0..MaxFaults
    BY <1>1, <2>1, ProfileAssumption DEF TypeOK
  <2> QED
    BY <2>1, <2>2, IdleIsRight, CallerMoves
<1> QED
  BY <1>2, <1>3, <1>4, <1>5, <1>6, <1>7

-----------------------------------------------------------------------------
(***************************************************************************)
(* Rows that are committed.                                                *)
(***************************************************************************)

\* A commit of rows does not take a company away from anyone who uses it under
\* a key: a committed company keeps its key, or moves and is known by name.
RowsGrow ==
  /\ named \subseteq named'
  /\ \A c \in Companies :
       key[c] # None => key'[c] # None /\ (key'[c] = key[c] \/ c \in named)

LEMMA StillGoesBy ==
  ASSUME RowsGrow, NEW c \in Companies, NEW k, GoesBy(c, k)
  PROVE  key'[c] # None /\ (key'[c] = k \/ c \in named')
  BY DEF RowsGrow, GoesBy

\* The end of an analysis.
LEMMA CommitStep ==
  ASSUME ProfileInv, NEW p \in Callers, CommitAnalysis(p)
  PROVE  ProfileInv' /\ RowsGrow
<1> DEFINE q == caller[p]
           c == q.company
<1>1. /\ UNCHANGED <<redisVars, refresh, faults>> /\ q.at = "ensured" /\ HasCompany(q)
      /\ key' = [key EXCEPT ![c] = IF q.row = "kept" THEN @ ELSE q.key]
      /\ checked' = [checked EXCEPT ![c] = IF q.row = "new" THEN "never" ELSE @]
      /\ named' = IF q.row = "new" /\ q.key \in Names THEN named \union {c} ELSE named
      /\ caller' = [caller EXCEPT ![p] = Idle]
  BY DEF CommitAnalysis, Goes, HasCompany
<1>2. /\ TypeOK /\ CallersRight /\ NewApart /\ RefreshesRight /\ NamesRight
      /\ OnlyUpgradesLeaveGhosts /\ Right(p, q)
  BY DEF ProfileInv, CallersRight
<1>3. q.key \in Keys /\ c \in Companies /\ q.row \in Row
  BY <1>1, <1>2, CallerFields
<1>4. /\ q.row = "new" => key[c] = None
      /\ q.row # "new" => key[c] # None
      /\ q.row = "moved" => c \in named
  BY <1>1, <1>2, <1>3 DEF Right, IsNew, GoesBy
<1>5. \A d \in Companies : d # c => key'[d] = key[d] /\ checked'[d] = checked[d]
  BY <1>1, <1>2 DEF TypeOK
<1>6. /\ key'[c] = IF q.row = "kept" THEN key[c] ELSE q.key
      /\ checked'[c] = IF q.row = "new" THEN "never" ELSE checked[c]
  BY <1>1, <1>2, <1>3 DEF TypeOK
<1>7. key'[c] # None /\ checked'[c] # "absent"
  BY <1>2, <1>3, <1>4, <1>6, ProfileAssumption DEF TypeOK, Keys
<1>8. \A r \in Callers : r # p => caller'[r] = caller[r]
  BY <1>1, <1>2 DEF TypeOK
<1>9. caller'[p] = Idle
  BY <1>1, <1>2 DEF TypeOK
<1> HIDE DEF q, c
<1>10. TypeOK'
  <2>1. key' \in [Companies -> Keys \union {None}]
    BY <1>1, <1>2, <1>3 DEF TypeOK
  <2>2. checked' \in [Companies -> Age \union {"absent"}]
    BY <1>1, <1>2, <1>3 DEF TypeOK, Age
  <2>3. \A d \in Companies : key'[d] # None <=> checked'[d] # "absent"
    BY <1>2, <1>3, <1>5, <1>7 DEF TypeOK
  <2>4. caller' \in [Callers -> Caller] /\ named' \in SUBSET Companies
    BY <1>1, <1>2, <1>3, IdleIsRight DEF TypeOK
  <2> QED
    BY <1>1, <1>2, <2>1, <2>2, <2>3, <2>4 DEF TypeOK, redisVars
<1>11. RowsGrow
  BY <1>1, <1>3, <1>4, <1>5, <1>6, <1>7 DEF RowsGrow, Row
<1>12. ASSUME NEW r \in Callers, r # p
       PROVE  Right(r, caller[r])'
  <2> DEFINE s == caller[r]
  <2>1. caller'[r] = s /\ Right(r, s)
    BY <1>2, <1>8, <1>12 DEF CallersRight
  <2>2. /\ s.at = "finding" => s.company \in Companies \union {None}
        /\ HasCompany(s) => s.company \in Companies
    BY <1>2, CallerFields
  <2>3. IsNew(s) => s.company # c
    BY <1>1, <1>2, <1>4, <1>12, <2>1 DEF NewApart, IsNew, Right, HasCompany, q, c
  <2> HIDE DEF s
  <2>4. IsNew(s) => key'[s.company] = None
    BY <1>5, <2>1, <2>2, <2>3 DEF Right, IsNew
  <2>5. HasCompany(s) /\ s.row # "new" =>
          key'[s.company] # None /\ (key'[s.company] = s.key \/ s.company \in named')
    BY <1>11, <2>1, <2>2, StillGoesBy DEF Right
  <2>6. s.at = "finding" /\ s.company # None => key'[s.company] # None /\ s.company \in named'
    BY <1>11, <2>1, <2>2 DEF Right, RowsGrow
  <2>7. HasCompany(s) /\ s.row = "moved" => s.company \in named'
    BY <1>11, <2>1 DEF Right, RowsGrow
  <2> QED
    BY <2>1, <2>4, <2>5, <2>6, <2>7 DEF Right, GoesBy, IsNew, HasCompany
<1>13. CallersRight'
  <2>1. Right(p, caller[p])'
    BY <1>9 DEF Right, IsNew, HasCompany, Idle
  <2> QED
    BY <1>12, <2>1 DEF CallersRight, Callers
<1>14. NewApart'
  BY <1>2, <1>8, <1>9 DEF NewApart, IsNew, HasCompany, Idle, Callers
<1>15. RefreshesRight'
  <2>1. ASSUME NEW w \in Refreshers, refresh[w] # Idle
        PROVE  /\ key'[refresh[w].company] # None
               /\ \/ key'[refresh[w].company] = refresh[w].key
                  \/ refresh[w].company \in named'
    <3>1. refresh[w].company \in Companies /\ GoesBy(refresh[w].company, refresh[w].key)
      BY <1>2, <2>1 DEF TypeOK, Refresh, RefreshesRight
    <3> QED
      BY <1>11, <3>1, StillGoesBy
  <2>2. refresh' = refresh
    BY <1>1
  <2> QED
    BY <2>1, <2>2 DEF RefreshesRight, GoesBy
<1>16. NamesRight'
  <2>1. ASSUME NEW d \in Companies
        PROVE  (key'[d] \in Names => d \in named') /\ (d \in named' => key'[d] # None)
    BY <1>1, <1>2, <1>3, <1>4, <1>5, <1>6, <1>7 DEF NamesRight, Row
  <2> QED
    BY <2>1 DEF NamesRight
<1>17. OnlyUpgradesLeaveGhosts'
  <2>1. cache' = cache
    BY <1>1 DEF redisVars
  <2>2. ASSUME NEW k \in Keys, cache[k] # None
        PROVE  key'[cache[k]] # None /\ (key'[cache[k]] = k \/ cache[k] \in named')
    BY <1>2, <1>11, <2>2 DEF TypeOK, OnlyUpgradesLeaveGhosts, RowsGrow
  <2> QED
    BY <2>1, <2>2 DEF OnlyUpgradesLeaveGhosts
<1> QED
  BY <1>10, <1>11, <1>13, <1>14, <1>15, <1>16, <1>17 DEF ProfileInv

\* Any step of an analysis or of a reader.
LEMMA CallerStep ==
  ASSUME ProfileInv, NEW p \in Callers, CallerNext(p)
  PROVE  ProfileInv'
  BY FindStep, GetOrCreateStep, UpgradeStep, ResolveStep, LookStep, EnsureStep, CacheFreshStep,
     CacheProfileStep, DispatchStep, CommitStep DEF CallerNext, GoesOn

-----------------------------------------------------------------------------
(***************************************************************************)
(* Refreshes, and time.                                                    *)
(***************************************************************************)

\* No caller moves, and no company gets a row or another key.
LEMMA NoCallerMoves ==
  ASSUME ProfileInv, TypeOK', UNCHANGED <<key, named, caller>>,
         \A w \in Refreshers : refresh'[w] # Idle =>
           GoesBy(refresh'[w].company, refresh'[w].key),
         \A k \in Keys : cache'[k] # cache[k] /\ cache'[k] # None => GoesBy(cache'[k], k)
  PROVE  ProfileInv'
<1>1. CallersRight' /\ NewApart' /\ NamesRight'
  BY DEF ProfileInv, CallersRight, NewApart, NamesRight, Right, GoesBy, IsNew, HasCompany
<1>2. RefreshesRight'
  BY DEF RefreshesRight, GoesBy
<1>3. OnlyUpgradesLeaveGhosts'
  BY DEF ProfileInv, OnlyUpgradesLeaveGhosts, GoesBy
<1> QED
  BY <1>1, <1>2, <1>3 DEF ProfileInv

\* refresh_company_profile.
LEMMA RefreshStep ==
  ASSUME ProfileInv, NEW w \in Refreshers, RefreshNext(w)
  PROVE  ProfileInv'
<1>1. TypeOK /\ RefreshesRight
  BY DEF ProfileInv
<1>2. refresh[w] # Idle => /\ refresh[w].company \in Companies /\ refresh[w].key \in Keys
                           /\ [refresh[w] EXCEPT !.at = "stored"] \in Refresh
                           /\ [refresh[w] EXCEPT !.at = "stored"].company = refresh[w].company
                           /\ [refresh[w] EXCEPT !.at = "stored"].key = refresh[w].key
  <2>1. SUFFICES ASSUME refresh[w] # Idle
                 PROVE  /\ refresh[w].company \in Companies /\ refresh[w].key \in Keys
                        /\ [refresh[w] EXCEPT !.at = "stored"] \in Refresh
                        /\ [refresh[w] EXCEPT !.at = "stored"].company = refresh[w].company
                        /\ [refresh[w] EXCEPT !.at = "stored"].key = refresh[w].key
    OBVIOUS
  <2>2. refresh[w] \in [at : {"looking_up", "stored"}, key : Keys, company : Companies]
    BY <1>1, <2>1 DEF TypeOK, Refresh
  <2>3. [refresh[w] EXCEPT !.at = "stored"] \in
          [at : {"looking_up", "stored"}, key : Keys, company : Companies]
    BY <2>2
  <2> QED
    BY <2>2, <2>3 DEF Refresh
<1>3. ASSUME NEW c \in Companies, TakeRefresh(w, c)
      PROVE  ProfileInv'
  <2> DEFINE to == IF key[c] = None THEN Idle
                   ELSE [at |-> "looking_up", key |-> key[c], company |-> c]
  <2>1. /\ UNCHANGED <<key, checked, named, cache, locked, spent, caller, faults>>
        /\ jobs[c] > 0 /\ jobs' = [jobs EXCEPT ![c] = @ - 1]
        /\ refresh' = [refresh EXCEPT ![w] = to]
    BY <1>3 DEF TakeRefresh, RefreshGoes, rows
  <2>2. to \in Refresh
    BY <1>1 DEF TypeOK, Refresh
  <2>3. jobs' \in [Companies -> 0..MaxQueued]
    <3>1. jobs[c] \in 0..MaxQueued /\ jobs \in [Companies -> 0..MaxQueued] /\ MaxQueued \in Nat
      BY <1>1, ProfileAssumption DEF TypeOK
    <3>2. jobs[c] - 1 \in 0..MaxQueued
      BY <2>1, <3>1
    <3> QED
      BY <2>1, <3>1, <3>2
  <2>4. TypeOK'
    BY <1>1, <2>1, <2>2, <2>3 DEF TypeOK
  <2>5. to # Idle => GoesBy(to.company, to.key)
    BY DEF GoesBy
  <2>6. \A v \in Refreshers : refresh'[v] = IF v = w THEN to ELSE refresh[v]
    BY <1>1, <2>1, <2>2 DEF TypeOK
  <2> HIDE DEF to
  <2>7. \A v \in Refreshers : refresh'[v] # Idle => GoesBy(refresh'[v].company, refresh'[v].key)
    BY <1>1, <2>5, <2>6 DEF RefreshesRight
  <2> QED
    BY <2>1, <2>4, <2>7, NoCallerMoves
<1>4. CASE StoreSignal(w)
  <2>1. /\ UNCHANGED <<key, checked, named, locked, spent, jobs, caller, faults>>
        /\ refresh[w] # Idle /\ Caches(refresh[w])
        /\ refresh' = [refresh EXCEPT ![w] = [refresh[w] EXCEPT !.at = "stored"]]
    BY <1>4 DEF StoreSignal, RefreshGoes, rows, Idle
  <2>2. GoesBy(refresh[w].company, refresh[w].key)
    BY <1>1, <2>1 DEF RefreshesRight
  <2>3. /\ cache' \in [Keys -> Companies \union {None}]
        /\ \A k \in Keys : cache'[k] # cache[k] => GoesBy(cache'[k], k)
    BY <1>2, <2>1, <2>2, CachesRight
  <2>4. TypeOK'
    BY <1>1, <1>2, <2>1, <2>3 DEF TypeOK
  <2>5. \A v \in Refreshers :
          refresh'[v] = IF v = w THEN [refresh[w] EXCEPT !.at = "stored"] ELSE refresh[v]
    BY <1>1, <1>2, <2>1 DEF TypeOK
  <2>6. \A v \in Refreshers : refresh'[v] # Idle => GoesBy(refresh'[v].company, refresh'[v].key)
    BY <1>1, <1>2, <2>1, <2>2, <2>5 DEF RefreshesRight
  <2> QED
    BY <2>1, <2>3, <2>4, <2>6, NoCallerMoves
<1>5. CASE CommitRefresh(w)
  <2>1. /\ UNCHANGED <<key, named, cache, locked, spent, jobs, caller, faults>>
        /\ refresh[w] # Idle
        /\ checked' = [checked EXCEPT ![refresh[w].company] = "fresh"]
        /\ refresh' = [refresh EXCEPT ![w] = Idle]
    BY <1>5 DEF CommitRefresh, RefreshGoes, redisVars, Idle
  <2>2. key[refresh[w].company] # None
    BY <1>1, <2>1 DEF RefreshesRight, GoesBy
  <2>3. checked' \in [Companies -> Age \union {"absent"}]
    BY <1>1, <2>1 DEF TypeOK, Age
  <2>4. \A c \in Companies : key'[c] # None <=> checked'[c] # "absent"
    BY <1>1, <1>2, <2>1, <2>2 DEF TypeOK
  <2>5. refresh' \in [Refreshers -> Refresh]
    BY <1>1, <2>1 DEF TypeOK, Refresh
  <2>6. TypeOK'
    BY <1>1, <2>1, <2>3, <2>4, <2>5 DEF TypeOK
  <2>7. \A v \in Refreshers : refresh'[v] # Idle => refresh'[v] = refresh[v]
    BY <1>1, <2>1 DEF TypeOK
  <2> QED
    BY <1>1, <2>1, <2>6, <2>7, NoCallerMoves DEF RefreshesRight
<1>6. CASE RefreshFails(w)
  <2>1. /\ UNCHANGED <<key, checked, named, cache, locked, spent, jobs, caller>>
        /\ faults < MaxFaults /\ faults' = faults + 1
        /\ refresh' = [refresh EXCEPT ![w] = Idle]
    BY <1>6 DEF RefreshFails, RefreshGoes, rows, redisVars
  <2>2. TypeOK'
    BY <1>1, <2>1, ProfileAssumption DEF TypeOK, Refresh
  <2>3. \A v \in Refreshers : refresh'[v] # Idle => refresh'[v] = refresh[v]
    BY <1>1, <2>1 DEF TypeOK
  <2> QED
    BY <1>1, <2>1, <2>2, <2>3, NoCallerMoves DEF RefreshesRight
<1> QED
  BY <1>3, <1>4, <1>5, <1>6 DEF RefreshNext

\* Ages and expiries.
LEMMA TimeStep ==
  ASSUME ProfileInv, TimeNext
  PROVE  ProfileInv'
<1>1. TypeOK /\ RefreshesRight
  BY DEF ProfileInv
<1>2. /\ UNCHANGED <<key, named, caller, refresh>>
      /\ \A k \in Keys : cache'[k] # cache[k] => cache'[k] = None
  <2>1. ASSUME NEW k \in Keys, CacheExpires(k)
        PROVE  /\ UNCHANGED <<key, named, caller, refresh>>
               /\ \A j \in Keys : cache'[j] # cache[j] => cache'[j] = None
    BY <1>1, <2>1 DEF CacheExpires, rows, TypeOK
  <2> QED
    BY <2>1 DEF TimeNext, NewMinute, GrowsStale, LockExpires, rows, redisVars
<1>3. TypeOK'
  <2>1. ASSUME NEW c \in Companies, GrowsStale(c)
        PROVE  TypeOK'
    BY <1>1, <2>1 DEF GrowsStale, redisVars, TypeOK, Age
  <2>2. ASSUME NEW k \in Keys, CacheExpires(k) \/ LockExpires(k)
        PROVE  TypeOK'
    BY <1>1, <2>2 DEF CacheExpires, LockExpires, rows, TypeOK
  <2>3. CASE NewMinute
    BY <1>1, <2>3, ProfileAssumption DEF NewMinute, rows, TypeOK
  <2> QED
    BY <2>1, <2>2, <2>3 DEF TimeNext
<1> QED
  BY <1>1, <1>2, <1>3, NoCallerMoves DEF RefreshesRight

LEMMA ProfileStep == ProfileInv /\ [Next]_vars => ProfileInv'
<1> SUFFICES ASSUME ProfileInv, [Next]_vars
             PROVE  ProfileInv'
  OBVIOUS
<1>1. CASE Next
  BY <1>1, CallerStep, RefreshStep, TimeStep DEF Next
<1>2. CASE UNCHANGED vars
  BY <1>2 DEF vars, rows, redisVars, ProfileInv, TypeOK, CallersRight, NewApart, RefreshesRight,
              NamesRight, OnlyUpgradesLeaveGhosts, Right, GoesBy, IsNew, HasCompany
<1> QED
  BY <1>1, <1>2

LEMMA ProfileInvariance == Spec => []ProfileInv
  BY ProfileInit, ProfileStep, PTL DEF Spec

-----------------------------------------------------------------------------
(***************************************************************************)
(* Theorems.                                                               *)
(***************************************************************************)

\* The state keeps its type: a company has a signal row exactly when it has a
\* row.
THEOREM TypeCorrect == Spec => []TypeOK
<1>1. ProfileInv => TypeOK
  BY DEF ProfileInv
<1> QED
  BY <1>1, ProfileInvariance, PTL

\* _write_cache: whatever transactions are rolled back, a cached profile is one
\* of a committed company, under its own key unless the company was first known
\* by its name and has been upgraded, or was to be.
THEOREM GhostsAreOfUpgrades == Spec => []OnlyUpgradesLeaveGhosts
<1>1. ProfileInv => OnlyUpgradesLeaveGhosts
  BY DEF ProfileInv
<1> QED
  BY <1>1, ProfileInvariance, PTL

\* The placeholder of resolve_for_analysis is written once, before any check:
\* no commit of an analysis, of an upgrade either, undoes that of a refresh.
THEOREM ChecksAreKept == Spec => CheckIsNeverUndone
<1>1. ASSUME ProfileInv, Next, NEW c \in Companies, checked[c] \in {"stale", "fresh"}
      PROVE  checked'[c] \in {"stale", "fresh"}
  <2>1. TypeOK /\ CallersRight
    BY <1>1 DEF ProfileInv
  <2>2. CASE checked' = checked
    BY <1>1, <2>2
  <2>3. ASSUME NEW p \in Callers, CommitAnalysis(p)
        PROVE  checked'[c] \in {"stale", "fresh"}
    <3>1. caller[p].at = "ensured" /\ HasCompany(caller[p])
      BY <2>3 DEF CommitAnalysis, HasCompany
    <3>2. key[c] # None
      BY <1>1, <2>1 DEF TypeOK
    <3>3. caller[p].company = c => caller[p].row # "new"
      BY <2>1, <3>1, <3>2 DEF CallersRight, Right, IsNew
    <3>4. checked' = [checked EXCEPT ![caller[p].company] =
                        IF caller[p].row = "new" THEN "never" ELSE @]
      BY <2>3 DEF CommitAnalysis
    <3> QED
      BY <1>1, <2>1, <3>3, <3>4 DEF TypeOK
  <2>4. ASSUME NEW w \in Refreshers, CommitRefresh(w)
        PROVE  checked'[c] \in {"stale", "fresh"}
    BY <1>1, <2>1, <2>4 DEF CommitRefresh, TypeOK
  <2>5. ASSUME NEW d \in Companies, GrowsStale(d)
        PROVE  checked'[c] \in {"stale", "fresh"}
    BY <1>1, <2>1, <2>5 DEF GrowsStale, TypeOK
  <2>6. ASSUME NEW p \in Callers, CallerNext(p), ~CommitAnalysis(p)
        PROVE  checked' = checked
    BY <2>6 DEF CallerNext, GoesOn, Find, GetOrCreate, Upgrade, Look, Resolve, EnsureFresh,
                CacheFreshRow, AcquireLock, ConsumeBudget, EnqueueRefresh, GetProfile,
                CacheProfile, RedisIsDown, CallerStops, rows
  <2>7. ASSUME NEW w \in Refreshers, RefreshNext(w), ~CommitRefresh(w)
        PROVE  checked' = checked
    BY <2>7 DEF RefreshNext, TakeRefresh, StoreSignal, RefreshFails, rows
  <2>8. ASSUME TimeNext, ~\E d \in Companies : GrowsStale(d)
        PROVE  checked' = checked
    BY <2>8 DEF TimeNext, NewMinute, CacheExpires, LockExpires, rows
  <2> QED
    BY <1>1, <2>2, <2>3, <2>4, <2>5, <2>6, <2>7, <2>8 DEF Next
<1>2. ProfileInv /\ [Next]_vars =>
        [\A c \in Companies :
           checked[c] \in {"stale", "fresh"} => checked'[c] \in {"stale", "fresh"}]_vars
  BY <1>1
<1> QED
  BY <1>2, ProfileInvariance, PTL DEF Spec, CheckIsNeverUndone
=============================================================================
