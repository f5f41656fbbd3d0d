# Verification of OfferLeaks

TLA+ models of the OfferLeaks API and worker (`apps/api/src/offerleaks`), the
TLC runs that check them on small instances, and theorems about them checked by
TLAPS for every instance. Paths below are relative to that directory unless
they begin with `apps/`.

OfferLeaks takes a job offer a user uploads, reads it in a background worker
(storage, OCR, rules, company profile, AI) and answers with a verdict. Analyses
cost credits; credits come from the sign-up grant and from a Razorpay
subscription. Users report scams, moderators decide the reports, and decided
reports feed a company's internal reputation.

## Inventory

| Component | State | Operations | Hard behaviour | What makes it correct |
|---|---|---|---|---|
| Analysis pipeline: `services/analysis_service.py`, `worker.py`, `repositories/analysis_repository.py` | `analyses`, `verdicts`, the RQ queue | create, paid and free re-check, enqueue and its clean-up, the job and its failure paths | jobs delivered twice, workers killed, `enqueue()` raising, races for one status column | one verdict or one refund per paid analysis; ended analyses stay ended |
| Credits: `services/credit_service.py`, `repositories/credit_repository.py` | `credit_balances`, `credit_transactions` | grant, charge, refund, subscription grant | concurrent charges of the last credit; several processes refunding one analysis; price changes | balance never negative and equal to the ledger's sum; one refund per charge |
| Reconciliation: `reconciliation.py` | none of its own; a batch read earlier | sweep, claim, refund | several sweeps, stale batches, rows that fail, aborted sweeps | every stuck analysis ends, with the right reason |
| Billing: `services/billing_service.py` and its repositories | `subscriptions`, `webhook_events`, `usage_ledger` | subscribe, cancel, handle a webhook | webhooks repeated, reordered and concurrent; requests that call Razorpay between load and write; handlers that raise or crash | no cycle granted twice, no event acknowledged before it is committed, each one applied |
| Scam reports: `services/report_service.py`, `repositories/report_repository.py` | `reports`, two columns of `company_signals` | submit with duplicate detection, status transition with re-count | overlapping submissions; concurrent moderators at READ COMMITTED | decisions are final; duplicates point at originals; reputation never exceeds what reports back |
| Company profiles: `services/company_profile_service.py` | `companies`, `company_signals`, a Redis cache, lock and budget | resolve, upgrade, refresh, cached read | cache written before commit, refresh queued inside an open transaction, lock kept by a refused caller; upgrades and insertions of one key that wait for each other during AI calls | profiles cached under a wrong key only after an upgrade, no completed check undone, every company that is looked at checked in the end; no domain overwritten, none judged that is not known, each analysis attached to its own company |
| Accounts and sessions: `services/auth_service.py`, `auth/sessions.py`, `apps/web/src/auth.ts` | `users`; a Redis key per refresh token; the token in the browser's cookie | register, Google sign-in, log in, rotate, log out | concurrent sign-ups of one e-mail; two requests of a browser rotating the same token; pages and route handlers that rotate it and lose the new one; a crash between delete and store | one account and one grant per mailbox; tokens only of committed accounts; a browser whose requests do not overlap, and whose token only the middleware rotates, keeps exactly one session |
| Rate limiting: `core/rate_limit.py` | a Redis counter per window | count, expire | a crash between INCR and EXPIRE | no window admits more than its limit; counters in use expire unless the process that opened them died |
| Rules, extraction, normalisation, comparison, analytics, file validation | none | pure functions and read-only queries | numeric edges | what the models need of them is abstracted where they are called |
| Providers, HTTP routers, schemas, web application, migrations, deployment | external or none | I/O and wiring | — | not modelled; failures enter where they are called |

Components interact through the database (the status column of an analysis is
the only lock between requests, workers and sweeps), through the Redis queue
(at least once), and through credits, which both the pipeline and billing move.
`PROJECT.json` lists every component with its sources, and every hazard at the
line where it bites.

### How the database is modelled

Sessions run at READ COMMITTED with `expire_on_commit=False, autoflush=False`
(`core/db.py`). A conditional `UPDATE ... WHERE status IN (...)` locks its row
until commit, so in `AnalysisPipeline` and `Billing` a transaction that begins
with such a statement (or with the insert of a unique key) is one action.
`Reports` and `CompanyIdentity` are modelled statement by statement: the count
of the first takes no lock, and the transaction of the second stays open during
the AI call. `Accounts` commits an account in one step, and keeps apart the
steps that call Redis, which no transaction covers.
A transaction that rolls back is a crash or failure action; so is one that
Postgres aborts on a deadlock, which the clean-up after a failed enqueue (ledger
row, then analysis row) and a sweep (the other way round) can bring about.

## Modules

**`PaidWork`** is the abstract promise about credits: work on an analysis is a
courtesy or is paid for; paid work is owed until a verdict or a refund settles
it, once; a balance moves only with the promise it pays for.

**`AnalysisPipeline`** is the detailed model. Its variables are the columns of
`analyses`, `verdicts`, `credit_balances` and `credit_transactions` that
decisions depend on, the stage of each API request, the copies of each job in
the queue, the stage and job of each worker, and the rest of each sweep's batch.

| Actions | Code |
|---|---|
| `CreateRequest`, `CommitCharged`, `RequestRejected`, `Enqueue`, `EnqueueFails`, `CleanUpFailedEnqueue`, `ApiCrash` | `AnalysisService.create_analysis`, in order |
| `RecheckRequest`, `CommitFreeRecheck` | `AnalysisService.recheck_analysis`, charged and free |
| `TakeJob`, `StartProcessing`, `StartLost`, `StageSucceeds`, `StageFails`, `WriteVerdict`, `UnexpectedError`, `MarkFailedGeneric` | `_process_analysis`, `process_analysis`, `_mark_failed_generic` of `worker.py` |
| `WorkerCrash`, `Redeliver` | the RQ worker process and queue (external) |
| `FindStuckCandidates`, `ReconcileOne`, `SweepAborts` | `run_reconciliation_sweep`, `_reconcile_one`, `_run_loop` |
| `TimesOut`, `Reconfigure` | the clock, as a choice; a deployment with another price or prompt version |

A row may time out while its worker is still busy: the models do not rely on
the processing timeout being longer than the job timeout. `MarkFailedGeneric`
of a duplicate job that raised before its claim can fail a row another worker
is processing; the model contains that step, and the safety properties hold
with it.

**`ReconcilerSweep`** looks closer at one sweep: the order and limit of its
batch (rows are numbered by `created_at`), rows that raise once or every time,
and the session. `AsyncSession.rollback()` expires every loaded object whatever
`expire_on_commit` says, and an expired attribute cannot be loaded outside of an
await; so after one row raised, the next one ends the sweep (`SweepRaises`),
against the comment in the handler.
`SweepAborts` of `AnalysisPipeline` is that step for any number of sweeps.
`SweepsAsInPipeline` says how the two modules fit together: with a mapping that
gives `AnalysisPipeline` the rows and one sweeper whose candidates are those of
the batch, or none once a rollback has expired them (`Waiting`), each step of
`ReconcilerSweep` is a sweep step of `AnalysisPipeline`, time, or a worker's.

`AnalysisPipelineProofs`, `PaidWorkProofs` (how `AnalysisPipeline` implements
`PaidWork`, and its ledger), `ReconcilerSweepProofs` (how `ReconcilerSweep` fits
into `AnalysisPipeline`), `BillingProofs`, `ReportsProofs`,
`CompanyProfileProofs`, `CompanyIdentityProofs` and `AccountsProofs` hold the
theorems.

**`Billing`** models requests as load, call to Razorpay, write (the ORM writes
only the columns whose value differs from the loaded one: `Flushed`), and the
webhook handler as load and commit. Razorpay is an environment: it charges
cycles, fails and ends subscriptions, and delivers every webhook it sent, any
number of times, in any order. Every `activated` and `charged` event is taken
to carry `paid_count`, as the comment in `_grant_period_credits` says.
`Unfunded` users have no `credit_balances` row (migration `9a1c` creates the
table without a backfill), so their grants raise. `Creditless` checkouts are of
a plan with `monthly_credit_grant` 0: `_grant_period_credits` returns before it
writes the ledger, and nothing the properties say of grants is about them. The
period key it takes from the dates of an event without `paid_count` is left out.

**`Reports`** models a submission as begin, look for duplicates, insert, and a
decision as conditional UPDATE, count, upsert, commit, with the row locks those
statements wait for. `Similar` stands for `is_duplicate_description` and need
not be transitive.

**`CompanyProfile`** keeps of a profile only the age of its last check
(placeholder, stale, fresh), and of a company only its identity key. Refresh
jobs name the row; the cache, the lock and the budget, in Redis, name the key,
and an upgrade moves a row from the key of its name to that of its domain.

| Actions | Code |
|---|---|
| `Find`, `GetOrCreate`, `Upgrade`, `Resolve` | `resolve_for_analysis` in the transaction of an analysis: a company of the domain, one of the name that is upgraded, or a new one with its placeholder; then `set_email_domain_match` |
| `Look`, `GetProfile`, `CacheProfile` | a reader of the API: `_build_company_response`, `get_profile` |
| `EnsureFresh`, `CacheFreshRow`, `AcquireLock`, `ConsumeBudget`, `EnqueueRefresh` | `ensure_fresh`, of both: the cached or the fresh profile, the lock, the budget, the job |
| `CommitAnalysis` | the worker's commit: until then only Redis shows what the analysis did |
| `TakeRefresh`, `StoreSignal`, `CommitRefresh` | `refresh_company_profile`: the cache is written before the commit |
| `RedisIsDown`, `CallerStops`, `RefreshFails` | the faults; `CallerStops` is also the lost claim that rolls an analysis back |
| `GrowsStale`, `CacheExpires`, `LockExpires`, `NewMinute` | the clock, as choices |

`Letters` says what the letter of each analysis names: a domain, a company, or
both. An uncommitted signal row makes its other writers wait, and a row the
session has read before such a wait is not read again (the ORM's identity map).
`named` is history: the companies first inserted under a name, which are those
an upgrade can move.

**`CompanyIdentity`** is the other half of that service: which company a letter
is attached to. A step is one statement of the company stage of an analysis;
what its transaction has written and not committed is kept in `txn` (with
`expired`, whether a rollback has expired the analysis of the session), and
`Blockers` says which other transactions a statement waits for, by the rows, the
keys of the unique index and the foreign-key locks they hold. When the waits
close a cycle, Postgres aborts one transaction (`Abort`).

| Actions | Code |
|---|---|
| `Extract` | `extract_company_signals`, `normalize_domain`, `normalize_company_name`, as the domains of a letter and what is left of them |
| `FindByDomain`, `FindByName` | `resolve_for_analysis`, the two look-ups before an upgrade |
| `Upgrade`, `KeepKey`, `LoseKey` | `upgrade_name_only_company`: the guarded UPDATE, its acceptance by the unique index, its `IntegrityError` |
| `Insert`, `Reread` | `get_or_create_by_key`: INSERT ... ON CONFLICT DO NOTHING, and the SELECT after it |
| `KeyTooLong` | the error of that INSERT or UPDATE when a column has no room for the key or the domain |
| `SetMatch`, `EnsureFresh`, `Attach` | the signal row, `ensure_fresh` with an `enqueue()` that may raise, the flush of `analysis.company_id` |
| `Commit`, `Abort`, `FailGeneric`, `Lose` | the worker after the stage: its commit, a deadlock, its generic handler, its death or lost claim |

An analysis is `broken` when its worker goes on with a session, or an expired
analysis, that the next look at raises for.

The documents are abstract (`Letters`): the e-mail and link domains that occur
most, and a company name or none. The patterns that find them are left out.

**`RateLimit`** is the fixed-window counter: `INCR`, and `EXPIRE` for the first
attempt of a window, as two calls. **`Accounts`** extends it with the endpoints
behind it and the browsers in front. The web server calls the API for all
browsers, so in the instance all share one counter.

| Actions | Code |
|---|---|
| `Register`, `SignIn`, `GoogleSignIn`, `Rotate`, `Visit`, `SignOut` | a request begins: a sign-up, or a browser with what its cookie holds (`auth.ts`); `Rotate` and `Visit` pass the middleware |
| `Lookup` | `auth()` in a page or a route handler outside the middleware (`apps/web/src/app/page.tsx:37`, `app/api/analyses/route.ts:20`, `:37`), which rotates like `Rotate` and cannot set the cookie |
| `Count`, `Expire` | `rate_limit` as a dependency of register and login |
| `FindEmail`, `RefuseSignIn`, `Authenticate`, `FindIdentity`, `FindGoogleEmail`, `Link`, `Create`, `Commit` | `register`, `authenticate`, `upsert_google_user`; `Commit` is the transaction with the initial credits |
| `CheckSession`, `LoadUser`, `Revoke`, `Store` | `refresh`, `logout`, `issue_tokens`: GET, DELETE and SET as calls of their own |
| `Answer` | what the `jwt` callback of `auth.ts` returns reaches the cookie, but for a lookup (`CookieAfter`) |
| `Fail`, `EndWindow`, `TokenExpires`, `Deactivate` | deaths and lost answers, the clock, an operator |

A request reads the cookie when it begins and writes it when it is answered, so
of two that overlap the last one to answer wins. `own` and `quiet` are history:
the valid tokens issued to a browser since it signed in, and the browsers that
had no such overlap, lost answer or expiry, and none of whose tokens a lookup
has revoked (a lookup whose token another request has rotated does no harm).

## Runs

All runs but `company_profile` set `CHECK_DEADLOCK FALSE`: the instances have
finitely many analyses, subscriptions, reports, rows or ids of users, and the
system rests when all are dealt with. (The deadlocks of Postgres are modelled,
in `CompanyIdentity`: there a deadlock is a step.)

| Run | Instance | Shows |
|---|---|---|
| `pipeline_safety` | 2 analyses of one user, 2 workers, 2 sweeps, prices 1 and 2, 2 credits, 1 redelivery, batches of 2 (1.1 M states) | the safety invariants, the ledger and `EndedStaysEnded`. Two credits let two analyses compete for the balance; two workers and a redelivery put the same job in two hands; two sweeps race with each other and a worker |
| `pipeline_recheck` | 3 analyses, 1 worker, 1 sweep, 2 prompt versions (4.4 M states) | one free run per source: three analyses are one source and two competing re-checks |
| `pipeline_liveness` | 2 analyses, 1 worker, 1 sweep, 1 redelivery (30 k states), with fairness | every accepted analysis ends; `PaidWork` is implemented, its liveness included |
| `billing_safety` | 1 user, 2 subscriptions of 1 cycle, 1 request at a time, 2 handlers (2.9 M states) | no cycle granted twice, nothing acknowledged early, nobody entitled who never paid, no applied charge missing from the ledger |
| `billing_liveness` | 3 users, one without a balance row and one whose plan has no credits, 1 subscription of 2 cycles (126 k states), with fairness | every webhook is recorded, and applied where it can be |
| `billing_resubscribe` | 1 user, 2 subscriptions | expected violation of `PaidPeriodIsGranted` |
| `reports_safety` | 3 reports with an intransitive similarity, 1 company or none, 2 moderators, saturation 2 (2.7 M states) | duplicates, finality and the bound on the reputation |
| `reports_converge` | the same | expected violation of `SignalConverges` |
| `company_profile` | 1 row, 1 domain, 1 name, 2 analyses, one of a letter with the name alone and one with or without the domain, 1 reader, 1 refresh worker, budget 1, 1 refresh queued, 1 fault (1.15 M states), with fairness | ghosts by upgrades only, no check undone, every company checked. Two analyses create, find and upgrade the row, a rollback loses an upgrade that is in the cache, a budget of 1 refuses the second caller, and the first job may run before its company is committed |
| `company_identity` | 4 analyses, 3 ids (there are no more keys), 6 letters of 2 names and 3 domains, one of them too long, one free-mail domain and one platform (229 k states) | domains kept, companies judged only by a domain they have, attachments right, no cycle of waits without an upgrade. Two upgrades of one company with different domains, an insertion of the key they race for and a letter without a domain need four analyses |
| `accounts` | 1 mailbox spelled in 2 ways, 2 Google identities, 2 users, 3 tokens, 1 browser, 2 requests at a time, a limit of 2 (1.7 M states) | one granted account per mailbox, tokens of committed accounts, a session nothing disturbs has one token, bounded windows. Two requests race in every pair of operations; three tokens are one in the cookie, one being issued and one left over; two attempts fill a window |
| `sweep_batches` | 4 rows, batches of 2, any set of rows that always raise, 2 passing errors (33 k states), with fairness | its batches and rollbacks are sweeps of `AnalysisPipeline`; a stuck row ends unless an older one raises every time. Batches smaller than the table, and raising rows in every position of a batch |

Symmetry is used for analyses, workers, sweeps, handlers, requests and
moderators, and never in a run that checks liveness. Every property has a
mutant in `PROJECT.json`: a change of one mapped definition, as a plausible bug
would make it, under which the same run finds the property violated. The
mutated forms stand next to the definitions they replace, marked `Mutation:`.

What the runs and properties do not reach:

- `billing_safety` has no user without a balance row: the `except` path of the
  webhook handler is in `billing_liveness` and in the proofs.
- `EntitledHasPaid` asks for one charged cycle at some time. That an ended
  subscription becomes ACTIVE again by a late webhook satisfies it.
- The identity Google asserts always comes with the same e-mail (`EmailOf`).
- `CountersExpire` permits the counter that a request leaves behind which dies
  between INCR and EXPIRE: it never expires, and says so by `orphaned`.
- `company_profile` has one row. That other companies use up the budget for
  ever is not exercised, nor are upgrades that find their key taken or their
  row upgraded by another: the theorems about `CompanyProfile` cover the last
  two for any number of rows, and `company_identity` exercises them.

### Fairness

`AnalysisPipeline`: only time and the sweeps are fair. `_run_loop` catches every
exception and the service is restarted, so a sweep is always taken up again
(weak fairness of `FindStuckCandidates`). An error may strike a row in any
number of sweeps, though not for ever (strong fairness of `ReconcileOne`).
Nothing is assumed of requests and workers, which may stop anywhere.

`Billing`: Razorpay delivers webhooks as long as some are unacknowledged, and
handlers do not crash for ever (strong fairness of both, over all events
together). No order and no single event is favoured.

`ReconcilerSweep`: the loop sweeps again whatever the last sweep raised (weak
fairness of `SweepNext`); passing errors are bounded by `MaxErrors`, rows in
`bad` raise for ever.

`CompanyProfile`: the clock runs, callers and jobs that were started go on, and
somebody looks at each company again (weak fairness); a writer gets the row lock
it waits for, and the cache entry, whose lifetime of a day has nothing to do
with the milliseconds of a response, does not expire in the middle of one every
time (strong fairness). Without the last a placeholder could be cached again
for ever. After `MaxFaults` faults no more happen.

`Accounts`, `CompanyIdentity` and `Reports` state safety only: their requests
may stop anywhere, and nothing in the code takes them up again.

## What the code does other than its comments say

Each is a run whose counterexample is the scenario; `findings` in
`PROJECT.json` quotes the lines.

- `billing_resubscribe`: the ledger key is the row and `paid_count`; a second
  subscription reuses the row, so its first cycles grant nothing. Users who
  never have a second subscription are granted every charge
  (`OneSubscriptionIsGranted`).
- `reports_converge`: two concurrent decisions each count without the other;
  the later commit stores the older count, and a retried request returns before
  the re-count. Decisions that do not overlap on a company converge
  (`SeparateDecisionsConverge`).

Seen while modelling and not given a run of their own:

Pipeline and credits

- The clean-up after `enqueue()` raises is unconditional. If Redis had accepted
  the job and only the reply was lost, a worker can complete the analysis, which
  is then refunded and set FAILED (`services/analysis_service.py:155`, against
  `worker.py:249`). With `AmbiguousEnqueue = TRUE`, TLC finds
  `NoVerdictOnRefund` and `EndedStaysEnded` violated in `PipelineSafety.cfg`,
  and `OneFreeRunPerSource` in `PipelineRecheck.cfg`; the other properties of
  `PipelineSafety.cfg` hold, and their proofs cover it.
- A free re-check has a free slot of its own, so that a chain of free re-checks
  has no end, where the docstring speaks of a bound per paid unit of work
  (`services/analysis_service.py:223`, `:249`).
- A refund gives back the price of the day, not what was charged
  (`services/credit_service.py:162`; the ledger still sums to the balance).
- `set_status` after a failed enqueue leaves `failure_reason` NULL
  (`repositories/analysis_repository.py:257`).
- A row that raises ends the sweep for the candidates behind it, where the
  comment at `reconciliation.py:102` says it must not, and while it is the
  oldest stuck row, younger ones are not reconciled at all (hence the condition
  in `StuckRowsEnd`).
- Nothing but the defaults keeps the processing timeout longer than the job
  timeout (`core/config.py:161`).

Billing and reports

- A late `charged` or `activated` webhook makes an ended subscription ACTIVE
  again (`services/billing_service.py:256`).
- The webhook row committed by the `except` block makes Razorpay's retry a
  replay (`services/billing_service.py:217`).
- A subscribe request that loaded the row before a webhook replaces the id and
  leaves the status ACTIVE (`services/billing_service.py:142`).
- Two similar reports filed at the same time are both originals
  (`services/report_service.py:137`).

Accounts

- `refresh` says the presented token is consumed exactly once
  (`services/auth_service.py:143`), but GET and DELETE are two calls: of two
  rotations at once both pass.
- All logins come from the web server, so the limiter, which counts by client
  address, is one counter for everybody (`api/routers/auth.py:36`).
- A request under way while the user signs out writes the session back into the
  cookie when it is answered; it holds a refused token, or a new one that
  signing out did not revoke (`apps/web/src/auth.ts:138`).
- A deactivated user still gets tokens by signing in with Google; the next
  rotation refuses them.
- `auth()` in a page or a route handler outside the middleware rotates a token
  that is about to expire, and what it returns cannot be written to the cookie
  (`apps/web/src/app/page.tsx:37`, `apps/web/src/app/api/analyses/route.ts:20`,
  `:37`). The browser keeps the revoked token, its next rotation is refused and
  it is sent to sign in, where the comment at `apps/web/src/auth.ts:9` has the
  pair rotated before it expires. `QuietSessionHasOneToken` is about browsers
  to which this has not happened.
- The unique violation of two registrations at once is an error of the server,
  not a 409 (`services/auth_service.py:63`).

Companies

- The later of two upgrades of one company, with different domains, matches no
  row, but the ORM has put its values on the object of the session: the analysis
  is attached to a company of the other domain, and to the code it looks
  upgraded (`repositories/company_repository.py:91`).
- "Failure here must never fail the analysis itself" (`worker.py:197`) is
  broken in three ways, each a path to `broken` in `CompanyIdentity`. An upgrade
  and a letter without a domain can deadlock, and a domain of more than 255
  characters is an error of the INSERT or UPDATE: both are caught at
  `worker.py:202` but not rolled back, so that the next statement raises. A lost
  race for a key rolls back (`repositories/company_repository.py:96`), which
  expires the analysis; if the `enqueue()` of the refresh then raises
  (`services/company_profile_service.py:264`), no flush has reloaded it, and
  `worker.py:217` raises on reading its `prompt_version`.
- "Redis is a read-accelerating cache in front of Postgres, never a second source
  of truth" (`services/company_profile_service.py:9`) is not so around upgrades.
  A company whose check is fresh is cached under its new key inside the open
  transaction (`services/company_profile_service.py:194`, `:231`); if that loses
  its claim (`worker.py:256`), the profile of a company that does not have the
  domain stays under the domain's key. `OnlyUpgradesLeaveGhosts` says there is no
  other way.
- An upgraded company keeps the age of its check by name, so its domain is looked
  up only when that has become stale (`services/company_profile_service.py:126`).
- An analysis that knows the name alone and waits for an upgrade overwrites the
  `match` of the upgrade by `unknown`, and after a lost upgrade `match` is
  claimed of the other's domain
  (`services/company_profile_service.py:157`, `:162`).
- The assertion after `get_or_create_by_key` fails if an upgrade commits between
  INSERT and SELECT (`repositories/company_repository.py:55`).
- After an upgrade, a letter with the name alone creates a second company, the
  split the docstring at `repositories/company_repository.py:64` means to avoid.
- The branch for a company of a domain's key without a domain is never taken
  (`services/company_profile_service.py:156`, by `KeyNamesDomain` in `TypeOK`),
  and the company of an analysis almost always has the domain of its letter, so
  `email_domain_match` is hardly ever false.
- The row of `company_signals` that an analysis has written stays locked during
  its AI call (`repositories/company_repository.py:237`).

## Proofs

Each proof module proves its theorems for all values of the constants that
satisfy the assumption of its model (`PipelineAssumption`, `SweepAssumption`,
`BillingAssumption`, `ReportsAssumption`, `ProfileAssumption`,
`IdentityAssumption` with `NoneIsNoRow`, `RateLimitAssumption`,
`AccountsAssumption` with `NoneAssumption`): finitely many of what is counted,
distinct kinds of processes, a default that is none of the values.

`AnalysisPipelineProofs`:

- `TypeCorrect`: `Spec => []TypeOK`, by `TypeInit` and one lemma per kind of
  process. That `balance` stays a natural number is the content of
  `Affordable`: the conditional UPDATE that charges.
- `InvCorrect`: `PipelineInv` is invariant, whether or not `enqueue()` may raise
  for a job Redis holds (`AmbiguousEnqueue`). It is what makes the safety
  properties inductive: `RequestInv` (the stage of a request fixes what its row
  looks like; only where a failed enqueue cannot have queued the job,
  `Unqueued`, does the clean-up after it find the row PENDING and unseen by
  workers), `RowInv` (the status of a row fixes its verdict, its refund, its
  reason and whether it was started) and `WorkerInv` (a worker in a paid stage
  holds a started analysis nobody else holds, and no second claim of it can
  succeed).
- `EndedIsSettledHolds`, `RefundOnlyOfEndedChargeHolds`,
  `OneWorkerPerAnalysisHolds`, `TimeoutReasonIsTrueHolds`: each follows from
  `PipelineInv`, for either value of `AmbiguousEnqueue`.
- `NoVerdictOnRefundHolds` needs `EnqueueIsReliable` (`AmbiguousEnqueue =
  FALSE`), without which it is false, and so do the next theorem and, in
  `PaidWorkProofs`, the refinement and `OneFreeRunPerSourceHolds`.
- `EndedStaysEndedHolds`: the action property, by `EndedStep`: no step of any
  process from a state that satisfies the invariant changes an ended row.

`BillingProofs`: `TypeCorrect`, `GrantsNeverExceedPayments`,
`PaidPlanIsPaidFor` and `ChargesAreLedgered` (of plans with credits) from one
invariant, `BillingInv`.
A grant is only known to be paid for through the ledger, so the invariant
counts: the credits granted for a subscription are at most the paid cycles of
it in the ledger (`GrantsAreLedgered`), and a grant adds a new one. That needs
the ledger's user to be the subscription's customer wherever the two meet
(`RowsAreOwned`, also for the request that created the subscription and has not
written it yet; `HandlersAreRight`, for handlers that loaded the row before a
request replaced it), and events to be of cycles that were paid
(`CyclesArePaid`). The event of a grant that raised is recorded unprocessed, and
its next delivery is acknowledged as a replay: `LostEventsAreUnfunded` says that
this happens to users without a balance row only, and `AcknowledgedIsCommitted`
follows when every user has one (`Unfunded = {}`).

`PaidPeriodIsGranted` is false of users who subscribe again.
`OneSubscriptionIsGranted` is what is left of it:
`Spec /\ []OneSubscriptionEach => []PaidPeriodIsGranted`, for users of at most one
subscription. `RowsAreGrants` makes it inductive: the rows of the ledger of a
user are then exactly the grants of that subscription, and applied charges are
of different cycles, each with a row. Both are about plans with credits.

`ReportsProofs`: `TypeCorrect` (with the reputation within 0 and 100 for every
count and saturation), `DuplicatesPointAtOriginals` from `DupInv` (what a
submission has found stays an original until its own row is written, since
nothing turns an original into a duplicate), `DecisionsAreFinal` from
`RowsAreHeld` (a decision holds the row it moved), and `ReputationIsBacked`
from `SignalInv`: counts are taken without a lock and stored late, but reports
never leave VERIFIED, so an old count is still backed, where a moderator's own
uncommitted report counts for that moderator alone. `SignalConverges` is false;
`SeparateDecisionsConverge` proves it of the behaviours in which no two decisions
about one company overlap (`DecisionsApart`), whatever submissions, failures and
decisions about other companies do: the counts taken and stored are then exact
(`ExactInv`).

`CompanyProfileProofs`: `TypeCorrect`, `GhostsAreOfUpgrades` and `ChecksAreKept`
from `ProfileInv`. A process that holds a company under a key has a committed
company that goes by it (`GoesBy`: it is the company's key, or the company was
inserted under a name and may move or have moved), or has inserted the company
itself; the latter has never been checked, so that it is neither taken to be
fresh nor cached (`CallersRight`, `RefreshesRight`). No two analyses insert the
same row (`NewApart`), and a company whose key is a name was inserted under it
(`NamesRight`). A commit only moves a company from the key of a name
(`CommitStep`), and nothing takes a key away (`StillGoesBy`), so a cached
profile stays as right as it was.

`PaidWorkProofs` rests on `PipelineInv`:

- `PipelineKeepsThePromise`: the safety half of the refinement,
  `Spec => Work!WorkSafety` under `EnqueueIsReliable`. Each step of
  `AnalysisPipeline` is shown to be a step of `PaidWork` or to leave what it
  promises alone; a refund (`RefundRefines`, `FailAndRefundRefines`) may settle
  work only because `PipelineInv` excludes a verdict there.
- `OneFreeRunPerSourceHolds`, from `SlotInv`: whoever holds the free slot of a
  source has claimed it, and nobody else holds it.
- `LedgerMatchesBalanceHolds`, without `EnqueueIsReliable`: the ledger sums to
  the balance even where an analysis is refunded that it should not be. The
  sum is the library's fold, a recursive function over the subsets of a finite
  set. The section *Sums over finite sets* shows, by induction on the size of
  the set, that the recursion has exactly one solution (`SumExists`,
  `SumUnique`), and from that what a sum over a set is when one element is
  taken out (`SumTakeOut`), when no summand changes (`SumSame`), and that it is
  an integer (`SumType`). The induction is the first-order theorem
  `WFMin` (a non-empty set of naturals has a least element), applied to the set
  of sizes of counterexamples. `BookOne` is the rest: a step that books for one
  analysis moves the sum by what it books. The invariant, `LedgerInv`, adds to
  the property that finitely many analyses have entries, and that one whose
  request has not charged yet has none, so that a charge is a first entry.

`ReconcilerSweepProofs`:

- `TypeCorrect`, by `SweepInv`: only finitely many rows have timed out, and a
  batch lists rows that have, in order, hence none twice.
- `SweepIsNeverStuck`: wherever a row is stuck there is a batch to select. Any
  finite set of numbers can be listed in order (`Listed`, by the same induction),
  and the first `Limit` of that list are a batch (`BatchExists`). Without it the
  definition of `FindStuckCandidates`, which only says what a batch looks like,
  could be a disabled action.
- `SweepsAsInPipelineHolds`: a selection is one of `AnalysisPipeline`, by a count
  of the batch (`SelectionRefines`); a claim is `ReconcileOne` there, won or lost
  (`ClaimRefines`); a rollback is `SweepAborts` (`AbortRefines`), after which what
  the code still does to the batch is invisible.

`CompanyIdentityProofs`:

- `TypeCorrect` and `DomainsAreKept` from `IdentityInv`: what a transaction has
  pending is a new company or gives a company without a domain its domain
  (`TxnOK`), no two pending rows are of one company (`RowsDiffer`), and the key
  of one that passed the unique index is nobody else's, pending or committed
  (`KeysDiffer`, `OneCompanyPerKey`): this is where the waits are needed.
- `AttachmentsAreRight` and `MatchesAreOfADomain` from `AttachInv`: what an
  analysis holds on its way to `Attach` has its domain, or its name and some
  domain, and a verdict about a domain is of a company that has one or gets it by
  the same commit (`OwnOK`), which no commit of another analysis takes away
  (`CommitKeeps`).
- `EveryCycleHasAnUpgrade`: who has inserted a company waits for nobody
  (`InsertersDoNotWait`). In a cycle without an upgrade nobody would then hold
  the row of a company; everyone is then waited for as the holder of a signal row
  or of a link, and from there on waits for the row of a company only, if at all.

`AccountsProofs`: all properties of the run from three invariants. `RowInv` says
what a request at each step has read, and what of that still holds when it is
used: `UserOK` (the user of a session or a link is registered, with the e-mail
that was looked up), `InsertOK` and `InsertsDiffer` (an uncommitted account is
new, in its e-mail too), `Mailboxes`. `LimitInv` adds to the two
properties of the limiter that a window admits no more than it counts.
`SessionInv`, for `QuietSessionHasOneToken`, says of a browser whose requests
have not overlapped what its cookie and its valid tokens are at each step of the
request it has under way (`UnderWay`) and between two (`Settled`), that no other
browser or request knows its tokens (`Exclusive`), so that another browser's step
leaves it alone (`OneBrowser`), and a lookup of its own too as long as it revokes
nothing, and it uses that a deactivated account stays so
(`InactiveStays`).

Only model-checked is liveness, since the prover has no rules for ENABLED:
`EveryAnalysisEnds` and the liveness half of `PaidWorkSpec`,
`EveryEventIsApplied`, `StuckRowsEnd` and `CompanyIsChecked`.
Every other property of the passing runs is a theorem. `AccountsStay` (no step
removes an account, or changes its e-mail or password) is a theorem that no run
checks.

## Plan

Done: the pipeline with its credits and sweeps, billing, reports, companies,
accounts, and their proofs. What could follow:

1. `AnalysisTx`: the pipeline's transactions statement by statement with row
   locks, implementing the atomic ones of `AnalysisPipeline` (the clean-up
   after a failed enqueue locks the ledger before the analysis, sweeps the other
   way round), and with it a clock that relates the processing timeout to the
   job timeout.
2. The rules engine's pure functions (recommended actions, evidence coverage)
   against reference definitions.

## Not modelled

Providers, schemas, file validation, wiring, migrations and deployment keep no
state of their own; a failure of a provider is a choice where it is called. The
rules engine, comparison and analytics are pure functions and read-only queries:
nothing they do meets anything else, and a failure of the rules engine is
`UnexpectedError`. Of the web application only the session is modelled.
