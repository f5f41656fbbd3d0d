-------------------------- MODULE AnalysisPipeline --------------------------
(***************************************************************************)
(* The analysis pipeline of the OfferLeaks API: upload and re-check        *)
(* requests (services/analysis_service.py), the RQ job queue, the workers  *)
(* (worker.py), the stuck-analysis sweeps (reconciliation.py), and the     *)
(* credits each analysis is charged and refunded (services/credit_service, *)
(* repositories/credit_repository), over the conditional updates of        *)
(* repositories/analysis_repository.py.                                    *)
(*                                                                         *)
(* One action is one database transaction, or one step between two         *)
(* transactions.  Every transaction here begins with the conditional       *)
(* UPDATE that locks the rows it goes on to change and keeps that lock     *)
(* until it commits, so its effects are those of one step.  A transaction  *)
(* that rolls back changes nothing and is covered by the crash and failure *)
(* actions.  Any process may stop between any two actions.                 *)
(***************************************************************************)
EXTENDS Integers, FiniteSets, Functions

CONSTANTS
  Analyses,          \* ids of the analyses that may be created
  None,              \* a NULL column, an idle worker
  Users,             \* account holders
  Owner,             \* the user whose request creates each analysis
  Workers,           \* RQ worker processes
  Sweepers,          \* reconciliation processes
  InitialGrant,      \* credit_initial_grant
  Prices,            \* values credit_cost_per_analysis takes over time
  Prompts,           \* values ai_prompt_version takes over time
  BatchSize,         \* reconciliation_batch_size
  MaxRedeliveries,   \* bound on how often jobs are handed out again
  AmbiguousEnqueue   \* may enqueue() raise although Redis holds the job?

ASSUME PipelineAssumption ==
  /\ None \notin Analyses
  /\ Owner \in [Analyses -> Users]
  /\ InitialGrant \in Nat
  /\ Prices \subseteq Nat \ {0}
  /\ BatchSize \in Nat \ {0}
  /\ MaxRedeliveries \in Nat
  /\ AmbiguousEnqueue \in BOOLEAN

VARIABLES
  \* the analyses and verdicts tables
  status,            \* Analysis.status, "absent" before the row is committed
  failureReason,     \* Analysis.failure_reason, "none" for NULL
  started,           \* Analysis.processing_started_at is not NULL
  overdue,           \* the row is older than the timeout of its status
  promptOf,          \* Analysis.prompt_version, None before the insert
  source,            \* Analysis.source_analysis_id
  freeClaimed,       \* Analysis.free_recheck_claimed
  verdict,           \* a Verdict row exists
  \* credit_balances and credit_transactions
  balance,           \* CreditBalance.balance
  charged,           \* amount of the CONSUME row of the analysis, 0: no row
  refunded,          \* amount of the REFUND row of the analysis, 0: no row
  \* processes
  request,           \* where the request that creates the analysis stands
  jobs,              \* copies of the analysis's job waiting in the queue
  redeliveries,      \* copies handed out again so far
  worker,            \* where each worker stands in _process_analysis
  job,               \* the analysis each worker is working on
  candidates,        \* rest of each sweeper's batch, as it was selected
  \* configuration
  price,             \* credit_cost_per_analysis
  prompt             \* ai_prompt_version

rowVars    == <<status, failureReason, started, overdue, promptOf, source, freeClaimed, verdict>>
creditVars == <<balance, charged, refunded>>
queueVars  == <<jobs, redeliveries>>
workerVars == <<worker, job>>
configVars == <<price, prompt>>
vars == <<rowVars, creditVars, request, queueVars, workerVars, candidates, configVars>>

-----------------------------------------------------------------------------
Terminal == {"complete", "failed", "needs_manual_review"}
Status == {"absent", "pending", "processing"} \union Terminal
FailureReason == {"none", "pending_timeout", "processing_timeout",
                  "storage_unavailable", "ocr_failed", "ai_failed", "worker_crash"}
RequestState == {"idle", "checked", "committed", "enqueueFailed", "done"}
Stages == {"downloading", "ocr", "ai"}
WorkerState == {"idle", "loaded", "raised"} \union Stages
Candidate == [id : Analyses, seen : {"pending", "processing"}]

TypeOK ==
  /\ status \in [Analyses -> Status]
  /\ failureReason \in [Analyses -> FailureReason]
  /\ started \in [Analyses -> BOOLEAN]
  /\ overdue \in [Analyses -> BOOLEAN]
  /\ promptOf \in [Analyses -> Prompts \union {None}]
  /\ source \in [Analyses -> Analyses \union {None}]
  /\ freeClaimed \in [Analyses -> BOOLEAN]
  /\ verdict \in [Analyses -> BOOLEAN]
  /\ balance \in [Users -> Nat]
  /\ charged \in [Analyses -> Prices \union {0}]
  /\ refunded \in [Analyses -> Prices \union {0}]
  /\ request \in [Analyses -> RequestState]
  /\ jobs \in [Analyses -> Nat]
  /\ redeliveries \in 0..MaxRedeliveries
  /\ worker \in [Workers -> WorkerState]
  /\ job \in [Workers -> Analyses \union {None}]
  /\ candidates \in [Sweepers -> SUBSET Candidate]
  /\ price \in Prices
  /\ prompt \in Prompts

Init ==
  /\ status = [a \in Analyses |-> "absent"]
  /\ failureReason = [a \in Analyses |-> "none"]
  /\ started = [a \in Analyses |-> FALSE]
  /\ overdue = [a \in Analyses |-> FALSE]
  /\ promptOf = [a \in Analyses |-> None]
  /\ source = [a \in Analyses |-> None]
  /\ freeClaimed = [a \in Analyses |-> FALSE]
  /\ verdict = [a \in Analyses |-> FALSE]
  /\ balance = [u \in Users |-> InitialGrant]
  /\ charged = [a \in Analyses |-> 0]
  /\ refunded = [a \in Analyses |-> 0]
  /\ request = [a \in Analyses |-> "idle"]
  /\ jobs = [a \in Analyses |-> 0]
  /\ redeliveries = 0
  /\ worker = [w \in Workers |-> "idle"]
  /\ job = [w \in Workers |-> None]
  /\ candidates = [s \in Sweepers |-> {}]
  /\ price \in Prices
  /\ prompt \in Prompts

-----------------------------------------------------------------------------
(***************************************************************************)
(* Credits.                                                                *)
(***************************************************************************)

\* Mutation: the floor is off by one.
AffordableOffByOne(u) == balance[u] + 1 >= price

\* WHERE balance >= amount of try_consume.
Affordable(u) == balance[u] >= price

\* charge_for_analysis: take the price and write the CONSUME row.
ChargeForAnalysis(a) ==
  /\ Affordable(Owner[a])
  /\ balance' = [balance EXCEPT ![Owner[a]] = @ - price]
  /\ charged' = [charged EXCEPT ![a] = price]
  /\ UNCHANGED refunded

\* Mutations: the ledger is not asked for the charge, or for the refund.
RefundUncharged(a) == refunded[a] = 0
RefundAgain(a) == charged[a] > 0

\* has_transaction(CONSUME), and the unique REFUND row not yet written.
RefundDue(a) == charged[a] > 0 /\ refunded[a] = 0

\* What is given back: the price of today, not the amount of the CONSUME row.
RefundAmount(a) == price

\* refund_for_analysis: a no-op unless a refund is due.
RefundForAnalysis(a) ==
  /\ IF RefundDue(a)
     THEN /\ refunded' = [refunded EXCEPT ![a] = RefundAmount(a)]
          /\ balance' = [balance EXCEPT ![Owner[a]] = @ + RefundAmount(a)]
     ELSE UNCHANGED <<refunded, balance>>
  /\ UNCHANGED charged

-----------------------------------------------------------------------------
(***************************************************************************)
(* The conditional updates of AnalysisRepository.                          *)
(***************************************************************************)

\* Mutations: an update without a condition, and one that only asks whether
\* the row is still open.
AnyStatus(a, from) == TRUE
StillOpen(a, from) == status[a] \in {"pending", "processing"}

\* WHERE status = :from_status.
StillIn(a, from) == status[a] = from

\* try_transition, where it finds the row in the status it expects.
TryTransition(a, from, to, reason) ==
  /\ StillIn(a, from)
  /\ status' = [status EXCEPT ![a] = to]
  /\ failureReason' = [failureReason EXCEPT ![a] = reason]
  /\ UNCHANGED <<started, overdue, promptOf, source, freeClaimed>>

\* Mutation: the failure commits without its refund.
FailWithoutRefund(a, from, to, reason) ==
  \/ /\ TryTransition(a, from, to, reason)
     /\ UNCHANGED <<creditVars, verdict>>
  \/ /\ ~StillIn(a, from)
     /\ UNCHANGED <<rowVars, creditVars>>

\* A claim, with the refund that commits with it, or nothing if it is lost.
FailAndRefund(a, from, to, reason) ==
  \/ /\ TryTransition(a, from, to, reason)
     /\ RefundForAnalysis(a)
     /\ UNCHANGED verdict
  \/ /\ ~StillIn(a, from)
     /\ UNCHANGED <<rowVars, creditVars>>

-----------------------------------------------------------------------------
(***************************************************************************)
(* Requests.  Validation, the quota, the balance pre-check, the malware    *)
(* scan and the upload to storage come before the first write and change   *)
(* nothing: only their order before the charge matters.                    *)
(***************************************************************************)

\* create_analysis up to the balance pre-check.
CreateRequest(a) ==
  /\ request[a] = "idle"
  /\ Affordable(Owner[a])
  /\ request' = [request EXCEPT ![a] = "checked"]
  /\ UNCHANGED <<rowVars, creditVars, queueVars, workerVars, candidates, configVars>>

\* Mutation: the claim of the free slot is not conditional.
SamePrompt(s) == promptOf[s] = prompt

\* A re-check of s may be free: same prompt version, free slot not claimed.
FreeSlotOpen(s) == promptOf[s] = prompt /\ ~freeClaimed[s]

\* The source of a re-check belongs to the same user and has finished.
Recheckable(a, s) == Owner[s] = Owner[a] /\ status[s] \in Terminal

\* recheck_analysis that is not free, up to the balance pre-check.
RecheckRequest(a, s) ==
  /\ request[a] = "idle"
  /\ Recheckable(a, s)
  /\ ~FreeSlotOpen(s)
  /\ Affordable(Owner[a])
  /\ request' = [request EXCEPT ![a] = "checked"]
  /\ source' = [source EXCEPT ![a] = s]
  /\ UNCHANGED <<status, failureReason, started, overdue, promptOf, freeClaimed, verdict,
                 creditVars, queueVars, workerVars, candidates, configVars>>

\* The insert of analyses.create.
InsertRow(a) ==
  /\ status' = [status EXCEPT ![a] = "pending"]
  /\ promptOf' = [promptOf EXCEPT ![a] = prompt]
  /\ UNCHANGED <<failureReason, started, overdue, verdict>>

\* The row and its charge commit together.
CommitCharged(a) ==
  /\ request[a] = "checked"
  /\ InsertRow(a)
  /\ ChargeForAnalysis(a)
  /\ request' = [request EXCEPT ![a] = "committed"]
  /\ UNCHANGED <<source, freeClaimed, queueVars, workerVars, candidates, configVars>>

\* The scan or the upload fails, the balance was spent meanwhile and the
\* transaction rolls back, or the process stops: no row is left.
RequestRejected(a) ==
  /\ request[a] = "checked"
  /\ request' = [request EXCEPT ![a] = "idle"]
  /\ source' = [source EXCEPT ![a] = None]
  /\ UNCHANGED <<status, failureReason, started, overdue, promptOf, freeClaimed, verdict,
                 creditVars, queueVars, workerVars, candidates, configVars>>

\* try_claim_free_recheck on the source and the insert commit together.
CommitFreeRecheck(a, s) ==
  /\ request[a] = "idle"
  /\ Recheckable(a, s)
  /\ FreeSlotOpen(s)
  /\ freeClaimed' = [freeClaimed EXCEPT ![s] = TRUE]
  /\ source' = [source EXCEPT ![a] = s]
  /\ InsertRow(a)
  /\ request' = [request EXCEPT ![a] = "committed"]
  /\ UNCHANGED <<creditVars, queueVars, workerVars, candidates, configVars>>

Enqueue(a) ==
  /\ request[a] = "committed"
  /\ request' = [request EXCEPT ![a] = "done"]
  /\ jobs' = [jobs EXCEPT ![a] = @ + 1]
  /\ UNCHANGED <<rowVars, creditVars, redeliveries, workerVars, candidates, configVars>>

\* enqueue() raises.  Where the reply of Redis was lost the job is queued.
EnqueueFails(a) ==
  /\ request[a] = "committed"
  /\ request' = [request EXCEPT ![a] = "enqueueFailed"]
  /\ \/ UNCHANGED jobs
     \/ AmbiguousEnqueue /\ jobs' = [jobs EXCEPT ![a] = @ + 1]
  /\ UNCHANGED <<rowVars, creditVars, redeliveries, workerVars, candidates, configVars>>

\* release_free_recheck of the source of a free re-check.
ReleaseFreeRecheck(a) ==
  freeClaimed' = [freeClaimed EXCEPT ![source[a]] = FALSE]

IsFreeRecheck(a) == source[a] # None /\ charged[a] = 0

\* The except block after enqueue(): refund, or release the free slot, and
\* set_status, which is unconditional and leaves failure_reason as it is.
CleanUpFailedEnqueue(a) ==
  /\ request[a] = "enqueueFailed"
  /\ IF IsFreeRecheck(a)
     THEN ReleaseFreeRecheck(a) /\ UNCHANGED creditVars
     ELSE RefundForAnalysis(a) /\ UNCHANGED freeClaimed
  /\ status' = [status EXCEPT ![a] = "failed"]
  /\ request' = [request EXCEPT ![a] = "done"]
  /\ UNCHANGED <<failureReason, started, overdue, promptOf, source, verdict,
                 queueVars, workerVars, candidates, configVars>>

\* The API process stops before the enqueue or before its clean-up.
ApiCrash(a) ==
  /\ request[a] \in {"committed", "enqueueFailed"}
  /\ request' = [request EXCEPT ![a] = "done"]
  /\ UNCHANGED <<rowVars, creditVars, queueVars, workerVars, candidates, configVars>>

-----------------------------------------------------------------------------
(***************************************************************************)
(* Workers.                                                                *)
(***************************************************************************)

WorkerGoes(w, to) == worker' = [worker EXCEPT ![w] = to]

WorkerDone(w) ==
  /\ WorkerGoes(w, "idle")
  /\ job' = [job EXCEPT ![w] = None]

\* Take a job and load its row; the job of a finished analysis is dropped.
TakeJob(w, a) ==
  /\ worker[w] = "idle"
  /\ jobs[a] > 0
  /\ jobs' = [jobs EXCEPT ![a] = @ - 1]
  /\ IF status[a] \in Terminal
     THEN UNCHANGED workerVars
     ELSE /\ WorkerGoes(w, "loaded")
          /\ job' = [job EXCEPT ![w] = a]
  /\ UNCHANGED <<rowVars, creditVars, request, redeliveries, candidates, configVars>>

\* Mutations: the worker resumes a running job, or starts an ended one.
PendingOrProcessing(a) == status[a] \in {"pending", "processing"}
NotProcessing(a) == status[a] # "processing"

\* WHERE status = 'pending' of try_start_processing.
Startable(a) == status[a] = "pending"

StartProcessing(w) ==
  LET a == job[w] IN
  /\ worker[w] = "loaded"
  /\ Startable(a)
  /\ status' = [status EXCEPT ![a] = "processing"]
  /\ started' = [started EXCEPT ![a] = TRUE]
  /\ overdue' = [overdue EXCEPT ![a] = FALSE]
  /\ WorkerGoes(w, "downloading")
  /\ UNCHANGED <<failureReason, promptOf, source, freeClaimed, verdict, creditVars, request,
                 queueVars, job, candidates, configVars>>

\* Another worker, or a sweep, was faster.
StartLost(w) ==
  /\ worker[w] = "loaded"
  /\ ~Startable(job[w])
  /\ WorkerDone(w)
  /\ UNCHANGED <<rowVars, creditVars, request, queueVars, candidates, configVars>>

\* The file is downloaded, or the text extracted: on to the next stage.
StageSucceeds(w) ==
  /\ \/ worker[w] = "downloading" /\ WorkerGoes(w, "ocr")
     \/ worker[w] = "ocr" /\ WorkerGoes(w, "ai")
  /\ UNCHANGED <<rowVars, creditVars, request, queueVars, job, candidates, configVars>>

\* A provider still fails after its retry: _finish_processing.
StageFails(w) ==
  /\ \/ /\ worker[w] = "downloading"
        /\ FailAndRefund(job[w], "processing", "failed", "storage_unavailable")
     \/ /\ worker[w] = "ocr"
        /\ FailAndRefund(job[w], "processing", "failed", "ocr_failed")
     \/ /\ worker[w] = "ai"
        /\ FailAndRefund(job[w], "processing", "needs_manual_review", "ai_failed")
  /\ WorkerDone(w)
  /\ UNCHANGED <<request, queueVars, candidates, configVars>>

\* The verdict is written with the claim that completes the analysis, and
\* discarded where that claim is lost.
WriteVerdict(w) ==
  LET a == job[w] IN
  /\ worker[w] = "ai"
  /\ \/ /\ TryTransition(a, "processing", "complete", "none")
        /\ verdict' = [verdict EXCEPT ![a] = TRUE]
     \/ /\ ~StillIn(a, "processing")
        /\ UNCHANGED rowVars
  /\ WorkerDone(w)
  /\ UNCHANGED <<creditVars, request, queueVars, candidates, configVars>>

\* An exception nobody expected, RQ's job timeout among them.
UnexpectedError(w) ==
  /\ worker[w] \in {"loaded"} \union Stages
  /\ WorkerGoes(w, "raised")
  /\ UNCHANGED <<rowVars, creditVars, request, queueVars, job, candidates, configVars>>

MarkFailedGeneric(w) ==
  /\ worker[w] = "raised"
  /\ FailAndRefund(job[w], "processing", "failed", "worker_crash")
  /\ WorkerDone(w)
  /\ UNCHANGED <<request, queueVars, candidates, configVars>>

\* The process is killed; what it had not committed is rolled back.
WorkerCrash(w) ==
  /\ worker[w] # "idle"
  /\ WorkerDone(w)
  /\ UNCHANGED <<rowVars, creditVars, request, queueVars, candidates, configVars>>

\* A job that was handed to a worker is handed out once more.
Redeliver(w) ==
  /\ worker[w] # "idle"
  /\ redeliveries < MaxRedeliveries
  /\ redeliveries' = redeliveries + 1
  /\ jobs' = [jobs EXCEPT ![job[w]] = @ + 1]
  /\ UNCHANGED <<rowVars, creditVars, request, workerVars, candidates, configVars>>

-----------------------------------------------------------------------------
(***************************************************************************)
(* The reconciliation sweep.                                               *)
(***************************************************************************)

\* Mutations: half of the WHERE clause is missing.
StuckProcessing(a) == status[a] = "processing" /\ started[a] /\ overdue[a]
StuckPending(a) == status[a] = "pending" /\ overdue[a]

\* The WHERE clause of find_stuck_candidates.
Stuck(a) ==
  \/ status[a] = "pending" /\ overdue[a]
  \/ status[a] = "processing" /\ started[a] /\ overdue[a]

StuckAnalyses == {a \in Analyses : Stuck(a)}

\* A plain read: the rows are not locked, and stale once the step is over.
\* Which rows come first when there are more than a batch is left open.
FindStuckCandidates(s) ==
  /\ candidates[s] = {}
  /\ \E batch \in SUBSET StuckAnalyses :
       /\ batch # {}
       /\ Cardinality(batch) <= BatchSize
       /\ Cardinality(batch) = BatchSize \/ batch = StuckAnalyses
       /\ candidates' = [candidates EXCEPT
                           ![s] = {[id |-> a, seen |-> status[a]] : a \in batch}]
  /\ UNCHANGED <<rowVars, creditVars, request, queueVars, workerVars, configVars>>

TimeoutReason(seen) ==
  IF seen = "pending" THEN "pending_timeout" ELSE "processing_timeout"

\* The next candidate of the batch, c, has been dealt with.
NextCandidate(s, c) ==
  /\ c \in candidates[s]
  /\ candidates' = [candidates EXCEPT ![s] = @ \ {c}]

ReconcileOne(s, c) ==
  /\ NextCandidate(s, c)
  /\ FailAndRefund(c.id, c.seen, "failed", TimeoutReason(c.seen))
  /\ UNCHANGED <<request, queueVars, workerVars, configVars>>

\* A row raises and is rolled back, and with it the sweep ends (see
\* ReconcilerSweep); or its process stops.  The loop starts another sweep.
SweepAborts(s) ==
  /\ candidates[s] # {}
  /\ candidates' = [candidates EXCEPT ![s] = {}]
  /\ UNCHANGED <<rowVars, creditVars, request, queueVars, workerVars, configVars>>

-----------------------------------------------------------------------------
(***************************************************************************)
(* Time and configuration.                                                 *)
(***************************************************************************)

\* The timeout of the current status runs out.
TimesOut(a) ==
  /\ status[a] \in {"pending", "processing"}
  /\ ~overdue[a]
  /\ overdue' = [overdue EXCEPT ![a] = TRUE]
  /\ UNCHANGED <<status, failureReason, started, promptOf, source, freeClaimed, verdict,
                 creditVars, request, queueVars, workerVars, candidates, configVars>>

\* A deployment with another price or prompt version.
Reconfigure ==
  /\ price' \in Prices
  /\ prompt' \in Prompts
  /\ configVars' # configVars
  /\ UNCHANGED <<rowVars, creditVars, request, queueVars, workerVars, candidates>>

-----------------------------------------------------------------------------
RequestNext(a) ==
  \/ CreateRequest(a)
  \/ CommitCharged(a)
  \/ RequestRejected(a)
  \/ Enqueue(a)
  \/ EnqueueFails(a)
  \/ CleanUpFailedEnqueue(a)
  \/ ApiCrash(a)
  \/ \E s \in Analyses : RecheckRequest(a, s) \/ CommitFreeRecheck(a, s)

WorkerNext(w) ==
  \/ \E a \in Analyses : TakeJob(w, a)
  \/ StartProcessing(w)
  \/ StartLost(w)
  \/ StageSucceeds(w)
  \/ StageFails(w)
  \/ WriteVerdict(w)
  \/ UnexpectedError(w)
  \/ MarkFailedGeneric(w)
  \/ WorkerCrash(w)
  \/ Redeliver(w)

SweeperNext(s) ==
  \/ FindStuckCandidates(s)
  \/ \E c \in candidates[s] : ReconcileOne(s, c)
  \/ SweepAborts(s)

Next ==
  \/ \E a \in Analyses : RequestNext(a) \/ TimesOut(a)
  \/ \E w \in Workers : WorkerNext(w)
  \/ \E s \in Sweepers : SweeperNext(s)
  \/ Reconfigure

Spec == Init /\ [][Next]_vars

(***************************************************************************)
(* Fairness: only of time and of the sweeps.  Workers may crash, stall or  *)
(* never take a job, and requests may end anywhere.  The sweep loop        *)
(* survives every exception and its service is restarted, so a sweep is    *)
(* always taken up again (weak fairness); a sweep may be aborted and a row *)
(* may fail to be reconciled any number of times, but an error does not    *)
(* strike the same row in every sweep for ever (strong fairness).          *)
(***************************************************************************)
Fairness ==
  /\ \A a \in Analyses : WF_vars(TimesOut(a))
  /\ \A s \in Sweepers : WF_vars(FindStuckCandidates(s))
  /\ \A s \in Sweepers, c \in Candidate : SF_vars(ReconcileOne(s, c))

FairSpec == Spec /\ Fairness

-----------------------------------------------------------------------------
(***************************************************************************)
(* Safety.                                                                 *)
(***************************************************************************)

\* The rows of the credit_transactions table that name an analysis, and what
\* they add up to.
Booked == {a \in Analyses : charged[a] > 0 \/ refunded[a] > 0}
Net == [a \in Analyses |-> refunded[a] - charged[a]]

\* CreditTransaction: "`sum(amount)` for a user always equals their current
\* balance", however charges and refunds interleave and although the price may
\* change between the two.  The GRANT row of the sign-up is InitialGrant.
LedgerMatchesBalance ==
  \A u \in Users :
    balance[u] = InitialGrant + SumFunctionOnSet(Net, {a \in Booked : Owner[a] = u})

\* A verdict is never delivered on an analysis whose credit was given back,
\* nor on one that did not complete: the worker's claim of COMPLETE and the
\* claims of every failure path and sweep exclude each other (worker.py,
\* "delivering the paid-for result for free").
NoVerdictOnRefund ==
  \A a \in Analyses : verdict[a] => status[a] = "complete" /\ refunded[a] = 0

\* An analysis that was paid for and has ended was settled in the same
\* commit, by its verdict or by its refund: no crash, lost race or retry
\* leaves a user with neither ("land together or not at all").
EndedIsSettled ==
  \A a \in Analyses :
    charged[a] > 0 /\ status[a] \in Terminal => verdict[a] \/ refunded[a] > 0

\* No refund comes early, or for work that was never charged.
RefundOnlyOfEndedCharge ==
  \A a \in Analyses :
    refunded[a] > 0 => charged[a] > 0 /\ status[a] \in {"failed", "needs_manual_review"}

\* At any time at most one worker runs the paid pipeline (download, OCR, AI)
\* for an analysis, although its job may be handed out several times.
OneWorkerPerAnalysis ==
  \A v, w \in Workers :
    v # w /\ worker[v] \in Stages /\ worker[w] \in Stages => job[v] # job[w]

\* A timeout is charged to the status the row was in when it timed out: a
\* sweep whose snapshot says "pending" does not fail work that began since.
TimeoutReasonIsTrue ==
  \A a \in Analyses :
    /\ failureReason[a] = "pending_timeout" => ~started[a]
    /\ failureReason[a] = "processing_timeout" => started[a]

\* However requests race for the free slot of an analysis, and whatever
\* slots are given back, the pipeline runs for free at most once per source.
OneFreeRunPerSource ==
  \A s \in Analyses :
    Cardinality({a \in Analyses : source[a] = s /\ charged[a] = 0 /\ started[a]}) <= 1

\* Once an analysis has ended, its status, its verdict and its refund stay as
\* they are, whoever is still working on it.
EndedStaysEnded ==
  [][\A a \in Analyses : status[a] \in Terminal =>
       status'[a] = status[a] /\ verdict'[a] = verdict[a] /\ refunded'[a] = refunded[a]]_vars

(***************************************************************************)
(* Liveness.                                                               *)
(***************************************************************************)

\* Every analysis that was accepted ends, by the sweeps alone if need be.
EveryAnalysisEnds ==
  \A a \in Analyses : status[a] = "pending" ~> status[a] \in Terminal

(***************************************************************************)
(* The abstract specification this one implements: PaidWork.               *)
(***************************************************************************)
WorkOf(a) ==
  CASE status[a] = "absent" -> "none"
    [] status[a] # "absent" /\ charged[a] = 0 -> "courtesy"
    [] charged[a] > 0 /\ verdict[a] /\ refunded[a] > 0 -> "delivered and refunded"
    [] charged[a] > 0 /\ verdict[a] /\ refunded[a] = 0 -> "delivered"
    [] charged[a] > 0 /\ ~verdict[a] /\ refunded[a] > 0 -> "refunded"
    [] OTHER -> "owed"

Work == INSTANCE PaidWork WITH work <- [a \in Analyses |-> WorkOf(a)]

\* Credits move only with the promise they pay for, and paid work is
\* eventually settled.
PaidWorkSpec == Work!WorkSpec
=============================================================================
