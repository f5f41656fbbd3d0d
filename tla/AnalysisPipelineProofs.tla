----------------------- MODULE AnalysisPipelineProofs -----------------------
(***************************************************************************)
(* Theorems about AnalysisPipeline, for every number of analyses, users,   *)
(* workers, sweepers and redeliveries, and all prices and prompt versions. *)
(***************************************************************************)
EXTENDS AnalysisPipeline, TLAPS

USE DEF Terminal, Stages

-----------------------------------------------------------------------------
(***************************************************************************)
(* Type correctness.                                                       *)
(***************************************************************************)

\* The empty database is well typed.
LEMMA TypeInit == Init => TypeOK
  BY PipelineAssumption
  DEF Init, TypeOK, Status, FailureReason, RequestState, WorkerState

\* Upload and re-check requests keep the types; a charge never overdraws.
LEMMA RequestType ==
  ASSUME TypeOK, NEW a \in Analyses, RequestNext(a)
  PROVE  TypeOK'
<1> USE PipelineAssumption
    DEF TypeOK, Status, FailureReason, RequestState, rowVars, creditVars, queueVars,
        workerVars, configVars
<1>1. CASE CreateRequest(a)
  BY <1>1 DEF CreateRequest
<1>2. CASE CommitCharged(a)
  <2>1. balance[Owner[a]] - price \in Nat
    BY <1>2 DEF CommitCharged, ChargeForAnalysis, Affordable
  <2>2. balance' \in [Users -> Nat] /\ charged' \in [Analyses -> Prices \union {0}]
    BY <1>2, <2>1 DEF CommitCharged, ChargeForAnalysis
  <2> QED
    BY <1>2, <2>2 DEF CommitCharged, ChargeForAnalysis, InsertRow
<1>3. CASE RequestRejected(a)
  BY <1>3 DEF RequestRejected
<1>4. CASE Enqueue(a)
  BY <1>4 DEF Enqueue
<1>5. CASE EnqueueFails(a)
  BY <1>5 DEF EnqueueFails
<1>6. CASE CleanUpFailedEnqueue(a)
  <2>1. CASE IsFreeRecheck(a)
    BY <1>6, <2>1 DEF CleanUpFailedEnqueue, ReleaseFreeRecheck
  <2>2. CASE ~IsFreeRecheck(a)
    BY <1>6, <2>2 DEF CleanUpFailedEnqueue, RefundForAnalysis, RefundAmount
  <2> QED
    BY <2>1, <2>2
<1>7. CASE ApiCrash(a)
  BY <1>7 DEF ApiCrash
<1>8. ASSUME NEW s \in Analyses, RecheckRequest(a, s)
      PROVE  TypeOK'
  BY <1>8 DEF RecheckRequest
<1>9. ASSUME NEW s \in Analyses, CommitFreeRecheck(a, s)
      PROVE  TypeOK'
  BY <1>9 DEF CommitFreeRecheck, InsertRow
<1> QED
  BY <1>1, <1>2, <1>3, <1>4, <1>5, <1>6, <1>7, <1>8, <1>9 DEF RequestNext

\* A failure claim, won or lost, keeps the types of the rows and credits.
LEMMA FailAndRefundType ==
  ASSUME TypeOK, NEW a, NEW from, NEW to \in Status, NEW reason \in FailureReason,
         FailAndRefund(a, from, to, reason)
  PROVE  /\ status' \in [Analyses -> Status]
         /\ failureReason' \in [Analyses -> FailureReason]
         /\ started' = started /\ overdue' = overdue /\ promptOf' = promptOf
         /\ source' = source /\ freeClaimed' = freeClaimed /\ verdict' = verdict
         /\ balance' \in [Users -> Nat]
         /\ refunded' \in [Analyses -> Prices \union {0}]
         /\ charged' = charged
<1>1. CASE TryTransition(a, from, to, reason) /\ RefundForAnalysis(a) /\ UNCHANGED verdict
  <2>1. price \in Nat
    BY PipelineAssumption DEF TypeOK
  <2>2. balance' \in [Users -> Nat]
    BY <1>1, <2>1 DEF TypeOK, RefundForAnalysis, RefundAmount
  <2>3. refunded' \in [Analyses -> Prices \union {0}] /\ charged' = charged
    BY <1>1 DEF TypeOK, RefundForAnalysis, RefundAmount
  <2>4. /\ status' \in [Analyses -> Status]
        /\ failureReason' \in [Analyses -> FailureReason]
    BY <1>1 DEF TypeOK, TryTransition
  <2> QED
    BY <1>1, <2>2, <2>3, <2>4 DEF TryTransition
<1>2. CASE UNCHANGED <<rowVars, creditVars>>
  BY <1>2 DEF TypeOK, rowVars, creditVars
<1> QED
  BY <1>1, <1>2 DEF FailAndRefund

\* Workers keep the types.
LEMMA WorkerType ==
  ASSUME TypeOK, NEW w \in Workers, WorkerNext(w)
  PROVE  TypeOK'
<1> USE DEF TypeOK, WorkerState, rowVars, creditVars, queueVars, workerVars, configVars
<1>1. ASSUME NEW a \in Analyses, TakeJob(w, a)
      PROVE  TypeOK'
  <2>1. jobs' \in [Analyses -> Nat]
    BY <1>1 DEF TakeJob
  <2>2. CASE status[a] \in Terminal
    BY <1>1, <2>1, <2>2 DEF TakeJob
  <2>3. CASE status[a] \notin Terminal
    BY <1>1, <2>1, <2>3 DEF TakeJob, WorkerGoes
  <2> QED
    BY <2>2, <2>3
<1>2. CASE StartProcessing(w)
  BY <1>2 DEF StartProcessing, WorkerGoes, Status
<1>3. CASE StartLost(w)
  BY <1>3 DEF StartLost, WorkerDone, WorkerGoes
<1>4. CASE StageSucceeds(w)
  BY <1>4 DEF StageSucceeds, WorkerGoes
<1>5. CASE StageFails(w)
  <2>1. PICK to \in Status, reason \in FailureReason :
          FailAndRefund(job[w], "processing", to, reason)
    BY <1>5 DEF StageFails, Status, FailureReason
  <2> QED
    BY <1>5, <2>1, FailAndRefundType DEF StageFails, WorkerDone, WorkerGoes
<1>6. CASE WriteVerdict(w)
  BY <1>6 DEF WriteVerdict, TryTransition, WorkerDone, WorkerGoes, Status, FailureReason
<1>7. CASE UnexpectedError(w)
  BY <1>7 DEF UnexpectedError, WorkerGoes
<1>8. CASE MarkFailedGeneric(w)
  <2>1. PICK to \in Status, reason \in FailureReason :
          FailAndRefund(job[w], "processing", to, reason)
    BY <1>8 DEF MarkFailedGeneric, Status, FailureReason
  <2> QED
    BY <1>8, <2>1, FailAndRefundType DEF MarkFailedGeneric, WorkerDone, WorkerGoes
<1>9. CASE WorkerCrash(w)
  BY <1>9 DEF WorkerCrash, WorkerDone, WorkerGoes
<1>10. CASE Redeliver(w)
  <2>1. redeliveries' \in 0..MaxRedeliveries
    BY <1>10, PipelineAssumption DEF Redeliver
  <2>2. jobs' = [b \in Analyses |-> IF b = job[w] THEN jobs[b] + 1 ELSE jobs[b]]
    BY <1>10 DEF Redeliver
  <2>3. jobs' \in [Analyses -> Nat]
    BY <2>2
  <2> QED
    BY <1>10, <2>1, <2>3 DEF Redeliver
<1> QED
  BY <1>1, <1>2, <1>3, <1>4, <1>5, <1>6, <1>7, <1>8, <1>9, <1>10 DEF WorkerNext

\* Sweeps keep the types: a batch only remembers pending or processing rows.
LEMMA SweeperType ==
  ASSUME TypeOK, NEW s \in Sweepers, SweeperNext(s)
  PROVE  TypeOK'
<1> USE DEF TypeOK, rowVars, creditVars, queueVars, workerVars, configVars
<1>1. CASE FindStuckCandidates(s)
  <2>1. PICK batch \in SUBSET StuckAnalyses :
          candidates' = [candidates EXCEPT
                           ![s] = {[id |-> a, seen |-> status[a]] : a \in batch}]
    BY <1>1 DEF FindStuckCandidates
  <2>2. \A a \in batch : a \in Analyses /\ status[a] \in {"pending", "processing"}
    BY <2>1 DEF StuckAnalyses, Stuck
  <2>3. {[id |-> a, seen |-> status[a]] : a \in batch} \in SUBSET Candidate
    BY <2>2 DEF Candidate
  <2>4. candidates' \in [Sweepers -> SUBSET Candidate]
    BY <2>1, <2>3
  <2> QED
    BY <1>1, <2>4 DEF FindStuckCandidates
<1>2. ASSUME NEW c \in candidates[s], ReconcileOne(s, c)
      PROVE  TypeOK'
  <2>1. TimeoutReason(c.seen) \in FailureReason /\ "failed" \in Status
    BY DEF TimeoutReason, FailureReason, Status
  <2>2. candidates' \in [Sweepers -> SUBSET Candidate]
    BY <1>2 DEF ReconcileOne, NextCandidate
  <2>3. FailAndRefund(c.id, c.seen, "failed", TimeoutReason(c.seen))
    BY <1>2 DEF ReconcileOne
  <2> QED
    BY <1>2, <2>1, <2>2, <2>3, FailAndRefundType DEF ReconcileOne
<1>3. CASE SweepAborts(s)
  BY <1>3 DEF SweepAborts
<1> QED
  BY <1>1, <1>2, <1>3 DEF SweeperNext

\* Every step, that of time and of a deployment included, keeps the types.
LEMMA TypeStep == TypeOK /\ [Next]_vars => TypeOK'
<1> SUFFICES ASSUME TypeOK, [Next]_vars PROVE TypeOK'
  OBVIOUS
<1>1. CASE UNCHANGED vars
  BY <1>1 DEF TypeOK, vars, rowVars, creditVars, queueVars, workerVars, configVars
<1>2. ASSUME NEW a \in Analyses, TimesOut(a)
      PROVE  TypeOK'
  BY <1>2 DEF TimesOut, TypeOK, creditVars, queueVars, workerVars, configVars
<1>3. CASE Reconfigure
  BY <1>3 DEF Reconfigure, TypeOK, rowVars, creditVars, queueVars, workerVars
<1> QED
  BY <1>1, <1>2, <1>3, RequestType, WorkerType, SweeperType DEF Next

\* TypeOK is inductive: every reachable state is well typed.  In particular
\* no balance ever becomes negative (try_consume's WHERE balance >= amount).
THEOREM TypeCorrect == Spec => []TypeOK
  BY TypeInit, TypeStep, PTL DEF Spec

-----------------------------------------------------------------------------
(***************************************************************************)
(* The inductive invariant.                                                *)
(*                                                                         *)
(* What ends an analysis asks for the status it expects, except the        *)
(* clean-up after a failed enqueue, which overwrites any status.  Where    *)
(* enqueue() raises only if the job is not queued, nobody can have worked  *)
(* on that analysis (Unqueued, RequestInv).  Where it may be queued all    *)
(* the same, the clean-up may overwrite a COMPLETE: RowInv then allows a   *)
(* verdict on a failed row, and loses nothing else.                        *)
(***************************************************************************)

EnqueueIsReliable == AmbiguousEnqueue = FALSE

\* The stages of a request in which its job cannot be in the queue.
Unqueued ==
  {"idle", "checked", "committed"} \union (IF AmbiguousEnqueue THEN {} ELSE {"enqueueFailed"})

\* Before its job is queued no worker knows an analysis.
RequestInv ==
  \A a \in Analyses :
    /\ request[a] \in {"idle", "checked"} <=> status[a] = "absent"
    /\ status[a] = "absent" => charged[a] = 0 /\ refunded[a] = 0
    /\ request[a] \in Unqueued =>
         jobs[a] = 0 /\ ~started[a] /\ \A w \in Workers : job[w] # a

\* How the columns of a row and its two ledger entries hang together.
RowInv ==
  \A a \in Analyses :
    /\ status[a] \in {"absent", "pending"} => ~started[a]
    /\ status[a] \in {"processing", "complete", "needs_manual_review"} => started[a]
    /\ status[a] = "complete" => verdict[a]
    /\ verdict[a] => status[a] = "complete" \/ (AmbiguousEnqueue /\ status[a] = "failed")
    /\ refunded[a] > 0 =>
         charged[a] > 0 /\ status[a] \in {"failed", "needs_manual_review"}
    /\ charged[a] > 0 /\ status[a] \in {"failed", "needs_manual_review"} => refunded[a] > 0
    /\ failureReason[a] # "none" => status[a] \in {"failed", "needs_manual_review"}
    /\ failureReason[a] = "pending_timeout" => ~started[a]
    /\ failureReason[a] = "processing_timeout" => started[a]

\* A worker in a stage holds the one claim of its analysis.
WorkerInv ==
  /\ \A w \in Workers :
       /\ worker[w] = "idle" <=> job[w] = None
       /\ worker[w] \in Stages => started[job[w]]
  /\ OneWorkerPerAnalysis

PipelineInv == RequestInv /\ RowInv /\ WorkerInv

\* The empty database satisfies the invariant.
LEMMA InvInit == Init => PipelineInv
  BY PipelineAssumption DEF Init, PipelineInv, RequestInv, RowInv, WorkerInv, OneWorkerPerAnalysis

\* Prices, charges and refunds are numbers, and no price is zero.
LEMMA AmountsAreNumbers ==
  ASSUME TypeOK
  PROVE  /\ price \in Nat /\ price > 0
         /\ \A a \in Analyses : charged[a] \in Nat /\ refunded[a] \in Nat
<1>1. \A p \in Prices : p \in Nat /\ p > 0
  BY PipelineAssumption
<1>2. price \in Prices
  BY DEF TypeOK
<1>3. \A a \in Analyses : charged[a] \in Prices \union {0} /\ refunded[a] \in Prices \union {0}
  BY DEF TypeOK
<1>4. \A p \in Prices \union {0} : p \in Nat
  BY <1>1
<1> QED
  BY <1>1, <1>2, <1>3, <1>4

\* refund_for_analysis leaves every charged analysis refunded, and is a no-op
\* on an analysis that was not charged or is refunded already.
LEMMA RefundEffect ==
  ASSUME TypeOK, NEW a \in Analyses, RefundForAnalysis(a)
  PROVE  /\ charged' = charged
         /\ \A b \in Analyses : b # a => refunded'[b] = refunded[b]
         /\ charged[a] > 0 => refunded'[a] > 0
         /\ charged[a] = 0 => refunded'[a] = refunded[a]
         /\ refunded[a] > 0 => refunded'[a] = refunded[a]
<1>1. price \in Nat /\ price > 0 /\ charged[a] \in Nat /\ refunded[a] \in Nat
  BY AmountsAreNumbers
<1>2. CASE RefundDue(a)
  <2>1. charged' = charged /\ refunded' = [refunded EXCEPT ![a] = price]
    BY <1>2 DEF RefundForAnalysis, RefundAmount
  <2> QED
    BY <1>1, <1>2, <2>1 DEF RefundDue, TypeOK
<1>3. CASE ~RefundDue(a)
  <2>1. charged' = charged /\ refunded' = refunded
    BY <1>3 DEF RefundForAnalysis
  <2> QED
    BY <1>1, <1>3, <2>1 DEF RefundDue
<1> QED
  BY <1>2, <1>3

\* What a failure claim does to the rows, whether it wins or is lost.
LEMMA FailAndRefundRow ==
  ASSUME TypeOK, RowInv, NEW a \in Analyses,
         NEW from \in {"pending", "processing"},
         NEW to \in {"failed", "needs_manual_review"},
         NEW reason \in FailureReason \ {"none"},
         from = "pending" => to = "failed" /\ reason # "processing_timeout",
         from = "processing" => reason # "pending_timeout",
         FailAndRefund(a, from, to, reason)
  PROVE  /\ RowInv'
         /\ started' = started /\ charged' = charged /\ source' = source
         /\ freeClaimed' = freeClaimed
         /\ \A b \in Analyses : status'[b] = "absent" <=> status[b] = "absent"
         /\ \A b \in Analyses : status[b] = "absent" => refunded'[b] = refunded[b]
         /\ \A b \in Analyses : status[b] \in Terminal =>
              status'[b] = status[b] /\ verdict'[b] = verdict[b] /\ refunded'[b] = refunded[b]
<1> USE DEF TypeOK, RowInv
<1>1. CASE UNCHANGED <<rowVars, creditVars>>
  BY <1>1 DEF rowVars, creditVars
<1>2. CASE TryTransition(a, from, to, reason) /\ RefundForAnalysis(a) /\ UNCHANGED verdict
  <2>1. /\ status[a] = from
        /\ status' = [status EXCEPT ![a] = to]
        /\ failureReason' = [failureReason EXCEPT ![a] = reason]
        /\ started' = started /\ verdict' = verdict
        /\ source' = source /\ freeClaimed' = freeClaimed
    BY <1>2 DEF TryTransition, StillIn
  <2>2. /\ charged' = charged
        /\ \A b \in Analyses : b # a => refunded'[b] = refunded[b]
        /\ charged[a] > 0 => refunded'[a] > 0
        /\ charged[a] = 0 => refunded'[a] = refunded[a]
    BY <1>2, RefundEffect
  <2>3. charged[a] \in Nat /\ refunded[a] \in Nat
    BY AmountsAreNumbers
  <2>4. refunded[a] = 0 /\ ~verdict[a] /\ (charged[a] > 0 \/ charged[a] = 0)
    BY <2>1, <2>3
  <2>5. RowInv'
    BY <2>1, <2>2, <2>4
  <2> QED
    BY <2>1, <2>2, <2>5
<1> QED
  BY <1>1, <1>2 DEF FailAndRefund

\* Requests keep the invariant, whether or not a failed enqueue queued the job.
LEMMA RequestStep ==
  ASSUME TypeOK, PipelineInv, NEW a \in Analyses, RequestNext(a)
  PROVE  PipelineInv'
<1> USE PipelineAssumption
    DEF TypeOK, PipelineInv, RequestInv, Unqueued, RowInv, WorkerInv, OneWorkerPerAnalysis,
        rowVars, creditVars, queueVars, workerVars
<1>1. CASE CreateRequest(a)
  BY <1>1 DEF CreateRequest
<1>2. CASE CommitCharged(a)
  BY <1>2 DEF CommitCharged, InsertRow, ChargeForAnalysis
<1>3. CASE RequestRejected(a)
  BY <1>3 DEF RequestRejected
<1>4. CASE Enqueue(a)
  BY <1>4 DEF Enqueue
<1>5. CASE EnqueueFails(a)
  BY <1>5 DEF EnqueueFails
<1>6. CASE CleanUpFailedEnqueue(a)
  <2>1. /\ request[a] = "enqueueFailed" /\ status[a] # "absent"
        /\ AmbiguousEnqueue \/ status[a] \in {"pending", "failed"}
    BY <1>6, PipelineAssumption DEF CleanUpFailedEnqueue, Status
  <2>2. CASE IsFreeRecheck(a)
    BY <1>6, <2>1, <2>2 DEF CleanUpFailedEnqueue, IsFreeRecheck
  <2>3. CASE ~IsFreeRecheck(a)
    <3>1. RefundForAnalysis(a) /\ freeClaimed' = freeClaimed
      BY <1>6, <2>3 DEF CleanUpFailedEnqueue
    <3>2. /\ charged' = charged
          /\ \A b \in Analyses : b # a => refunded'[b] = refunded[b]
          /\ charged[a] > 0 => refunded'[a] > 0
          /\ charged[a] = 0 => refunded'[a] = refunded[a]
      BY <3>1, RefundEffect
    <3>3. charged[a] \in Nat /\ refunded[a] \in Nat
      BY AmountsAreNumbers
    <3> QED
      BY <1>6, <2>1, <3>1, <3>2, <3>3 DEF CleanUpFailedEnqueue
  <2> QED
    BY <2>2, <2>3
<1>7. CASE ApiCrash(a)
  BY <1>7 DEF ApiCrash
<1>8. ASSUME NEW s \in Analyses, RecheckRequest(a, s)
      PROVE  PipelineInv'
  BY <1>8 DEF RecheckRequest
<1>9. ASSUME NEW s \in Analyses, CommitFreeRecheck(a, s)
      PROVE  PipelineInv'
  BY <1>9 DEF CommitFreeRecheck, InsertRow
<1> QED
  BY <1>1, <1>2, <1>3, <1>4, <1>5, <1>6, <1>7, <1>8, <1>9 DEF RequestNext

\* A worker that moves within its job, or leaves it, keeps WorkerInv.
LEMMA WorkerMoves ==
  ASSUME TypeOK, WorkerInv, NEW w \in Workers, NEW to \in {"raised"} \union Stages,
         worker[w] # "idle", to \in Stages => worker[w] \in Stages,
         started' = started, WorkerGoes(w, to), job' = job
  PROVE  WorkerInv'
<1>1. worker' = [worker EXCEPT ![w] = to]
  BY DEF WorkerGoes
<1>2. \A v \in Workers : worker'[v] = IF v = w THEN to ELSE worker[v]
  BY <1>1 DEF TypeOK
<1>3. \A v \in Workers : worker'[v] \in Stages => worker[v] \in Stages
  BY <1>2
<1>4. \A v \in Workers : worker'[v] = "idle" <=> worker[v] = "idle"
  BY <1>2
<1> QED
  BY <1>3, <1>4 DEF WorkerInv, OneWorkerPerAnalysis

\* A worker that drops its job keeps WorkerInv.
LEMMA WorkerLeaves ==
  ASSUME TypeOK, WorkerInv, NEW w \in Workers, WorkerDone(w), started' = started
  PROVE  WorkerInv' /\ \A v \in Workers : job'[v] \in {job[v], None}
<1>1. worker' = [worker EXCEPT ![w] = "idle"] /\ job' = [job EXCEPT ![w] = None]
  BY DEF WorkerDone, WorkerGoes
<1>2. \A v \in Workers : worker'[v] = IF v = w THEN "idle" ELSE worker[v]
  BY <1>1 DEF TypeOK
<1>3. \A v \in Workers : job'[v] = IF v = w THEN None ELSE job[v]
  BY <1>1 DEF TypeOK
<1>4. \A v \in Workers : worker'[v] \in Stages =>
        worker[v] \in Stages /\ v # w /\ job'[v] = job[v]
  BY <1>2, <1>3
<1> QED
  BY <1>2, <1>3, <1>4 DEF WorkerInv, OneWorkerPerAnalysis

\* Workers keep the invariant: starting is what the row lets one of them do.
LEMMA WorkerStep ==
  ASSUME TypeOK, PipelineInv, NEW w \in Workers, WorkerNext(w)
  PROVE  PipelineInv'
<1> USE DEF TypeOK, PipelineInv, RequestInv, RowInv, WorkerInv, OneWorkerPerAnalysis,
            rowVars, creditVars, queueVars, workerVars, WorkerDone, WorkerGoes
<1>0. worker[w] # "idle" => job[w] \in Analyses
  OBVIOUS
<1>1. ASSUME NEW a \in Analyses, TakeJob(w, a)
      PROVE  PipelineInv'
  <2>1. request[a] \notin Unqueued
    BY <1>1 DEF TakeJob
  <2>2. CASE status[a] \in Terminal
    BY <1>1, <2>1, <2>2 DEF TakeJob
  <2>3. CASE status[a] \notin Terminal
    <3>1. /\ worker[w] = "idle"
          /\ worker' = [worker EXCEPT ![w] = "loaded"] /\ job' = [job EXCEPT ![w] = a]
          /\ jobs' = [jobs EXCEPT ![a] = @ - 1]
          /\ UNCHANGED <<rowVars, creditVars, request>>
      BY <1>1, <2>3 DEF TakeJob
    <3>2. RequestInv' /\ RowInv'
      BY <2>1, <3>1
    <3>3. WorkerInv'
      BY <3>1, PipelineAssumption
    <3> QED
      BY <3>2, <3>3
  <2> QED
    BY <2>2, <2>3
<1>2. CASE StartProcessing(w)
  <2> DEFINE a == job[w]
  <2>1. /\ worker[w] = "loaded" /\ a \in Analyses /\ status[a] = "pending"
        /\ status' = [status EXCEPT ![a] = "processing"]
        /\ started' = [started EXCEPT ![a] = TRUE]
        /\ worker' = [worker EXCEPT ![w] = "downloading"]
        /\ UNCHANGED <<failureReason, verdict, creditVars, request, jobs, job>>
    BY <1>0, <1>2 DEF StartProcessing, Startable
  <2>2. request[a] \notin Unqueued /\ ~started[a] /\ failureReason[a] = "none"
    BY <2>1
  <2>3. \A v \in Workers : job[v] = a => worker[v] \notin Stages
    BY <2>2
  <2> HIDE DEF a
  <2>4. RequestInv' /\ RowInv'
    BY <2>1, <2>2
  <2>5. WorkerInv'
    BY <2>1, <2>2, <2>3 DEF a
  <2> QED
    BY <2>4, <2>5
<1>3. CASE StartLost(w)
  <2>1. WorkerDone(w) /\ UNCHANGED <<rowVars, creditVars, request, queueVars>>
    BY <1>3 DEF StartLost
  <2>2. WorkerInv' /\ \A v \in Workers : job'[v] \in {job[v], None}
    BY <2>1, WorkerLeaves
  <2> QED
    BY <2>1, <2>2, PipelineAssumption
<1>4. CASE StageSucceeds(w)
  <2>1. PICK to \in Stages : worker[w] \in Stages /\ WorkerGoes(w, to)
    BY <1>4 DEF StageSucceeds
  <2>2. UNCHANGED <<rowVars, creditVars, request, queueVars, job>>
    BY <1>4 DEF StageSucceeds
  <2>3. WorkerInv'
    BY <2>1, <2>2, WorkerMoves
  <2> QED
    BY <2>2, <2>3
<1>5. ASSUME job[w] \in Analyses, WorkerDone(w),
             UNCHANGED <<request, queueVars>>,
             NEW to \in {"failed", "needs_manual_review"},
             NEW reason \in FailureReason \ {"none", "pending_timeout"},
             to = "needs_manual_review" => started[job[w]],
             FailAndRefund(job[w], "processing", to, reason)
      PROVE  PipelineInv'
  <2>1. /\ RowInv'
        /\ started' = started /\ charged' = charged
        /\ \A b \in Analyses : status'[b] = "absent" <=> status[b] = "absent"
        /\ \A b \in Analyses : status[b] = "absent" => refunded'[b] = refunded[b]
    BY <1>5, FailAndRefundRow
  <2>2. WorkerInv' /\ \A v \in Workers : job'[v] \in {job[v], None}
    BY <1>5, <2>1, WorkerLeaves
  <2>3. RequestInv'
    BY <1>5, <2>1, <2>2, PipelineAssumption
  <2> QED
    BY <2>1, <2>2, <2>3
<1>6. CASE StageFails(w)
  <2>1. PICK to \in {"failed", "needs_manual_review"},
             reason \in FailureReason \ {"none", "pending_timeout"} :
          FailAndRefund(job[w], "processing", to, reason)
    BY <1>6 DEF StageFails, FailureReason
  <2>2. worker[w] \in Stages
    BY <1>6 DEF StageFails
  <2> QED
    BY <1>0, <1>5, <1>6, <2>1, <2>2 DEF StageFails
<1>7. CASE WriteVerdict(w)
  <2>1. job[w] \in Analyses /\ started[job[w]]
    BY <1>0, <1>7 DEF WriteVerdict
  <2>2. WorkerDone(w) /\ started' = started /\ UNCHANGED <<creditVars, request, queueVars>>
    BY <1>7 DEF WriteVerdict, TryTransition
  <2>3. WorkerInv' /\ \A v \in Workers : job'[v] \in {job[v], None}
    BY <2>2, WorkerLeaves
  <2>4. CASE StillIn(job[w], "processing")
    <3>1. /\ status[job[w]] = "processing"
          /\ status' = [status EXCEPT ![job[w]] = "complete"]
          /\ failureReason' = [failureReason EXCEPT ![job[w]] = "none"]
          /\ verdict' = [verdict EXCEPT ![job[w]] = TRUE]
      BY <1>7, <2>4 DEF WriteVerdict, TryTransition, StillIn
    <3>2. RequestInv'
      BY <2>1, <2>2, <2>3, <3>1, PipelineAssumption
    <3>3. RowInv'
      BY <2>1, <2>2, <3>1
    <3> QED
      BY <2>3, <3>2, <3>3
  <2>5. CASE UNCHANGED rowVars
    BY <2>2, <2>3, <2>5, PipelineAssumption
  <2> QED
    BY <1>7, <2>4, <2>5 DEF WriteVerdict, TryTransition
<1>8. CASE UnexpectedError(w)
  <2>1. /\ worker[w] # "idle" /\ WorkerGoes(w, "raised")
        /\ UNCHANGED <<rowVars, creditVars, request, queueVars, job>>
    BY <1>8 DEF UnexpectedError
  <2>2. WorkerInv'
    BY <2>1, WorkerMoves
  <2> QED
    BY <2>1, <2>2
<1>9. CASE MarkFailedGeneric(w)
  BY <1>0, <1>5, <1>9 DEF MarkFailedGeneric, FailureReason
<1>10. CASE WorkerCrash(w)
  <2>1. WorkerDone(w) /\ UNCHANGED <<rowVars, creditVars, request, queueVars>>
    BY <1>10 DEF WorkerCrash
  <2>2. WorkerInv' /\ \A v \in Workers : job'[v] \in {job[v], None}
    BY <2>1, WorkerLeaves
  <2> QED
    BY <2>1, <2>2, PipelineAssumption
<1>11. CASE Redeliver(w)
  BY <1>0, <1>11 DEF Redeliver
<1> QED
  BY <1>1, <1>2, <1>3, <1>4, <1>6, <1>7, <1>8, <1>9, <1>10, <1>11 DEF WorkerNext

\* Sweeps keep the invariant, however old their snapshot of a row is.
LEMMA SweeperStep ==
  ASSUME TypeOK, PipelineInv, NEW s \in Sweepers, SweeperNext(s)
  PROVE  PipelineInv'
<1> USE DEF PipelineInv, RequestInv, RowInv, WorkerInv, OneWorkerPerAnalysis,
            rowVars, creditVars, queueVars, workerVars
<1>1. CASE FindStuckCandidates(s)
  BY <1>1 DEF FindStuckCandidates
<1>2. ASSUME NEW c \in candidates[s], ReconcileOne(s, c)
      PROVE  PipelineInv'
  <2>1. c.id \in Analyses /\ c.seen \in {"pending", "processing"}
    BY DEF TypeOK, Candidate
  <2>2. /\ TimeoutReason(c.seen) \in FailureReason \ {"none"}
        /\ c.seen = "pending" => TimeoutReason(c.seen) # "processing_timeout"
        /\ c.seen = "processing" => TimeoutReason(c.seen) # "pending_timeout"
    BY DEF TimeoutReason, FailureReason
  <2>3. FailAndRefund(c.id, c.seen, "failed", TimeoutReason(c.seen))
    BY <1>2 DEF ReconcileOne
  <2>4. /\ RowInv'
        /\ started' = started /\ charged' = charged
        /\ \A b \in Analyses : status'[b] = "absent" <=> status[b] = "absent"
        /\ \A b \in Analyses : status[b] = "absent" => refunded'[b] = refunded[b]
    BY <2>1, <2>2, <2>3, FailAndRefundRow
  <2>5. RequestInv' /\ WorkerInv'
    BY <1>2, <2>4 DEF ReconcileOne, TypeOK
  <2> QED
    BY <2>4, <2>5
<1>3. CASE SweepAborts(s)
  BY <1>3 DEF SweepAborts
<1> QED
  BY <1>1, <1>2, <1>3 DEF SweeperNext

\* Every step keeps the invariant.
LEMMA InvStep == TypeOK /\ PipelineInv /\ [Next]_vars => PipelineInv'
<1> SUFFICES ASSUME TypeOK, PipelineInv, [Next]_vars PROVE PipelineInv'
  OBVIOUS
<1> USE DEF PipelineInv, RequestInv, RowInv, WorkerInv, OneWorkerPerAnalysis,
            rowVars, creditVars, queueVars, workerVars
<1>1. CASE UNCHANGED vars
  BY <1>1 DEF vars
<1>2. ASSUME NEW a \in Analyses, TimesOut(a)
      PROVE  PipelineInv'
  BY <1>2 DEF TimesOut
<1>3. CASE Reconfigure
  BY <1>3 DEF Reconfigure
<1> QED
  BY <1>1, <1>2, <1>3, RequestStep, WorkerStep, SweeperStep DEF Next

\* The inductive invariant holds in every reachable state.
THEOREM InvCorrect == Spec => [](TypeOK /\ PipelineInv)
<1>1. Init => TypeOK /\ PipelineInv
  BY TypeInit, InvInit
<1>2. (TypeOK /\ PipelineInv) /\ [Next]_vars => (TypeOK /\ PipelineInv)'
  BY TypeStep, InvStep
<1> QED
  BY <1>1, <1>2, PTL DEF Spec

-----------------------------------------------------------------------------
(***************************************************************************)
(* What follows from the invariant.                                        *)
(***************************************************************************)

\* No interleaving of workers, sweeps, crashes and redelivered jobs leaves a
\* verdict on an analysis that failed or was refunded.
THEOREM NoVerdictOnRefundHolds ==
  ASSUME EnqueueIsReliable
  PROVE  Spec => []NoVerdictOnRefund
<1>1. TypeOK /\ PipelineInv => NoVerdictOnRefund
  BY AmountsAreNumbers DEF EnqueueIsReliable, PipelineInv, RowInv, NoVerdictOnRefund
<1> QED
  BY <1>1, InvCorrect, PTL

\* A charged analysis is settled in the very step that ends it.
THEOREM EndedIsSettledHolds == Spec => []EndedIsSettled
<1>1. PipelineInv => EndedIsSettled
  BY DEF PipelineInv, RowInv, EndedIsSettled
<1> QED
  BY <1>1, InvCorrect, PTL

\* Refunds go to charged analyses that failed, and to no other.
THEOREM RefundOnlyOfEndedChargeHolds == Spec => []RefundOnlyOfEndedCharge
<1>1. PipelineInv => RefundOnlyOfEndedCharge
  BY DEF PipelineInv, RowInv, RefundOnlyOfEndedCharge
<1> QED
  BY <1>1, InvCorrect, PTL

\* However often a job is handed out, one worker at a time runs its pipeline.
THEOREM OneWorkerPerAnalysisHolds == Spec => []OneWorkerPerAnalysis
<1>1. PipelineInv => OneWorkerPerAnalysis
  BY DEF PipelineInv, WorkerInv
<1> QED
  BY <1>1, InvCorrect, PTL

\* A sweep's stale snapshot never puts the wrong timeout on an analysis.
THEOREM TimeoutReasonIsTrueHolds == Spec => []TimeoutReasonIsTrue
<1>1. PipelineInv => TimeoutReasonIsTrue
  BY DEF PipelineInv, RowInv, TimeoutReasonIsTrue
<1> QED
  BY <1>1, InvCorrect, PTL

-----------------------------------------------------------------------------
(***************************************************************************)
(* An analysis that ended stays as it ended.                               *)
(***************************************************************************)

AsEnded(a) == status'[a] = status[a] /\ verdict'[a] = verdict[a] /\ refunded'[a] = refunded[a]

\* No step of any process changes an analysis that has ended.
LEMMA EndedStep ==
  ASSUME EnqueueIsReliable, TypeOK, PipelineInv, [Next]_vars, NEW b \in Analyses, status[b] \in Terminal
  PROVE  AsEnded(b)
<1> USE DEF AsEnded, PipelineInv, rowVars, creditVars
<1>1. ASSUME NEW a \in Analyses, RequestNext(a)
      PROVE  AsEnded(b)
  <2>1. CASE CleanUpFailedEnqueue(a)
    <3>1. request[a] = "enqueueFailed" /\ status' = [status EXCEPT ![a] = "failed"]
          /\ verdict' = verdict
      BY <2>1 DEF CleanUpFailedEnqueue
    <3>2. a = b => status[b] = "failed"
      BY <3>1 DEF EnqueueIsReliable, RequestInv, Unqueued, RowInv
    <3>3. refunded' = refunded \/ RefundForAnalysis(a)
      BY <2>1 DEF CleanUpFailedEnqueue
    <3>4. charged[b] > 0 \/ charged[b] = 0
      BY AmountsAreNumbers
    <3>5. refunded'[b] = refunded[b]
      BY <3>2, <3>3, <3>4, RefundEffect DEF RowInv
    <3> QED
      BY <3>1, <3>2, <3>5 DEF TypeOK
  <2>2. CASE CommitCharged(a)
    BY <2>2 DEF CommitCharged, InsertRow, ChargeForAnalysis, RequestInv, TypeOK
  <2>3. ASSUME NEW s \in Analyses, CommitFreeRecheck(a, s)
        PROVE  AsEnded(b)
    BY <2>3 DEF CommitFreeRecheck, InsertRow, RequestInv, TypeOK
  <2> QED
    BY <1>1, <2>1, <2>2, <2>3
    DEF RequestNext, CreateRequest, RequestRejected, Enqueue, EnqueueFails, ApiCrash,
        RecheckRequest
<1>2. ASSUME NEW w \in Workers, WorkerNext(w)
      PROVE  AsEnded(b)
  <2>1. worker[w] # "idle" => job[w] \in Analyses
    BY DEF WorkerInv, TypeOK
  <2>2. ASSUME worker[w] # "idle",
               NEW to \in {"failed", "needs_manual_review"},
               NEW reason \in FailureReason \ {"none", "pending_timeout"},
               FailAndRefund(job[w], "processing", to, reason)
        PROVE  AsEnded(b)
    BY <2>1, <2>2, FailAndRefundRow
  <2>3. CASE StageFails(w)
    BY <2>2, <2>3 DEF StageFails, FailureReason
  <2>4. CASE MarkFailedGeneric(w)
    BY <2>2, <2>4 DEF MarkFailedGeneric, FailureReason
  <2>5. CASE WriteVerdict(w)
    BY <2>1, <2>5 DEF WriteVerdict, TryTransition, StillIn, TypeOK
  <2>6. CASE StartProcessing(w)
    BY <2>1, <2>6 DEF StartProcessing, Startable, TypeOK
  <2> QED
    BY <1>2, <2>3, <2>4, <2>5, <2>6
    DEF WorkerNext, TakeJob, StartLost, StageSucceeds, UnexpectedError, WorkerCrash, Redeliver
<1>3. ASSUME NEW s \in Sweepers, SweeperNext(s)
      PROVE  AsEnded(b)
  <2>1. ASSUME NEW c \in candidates[s], ReconcileOne(s, c)
        PROVE  AsEnded(b)
    <3>1. c.id \in Analyses /\ c.seen \in {"pending", "processing"}
      BY DEF TypeOK, Candidate
    <3>2. /\ TimeoutReason(c.seen) \in FailureReason \ {"none"}
          /\ c.seen = "pending" => TimeoutReason(c.seen) # "processing_timeout"
          /\ c.seen = "processing" => TimeoutReason(c.seen) # "pending_timeout"
      BY DEF TimeoutReason, FailureReason
    <3>3. FailAndRefund(c.id, c.seen, "failed", TimeoutReason(c.seen))
      BY <2>1 DEF ReconcileOne
    <3> QED
      BY <3>1, <3>2, <3>3, FailAndRefundRow
  <2> QED
    BY <1>3, <2>1 DEF SweeperNext, FindStuckCandidates, SweepAborts
<1>4. CASE UNCHANGED vars
  BY <1>4 DEF vars
<1>5. CASE Reconfigure
  BY <1>5 DEF Reconfigure
<1>6. ASSUME NEW a \in Analyses, TimesOut(a)
      PROVE  AsEnded(b)
  BY <1>6 DEF TimesOut
<1> QED
  BY <1>1, <1>2, <1>3, <1>4, <1>5, <1>6 DEF Next

\* Status, verdict and refund of an ended analysis are final.
THEOREM EndedStaysEndedHolds ==
  ASSUME EnqueueIsReliable
  PROVE  Spec => EndedStaysEnded
<1>1. TypeOK /\ PipelineInv /\ [Next]_vars =>
        [\A a \in Analyses : status[a] \in Terminal =>
           status'[a] = status[a] /\ verdict'[a] = verdict[a] /\ refunded'[a] = refunded[a]]_vars
  BY EndedStep DEF AsEnded
<1> QED
  BY <1>1, InvCorrect, PTL DEF Spec, EndedStaysEnded
=============================================================================
