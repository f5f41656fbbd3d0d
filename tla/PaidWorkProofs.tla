--------------------------- MODULE PaidWorkProofs ---------------------------
(***************************************************************************)
(* AnalysisPipeline implements the safety part of PaidWork, one free       *)
(* re-check of each source runs, and the ledger of the credits sums to the *)
(* balance, for every value of the constants.  The first two use the       *)
(* invariant of AnalysisPipelineProofs, the third only its types.          *)
(***************************************************************************)
EXTENDS AnalysisPipelineProofs, FiniteSetTheorems, WellFoundedInduction

(***************************************************************************)
(* The refinement.                                                         *)
(***************************************************************************)

\* The work on an analysis depends on four columns alone.
LEMMA SameWork ==
  ASSUME NEW b \in Analyses,
         status'[b] = "absent" <=> status[b] = "absent",
         charged'[b] = charged[b], refunded'[b] = refunded[b], verdict'[b] = verdict[b]
  PROVE  WorkOf(b)' = WorkOf(b)
BY DEF WorkOf

\* What the columns of a row say of the work, given how they hang together.
LEMMA WorkIs ==
  ASSUME TypeOK, PipelineInv, NEW a \in Analyses
  PROVE  /\ status[a] = "absent" => WorkOf(a) = "none"
         /\ status[a] # "absent" /\ charged[a] = 0 => WorkOf(a) = "courtesy"
         /\ status[a] # "absent" /\ charged[a] > 0 /\ verdict[a] /\ refunded[a] = 0 => WorkOf(a) = "delivered"
         /\ status[a] # "absent" /\ charged[a] > 0 /\ refunded[a] > 0 /\ ~verdict[a] => WorkOf(a) = "refunded"
         /\ status[a] \in {"pending", "processing"} /\ charged[a] > 0 => WorkOf(a) = "owed"
         /\ charged[a] = 0 \/ charged[a] > 0
<1>1. charged[a] \in Nat /\ refunded[a] \in Nat
  BY AmountsAreNumbers
<1>2. status[a] = "absent" => charged[a] = 0 /\ refunded[a] = 0
  BY DEF PipelineInv, RequestInv
<1>3. /\ status[a] \in {"pending", "processing"} => ~verdict[a]
      /\ refunded[a] > 0 => status[a] \in {"failed", "needs_manual_review"}
  BY DEF PipelineInv, RowInv
<1> QED
  BY <1>1, <1>2, <1>3 DEF WorkOf

\* Where no work and no balance changes, the promise stutters.
LEMMA WorkStutters ==
  ASSUME \A b \in Analyses : WorkOf(b)' = WorkOf(b), balance' = balance
  PROVE  [Work!WorkNext]_(Work!workVars)
BY DEF Work!workVars

\* Where one analysis changes, the mapped function changes at it.
LEMMA WorkMoves ==
  ASSUME NEW a \in Analyses, NEW w, WorkOf(a)' = w,
         \A b \in Analyses \ {a} : WorkOf(b)' = WorkOf(b)
  PROVE  [b \in Analyses |-> WorkOf(b)]'
           = [[b \in Analyses |-> WorkOf(b)] EXCEPT ![a] = w]
OBVIOUS

\* A refund of an open analysis is GiveBack where it was paid for, and nothing
\* where it was not.
LEMMA RefundRefines ==
  ASSUME TypeOK, PipelineInv, PipelineInv', TypeOK', NEW a \in Analyses,
         status[a] \in {"pending", "processing"},
         NEW to \in {"failed", "needs_manual_review"},
         status' = [status EXCEPT ![a] = to],
         RefundForAnalysis(a), verdict' = verdict
  PROVE  [Work!WorkNext]_(Work!workVars)
<1>1. /\ charged' = charged
      /\ \A b \in Analyses : b # a => refunded'[b] = refunded[b]
      /\ charged[a] = 0 => refunded'[a] = refunded[a]
  BY RefundEffect
<1>2. \A b \in Analyses : status'[b] = "absent" <=> status[b] = "absent"
  BY DEF TypeOK
<1>3. \A b \in Analyses \ {a} : WorkOf(b)' = WorkOf(b)
  BY <1>1, <1>2, SameWork
<1>4. charged[a] = 0 \/ charged[a] > 0
  BY WorkIs
<1>5. CASE charged[a] = 0
  <2>1. ~(charged[a] > 0)
    BY <1>5
  <2>2. balance' = balance
    BY <2>1 DEF RefundForAnalysis, RefundDue
  <2>3. WorkOf(a)' = WorkOf(a)
    BY <1>1, <1>2, <1>5, SameWork
  <2> QED
    BY <1>3, <2>2, <2>3, WorkStutters
<1>6. CASE charged[a] > 0
  <2>1. refunded[a] = 0
    <3>1. ~(refunded[a] > 0) /\ refunded[a] \in Nat
      BY AmountsAreNumbers DEF PipelineInv, RowInv
    <3> QED
      BY <3>1
  <2>2. /\ balance' = [balance EXCEPT ![Owner[a]] = @ + price]
        /\ refunded' = [refunded EXCEPT ![a] = price]
    BY <1>6, <2>1 DEF RefundForAnalysis, RefundDue, RefundAmount
  <2>3. price \in Prices /\ price > 0 /\ refunded'[a] = price
    BY <2>2, AmountsAreNumbers DEF TypeOK
  <2>4. WorkOf(a) = "owed"
    BY <1>6, WorkIs
  <2>5. WorkOf(a)' = "refunded"
    <3>1. charged'[a] > 0 /\ refunded'[a] > 0 /\ ~verdict'[a] /\ status'[a] # "absent"
      <4>1. ~verdict[a]
        BY DEF PipelineInv, RowInv
      <4> QED
        BY <1>1, <1>2, <1>6, <2>3, <4>1
    <3>2. charged'[a] # 0
      BY <1>6, <1>1
    <3> QED
      BY <3>1, <3>2 DEF WorkOf
  <2>6. [b \in Analyses |-> WorkOf(b)]' = [[b \in Analyses |-> WorkOf(b)] EXCEPT ![a] = "refunded"]
    BY <1>3, <2>5, WorkMoves
  <2>7. Work!GiveBack(a)
    BY <2>2, <2>3, <2>4, <2>6 DEF Work!GiveBack
  <2> QED
    BY <2>7 DEF Work!WorkNext, Work!Settle
<1> QED
  BY <1>4, <1>5, <1>6

\* A failure claim, won or lost.
LEMMA FailAndRefundRefines ==
  ASSUME TypeOK, PipelineInv, PipelineInv', TypeOK', NEW a \in Analyses,
         NEW from \in {"pending", "processing"},
         NEW to \in {"failed", "needs_manual_review"}, NEW reason,
         FailAndRefund(a, from, to, reason)
  PROVE  [Work!WorkNext]_(Work!workVars)
<1>1. CASE UNCHANGED <<rowVars, creditVars>>
  <2>1. \A b \in Analyses : WorkOf(b)' = WorkOf(b)
    BY <1>1, SameWork DEF rowVars, creditVars
  <2> QED
    BY <1>1, <2>1, WorkStutters DEF creditVars
<1>2. CASE TryTransition(a, from, to, reason) /\ RefundForAnalysis(a) /\ UNCHANGED verdict
  <2>1. status[a] = from /\ status' = [status EXCEPT ![a] = to]
    BY <1>2 DEF TryTransition, StillIn
  <2> QED
    BY <1>2, <2>1, RefundRefines
<1> QED
  BY <1>1, <1>2 DEF FailAndRefund

\* Every step of a request is an acceptance, a refund, or nothing.
LEMMA RequestRefines ==
  ASSUME EnqueueIsReliable, TypeOK, PipelineInv, PipelineInv', TypeOK',
         NEW a \in Analyses, RequestNext(a)
  PROVE  [Work!WorkNext]_(Work!workVars)
<1>1. CASE /\ status' = status /\ verdict' = verdict /\ UNCHANGED creditVars
  <2>1. \A b \in Analyses : WorkOf(b)' = WorkOf(b)
    BY <1>1, SameWork DEF creditVars
  <2> QED
    BY <1>1, <2>1, WorkStutters DEF creditVars
<1>2. CASE CommitCharged(a)
  <2>1. /\ request[a] = "checked" /\ Affordable(Owner[a])
        /\ status' = [status EXCEPT ![a] = "pending"] /\ verdict' = verdict
        /\ balance' = [balance EXCEPT ![Owner[a]] = @ - price]
        /\ charged' = [charged EXCEPT ![a] = price] /\ refunded' = refunded
    BY <1>2 DEF CommitCharged, InsertRow, ChargeForAnalysis
  <2>2. status[a] = "absent"
    BY <2>1 DEF PipelineInv, RequestInv
  <2>3. WorkOf(a) = "none"
    BY <2>2, WorkIs
  <2>4. \A b \in Analyses \ {a} : WorkOf(b)' = WorkOf(b)
    BY <2>1, SameWork DEF TypeOK
  <2>5. WorkOf(a)' = "owed"
    <3>1. status'[a] = "pending" /\ charged'[a] = price
      BY <2>1 DEF TypeOK
    <3>2. charged'[a] > 0
      BY <3>1, AmountsAreNumbers
    <3>3. ~verdict'[a] /\ ~(refunded'[a] > 0)
      BY <3>1 DEF PipelineInv, RowInv
    <3> QED
      BY <3>1, <3>2, <3>3, AmountsAreNumbers DEF WorkOf
  <2>6. [b \in Analyses |-> WorkOf(b)]' = [[b \in Analyses |-> WorkOf(b)] EXCEPT ![a] = "owed"]
    BY <2>4, <2>5, WorkMoves
  <2>7. price \in Prices /\ balance[Owner[a]] >= price
    BY <2>1 DEF TypeOK, Affordable
  <2>8. Work!AcceptForPay(a)
    BY <2>1, <2>3, <2>6, <2>7 DEF Work!AcceptForPay
  <2> QED
    BY <2>8 DEF Work!WorkNext
<1>3. ASSUME NEW s \in Analyses, CommitFreeRecheck(a, s)
      PROVE  [Work!WorkNext]_(Work!workVars)
  <2>1. /\ request[a] = "idle" /\ UNCHANGED creditVars
        /\ status' = [status EXCEPT ![a] = "pending"] /\ verdict' = verdict
    BY <1>3 DEF CommitFreeRecheck, InsertRow
  <2>2. status[a] = "absent" /\ charged[a] = 0
    BY <2>1 DEF PipelineInv, RequestInv
  <2>3. WorkOf(a) = "none"
    BY <2>2, WorkIs
  <2>4. \A b \in Analyses \ {a} : WorkOf(b)' = WorkOf(b)
    BY <2>1, SameWork DEF TypeOK, creditVars
  <2>5. WorkOf(a)' = "courtesy"
    <3>1. status'[a] = "pending" /\ charged'[a] = 0
      BY <2>1, <2>2 DEF TypeOK, creditVars
    <3> QED
      BY <3>1 DEF WorkOf
  <2>6. [b \in Analyses |-> WorkOf(b)]' = [[b \in Analyses |-> WorkOf(b)] EXCEPT ![a] = "courtesy"]
    BY <2>4, <2>5, WorkMoves
  <2>7. Work!AcceptAsCourtesy(a)
    BY <2>1, <2>3, <2>6 DEF Work!AcceptAsCourtesy, creditVars
  <2> QED
    BY <2>7 DEF Work!WorkNext
<1>4. CASE CleanUpFailedEnqueue(a)
  <2>1. /\ request[a] = "enqueueFailed"
        /\ status' = [status EXCEPT ![a] = "failed"] /\ verdict' = verdict
        /\ UNCHANGED creditVars \/ RefundForAnalysis(a)
    BY <1>4 DEF CleanUpFailedEnqueue
  <2>2. status[a] # "absent" /\ ~started[a]
    BY <2>1 DEF EnqueueIsReliable, PipelineInv, RequestInv, Unqueued
  <2>3. status[a] \in {"pending", "failed"}
    BY <2>2 DEF PipelineInv, RowInv, TypeOK, Status, Terminal
  <2>4. \A b \in Analyses : status'[b] = "absent" <=> status[b] = "absent"
    BY <2>1, <2>2 DEF TypeOK
  <2>5. CASE UNCHANGED creditVars
    <3>1. \A b \in Analyses : WorkOf(b)' = WorkOf(b)
      BY <2>1, <2>4, <2>5, SameWork DEF creditVars
    <3> QED
      BY <2>5, <3>1, WorkStutters DEF creditVars
  <2>6. CASE RefundForAnalysis(a) /\ status[a] = "pending"
    BY <2>1, <2>6, RefundRefines
  <2>7. CASE RefundForAnalysis(a) /\ status[a] = "failed"
    <3>1. ~RefundDue(a)
      BY <2>7, AmountsAreNumbers DEF PipelineInv, RowInv, RefundDue
    <3>2. UNCHANGED creditVars
      BY <2>7, <3>1 DEF RefundForAnalysis, creditVars
    <3> QED
      BY <2>5, <3>2
  <2> QED
    BY <2>1, <2>3, <2>5, <2>6, <2>7
<1>5. CASE CreateRequest(a) \/ RequestRejected(a) \/ Enqueue(a) \/ EnqueueFails(a) \/ ApiCrash(a)
  BY <1>1, <1>5 DEF CreateRequest, RequestRejected, Enqueue, EnqueueFails, ApiCrash,
                    rowVars, creditVars
<1>6. ASSUME NEW s \in Analyses, RecheckRequest(a, s)
      PROVE  [Work!WorkNext]_(Work!workVars)
  BY <1>1, <1>6 DEF RecheckRequest, creditVars
<1> QED
  BY <1>2, <1>3, <1>4, <1>5, <1>6 DEF RequestNext

\* Every step of a worker delivers a verdict, gives back, or does nothing.
LEMMA WorkerRefines ==
  ASSUME TypeOK, PipelineInv, PipelineInv', TypeOK', NEW w \in Workers, WorkerNext(w)
  PROVE  [Work!WorkNext]_(Work!workVars)
<1>1. ASSUME \A b \in Analyses : status'[b] = "absent" <=> status[b] = "absent",
             verdict' = verdict, UNCHANGED creditVars
      PROVE  [Work!WorkNext]_(Work!workVars)
  <2>1. \A b \in Analyses : WorkOf(b)' = WorkOf(b)
    BY <1>1, SameWork DEF creditVars
  <2> QED
    BY <1>1, <2>1, WorkStutters DEF creditVars
<1>2. worker[w] # "idle" => job[w] \in Analyses
  BY DEF PipelineInv, WorkerInv, TypeOK
<1>3. CASE StartProcessing(w)
  <2>1. /\ worker[w] = "loaded" /\ status[job[w]] = "pending"
        /\ status' = [status EXCEPT ![job[w]] = "processing"]
        /\ verdict' = verdict /\ UNCHANGED creditVars
    BY <1>3 DEF StartProcessing, Startable
  <2>2. \A b \in Analyses : status'[b] = "absent" <=> status[b] = "absent"
    BY <1>2, <2>1 DEF TypeOK
  <2> QED
    BY <1>1, <2>1, <2>2
<1>4. CASE StageFails(w)
  <2>1. worker[w] # "idle"
    BY <1>4 DEF StageFails
  <2>2. \/ FailAndRefund(job[w], "processing", "failed", "storage_unavailable")
        \/ FailAndRefund(job[w], "processing", "failed", "ocr_failed")
        \/ FailAndRefund(job[w], "processing", "needs_manual_review", "ai_failed")
    BY <1>4 DEF StageFails
  <2> QED
    BY <1>2, <2>1, <2>2, FailAndRefundRefines
<1>5. CASE MarkFailedGeneric(w)
  <2>1. worker[w] # "idle" /\ FailAndRefund(job[w], "processing", "failed", "worker_crash")
    BY <1>5 DEF MarkFailedGeneric
  <2> QED
    BY <1>2, <2>1, FailAndRefundRefines
<1>6. CASE WriteVerdict(w)
  <2>1. worker[w] = "ai" /\ UNCHANGED creditVars
    BY <1>6 DEF WriteVerdict
  <2>2. PICK a \in Analyses : a = job[w]
    BY <1>2, <2>1
  <2>3. CASE UNCHANGED rowVars
    BY <1>1, <2>1, <2>3 DEF rowVars
  <2>4. CASE /\ TryTransition(a, "processing", "complete", "none")
             /\ verdict' = [verdict EXCEPT ![a] = TRUE]
    <3>1. /\ status[a] = "processing" /\ status' = [status EXCEPT ![a] = "complete"]
          /\ status'[a] = "complete" /\ verdict'[a] /\ charged' = charged
          /\ refunded' = refunded /\ balance' = balance
      BY <2>1, <2>4 DEF TryTransition, StillIn, TypeOK, creditVars
    <3>2. \A b \in Analyses \ {a} : WorkOf(b)' = WorkOf(b)
      BY <2>4, <3>1, SameWork DEF TypeOK
    <3>3. charged[a] = 0 \/ charged[a] > 0
      BY <2>1, WorkIs
    <3>4. CASE charged[a] = 0
      <4>1. WorkOf(a) = "courtesy"
        BY <2>1, <3>1, <3>4, WorkIs
      <4>2. WorkOf(a)' = "courtesy"
        BY <3>1, <3>4 DEF WorkOf
      <4> QED
        BY <3>1, <3>2, <4>1, <4>2, WorkStutters
    <3>5. CASE charged[a] > 0
      <4>1. WorkOf(a) = "owed"
        BY <2>1, <3>1, <3>5, WorkIs
      <4>2. refunded'[a] = 0 /\ charged'[a] # 0
        <5>1. ~(refunded[a] > 0) /\ refunded[a] \in Nat
          BY <2>1, <3>1, AmountsAreNumbers DEF PipelineInv, RowInv
        <5> QED
          BY <3>1, <3>5, <5>1
      <4>3. WorkOf(a)' = "delivered"
        BY <3>1, <3>5, <4>2 DEF WorkOf
      <4>4. [b \in Analyses |-> WorkOf(b)]' = [[b \in Analyses |-> WorkOf(b)] EXCEPT ![a] = "delivered"]
        BY <2>1, <3>2, <4>3, WorkMoves
      <4>5. Work!DeliverVerdict(a)
        BY <2>1, <3>1, <4>1, <4>4 DEF Work!DeliverVerdict
      <4> QED
        BY <2>1, <4>5 DEF Work!WorkNext, Work!Settle
    <3> QED
      BY <3>3, <3>4, <3>5
  <2> QED
    BY <1>6, <2>2, <2>3, <2>4 DEF WriteVerdict
<1>7. CASE StartLost(w) \/ StageSucceeds(w) \/ UnexpectedError(w) \/ WorkerCrash(w) \/ Redeliver(w)
  BY <1>1, <1>7 DEF StartLost, StageSucceeds, UnexpectedError, WorkerCrash, Redeliver, rowVars
<1>8. ASSUME NEW a \in Analyses, TakeJob(w, a)
      PROVE  [Work!WorkNext]_(Work!workVars)
  BY <1>1, <1>8 DEF TakeJob, rowVars
<1> QED
  BY <1>3, <1>4, <1>5, <1>6, <1>7, <1>8 DEF WorkerNext

\* Every step of a sweep gives back, or does nothing.
LEMMA SweeperRefines ==
  ASSUME TypeOK, PipelineInv, PipelineInv', TypeOK', NEW s \in Sweepers, SweeperNext(s)
  PROVE  [Work!WorkNext]_(Work!workVars)
<1>1. CASE UNCHANGED <<rowVars, creditVars>>
  <2>1. \A b \in Analyses : WorkOf(b)' = WorkOf(b)
    BY <1>1, SameWork DEF rowVars, creditVars
  <2> QED
    BY <1>1, <2>1, WorkStutters DEF creditVars
<1>2. CASE FindStuckCandidates(s) \/ SweepAborts(s)
  BY <1>1, <1>2 DEF FindStuckCandidates, SweepAborts
<1>3. ASSUME NEW c \in candidates[s], ReconcileOne(s, c)
      PROVE  [Work!WorkNext]_(Work!workVars)
  <2>1. c.id \in Analyses /\ c.seen \in {"pending", "processing"}
    BY DEF TypeOK, Candidate
  <2>2. FailAndRefund(c.id, c.seen, "failed", TimeoutReason(c.seen))
    BY <1>3 DEF ReconcileOne
  <2> QED
    BY <2>1, <2>2, FailAndRefundRefines
<1> QED
  BY <1>2, <1>3 DEF SweeperNext

\* The initial states map to initial states.
LEMMA InitRefines == Init => Work!WorkInit
<1> SUFFICES ASSUME Init PROVE Work!WorkInit
  OBVIOUS
<1>1. \A a \in Analyses : WorkOf(a) = "none"
  BY DEF Init, WorkOf
<1>2. balance = [u \in Users |-> InitialGrant]
  BY DEF Init
<1> QED
  BY <1>1, <1>2 DEF Work!WorkInit

\* Every step maps to a step of the promise, or to a stutter.
LEMMA StepRefines ==
  ASSUME EnqueueIsReliable
  PROVE  (TypeOK /\ PipelineInv) /\ (TypeOK /\ PipelineInv)' /\ [Next]_vars
           => [Work!WorkNext]_(Work!workVars)
<1> SUFFICES ASSUME TypeOK, PipelineInv, TypeOK', PipelineInv', [Next]_vars
             PROVE  [Work!WorkNext]_(Work!workVars)
  OBVIOUS
<1>1. ASSUME status' = status, verdict' = verdict, UNCHANGED creditVars
      PROVE  [Work!WorkNext]_(Work!workVars)
  <2>1. \A b \in Analyses : WorkOf(b)' = WorkOf(b)
    BY <1>1, SameWork DEF creditVars
  <2> QED
    BY <1>1, <2>1, WorkStutters DEF creditVars
<1>2. CASE UNCHANGED vars
  BY <1>1, <1>2 DEF vars, rowVars
<1>3. ASSUME NEW a \in Analyses, TimesOut(a)
      PROVE  [Work!WorkNext]_(Work!workVars)
  BY <1>1, <1>3 DEF TimesOut
<1>4. CASE Reconfigure
  BY <1>1, <1>4 DEF Reconfigure, rowVars
<1> QED
  BY <1>2, <1>3, <1>4, RequestRefines, WorkerRefines, SweeperRefines DEF Next

\* Whatever workers, sweeps, crashes and failed enqueues do, the pipeline keeps
\* the promise: paid work is settled at most once, by a verdict or by a refund,
\* and a balance moves only with it.
THEOREM PipelineKeepsThePromise ==
  ASSUME EnqueueIsReliable
  PROVE  Spec => Work!WorkSafety
<1>1. Spec => [](TypeOK /\ PipelineInv)
  BY InvCorrect
<1> QED
  BY <1>1, InitRefines, StepRefines, PTL DEF Spec, Work!WorkSafety

-----------------------------------------------------------------------------
(***************************************************************************)
(* One free run per source.                                                *)
(***************************************************************************)

IsFreeRun(a) == source[a] # None /\ charged[a] = 0 /\ status[a] # "absent"

\* A free re-check holds the slot of its source while it may still run, or
\* while its request may still give the slot back.
HoldsSlot(a) ==
  /\ IsFreeRun(a)
  /\ started[a] \/ status[a] \in {"pending", "processing"}
       \/ request[a] \in {"committed", "enqueueFailed"}

\* A held slot is claimed, and held once.
SlotInv ==
  /\ \A a \in Analyses : HoldsSlot(a) => freeClaimed[source[a]]
  /\ \A a, b \in Analyses :
       HoldsSlot(a) /\ HoldsSlot(b) /\ source[a] = source[b] => a = b

\* Steps that claim and release nothing, and after which no more analyses hold
\* a slot, keep the invariant.
LEMMA SlotKept ==
  ASSUME SlotInv, \A a \in Analyses : HoldsSlot(a)' => HoldsSlot(a) /\ source'[a] = source[a],
         freeClaimed' = freeClaimed
  PROVE  SlotInv'
BY DEF SlotInv

\* Requests claim only what is free and release only what they hold.
LEMMA SlotRequestStep ==
  ASSUME EnqueueIsReliable, TypeOK, TypeOK', PipelineInv, PipelineInv', SlotInv,
         NEW a \in Analyses, RequestNext(a)
  PROVE  SlotInv'
<1> USE DEF HoldsSlot, IsFreeRun
<1>1. /\ request[a] \in {"idle", "checked"} => status[a] = "absent"
      /\ status[a] = "absent" => charged[a] = 0
      /\ request[a] # "done" => ~started[a]
  BY DEF EnqueueIsReliable, TypeOK, RequestState, PipelineInv, RequestInv, Unqueued
<1>2. CASE CreateRequest(a) \/ Enqueue(a) \/ EnqueueFails(a) \/ ApiCrash(a)
  <2>1. \A b \in Analyses : HoldsSlot(b)' => HoldsSlot(b) /\ source'[b] = source[b]
    BY <1>1, <1>2 DEF CreateRequest, Enqueue, EnqueueFails, ApiCrash, rowVars, creditVars, TypeOK
  <2>2. freeClaimed' = freeClaimed
    BY <1>2 DEF CreateRequest, Enqueue, EnqueueFails, ApiCrash, rowVars
  <2> QED
    BY <2>1, <2>2, SlotKept
<1>3. CASE RequestRejected(a)
  <2>1. \A b \in Analyses : HoldsSlot(b)' => HoldsSlot(b) /\ source'[b] = source[b]
    BY <1>1, <1>3 DEF RequestRejected, creditVars, TypeOK
  <2> QED
    BY <1>3, <2>1, SlotKept DEF RequestRejected
<1>4. ASSUME NEW s \in Analyses, RecheckRequest(a, s)
      PROVE  SlotInv'
  <2>1. \A b \in Analyses : HoldsSlot(b)' => HoldsSlot(b) /\ source'[b] = source[b]
    BY <1>1, <1>4 DEF RecheckRequest, creditVars, TypeOK
  <2> QED
    BY <1>4, <2>1, SlotKept DEF RecheckRequest
<1>5. CASE CommitCharged(a)
  <2>1. charged'[a] # 0
    <3>1. charged' = [charged EXCEPT ![a] = price]
      BY <1>5 DEF CommitCharged, ChargeForAnalysis
    <3> QED
      BY <3>1, AmountsAreNumbers DEF TypeOK
  <2>2. /\ status' = [status EXCEPT ![a] = "pending"] /\ charged' = [charged EXCEPT ![a] = price]
        /\ request' = [request EXCEPT ![a] = "committed"] /\ started' = started
        /\ source' = source /\ freeClaimed' = freeClaimed
    BY <1>5 DEF CommitCharged, InsertRow, ChargeForAnalysis
  <2>3. \A b \in Analyses : HoldsSlot(b)' => HoldsSlot(b) /\ source'[b] = source[b]
    BY <2>1, <2>2 DEF TypeOK
  <2> QED
    BY <2>2, <2>3, SlotKept
<1>6. ASSUME NEW s \in Analyses, CommitFreeRecheck(a, s)
      PROVE  SlotInv'
  <2>1. /\ status[a] = "absent" /\ ~freeClaimed[s]
        /\ status' = [status EXCEPT ![a] = "pending"] /\ charged' = charged
        /\ request' = [request EXCEPT ![a] = "committed"] /\ started' = started
        /\ source' = [source EXCEPT ![a] = s] /\ freeClaimed' = [freeClaimed EXCEPT ![s] = TRUE]
    BY <1>1, <1>6 DEF CommitFreeRecheck, InsertRow, FreeSlotOpen, creditVars
  <2>2. \A b \in Analyses \ {a} :
          HoldsSlot(b)' => HoldsSlot(b) /\ source'[b] = source[b]
    BY <2>1 DEF TypeOK
  <2>3. \A b \in Analyses \ {a} : HoldsSlot(b)' => source'[b] # s
    BY <2>1, <2>2 DEF SlotInv
  <2>4. source'[a] = s
    BY <2>1 DEF TypeOK
  <2>5. \A b \in Analyses : HoldsSlot(b)' => freeClaimed'[source'[b]]
    <3> SUFFICES ASSUME NEW b \in Analyses, HoldsSlot(b)'
                 PROVE  freeClaimed'[source'[b]]
      OBVIOUS
    <3>1. CASE b = a
      BY <2>1, <2>4, <3>1 DEF TypeOK
    <3>2. CASE b # a
      <4>1. HoldsSlot(b) /\ source'[b] = source[b]
        BY <2>2, <3>2
      <4>2. source[b] \in Analyses /\ freeClaimed[source[b]]
        BY <4>1 DEF SlotInv, TypeOK
      <4> QED
        BY <2>1, <4>1, <4>2 DEF TypeOK
    <3> QED
      BY <3>1, <3>2
  <2>6. \A b, c \in Analyses :
          HoldsSlot(b)' /\ HoldsSlot(c)' /\ source'[b] = source'[c] => b = c
    BY <2>2, <2>3, <2>4 DEF SlotInv
  <2> QED
    BY <2>5, <2>6 DEF SlotInv
<1>7. CASE CleanUpFailedEnqueue(a)
  <2>1. /\ request[a] = "enqueueFailed"
        /\ status' = [status EXCEPT ![a] = "failed"] /\ charged' = charged
        /\ request' = [request EXCEPT ![a] = "done"] /\ started' = started
        /\ source' = source
    BY <1>7 DEF CleanUpFailedEnqueue, RefundForAnalysis, creditVars
  <2>2. ~HoldsSlot(a)'
    BY <1>1, <2>1 DEF TypeOK
  <2>3. \A b \in Analyses : HoldsSlot(b)' => HoldsSlot(b) /\ source'[b] = source[b] /\ b # a
    BY <2>1, <2>2 DEF TypeOK
  <2>4. CASE freeClaimed' = freeClaimed
    BY <2>3, <2>4, SlotKept
  <2>5. CASE IsFreeRecheck(a) /\ freeClaimed' = [freeClaimed EXCEPT ![source[a]] = FALSE]
    <3>1. status[a] # "absent"
      BY <2>1 DEF PipelineInv, RequestInv
    <3>2. HoldsSlot(a)
      BY <2>1, <2>5, <3>1 DEF IsFreeRecheck
    <3>3. \A b \in Analyses : HoldsSlot(b)' => source[b] # source[a] /\ freeClaimed[source[b]]
      BY <2>3, <3>2 DEF SlotInv
    <3>4. \A b \in Analyses : HoldsSlot(b)' => freeClaimed'[source'[b]]
      BY <2>3, <2>5, <3>3 DEF TypeOK
    <3>5. \A b, c \in Analyses :
            HoldsSlot(b)' /\ HoldsSlot(c)' /\ source'[b] = source'[c] => b = c
      BY <2>3 DEF SlotInv
    <3> QED
      BY <3>4, <3>5 DEF SlotInv
  <2> QED
    BY <1>7, <2>4, <2>5 DEF CleanUpFailedEnqueue, ReleaseFreeRecheck
<1> QED
  BY <1>2, <1>3, <1>4, <1>5, <1>6, <1>7 DEF RequestNext

\* A failure claim starts nothing.
LEMMA SlotFailure ==
  ASSUME TypeOK, SlotInv, NEW a \in Analyses, NEW from,
         NEW to \in {"failed", "needs_manual_review"}, NEW reason,
         from \in {"pending", "processing"},
         FailAndRefund(a, from, to, reason), request' = request
  PROVE  SlotInv'
<1>1. /\ started' = started /\ charged' = charged /\ source' = source
      /\ freeClaimed' = freeClaimed
      /\ status' = status \/ (status[a] = from /\ status' = [status EXCEPT ![a] = to])
  BY DEF FailAndRefund, TryTransition, StillIn, RefundForAnalysis, rowVars, creditVars
<1>2. \A b \in Analyses : HoldsSlot(b)' => HoldsSlot(b) /\ source'[b] = source[b]
  BY <1>1 DEF HoldsSlot, IsFreeRun, TypeOK
<1> QED
  BY <1>1, <1>2, SlotKept

\* A worker starts only what is pending.
LEMMA SlotWorkerStep ==
  ASSUME TypeOK, PipelineInv, SlotInv, NEW w \in Workers, WorkerNext(w)
  PROVE  SlotInv'
<1>1. ASSUME UNCHANGED rowVars, UNCHANGED creditVars, request' = request
      PROVE  SlotInv'
  <2>1. \A b \in Analyses : HoldsSlot(b)' => HoldsSlot(b) /\ source'[b] = source[b]
    BY <1>1 DEF HoldsSlot, IsFreeRun, rowVars, creditVars
  <2> QED
    BY <1>1, <2>1, SlotKept DEF rowVars
<1>2. worker[w] # "idle" => job[w] \in Analyses
  BY DEF PipelineInv, WorkerInv, TypeOK
<1>3. CASE StartProcessing(w)
  <2>1. PICK a \in Analyses : a = job[w]
    BY <1>2, <1>3 DEF StartProcessing
  <2>2. /\ status[a] = "pending" /\ status' = [status EXCEPT ![a] = "processing"]
        /\ started' = [started EXCEPT ![a] = TRUE] /\ source' = source
        /\ charged' = charged /\ request' = request /\ freeClaimed' = freeClaimed
    BY <1>3, <2>1 DEF StartProcessing, Startable, creditVars
  <2>3. \A b \in Analyses : HoldsSlot(b)' => HoldsSlot(b) /\ source'[b] = source[b]
    BY <2>2 DEF HoldsSlot, IsFreeRun, TypeOK
  <2> QED
    BY <2>2, <2>3, SlotKept
<1>4. CASE StageFails(w)
  <2>1. worker[w] # "idle" /\ request' = request
    BY <1>4 DEF StageFails
  <2>2. \/ FailAndRefund(job[w], "processing", "failed", "storage_unavailable")
        \/ FailAndRefund(job[w], "processing", "failed", "ocr_failed")
        \/ FailAndRefund(job[w], "processing", "needs_manual_review", "ai_failed")
    BY <1>4 DEF StageFails
  <2> QED
    BY <1>2, <2>1, <2>2, SlotFailure
<1>5. CASE MarkFailedGeneric(w)
  <2>1. /\ worker[w] # "idle" /\ request' = request
        /\ FailAndRefund(job[w], "processing", "failed", "worker_crash")
    BY <1>5 DEF MarkFailedGeneric
  <2> QED
    BY <1>2, <2>1, SlotFailure
<1>6. CASE WriteVerdict(w)
  <2>1. PICK a \in Analyses : a = job[w]
    BY <1>2, <1>6 DEF WriteVerdict
  <2>2. /\ started' = started /\ charged' = charged /\ source' = source
        /\ request' = request /\ freeClaimed' = freeClaimed
        /\ status' = status
             \/ (status[a] = "processing" /\ status' = [status EXCEPT ![a] = "complete"])
    BY <1>6, <2>1 DEF WriteVerdict, TryTransition, StillIn, rowVars, creditVars
  <2>3. \A b \in Analyses : HoldsSlot(b)' => HoldsSlot(b) /\ source'[b] = source[b]
    BY <2>2 DEF HoldsSlot, IsFreeRun, TypeOK
  <2> QED
    BY <2>2, <2>3, SlotKept
<1>7. CASE StartLost(w) \/ StageSucceeds(w) \/ UnexpectedError(w) \/ WorkerCrash(w) \/ Redeliver(w)
  BY <1>1, <1>7 DEF StartLost, StageSucceeds, UnexpectedError, WorkerCrash, Redeliver
<1>8. ASSUME NEW a \in Analyses, TakeJob(w, a)
      PROVE  SlotInv'
  BY <1>1, <1>8 DEF TakeJob
<1> QED
  BY <1>3, <1>4, <1>5, <1>6, <1>7, <1>8 DEF WorkerNext

\* No step gives two free re-checks of one source a slot.
LEMMA SlotStep ==
  ASSUME EnqueueIsReliable
  PROVE  (TypeOK /\ PipelineInv) /\ (TypeOK /\ PipelineInv)' /\ SlotInv /\ [Next]_vars => SlotInv'
<1> SUFFICES ASSUME TypeOK, PipelineInv, TypeOK', PipelineInv', SlotInv, [Next]_vars
             PROVE  SlotInv'
  OBVIOUS
<1>1. ASSUME status' = status, started' = started, source' = source,
             freeClaimed' = freeClaimed, charged' = charged, request' = request
      PROVE  SlotInv'
  BY <1>1 DEF SlotInv, HoldsSlot, IsFreeRun
<1>2. CASE UNCHANGED vars
  BY <1>1, <1>2 DEF vars, rowVars, creditVars
<1>3. ASSUME NEW a \in Analyses, TimesOut(a)
      PROVE  SlotInv'
  BY <1>1, <1>3 DEF TimesOut, creditVars
<1>4. CASE Reconfigure
  BY <1>1, <1>4 DEF Reconfigure, rowVars, creditVars
<1>5. ASSUME NEW s \in Sweepers, SweeperNext(s)
      PROVE  SlotInv'
  <2>1. CASE FindStuckCandidates(s) \/ SweepAborts(s)
    BY <1>1, <2>1 DEF FindStuckCandidates, SweepAborts, rowVars, creditVars
  <2>2. ASSUME NEW c \in candidates[s], ReconcileOne(s, c)
        PROVE  SlotInv'
    <3>1. c.id \in Analyses /\ c.seen \in {"pending", "processing"}
      BY DEF TypeOK, Candidate
    <3>2. FailAndRefund(c.id, c.seen, "failed", TimeoutReason(c.seen)) /\ request' = request
      BY <2>2 DEF ReconcileOne
    <3> QED
      BY <3>1, <3>2, SlotFailure
  <2> QED
    BY <1>5, <2>1, <2>2 DEF SweeperNext
<1> QED
  BY <1>2, <1>3, <1>4, <1>5, SlotRequestStep, SlotWorkerStep DEF Next

\* At most one of the free re-checks of a source is ever started.
LEMMA OneSlotOneRun == TypeOK /\ SlotInv /\ PipelineInv => OneFreeRunPerSource
<1> SUFFICES ASSUME TypeOK, SlotInv, PipelineInv, NEW s \in Analyses
             PROVE  Cardinality({a \in Analyses : source[a] = s /\ charged[a] = 0 /\ started[a]}) <= 1
  BY DEF OneFreeRunPerSource
<1> DEFINE Run == {a \in Analyses : source[a] = s /\ charged[a] = 0 /\ started[a]}
<1>1. \A a, b \in Run : a = b
  <2>1. \A a \in Run : HoldsSlot(a)
    BY PipelineAssumption DEF HoldsSlot, IsFreeRun, PipelineInv, RowInv
  <2> QED
    BY <2>1 DEF SlotInv
<1>2. CASE Run = {}
  BY <1>2, FS_EmptySet
<1>3. CASE Run # {}
  <2>1. PICK a : a \in Run
    BY <1>3
  <2>2. Run = {a}
    BY <1>1, <2>1
  <2>3. Cardinality({a}) = 1
    BY FS_Singleton
  <2> QED
    BY <2>2, <2>3
<1> QED
  BY <1>2, <1>3

\* However requests race for the free slot of a source, and whatever slots are
\* given back, the pipeline runs for free at most once per source.
THEOREM OneFreeRunPerSourceHolds ==
  ASSUME EnqueueIsReliable
  PROVE  Spec => []OneFreeRunPerSource
<1>1. Spec => [](TypeOK /\ PipelineInv)
  BY InvCorrect
<1>2. Init => SlotInv
  BY DEF Init, SlotInv, HoldsSlot, IsFreeRun
<1> QED
  BY <1>1, <1>2, SlotStep, OneSlotOneRun, PTL DEF Spec

-----------------------------------------------------------------------------
(***************************************************************************)
(* Sums over finite sets.                                                  *)
(*                                                                         *)
(* SumFunctionOnSet is a recursive function on the subsets of a set.  That *)
(* there is such a function, that there is only one, and that its value    *)
(* does not depend on the order in which it takes elements out, are each   *)
(* shown by induction on the cardinality.  Induction is stated of a set    *)
(* of numbers, and needs no predicate as a parameter.                      *)
(***************************************************************************)

\* Induction: a set that holds 0 and every successor holds every number.
LEMMA SetOfNaturals ==
  ASSUME NEW G, 0 \in G, \A n \in Nat : n \in G => n + 1 \in G
  PROVE Nat \subseteq G
<1> DEFINE T == Nat \ G
           R == OpToRel(<, Nat)
<1>1. SUFFICES ASSUME T # {} PROVE FALSE
  OBVIOUS
<1>2. IsWellFoundedOn(R, Nat)
  BY NatLessThanWellFounded
<1>0. R = {ss \in Nat \X Nat : ss[1] < ss[2]}
  BY DEF OpToRel
<1>4. T \subseteq Nat OBVIOUS
<1> HIDE DEF T, R
<1>3. PICK x \in T : \A y \in T : <<y, x>> \notin R
  BY <1>4, <1>1, <1>2, WFMin
<1>5. x - 1 \in Nat /\ x-1 \notin T
  <2>1. x \in Nat /\ x # 0
    BY <1>3, <1>4 DEF T
  <2>2. <<x-1,x>> \in Nat \X Nat /\ x - 1 < x
    BY <2>1
  <2> QED BY <2>1, <2>2, <1>3, <1>0
<1> QED BY <1>3, <1>5, <1>4 DEF T

\* h is, for each set in D, the sum over that set as its definition computes it.
IsSum(h, f, D) ==
  h = [s \in D |-> IF s = {} THEN 0
                   ELSE f[CHOOSE x \in s : TRUE] + h[s \ {CHOOSE x \in s : TRUE}]]

\* h[T] is the sum of f over T, for every subset T of S.
SumsUp(h, f, S) == IsSum(h, f, SUBSET S)

\* SumFunctionOnSet, unfolded to the function it chooses.
LEMMA SumUnfold ==
  ASSUME NEW f, NEW S
  PROVE SumFunctionOnSet(f, S) = (CHOOSE h : SumsUp(h, f, S))[S]
BY DEF SumFunctionOnSet, FoldFunctionOnSet, MapThenFoldSet, SumsUp, IsSum

\* The subsets of S with at most n elements.
Layer(S, n) == {T \in SUBSET S : Cardinality(T) <= n}

\* The recursion has a solution: extend it from layer to layer.
LEMMA SumExists ==
  ASSUME NEW f, NEW S, IsFiniteSet(S), \A x \in S : f[x] \in Int
  PROVE  \E h \in [SUBSET S -> Int] : SumsUp(h, f, S)
<1> DEFINE G == {n \in Nat : \E h \in [Layer(S, n) -> Int] : IsSum(h, f, Layer(S, n))}
           Rest(t) == t \ {CHOOSE x \in t : TRUE}
<1>1. \A n \in Nat : \A t \in Layer(S, n + 1) :
        t # {} => Rest(t) \in Layer(S, n) /\ (CHOOSE x \in t : TRUE) \in S
  <2> SUFFICES ASSUME NEW n \in Nat, NEW t \in Layer(S, n + 1), t # {}
               PROVE  Rest(t) \in Layer(S, n) /\ (CHOOSE x \in t : TRUE) \in S
    OBVIOUS
  <2>1. (CHOOSE x \in t : TRUE) \in t
    OBVIOUS
  <2>2. t \subseteq S /\ IsFiniteSet(t) /\ Cardinality(t) \in Nat /\ Cardinality(t) <= n + 1
    BY FS_Subset, FS_CardinalityType DEF Layer
  <2>3. Cardinality(Rest(t)) = Cardinality(t) - 1
    BY <2>1, <2>2, FS_RemoveElement
  <2> QED
    BY <2>1, <2>2, <2>3 DEF Layer
<1>2. 0 \in G
  <2>1. Layer(S, 0) = {{}}
    <3>1. \A t \in SUBSET S : IsFiniteSet(t) /\ Cardinality(t) \in Nat
      BY FS_Subset, FS_CardinalityType
    <3>2. \A t \in SUBSET S : Cardinality(t) <= 0 <=> t = {}
      BY <3>1, FS_EmptySet
    <3> QED
      BY <3>2 DEF Layer
  <2> DEFINE h == [t \in Layer(S, 0) |-> 0]
  <2>2. h \in [Layer(S, 0) -> Int]
    OBVIOUS
  <2>3. IsSum(h, f, Layer(S, 0))
    BY <2>1 DEF IsSum
  <2> QED
    BY <2>2, <2>3
<1>3. \A n \in Nat : n \in G => n + 1 \in G
  <2> SUFFICES ASSUME NEW n \in Nat, n \in G
               PROVE  n + 1 \in G
    OBVIOUS
  <2>1. PICK g \in [Layer(S, n) -> Int] : IsSum(g, f, Layer(S, n))
    OBVIOUS
  <2> DEFINE h == [t \in Layer(S, n + 1) |->
                     IF t = {} THEN 0 ELSE f[CHOOSE x \in t : TRUE] + g[Rest(t)]]
  <2>2. h \in [Layer(S, n + 1) -> Int]
    BY <1>1
  <2>3. \A t \in Layer(S, n) : t \in Layer(S, n + 1) /\ h[t] = g[t]
    <3>1. \A t \in Layer(S, n) : t \in Layer(S, n + 1)
      BY FS_Subset, FS_CardinalityType DEF Layer
    <3>2. \A t \in Layer(S, n) :
            g[t] = IF t = {} THEN 0 ELSE f[CHOOSE x \in t : TRUE] + g[Rest(t)]
      BY <2>1 DEF IsSum
    <3> QED
      BY <3>1, <3>2
  <2>4. IsSum(h, f, Layer(S, n + 1))
    <3>1. \A t \in Layer(S, n + 1) : t # {} => h[Rest(t)] = g[Rest(t)]
      BY <2>3, <1>1
    <3>2. \A t \in Layer(S, n + 1) :
            h[t] = IF t = {} THEN 0 ELSE f[CHOOSE x \in t : TRUE] + g[Rest(t)]
      OBVIOUS
    <3> HIDE DEF h
    <3>3. \A t \in Layer(S, n + 1) :
            h[t] = IF t = {} THEN 0 ELSE f[CHOOSE x \in t : TRUE] + h[Rest(t)]
      BY <3>1, <3>2
    <3> QED
      BY <2>2, <3>3 DEF IsSum
  <2> HIDE DEF h
  <2> QED
    BY <2>2, <2>4
<1>4. Cardinality(S) \in Nat /\ Cardinality(S) \in G
  <2> HIDE DEF G
  <2> QED
    BY <1>2, <1>3, SetOfNaturals, FS_CardinalityType
<1>5. Layer(S, Cardinality(S)) = SUBSET S
  BY FS_Subset DEF Layer
<1> QED
  BY <1>4, <1>5 DEF SumsUp


\* The recursion has one solution.
LEMMA SumUnique ==
  ASSUME NEW f, NEW S, IsFiniteSet(S), NEW h, SumsUp(h, f, S),
         NEW T, T \subseteq S, NEW k, SumsUp(k, f, T)
  PROVE  k[T] = h[T]
<1> DEFINE G == {n \in Nat : \A t \in SUBSET T : Cardinality(t) = n => k[t] = h[t]}
           Rest(t) == t \ {CHOOSE x \in t : TRUE}
<1>1. \A t \in SUBSET T : IsFiniteSet(t) /\ Cardinality(t) \in Nat
  BY FS_Subset, FS_CardinalityType
<1>2. /\ \A t \in SUBSET T :
           k[t] = IF t = {} THEN 0 ELSE f[CHOOSE x \in t : TRUE] + k[Rest(t)]
      /\ \A t \in SUBSET T :
           h[t] = IF t = {} THEN 0 ELSE f[CHOOSE x \in t : TRUE] + h[Rest(t)]
  BY DEF SumsUp, IsSum
<1>3. 0 \in G
  BY <1>1, <1>2, FS_EmptySet
<1>4. \A n \in Nat : n \in G => n + 1 \in G
  <2> SUFFICES ASSUME NEW n \in Nat, n \in G, NEW t \in SUBSET T, Cardinality(t) = n + 1
               PROVE  k[t] = h[t]
    OBVIOUS
  <2>0. \A r \in SUBSET T : Cardinality(r) = n => k[r] = h[r]
    OBVIOUS
  <2> HIDE DEF G
  <2>1. t # {}
    <3>1. Cardinality(t) # 0
      OBVIOUS
    <3> QED
      BY <3>1, FS_EmptySet
  <2>2. (CHOOSE x \in t : TRUE) \in t
    BY <2>1
  <2>3. Rest(t) \in SUBSET T /\ Cardinality(Rest(t)) = n
    <3>1. Rest(t) \in SUBSET T
      OBVIOUS
    <3>2. Cardinality(Rest(t)) = Cardinality(t) - 1
      BY <1>1, <2>2, FS_RemoveElement
    <3> HIDE DEF Rest
    <3> QED
      BY <3>1, <3>2
  <2> HIDE DEF Rest
  <2> QED
    BY <1>2, <2>0, <2>1, <2>3
<1>5. Nat \subseteq G
  <2> HIDE DEF G
  <2> QED
    BY <1>3, <1>4, SetOfNaturals
<1> QED
  BY <1>1, <1>5

\* Whatever solves the recursion is the sum.
LEMMA SumIs ==
  ASSUME NEW f, NEW S, IsFiniteSet(S), \A x \in S : f[x] \in Int,
         NEW h, SumsUp(h, f, S), NEW T, T \subseteq S
  PROVE  SumFunctionOnSet(f, T) = h[T]
<1> DEFINE k == CHOOSE g : SumsUp(g, f, T)
<1>1. IsFiniteSet(T)
  BY FS_Subset
<1>2. \E g : SumsUp(g, f, T)
  BY <1>1, SumExists
<1>3. SumsUp(k, f, T)
  BY <1>2
<1>4. SumFunctionOnSet(f, T) = k[T]
  BY SumUnfold
<1> HIDE DEF k
<1>5. ASSUME NEW g, SumsUp(g, f, T)
      PROVE  g[T] = h[T]
  BY <1>5, SumUnique
<1> QED
  BY <1>3, <1>4, <1>5

\* The sum over nothing.
LEMMA SumEmpty == ASSUME NEW f PROVE SumFunctionOnSet(f, {}) = 0
<1>1. PICK h : SumsUp(h, f, {})
  <2>1. \A x \in {} : f[x] \in Int
    OBVIOUS
  <2> QED
    BY <2>1, SumExists, FS_EmptySet
<1>2. SumFunctionOnSet(f, {}) = h[{}]
  <2>1. {} \subseteq {} /\ \A x \in {} : f[x] \in Int
    OBVIOUS
  <2> QED
    BY <1>1, <2>1, SumIs, FS_EmptySet
<1>3. h[{}] = 0
  BY <1>1 DEF SumsUp, IsSum
<1> QED
  BY <1>2, <1>3

\* A sum of integers is an integer.
LEMMA SumType ==
  ASSUME NEW f, NEW S, IsFiniteSet(S), \A x \in S : f[x] \in Int
  PROVE  SumFunctionOnSet(f, S) \in Int
<1>1. PICK h \in [SUBSET S -> Int] : SumsUp(h, f, S)
  BY SumExists
<1>2. S \subseteq S /\ SumFunctionOnSet(f, S) = h[S]
  BY <1>1, SumIs
<1> QED
  BY <1>2

\* The equation of the definition.
LEMMA SumOfChosen ==
  ASSUME NEW f, NEW S, IsFiniteSet(S), \A x \in S : f[x] \in Int, S # {}
  PROVE  LET c == CHOOSE x \in S : TRUE
         IN  c \in S /\ SumFunctionOnSet(f, S) = f[c] + SumFunctionOnSet(f, S \ {c})
<1> DEFINE c == CHOOSE x \in S : TRUE
<1>1. PICK h : SumsUp(h, f, S)
  BY SumExists
<1>2. c \in S
  OBVIOUS
<1>3. h[S] = f[c] + h[S \ {c}]
  BY <1>1 DEF SumsUp, IsSum
<1>4. SumFunctionOnSet(f, S) = h[S] /\ SumFunctionOnSet(f, S \ {c}) = h[S \ {c}]
  <2>1. S \ {c} \in SUBSET S /\ S \in SUBSET S
    OBVIOUS
  <2> QED
    BY <1>1, <2>1, SumIs
<1> QED
  BY <1>2, <1>3, <1>4

\* Any element may be taken out first.
LEMMA SumTakeOut ==
  ASSUME NEW f, NEW S, IsFiniteSet(S), \A x \in S : f[x] \in Int, NEW y \in S
  PROVE  SumFunctionOnSet(f, S) = f[y] + SumFunctionOnSet(f, S \ {y})
<1> DEFINE Sum(t) == SumFunctionOnSet(f, t)
           P(t) == \A x \in t : Sum(t) = f[x] + Sum(t \ {x})
           G == {n \in Nat : \A t \in SUBSET S : Cardinality(t) = n => P(t)}
<1>1. \A t \in SUBSET S : IsFiniteSet(t) /\ Cardinality(t) \in Nat
  BY FS_Subset, FS_CardinalityType
<1>2. \A t \in SUBSET S : Sum(t) \in Int
  BY <1>1, SumType
<1>3. 0 \in G
  BY <1>1, FS_EmptySet
<1>4. \A n \in Nat : n \in G => n + 1 \in G
  <2> SUFFICES ASSUME NEW n \in Nat, n \in G, NEW t \in SUBSET S, Cardinality(t) = n + 1,
                      NEW x \in t
               PROVE  Sum(t) = f[x] + Sum(t \ {x})
    OBVIOUS
  <2> DEFINE c == CHOOSE z \in t : TRUE
  <2>1. c \in t /\ Sum(t) = f[c] + Sum(t \ {c})
    BY <1>1, SumOfChosen
  <2> HIDE DEF c
  <2>2. CASE x = c
    BY <2>1, <2>2
  <2>3. CASE x # c
    <3>1. /\ t \ {c} \in SUBSET S /\ Cardinality(t \ {c}) = n /\ x \in t \ {c}
          /\ t \ {x} \in SUBSET S /\ Cardinality(t \ {x}) = n /\ c \in t \ {x}
      BY <1>1, <2>1, <2>3, FS_RemoveElement
    <3>2. (t \ {c}) \ {x} = (t \ {x}) \ {c} /\ (t \ {c}) \ {x} \in SUBSET S
      OBVIOUS
    <3>3. Sum(t \ {c}) = f[x] + Sum((t \ {c}) \ {x})
      BY <3>1
    <3>4. Sum(t \ {x}) = f[c] + Sum((t \ {c}) \ {x})
      BY <3>1, <3>2
    <3>5. f[x] \in Int /\ f[c] \in Int /\ Sum((t \ {c}) \ {x}) \in Int
      BY <1>2, <2>1, <3>2
    <3> HIDE DEF Sum
    <3> QED
      BY <2>1, <3>3, <3>4, <3>5
  <2> QED
    BY <2>2, <2>3
<1>5. Nat \subseteq G
  <2> HIDE DEF G
  <2> QED
    BY <1>3, <1>4, SetOfNaturals
<1> QED
  BY <1>1, <1>5

\* A sum depends on the values at the elements of its set alone.
LEMMA SumSame ==
  ASSUME NEW f, NEW g, NEW S, IsFiniteSet(S), \A x \in S : f[x] \in Int /\ f[x] = g[x]
  PROVE  SumFunctionOnSet(f, S) = SumFunctionOnSet(g, S)
<1>1. PICK h : SumsUp(h, f, S)
  BY SumExists
<1>2. \A t \in SUBSET S : t # {} => f[CHOOSE x \in t : TRUE] = g[CHOOSE x \in t : TRUE]
  <2>1. \A t : t # {} => (CHOOSE x \in t : TRUE) \in t
    OBVIOUS
  <2> QED
    BY <2>1
<1>3. SumsUp(h, g, S)
  BY <1>1, <1>2 DEF SumsUp, IsSum
<1> QED
  BY <1>1, <1>3, SumIs

-----------------------------------------------------------------------------
(***************************************************************************)
(* The ledger of the credits.                                              *)
(*                                                                         *)
(* LedgerMatchesBalance is kept because an analysis is charged once, when  *)
(* its row is inserted, and refunded once, after that.  LedgerInv adds     *)
(* that only finitely many analyses were charged yet, that an analysis     *)
(* without a row has no ledger entries, and that a busy worker has a job.  *)
(* It does not need EnqueueIsReliable: a refund that should not have been  *)
(* given is in the ledger like any other.                                  *)
(***************************************************************************)
LedgerInv ==
  /\ IsFiniteSet(Booked)
  /\ \A a \in Analyses : request[a] \in {"idle", "checked"} => a \notin Booked
  /\ \A w \in Workers : worker[w] # "idle" => job[w] # None
  /\ LedgerMatchesBalance

\* Net amounts are integers.
LEMMA NetType ==
  ASSUME TypeOK
  PROVE  \A a \in Analyses : Net[a] \in Int /\ Net[a] = refunded[a] - charged[a]
BY AmountsAreNumbers DEF Net

\* One ledger entry is written for an analysis, and its amount moved from or to
\* the balance of its owner.
LEMMA BookOne ==
  ASSUME TypeOK, TypeOK', LedgerInv, NEW a \in Analyses, NEW d \in Int,
         balance' = [balance EXCEPT ![Owner[a]] = @ + d],
         Net'[a] = Net[a] + d, a \in Booked',
         \A b \in Analyses \ {a} : charged'[b] = charged[b] /\ refunded'[b] = refunded[b]
  PROVE  IsFiniteSet(Booked)' /\ LedgerMatchesBalance'
<1> DEFINE Of(u) == {b \in Booked : Owner[b] = u}
           Sum(f, S) == SumFunctionOnSet(f, S)
<1>1. Booked' = Booked \union {a}
  BY DEF Booked
<1>2. IsFiniteSet(Booked) /\ IsFiniteSet(Booked')
  BY <1>1, FS_AddElement DEF LedgerInv
<1>3. /\ \A b \in Analyses : Net[b] \in Int /\ Net'[b] \in Int
      /\ \A b \in Analyses \ {a} : Net'[b] = Net[b]
      /\ a \notin Booked => Net[a] = 0
  <2>1. \A b \in Analyses : /\ Net[b] \in Int /\ Net[b] = refunded[b] - charged[b]
                            /\ Net'[b] \in Int /\ Net'[b] = refunded'[b] - charged'[b]
    <3>1. \A b \in Analyses : /\ charged[b] \in Nat /\ refunded[b] \in Nat
                              /\ charged'[b] \in Nat /\ refunded'[b] \in Nat
      <4>1. \A p \in Prices \union {0} : p \in Nat
        BY PipelineAssumption
      <4> QED
        BY <4>1 DEF TypeOK
    <3> QED
      BY <3>1 DEF Net
  <2>2. a \notin Booked => charged[a] = 0 /\ refunded[a] = 0
    BY AmountsAreNumbers DEF Booked
  <2> QED
    BY <2>1, <2>2
<1>4. \A u \in Users : /\ Of(u) \subseteq Analyses /\ IsFiniteSet(Of(u)) /\ IsFiniteSet(Of(u)')
                       /\ Of(u)' \subseteq Analyses
  BY <1>2, FS_Subset DEF Booked
<1>5. \A u \in Users : balance[u] = InitialGrant + Sum(Net, Of(u)) /\ balance[u] \in Int
  BY DEF LedgerInv, LedgerMatchesBalance, TypeOK
<1>6. ASSUME NEW u \in Users
      PROVE  balance'[u] = InitialGrant + Sum(Net', Of(u)')
  <2>1. CASE u # Owner[a]
    <3>1. Of(u)' = Of(u) /\ a \notin Of(u)
      BY <1>1, <2>1
    <3>2. Sum(Net, Of(u)) = Sum(Net', Of(u))
      <4>1. IsFiniteSet(Of(u)) /\ \A x \in Of(u) : Net[x] \in Int /\ Net[x] = Net'[x]
        BY <1>3, <1>4, <3>1
      <4> HIDE DEF Of
      <4> QED
        BY <4>1, SumSame
    <3>3. balance'[u] = balance[u]
      BY <2>1 DEF TypeOK
    <3> HIDE DEF Of, Sum
    <3> QED
      BY <1>5, <3>1, <3>2, <3>3
  <2>2. CASE u = Owner[a]
    <3> DEFINE Rest == Of(u) \ {a}
    <3>1. Of(u)' = Of(u) \union {a} /\ Of(u)' \ {a} = Rest /\ a \in Of(u)'
      BY <1>1, <2>2
    <3>2. IsFiniteSet(Rest) /\ Rest \subseteq Analyses /\ a \notin Rest
      BY <1>4, FS_Subset
    <3>3. Sum(Net, Rest) \in Int /\ Sum(Net', Rest) = Sum(Net, Rest)
      BY <1>3, <3>2, SumSame, SumType
    <3>4. Sum(Net', Of(u)') = Net'[a] + Sum(Net', Rest)
      <4>1. Sum(Net', Of(u)') = Net'[a] + Sum(Net', Of(u)' \ {a})
        BY <1>3, <1>4, <3>1, SumTakeOut
      <4> QED
        BY <3>1, <4>1
    <3>5. Sum(Net, Of(u)) = Net[a] + Sum(Net, Rest)
      <4>1. CASE a \in Of(u)
        <5>1. IsFiniteSet(Of(u)) /\ \A x \in Of(u) : Net[x] \in Int
          BY <1>3, <1>4
        <5> HIDE DEF Of
        <5> QED
          BY <4>1, <5>1, SumTakeOut
      <4>2. CASE a \notin Of(u)
        <5>1. Rest = Of(u) /\ Net[a] = 0
          BY <1>3, <2>2, <4>2
        <5> HIDE DEF Rest
        <5> QED
          BY <3>3, <5>1
      <4> QED
        BY <4>1, <4>2
    <3>6. balance'[u] = balance[u] + d
      BY <2>2 DEF TypeOK
    <3>7. Net[a] \in Int /\ InitialGrant \in Int /\ Net'[a] = Net[a] + d
      BY <1>3, PipelineAssumption
    <3> HIDE DEF Of, Sum, Rest
    <3> QED
      BY <1>5, <3>3, <3>4, <3>5, <3>6, <3>7
  <2> QED
    BY <2>1, <2>2
<1> QED
  BY <1>2, <1>6 DEF LedgerMatchesBalance

\* Steps that leave the credits alone.
LEMMA LedgerKept ==
  ASSUME LedgerInv, UNCHANGED creditVars,
         \A a \in Analyses : request'[a] \in {"idle", "checked"}
                               => request[a] \in {"idle", "checked"},
         \A w \in Workers : worker'[w] # "idle" => job'[w] # None
  PROVE  LedgerInv'
BY DEF LedgerInv, creditVars, Booked, Net, LedgerMatchesBalance

\* A refund, due or not.
LEMMA RefundBooks ==
  ASSUME TypeOK, TypeOK', LedgerInv, NEW a \in Analyses, RefundForAnalysis(a),
         \A b \in Analyses : request'[b] \in {"idle", "checked"}
                               => request[b] \in {"idle", "checked"},
         \A w \in Workers : worker'[w] # "idle" => job'[w] # None
  PROVE  LedgerInv'
<1>1. CASE ~RefundDue(a)
  <2>1. UNCHANGED creditVars
    BY <1>1 DEF RefundForAnalysis, creditVars
  <2> QED
    BY <2>1, LedgerKept
<1>2. CASE RefundDue(a)
  <2>1. /\ charged' = charged /\ refunded' = [refunded EXCEPT ![a] = price]
        /\ balance' = [balance EXCEPT ![Owner[a]] = @ + price]
    BY <1>2 DEF RefundForAnalysis, RefundAmount
  <2>2. price \in Nat /\ charged[a] > 0 /\ refunded[a] = 0 /\ charged[a] \in Nat
    BY <1>2, AmountsAreNumbers DEF RefundDue
  <2>3. refunded'[a] = price /\ \A b \in Analyses \ {a} : refunded'[b] = refunded[b]
    BY <2>1 DEF TypeOK
  <2>4. Net'[a] = Net[a] + price /\ a \in Booked' /\ a \in Booked
    BY <2>1, <2>2, <2>3 DEF Net, Booked
  <2>5. IsFiniteSet(Booked)' /\ LedgerMatchesBalance'
    <3>1. price \in Int /\ \A b \in Analyses \ {a} : charged'[b] = charged[b]
      BY <2>1, <2>2
    <3> QED
      BY <2>1, <2>3, <2>4, <3>1, BookOne
  <2>6. Booked' = Booked
    BY <2>1, <2>3, <2>4 DEF Booked
  <2> QED
    BY <2>5, <2>6 DEF LedgerInv
<1> QED
  BY <1>1, <1>2

\* A failure claim books its refund or nothing.
LEMMA FailureBooks ==
  ASSUME TypeOK, TypeOK', LedgerInv, NEW a \in Analyses, NEW from, NEW to, NEW reason,
         FailAndRefund(a, from, to, reason), request' = request,
         \A w \in Workers : worker'[w] # "idle" => job'[w] # None
  PROVE  LedgerInv'
BY RefundBooks, LedgerKept DEF FailAndRefund

\* Requests: the charge is booked with the insert of the row.
LEMMA LedgerRequestStep ==
  ASSUME TypeOK, TypeOK', LedgerInv, NEW a \in Analyses, RequestNext(a)
  PROVE  LedgerInv'
<1>1. worker' = worker /\ job' = job
  BY DEF RequestNext, CreateRequest, CommitCharged, RequestRejected, Enqueue, EnqueueFails,
         CleanUpFailedEnqueue, ApiCrash, RecheckRequest, CommitFreeRecheck, workerVars
<1>2. \A b \in Analyses : request'[b] \in {"idle", "checked"} => request[b] \in {"idle", "checked"}
  BY DEF RequestNext, CreateRequest, CommitCharged, RequestRejected, Enqueue, EnqueueFails,
         CleanUpFailedEnqueue, ApiCrash, RecheckRequest, CommitFreeRecheck, TypeOK
<1>3. \A w \in Workers : worker'[w] # "idle" => job'[w] # None
  BY <1>1 DEF LedgerInv
<1>4. CASE CommitCharged(a)
  <2>1. /\ request[a] = "checked" /\ request' = [request EXCEPT ![a] = "committed"]
        /\ balance' = [balance EXCEPT ![Owner[a]] = @ - price]
        /\ charged' = [charged EXCEPT ![a] = price] /\ refunded' = refunded
    BY <1>4 DEF CommitCharged, ChargeForAnalysis
  <2>2. price \in Nat /\ price > 0 /\ charged[a] = 0 /\ refunded[a] = 0 /\ balance[Owner[a]] \in Nat
    <3>1. a \notin Booked /\ charged[a] \in Nat /\ refunded[a] \in Nat
      BY <2>1, AmountsAreNumbers DEF LedgerInv
    <3> QED
      BY <3>1, AmountsAreNumbers, PipelineAssumption DEF Booked, TypeOK
  <2>3. charged'[a] = price /\ \A b \in Analyses \ {a} : charged'[b] = charged[b]
    BY <2>1 DEF TypeOK
  <2>4. balance' = [balance EXCEPT ![Owner[a]] = @ + (0 - price)]
    <3>1. balance[Owner[a]] - price = balance[Owner[a]] + (0 - price)
      BY <2>2
    <3> QED
      BY <2>1, <3>1
  <2>5. Net'[a] = Net[a] + (0 - price) /\ a \in Booked' /\ 0 - price \in Int
    BY <2>1, <2>2, <2>3 DEF Net, Booked
  <2>6. IsFiniteSet(Booked)' /\ LedgerMatchesBalance'
    BY <2>1, <2>3, <2>4, <2>5, BookOne
  <2>7. \A b \in Analyses : request'[b] \in {"idle", "checked"} => b \notin Booked'
    BY <2>1, <2>3 DEF LedgerInv, Booked, TypeOK
  <2> QED
    BY <1>3, <2>6, <2>7 DEF LedgerInv
<1>5. CASE CleanUpFailedEnqueue(a)
  <2>1. UNCHANGED creditVars \/ RefundForAnalysis(a)
    BY <1>5 DEF CleanUpFailedEnqueue
  <2> QED
    BY <1>2, <1>3, <2>1, RefundBooks, LedgerKept
<1>6. CASE UNCHANGED creditVars
  BY <1>2, <1>3, <1>6, LedgerKept
<1> QED
  BY <1>4, <1>5, <1>6 DEF RequestNext, CreateRequest, RequestRejected, Enqueue, EnqueueFails,
         ApiCrash, RecheckRequest, CommitFreeRecheck

\* Workers: only their failures book anything.
LEMMA LedgerWorkerStep ==
  ASSUME TypeOK, TypeOK', LedgerInv, NEW w \in Workers, WorkerNext(w)
  PROVE  LedgerInv'
<1>1. request' = request
  BY DEF WorkerNext, TakeJob, StartProcessing, StartLost, StageSucceeds, StageFails, WriteVerdict,
         UnexpectedError, MarkFailedGeneric, WorkerCrash, Redeliver
<1>2. \A v \in Workers : worker'[v] # "idle" => job'[v] # None
  <2>1. CASE \/ StartProcessing(w) \/ StageSucceeds(w) \/ UnexpectedError(w)
    <3>1. /\ job' = job /\ worker[w] # "idle"
          /\ \A v \in Workers \ {w} : worker'[v] = worker[v]
      BY <2>1 DEF StartProcessing, StageSucceeds, UnexpectedError, WorkerGoes, TypeOK, Stages
    <3> QED
      BY <3>1 DEF LedgerInv
  <2>2. CASE \/ StartLost(w) \/ StageFails(w) \/ WriteVerdict(w) \/ MarkFailedGeneric(w)
             \/ WorkerCrash(w)
    <3>1. WorkerDone(w)
      BY <2>2 DEF StartLost, StageFails, WriteVerdict, MarkFailedGeneric, WorkerCrash
    <3> QED
      BY <3>1 DEF WorkerDone, WorkerGoes, LedgerInv, TypeOK
  <2>3. CASE Redeliver(w)
    BY <2>3 DEF Redeliver, workerVars, LedgerInv
  <2>4. ASSUME NEW a \in Analyses, TakeJob(w, a)
        PROVE  \A v \in Workers : worker'[v] # "idle" => job'[v] # None
    BY <2>4, PipelineAssumption DEF TakeJob, WorkerGoes, workerVars, LedgerInv, TypeOK
  <2> QED
    BY <2>1, <2>2, <2>3, <2>4 DEF WorkerNext
<1>3. CASE UNCHANGED creditVars
  BY <1>1, <1>2, <1>3, LedgerKept
<1>4. CASE StageFails(w) \/ MarkFailedGeneric(w)
  <2>1. job[w] \in Analyses
    BY <1>4 DEF StageFails, MarkFailedGeneric, LedgerInv, TypeOK
  <2>2. \E from, to, reason : FailAndRefund(job[w], from, to, reason)
    BY <1>4 DEF StageFails, MarkFailedGeneric
  <2> QED
    BY <1>1, <1>2, <2>1, <2>2, FailureBooks
<1> QED
  BY <1>3, <1>4 DEF WorkerNext, TakeJob, StartProcessing, StartLost, StageSucceeds, WriteVerdict,
         UnexpectedError, WorkerCrash, Redeliver

\* Every step keeps the ledger.
LEMMA LedgerStep == TypeOK /\ TypeOK' /\ LedgerInv /\ [Next]_vars => LedgerInv'
<1> SUFFICES ASSUME TypeOK, TypeOK', LedgerInv, [Next]_vars
             PROVE  LedgerInv'
  OBVIOUS
<1>1. ASSUME UNCHANGED <<creditVars, request, workerVars>>
      PROVE  LedgerInv'
  BY <1>1, LedgerKept DEF LedgerInv, workerVars
<1>2. CASE UNCHANGED vars
  BY <1>1, <1>2 DEF vars
<1>3. ASSUME NEW a \in Analyses, TimesOut(a)
      PROVE  LedgerInv'
  BY <1>1, <1>3 DEF TimesOut
<1>4. CASE Reconfigure
  BY <1>1, <1>4 DEF Reconfigure
<1>5. ASSUME NEW s \in Sweepers, SweeperNext(s)
      PROVE  LedgerInv'
  <2>1. CASE FindStuckCandidates(s) \/ SweepAborts(s)
    BY <1>1, <2>1 DEF FindStuckCandidates, SweepAborts
  <2>2. ASSUME NEW c \in candidates[s], ReconcileOne(s, c)
        PROVE  LedgerInv'
    <3>1. c.id \in Analyses
      BY DEF TypeOK, Candidate
    <3>2. /\ FailAndRefund(c.id, c.seen, "failed", TimeoutReason(c.seen))
          /\ request' = request /\ UNCHANGED workerVars
      BY <2>2 DEF ReconcileOne
    <3>3. \A w \in Workers : worker'[w] # "idle" => job'[w] # None
      BY <3>2 DEF workerVars, LedgerInv
    <3> QED
      BY <3>1, <3>2, <3>3, FailureBooks
  <2> QED
    BY <1>5, <2>1, <2>2 DEF SweeperNext
<1> QED
  BY <1>2, <1>3, <1>4, <1>5, LedgerRequestStep, LedgerWorkerStep DEF Next

\* Nothing is booked at first.
LEMMA LedgerInit == Init => LedgerInv
<1> SUFFICES ASSUME Init
             PROVE  LedgerInv
  OBVIOUS
<1>1. Booked = {}
  BY DEF Init, Booked
<1>2. \A u \in Users : {a \in Booked : Owner[a] = u} = {}
  BY <1>1
<1>3. \A u \in Users : SumFunctionOnSet(Net, {a \in Booked : Owner[a] = u}) = 0
  BY <1>2, SumEmpty
<1>4. LedgerMatchesBalance
  BY <1>3, PipelineAssumption DEF Init, LedgerMatchesBalance
<1> QED
  BY <1>1, <1>4, FS_EmptySet DEF Init, LedgerInv

\* The ledger of every user sums to the balance, for any number of analyses,
\* whatever prices, races, crashes and lost answers of the queue.
THEOREM LedgerMatchesBalanceHolds == Spec => []LedgerMatchesBalance
<1>1. LedgerInv => LedgerMatchesBalance
  BY DEF LedgerInv
<1> QED
  BY <1>1, TypeCorrect, LedgerInit, LedgerStep, PTL DEF Spec
=============================================================================
