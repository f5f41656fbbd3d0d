------------------------------ MODULE PaidWork ------------------------------
(***************************************************************************)
(* What OfferLeaks promises about credits, free of workers, queues and     *)
(* sweeps: work on an analysis is either a courtesy (a free re-check) or   *)
(* is paid for when it is accepted; paid work is owed until it is settled, *)
(* and it is settled once, by a verdict or by a refund.  A balance moves   *)
(* only when work is accepted for pay or refunded.                         *)
(*                                                                         *)
(* AnalysisPipeline implements this specification (PaidWorkSpec there).    *)
(***************************************************************************)
EXTENDS Integers

CONSTANTS
  Analyses,       \* identities of analyses
  Users,          \* account holders
  Owner,          \* the user each analysis belongs to
  InitialGrant,   \* credits granted on sign-up
  Prices          \* prices an analysis may have over the life of the system

VARIABLES
  work,           \* state of the work on each analysis
  balance         \* credits of each user

workVars == <<work, balance>>

WorkStates == {"none", "courtesy", "owed", "delivered", "refunded"}

WorkInit ==
  /\ work = [a \in Analyses |-> "none"]
  /\ balance = [u \in Users |-> InitialGrant]

AcceptForPay(a) ==
  /\ work[a] = "none"
  /\ \E p \in Prices :
       /\ balance[Owner[a]] >= p
       /\ balance' = [balance EXCEPT ![Owner[a]] = @ - p]
  /\ work' = [work EXCEPT ![a] = "owed"]

AcceptAsCourtesy(a) ==
  /\ work[a] = "none"
  /\ work' = [work EXCEPT ![a] = "courtesy"]
  /\ UNCHANGED balance

DeliverVerdict(a) ==
  /\ work[a] = "owed"
  /\ work' = [work EXCEPT ![a] = "delivered"]
  /\ UNCHANGED balance

GiveBack(a) ==
  /\ work[a] = "owed"
  /\ \E p \in Prices : balance' = [balance EXCEPT ![Owner[a]] = @ + p]
  /\ work' = [work EXCEPT ![a] = "refunded"]

Settle(a) == DeliverVerdict(a) \/ GiveBack(a)

WorkNext ==
  \E a \in Analyses : AcceptForPay(a) \/ AcceptAsCourtesy(a) \/ Settle(a)

WorkSafety == WorkInit /\ [][WorkNext]_workVars

\* Paid work does not stay owed for ever.
WorkSpec == WorkSafety /\ \A a \in Analyses : WF_workVars(Settle(a))
=============================================================================
