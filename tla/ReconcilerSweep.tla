--------------------------- MODULE ReconcilerSweep ---------------------------
(***************************************************************************)
(* One reconciliation process of OfferLeaks (reconciliation.py) and the    *)
(* database session of its sweeps: the order of a batch, its limit, and    *)
(* what an exception does to the rest of it.  AnalysisPipeline models what *)
(* a claim changes and the race for it.                                    *)
(***************************************************************************)
EXTENDS Integers, Sequences, FiniteSets, Functions

CONSTANTS
  Rows,         \* analyses, numbered in the order of created_at
  BatchSize,    \* reconciliation_batch_size
  MaxErrors     \* bound on passing errors, such as a lost connection

ASSUME SweepAssumption ==
  /\ Rows \subseteq Nat
  /\ BatchSize \in Nat \ {0}
  /\ MaxErrors \in Nat

VARIABLES
  row,      \* "fresh": within its timeout, "stuck": past it, or "ended"
  bad,      \* rows whose reconciliation raises every time
  batch,    \* candidates of the sweep that are still to come
  expired,  \* a rollback has expired the objects of the session
  errors    \* passing errors so far

vars == <<row, bad, batch, expired, errors>>

TypeOK ==
  /\ row \in [Rows -> {"fresh", "stuck", "ended"}]
  /\ bad \subseteq Rows
  /\ batch \in Seq(Rows) /\ Len(batch) <= BatchSize
  /\ expired \in BOOLEAN
  /\ errors \in 0..MaxErrors

Init ==
  /\ row = [r \in Rows |-> "fresh"]
  /\ bad \in SUBSET Rows
  /\ batch = <<>>
  /\ expired = FALSE
  /\ errors = 0

-----------------------------------------------------------------------------
TimesOut(r) ==
  /\ row[r] = "fresh"
  /\ row' = [row EXCEPT ![r] = "stuck"]
  /\ UNCHANGED <<bad, batch, expired, errors>>

\* A worker that was slow ends the analysis after all.
WorkerEnds(r) ==
  /\ row[r] # "ended"
  /\ row' = [row EXCEPT ![r] = "ended"]
  /\ UNCHANGED <<bad, batch, expired, errors>>

-----------------------------------------------------------------------------
\* Mutation: the cutoff is forgotten.
Unfinished == {r \in Rows : row[r] # "ended"}

Stuck == {r \in Rows : row[r] = "stuck"}

\* Mutations: newest first, and no LIMIT.
InReverse(r, s) == r > s
Unlimited(S) == Cardinality(S)

\* ORDER BY and LIMIT of find_stuck_candidates.
OldestFirst(r, s) == r < s
Limit(S) == IF Cardinality(S) < BatchSize THEN Cardinality(S) ELSE BatchSize

\* b lists rows of S in order, and none of S that it leaves out comes before
\* one that it lists.
InOrder(b, S) ==
  /\ \A i, j \in DOMAIN b : i < j => OldestFirst(b[i], b[j])
  /\ \A i \in DOMAIN b, r \in S \ Range(b) : OldestFirst(b[i], r)

\* A new session, and the batch of a sweep.
FindStuckCandidates ==
  /\ batch = <<>>
  /\ Stuck # {}
  /\ \E b \in [1..Limit(Stuck) -> Stuck] : InOrder(b, Stuck) /\ batch' = b
  /\ expired' = FALSE
  /\ UNCHANGED <<row, bad, errors>>

\* Claimed, refunded and committed; or the race for it is lost.
ReconcileOne ==
  LET r == Head(batch) IN
  /\ batch # <<>>
  /\ ~expired
  /\ row[r] = "stuck" => r \notin bad
  /\ row' = [row EXCEPT ![r] = "ended"]
  /\ batch' = Tail(batch)
  /\ UNCHANGED <<bad, expired, errors>>

\* The claim or the refund raises.  The rollback expires every object of the
\* session, the other candidates included.
RowRaises ==
  LET r == Head(batch) IN
  /\ batch # <<>>
  /\ ~expired
  /\ \/ row[r] = "stuck" /\ r \in bad /\ UNCHANGED errors
     \/ errors < MaxErrors /\ errors' = errors + 1
  /\ batch' = Tail(batch)
  /\ expired' = TRUE
  /\ UNCHANGED <<row, bad>>

\* An expired candidate cannot be loaded outside of an await: its status raises,
\* and so does its id in the handler, out of the sweep.  The comment there says
\* that one bad row must not abort the rest of the sweep; it does.
SweepRaises ==
  /\ batch # <<>>
  /\ expired
  /\ batch' = <<>>
  /\ UNCHANGED <<row, bad, expired, errors>>

SweepNext == FindStuckCandidates \/ ReconcileOne \/ RowRaises \/ SweepRaises

Next == SweepNext \/ \E r \in Rows : TimesOut(r) \/ WorkerEnds(r)

\* The loop sleeps and sweeps again whatever the last sweep raised.
Spec == Init /\ [][Next]_vars /\ WF_vars(SweepNext)

-----------------------------------------------------------------------------
\* A sweep as AnalysisPipeline has it: a set of candidates, dropped as a whole
\* when the sweep is lost, which here is when a rollback expires it.
Sweeper == "sweeper"
Waiting == IF expired THEN {} ELSE Range(batch)

Pipeline == INSTANCE AnalysisPipeline WITH
  Analyses         <- Rows,
  None             <- -1,
  Users            <- {"user"},
  Owner            <- [r \in Rows |-> "user"],
  Workers          <- {},
  Sweepers         <- {Sweeper},
  InitialGrant     <- 0,
  Prices           <- {1},
  Prompts          <- {1},
  MaxRedeliveries  <- 0,
  AmbiguousEnqueue <- FALSE,
  status           <- [r \in Rows |-> IF row[r] = "ended" THEN "failed" ELSE "pending"],
  failureReason    <- [r \in Rows |-> IF row[r] = "ended" THEN "pending_timeout" ELSE "none"],
  overdue          <- [r \in Rows |-> row[r] # "fresh"],
  candidates       <- [s \in {Sweeper} |-> {[id |-> r, seen |-> "pending"] : r \in Waiting}],
  started          <- [r \in Rows |-> FALSE],
  promptOf         <- [r \in Rows |-> 1],
  source           <- [r \in Rows |-> -1],
  freeClaimed      <- [r \in Rows |-> FALSE],
  verdict          <- [r \in Rows |-> FALSE],
  balance          <- [u \in {"user"} |-> 0],
  charged          <- [r \in Rows |-> 0],
  refunded         <- [r \in Rows |-> 0],
  request          <- [r \in Rows |-> "done"],
  jobs             <- [r \in Rows |-> 0],
  redeliveries     <- 0,
  worker           <- <<>>,
  job              <- <<>>,
  price            <- 1,
  prompt           <- 1

\* Batches in order, their limit, and rollbacks that take the rest of a batch
\* with them do to the rows nothing that the sweeps of AnalysisPipeline do not:
\* each step here is one of those, time, or a worker's.
SweepsAsInPipeline ==
  [][ \/ Pipeline!SweeperNext(Sweeper)
      \/ \E r \in Rows : Pipeline!TimesOut(r) \/ WorkerEnds(r) ]_(Pipeline!vars)

\* A stuck analysis ends unless an older one raises every time, however small
\* the batches are and whatever else goes wrong for a while.
StuckRowsEnd ==
  \A r \in Rows :
    row[r] = "stuck" /\ (\A b \in bad : b > r) ~> row[r] = "ended"
=============================================================================
