------------------------ MODULE ReconcilerSweepProofs ------------------------
(***************************************************************************)
(* The batches of ReconcilerSweep: a sweep can always be taken up, and is  *)
(* one of the sweeps of AnalysisPipeline, for any number of rows.          *)
(***************************************************************************)
EXTENDS ReconcilerSweep, FiniteSetTheorems, WellFoundedInduction, TLAPS

(***************************************************************************)
(* Batches.                                                                *)
(***************************************************************************)

\* A set of numbers has a least one.
LEMMA Least ==
  ASSUME NEW S \in SUBSET Nat, S # {}
  PROVE  \E m \in S : \A n \in S : m <= n
<1> DEFINE R == OpToRel(<, Nat)
<1>1. IsWellFoundedOn(R, Nat)
  BY NatLessThanWellFounded
<1>2. R = {ss \in Nat \X Nat : ss[1] < ss[2]}
  BY DEF OpToRel
<1> HIDE DEF R
<1>3. PICK m \in S : \A n \in S : <<n, m>> \notin R
  <2>1. S \subseteq Nat
    OBVIOUS
  <2> QED
    BY <1>1, <2>1, WFMin
<1>4. \A n \in S : ~(n < m)
  <2> SUFFICES ASSUME NEW n \in S, n < m
               PROVE  FALSE
    OBVIOUS
  <2>1. <<n, m>> \in Nat \X Nat
    OBVIOUS
  <2> QED
    BY <1>2, <1>3, <2>1
<1> QED
  BY <1>4

\* A finite set of numbers can be listed in order: the set without its least
\* element can, if there is a smallest set that cannot.
LEMMA Listed ==
  ASSUME NEW S \in SUBSET Nat, IsFiniteSet(S)
  PROVE  \E e \in [1..Cardinality(S) -> S] :
           /\ \A i, j \in 1..Cardinality(S) : i < j => e[i] < e[j]
           /\ \A s \in S : \E i \in 1..Cardinality(S) : e[i] = s
<1> DEFINE Lists(e, T) == /\ \A i, j \in 1..Cardinality(T) : i < j => e[i] < e[j]
                          /\ \A s \in T : \E i \in 1..Cardinality(T) : e[i] = s
           Listable(T) == \E e \in [1..Cardinality(T) -> T] : Lists(e, T)
           Bad == {n \in Nat : \E T \in SUBSET S : Cardinality(T) = n /\ ~Listable(T)}
<1>1. \A T \in SUBSET S : IsFiniteSet(T) /\ Cardinality(T) \in Nat
  BY FS_Subset, FS_CardinalityType
<1>2. ASSUME Bad # {}
      PROVE  FALSE
  <2>1. PICK n \in Bad : \A m \in Bad : n <= m
    <3>1. Bad \in SUBSET Nat
      OBVIOUS
    <3> HIDE DEF Bad
    <3> QED
      BY <1>2, <3>1, Least
  <2>2. PICK T \in SUBSET S : Cardinality(T) = n /\ ~Listable(T)
    OBVIOUS
  <2>3. n \in Nat /\ IsFiniteSet(T)
    BY <1>1
  <2>4. T # {}
    <3>1. ASSUME T = {}
          PROVE  Listable(T)
      <4>1. Cardinality(T) = 0
        BY <3>1, FS_EmptySet
      <4>2. 1..0 = {}
        OBVIOUS
      <4>3. [i \in 1..0 |-> 0] \in [1..0 -> T]
        BY <4>2
      <4> QED
        BY <3>1, <4>1, <4>2, <4>3
    <3> QED
      BY <2>2, <3>1
  <2>5. PICK least \in T : \A t \in T : least <= t
    BY <2>4, Least
  <2> DEFINE U == T \ {least}
  <2>6. U \in SUBSET S /\ Cardinality(U) = n - 1 /\ n - 1 \in Nat
    <3>1. Cardinality(U) = n - 1
      BY <2>2, <2>3, <2>5, FS_RemoveElement
    <3>2. U \in SUBSET S
      OBVIOUS
    <3>3. Cardinality(U) \in Nat
      BY <1>1, <3>2
    <3> HIDE DEF U
    <3> QED
      BY <3>1, <3>2, <3>3
  <2>7. Listable(U)
    <3>1. n - 1 \notin Bad
      BY <2>1, <2>3
    <3> HIDE DEF Listable, U
    <3> QED
      BY <2>6, <3>1
  <2>8. PICK e \in [1..(n - 1) -> U] :
          /\ \A i, j \in 1..(n - 1) : i < j => e[i] < e[j]
          /\ \A s \in U : \E i \in 1..(n - 1) : e[i] = s
    BY <2>6, <2>7
  <2> DEFINE g == [i \in 1..n |-> IF i = 1 THEN least ELSE e[i - 1]]
  <2>9. \A i \in 1..n : i = 1 \/ i - 1 \in 1..(n - 1)
    BY <2>3
  <2>10. g \in [1..n -> T]
    BY <2>9
  <2>11. \A i, j \in 1..n : i < j => g[i] < g[j]
    <3> SUFFICES ASSUME NEW i \in 1..n, NEW j \in 1..n, i < j
                 PROVE  g[i] < g[j]
      OBVIOUS
    <3>1. j # 1 /\ j - 1 \in 1..(n - 1) /\ e[j - 1] \in U /\ g[j] = e[j - 1]
      BY <2>3, <2>9
    <3>2. CASE i = 1
      <4>1. least \in Nat /\ e[j - 1] \in Nat /\ least <= e[j - 1] /\ least # e[j - 1]
        BY <2>5, <3>1
      <4> QED
        BY <3>1, <3>2, <4>1
    <3>3. CASE i # 1
      <4>1. i - 1 \in 1..(n - 1) /\ i - 1 < j - 1 /\ g[i] = e[i - 1]
        BY <2>9, <3>3
      <4> QED
        BY <2>8, <3>1, <4>1
    <3> QED
      BY <3>2, <3>3
  <2>12. \A s \in T : \E i \in 1..n : g[i] = s
    <3> SUFFICES ASSUME NEW s \in T
                 PROVE  \E i \in 1..n : g[i] = s
      OBVIOUS
    <3>1. CASE s = least
      <4>1. 1 \in 1..n /\ g[1] = s
        BY <2>3, <2>6, <3>1
      <4> QED
        BY <4>1
    <3>2. CASE s # least
      <4>1. PICK i \in 1..(n - 1) : e[i] = s
        BY <2>8, <3>2
      <4>2. i + 1 \in 1..n /\ i + 1 # 1 /\ (i + 1) - 1 = i
        BY <2>3
      <4>3. g[i + 1] = s
        BY <4>1, <4>2
      <4> QED
        BY <4>2, <4>3
    <3> QED
      BY <3>1, <3>2
  <2> HIDE DEF g
  <2> QED
    BY <2>2, <2>10, <2>11, <2>12
<1>3. Cardinality(S) \notin Bad
  BY <1>2
<1> QED
  BY <1>1, <1>3

\* LIMIT of a finite set.
LEMMA LimitType ==
  ASSUME NEW S, IsFiniteSet(S)
  PROVE  /\ Limit(S) \in Nat /\ Limit(S) <= BatchSize /\ Limit(S) <= Cardinality(S)
         /\ Limit(S) = BatchSize \/ Limit(S) = Cardinality(S)
         /\ S # {} => Limit(S) > 0
<1>1. Cardinality(S) \in Nat /\ BatchSize \in Nat \ {0} /\ (Cardinality(S) = 0 <=> S = {})
  BY SweepAssumption, FS_CardinalityType, FS_EmptySet
<1> QED
  BY <1>1 DEF Limit

\* Every finite set of rows has a batch.
LEMMA BatchExists ==
  ASSUME NEW S \in SUBSET Rows, IsFiniteSet(S)
  PROVE  \E b \in [1..Limit(S) -> S] : InOrder(b, S)
<1> DEFINE n == Cardinality(S)
           k == Limit(S)
<1>1. n \in Nat /\ k \in Nat /\ k <= n
  BY LimitType, FS_CardinalityType
<1>2. S \in SUBSET Nat
  BY SweepAssumption
<1>3. PICK e \in [1..n -> S] : /\ \A i, j \in 1..n : i < j => e[i] < e[j]
                               /\ \A s \in S : \E i \in 1..n : e[i] = s
  BY <1>2, Listed
<1> DEFINE b == [i \in 1..k |-> e[i]]
<1> HIDE DEF n, k
<1>4. \A i \in 1..k : i \in 1..n
  BY <1>1
<1>5. b \in [1..k -> S] /\ DOMAIN b = 1..k /\ \A i \in 1..k : b[i] = e[i]
  BY <1>4
<1>6. \A i, j \in DOMAIN b : i < j => OldestFirst(b[i], b[j])
  BY <1>3, <1>4, <1>5 DEF OldestFirst
<1>7. ASSUME NEW i \in DOMAIN b, NEW r \in S \ Range(b)
      PROVE  OldestFirst(b[i], r)
  <2>1. PICK j \in 1..n : e[j] = r
    BY <1>3
  <2>2. j \notin 1..k
    BY <1>5, <1>7, <2>1 DEF Range
  <2>3. i \in 1..k /\ i \in 1..n /\ i < j
    BY <1>1, <1>4, <1>5, <2>2
  <2> QED
    BY <1>3, <1>5, <2>1, <2>3 DEF OldestFirst
<1> HIDE DEF b
<1> QED
  BY <1>5, <1>6, <1>7 DEF InOrder, k

-----------------------------------------------------------------------------
(***************************************************************************)
(* The invariant: a batch lists rows in order, so none twice, all of which *)
(* have timed out; and only finitely many rows ever have.                  *)
(***************************************************************************)
SweepInv ==
  /\ IsFiniteSet(Stuck)
  /\ \A i, j \in DOMAIN batch : i < j => batch[i] < batch[j]
  /\ \A i \in DOMAIN batch : row[batch[i]] # "fresh"

\* A batch that was just selected.
LEMMA BatchType ==
  ASSUME TypeOK, SweepInv, FindStuckCandidates
  PROVE  /\ batch' \in [1..Limit(Stuck) -> Stuck] /\ InOrder(batch', Stuck)
         /\ Limit(Stuck) \in Nat /\ Limit(Stuck) <= BatchSize
         /\ batch' \in Seq(Rows) /\ Len(batch') = Limit(Stuck) /\ DOMAIN batch' = 1..Limit(Stuck)
<1>1. Limit(Stuck) \in Nat /\ Limit(Stuck) <= BatchSize
  BY LimitType DEF SweepInv
<1>2. batch' \in [1..Limit(Stuck) -> Stuck] /\ InOrder(batch', Stuck)
  BY DEF FindStuckCandidates
<1>3. batch' \in [1..Limit(Stuck) -> Rows]
  BY <1>2 DEF Stuck
<1> QED
  BY <1>1, <1>2, <1>3

\* The rest of a batch.
LEMMA RestOfBatch ==
  ASSUME TypeOK, SweepInv, batch # <<>>, batch' = Tail(batch)
  PROVE  /\ Head(batch) \in Rows /\ Head(batch) = batch[1] /\ 1 \in DOMAIN batch
         /\ batch' \in Seq(Rows) /\ Len(batch') = Len(batch) - 1 /\ Len(batch) \in Nat
         /\ DOMAIN batch' = 1..Len(batch')
         /\ \A i \in DOMAIN batch' : i + 1 \in DOMAIN batch /\ batch'[i] = batch[i + 1]
         /\ Range(batch') = Range(batch) \ {Head(batch)}
         /\ Head(batch) \in Range(batch)
<1>1. batch \in Seq(Rows) /\ Len(batch) \in Nat /\ Len(batch) > 0 /\ DOMAIN batch = 1..Len(batch)
  BY DEF TypeOK
<1>2. /\ Head(batch) = batch[1] /\ 1 \in DOMAIN batch /\ batch[1] \in Rows
      /\ batch' \in Seq(Rows) /\ Len(batch') = Len(batch) - 1 /\ DOMAIN batch' = 1..Len(batch')
      /\ \A i \in DOMAIN batch' : i + 1 \in DOMAIN batch /\ batch'[i] = batch[i + 1]
  BY <1>1
<1>3. \A i \in DOMAIN batch : batch[i] \in Nat
  <2>1. \A i \in DOMAIN batch : batch[i] \in Rows
    BY <1>1
  <2> QED
    BY <2>1, SweepAssumption
<1>4. ASSUME NEW r \in Range(batch) \ {Head(batch)}
      PROVE  r \in Range(batch')
  <2>1. PICK i \in DOMAIN batch : batch[i] = r /\ i # 1
    BY <1>2, <1>4 DEF Range
  <2>2. i - 1 \in DOMAIN batch' /\ (i - 1) + 1 = i
    BY <1>1, <1>2, <2>1
  <2> QED
    BY <1>2, <2>1, <2>2 DEF Range
<1>5. ASSUME NEW r \in Range(batch')
      PROVE  r \in Range(batch) /\ r # Head(batch)
  <2>1. PICK i \in DOMAIN batch' : batch'[i] = r
    BY <1>5 DEF Range
  <2>2. i + 1 \in DOMAIN batch /\ batch[i + 1] = r /\ 1 < i + 1
    BY <1>1, <1>2, <2>1
  <2>3. batch[1] < batch[i + 1]
    BY <1>2, <2>2 DEF SweepInv
  <2> QED
    BY <1>2, <1>3, <2>2, <2>3 DEF Range
<1> QED
  BY <1>2, <1>4, <1>5 DEF Range

\* Every step keeps types and invariant.
LEMMA SweepStep == TypeOK /\ SweepInv /\ [Next]_vars => TypeOK' /\ SweepInv'
<1> SUFFICES ASSUME TypeOK, SweepInv, [Next]_vars
             PROVE  TypeOK' /\ SweepInv'
  OBVIOUS
<1>1. CASE UNCHANGED vars
  BY <1>1 DEF vars, TypeOK, SweepInv, Stuck
<1>2. ASSUME NEW r \in Rows, TimesOut(r)
      PROVE  TypeOK' /\ SweepInv'
  <2>1. Stuck' = Stuck \union {r}
    BY <1>2 DEF TimesOut, Stuck, TypeOK
  <2>2. IsFiniteSet(Stuck')
    BY <2>1, FS_AddElement DEF SweepInv
  <2>3. TypeOK' /\ \A s \in Rows : row[s] # "fresh" => row'[s] # "fresh"
    BY <1>2 DEF TimesOut, TypeOK
  <2>4. batch' = batch /\ \A i \in DOMAIN batch : batch[i] \in Rows
    BY <1>2 DEF TimesOut, TypeOK
  <2> QED
    BY <2>2, <2>3, <2>4 DEF SweepInv
<1>3. ASSUME NEW r \in Rows, row' = [row EXCEPT ![r] = "ended"],
             UNCHANGED <<bad, expired, errors>>, batch' = batch \/ (batch # <<>> /\ batch' = Tail(batch))
      PROVE  TypeOK' /\ SweepInv'
  <2>1. IsFiniteSet(Stuck')
    <3>1. Stuck' \subseteq Stuck
      BY <1>3 DEF Stuck, TypeOK
    <3> QED
      BY <3>1, FS_Subset DEF SweepInv
  <2>2. \A s \in Rows : row[s] # "fresh" => row'[s] # "fresh"
    BY <1>3 DEF TypeOK
  <2>3. \A i \in DOMAIN batch : batch[i] \in Rows
    BY DEF TypeOK
  <2>4. CASE batch' = batch
    BY <1>3, <2>1, <2>2, <2>3, <2>4 DEF TypeOK, SweepInv
  <2>5. CASE batch # <<>> /\ batch' = Tail(batch)
    BY <1>3, <2>1, <2>2, <2>3, <2>5, RestOfBatch, SweepAssumption DEF TypeOK, SweepInv
  <2> QED
    BY <1>3, <2>4, <2>5
<1>4. ASSUME NEW r \in Rows, WorkerEnds(r)
      PROVE  TypeOK' /\ SweepInv'
  BY <1>3, <1>4 DEF WorkerEnds
<1>5. CASE FindStuckCandidates
  <2>1. row' = row /\ Stuck' = Stuck /\ expired' = FALSE /\ UNCHANGED <<bad, errors>>
    BY <1>5 DEF FindStuckCandidates, Stuck
  <2>2. /\ batch' \in Seq(Rows) /\ Len(batch') <= BatchSize
        /\ \A i \in DOMAIN batch' : batch'[i] \in Stuck
        /\ InOrder(batch', Stuck)
    BY <1>5, BatchType
  <2> QED
    BY <2>1, <2>2 DEF TypeOK, SweepInv, InOrder, OldestFirst, Stuck
<1>6. CASE ReconcileOne
  <2>1. batch # <<>> /\ batch' = Tail(batch) /\ Head(batch) \in Rows
    BY <1>6, RestOfBatch DEF ReconcileOne
  <2> QED
    BY <1>3, <1>6, <2>1 DEF ReconcileOne
<1>7. CASE RowRaises
  <2>1. /\ batch # <<>> /\ batch' = Tail(batch) /\ expired' = TRUE /\ UNCHANGED <<row, bad>>
        /\ errors' \in 0..MaxErrors
    BY <1>7, SweepAssumption DEF RowRaises, TypeOK
  <2>2. Stuck' = Stuck
    BY <2>1 DEF Stuck
  <2> QED
    BY <2>1, <2>2, RestOfBatch, SweepAssumption DEF TypeOK, SweepInv
<1>8. CASE SweepRaises
  BY <1>8, SweepAssumption DEF SweepRaises, TypeOK, SweepInv, Stuck
<1> QED
  BY <1>1, <1>2, <1>4, <1>5, <1>6, <1>7, <1>8 DEF Next, SweepNext

LEMMA SweepInit == Init => TypeOK /\ SweepInv
<1> SUFFICES ASSUME Init
             PROVE  TypeOK /\ SweepInv
  OBVIOUS
<1>1. Stuck = {}
  BY DEF Init, Stuck
<1>2. <<>> \in Seq(Rows) /\ Len(<<>>) = 0 /\ DOMAIN <<>> = {}
  OBVIOUS
<1>3. TypeOK
  <2>1. row \in [Rows -> {"fresh", "stuck", "ended"}]
    BY DEF Init
  <2>2. batch \in Seq(Rows) /\ Len(batch) <= BatchSize
    BY <1>2, SweepAssumption DEF Init
  <2>3. errors \in 0..MaxErrors
    BY SweepAssumption DEF Init
  <2> QED
    BY <2>1, <2>2, <2>3 DEF Init, TypeOK
<1>4. SweepInv
  BY <1>1, <1>2, FS_EmptySet DEF Init, SweepInv
<1> QED
  BY <1>3, <1>4

\* The state of a sweep is well typed, and no batch exceeds the batch size.
THEOREM TypeCorrect == Spec => []TypeOK
BY SweepInit, SweepStep, PTL DEF Spec

\* Wherever a row is stuck there is a batch to select: the order and the limit
\* never leave a sweep without one.
THEOREM SweepIsNeverStuck ==
  Spec => [](Stuck # {} => \E b \in [1..Limit(Stuck) -> Stuck] : InOrder(b, Stuck))
<1>1. TypeOK /\ SweepInv => (Stuck # {} => \E b \in [1..Limit(Stuck) -> Stuck] : InOrder(b, Stuck))
  <2> SUFFICES ASSUME SweepInv
               PROVE  \E b \in [1..Limit(Stuck) -> Stuck] : InOrder(b, Stuck)
    OBVIOUS
  <2>1. Stuck \in SUBSET Rows /\ IsFiniteSet(Stuck)
    BY DEF Stuck, SweepInv
  <2> QED
    BY <2>1, BatchExists
<1> QED
  BY <1>1, SweepInit, SweepStep, PTL DEF Spec

-----------------------------------------------------------------------------
(***************************************************************************)
(* The refinement.                                                         *)
(***************************************************************************)

\* What a step does to the columns the mapping leaves constant: nothing.
LEMMA OnlyRowsAndCandidates ==
  /\ UNCHANGED <<Pipeline!creditVars, Pipeline!queueVars, Pipeline!workerVars,
                 Pipeline!configVars>>
  /\ UNCHANGED [r \in Rows |-> FALSE]
  /\ UNCHANGED [r \in Rows |-> 1]
  /\ UNCHANGED [r \in Rows |-> -1]
  /\ UNCHANGED [r \in Rows |-> "done"]
BY DEF Pipeline!creditVars, Pipeline!queueVars, Pipeline!workerVars, Pipeline!configVars

\* A row that times out is one of the pipeline that does.
LEMMA TimeRefines ==
  ASSUME TypeOK, NEW r \in Rows, TimesOut(r)
  PROVE  Pipeline!TimesOut(r)
<1>1. row[r] = "fresh" /\ row' = [row EXCEPT ![r] = "stuck"] /\ Waiting' = Waiting
  BY DEF TimesOut, Waiting
<1>2. /\ [s \in Rows |-> IF row[s] = "ended" THEN "failed" ELSE "pending"]'
           = [s \in Rows |-> IF row[s] = "ended" THEN "failed" ELSE "pending"]
      /\ [s \in Rows |-> IF row[s] = "ended" THEN "pending_timeout" ELSE "none"]'
           = [s \in Rows |-> IF row[s] = "ended" THEN "pending_timeout" ELSE "none"]
      /\ [s \in Rows |-> row[s] # "fresh"]'
           = [[s \in Rows |-> row[s] # "fresh"] EXCEPT ![r] = TRUE]
  BY <1>1 DEF TypeOK
<1> QED
  BY <1>1, <1>2, OnlyRowsAndCandidates DEF Pipeline!TimesOut

\* The pipeline counts as the sweeps do.
LEMMA PipelineCounts == ASSUME NEW S PROVE Pipeline!Cardinality(S) = Cardinality(S)
BY DEF Cardinality, Pipeline!Cardinality

\* The candidates of the one sweeper, when those that wait become C.
LEMMA CandidatesMove ==
  ASSUME NEW C, Waiting' = C
  PROVE  [s \in {Sweeper} |-> {[id |-> r, seen |-> "pending"] : r \in Waiting}]'
           = [[s \in {Sweeper} |-> {[id |-> r, seen |-> "pending"] : r \in Waiting}]
                EXCEPT ![Sweeper] = {[id |-> r, seen |-> "pending"] : r \in C}]
OBVIOUS

\* Selecting a batch: as many of the stuck rows as the limit allows.
LEMMA SelectionRefines ==
  ASSUME TypeOK, SweepInv, FindStuckCandidates
  PROVE  Pipeline!FindStuckCandidates(Sweeper)
<1> DEFINE b == batch'
           C == Range(b)
           n == Limit(Stuck)
<1>1. /\ b \in [1..n -> Stuck] /\ n \in Nat /\ DOMAIN b = 1..n
      /\ \A i, j \in 1..n : i < j => b[i] < b[j]
  BY BatchType DEF InOrder, OldestFirst
<1>2. Waiting = {} /\ Waiting' = C /\ row' = row /\ Stuck # {}
  BY DEF FindStuckCandidates, Waiting, Range
<1>3. Pipeline!StuckAnalyses = Stuck
  BY DEF Pipeline!StuckAnalyses, Pipeline!Stuck, Stuck, TypeOK
<1>4. C \in SUBSET Stuck /\ IsFiniteSet(Stuck)
  BY <1>1 DEF Range, SweepInv
<1>5. Cardinality(C) = n /\ C # {}
  <2>1. \A i \in 1..n : b[i] \in Nat
    BY <1>1, SweepAssumption DEF Stuck
  <2>2. b \in Bijection(1..n, C)
    <3>1. \A i, j \in 1..n : i # j => b[i] # b[j]
      BY <1>1, <2>1
    <3>2. b \in [1..n -> C] /\ \A c \in C : \E i \in 1..n : b[i] = c
      BY <1>1 DEF Range
    <3> QED
      BY <3>1, <3>2 DEF Bijection, Injection, Surjection, IsInjective
  <2>3. ExistsBijection(1..n, C)
    BY <2>2 DEF ExistsBijection
  <2>4. IsFiniteSet(1..n) /\ Cardinality(1..n) = n
    BY <1>1, FS_Interval
  <2>5. n > 0
    BY <1>2, <1>4, LimitType
  <2> HIDE DEF C, n
  <2> QED
    BY <1>1, <2>3, <2>4, <2>5, FS_Bijection, FS_EmptySet
<1>6. n <= BatchSize /\ (n = BatchSize \/ C = Stuck)
  <2>1. n = BatchSize \/ n = Cardinality(Stuck)
    BY <1>4, LimitType
  <2>2. n = Cardinality(Stuck) => C = Stuck
    BY <1>4, <1>5, FS_Subset
  <2> QED
    BY <1>4, <2>1, <2>2, LimitType
<1>7. [s \in {Sweeper} |-> {[id |-> r, seen |-> "pending"] : r \in Waiting}][Sweeper] = {}
  BY <1>2
<1>8. \A r \in Stuck : [s \in Rows |-> IF row[s] = "ended" THEN "failed" ELSE "pending"][r] = "pending"
  BY DEF Stuck
<1>9. {[id |-> r, seen |-> [s \in Rows |-> IF row[s] = "ended" THEN "failed" ELSE "pending"][r]] : r \in C}
        = {[id |-> r, seen |-> "pending"] : r \in C}
  BY <1>4, <1>8
<1>10. [s \in {Sweeper} |-> {[id |-> r, seen |-> "pending"] : r \in Waiting}]'
         = [[s \in {Sweeper} |-> {[id |-> r, seen |-> "pending"] : r \in Waiting}]
              EXCEPT ![Sweeper] = {[id |-> r, seen |-> "pending"] : r \in C}]
  BY <1>2, CandidatesMove
<1>11. Pipeline!Cardinality(C) = Cardinality(C)
  BY PipelineCounts
<1>12. UNCHANGED <<Pipeline!rowVars, Pipeline!creditVars, [r \in Rows |-> "done"],
                   Pipeline!queueVars, Pipeline!workerVars, Pipeline!configVars>>
  BY <1>2, OnlyRowsAndCandidates DEF Pipeline!rowVars
<1> HIDE DEF C, n, b
<1> QED
  BY <1>3, <1>4, <1>5, <1>6, <1>7, <1>9, <1>10, <1>11, <1>12 DEF Pipeline!FindStuckCandidates

\* A candidate is claimed, or the race for it was lost.
LEMMA ClaimRefines ==
  ASSUME TypeOK, SweepInv, ReconcileOne
  PROVE  Pipeline!SweeperNext(Sweeper)
<1>1. /\ batch # <<>> /\ ~expired /\ ~expired' /\ batch' = Tail(batch)
      /\ row' = [row EXCEPT ![Head(batch)] = "ended"]
  BY DEF ReconcileOne
<1>2. PICK r \in Rows : /\ r = Head(batch) /\ row' = [row EXCEPT ![r] = "ended"]
                       /\ r \in Waiting /\ Waiting' = Waiting \ {r} /\ row[r] # "fresh"
  <2>1. Head(batch) \in Rows
    BY <1>1, RestOfBatch
  <2> QED
    BY <1>1, <2>1, RestOfBatch DEF Waiting, SweepInv
<1> DEFINE c == [id |-> r, seen |-> "pending"]
<1>3. c.id = r /\ c.seen = "pending"
  OBVIOUS
<1>4. Pipeline!NextCandidate(Sweeper, c)
  <2>1. {[id |-> s, seen |-> "pending"] : s \in Waiting \ {r}}
          = {[id |-> s, seen |-> "pending"] : s \in Waiting} \ {c}
    OBVIOUS
  <2> QED
    BY <1>2, <2>1, CandidatesMove DEF Pipeline!NextCandidate
<1>5. Pipeline!FailAndRefund(r, "pending", "failed", "pending_timeout")
  <2>1. CASE row[r] = "stuck"
    <3>1. Pipeline!TryTransition(r, "pending", "failed", "pending_timeout")
      <4>1. /\ [s \in Rows |-> IF row[s] = "ended" THEN "failed" ELSE "pending"]'
                 = [[s \in Rows |-> IF row[s] = "ended" THEN "failed" ELSE "pending"]
                      EXCEPT ![r] = "failed"]
            /\ [s \in Rows |-> IF row[s] = "ended" THEN "pending_timeout" ELSE "none"]'
                 = [[s \in Rows |-> IF row[s] = "ended" THEN "pending_timeout" ELSE "none"]
                      EXCEPT ![r] = "pending_timeout"]
            /\ [s \in Rows |-> row[s] # "fresh"]' = [s \in Rows |-> row[s] # "fresh"]
        BY <1>1, <1>2 DEF TypeOK
      <4> QED
        BY <1>2, <2>1, <4>1, OnlyRowsAndCandidates DEF Pipeline!TryTransition, Pipeline!StillIn
    <3>2. Pipeline!RefundForAnalysis(r)
      BY <1>2 DEF Pipeline!RefundForAnalysis, Pipeline!RefundDue
    <3> QED
      BY <3>1, <3>2, OnlyRowsAndCandidates DEF Pipeline!FailAndRefund
  <2>2. CASE row[r] = "ended"
    <3>1. row' = row
      BY <1>1, <1>2, <2>2 DEF TypeOK
    <3> QED
      BY <1>2, <2>2, <3>1, OnlyRowsAndCandidates
      DEF Pipeline!FailAndRefund, Pipeline!StillIn, Pipeline!rowVars
  <2> QED
    BY <1>2, <2>1, <2>2 DEF TypeOK
<1> HIDE DEF c
<1>6. Pipeline!ReconcileOne(Sweeper, c)
  BY <1>3, <1>4, <1>5, OnlyRowsAndCandidates DEF Pipeline!ReconcileOne, Pipeline!TimeoutReason
<1>7. c \in [s \in {Sweeper} |-> {[id |-> q, seen |-> "pending"] : q \in Waiting}][Sweeper]
  BY <1>4 DEF Pipeline!NextCandidate
<1> QED
  BY <1>6, <1>7 DEF Pipeline!SweeperNext

\* A row that raises ends the sweep of the pipeline there and then.
LEMMA AbortRefines ==
  ASSUME TypeOK, SweepInv, RowRaises
  PROVE  Pipeline!SweepAborts(Sweeper)
<1>1. Waiting # {} /\ Waiting' = {} /\ row' = row
  BY RestOfBatch DEF RowRaises, Waiting
<1>2. {[id |-> r, seen |-> "pending"] : r \in Waiting} # {}
      /\ {[id |-> r, seen |-> "pending"] : r \in {}} = {}
  BY <1>1
<1> QED
  BY <1>1, <1>2, CandidatesMove, OnlyRowsAndCandidates DEF Pipeline!SweepAborts, Pipeline!rowVars

\* Steps that change nothing the pipeline sees.
LEMMA SweepStutters ==
  ASSUME row' = row, Waiting' = Waiting
  PROVE  UNCHANGED Pipeline!vars
BY OnlyRowsAndCandidates DEF Pipeline!vars, Pipeline!rowVars

\* The batches of the reconciler are sweeps of the pipeline, for any number of
\* rows, batch size and errors.
THEOREM SweepsAsInPipelineHolds == Spec => SweepsAsInPipeline
<1>1. ASSUME TypeOK, SweepInv, [Next]_vars
      PROVE  [ \/ Pipeline!SweeperNext(Sweeper)
               \/ \E r \in Rows : Pipeline!TimesOut(r) \/ WorkerEnds(r) ]_(Pipeline!vars)
  <2>1. CASE UNCHANGED vars
    BY <2>1, SweepStutters DEF vars, Waiting
  <2>2. ASSUME NEW r \in Rows, TimesOut(r) \/ WorkerEnds(r)
        PROVE  Pipeline!TimesOut(r) \/ WorkerEnds(r)
    BY <1>1, <2>2, TimeRefines
  <2>3. CASE FindStuckCandidates
    BY <1>1, <2>3, SelectionRefines DEF Pipeline!SweeperNext
  <2>4. CASE ReconcileOne
    BY <1>1, <2>4, ClaimRefines
  <2>5. CASE RowRaises
    BY <1>1, <2>5, AbortRefines DEF Pipeline!SweeperNext
  <2>6. CASE SweepRaises
    BY <2>6, SweepStutters DEF SweepRaises, Waiting
  <2> QED
    BY <1>1, <2>1, <2>2, <2>3, <2>4, <2>5, <2>6 DEF Next, SweepNext
<1> QED
  BY <1>1, SweepInit, SweepStep, PTL DEF Spec, SweepsAsInPipeline
=============================================================================
