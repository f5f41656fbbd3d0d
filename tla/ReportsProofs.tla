---------------------------- MODULE ReportsProofs ----------------------------
(***************************************************************************)
(* Theorems about Reports, for any number of reports, companies and        *)
(* moderators, any similarity and any saturation.                          *)
(***************************************************************************)
EXTENDS Reports, FiniteSetTheorems, TLAPS

-----------------------------------------------------------------------------
(***************************************************************************)
(* The inductive invariants.                                               *)
(***************************************************************************)

\* A row exists only of a transaction that began; a submission in progress has
\* no row yet.
RowsAreFiled ==
  /\ \A r \in Reports : status[r] # "none" => created[r] # 0
  /\ \A r \in Reports : duplicateOf[r] # None => status[r] # "none"
  /\ \A r \in recent : status[r] # "none"
  /\ \A r \in Reports :
       filing[r] \in {"begun"} \union Reports => status[r] = "none" /\ created[r] # 0

\* s is a filed original of the company of r, and similar to r.
IsOriginalFor(s, r) ==
  /\ status[s] # "none"
  /\ duplicateOf[s] = None
  /\ company[s] = company[r]
  /\ <<r, s>> \in Similar

\* What a submission has found stays an original until the row is written.
FoundOriginals ==
  \A r \in Reports :
    filing[r] \in Reports /\ filing[r] # r => IsOriginalFor(filing[r], r)

DupInv == RowsAreFiled /\ FoundOriginals /\ DuplicateOfOriginal

\* A decision holds the row it has moved, which nobody else moves meanwhile.
RowsAreHeld ==
  /\ \A m \in Moderators :
       deciding[m] # Idle => status[deciding[m].report] \in AllowedFrom(deciding[m].to)
  /\ \A m, n \in Moderators :
       deciding[m] # Idle /\ deciding[n] # Idle /\ m # n =>
         deciding[m].report # deciding[n].report

\* The reports that back the count of m, once m commits.
Backing(m) ==
  {s \in Reports : /\ company[s] = company[deciding[m].report]
                   /\ Counts(s, StatusSeen(m, s))}

\* A count taken earlier is backed still.
CountsAreBacked ==
  \A m \in Moderators :
    deciding[m].stage \in {"counted", "stored"} =>
      /\ company[deciding[m].report] # None
      /\ deciding[m].found <= Cardinality(Backing(m))

-----------------------------------------------------------------------------
(***************************************************************************)
(* Type correctness.                                                       *)
(***************************************************************************)

\* A set of reports is finite, and a larger one has no fewer members.
LEMMA SetsOfReports ==
  /\ \A S \in SUBSET Reports : IsFiniteSet(S) /\ Cardinality(S) \in Nat
  /\ \A S, T \in SUBSET Reports : S \subseteq T => Cardinality(S) <= Cardinality(T)
<1>1. IsFiniteSet(Reports)
  BY ReportsAssumption
<1>2. ASSUME NEW S \in SUBSET Reports
      PROVE  IsFiniteSet(S) /\ Cardinality(S) \in Nat
  BY <1>1, FS_Subset, FS_CardinalityType
<1>3. ASSUME NEW S \in SUBSET Reports, NEW T \in SUBSET Reports, S \subseteq T
      PROVE  Cardinality(S) <= Cardinality(T)
  BY <1>2, <1>3, FS_Subset
<1> QED
  BY <1>2, <1>3

\* The score of every count is NULL or a percentage.
LEMMA ScoreType ==
  ASSUME NEW n \in Nat
  PROVE  ReputationScoreFor(n) \in 0..100 \union {None}
<1> DEFINE b == IF Saturation > 1 THEN Saturation ELSE 1
<1>1. b \in Int /\ b > 0
  BY ReportsAssumption
<1>2. 100 * n \in Nat
  OBVIOUS
<1> HIDE DEF b
<1>3. (100 * n) \div b \in Nat
  BY <1>1, <1>2, Z3
<1>4. RoundRatio(100 * n, b) \in Nat
  BY <1>3 DEF RoundRatio
<1> QED
  BY <1>4 DEF ReputationScoreFor, b

LEMMA TypeInit == Init => TypeOK
  BY ReportsAssumption DEF Init, TypeOK, Status, Filing, Deciding, Idle

LEMMA FilingType ==
  ASSUME TypeOK, NEW r \in Reports, FilingNext(r)
  PROVE  TypeOK'
<1> USE DEF TypeOK, Filing, FilingGoes, rows, signal
<1>1. ASSUME NEW c \in Companies \union {None}, BeginFiling(r, c)
      PROVE  TypeOK'
  <2>1. Cardinality({s \in Reports : created[s] > 0}) \in Nat
    BY SetsOfReports
  <2> QED
    BY <1>1, <2>1 DEF BeginFiling
<1>2. CASE DetectDuplicate(r)
  BY <1>2 DEF DetectDuplicate, Originals
<1>3. CASE FileReport(r)
  BY <1>3 DEF FileReport, Status
<1>4. CASE FilingFails(r)
  BY <1>4 DEF FilingFails
<1>5. CASE LeavesWindow(r)
  BY <1>5 DEF LeavesWindow
<1> QED
  BY <1>1, <1>2, <1>3, <1>4, <1>5 DEF FilingNext

\* What a request of a given stage holds.
LEMMA DecidingFields ==
  ASSUME TypeOK, NEW m \in Moderators, deciding[m] # Idle
  PROVE  /\ deciding[m].report \in Reports
         /\ deciding[m].to \in Decision
         /\ deciding[m].stage \in {"moved", "counted", "stored"}
         /\ deciding[m].stage # "moved" =>
              /\ deciding[m].found \in Nat
              /\ deciding[m] = [stage |-> deciding[m].stage, report |-> deciding[m].report,
                                to |-> deciding[m].to, found |-> deciding[m].found]
  BY DEF TypeOK, Deciding

LEMMA DecidingType ==
  ASSUME TypeOK, NEW m \in Moderators, DecidingNext(m)
  PROVE  TypeOK'
<1> USE DEF TypeOK, DecidingGoes, rows, signal
<1>1. ASSUME NEW r \in Reports, NEW t \in Decision, Move(m, r, t)
      PROVE  TypeOK'
  BY <1>1 DEF Move, Deciding
<1>2. CASE Recount(m)
  <2>1. deciding[m] # Idle
    BY <1>2 DEF Recount, Idle
  <2>2. \A S \in SUBSET Reports : Cardinality(S) \in Nat
    BY SetsOfReports
  <2> DEFINE found == {s \in Reports : /\ company[s] = company[deciding[m].report]
                                       /\ Counts(s, StatusSeen(m, s))}
  <2>3. Cardinality(found) \in Nat
    BY <2>2
  <2>4. deciding' = [deciding EXCEPT ![m] =
                       [stage |-> "counted", report |-> deciding[m].report,
                        to |-> deciding[m].to, found |-> Cardinality(found)]]
    BY <1>2 DEF Recount
  <2> HIDE DEF found
  <2>5. deciding' \in [Moderators -> Deciding]
    BY <2>1, <2>3, <2>4, DecidingFields DEF Deciding
  <2> QED
    BY <1>2, <2>5 DEF Recount
<1>3. CASE StoreSignal(m)
  <2>1. deciding[m] # Idle /\ deciding[m].stage = "counted"
    BY <1>3 DEF StoreSignal, Idle
  <2>2. [deciding[m] EXCEPT !.stage = "stored"] \in Deciding
    BY <2>1, DecidingFields DEF Deciding
  <2> QED
    BY <1>3, <2>2 DEF StoreSignal
<1>4. CASE CommitDecision(m)
  <2>1. deciding[m] # Idle
    BY <1>4 DEF CommitDecision, Idle
  <2>2. deciding' \in [Moderators -> Deciding]
    BY <1>4 DEF CommitDecision, Deciding
  <2>3. status' \in [Reports -> Status]
    BY <1>4, <2>1, DecidingFields DEF CommitDecision, Decision, Status
  <2>4. count' \in [Companies -> Nat] /\ score' \in [Companies -> 0..100 \union {None}]
    <3>1. CASE deciding[m].stage = "stored"
      BY <1>4, <2>1, <3>1, DecidingFields, ScoreType DEF CommitDecision
    <3>2. CASE deciding[m].stage # "stored"
      BY <1>4, <3>2 DEF CommitDecision
    <3> QED
      BY <3>1, <3>2
  <2> QED
    BY <1>4, <2>2, <2>3, <2>4 DEF CommitDecision
<1>5. CASE DecisionFails(m)
  BY <1>5 DEF DecisionFails, Deciding
<1> QED
  BY <1>1, <1>2, <1>3, <1>4, <1>5 DEF DecidingNext

LEMMA TypeStep == TypeOK /\ [Next]_vars => TypeOK'
<1> SUFFICES ASSUME TypeOK, [Next]_vars
             PROVE  TypeOK'
  OBVIOUS
<1>1. CASE UNCHANGED vars
  BY <1>1 DEF TypeOK, vars, rows, signal
<1> QED
  BY <1>1, FilingType, DecidingType DEF Next

\* Every variable keeps its type, and the reputation of a company stays between
\* 0 and 100 or NULL for every count and every saturation.
THEOREM TypeCorrect == Spec => []TypeOK
<1>1. Init => TypeOK
  BY TypeInit
<1>2. TypeOK /\ [Next]_vars => TypeOK'
  BY TypeStep
<1> QED
  BY <1>1, <1>2, PTL DEF Spec

-----------------------------------------------------------------------------
(***************************************************************************)
(* Duplicates.                                                             *)
(***************************************************************************)

LEMMA DupInit == Init => DupInv
  BY ReportsAssumption
  DEF Init, DupInv, RowsAreFiled, FoundOriginals, DuplicateOfOriginal

LEMMA DupFiling ==
  ASSUME TypeOK, DupInv, NEW r \in Reports, FilingNext(r)
  PROVE  DupInv'
<1> USE ReportsAssumption
    DEF DupInv, RowsAreFiled, FoundOriginals, DuplicateOfOriginal, IsOriginalFor, TypeOK,
        Filing, FilingGoes, rows, signal
<1>1. ASSUME NEW c \in Companies \union {None}, BeginFiling(r, c)
      PROVE  DupInv'
  <2>1. Cardinality({s \in Reports : created[s] > 0}) \in Nat
    BY SetsOfReports
  <2>2. created'[r] # 0
    BY <1>1, <2>1 DEF BeginFiling
  <2>3. status[r] = "none" /\ duplicateOf[r] = None
    BY <1>1 DEF BeginFiling
  <2>4. \A s \in Reports : s # r => company'[s] = company[s] /\ created'[s] = created[s]
    BY <1>1 DEF BeginFiling
  <2>5. RowsAreFiled'
    BY <1>1, <2>2 DEF BeginFiling
  <2>6. \A s, q \in Reports : q # r /\ IsOriginalFor(s, q) => IsOriginalFor(s, q)'
    BY <1>1, <2>3, <2>4 DEF BeginFiling
  <2>7. FoundOriginals'
    BY <1>1, <2>6 DEF BeginFiling
  <2>8. DuplicateOfOriginal'
    BY <1>1, <2>3, <2>6 DEF BeginFiling
  <2> QED
    BY <2>5, <2>7, <2>8
<1>2. CASE DetectDuplicate(r)
  <2>1. CASE FilingGoes(r, r)
    BY <1>2, <2>1 DEF DetectDuplicate
  <2>2. ASSUME NEW s \in Originals(r), FilingGoes(r, s)
        PROVE  DupInv'
    BY <1>2, <2>2 DEF DetectDuplicate, Originals
  <2> QED
    BY <1>2, <2>1, <2>2 DEF DetectDuplicate
<1>3. CASE FileReport(r)
  <2>1. status[r] = "none" /\ created[r] # 0 /\ duplicateOf[r] = None /\ r \notin recent
    BY <1>3 DEF FileReport
  <2>2. RowsAreFiled'
    BY <1>3, <2>1 DEF FileReport
  <2>3. \A s, q \in Reports : IsOriginalFor(s, q) => IsOriginalFor(s, q)'
    BY <1>3, <2>1 DEF FileReport
  <2>4. FoundOriginals'
    BY <1>3, <2>3 DEF FileReport
  <2>5. DuplicateOfOriginal'
    BY <1>3, <2>1, <2>3 DEF FileReport
  <2> QED
    BY <2>2, <2>4, <2>5
<1>4. CASE FilingFails(r)
  BY <1>4 DEF FilingFails
<1>5. CASE LeavesWindow(r)
  BY <1>5 DEF LeavesWindow
<1> QED
  BY <1>1, <1>2, <1>3, <1>4, <1>5 DEF FilingNext

\* A decision leaves which rows exist, and what they point at, as they are.
LEMMA DecidingRows ==
  ASSUME TypeOK, RowsAreHeld, NEW m \in Moderators, DecidingNext(m)
  PROVE  /\ UNCHANGED <<duplicateOf, recent, company, created, filing>>
         /\ status' \in [Reports -> Status]
         /\ \A r \in Reports :
              status'[r] # status[r] =>
                /\ status[r] \in {"submitted", "under_review"}
                /\ status'[r] # "none"
<1>1. CASE CommitDecision(m)
  <2>1. deciding[m] # Idle
    BY <1>1 DEF CommitDecision, Idle
  <2>2. /\ status[deciding[m].report] \in {"submitted", "under_review"}
        /\ deciding[m].to \in Decision
    BY <2>1, DecidingFields DEF RowsAreHeld, AllowedFrom
  <2>3. status' = [status EXCEPT ![deciding[m].report] = deciding[m].to]
    BY <1>1 DEF CommitDecision
  <2> QED
    BY <1>1, <2>2, <2>3 DEF CommitDecision, TypeOK, Decision, Status
<1>2. CASE ~CommitDecision(m)
  BY <1>2 DEF DecidingNext, Move, Recount, StoreSignal, DecisionFails, rows, TypeOK
<1> QED
  BY <1>1, <1>2

LEMMA HeldInit == Init => RowsAreHeld
  BY DEF Init, RowsAreHeld

LEMMA HeldStep ==
  ASSUME TypeOK, RowsAreFiled, RowsAreHeld, [Next]_vars
  PROVE  RowsAreHeld'
<1>1. CASE UNCHANGED vars
  BY <1>1 DEF vars, rows, RowsAreHeld
<1>2. ASSUME NEW r \in Reports, FilingNext(r)
      PROVE  RowsAreHeld'
  <2>1. deciding' = deciding
    BY <1>2 DEF FilingNext, BeginFiling, DetectDuplicate, FileReport, FilingFails, LeavesWindow
  <2>2. \A s \in Reports : status[s] # "none" => status'[s] = status[s]
    BY <1>2 DEF FilingNext, BeginFiling, DetectDuplicate, FileReport, FilingFails,
                LeavesWindow, rows, RowsAreFiled, TypeOK
  <2>3. \A t : "none" \notin AllowedFrom(t)
    BY DEF AllowedFrom
  <2>4. \A m \in Moderators : deciding[m] # Idle => deciding[m].report \in Reports
    BY DecidingFields
  <2> QED
    BY <2>1, <2>2, <2>3, <2>4 DEF RowsAreHeld, Idle, AllowedFrom
<1>3. ASSUME NEW m \in Moderators, DecidingNext(m)
      PROVE  RowsAreHeld'
  <2> USE DEF DecidingGoes, TypeOK
  <2>0. \A n \in Moderators : deciding[n] # Idle => deciding[n].report \in Reports
    BY DecidingFields
  <2>1. ASSUME NEW r \in Reports, NEW t \in Decision, Move(m, r, t)
        PROVE  RowsAreHeld'
    BY <2>1 DEF Move, RowsAreHeld, rows, Idle, AllowedFrom
  <2>2. CASE Recount(m) \/ StoreSignal(m)
    <3>1. deciding[m] # Idle
      BY <2>2 DEF Recount, StoreSignal, Idle
    <3>2. /\ status' = status
          /\ deciding'[m].report = deciding[m].report /\ deciding'[m].to = deciding[m].to
          /\ \A n \in Moderators : n # m => deciding'[n] = deciding[n]
      BY <2>2, <3>1, DecidingFields DEF Recount, StoreSignal, rows
    <3> QED
      BY <3>1, <3>2 DEF RowsAreHeld, Idle, AllowedFrom
  <2>3. CASE CommitDecision(m)
    <3>1. deciding[m] # Idle
      BY <2>3 DEF CommitDecision, Idle
    <3>2. \A s \in Reports : s # deciding[m].report => status'[s] = status[s]
      BY <2>3 DEF CommitDecision
    <3>3. /\ deciding'[m] = Idle
          /\ \A n \in Moderators : n # m => deciding'[n] = deciding[n]
      BY <2>3 DEF CommitDecision
    <3> QED
      BY <2>0, <3>1, <3>2, <3>3 DEF RowsAreHeld, Idle, AllowedFrom
  <2>4. CASE DecisionFails(m)
    BY <2>4 DEF DecisionFails, RowsAreHeld, rows, Idle, AllowedFrom
  <2> QED
    BY <1>3, <2>1, <2>2, <2>3, <2>4 DEF DecidingNext
<1> QED
  BY <1>1, <1>2, <1>3 DEF Next

LEMMA DupStep ==
  ASSUME TypeOK, DupInv, RowsAreHeld, [Next]_vars
  PROVE  DupInv'
<1> USE DEF DupInv, RowsAreFiled, FoundOriginals, DuplicateOfOriginal, IsOriginalFor
<1>1. CASE UNCHANGED vars
  BY <1>1 DEF vars, rows
<1>2. ASSUME NEW m \in Moderators, DecidingNext(m)
      PROVE  DupInv'
  <2>1. \A r \in Reports : status'[r] = "none" <=> status[r] = "none"
    BY <1>2, DecidingRows
  <2> QED
    BY <1>2, <2>1, DecidingRows DEF TypeOK
<1> QED
  BY <1>1, <1>2, DupFiling DEF Next

\* The invariants together, in every state.
LEMMA FiledAndHeld == Spec => [](TypeOK /\ DupInv /\ RowsAreHeld)
<1>1. Init => TypeOK /\ DupInv /\ RowsAreHeld
  BY TypeInit, DupInit, HeldInit
<1>2. TypeOK /\ DupInv /\ RowsAreHeld /\ [Next]_vars => (TypeOK /\ DupInv /\ RowsAreHeld)'
  BY TypeStep, DupStep, HeldStep DEF DupInv
<1> QED
  BY <1>1, <1>2, PTL DEF Spec

\* Chains of duplicates have length one: what a duplicate points at is a filed,
\* similar original of the same company, however submissions overlap.
THEOREM DuplicatesPointAtOriginals == Spec => []DuplicateOfOriginal
<1>1. DupInv => DuplicateOfOriginal
  BY DEF DupInv
<1> QED
  BY <1>1, FiledAndHeld, PTL

\* A verified or rejected report keeps its status, whatever number of
\* moderators and retries decide it.
THEOREM DecisionsAreFinal == Spec => DecidedIsFinal
<1>1. ASSUME TypeOK, DupInv, RowsAreHeld, [Next]_vars
      PROVE  [\A r \in Reports :
                status[r] \in {"verified", "rejected"} => status'[r] = status[r]]_vars
  <2>1. CASE UNCHANGED vars
    BY <2>1
  <2>2. ASSUME NEW m \in Moderators, DecidingNext(m)
        PROVE  \A r \in Reports :
                 status[r] \in {"verified", "rejected"} => status'[r] = status[r]
    BY <1>1, <2>2, DecidingRows
  <2>3. ASSUME NEW s \in Reports, FilingNext(s)
        PROVE  \A r \in Reports :
                 status[r] \in {"verified", "rejected"} => status'[r] = status[r]
    BY <1>1, <2>3 DEF FilingNext, BeginFiling, DetectDuplicate, FileReport, FilingFails,
                      LeavesWindow, rows, DupInv, RowsAreFiled, TypeOK
  <2> QED
    BY <1>1, <2>1, <2>2, <2>3 DEF Next
<1> QED
  BY <1>1, FiledAndHeld, PTL DEF Spec, DecidedIsFinal

-----------------------------------------------------------------------------
(***************************************************************************)
(* The reputation signal.                                                  *)
(***************************************************************************)

SignalInv == CountsAreBacked /\ SignalIsBacked

LEMMA SignalInit == Init => SignalInv
<1>1. \A c \in Companies : Counted(c) \in SUBSET Reports
  BY DEF Counted
<1>2. ReputationScoreFor(0) = None
  BY DEF ReputationScoreFor
<1> QED
  BY <1>1, <1>2, SetsOfReports DEF Init, SignalInv, CountsAreBacked, SignalIsBacked, Idle

\* Reports that count once count for ever: statuses, duplicates and companies
\* of decided reports do not change.
LEMMA CountingIsStable ==
  ASSUME TypeOK, DupInv, RowsAreHeld, [Next]_vars,
         NEW s \in Reports, status[s] = "verified"
  PROVE  /\ status'[s] = "verified"
         /\ duplicateOf'[s] = duplicateOf[s]
         /\ company'[s] = company[s]
<1> USE DEF DupInv, RowsAreFiled, TypeOK
<1>1. CASE UNCHANGED vars
  BY <1>1 DEF vars, rows
<1>2. ASSUME NEW m \in Moderators, DecidingNext(m)
      PROVE  /\ status'[s] = "verified"
             /\ duplicateOf'[s] = duplicateOf[s]
             /\ company'[s] = company[s]
  BY <1>2, DecidingRows
<1>3. ASSUME NEW r \in Reports, FilingNext(r)
      PROVE  /\ status'[s] = "verified"
             /\ duplicateOf'[s] = duplicateOf[s]
             /\ company'[s] = company[s]
  BY <1>3 DEF FilingNext, BeginFiling, DetectDuplicate, FileReport, FilingFails,
              LeavesWindow, rows
<1> QED
  BY <1>1, <1>2, <1>3 DEF Next

\* A row held by a decision keeps what its count depends on.
LEMMA HeldRowIsStable ==
  ASSUME TypeOK, DupInv, RowsAreHeld, [Next]_vars, NEW m \in Moderators, deciding[m] # Idle
  PROVE  LET r == deciding[m].report IN
           company'[r] = company[r] /\ duplicateOf'[r] = duplicateOf[r]
<1> DEFINE r == deciding[m].report
<1>1. r \in Reports /\ status[r] # "none"
  BY DecidingFields DEF RowsAreHeld, AllowedFrom
<1> HIDE DEF r
<1> USE DEF DupInv, RowsAreFiled, TypeOK
<1>2. CASE UNCHANGED vars
  BY <1>2 DEF vars, rows
<1>3. ASSUME NEW n \in Moderators, DecidingNext(n)
      PROVE  company'[r] = company[r] /\ duplicateOf'[r] = duplicateOf[r]
  BY <1>3, DecidingRows
<1>4. ASSUME NEW q \in Reports, FilingNext(q)
      PROVE  company'[r] = company[r] /\ duplicateOf'[r] = duplicateOf[r]
  BY <1>1, <1>4 DEF FilingNext, BeginFiling, DetectDuplicate, FileReport, FilingFails,
                    LeavesWindow, rows
<1> QED
  BY <1>2, <1>3, <1>4 DEF Next, r

\* While a decision stands where it stood, or goes on with the same report, its
\* backing only grows.
LEMMA BackingGrows ==
  ASSUME TypeOK, DupInv, RowsAreHeld, [Next]_vars, NEW m \in Moderators,
         deciding[m] # Idle,
         deciding'[m].report = deciding[m].report, deciding'[m].to = deciding[m].to
  PROVE  Cardinality(Backing(m)) <= Cardinality(Backing(m)')
<1>1. deciding[m].report \in Reports
  BY DecidingFields
<1>2. \A s \in Reports : s \in Backing(m) => s \in Backing(m)'
  BY <1>1, CountingIsStable, HeldRowIsStable DEF Backing, Counts, StatusSeen
<1>3. Backing(m) \in SUBSET Reports /\ Backing(m)' \in SUBSET Reports
  BY DEF Backing
<1> QED
  BY <1>2, <1>3, SetsOfReports

LEMMA BackedStep ==
  ASSUME TypeOK, DupInv, RowsAreHeld, SignalInv, [Next]_vars
  PROVE  CountsAreBacked'
<1> SUFFICES ASSUME NEW m \in Moderators, deciding'[m].stage \in {"counted", "stored"}
             PROVE  /\ company'[deciding'[m].report] # None
                    /\ deciding'[m].found <= Cardinality(Backing(m)')
  BY DEF CountsAreBacked
<1> USE DEF DecidingGoes, TypeOK
<1>1. CASE deciding'[m] = deciding[m]
  <2>1. deciding[m] # Idle
    BY <1>1 DEF Idle
  <2>2. deciding[m].found \in Nat /\ deciding[m].report \in Reports
    BY <1>1, <2>1, DecidingFields
  <2>3. Cardinality(Backing(m)) <= Cardinality(Backing(m)')
    BY <1>1, <2>1, BackingGrows
  <2>4. Backing(m) \in SUBSET Reports /\ Backing(m)' \in SUBSET Reports
    BY DEF Backing
  <2>5. Cardinality(Backing(m)) \in Nat /\ Cardinality(Backing(m)') \in Nat
    BY <2>4, SetsOfReports
  <2>6. deciding[m].found <= Cardinality(Backing(m)) /\ company[deciding[m].report] # None
    BY <1>1 DEF SignalInv, CountsAreBacked
  <2> QED
    BY <1>1, <2>1, <2>2, <2>3, <2>5, <2>6, HeldRowIsStable
<1>2. CASE Recount(m)
  <2>1. deciding[m] # Idle
    BY <1>2 DEF Recount, Idle
  <2>2. /\ deciding'[m] = [stage |-> "counted", report |-> deciding[m].report,
                          to |-> deciding[m].to, found |-> Cardinality(Backing(m))]
        /\ company[deciding[m].report] # None
        /\ UNCHANGED company
    BY <1>2 DEF Recount, Backing
  <2>3. Cardinality(Backing(m)) <= Cardinality(Backing(m)')
    BY <2>1, <2>2, BackingGrows
  <2> QED
    BY <2>2, <2>3
<1>3. CASE StoreSignal(m)
  <2>1. deciding[m] # Idle /\ deciding[m].stage = "counted"
    BY <1>3 DEF StoreSignal, Idle
  <2>2. /\ deciding'[m].report = deciding[m].report
        /\ deciding'[m].to = deciding[m].to
        /\ deciding'[m].found = deciding[m].found
        /\ UNCHANGED company
    BY <1>3, <2>1, DecidingFields DEF StoreSignal
  <2>3. Cardinality(Backing(m)) <= Cardinality(Backing(m)')
    BY <2>1, <2>2, BackingGrows
  <2>4. Backing(m) \in SUBSET Reports /\ Backing(m)' \in SUBSET Reports
    BY DEF Backing
  <2>5. Cardinality(Backing(m)) \in Nat /\ Cardinality(Backing(m)') \in Nat
    BY <2>4, SetsOfReports
  <2>6. deciding[m].found <= Cardinality(Backing(m)) /\ company[deciding[m].report] # None
    BY <2>1 DEF SignalInv, CountsAreBacked
  <2>7. deciding[m].found \in Nat
    BY <2>1, DecidingFields
  <2> QED
    BY <2>2, <2>3, <2>5, <2>6, <2>7
<1>4. CASE deciding'[m] # deciding[m] /\ ~Recount(m) /\ ~StoreSignal(m)
  <2>1. ASSUME NEW r \in Reports, FilingNext(r)
        PROVE  FALSE
    BY <1>4, <2>1 DEF FilingNext, BeginFiling, DetectDuplicate, FileReport, FilingFails,
                      LeavesWindow
  <2>2. ASSUME NEW n \in Moderators, DecidingNext(n), n # m
        PROVE  FALSE
    BY <1>4, <2>2 DEF DecidingNext, Move, Recount, StoreSignal, CommitDecision, DecisionFails
  <2>3. CASE DecidingNext(m)
    BY <1>4, <2>3 DEF DecidingNext, Move, CommitDecision, DecisionFails, Idle
  <2>4. ~UNCHANGED vars
    BY <1>4 DEF vars
  <2> QED
    BY <2>1, <2>2, <2>3, <2>4 DEF Next
<1> QED
  BY <1>1, <1>2, <1>3, <1>4

\* Storing a count of c that its decision backs, or no count, keeps the signal
\* of c below what counts for c.
LEMMA SignalStep ==
  ASSUME TypeOK, DupInv, RowsAreHeld, SignalInv, [Next]_vars
  PROVE  SignalIsBacked'
<1> SUFFICES ASSUME NEW c \in Companies
             PROVE  /\ count'[c] <= Cardinality(Counted(c)')
                    /\ score'[c] = ReputationScoreFor(count'[c])
  BY DEF SignalIsBacked, ReputationScoreFor, RoundRatio
<1>1. Counted(c) \in SUBSET Reports /\ Counted(c)' \in SUBSET Reports
  BY DEF Counted
<1>2. Cardinality(Counted(c)) \in Nat /\ Cardinality(Counted(c)') \in Nat
  BY <1>1, SetsOfReports
<1>3. Counted(c) \subseteq Counted(c)'
  BY CountingIsStable DEF Counted
<1>4. Cardinality(Counted(c)) <= Cardinality(Counted(c)')
  BY <1>1, <1>3, SetsOfReports
<1>5. count[c] \in Nat
  BY DEF TypeOK
<1>6. CASE count'[c] = count[c] /\ score'[c] = score[c]
  BY <1>2, <1>4, <1>5, <1>6 DEF SignalInv, SignalIsBacked
<1>7. ASSUME NEW m \in Moderators, CommitDecision(m), deciding[m].stage = "stored",
             company[deciding[m].report] = c
      PROVE  /\ count'[c] <= Cardinality(Counted(c)')
             /\ score'[c] = ReputationScoreFor(count'[c])
  <2>1. deciding[m] # Idle
    BY <1>7 DEF Idle
  <2>2. deciding[m].found \in Nat /\ deciding[m].report \in Reports
    BY <1>7, <2>1, DecidingFields
  <2>3. count'[c] = deciding[m].found /\ score'[c] = ReputationScoreFor(deciding[m].found)
    BY <1>7 DEF CommitDecision, TypeOK
  <2>4. Backing(m) = Counted(c)'
    BY <1>7, <2>2 DEF Backing, Counts, StatusSeen, Counted, CommitDecision, TypeOK
  <2>5. deciding[m].found <= Cardinality(Backing(m))
    BY <1>7 DEF SignalInv, CountsAreBacked
  <2> QED
    BY <2>3, <2>4, <2>5
<1>8. CASE ~(count'[c] = count[c] /\ score'[c] = score[c])
  <2>1. ASSUME NEW r \in Reports, FilingNext(r)
        PROVE  FALSE
    BY <1>8, <2>1 DEF FilingNext, BeginFiling, DetectDuplicate, FileReport, FilingFails,
                      LeavesWindow, signal
  <2>2. ~UNCHANGED vars
    BY <1>8 DEF vars, signal
  <2>3. PICK m \in Moderators : DecidingNext(m)
    BY <2>1, <2>2 DEF Next
  <2>4. CommitDecision(m) /\ deciding[m].stage = "stored" /\ company[deciding[m].report] = c
    BY <1>8, <2>3 DEF DecidingNext, Move, Recount, StoreSignal, CommitDecision,
                      DecisionFails, signal, TypeOK
  <2> QED
    BY <1>7, <2>4
<1> QED
  BY <1>6, <1>8

\* The stored reputation of a company never exceeds what its verified originals
\* back, whatever the order in which counts are taken and stored.
THEOREM ReputationIsBacked == Spec => []SignalIsBacked
<1>1. Init => SignalInv
  BY SignalInit
<1>2. TypeOK /\ DupInv /\ RowsAreHeld /\ SignalInv /\ [Next]_vars => SignalInv'
  BY BackedStep, SignalStep DEF SignalInv
<1>3. SignalInv => SignalIsBacked
  BY DEF SignalInv
<1> QED
  BY <1>1, <1>2, <1>3, FiledAndHeld, PTL DEF Spec

-----------------------------------------------------------------------------
(***************************************************************************)
(* Where the reputation converges.  SignalConverges fails because two      *)
(* decisions about one company may each count before the other commits;    *)
(* nothing else can make it fail.                                          *)
(***************************************************************************)

\* No two decisions about one company are in progress at the same time.
DecisionsApart ==
  \A m, n \in Moderators :
    /\ m # n /\ deciding[m] # Idle /\ deciding[n] # Idle
    /\ company[deciding[m].report] # None
    => company[deciding[n].report] # company[deciding[m].report]

\* Counts are exact, those that are stored and those that are taken.
ExactInv ==
  /\ \A c \in Companies : count[c] = Cardinality(Counted(c))
  /\ \A m \in Moderators :
       deciding[m].stage \in {"counted", "stored"} =>
         /\ company[deciding[m].report] # None
         /\ deciding[m].found = Cardinality(Backing(m))

\* How a step may change the row of a report.
LEMMA RowMoves ==
  ASSUME TypeOK, DupInv, RowsAreHeld, [Next]_vars, NEW s \in Reports
  PROVE  /\ status[s] # "none" => company'[s] = company[s] /\ duplicateOf'[s] = duplicateOf[s]
         /\ status[s] = "none" => status'[s] \in {"none", "submitted"}
         /\ status[s] # "none" /\ status'[s] # status[s] =>
              \E n \in Moderators : CommitDecision(n) /\ deciding[n].report = s
<1> USE DEF DupInv, RowsAreFiled, TypeOK
<1>1. CASE UNCHANGED vars
  BY <1>1 DEF vars, rows
<1>2. ASSUME NEW r \in Reports, FilingNext(r)
      PROVE  /\ status[s] # "none" =>
                  /\ company'[s] = company[s] /\ duplicateOf'[s] = duplicateOf[s]
                  /\ status'[s] = status[s]
             /\ status[s] = "none" => status'[s] \in {"none", "submitted"}
  BY <1>2 DEF FilingNext, BeginFiling, DetectDuplicate, FileReport, FilingFails,
              LeavesWindow, rows
<1>3. ASSUME NEW n \in Moderators, DecidingNext(n)
      PROVE  /\ company'[s] = company[s] /\ duplicateOf'[s] = duplicateOf[s]
             /\ status[s] = "none" => status'[s] = status[s]
             /\ status'[s] # status[s] => CommitDecision(n) /\ deciding[n].report = s
  <2>1. /\ company' = company /\ duplicateOf' = duplicateOf
        /\ status[s] = "none" => status'[s] = status[s]
    BY <1>3, DecidingRows
  <2>2. CASE CommitDecision(n)
    BY <2>1, <2>2 DEF CommitDecision
  <2>3. CASE ~CommitDecision(n)
    BY <1>3, <2>1, <2>3 DEF DecidingNext, Move, Recount, StoreSignal, DecisionFails, rows
  <2> QED
    BY <2>1, <2>2, <2>3
<1> QED
  BY <1>1, <1>2, <1>3 DEF Next

\* What backs a count that was taken stays, until it is committed.
LEMMA BackingStays ==
  ASSUME TypeOK, DupInv, RowsAreHeld, DecisionsApart, [Next]_vars, NEW m \in Moderators,
         deciding[m] # Idle, deciding'[m] # Idle, company[deciding[m].report] # None,
         deciding'[m].report = deciding[m].report, deciding'[m].to = deciding[m].to
  PROVE  Backing(m)' = Backing(m)
<1> DEFINE r == deciding[m].report
<1>1. r \in Reports /\ status[r] # "none" /\ r = deciding'[m].report
  BY DecidingFields DEF RowsAreHeld, AllowedFrom
<1>2. company'[r] = company[r] /\ duplicateOf'[r] = duplicateOf[r]
  BY <1>1, RowMoves
<1>3. ASSUME NEW s \in Reports, s # r, status[s] # "none", company[s] = company[r]
      PROVE  status'[s] = status[s] /\ company'[s] = company[s] /\ duplicateOf'[s] = duplicateOf[s]
  <2>1. company'[s] = company[s] /\ duplicateOf'[s] = duplicateOf[s]
    BY <1>3, RowMoves
  <2>2. ASSUME NEW n \in Moderators, CommitDecision(n), deciding[n].report = s
        PROVE  FALSE
    <3>1. n # m /\ deciding[n] # Idle
      BY <1>3, <2>2 DEF CommitDecision, Idle
    <3> QED
      BY <1>3, <2>2, <3>1 DEF DecisionsApart
  <2> QED
    BY <1>3, <2>1, <2>2, RowMoves
<1>4. ASSUME NEW s \in Reports, s # r, status[s] # "none", company[s] # company[r]
      PROVE  company'[s] # company'[r]
  BY <1>2, <1>4, RowMoves
<1>5. ASSUME NEW s \in Reports, s # r, status[s] = "none"
      PROVE  status'[s] # "verified"
  BY <1>5, RowMoves
<1> HIDE DEF r
<1>6. \A s \in Reports : s \in Backing(m)' <=> s \in Backing(m)
  BY <1>1, <1>2, <1>3, <1>4, <1>5 DEF Backing, Counts, StatusSeen, r
<1> QED
  BY <1>6 DEF Backing

LEMMA ExactInit == Init => ExactInv
<1>1. \A c \in Companies : Init => Counted(c) = {}
  BY DEF Counted, Init
<1> QED
  BY <1>1, FS_EmptySet DEF Init, ExactInv, Idle

\* A count is exact from the statement that takes it to its commit.
LEMMA TakenStaysExact ==
  ASSUME TypeOK, DupInv, RowsAreHeld, DecisionsApart, ExactInv, [Next]_vars,
         NEW m \in Moderators, deciding'[m].stage \in {"counted", "stored"}
  PROVE  /\ company'[deciding'[m].report] # None
         /\ deciding'[m].found = Cardinality(Backing(m)')
<1> USE DEF DecidingGoes, TypeOK
<1>0. deciding'[m] # Idle
  BY DEF Idle
<1>1. ASSUME deciding[m] # Idle, company[deciding[m].report] # None,
             deciding'[m].report = deciding[m].report, deciding'[m].to = deciding[m].to
      PROVE  Backing(m)' = Backing(m) /\ company'[deciding'[m].report] # None
  BY <1>0, <1>1, BackingStays, HeldRowIsStable
<1>2. CASE deciding'[m] = deciding[m]
  BY <1>0, <1>1, <1>2 DEF ExactInv
<1>3. CASE Recount(m)
  <2>1. deciding[m] # Idle
    BY <1>3 DEF Recount, Idle
  <2>2. /\ deciding'[m] = [stage |-> "counted", report |-> deciding[m].report,
                          to |-> deciding[m].to, found |-> Cardinality(Backing(m))]
        /\ company[deciding[m].report] # None
    BY <1>3 DEF Recount, Backing
  <2> QED
    BY <1>1, <2>1, <2>2
<1>4. CASE StoreSignal(m)
  <2>1. deciding[m] # Idle /\ deciding[m].stage = "counted"
    BY <1>4 DEF StoreSignal, Idle
  <2>2. /\ deciding'[m].report = deciding[m].report
        /\ deciding'[m].to = deciding[m].to
        /\ deciding'[m].found = deciding[m].found
    BY <1>4, <2>1, DecidingFields DEF StoreSignal
  <2> QED
    BY <1>1, <2>1, <2>2 DEF ExactInv
<1>5. CASE deciding'[m] # deciding[m] /\ ~Recount(m) /\ ~StoreSignal(m)
  <2>1. ASSUME NEW r \in Reports, FilingNext(r)
        PROVE  FALSE
    BY <1>5, <2>1 DEF FilingNext, BeginFiling, DetectDuplicate, FileReport, FilingFails,
                      LeavesWindow
  <2>2. ASSUME NEW n \in Moderators, DecidingNext(n), n # m
        PROVE  FALSE
    BY <1>5, <2>2 DEF DecidingNext, Move, Recount, StoreSignal, CommitDecision, DecisionFails
  <2>3. CASE DecidingNext(m)
    BY <1>5, <2>3 DEF DecidingNext, Move, CommitDecision, DecisionFails, Idle
  <2>4. ~UNCHANGED vars
    BY <1>5 DEF vars
  <2> QED
    BY <2>1, <2>2, <2>3, <2>4 DEF Next
<1> QED
  BY <1>2, <1>3, <1>4, <1>5

\* Only the commit of a decision about c changes what counts for c, and it
\* stores the count that is then exact.
LEMMA StoredStaysExact ==
  ASSUME TypeOK, DupInv, RowsAreHeld, ExactInv, [Next]_vars, NEW c \in Companies
  PROVE  count'[c] = Cardinality(Counted(c)')
<1>1. c # None
  BY ReportsAssumption
<1>2. ASSUME NEW m \in Moderators, CommitDecision(m), company[deciding[m].report] = c
      PROVE  count'[c] = Cardinality(Counted(c)')
  <2>1. deciding[m] # Idle
    BY <1>2 DEF CommitDecision, Idle
  <2>2. deciding[m].stage = "stored" /\ deciding[m].report \in Reports
    BY <1>1, <1>2, <2>1, DecidingFields DEF CommitDecision
  <2>3. count'[c] = deciding[m].found
    BY <1>2, <2>2 DEF CommitDecision, TypeOK
  <2>4. Backing(m) = Counted(c)'
    BY <1>2, <2>2 DEF Backing, Counts, StatusSeen, Counted, CommitDecision, TypeOK
  <2> QED
    BY <2>2, <2>3, <2>4 DEF ExactInv
<1>3. CASE \A m \in Moderators : CommitDecision(m) => company[deciding[m].report] # c
  <2>1. count'[c] = count[c]
    <3>1. CASE UNCHANGED vars
      BY <3>1 DEF vars, signal
    <3>2. ASSUME NEW r \in Reports, FilingNext(r)
          PROVE  count' = count
      BY <3>2 DEF FilingNext, BeginFiling, DetectDuplicate, FileReport, FilingFails,
                  LeavesWindow, signal
    <3>3. ASSUME NEW m \in Moderators, DecidingNext(m)
          PROVE  count'[c] = count[c]
      BY <1>3, <3>3 DEF DecidingNext, Move, Recount, StoreSignal, CommitDecision,
                        DecisionFails, signal, TypeOK
    <3> QED
      BY <3>1, <3>2, <3>3 DEF Next
  <2>2. ASSUME NEW s \in Reports
        PROVE  s \in Counted(c)' <=> s \in Counted(c)
    <3>1. CASE status[s] = "none"
      BY <3>1, RowMoves DEF Counted
    <3>2. CASE status[s] # "none" /\ status'[s] = status[s]
      BY <3>2, RowMoves DEF Counted
    <3>3. CASE status[s] # "none" /\ status'[s] # status[s]
      <4>1. company[s] # c
        BY <1>3, <3>3, RowMoves
      <4> QED
        BY <3>3, <4>1, RowMoves DEF Counted
    <3> QED
      BY <3>1, <3>2, <3>3
  <2>3. Counted(c)' = Counted(c)
    BY <2>2 DEF Counted
  <2> QED
    BY <2>1, <2>3 DEF ExactInv
<1> QED
  BY <1>2, <1>3

\* As long as decisions about one company do not overlap, however those about
\* different companies, submissions and failures do, the stored signal is the
\* full count.
THEOREM SeparateDecisionsConverge == Spec /\ []DecisionsApart => []SignalConverges
<1>1. TypeOK /\ DupInv /\ RowsAreHeld /\ DecisionsApart /\ ExactInv /\ [Next]_vars => ExactInv'
  BY TakenStaysExact, StoredStaysExact DEF ExactInv
<1>2. ExactInv => SignalConverges
  BY DEF ExactInv, SignalConverges
<1> QED
  BY <1>1, <1>2, ExactInit, FiledAndHeld, PTL DEF Spec
=============================================================================
