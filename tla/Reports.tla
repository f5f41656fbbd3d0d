------------------------------- MODULE Reports -------------------------------
(***************************************************************************)
(* Scam reports of the OfferLeaks API (services/report_service.py): users  *)
(* submit reports, duplicates are flagged as they are filed, moderators    *)
(* decide them, and every decision counts the verified reports of the      *)
(* company again and stores the count as the company's reputation signal.  *)
(*                                                                         *)
(* Submissions and decisions are transactions at READ COMMITTED: a         *)
(* statement sees what was committed before it began and what its own      *)
(* transaction wrote.  An UPDATE or upsert of a row waits while another    *)
(* transaction has written the row and not yet ended.                      *)
(***************************************************************************)
EXTENDS Integers, FiniteSets

CONSTANTS
  Reports,      \* reports that may be filed
  Companies,
  None,         \* NULL, nothing in hand
  Similar,      \* pairs <<new, old>> with is_duplicate_description
  Moderators,   \* status requests handled at the same time
  Saturation    \* report_reputation_score_saturation_count

ASSUME ReportsAssumption ==
  /\ IsFiniteSet(Reports)
  /\ Reports \cap {"idle", "begun", "failed"} = {}
  /\ None \notin Reports \union Companies \union (0..100)
  /\ Similar \subseteq Reports \X Reports
  /\ Saturation \in Int

VARIABLES
  \* the reports table
  status,       \* "none" where there is no row
  company,      \* company_id, None where no company is resolved
  duplicateOf,  \* duplicate_of_report_id; is_duplicate is # None
  created,      \* created_at: the order in which the transactions began
  recent,       \* reports filed within the duplicate window
  \* company_signals
  count,        \* verified_report_count of each company
  score,        \* internal_reputation_score, None for no signal
  \* transactions
  filing,       \* of each report: what duplicate detection found
  deciding      \* of each moderator: the status request in progress

rows     == <<status, duplicateOf, recent>>
signal   == <<count, score>>
vars == <<rows, company, created, signal, filing, deciding>>

-----------------------------------------------------------------------------
Status == {"none", "submitted", "under_review", "verified", "rejected"}
Decision == {"under_review", "verified", "rejected"}

\* A submission that is not in progress, has begun, or has looked for
\* duplicates: the original it found, or itself where it found none.
Filing == {"idle", "begun", "failed"} \union Reports

\* A request that has moved its report, has counted, or has stored the count.
Idle == [stage |-> "idle"]
Deciding ==
  {Idle}
    \union [stage : {"moved"}, report : Reports, to : Decision]
    \union [stage : {"counted", "stored"}, report : Reports, to : Decision, found : Nat]

TypeOK ==
  /\ status \in [Reports -> Status]
  /\ company \in [Reports -> Companies \union {None}]
  /\ duplicateOf \in [Reports -> Reports \union {None}]
  /\ created \in [Reports -> Nat]
  /\ recent \subseteq Reports
  /\ count \in [Companies -> Nat]
  /\ score \in [Companies -> 0..100 \union {None}]
  /\ filing \in [Reports -> Filing]
  /\ deciding \in [Moderators -> Deciding]

Init ==
  /\ status = [r \in Reports |-> "none"]
  /\ company = [r \in Reports |-> None]
  /\ duplicateOf = [r \in Reports |-> None]
  /\ created = [r \in Reports |-> 0]
  /\ recent = {}
  /\ count = [c \in Companies |-> 0]
  /\ score = [c \in Companies |-> None]
  /\ filing = [r \in Reports |-> "idle"]
  /\ deciding = [m \in Moderators |-> Idle]

-----------------------------------------------------------------------------
(***************************************************************************)
(* submit_report.                                                          *)
(***************************************************************************)
FilingGoes(r, to) == filing' = [filing EXCEPT ![r] = to]

\* The transaction begins, which is its created_at; validation has passed, and
\* the company is the one of the request or of the reported offer, if any.
BeginFiling(r, c) ==
  /\ filing[r] = "idle"
  /\ created[r] = 0
  /\ company' = [company EXCEPT ![r] = c]
  /\ created' = [created EXCEPT ![r] = 1 + Cardinality({s \in Reports : created[s] > 0})]
  /\ FilingGoes(r, "begun")
  /\ UNCHANGED <<rows, signal, deciding>>

\* Mutation: duplicates are candidates too.
WithDuplicates(r) ==
  {s \in recent : company[s] = company[r] /\ company[s] # None /\ <<r, s>> \in Similar}

\* Recent reports of the company, not duplicates themselves, that are similar.
Originals(r) ==
  {s \in recent :
    /\ company[s] = company[r]
    /\ company[s] # None
    /\ duplicateOf[s] = None
    /\ <<r, s>> \in Similar}

\* _detect_duplicate: the oldest of them, if any.
DetectDuplicate(r) ==
  /\ filing[r] = "begun"
  /\ \/ /\ Originals(r) = {}
        /\ FilingGoes(r, r)
     \/ \E s \in Originals(r) :
          /\ \A t \in Originals(r) : created[s] <= created[t]
          /\ FilingGoes(r, s)
  /\ UNCHANGED <<rows, company, created, signal, deciding>>

\* The row is inserted and committed.
FileReport(r) ==
  /\ filing[r] \in Reports
  /\ status' = [status EXCEPT ![r] = "submitted"]
  /\ duplicateOf' = [duplicateOf EXCEPT ![r] = IF filing[r] = r THEN None ELSE filing[r]]
  /\ recent' = recent \union {r}
  /\ FilingGoes(r, "idle")
  /\ UNCHANGED <<company, created, signal, deciding>>

\* The process stops, or the database fails: no row.
FilingFails(r) ==
  /\ filing[r] \in {"begun"} \union Reports
  /\ FilingGoes(r, "failed")
  /\ UNCHANGED <<rows, company, created, signal, deciding>>

\* Time passes: the oldest report leaves the duplicate window.
LeavesWindow(r) ==
  /\ r \in recent
  /\ \A s \in recent : created[r] <= created[s]
  /\ recent' = recent \ {r}
  /\ UNCHANGED <<status, company, duplicateOf, created, signal, filing, deciding>>

-----------------------------------------------------------------------------
(***************************************************************************)
(* transition_status.                                                      *)
(***************************************************************************)
DecidingGoes(m, to) == deciding' = [deciding EXCEPT ![m] = to]

\* Mutation: every change of status is allowed.
AllowedFromAny(t) == Status \ {"none", t}

\* _ALLOWED_TRANSITIONS.
AllowedFrom(t) ==
  IF t = "under_review" THEN {"submitted"} ELSE {"submitted", "under_review"}

\* try_transition_status: the conditional UPDATE, once no other transaction
\* has the row.  A request that matches no row changes nothing: it is the
\* no-op of a retry or is answered with an error.
Move(m, r, t) ==
  /\ deciding[m] = Idle
  /\ status[r] \in AllowedFrom(t)
  /\ \A n \in Moderators : deciding[n] # Idle => deciding[n].report # r
  /\ DecidingGoes(m, [stage |-> "moved", report |-> r, to |-> t])
  /\ UNCHANGED <<rows, company, created, signal, filing>>

\* The statuses that the transaction of m sees.
StatusSeen(m, s) == IF s = deciding[m].report THEN deciding[m].to ELSE status[s]

\* Mutation: duplicates count.
CountsAnyway(s, st) == st = "verified"

\* WHERE clause of count_verified_non_duplicate.
Counts(s, st) == st = "verified" /\ duplicateOf[s] = None

\* The full re-count.
Recount(m) ==
  /\ deciding[m].stage = "moved"
  /\ company[deciding[m].report] # None
  /\ LET c == company[deciding[m].report]
         found == {s \in Reports : company[s] = c /\ Counts(s, StatusSeen(m, s))}
     IN  DecidingGoes(m, [stage |-> "counted", report |-> deciding[m].report,
                          to |-> deciding[m].to, found |-> Cardinality(found)])
  /\ UNCHANGED <<rows, company, created, signal, filing>>

\* The upsert of the company's signal, once no other transaction has its row.
StoreSignal(m) ==
  /\ deciding[m].stage = "counted"
  /\ \A n \in Moderators :
       deciding[n].stage = "stored" =>
         company[deciding[n].report] # company[deciding[m].report]
  /\ DecidingGoes(m, [deciding[m] EXCEPT !.stage = "stored"])
  /\ UNCHANGED <<rows, company, created, signal, filing>>

\* Python's round() of a / b: ties go to the even neighbour.
RoundRatio(a, b) ==
  LET q == a \div b
      rest == 2 * (a % b)
  IN  IF rest < b \/ (rest = b /\ q % 2 = 0) THEN q ELSE q + 1

\* Mutation: no upper bound.
Uncapped(n) ==
  IF n = 0 THEN None ELSE RoundRatio(100 * n, IF Saturation > 1 THEN Saturation ELSE 1)

\* _reputation_score_for; floating point is taken to be exact.
ReputationScoreFor(n) ==
  LET saturation == IF Saturation > 1 THEN Saturation ELSE 1
      rounded == RoundRatio(100 * n, saturation)
  IN  IF n = 0 THEN None ELSE IF rounded > 100 THEN 100 ELSE rounded

\* The transaction commits; a report of no company has no signal to store.
CommitDecision(m) ==
  LET d == deciding[m]
      c == company[d.report]
  IN
  /\ \/ /\ d.stage = "stored"
        /\ count' = [count EXCEPT ![c] = d.found]
        /\ score' = [score EXCEPT ![c] = ReputationScoreFor(d.found)]
     \/ /\ d.stage = "moved"
        /\ c = None
        /\ UNCHANGED signal
  /\ status' = [status EXCEPT ![d.report] = d.to]
  /\ DecidingGoes(m, Idle)
  /\ UNCHANGED <<company, duplicateOf, recent, created, filing>>

\* The process stops or the database fails: nothing is committed.
DecisionFails(m) ==
  /\ deciding[m] # Idle
  /\ DecidingGoes(m, Idle)
  /\ UNCHANGED <<rows, company, created, signal, filing>>

-----------------------------------------------------------------------------
FilingNext(r) ==
  \/ \E c \in Companies \union {None} : BeginFiling(r, c)
  \/ DetectDuplicate(r)
  \/ FileReport(r)
  \/ FilingFails(r)
  \/ LeavesWindow(r)

DecidingNext(m) ==
  \/ \E r \in Reports, t \in Decision : Move(m, r, t)
  \/ Recount(m)
  \/ StoreSignal(m)
  \/ CommitDecision(m)
  \/ DecisionFails(m)

Next ==
  \/ \E r \in Reports : FilingNext(r)
  \/ \E m \in Moderators : DecidingNext(m)

Spec == Init /\ [][Next]_vars

-----------------------------------------------------------------------------
(***************************************************************************)
(* Properties.                                                             *)
(***************************************************************************)

\* Once a report is verified or rejected no request, concurrent or retried,
\* changes its status (docs/reports.md, "terminal").
DecidedIsFinal ==
  [][\A r \in Reports : status[r] \in {"verified", "rejected"} => status'[r] = status[r]]_vars

\* However submissions overlap, the chain of duplicates has length one: what a
\* duplicate points at is a filed, similar report of its company that is not
\* itself a duplicate.
DuplicateOfOriginal ==
  \A r \in Reports :
    LET root == duplicateOf[r] IN
      root # None =>
        /\ status[root] # "none"
        /\ duplicateOf[root] = None
        /\ company[root] = company[r]
        /\ <<r, root>> \in Similar

\* The reports that count for a company.
Counted(c) == {r \in Reports : company[r] = c /\ status[r] = "verified" /\ duplicateOf[r] = None}

\* The stored reputation never exceeds what verified originals back, whatever
\* the order in which counts are taken and stored: rejected reports,
\* duplicates and aborted decisions never pollute it.
SignalIsBacked ==
  \A c \in Companies :
    /\ count[c] <= Cardinality(Counted(c))
    /\ score[c] = ReputationScoreFor(count[c])

(***************************************************************************)
(* What the documentation says and the code does not do.                   *)
(***************************************************************************)

\* docs/reports.md: the re-count "always converges on the same correct
\* number".  When no decision is in progress, the signal is the full count.
SignalConverges ==
  (\A m \in Moderators : deciding[m] = Idle) =>
    \A c \in Companies : count[c] = Cardinality(Counted(c))
=============================================================================
