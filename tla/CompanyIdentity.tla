-------------------------- MODULE CompanyIdentity --------------------------
(***************************************************************************)
(* Which company an analysis is attached to: the extraction and            *)
(* normalisation of names and domains, resolve_for_analysis, and the       *)
(* upgrade of a company first known by its name alone                      *)
(* (company_profile_service.py, company_repository.py).  CompanyProfile    *)
(* models the age and the refresh of a profile.                            *)
(*                                                                         *)
(* The stage runs in the transaction of the analysis, at READ COMMITTED,   *)
(* which stays open during the AI call: what an analysis has written and   *)
(* not committed is kept in txn, makes others wait, and is dropped with    *)
(* the transaction.  A step is one statement; a statement that waits is    *)
(* not enabled.  In a cycle of waits Postgres aborts one transaction.      *)
(***************************************************************************)
EXTENDS FiniteSets

CONSTANTS
  Analyses,
  Ids,          \* ids of companies (bound: as many companies as ids)
  Domains,      \* what normalize_domain returns
  Freemail,     \* FREEMAIL_DOMAINS
  Platforms,    \* _THIRD_PARTY_PLATFORM_DOMAINS
  Names,        \* what normalize_company_name returns
  TooLong,      \* those the columns have no room for, as a key or a domain
  Letters,      \* the documents: the domains of their e-mail addresses that
                \* occur most, of their URLs, and the company name
  None

ASSUME IdentityAssumption ==
  /\ Letters \subseteq [emails : SUBSET Domains, urls : SUBSET Domains, name : Names \union {None}]
  /\ Domains \intersect Names = {}
  /\ TooLong \subseteq Domains \union Names
  /\ None \notin Domains \union Names \union Ids

VARIABLES
  company,      \* the companies table, None where there is no row
  signal,       \* email_domain_match of company_signals, "absent": no row
  link,         \* Analysis.company_id
  status,       \* Analysis.status
  txn,          \* what each analysis holds and has not committed
  outcome       \* history: how the company stage of each analysis ended

tables == <<company, signal, link, status>>
vars == <<tables, txn, outcome>>

-----------------------------------------------------------------------------
\* A usable domain, and the key of a company: "domain:<d>" or "name:<n>".
Usable == Domains \ Freemail
Row == [key : Usable \union Names, domain : Usable \union {None}, name : Names \union {None}]

ASSUME NoneIsNoRow == None \notin Row

Steps == {"new", "by_domain", "by_name", "upgrade", "unique", "insert", "reread",
          "signal", "ensure", "link", "rest", "broken", "ended"}

\* id: the company object of the session, and seen: its domain as the session
\* has it.  row, match and linked: what the transaction has written of the
\* company's row, of its signal and of the analysis.  expired: a rollback has
\* expired the analysis of the session.
Txn == [at : Steps, domain : Usable \union {None}, name : Names \union {None},
        id : Ids \union {None}, seen : Usable \union {None},
        row : Row \union {None}, match : {"none", "unknown", "match", "mismatch"},
        linked : BOOLEAN, expired : BOOLEAN]

Fresh == [at |-> "new", domain |-> None, name |-> None, id |-> None, seen |-> None,
          row |-> None, match |-> "none", linked |-> FALSE, expired |-> FALSE]

\* A company is keyed by its domain if it has one, and has a signal.
KeyNamesDomain(row) ==
  IF row.domain = None THEN row.key \in Names ELSE row.key = row.domain

TypeOK ==
  /\ company \in [Ids -> Row \union {None}]
  /\ signal \in [Ids -> {"absent", "unknown", "match", "mismatch"}]
  /\ link \in [Analyses -> Ids \union {None}]
  /\ status \in [Analyses -> {"processing", "ended", "failed"}]
  /\ txn \in [Analyses -> Txn]
  /\ outcome \in [Analyses -> {"none", "nothing", "attached", "overtaken",
                               "unqueued", "lost", "deadlock", "too_long"}]
  /\ \A c \in Ids : /\ company[c] = None <=> signal[c] = "absent"
                    /\ company[c] # None => KeyNamesDomain(company[c])

Init ==
  /\ company = [c \in Ids |-> None]
  /\ signal = [c \in Ids |-> "absent"]
  /\ link = [a \in Analyses |-> None]
  /\ status = [a \in Analyses |-> "processing"]
  /\ txn = [a \in Analyses |-> Fresh]
  /\ outcome = [a \in Analyses |-> "none"]

-----------------------------------------------------------------------------
At(a, step) == txn[a].at = step
Goes(a, t) == txn' = [txn EXCEPT ![a] = t]
Ends(a, how) == outcome' = [outcome EXCEPT ![a] = how]
Reads == UNCHANGED <<tables, outcome>>

\* resolve_identity_key
Key(a) == IF txn[a].domain # None THEN txn[a].domain ELSE txn[a].name

WithKey(k) == {c \in Ids : company[c] # None /\ company[c].key = k}
FreshIds == {c \in Ids : company[c] = None /\ \A a \in Analyses : txn[a].id # c}

\* b holds k in the unique index: it has inserted it, or moved a row to or
\* from it.
Claims(b, k) ==
  /\ txn[b].row # None
  /\ \/ txn[b].row.key = k /\ ~At(b, "unique")
     \/ company[txn[b].id] # None /\ company[txn[b].id].key = k

\* Other transactions the next statement of a waits for: those with another
\* version of the row it updates, a lock of its foreign key, the same key in
\* the index, or another version of the signal row.
Blockers(a) ==
  {b \in Analyses \ {a} :
     LET same == txn[b].id = txn[a].id IN
     CASE At(a, "upgrade") -> same /\ (txn[b].row # None \/ txn[b].linked)
       [] At(a, "unique")  -> Claims(b, txn[a].domain)
       [] At(a, "insert")  -> Claims(b, Key(a))
       [] At(a, "signal")  -> same /\ txn[b].match # "none"
       [] At(a, "link")    -> same /\ txn[b].row # None
       [] OTHER            -> FALSE}

Runs(a, step) == At(a, step) /\ Blockers(a) = {}

-----------------------------------------------------------------------------
(***************************************************************************)
(* extract_company_signals and resolve_for_analysis                        *)
(***************************************************************************)

\* The domains _extract_sender_domain may pick from.
SenderDomains(letter) ==
  LET mailed == letter.emails \ Freemail
      linked == letter.urls \ (Freemail \union Platforms)
  IN  IF mailed # {} THEN mailed ELSE linked

Picks(letter, d) ==
  IF SenderDomains(letter) = {} THEN d = None ELSE d \in SenderDomains(letter)

\* Nothing to resolve, or a look for the domain first, or straight to the key.
Extract(a, letter, d) ==
  /\ At(a, "new")
  /\ Picks(letter, d)
  /\ LET n == letter.name
         to == IF d = None /\ n = None THEN "rest"
               ELSE IF d # None /\ n # None THEN "by_domain" ELSE "insert"
     IN  /\ Goes(a, [Fresh EXCEPT !.at = to, !.domain = d, !.name = n])
         /\ IF to = "rest" THEN Ends(a, "nothing") ELSE UNCHANGED outcome
  /\ UNCHANGED tables

FindByDomain(a) ==
  /\ At(a, "by_domain")
  /\ Goes(a, [txn[a] EXCEPT !.at = IF WithKey(txn[a].domain) = {} THEN "by_name" ELSE "insert"])
  /\ Reads

\* A company of the name's key has no domain.
FindByName(a) ==
  /\ At(a, "by_name")
  /\ IF WithKey(txn[a].name) = {}
       THEN Goes(a, [txn[a] EXCEPT !.at = "insert"])
       ELSE \E c \in WithKey(txn[a].name) : Goes(a, [txn[a] EXCEPT !.at = "upgrade", !.id = c])
  /\ Reads

(* upgrade_name_only_company *)

Upgraded(a) == [company[txn[a].id] EXCEPT !.key = txn[a].domain, !.domain = txn[a].domain]

\* Mutations: without WHERE domain IS NULL, and without the new key.
UpgradeUnguarded(a) ==
  /\ Runs(a, "upgrade")
  /\ Goes(a, [txn[a] EXCEPT !.at = "unique", !.seen = txn[a].domain, !.row = Upgraded(a)])
  /\ Reads

UpgradeDomainOnly(a) ==
  /\ Runs(a, "upgrade")
  /\ Goes(a, [txn[a] EXCEPT !.at = "signal", !.seen = txn[a].domain,
                            !.row = [company[txn[a].id] EXCEPT !.domain = txn[a].domain]])
  /\ Reads

\* UPDATE ... WHERE domain IS NULL (too long a domain: KeyTooLong).  A row that
\* got a domain while this waited is not updated, but the ORM sets the new values
\* on the object of the session all the same, which is then taken for upgraded.
Upgrade(a) ==
  /\ Runs(a, "upgrade")
  /\ \/ /\ company[txn[a].id].domain = None
        /\ txn[a].domain \notin TooLong
        /\ Goes(a, [txn[a] EXCEPT !.at = "unique", !.seen = txn[a].domain, !.row = Upgraded(a)])
     \/ /\ company[txn[a].id].domain # None
        /\ Goes(a, [txn[a] EXCEPT !.at = "signal", !.seen = txn[a].domain])
  /\ Reads

\* The unique index accepts the key of the updated row ...
KeepKey(a) ==
  /\ Runs(a, "unique")
  /\ WithKey(txn[a].domain) = {}
  /\ Goes(a, [txn[a] EXCEPT !.at = "signal"])
  /\ Reads

\* Mutation: the row returned is not the winner's.
LoseKeyForName(a) ==
  /\ Runs(a, "unique")
  /\ WithKey(txn[a].domain) # {}
  /\ Goes(a, [txn[a] EXCEPT !.at = "signal", !.row = None])
  /\ Reads

\* ... or another company has it: the transaction is rolled back, which expires
\* the analysis, and the winner's row is read.
LoseKey(a) ==
  /\ Runs(a, "unique")
  /\ \E c \in WithKey(txn[a].domain) :
       Goes(a, [txn[a] EXCEPT !.at = "signal", !.id = c, !.seen = txn[a].domain,
                              !.row = None, !.expired = TRUE])
  /\ Reads

(* get_or_create_by_key *)

NewRow(a) == [key |-> Key(a), domain |-> txn[a].domain, name |-> txn[a].name]

\* Mutation: ON CONFLICT DO UPDATE, which locks the row it finds.
InsertOrTouch(a) ==
  /\ Runs(a, "insert")
  /\ \E c \in Ids :
       /\ c \in IF WithKey(Key(a)) = {} THEN FreshIds ELSE WithKey(Key(a))
       /\ Goes(a, [txn[a] EXCEPT !.at = "signal", !.id = c,
                                 !.row = IF company[c] = None THEN NewRow(a) ELSE company[c],
                                 !.seen = IF company[c] = None THEN txn[a].domain
                                          ELSE company[c].domain])
  /\ Reads

\* INSERT ... ON CONFLICT DO NOTHING: nothing is done, or locked, if there is
\* a row.
Insert(a) ==
  /\ Runs(a, "insert")
  /\ Key(a) \notin TooLong
  /\ IF WithKey(Key(a)) # {}
       THEN Goes(a, [txn[a] EXCEPT !.at = "reread"])
       ELSE \E c \in FreshIds :
              Goes(a, [txn[a] EXCEPT !.at = "signal", !.id = c, !.seen = txn[a].domain,
                                     !.row = NewRow(a)])
  /\ Reads

\* A key or a domain that its column has no room for is an error of the INSERT
\* or the UPDATE, before any row is looked for.  The worker catches it and goes
\* on, but does not roll back: its session is of no more use.
KeyTooLong(a) ==
  /\ At(a, "insert") \/ At(a, "upgrade")
  /\ Key(a) \in TooLong
  /\ Goes(a, [Fresh EXCEPT !.at = "broken"])
  /\ Ends(a, "too_long")
  /\ UNCHANGED tables

\* The row found is read by another statement.  If an upgrade was committed in
\* between, no row has the key: the assertion fails, which the worker ignores.
Reread(a) ==
  /\ At(a, "reread")
  /\ \/ /\ WithKey(Key(a)) = {}
        /\ Goes(a, [txn[a] EXCEPT !.at = "rest"])
        /\ Ends(a, "overtaken")
     \/ /\ \E c \in WithKey(Key(a)) :
             Goes(a, [txn[a] EXCEPT !.at = "signal", !.id = c, !.seen = company[c].domain])
        /\ UNCHANGED outcome
  /\ UNCHANGED tables

\* domain_matches
Matches(a) ==
  IF txn[a].seen = None \/ txn[a].domain = None THEN "unknown"
  ELSE IF txn[a].seen = txn[a].domain THEN "match" ELSE "mismatch"

\* email_domain_match of the signal row, or of the placeholder of a new company.
SetMatch(a) ==
  /\ Runs(a, "signal")
  /\ Goes(a, [txn[a] EXCEPT !.at = "ensure", !.match = Matches(a)])
  /\ Reads

\* ensure_fresh.  Nothing catches an error of its enqueue() but the worker: the
\* company is kept, the analysis not attached to it.  If the analysis is expired,
\* no flush reloads it, and the worker fails on reading its prompt_version.
EnsureFresh(a) ==
  /\ At(a, "ensure")
  /\ \/ /\ Goes(a, [txn[a] EXCEPT !.at = "link"])
        /\ UNCHANGED outcome
     \/ /\ Goes(a, [txn[a] EXCEPT !.at = IF txn[a].expired THEN "broken" ELSE "rest"])
        /\ Ends(a, "unqueued")
  /\ UNCHANGED tables

-----------------------------------------------------------------------------
(***************************************************************************)
(* The worker                                                              *)
(***************************************************************************)

\* The flush of analysis.company_id, which reloads an expired analysis; the
\* foreign key locks the company's row.
Attach(a) ==
  /\ Runs(a, "link")
  /\ Goes(a, [txn[a] EXCEPT !.at = "rest", !.linked = TRUE, !.expired = FALSE])
  /\ Ends(a, "attached")
  /\ UNCHANGED tables

\* The rest of the pipeline, whatever its verdict, and its commit.
Commit(a) ==
  LET t == txn[a] IN
  /\ At(a, "rest")
  /\ company' = IF t.row = None THEN company ELSE [company EXCEPT ![t.id] = t.row]
  /\ signal' = IF t.match = "none" THEN signal ELSE [signal EXCEPT ![t.id] = t.match]
  /\ link' = IF t.linked THEN [link EXCEPT ![a] = t.id] ELSE link
  /\ status' = [status EXCEPT ![a] = "ended"]
  /\ Goes(a, [Fresh EXCEPT !.at = "ended", !.domain = t.domain, !.name = t.name])
  /\ UNCHANGED outcome

\* Those that wait, through others, for themselves.
Deadlocked ==
  {a \in Analyses : \A T \in SUBSET Analyses :
     Blockers(a) \subseteq T /\ (\A b \in T : Blockers(b) \subseteq T) => a \in T}

\* Postgres aborts one of them, and the worker goes on as in KeyTooLong.
Abort(a) ==
  /\ a \in Deadlocked
  /\ Goes(a, [Fresh EXCEPT !.at = "broken"])
  /\ Ends(a, "deadlock")
  /\ UNCHANGED tables

\* The next statement of a broken session, or the next look at an expired
\* analysis, raises: the generic handler fails the analysis.
FailGeneric(a) ==
  /\ At(a, "broken")
  /\ status' = [status EXCEPT ![a] = "failed"]
  /\ Goes(a, [Fresh EXCEPT !.at = "ended"])
  /\ UNCHANGED <<company, signal, link, outcome>>

\* The worker dies, or a sweep was faster: nothing is committed.
Lose(a) ==
  /\ txn[a].at \notin {"new", "broken", "ended"}
  /\ status' = [status EXCEPT ![a] = "failed"]
  /\ Goes(a, [Fresh EXCEPT !.at = "ended"])
  /\ Ends(a, "lost")
  /\ UNCHANGED <<company, signal, link>>

-----------------------------------------------------------------------------
Stage(a) ==
  \/ \E letter \in Letters, d \in Usable \union {None} : Extract(a, letter, d)
  \/ FindByDomain(a) \/ FindByName(a)
  \/ Upgrade(a) \/ KeepKey(a) \/ LoseKey(a)
  \/ Insert(a) \/ KeyTooLong(a) \/ Reread(a)
  \/ SetMatch(a) \/ EnsureFresh(a) \/ Attach(a)

Next == \E a \in Analyses :
          Stage(a) \/ Commit(a) \/ Abort(a) \/ FailGeneric(a) \/ Lose(a)

Spec == Init /\ [][Next]_vars

-----------------------------------------------------------------------------
(***************************************************************************)
(* Properties                                                              *)
(***************************************************************************)

\* A company is said to match the e-mail domain of a letter, or not to match it,
\* only if it has a domain: whatever races an analysis has lost, it never judges
\* a company that is known by its name alone (resolve_for_analysis: domain_matches).
MatchIsOfADomain ==
  \A c \in Ids : signal[c] \in {"match", "mismatch"} =>
    company[c] # None /\ company[c].domain # None

\* A domain is never overwritten and no company disappears, also when several
\* analyses with different domains upgrade a company of the same name
\* (upgrade_name_only_company).
DomainIsKept ==
  [][\A c \in Ids : company[c] # None =>
       /\ company'[c] # None
       /\ company'[c].name = company[c].name
       /\ company[c].domain # None => company'[c] = company[c]]_vars

\* An analysis of a letter with a domain ends attached to a company that has a
\* domain: its own, or, if it lost a race to upgrade the company of its name,
\* the winner's.  It is left without one only if the refresh could not be
\* queued; only a letter without a domain can find its company gone.
AttachedToItsCompany ==
  \A a \in Analyses : status[a] = "ended" /\ txn[a].domain # None =>
    \/ /\ link[a] # None
       /\ company[link[a]].domain # None
       /\ \/ company[link[a]].domain = txn[a].domain
          \/ company[link[a]].name = txn[a].name
    \/ link[a] = None /\ outcome[a] = "unqueued"

\* The locks of concurrent analyses form no cycle without one that upgrades a
\* company in it: analyses that only create companies, lose races for a key or
\* attach themselves wait for each other, but always in one order.
CyclesHaveAnUpgrade ==
  \A S \in (SUBSET Analyses) \ {{}} :
    (\A a \in S : Blockers(a) \intersect S # {}) =>
      \E a \in S : /\ txn[a].row # None /\ txn[a].row.domain # None
                   /\ company[txn[a].id] # None /\ company[txn[a].id].domain = None
=============================================================================
