----------------------- MODULE CompanyIdentityProofs -----------------------
(***************************************************************************)
(* Theorems of CompanyIdentity, for any number of analyses and companies   *)
(* and any letters: no domain overwritten, every analysis attached to its  *)
(* company, no verdict on a company without a domain, and no cycle of      *)
(* waits without an upgrade.                                               *)
(*                                                                         *)
(* The invariant says of each transaction what its pending row may be, and *)
(* of any two that their rows and their keys differ.                       *)
(***************************************************************************)
EXTENDS CompanyIdentity, TLAPS

\* The company of the transaction exists, or it is about to commit it.
HasCompany(t) == t.id \in Ids /\ (company[t.id] # None \/ t.row # None)

\* A pending row is new, or gives a company without a domain its domain.
RowOK(t) ==
  t.row # None =>
    /\ t.id \in Ids
    /\ KeyNamesDomain(t.row)
    /\ t.at \in {"unique", "signal", "ensure", "link", "rest"}
    /\ company[t.id] # None => /\ company[t.id].domain = None /\ t.row.domain # None
                               /\ t.row.name = company[t.id].name
    /\ t.at = "unique" => company[t.id] # None /\ t.row.key = t.domain
    /\ t.at \in {"ensure", "link", "rest"} => t.match # "none"

StepOK(t) ==
  /\ t.at \in {"by_domain", "by_name", "upgrade", "unique"} => t.domain # None /\ t.name # None
  /\ t.at \in {"insert", "reread"} => t.domain # None \/ t.name # None
  /\ t.at = "upgrade" => t.id \in Ids /\ company[t.id] # None
  /\ t.at = "unique" => t.row # None
  /\ t.at \in {"signal", "ensure", "link"} => HasCompany(t)
  /\ t.match # "none" => HasCompany(t)
  /\ t.linked => t.id \in Ids
  /\ t.expired => t.row = None /\ t.at \in {"signal", "ensure", "link", "broken"}

TxnOK(t) == RowOK(t) /\ StepOK(t)

\* What the unique index is for.
OneCompanyPerKey ==
  \A c, e \in Ids : company[c] # None /\ company[e] # None /\ company[c].key = company[e].key
    => c = e

\* The unique index holds the key of the pending row.
Claimed(t) == t.row # None /\ t.at # "unique"

RowsDiffer ==
  \A a, b \in Analyses :
    a # b /\ txn[a].row # None /\ txn[b].row # None => txn[a].id # txn[b].id

KeysDiffer ==
  \A a \in Analyses : Claimed(txn[a]) =>
    /\ \A c \in Ids : company[c] # None /\ company[c].key = txn[a].row.key => c = txn[a].id
    /\ \A b \in Analyses \ {a} : Claimed(txn[b]) => txn[b].row.key # txn[a].row.key

IdentityInv ==
  /\ TypeOK
  /\ \A a \in Analyses : TxnOK(txn[a])
  /\ RowsDiffer
  /\ KeysDiffer
  /\ OneCompanyPerKey

\* The fields of what the session of an analysis holds.
LEMMA TxnFields ==
  ASSUME NEW t \in Txn
  PROVE  /\ t.at \in Steps /\ t.domain \in Usable \union {None} /\ t.name \in Names \union {None}
         /\ t.id \in Ids \union {None} /\ t.seen \in Usable \union {None}
         /\ t.row \in Row \union {None}
         /\ t.match \in {"none", "unknown", "match", "mismatch"} /\ t.linked \in BOOLEAN
         /\ t.expired \in BOOLEAN
BY DEF Txn

LEMMA FreshIsOK == Fresh \in Txn
BY DEF Fresh, Txn, Steps

LEMMA InitOK == Init => IdentityInv
<1> SUFFICES ASSUME Init PROVE IdentityInv
  OBVIOUS
<1>1. \A a \in Analyses : txn[a] = Fresh
  BY DEF Init
<1>2. /\ Fresh.at = "new" /\ Fresh.row = None /\ Fresh.match = "none" /\ Fresh.linked = FALSE
      /\ Fresh.expired = FALSE
  BY DEF Fresh
<1>3. TypeOK
  BY FreshIsOK DEF Init, TypeOK
<1>4. \A a \in Analyses : TxnOK(txn[a])
  BY <1>1, <1>2 DEF TxnOK, RowOK, StepOK
<1>5. RowsDiffer /\ KeysDiffer /\ OneCompanyPerKey
  BY <1>1, <1>2 DEF RowsDiffer, KeysDiffer, Claimed, OneCompanyPerKey, Init
<1> QED
  BY <1>3, <1>4, <1>5 DEF IdentityInv

\* A step that commits nothing keeps the invariant, if what the transaction
\* now holds is right by itself and against the others.
LEMMA TxnStep ==
  ASSUME IdentityInv, NEW a \in Analyses, NEW t \in Txn, Goes(a, t),
         company' = company, signal' = signal, link' = link,
         status' \in [Analyses -> {"processing", "ended", "failed"}],
         outcome' \in [Analyses -> {"none", "nothing", "attached", "overtaken",
                                    "unqueued", "lost", "deadlock", "too_long"}],
         TxnOK(t),
         t.row # None => \A b \in Analyses \ {a} : txn[b].row # None => txn[b].id # t.id,
         Claimed(t) =>
           /\ \A c \in Ids : company[c] # None /\ company[c].key = t.row.key => c = t.id
           /\ \A b \in Analyses \ {a} : Claimed(txn[b]) => txn[b].row.key # t.row.key
  PROVE  IdentityInv'
<1>1. /\ txn' \in [Analyses -> Txn] /\ txn'[a] = t
      /\ \A b \in Analyses \ {a} : txn'[b] = txn[b]
  BY DEF Goes, IdentityInv, TypeOK
<1>2. TypeOK'
  BY <1>1 DEF IdentityInv, TypeOK
<1>3. \A b \in Analyses : TxnOK(txn'[b])
  BY <1>1 DEF IdentityInv
<1>4. \A b \in Analyses : TxnOK(txn[b])'
  BY <1>3 DEF TxnOK, RowOK, StepOK, HasCompany
<1>5. RowsDiffer'
  BY <1>1 DEF IdentityInv, RowsDiffer
<1>6. KeysDiffer'
  BY <1>1 DEF IdentityInv, KeysDiffer, Claimed
<1>7. OneCompanyPerKey'
  BY DEF IdentityInv, OneCompanyPerKey
<1> QED
  BY <1>2, <1>4, <1>5, <1>6, <1>7 DEF IdentityInv

\* In particular a step after which the transaction writes no row.
LEMMA RowlessStep ==
  ASSUME IdentityInv, NEW a \in Analyses, NEW t \in Txn, Goes(a, t),
         company' = company, signal' = signal, link' = link,
         status' \in [Analyses -> {"processing", "ended", "failed"}],
         outcome' \in [Analyses -> {"none", "nothing", "attached", "overtaken",
                                    "unqueued", "lost", "deadlock", "too_long"}],
         t.row = None, StepOK(t)
  PROVE  IdentityInv'
BY TxnStep DEF TxnOK, RowOK, Claimed

\* ... or the row it wrote before.
LEMMA SameRowStep ==
  ASSUME IdentityInv, NEW a \in Analyses, NEW t \in Txn, Goes(a, t),
         company' = company, signal' = signal, link' = link,
         status' \in [Analyses -> {"processing", "ended", "failed"}],
         outcome' \in [Analyses -> {"none", "nothing", "attached", "overtaken",
                                    "unqueued", "lost", "deadlock", "too_long"}],
         t.row = txn[a].row, t.id = txn[a].id, txn[a].at # "unique", t.at # "unique",
         TxnOK(t)
  PROVE  IdentityInv'
<1>1. t.row # None => \A b \in Analyses \ {a} : txn[b].row # None => txn[b].id # t.id
  BY DEF IdentityInv, RowsDiffer
<1>2. Claimed(t) =>
        /\ \A c \in Ids : company[c] # None /\ company[c].key = t.row.key => c = t.id
        /\ \A b \in Analyses \ {a} : Claimed(txn[b]) => txn[b].row.key # t.row.key
  BY DEF IdentityInv, KeysDiffer, Claimed
<1> QED
  BY <1>1, <1>2, TxnStep

-----------------------------------------------------------------------------
(***************************************************************************)
(* Each statement of resolve_for_analysis keeps the invariant.             *)
(***************************************************************************)

\* The outcomes of a step stay in their type.
LEMMA OutcomeType ==
  ASSUME TypeOK, NEW a \in Analyses,
         UNCHANGED outcome \/ \E how \in {"nothing", "attached", "overtaken", "unqueued",
                                          "lost", "deadlock", "too_long"} : Ends(a, how)
  PROVE  outcome' \in [Analyses -> {"none", "nothing", "attached", "overtaken",
                                    "unqueued", "lost", "deadlock", "too_long"}]
BY DEF TypeOK, Ends

LEMMA ExtractStep ==
  ASSUME IdentityInv, NEW a \in Analyses, NEW letter \in Letters,
         NEW d \in Usable \union {None}, Extract(a, letter, d)
  PROVE  IdentityInv'
<1> DEFINE n == letter.name
           to == IF d = None /\ n = None THEN "rest"
                 ELSE IF d # None /\ n # None THEN "by_domain" ELSE "insert"
           t == [Fresh EXCEPT !.at = to, !.domain = d, !.name = n]
<1>1. n \in Names \union {None}
  BY IdentityAssumption
<1>2. t \in Txn
  BY <1>1, FreshIsOK DEF Txn, Steps
<1>3. /\ t.at = to /\ t.domain = d /\ t.name = n /\ t.id = None /\ t.row = None
      /\ t.match = "none" /\ t.linked = FALSE /\ t.expired = FALSE
  BY DEF Fresh
<1>4. StepOK(t)
  BY <1>3 DEF StepOK
<1>5. /\ Goes(a, t) /\ company' = company /\ signal' = signal /\ link' = link
      /\ status' = status
      /\ UNCHANGED outcome \/ Ends(a, "nothing")
  BY DEF Extract, tables
<1> HIDE DEF t
<1>6. outcome' \in [Analyses -> {"none", "nothing", "attached", "overtaken",
                                 "unqueued", "lost", "deadlock", "too_long"}]
  BY <1>5, OutcomeType DEF IdentityInv
<1>7. status' \in [Analyses -> {"processing", "ended", "failed"}]
  BY <1>5 DEF IdentityInv, TypeOK
<1> QED
  BY <1>2, <1>3, <1>4, <1>5, <1>6, <1>7, RowlessStep

\* Statements that only read, or move on with the row as it was.
LEMMA MoveStep ==
  ASSUME IdentityInv, NEW a \in Analyses, NEW t \in Txn, Goes(a, t), UNCHANGED tables,
         UNCHANGED outcome \/ \E how \in {"nothing", "attached", "overtaken", "unqueued",
                                          "lost", "deadlock", "too_long"} : Ends(a, how),
         \/ t.row = None /\ StepOK(t)
         \/ /\ t.row = txn[a].row /\ t.id = txn[a].id
            /\ txn[a].at # "unique" /\ t.at # "unique" /\ TxnOK(t)
  PROVE  IdentityInv'
<1>1. /\ company' = company /\ signal' = signal /\ link' = link
      /\ status' \in [Analyses -> {"processing", "ended", "failed"}]
  BY DEF tables, IdentityInv, TypeOK
<1>2. outcome' \in [Analyses -> {"none", "nothing", "attached", "overtaken",
                                 "unqueued", "lost", "deadlock", "too_long"}]
  BY OutcomeType DEF IdentityInv
<1> QED
  BY <1>1, <1>2, RowlessStep, SameRowStep

LEMMA FindStep ==
  ASSUME IdentityInv, NEW a \in Analyses, FindByDomain(a) \/ FindByName(a)
  PROVE  IdentityInv'
<1>1. txn[a] \in Txn /\ TxnOK(txn[a])
  BY DEF IdentityInv, TypeOK
<1>2. /\ txn[a].at \in {"by_domain", "by_name"} /\ txn[a].row = None
      /\ txn[a].domain # None /\ txn[a].name # None
  <2>1. txn[a].at \in {"by_domain", "by_name"}
    BY DEF FindByDomain, FindByName, At
  <2> QED
    BY <1>1, <2>1 DEF TxnOK, RowOK, StepOK
<1>3. ASSUME NEW to \in {"by_name", "insert"}, Goes(a, [txn[a] EXCEPT !.at = to]), Reads
      PROVE  IdentityInv'
  <2> DEFINE t == [txn[a] EXCEPT !.at = to]
  <2>1. /\ t \in Txn /\ t.at = to /\ t.row = None /\ t.domain = txn[a].domain
        /\ t.name = txn[a].name /\ t.id = txn[a].id /\ t.match = txn[a].match
        /\ t.linked = txn[a].linked /\ t.expired = txn[a].expired
    BY <1>1, <1>2 DEF Txn, Steps
  <2>2. StepOK(t)
    BY <1>1, <1>2, <2>1 DEF TxnOK, StepOK, HasCompany
  <2> QED
    BY <1>3, <2>1, <2>2, MoveStep DEF Reads
<1>4. ASSUME NEW c \in Ids, company[c] # None,
             Goes(a, [txn[a] EXCEPT !.at = "upgrade", !.id = c]), Reads
      PROVE  IdentityInv'
  <2> DEFINE t == [txn[a] EXCEPT !.at = "upgrade", !.id = c]
  <2>1. /\ t \in Txn /\ t.at = "upgrade" /\ t.row = None /\ t.domain = txn[a].domain
        /\ t.name = txn[a].name /\ t.id = c /\ t.expired = txn[a].expired
        /\ t.linked = txn[a].linked
    BY <1>1, <1>2 DEF Txn, Steps
  <2>2. StepOK(t)
    BY <1>1, <1>2, <1>4, <2>1 DEF TxnOK, StepOK, HasCompany
  <2> QED
    BY <1>4, <2>1, <2>2, MoveStep DEF Reads
<1> QED
  BY <1>3, <1>4 DEF FindByDomain, FindByName, WithKey

\* The updated row is a row, and keeps the name.
LEMMA UpgradedRow ==
  ASSUME IdentityInv, NEW a \in Analyses, txn[a].id \in Ids, company[txn[a].id] # None,
         txn[a].domain # None
  PROVE  /\ Upgraded(a) \in Row /\ Upgraded(a) # None
         /\ Upgraded(a).key = txn[a].domain /\ Upgraded(a).domain = txn[a].domain
         /\ Upgraded(a).name = company[txn[a].id].name
         /\ KeyNamesDomain(Upgraded(a))
<1>1. company[txn[a].id] \in Row /\ txn[a].domain \in Usable
  BY TxnFields DEF IdentityInv, TypeOK
<1> QED
  BY <1>1, NoneIsNoRow DEF Upgraded, Row, KeyNamesDomain

LEMMA UpgradeStep ==
  ASSUME IdentityInv, NEW a \in Analyses, Upgrade(a)
  PROVE  IdentityInv'
<1>1. txn[a] \in Txn /\ TxnOK(txn[a])
  BY DEF IdentityInv, TypeOK
<1>2. /\ txn[a].at = "upgrade" /\ txn[a].row = None /\ txn[a].id \in Ids
      /\ company[txn[a].id] # None /\ txn[a].domain # None /\ txn[a].name # None
      /\ \A b \in Analyses \ {a} : txn[b].row # None => txn[b].id # txn[a].id
  <2>1. txn[a].at = "upgrade" /\ Blockers(a) = {}
    BY DEF Upgrade, Runs, At
  <2>2. \A b \in Analyses \ {a} : ~(txn[b].id = txn[a].id /\ txn[b].row # None)
    BY <2>1 DEF Blockers, At
  <2> QED
    BY <1>1, <2>1, <2>2 DEF TxnOK, RowOK, StepOK
<1>3. CASE company[txn[a].id].domain = None
  <2> DEFINE t == [txn[a] EXCEPT !.at = "unique", !.seen = txn[a].domain, !.row = Upgraded(a)]
  <2>1. Goes(a, t) /\ Reads
    BY <1>3 DEF Upgrade
  <2>2. /\ t.at = "unique" /\ t.row = Upgraded(a) /\ t.domain = txn[a].domain
        /\ t.name = txn[a].name /\ t.id = txn[a].id /\ t.match = txn[a].match
        /\ t.linked = txn[a].linked /\ t.expired = txn[a].expired
    BY <1>1 DEF Txn
  <2>3. t \in Txn
    BY <1>1, <1>2, UpgradedRow DEF Txn, Steps
  <2>4. TxnOK(t)
    BY <1>1, <1>2, <1>3, <2>2, UpgradedRow DEF TxnOK, RowOK, StepOK, HasCompany
  <2>5. \A b \in Analyses \ {a} : txn[b].row # None => txn[b].id # t.id
    BY <1>2, <2>2
  <2>6. ~Claimed(t)
    BY <2>2 DEF Claimed
  <2>7. /\ company' = company /\ signal' = signal /\ link' = link
        /\ status' \in [Analyses -> {"processing", "ended", "failed"}]
        /\ outcome' \in [Analyses -> {"none", "nothing", "attached", "overtaken",
                                      "unqueued", "lost", "deadlock", "too_long"}]
    BY <2>1 DEF Reads, tables, IdentityInv, TypeOK
  <2> HIDE DEF t
  <2> QED
    BY <2>1, <2>3, <2>4, <2>5, <2>6, <2>7, TxnStep
<1>4. CASE company[txn[a].id].domain # None
  <2> DEFINE t == [txn[a] EXCEPT !.at = "signal", !.seen = txn[a].domain]
  <2>1. Goes(a, t) /\ Reads
    BY <1>4 DEF Upgrade
  <2>2. /\ t \in Txn /\ t.at = "signal" /\ t.row = None /\ t.id = txn[a].id
        /\ t.match = txn[a].match /\ t.linked = txn[a].linked /\ t.expired = txn[a].expired
    BY <1>1, <1>2, TxnFields DEF Txn, Steps
  <2>3. StepOK(t)
    BY <1>1, <1>2, <2>2 DEF TxnOK, StepOK, HasCompany
  <2> QED
    BY <2>1, <2>2, <2>3, MoveStep DEF Reads
<1> QED
  BY <1>3, <1>4

\* The key the index accepts is nobody else's, committed or not.
LEMMA KeepKeyStep ==
  ASSUME IdentityInv, NEW a \in Analyses, KeepKey(a)
  PROVE  IdentityInv'
<1> DEFINE t == [txn[a] EXCEPT !.at = "signal"]
<1>1. txn[a] \in Txn /\ TxnOK(txn[a])
  BY DEF IdentityInv, TypeOK
<1>2. /\ txn[a].at = "unique" /\ WithKey(txn[a].domain) = {}
      /\ \A b \in Analyses \ {a} : ~Claims(b, txn[a].domain)
      /\ Goes(a, t) /\ Reads
  BY DEF KeepKey, Runs, At, Blockers
<1>3. /\ t \in Txn /\ t.at = "signal" /\ t.row = txn[a].row /\ t.id = txn[a].id
      /\ t.domain = txn[a].domain /\ t.match = txn[a].match /\ t.linked = txn[a].linked /\ t.expired = txn[a].expired
  BY <1>1, TxnFields DEF Txn, Steps
<1>4. TxnOK(t) /\ t.row # None /\ t.row.key = txn[a].domain
  BY <1>1, <1>2, <1>3 DEF TxnOK, RowOK, StepOK, HasCompany
<1>5. \A b \in Analyses \ {a} : txn[b].row # None => txn[b].id # t.id
  BY <1>3, <1>4 DEF IdentityInv, RowsDiffer
<1>6. \A c \in Ids : company[c] # None /\ company[c].key = t.row.key => c = t.id
  BY <1>2, <1>4 DEF WithKey
<1>7. \A b \in Analyses \ {a} : Claimed(txn[b]) => txn[b].row.key # t.row.key
  BY <1>2, <1>4 DEF Claims, Claimed, At
<1>8. /\ company' = company /\ signal' = signal /\ link' = link
      /\ status' \in [Analyses -> {"processing", "ended", "failed"}]
      /\ outcome' \in [Analyses -> {"none", "nothing", "attached", "overtaken",
                                    "unqueued", "lost", "deadlock", "too_long"}]
  BY <1>2 DEF Reads, tables, IdentityInv, TypeOK
<1> HIDE DEF t
<1> QED
  BY <1>2, <1>3, <1>4, <1>5, <1>6, <1>7, <1>8, TxnStep

LEMMA LoseKeyStep ==
  ASSUME IdentityInv, NEW a \in Analyses, LoseKey(a)
  PROVE  IdentityInv'
<1>1. txn[a] \in Txn /\ TxnOK(txn[a])
  BY DEF IdentityInv, TypeOK
<1>2. PICK c \in Ids : company[c] # None /\ Goes(a, [txn[a] EXCEPT !.at = "signal", !.id = c,
                                                   !.seen = txn[a].domain, !.row = None,
                                                   !.expired = TRUE])
  BY DEF LoseKey, WithKey
<1> DEFINE t == [txn[a] EXCEPT !.at = "signal", !.id = c, !.seen = txn[a].domain, !.row = None,
                               !.expired = TRUE]
<1>3. t \in Txn /\ t.at = "signal" /\ t.row = None /\ t.id = c
  BY <1>1, TxnFields DEF Txn, Steps
<1>4. StepOK(t)
  BY <1>2, <1>3 DEF StepOK, HasCompany
<1>5. Reads
  BY DEF LoseKey
<1> HIDE DEF t
<1> QED
  BY <1>2, <1>3, <1>4, <1>5, MoveStep DEF Reads, t

\* A new row, and its key, are nobody else's.
LEMMA InsertStep ==
  ASSUME IdentityInv, NEW a \in Analyses, Insert(a)
  PROVE  IdentityInv'
<1>1. txn[a] \in Txn /\ TxnOK(txn[a])
  BY DEF IdentityInv, TypeOK
<1>2. /\ txn[a].at = "insert" /\ txn[a].row = None
      /\ txn[a].domain # None \/ txn[a].name # None
      /\ \A b \in Analyses \ {a} : ~Claims(b, Key(a))
  <2>1. txn[a].at = "insert" /\ \A b \in Analyses \ {a} : ~Claims(b, Key(a))
    BY DEF Insert, Runs, At, Blockers
  <2> QED
    BY <1>1, <2>1 DEF TxnOK, RowOK, StepOK
<1>3. CASE WithKey(Key(a)) # {}
  <2> DEFINE t == [txn[a] EXCEPT !.at = "reread"]
  <2>1. Goes(a, t) /\ Reads
    BY <1>3 DEF Insert
  <2>2. /\ t \in Txn /\ t.at = "reread" /\ t.row = None /\ t.id = txn[a].id
        /\ t.domain = txn[a].domain /\ t.name = txn[a].name
        /\ t.match = txn[a].match /\ t.linked = txn[a].linked /\ t.expired = txn[a].expired
    BY <1>1, <1>2, TxnFields DEF Txn, Steps
  <2>3. StepOK(t)
    BY <1>1, <1>2, <2>2 DEF TxnOK, StepOK, HasCompany
  <2> QED
    BY <2>1, <2>2, <2>3, MoveStep DEF Reads
<1>4. CASE WithKey(Key(a)) = {}
  <2>1. PICK c \in FreshIds :
          Goes(a, [txn[a] EXCEPT !.at = "signal", !.id = c, !.seen = txn[a].domain,
                                 !.row = NewRow(a)])
    BY <1>4 DEF Insert
  <2> DEFINE t == [txn[a] EXCEPT !.at = "signal", !.id = c, !.seen = txn[a].domain,
                                 !.row = NewRow(a)]
  <2>2. c \in Ids /\ company[c] = None /\ \A b \in Analyses : txn[b].id # c
    BY <2>1 DEF FreshIds
  <2>3. /\ NewRow(a) \in Row /\ NewRow(a).key = Key(a) /\ KeyNamesDomain(NewRow(a))
        /\ NewRow(a) # None
    <3>1. /\ txn[a].domain \in Usable \union {None} /\ txn[a].name \in Names \union {None}
          /\ txn[a].domain = None => Key(a) \in Names
          /\ txn[a].domain # None => Key(a) = txn[a].domain /\ Key(a) \in Usable
      BY <1>1, <1>2, TxnFields DEF Key
    <3>2. /\ NewRow(a).key = Key(a) /\ NewRow(a).domain = txn[a].domain
          /\ NewRow(a) \in Row
      BY <3>1 DEF NewRow, Row
    <3> QED
      BY <3>1, <3>2, NoneIsNoRow DEF KeyNamesDomain
  <2>4. /\ t.at = "signal" /\ t.row = NewRow(a) /\ t.id = c /\ ~t.expired
        /\ t.match = txn[a].match /\ t.linked = txn[a].linked /\ t.expired = txn[a].expired
    <3>1. ~txn[a].expired
      BY <1>1, <1>2 DEF TxnOK, StepOK
    <3> QED
      BY <1>1, <3>1 DEF Txn
  <2>5. t \in Txn
    <3>1. txn[a].domain \in Usable \union {None} /\ c \in Ids /\ NewRow(a) \in Row
      BY <1>1, <2>2, <2>3, TxnFields
    <3> QED
      BY <1>1, <3>1 DEF Txn, Steps
  <2>6. TxnOK(t)
    BY <2>2, <2>3, <2>4 DEF TxnOK, RowOK, StepOK, HasCompany
  <2>7. \A b \in Analyses \ {a} : txn[b].row # None => txn[b].id # t.id
    BY <2>2, <2>4
  <2>8. \A e \in Ids : company[e] # None /\ company[e].key = t.row.key => e = t.id
    BY <1>4, <2>3, <2>4 DEF WithKey
  <2>9. \A b \in Analyses \ {a} : Claimed(txn[b]) => txn[b].row.key # t.row.key
    BY <1>2, <2>3, <2>4 DEF Claims, Claimed, At
  <2>10. /\ company' = company /\ signal' = signal /\ link' = link
         /\ status' \in [Analyses -> {"processing", "ended", "failed"}]
         /\ outcome' \in [Analyses -> {"none", "nothing", "attached", "overtaken",
                                       "unqueued", "lost", "deadlock", "too_long"}]
    BY DEF Insert, Reads, tables, IdentityInv, TypeOK
  <2> HIDE DEF t
  <2>11. Goes(a, t)
    BY <2>1 DEF t
  <2> QED
    BY <2>5, <2>6, <2>7, <2>8, <2>9, <2>10, <2>11, TxnStep
<1> QED
  BY <1>3, <1>4

LEMMA RereadStep ==
  ASSUME IdentityInv, NEW a \in Analyses, Reread(a)
  PROVE  IdentityInv'
<1>1. txn[a] \in Txn /\ TxnOK(txn[a])
  BY DEF IdentityInv, TypeOK
<1>2. txn[a].at = "reread" /\ txn[a].row = None
  BY <1>1 DEF Reread, At, TxnOK, RowOK
<1>3. CASE Goes(a, [txn[a] EXCEPT !.at = "rest"]) /\ Ends(a, "overtaken")
  <2> DEFINE t == [txn[a] EXCEPT !.at = "rest"]
  <2>1. /\ t \in Txn /\ t.at = "rest" /\ t.row = None /\ t.id = txn[a].id
        /\ t.match = txn[a].match /\ t.linked = txn[a].linked /\ t.expired = txn[a].expired
    BY <1>1, <1>2, TxnFields DEF Txn, Steps
  <2>2. StepOK(t)
    BY <1>1, <1>2, <2>1 DEF TxnOK, StepOK, HasCompany
  <2>3. UNCHANGED tables
    BY DEF Reread
  <2> QED
    BY <1>3, <2>1, <2>2, <2>3, MoveStep
<1>4. ASSUME NEW c \in Ids, company[c] # None, UNCHANGED outcome,
             Goes(a, [txn[a] EXCEPT !.at = "signal", !.id = c, !.seen = company[c].domain])
      PROVE  IdentityInv'
  <2> DEFINE t == [txn[a] EXCEPT !.at = "signal", !.id = c, !.seen = company[c].domain]
  <2>1. company[c].domain \in Usable \union {None}
    BY <1>4 DEF IdentityInv, TypeOK, Row
  <2>2. t \in Txn /\ t.at = "signal" /\ t.row = None /\ t.id = c
    BY <1>1, <1>2, <2>1, TxnFields DEF Txn, Steps
  <2>3. StepOK(t)
    BY <1>4, <2>2 DEF StepOK, HasCompany
  <2>4. UNCHANGED tables
    BY DEF Reread
  <2> QED
    BY <1>4, <2>2, <2>3, <2>4, MoveStep
<1> QED
  BY <1>3, <1>4 DEF Reread, WithKey

\* From the signal on, the company is settled.
LEMMA LaterStep ==
  ASSUME IdentityInv, NEW a \in Analyses, SetMatch(a) \/ EnsureFresh(a) \/ Attach(a)
  PROVE  IdentityInv'
<1>1. txn[a] \in Txn /\ TxnOK(txn[a])
  BY DEF IdentityInv, TypeOK
<1>2. CASE SetMatch(a)
  <2> DEFINE t == [txn[a] EXCEPT !.at = "ensure", !.match = Matches(a)]
  <2>1. txn[a].at = "signal" /\ Goes(a, t) /\ Reads
    BY <1>2 DEF SetMatch, Runs, At
  <2>2. Matches(a) \in {"unknown", "match", "mismatch"}
    BY DEF Matches
  <2>3. /\ t \in Txn /\ t.at = "ensure" /\ t.row = txn[a].row /\ t.id = txn[a].id
        /\ t.match # "none" /\ t.linked = txn[a].linked /\ t.expired = txn[a].expired
    BY <1>1, <2>2, TxnFields DEF Txn, Steps
  <2>4. TxnOK(t)
    BY <1>1, <2>1, <2>3 DEF TxnOK, RowOK, StepOK, HasCompany
  <2> QED
    BY <2>1, <2>3, <2>4, MoveStep DEF Reads
<1>3. ASSUME txn[a].at \in {"ensure", "link"}, NEW to \in {"link", "rest", "broken"},
             NEW l \in {txn[a].linked, TRUE}, NEW x \in {txn[a].expired, FALSE},
             x => txn[a].expired /\ to # "rest", to = "broken" => txn[a].expired,
             UNCHANGED tables,
             UNCHANGED outcome \/ Ends(a, "unqueued") \/ Ends(a, "attached"),
             Goes(a, [txn[a] EXCEPT !.at = to, !.linked = l, !.expired = x])
      PROVE  IdentityInv'
  <2> DEFINE t == [txn[a] EXCEPT !.at = to, !.linked = l, !.expired = x]
  <2>1. /\ t \in Txn /\ t.at = to /\ t.row = txn[a].row /\ t.id = txn[a].id
        /\ t.match = txn[a].match /\ t.expired = x
    BY <1>1, TxnFields DEF Txn, Steps
  <2>2. TxnOK(t)
    BY <1>1, <1>3, <2>1 DEF TxnOK, RowOK, StepOK, HasCompany
  <2> QED
    BY <1>3, <2>1, <2>2, MoveStep
<1>4. CASE EnsureFresh(a)
  <2>1. \A to \in {"link", "rest", "broken"} :
          [txn[a] EXCEPT !.at = to] =
            [txn[a] EXCEPT !.at = to, !.linked = txn[a].linked, !.expired = txn[a].expired]
    BY <1>1 DEF Txn
  <2> QED
    BY <1>3, <1>4, <2>1 DEF EnsureFresh, At
<1>5. CASE Attach(a)
  BY <1>3, <1>5 DEF Attach, Runs, At
<1> QED
  BY <1>2, <1>4, <1>5

-----------------------------------------------------------------------------
(***************************************************************************)
(* What ends a transaction.                                                *)
(***************************************************************************)

\* A rolled-back transaction leaves nothing.
LEMMA RollbackStep ==
  ASSUME IdentityInv, NEW a \in Analyses,
         Abort(a) \/ FailGeneric(a) \/ Lose(a) \/ KeyTooLong(a)
  PROVE  IdentityInv'
<1>1. PICK to \in {"broken", "ended"} : Goes(a, [Fresh EXCEPT !.at = to])
  BY DEF Abort, FailGeneric, Lose, KeyTooLong
<1> DEFINE t == [Fresh EXCEPT !.at = to]
<1>2. /\ t \in Txn /\ t.at = to /\ t.row = None /\ t.match = "none" /\ t.linked = FALSE /\ t.expired = FALSE
  BY FreshIsOK DEF Fresh, Txn, Steps
<1>3. StepOK(t)
  BY <1>2 DEF StepOK
<1>4. /\ company' = company /\ signal' = signal /\ link' = link
      /\ status' \in [Analyses -> {"processing", "ended", "failed"}]
  BY DEF Abort, FailGeneric, Lose, KeyTooLong, tables, IdentityInv, TypeOK
<1>5. outcome' \in [Analyses -> {"none", "nothing", "attached", "overtaken",
                                 "unqueued", "lost", "deadlock", "too_long"}]
  BY OutcomeType DEF Abort, FailGeneric, Lose, KeyTooLong, IdentityInv
<1> HIDE DEF t
<1>6. Goes(a, t)
  BY <1>1 DEF t
<1> QED
  BY <1>2, <1>3, <1>4, <1>5, <1>6, RowlessStep

\* What a commit does to the companies.
LEMMA Committed ==
  ASSUME IdentityInv, NEW a \in Analyses, Commit(a)
  PROVE  /\ company' \in [Ids -> Row \union {None}]
         /\ \A c \in Ids : c # txn[a].id => company'[c] = company[c]
         /\ txn[a].row = None => company' = company
         /\ txn[a].row # None => /\ txn[a].id \in Ids /\ company'[txn[a].id] = txn[a].row
                                 /\ KeyNamesDomain(txn[a].row) /\ Claimed(txn[a])
                                 /\ txn[a].match # "none"
                                 /\ company[txn[a].id] # None =>
                                      /\ company[txn[a].id].domain = None
                                      /\ txn[a].row.name = company[txn[a].id].name
         /\ \A c \in Ids : company[c] # None => company'[c] # None
<1>1. txn[a] \in Txn /\ TxnOK(txn[a]) /\ txn[a].at = "rest"
  BY DEF IdentityInv, TypeOK, Commit, At
<1>2. company \in [Ids -> Row \union {None}] /\ txn[a].row \in Row \union {None}
  BY <1>1, TxnFields DEF IdentityInv, TypeOK
<1>3. company' = IF txn[a].row = None THEN company ELSE [company EXCEPT ![txn[a].id] = txn[a].row]
  BY DEF Commit
<1>4. txn[a].row # None => /\ txn[a].id \in Ids /\ KeyNamesDomain(txn[a].row)
                           /\ Claimed(txn[a]) /\ txn[a].match # "none"
                           /\ company[txn[a].id] # None =>
                                /\ company[txn[a].id].domain = None
                                /\ txn[a].row.name = company[txn[a].id].name
  BY <1>1 DEF TxnOK, RowOK, Claimed
<1> QED
  BY <1>2, <1>3, <1>4

LEMMA CommitStep ==
  ASSUME IdentityInv, NEW a \in Analyses, Commit(a)
  PROVE  IdentityInv'
<1> DEFINE t == [Fresh EXCEPT !.at = "ended", !.domain = txn[a].domain, !.name = txn[a].name]
<1>1. txn[a] \in Txn /\ TxnOK(txn[a])
  BY DEF IdentityInv, TypeOK
<1>2. /\ t \in Txn /\ t.at = "ended" /\ t.row = None /\ t.match = "none" /\ t.linked = FALSE /\ t.expired = FALSE
  BY <1>1, TxnFields, FreshIsOK DEF Fresh, Txn, Steps
<1>3. Goes(a, t)
  BY DEF Commit
<1> HIDE DEF t
<1>4. /\ txn' \in [Analyses -> Txn] /\ txn'[a] = t
      /\ \A b \in Analyses \ {a} : txn'[b] = txn[b]
  BY <1>2, <1>3 DEF Goes, IdentityInv, TypeOK
<1>5. /\ signal' = IF txn[a].match = "none" THEN signal
                   ELSE [signal EXCEPT ![txn[a].id] = txn[a].match]
      /\ link' = IF txn[a].linked THEN [link EXCEPT ![a] = txn[a].id] ELSE link
      /\ status' = [status EXCEPT ![a] = "ended"]
      /\ outcome' = outcome
  BY DEF Commit
<1>6. TypeOK'
  <2>1. txn[a].match # "none" =>
          txn[a].id \in Ids /\ (company[txn[a].id] # None \/ txn[a].row # None)
    BY <1>1 DEF TxnOK, StepOK, HasCompany
  <2>2. txn[a].linked => txn[a].id \in Ids
    BY <1>1 DEF TxnOK, StepOK
  <2>3. link' \in [Analyses -> Ids \union {None}]
    BY <1>5, <2>2 DEF IdentityInv, TypeOK
  <2>4. signal' \in [Ids -> {"absent", "unknown", "match", "mismatch"}]
    BY <1>1, <1>5, <2>1, TxnFields DEF IdentityInv, TypeOK
  <2>5. \A c \in Ids : company'[c] = None <=> signal'[c] = "absent"
    <3> SUFFICES ASSUME NEW c \in Ids
                 PROVE  company'[c] = None <=> signal'[c] = "absent"
      OBVIOUS
    <3>1. company[c] = None <=> signal[c] = "absent"
      BY DEF IdentityInv, TypeOK
    <3>2. txn[a].match \in {"none", "unknown", "match", "mismatch"} /\ signal \in [Ids -> {"absent", "unknown", "match", "mismatch"}]
      BY <1>1, TxnFields DEF IdentityInv, TypeOK
    <3>3. CASE c # txn[a].id
      BY <1>5, <3>1, <3>2, <3>3, Committed
    <3>4. CASE c = txn[a].id /\ txn[a].match = "none"
      BY <1>5, <3>1, <3>4, Committed
    <3>5. CASE c = txn[a].id /\ txn[a].match # "none"
      <4>1. signal'[c] # "absent"
        BY <1>5, <3>2, <3>5
      <4>2. company'[c] # None
        BY <2>1, <3>5, Committed
      <4> QED
        BY <4>1, <4>2
    <3> QED
      BY <3>3, <3>4, <3>5
  <2>6. \A c \in Ids : company'[c] # None => KeyNamesDomain(company'[c])
    BY Committed DEF IdentityInv, TypeOK
  <2>7. status' \in [Analyses -> {"processing", "ended", "failed"}]
    BY <1>5 DEF IdentityInv, TypeOK
  <2>8. outcome' \in [Analyses -> {"none", "nothing", "attached", "overtaken",
                                   "unqueued", "lost", "deadlock", "too_long"}]
    BY <1>5 DEF IdentityInv, TypeOK
  <2>9. \A c \in Ids : company'[c] # None => KeyNamesDomain(company[c])'
    BY <2>6 DEF KeyNamesDomain
  <2> QED
    BY <1>4, <2>3, <2>4, <2>5, <2>7, <2>8, <2>9, Committed DEF TypeOK
<1>7. ASSUME NEW b \in Analyses
      PROVE  TxnOK(txn[b])'
  <2>1. CASE b = a
    BY <1>2, <1>4, <2>1 DEF TxnOK, RowOK, StepOK
  <2>2. CASE b # a
    <3>1. TxnOK(txn[b]) /\ txn'[b] = txn[b]
      BY <1>4, <2>2 DEF IdentityInv
    <3>2. HasCompany(txn[b]) => HasCompany(txn[b])'
      BY <3>1, Committed DEF HasCompany
    <3>3. StepOK(txn[b])'
      BY <3>1, <3>2, Committed DEF TxnOK, StepOK, HasCompany
    <3>4. txn[b].row # None => txn[b].id \in Ids /\ company'[txn[b].id] = company[txn[b].id]
      <4>1. txn[b].row # None => txn[b].id \in Ids
        BY <3>1 DEF TxnOK, RowOK
      <4>2. txn[b].row # None /\ txn[a].row # None => txn[b].id # txn[a].id
        BY <2>2 DEF IdentityInv, RowsDiffer
      <4> QED
        BY <4>1, <4>2, Committed
    <3>5. RowOK(txn[b])'
      <4>1. RowOK(txn[b])
        BY <3>1 DEF TxnOK
      <4> QED
        BY <3>1, <3>4, <4>1 DEF RowOK, KeyNamesDomain
    <3> QED
      BY <3>3, <3>5 DEF TxnOK
  <2> QED
    BY <2>1, <2>2
<1>8. RowsDiffer'
  BY <1>2, <1>4 DEF IdentityInv, RowsDiffer
<1>9. KeysDiffer'
  <2> SUFFICES ASSUME NEW b \in Analyses, Claimed(txn'[b])
               PROVE  /\ \A c \in Ids : company'[c] # None /\ company'[c].key = txn'[b].row.key
                           => c = txn'[b].id
                      /\ \A e \in Analyses \ {b} : Claimed(txn'[e]) => txn'[e].row.key # txn'[b].row.key
    BY DEF KeysDiffer, Claimed
  <2>1. b # a /\ txn'[b] = txn[b] /\ Claimed(txn[b])
    BY <1>2, <1>4 DEF Claimed
  <2>2. \A e \in Analyses \ {b} : Claimed(txn'[e]) => e # a /\ txn'[e] = txn[e]
    BY <1>2, <1>4 DEF Claimed
  <2>3. ASSUME NEW c \in Ids, company'[c] # None, company'[c].key = txn[b].row.key
        PROVE  c = txn[b].id
    <3>1. CASE company'[c] = company[c]
      BY <2>1, <2>3, <3>1 DEF IdentityInv, KeysDiffer
    <3>2. CASE company'[c] # company[c]
      <4>1. txn[a].row # None /\ c = txn[a].id
        BY <3>2, Committed
      <4>2. company'[c] = txn[a].row /\ Claimed(txn[a])
        BY <4>1, Committed
      <4>3. txn[b].row.key # txn[a].row.key
        BY <2>1, <4>2 DEF IdentityInv, KeysDiffer
      <4> QED
        BY <2>3, <4>2, <4>3
    <3> QED
      BY <3>1, <3>2
  <2> QED
    BY <2>1, <2>2, <2>3 DEF IdentityInv, KeysDiffer
<1>10. OneCompanyPerKey'
  <2> SUFFICES ASSUME NEW c \in Ids, NEW e \in Ids, company'[c] # None, company'[e] # None,
                      company'[c].key = company'[e].key
               PROVE  c = e
    BY DEF OneCompanyPerKey
  <2>1. CASE txn[a].row = None
    BY <2>1, Committed DEF IdentityInv, OneCompanyPerKey
  <2>2. CASE txn[a].row # None
    <3>1. /\ company'[txn[a].id] = txn[a].row
          /\ \A f \in Ids : company[f] # None /\ company[f].key = txn[a].row.key => f = txn[a].id
      BY <2>2, Committed DEF IdentityInv, KeysDiffer
    <3>2. \A f \in Ids : f # txn[a].id => company'[f] = company[f]
      BY Committed
    <3> QED
      BY <3>1, <3>2 DEF IdentityInv, OneCompanyPerKey
  <2> QED
    BY <2>1, <2>2
<1> QED
  BY <1>6, <1>7, <1>8, <1>9, <1>10 DEF IdentityInv

\* A commit keeps every company, its name, and all of one that has a domain.
LEMMA CommitKeeps ==
  ASSUME IdentityInv, NEW a \in Analyses, Commit(a), NEW c \in Ids, company[c] # None
  PROVE  /\ company'[c] # None /\ company'[c].name = company[c].name
         /\ company[c].domain # None => company'[c] = company[c]
<1>1. CASE c # txn[a].id \/ txn[a].row = None
  BY <1>1, Committed
<1>2. CASE c = txn[a].id /\ txn[a].row # None
  BY <1>2, Committed
<1> QED
  BY <1>1, <1>2

\* Every step keeps the invariant.
LEMMA InvStep == IdentityInv /\ [Next]_vars => IdentityInv'
<1> SUFFICES ASSUME IdentityInv, [Next]_vars PROVE IdentityInv'
  OBVIOUS
<1>1. CASE UNCHANGED vars
  <2>1. /\ company' = company /\ signal' = signal /\ link' = link /\ status' = status
        /\ txn' = txn /\ outcome' = outcome
    BY <1>1 DEF vars, tables
  <2> QED
    BY <2>1 DEF IdentityInv, TypeOK, TxnOK, RowOK, StepOK, HasCompany, RowsDiffer, KeysDiffer,
                Claimed, OneCompanyPerKey, KeyNamesDomain
<1>2. ASSUME NEW a \in Analyses, Stage(a)
      PROVE  IdentityInv'
  BY <1>2, ExtractStep, FindStep, UpgradeStep, KeepKeyStep, LoseKeyStep, InsertStep,
     RereadStep, LaterStep, RollbackStep DEF Stage
<1>3. ASSUME NEW a \in Analyses, Commit(a) \/ Abort(a) \/ FailGeneric(a) \/ Lose(a)
      PROVE  IdentityInv'
  BY <1>3, CommitStep, RollbackStep
<1> QED
  BY <1>1, <1>2, <1>3 DEF Next

-----------------------------------------------------------------------------
(***************************************************************************)
(* Theorems.                                                               *)
(***************************************************************************)

THEOREM Invariance == Spec => []IdentityInv
BY InitOK, InvStep, PTL DEF Spec

\* Every reachable state is well typed; the key of a company is its domain, if
\* it has one, and it has a signal.
THEOREM TypeCorrect == Spec => []TypeOK
<1>1. IdentityInv => TypeOK
  BY DEF IdentityInv
<1> QED
  BY <1>1, Invariance, PTL

\* No company disappears or changes its name, and none that has a domain
\* changes at all.
THEOREM DomainsAreKept == Spec => DomainIsKept
<1> DEFINE Kept ==
      \A c \in Ids : company[c] # None =>
        /\ company'[c] # None
        /\ company'[c].name = company[c].name
        /\ company[c].domain # None => company'[c] = company[c]
<1>1. IdentityInv /\ [Next]_vars => [Kept]_vars
  <2> SUFFICES ASSUME IdentityInv, Next PROVE Kept
    OBVIOUS
  <2>1. ASSUME NEW a \in Analyses, Commit(a)
        PROVE  Kept
    BY <2>1, CommitKeeps
  <2>2. CASE company' = company
    BY <2>2
  <2>3. \/ company' = company
        \/ \E a \in Analyses : Commit(a)
    BY DEF Next, Stage, Extract, FindByDomain, FindByName, Upgrade, KeepKey, LoseKey, Insert,
           KeyTooLong, Reread, SetMatch, EnsureFresh, Attach, Abort, FailGeneric, Lose, Reads, tables
  <2> QED
    BY <2>1, <2>2, <2>3
<1> QED
  BY <1>1, Invariance, PTL DEF Spec, DomainIsKept

-----------------------------------------------------------------------------
(***************************************************************************)
(* What an analysis with a domain is attached to.                          *)
(***************************************************************************)

\* The company the transaction will link has a domain, its own or another of
\* the same name.
IsOwn(t) ==
  \/ t.row # None
  \/ /\ company[t.id] # None /\ company[t.id].domain # None
     /\ company[t.id].domain = t.domain \/ company[t.id].name = t.name

\* The company of the transaction has a domain, or gets it by the commit.
HasDomain(t) ==
  IF t.row # None THEN t.row.domain # None
                  ELSE company[t.id] # None /\ company[t.id].domain # None

OwnOK(t) ==
  /\ t.row # None /\ t.row.domain = None => t.row.key = t.row.name
  /\ t.row # None /\ t.domain # None => t.row.domain = t.domain
  /\ t.at = "new" => t.domain = None
  /\ t.at = "upgrade" => company[t.id].name = t.name
  /\ t.at = "reread" /\ t.domain # None => WithKey(t.domain) # {}
  /\ t.domain # None /\ (t.at \in {"signal", "ensure", "link"} \/ (t.at = "rest" /\ t.linked))
       => t.id \in Ids /\ IsOwn(t)
  /\ t.match # "none" => t.at \in {"ensure", "link", "rest", "broken"}
  /\ t.linked => t.at = "rest"
  /\ t.at = "signal" /\ t.seen # None => t.id \in Ids /\ HasDomain(t)
  /\ t.match \in {"match", "mismatch"} => t.id \in Ids /\ HasDomain(t)

\* An analysis is attached by the commit that ends it, and is then as the
\* property says.
AttachInv ==
  /\ \A c \in Ids : company[c] # None /\ company[c].domain = None => company[c].key = company[c].name
  /\ \A a \in Analyses :
       /\ OwnOK(txn[a])
       /\ txn[a].at = "rest" /\ txn[a].domain # None /\ ~txn[a].linked => outcome[a] = "unqueued"
       /\ txn[a].at = "ended" <=> status[a] # "processing"
       /\ status[a] = "processing" => link[a] = None
       /\ status[a] = "ended" /\ txn[a].domain # None /\ link[a] # None => company[link[a]] # None
  /\ AttachedToItsCompany
  /\ MatchIsOfADomain

\* The company of a domain's key has that domain.
LEMMA KeyOfDomain ==
  ASSUME TypeOK, NEW c \in Ids, company[c] # None, NEW d \in Usable, company[c].key = d
  PROVE  company[c].domain = d
BY IdentityAssumption DEF TypeOK, KeyNamesDomain, Usable

\* A step inside of a transaction.
LEMMA OwnStep ==
  ASSUME IdentityInv, AttachInv, NEW a \in Analyses, txn[a].at # "ended",
         NEW t \in Txn, Goes(a, t), UNCHANGED tables,
         UNCHANGED outcome \/ \E how \in {"nothing", "attached", "overtaken", "unqueued",
                                          "lost", "deadlock", "too_long"} : Ends(a, how),
         t.at # "ended", OwnOK(t),
         t.at = "rest" /\ t.domain # None /\ ~t.linked => outcome'[a] = "unqueued"
  PROVE  AttachInv'
<1>1. /\ txn'[a] = t /\ \A b \in Analyses \ {a} : txn'[b] = txn[b] /\ outcome'[b] = outcome[b]
      /\ company' = company /\ link' = link /\ status' = status
  BY DEF Goes, Ends, tables, IdentityInv, TypeOK
<1>2. \A b \in Analyses : OwnOK(txn'[b])
  BY <1>1 DEF AttachInv
<1>3. \A b \in Analyses : OwnOK(txn[b])'
  BY <1>1, <1>2 DEF OwnOK, IsOwn, HasDomain, WithKey
<1>4. status[a] = "processing"
  BY DEF AttachInv
<1>5. AttachedToItsCompany'
  BY <1>1, <1>4 DEF AttachInv, AttachedToItsCompany
<1>6. MatchIsOfADomain'
  BY <1>1 DEF AttachInv, MatchIsOfADomain, tables
<1> QED
  BY <1>1, <1>3, <1>4, <1>5, <1>6 DEF AttachInv

\* Until its signal is written a transaction has judged and linked nothing.
LEMMA Early ==
  ASSUME NEW a \in Analyses, OwnOK(txn[a]),
         txn[a].at \notin {"ensure", "link", "rest", "broken"}
  PROVE  txn[a].match = "none" /\ ~txn[a].linked
BY DEF OwnOK

\* Up to the company.
LEMMA OwnResolve ==
  ASSUME IdentityInv, AttachInv, NEW a \in Analyses,
         \/ \E letter \in Letters, d \in Usable \union {None} : Extract(a, letter, d)
         \/ FindByDomain(a) \/ FindByName(a) \/ Insert(a) \/ Reread(a)
  PROVE  AttachInv'
<1>1. txn[a] \in Txn /\ TxnOK(txn[a]) /\ OwnOK(txn[a])
  BY DEF IdentityInv, TypeOK, AttachInv
<1>2. ASSUME NEW letter \in Letters, NEW d \in Usable \union {None}, Extract(a, letter, d)
      PROVE  AttachInv'
  <2> DEFINE n == letter.name
             to == IF d = None /\ n = None THEN "rest"
                   ELSE IF d # None /\ n # None THEN "by_domain" ELSE "insert"
             t == [Fresh EXCEPT !.at = to, !.domain = d, !.name = n]
  <2>1. n \in Names \union {None}
    BY IdentityAssumption
  <2>2. t \in Txn
    BY <2>1, FreshIsOK DEF Txn, Steps
  <2>3. t.at = to /\ t.domain = d /\ t.row = None /\ t.linked = FALSE /\ t.match = "none"
    BY DEF Fresh
  <2>4. /\ Goes(a, t) /\ UNCHANGED tables /\ txn[a].at = "new"
        /\ UNCHANGED outcome \/ Ends(a, "nothing")
    BY <1>2 DEF Extract, At
  <2> HIDE DEF t
  <2>5. OwnOK(t)
    BY <2>3 DEF OwnOK
  <2>6. t.at = "rest" => t.domain = None
    BY <2>3
  <2>7. t.at # "ended"
    BY <2>3
  <2> QED
    BY <2>2, <2>4, <2>5, <2>6, <2>7, OwnStep
<1>3. ASSUME NEW to \in {"by_name", "insert"}, Goes(a, [txn[a] EXCEPT !.at = to]), Reads,
             txn[a].at \in {"by_domain", "by_name"}
      PROVE  AttachInv'
  <2> DEFINE t == [txn[a] EXCEPT !.at = to]
  <2>1. t \in Txn /\ t.at = to /\ t.row = txn[a].row /\ t.domain = txn[a].domain
        /\ t.match = txn[a].match /\ t.linked = txn[a].linked
    BY <1>1, TxnFields DEF Txn, Steps
  <2>2. OwnOK(t)
    BY <1>1, <1>3, <2>1, Early DEF TxnOK, RowOK, OwnOK
  <2> QED
    BY <1>3, <2>1, <2>2, OwnStep DEF Reads
<1>4. CASE FindByDomain(a)
  BY <1>3, <1>4 DEF FindByDomain, At
<1>5. CASE FindByName(a)
  <2>1. txn[a].at = "by_name"
    BY <1>5 DEF FindByName, At
  <2>2. ASSUME NEW c \in WithKey(txn[a].name),
               Goes(a, [txn[a] EXCEPT !.at = "upgrade", !.id = c]), Reads
        PROVE  AttachInv'
    <3> DEFINE t == [txn[a] EXCEPT !.at = "upgrade", !.id = c]
    <3>1. c \in Ids /\ company[c] # None /\ company[c].key = txn[a].name
      BY <2>2 DEF WithKey
    <3>2. /\ t \in Txn /\ t.at = "upgrade" /\ t.row = txn[a].row /\ t.domain = txn[a].domain
          /\ t.name = txn[a].name /\ t.id = c
          /\ t.match = txn[a].match /\ t.linked = txn[a].linked
      BY <1>1, <3>1, TxnFields DEF Txn, Steps
    <3>3. txn[a].name \in Names /\ txn[a].row = None
      BY <1>1, <2>1, TxnFields DEF TxnOK, RowOK, StepOK
    <3>4. company[c].domain = None
      <4>1. KeyNamesDomain(company[c]) /\ company[c] \in Row
        BY <3>1 DEF IdentityInv, TypeOK
      <4>2. company[c].domain \in Usable \union {None}
        BY <4>1 DEF Row
      <4> QED
        BY <3>1, <3>3, <4>1, <4>2, IdentityAssumption DEF KeyNamesDomain, Usable
    <3>5. company[c].name = txn[a].name
      BY <3>1, <3>4 DEF AttachInv
    <3>6. OwnOK(t)
      BY <1>1, <2>1, <3>2, <3>3, <3>5, Early DEF OwnOK
    <3> QED
      BY <2>1, <2>2, <3>2, <3>6, OwnStep DEF Reads
  <2> QED
    BY <1>3, <1>5, <2>1, <2>2 DEF FindByName
<1>6. CASE Insert(a)
  <2>1. txn[a].at = "insert" /\ txn[a].row = None
    BY <1>1, <1>6 DEF Insert, Runs, At, TxnOK, RowOK
  <2>2. CASE WithKey(Key(a)) # {}
    <3> DEFINE t == [txn[a] EXCEPT !.at = "reread"]
    <3>1. /\ t \in Txn /\ t.at = "reread" /\ t.row = None /\ t.domain = txn[a].domain
          /\ t.match = txn[a].match /\ t.linked = txn[a].linked
      BY <1>1, <2>1, TxnFields DEF Txn, Steps
    <3>2. OwnOK(t)
      BY <1>1, <2>1, <2>2, <3>1, Early DEF OwnOK, Key
    <3>3. Goes(a, t) /\ Reads
      BY <1>6, <2>2 DEF Insert
    <3> QED
      BY <2>1, <3>1, <3>2, <3>3, OwnStep DEF Reads
  <2>3. CASE WithKey(Key(a)) = {}
    <3>1. PICK c \in FreshIds :
            Goes(a, [txn[a] EXCEPT !.at = "signal", !.id = c, !.seen = txn[a].domain,
                                   !.row = NewRow(a)]) /\ Reads
      BY <1>6, <2>3 DEF Insert
    <3> DEFINE t == [txn[a] EXCEPT !.at = "signal", !.id = c, !.seen = txn[a].domain,
                                   !.row = NewRow(a)]
    <3>2. /\ t.at = "signal" /\ t.row = NewRow(a) /\ t.domain = txn[a].domain /\ t.id = c
          /\ c \in Ids /\ t.seen = txn[a].domain
          /\ t.match = txn[a].match /\ t.linked = txn[a].linked
      BY <1>1, <3>1 DEF Txn, FreshIds
    <3>3. /\ txn[a].domain \in Usable \union {None} /\ txn[a].name \in Names \union {None}
          /\ txn[a].domain # None \/ txn[a].name # None
      BY <1>1, <2>1, TxnFields DEF TxnOK, StepOK
    <3>4. /\ NewRow(a) \in Row /\ NewRow(a).domain = txn[a].domain
          /\ NewRow(a).name = txn[a].name /\ NewRow(a).key = Key(a)
      BY <3>3 DEF NewRow, Row, Key
    <3>5. NewRow(a) # None
      BY <3>4, NoneIsNoRow
    <3>6. txn[a].domain = None => NewRow(a).key = NewRow(a).name
      BY <3>4 DEF Key
    <3>7. t \in Txn
      BY <1>1, <3>2, <3>3, <3>4 DEF Txn, Steps
    <3>8. OwnOK(t)
      BY <1>1, <2>1, <3>2, <3>4, <3>5, <3>6, Early DEF OwnOK, IsOwn, HasDomain
    <3> HIDE DEF t
    <3>9. Goes(a, t)
      BY <3>1 DEF t
    <3> QED
      BY <2>1, <3>1, <3>2, <3>7, <3>8, <3>9, OwnStep DEF Reads
  <2> QED
    BY <2>2, <2>3
<1>7. CASE Reread(a)
  <2>1. txn[a].at = "reread" /\ txn[a].row = None /\ UNCHANGED tables
    BY <1>1, <1>7 DEF Reread, At, TxnOK, RowOK
  <2>2. CASE WithKey(Key(a)) = {} /\ Goes(a, [txn[a] EXCEPT !.at = "rest"]) /\ Ends(a, "overtaken")
    <3> DEFINE t == [txn[a] EXCEPT !.at = "rest"]
    <3>1. /\ t \in Txn /\ t.at = "rest" /\ t.row = None /\ t.domain = txn[a].domain
          /\ t.match = txn[a].match /\ t.linked = txn[a].linked
      BY <1>1, <2>1, TxnFields DEF Txn, Steps
    <3>2. t.domain = None
      BY <1>1, <2>1, <2>2, <3>1 DEF OwnOK, Key
    <3>3. OwnOK(t)
      BY <1>1, <2>1, <3>1, <3>2, Early DEF OwnOK
    <3> QED
      BY <2>1, <2>2, <3>1, <3>2, <3>3, OwnStep
  <2>3. ASSUME NEW c \in WithKey(Key(a)), UNCHANGED outcome,
               Goes(a, [txn[a] EXCEPT !.at = "signal", !.id = c, !.seen = company[c].domain])
        PROVE  AttachInv'
    <3> DEFINE t == [txn[a] EXCEPT !.at = "signal", !.id = c, !.seen = company[c].domain]
    <3>1. c \in Ids /\ company[c] # None /\ company[c].key = Key(a)
      BY <2>3 DEF WithKey
    <3>2. company[c].domain \in Usable \union {None}
      BY <3>1 DEF IdentityInv, TypeOK, Row
    <3>3. /\ t \in Txn /\ t.at = "signal" /\ t.row = None /\ t.id = c
          /\ t.domain = txn[a].domain /\ t.seen = company[c].domain
          /\ t.match = txn[a].match /\ t.linked = txn[a].linked
      BY <1>1, <2>1, <3>1, <3>2, TxnFields DEF Txn, Steps
    <3>4. t.domain # None => company[c].domain = t.domain
      BY <1>1, <3>1, <3>3, TxnFields, KeyOfDomain DEF IdentityInv, Key
    <3>5. OwnOK(t)
      BY <1>1, <2>1, <3>1, <3>3, <3>4, Early DEF OwnOK, IsOwn, HasDomain
    <3> QED
      BY <2>1, <2>3, <3>3, <3>5, OwnStep
  <2> QED
    BY <1>7, <2>2, <2>3 DEF Reread
<1> QED
  BY <1>2, <1>4, <1>5, <1>6, <1>7

\* The upgrade, won or lost.
LEMMA OwnUpgrade ==
  ASSUME IdentityInv, AttachInv, NEW a \in Analyses, Upgrade(a) \/ KeepKey(a) \/ LoseKey(a)
  PROVE  AttachInv'
<1>1. txn[a] \in Txn /\ TxnOK(txn[a]) /\ OwnOK(txn[a])
  BY DEF IdentityInv, TypeOK, AttachInv
<1>2. CASE Upgrade(a)
  <2>1. /\ txn[a].at = "upgrade" /\ txn[a].row = None /\ txn[a].id \in Ids
        /\ company[txn[a].id] # None /\ txn[a].domain # None
        /\ company[txn[a].id].name = txn[a].name
    BY <1>1, <1>2 DEF Upgrade, Runs, At, TxnOK, RowOK, StepOK, OwnOK
  <2>2. CASE company[txn[a].id].domain = None
    <3> DEFINE t == [txn[a] EXCEPT !.at = "unique", !.seen = txn[a].domain, !.row = Upgraded(a)]
    <3>1. Goes(a, t) /\ Reads
      BY <1>2, <2>2 DEF Upgrade
    <3>2. /\ t.at = "unique" /\ t.row = Upgraded(a) /\ t.domain = txn[a].domain
          /\ t.match = txn[a].match /\ t.linked = txn[a].linked
      BY <1>1 DEF Txn
    <3>3. t \in Txn
      BY <1>1, <2>1, UpgradedRow DEF Txn, Steps
    <3>4. OwnOK(t)
      BY <1>1, <2>1, <3>2, UpgradedRow, Early DEF OwnOK
    <3> HIDE DEF t
    <3> QED
      BY <2>1, <3>1, <3>2, <3>3, <3>4, OwnStep DEF Reads
  <2>3. CASE company[txn[a].id].domain # None
    <3> DEFINE t == [txn[a] EXCEPT !.at = "signal", !.seen = txn[a].domain]
    <3>1. Goes(a, t) /\ Reads
      BY <1>2, <2>3 DEF Upgrade
    <3>2. /\ t \in Txn /\ t.at = "signal" /\ t.row = None /\ t.id = txn[a].id
          /\ t.name = txn[a].name /\ t.match = txn[a].match /\ t.linked = txn[a].linked
      BY <1>1, <2>1, TxnFields DEF Txn, Steps
    <3>3. OwnOK(t)
      BY <1>1, <2>1, <2>3, <3>2, Early DEF OwnOK, IsOwn, HasDomain
    <3> QED
      BY <2>1, <3>1, <3>2, <3>3, OwnStep DEF Reads
  <2> QED
    BY <2>2, <2>3
<1>3. CASE KeepKey(a)
  <2> DEFINE t == [txn[a] EXCEPT !.at = "signal"]
  <2>1. txn[a].at = "unique" /\ Goes(a, t) /\ Reads
    BY <1>3 DEF KeepKey, Runs, At
  <2>2. /\ t \in Txn /\ t.at = "signal" /\ t.row = txn[a].row /\ t.id = txn[a].id
        /\ t.domain = txn[a].domain /\ t.match = txn[a].match /\ t.linked = txn[a].linked
    BY <1>1, TxnFields DEF Txn, Steps
  <2>3. OwnOK(t)
    BY <1>1, <2>1, <2>2, NoneIsNoRow, Early DEF TxnOK, RowOK, StepOK, OwnOK, IsOwn, HasDomain
  <2> QED
    BY <2>1, <2>2, <2>3, OwnStep DEF Reads
<1>4. CASE LoseKey(a)
  <2>1. PICK c \in Ids :
          /\ company[c] # None /\ company[c].key = txn[a].domain
          /\ Goes(a, [txn[a] EXCEPT !.at = "signal", !.id = c, !.seen = txn[a].domain, !.row = None,
                              !.expired = TRUE])
    BY <1>4 DEF LoseKey, WithKey
  <2> DEFINE t == [txn[a] EXCEPT !.at = "signal", !.id = c, !.seen = txn[a].domain, !.row = None,
                              !.expired = TRUE]
  <2>2. txn[a].at = "unique" /\ txn[a].domain # None /\ Reads
    BY <1>1, <1>4 DEF LoseKey, Runs, At, TxnOK, StepOK
  <2>3. /\ t \in Txn /\ t.at = "signal" /\ t.row = None /\ t.id = c /\ t.domain = txn[a].domain
        /\ t.match = txn[a].match /\ t.linked = txn[a].linked
    BY <1>1, TxnFields DEF Txn, Steps
  <2>4. company[c].domain = txn[a].domain
    BY <1>1, <2>1, <2>2, TxnFields, KeyOfDomain DEF IdentityInv
  <2>5. OwnOK(t)
    BY <1>1, <2>1, <2>2, <2>3, <2>4, Early DEF OwnOK, IsOwn, HasDomain
  <2> HIDE DEF t
  <2>6. Goes(a, t)
    BY <2>1 DEF t
  <2> QED
    BY <2>2, <2>3, <2>5, <2>6, OwnStep DEF Reads
<1> QED
  BY <1>2, <1>3, <1>4

\* From the signal to the link.
LEMMA OwnLater ==
  ASSUME IdentityInv, AttachInv, NEW a \in Analyses, SetMatch(a) \/ EnsureFresh(a) \/ Attach(a)
  PROVE  AttachInv'
<1>1. txn[a] \in Txn /\ TxnOK(txn[a]) /\ OwnOK(txn[a])
  BY DEF IdentityInv, TypeOK, AttachInv
<1>2. CASE SetMatch(a)
  <2> DEFINE t == [txn[a] EXCEPT !.at = "ensure", !.match = Matches(a)]
  <2>1. txn[a].at = "signal" /\ Goes(a, t) /\ Reads
    BY <1>2 DEF SetMatch, Runs, At
  <2>2. Matches(a) \in {"unknown", "match", "mismatch"}
    BY DEF Matches
  <2>3. /\ t \in Txn /\ t.at = "ensure" /\ t.row = txn[a].row /\ t.id = txn[a].id
        /\ t.domain = txn[a].domain /\ t.name = txn[a].name /\ t.match = Matches(a)
        /\ t.linked = txn[a].linked
    BY <1>1, <2>2, TxnFields DEF Txn, Steps
  <2>4. Matches(a) \in {"match", "mismatch"} => txn[a].seen # None
    BY DEF Matches
  <2>5. OwnOK(t)
    BY <1>1, <2>1, <2>3, <2>4 DEF OwnOK, IsOwn, HasDomain
  <2> QED
    BY <2>1, <2>3, <2>5, OwnStep DEF Reads
<1>3. ASSUME txn[a].at \in {"ensure", "link"}, NEW to \in {"link", "rest", "broken"},
             NEW l \in {txn[a].linked, TRUE}, NEW x \in {txn[a].expired, FALSE},
             l => to = "rest", UNCHANGED tables,
             UNCHANGED outcome \/ Ends(a, "unqueued") \/ Ends(a, "attached"),
             to = "rest" /\ ~l => Ends(a, "unqueued"),
             Goes(a, [txn[a] EXCEPT !.at = to, !.linked = l, !.expired = x])
      PROVE  AttachInv'
  <2> DEFINE t == [txn[a] EXCEPT !.at = to, !.linked = l, !.expired = x]
  <2>1. /\ t \in Txn /\ t.at = to /\ t.row = txn[a].row /\ t.id = txn[a].id /\ t.linked = l
        /\ t.domain = txn[a].domain /\ t.name = txn[a].name /\ t.match = txn[a].match
    BY <1>1, TxnFields DEF Txn, Steps
  <2>2. OwnOK(t)
    BY <1>1, <1>3, <2>1 DEF OwnOK, IsOwn, HasDomain
  <2>3. to = "rest" /\ ~l => outcome'[a] = "unqueued"
    BY <1>3 DEF Ends, IdentityInv, TypeOK
  <2> QED
    BY <1>3, <2>1, <2>2, <2>3, OwnStep
<1>4. CASE EnsureFresh(a)
  <2>1. \A to \in {"link", "rest", "broken"} :
          [txn[a] EXCEPT !.at = to] =
            [txn[a] EXCEPT !.at = to, !.linked = txn[a].linked, !.expired = txn[a].expired]
    BY <1>1 DEF Txn
  <2>2. ~txn[a].linked
    BY <1>1, <1>4 DEF OwnOK, EnsureFresh, At
  <2> QED
    BY <1>1, <1>3, <1>4, <2>1, <2>2 DEF EnsureFresh, At
<1>5. CASE Attach(a)
  BY <1>3, <1>5 DEF Attach, Runs, At
<1> QED
  BY <1>2, <1>4, <1>5

\* A transaction that ended waits for nobody.
LEMMA EndedIsNotDeadlocked ==
  ASSUME NEW a \in Analyses, txn[a].at = "ended"
  PROVE  a \notin Deadlocked
<1>1. Blockers(a) = {}
  BY DEF Blockers, At
<1> QED
  BY <1>1 DEF Deadlocked

\* The generic handler, a lost claim and an aborted transaction attach nothing.
LEMMA OwnRollback ==
  ASSUME IdentityInv, AttachInv, NEW a \in Analyses,
         Abort(a) \/ FailGeneric(a) \/ Lose(a) \/ KeyTooLong(a)
  PROVE  AttachInv'
<1>1. txn[a].at # "ended"
  BY EndedIsNotDeadlocked DEF Abort, FailGeneric, Lose, KeyTooLong, At
<1>2. status[a] = "processing"
  BY <1>1 DEF AttachInv
<1>3. CASE Abort(a) \/ KeyTooLong(a)
  <2> DEFINE t == [Fresh EXCEPT !.at = "broken"]
  <2>1. /\ t \in Txn /\ t.at = "broken" /\ t.row = None /\ t.domain = None
        /\ t.match = "none" /\ ~t.linked
    BY FreshIsOK DEF Fresh, Txn, Steps
  <2>2. OwnOK(t)
    BY <2>1 DEF OwnOK
  <2>3. Goes(a, t) /\ UNCHANGED tables /\ (Ends(a, "deadlock") \/ Ends(a, "too_long"))
    BY <1>3 DEF Abort, KeyTooLong
  <2> HIDE DEF t
  <2> QED
    BY <1>1, <2>1, <2>2, <2>3, OwnStep
<1>4. CASE FailGeneric(a) \/ Lose(a)
  <2> DEFINE t == [Fresh EXCEPT !.at = "ended"]
  <2>1. t.at = "ended" /\ t.row = None /\ t.domain = None /\ t.match = "none" /\ ~t.linked
    BY DEF Fresh
  <2>2. /\ Goes(a, t) /\ company' = company /\ link' = link
        /\ status' = [status EXCEPT ![a] = "failed"]
        /\ UNCHANGED outcome \/ Ends(a, "lost")
    BY <1>4 DEF FailGeneric, Lose
  <2> HIDE DEF t
  <2>3. /\ txn'[a] = t /\ status'[a] = "failed"
        /\ \A b \in Analyses \ {a} :
             txn'[b] = txn[b] /\ outcome'[b] = outcome[b] /\ status'[b] = status[b]
    BY <2>2 DEF Goes, Ends, IdentityInv, TypeOK
  <2>4. OwnOK(t)
    BY <2>1 DEF OwnOK
  <2>5. \A b \in Analyses : OwnOK(txn'[b])
    BY <2>3, <2>4 DEF AttachInv
  <2>6. \A b \in Analyses : OwnOK(txn[b])'
    BY <2>2, <2>5 DEF OwnOK, IsOwn, HasDomain, WithKey
  <2>7. AttachedToItsCompany'
    BY <2>2, <2>3 DEF AttachInv, AttachedToItsCompany
  <2>8. MatchIsOfADomain'
    BY <1>4, <2>2 DEF AttachInv, MatchIsOfADomain, FailGeneric, Lose
  <2> QED
    BY <2>1, <2>2, <2>3, <2>6, <2>7, <2>8 DEF AttachInv
<1> QED
  BY <1>3, <1>4

\* The commit that attaches.
LEMMA OwnCommit ==
  ASSUME IdentityInv, AttachInv, NEW a \in Analyses, Commit(a)
  PROVE  AttachInv'
<1> DEFINE t == [Fresh EXCEPT !.at = "ended", !.domain = txn[a].domain, !.name = txn[a].name]
<1>1. /\ txn[a] \in Txn /\ TxnOK(txn[a]) /\ OwnOK(txn[a]) /\ txn[a].at = "rest"
      /\ txn[a].domain # None /\ ~txn[a].linked => outcome[a] = "unqueued"
      /\ status[a] = "processing" /\ link[a] = None
  BY DEF IdentityInv, TypeOK, AttachInv, Commit, At
<1>2. /\ t.at = "ended" /\ t.row = None /\ t.domain = txn[a].domain /\ t.name = txn[a].name
      /\ t.match = "none" /\ ~t.linked
  BY DEF Fresh
<1>3. Goes(a, t)
  BY DEF Commit
<1> HIDE DEF t
<1>4. /\ txn'[a] = t /\ status'[a] = "ended" /\ outcome' = outcome
      /\ link'[a] = IF txn[a].linked THEN txn[a].id ELSE None
      /\ \A b \in Analyses \ {a} : txn'[b] = txn[b] /\ status'[b] = status[b] /\ link'[b] = link[b]
  BY <1>1, <1>3 DEF Goes, Commit, IdentityInv, TypeOK
<1>5. \A c \in Ids : company'[c] # None /\ company'[c].domain = None
                       => company'[c].key = company'[c].name
  BY <1>1, Committed DEF AttachInv, OwnOK
<1>6. ASSUME NEW b \in Analyses \ {a}
      PROVE  OwnOK(txn[b])'
  <2>1. OwnOK(txn[b]) /\ StepOK(txn[b]) /\ txn'[b] = txn[b] /\ txn[b] \in Txn
    BY <1>4 DEF AttachInv, IdentityInv, TxnOK, TypeOK
  <2>2. txn[b].at = "upgrade" => company'[txn[b].id].name = txn[b].name
    BY <2>1, CommitKeeps DEF OwnOK, StepOK
  <2>3. txn[b].at = "reread" /\ txn[b].domain # None => WithKey(txn[b].domain)' # {}
    <3> SUFFICES ASSUME txn[b].at = "reread", txn[b].domain # None
                 PROVE  WithKey(txn[b].domain)' # {}
      OBVIOUS
    <3>1. PICK c \in Ids : company[c] # None /\ company[c].key = txn[b].domain
      BY <2>1 DEF OwnOK, WithKey
    <3>2. company[c].domain # None
      BY <2>1, <3>1, TxnFields, KeyOfDomain DEF IdentityInv
    <3>3. company'[c] = company[c]
      BY <3>1, <3>2, CommitKeeps
    <3> QED
      BY <2>1, <3>1, <3>3 DEF WithKey
  <2>4. txn[b].id \in Ids /\ IsOwn(txn[b]) => IsOwn(txn[b])'
    BY <2>1, CommitKeeps DEF IsOwn
  <2>5. txn[b].id \in Ids /\ HasDomain(txn[b]) => HasDomain(txn[b])'
    BY <2>1, CommitKeeps DEF HasDomain
  <2> QED
    BY <2>1, <2>2, <2>3, <2>4, <2>5 DEF OwnOK
<1>7. OwnOK(txn[a])'
  BY <1>2, <1>4 DEF OwnOK
<1>8. AttachedToItsCompany'
  <2> SUFFICES ASSUME NEW b \in Analyses, status'[b] = "ended", txn'[b].domain # None
               PROVE  \/ /\ link'[b] # None /\ company'[link'[b]].domain # None
                         /\ \/ company'[link'[b]].domain = txn'[b].domain
                            \/ company'[link'[b]].name = txn'[b].name
                      \/ link'[b] = None /\ outcome'[b] = "unqueued"
    BY DEF AttachedToItsCompany
  <2>1. CASE b = a /\ txn[a].linked
    <3>1. /\ link'[b] = txn[a].id /\ txn[a].id \in Ids /\ IsOwn(txn[a])
          /\ txn'[b].domain = txn[a].domain /\ txn'[b].name = txn[a].name
          /\ txn[a].domain # None
      BY <1>1, <1>2, <1>4, <2>1 DEF OwnOK
    <3>2. link'[b] # None
      BY <3>1, IdentityAssumption
    <3>3. CASE txn[a].row # None
      BY <1>1, <3>1, <3>2, <3>3, Committed DEF OwnOK
    <3>4. CASE txn[a].row = None
      BY <3>1, <3>2, <3>4, Committed DEF IsOwn
    <3> QED
      BY <3>3, <3>4
  <2>2. CASE b = a /\ ~txn[a].linked
    BY <1>1, <1>2, <1>4, <2>2
  <2>3. CASE b # a
    <3>1. /\ status[b] = "ended" /\ txn[b].domain # None /\ txn'[b] = txn[b]
          /\ link'[b] = link[b] /\ outcome'[b] = outcome[b]
      BY <1>4, <2>3
    <3>2. \/ /\ link[b] # None /\ company[link[b]].domain # None
             /\ \/ company[link[b]].domain = txn[b].domain
                \/ company[link[b]].name = txn[b].name
          \/ link[b] = None /\ outcome[b] = "unqueued"
      BY <3>1 DEF AttachInv, AttachedToItsCompany
    <3>3. CASE link[b] # None /\ company[link[b]] # None
      <4>1. link[b] \in Ids
        BY <3>3 DEF IdentityInv, TypeOK
      <4> QED
        BY <3>1, <3>2, <3>3, <4>1, CommitKeeps
    <3>4. CASE link[b] = None
      BY <3>1, <3>2, <3>4
    <3>5. link[b] # None => company[link[b]] # None
      BY <3>1 DEF AttachInv
    <3> QED
      BY <3>3, <3>4, <3>5
  <2> QED
    BY <2>1, <2>2, <2>3
<1>9. ASSUME NEW b \in Analyses, status'[b] = "ended", txn'[b].domain # None, link'[b] # None
      PROVE  company'[link'[b]] # None
  <2>1. CASE b = a
    <3>1. txn[a].linked /\ link'[b] = txn[a].id /\ txn[a].id \in Ids /\ IsOwn(txn[a])
      BY <1>1, <1>2, <1>4, <1>9, <2>1 DEF OwnOK
    <3> QED
      BY <1>1, <3>1, Committed DEF IsOwn
  <2>2. CASE b # a
    <3>1. company[link[b]] # None /\ link[b] \in Ids /\ link'[b] = link[b]
      BY <1>4, <1>9, <2>2 DEF AttachInv, IdentityInv, TypeOK
    <3> QED
      BY <3>1, CommitKeeps
  <2> QED
    BY <2>1, <2>2
<1>10. ASSUME NEW b \in Analyses
       PROVE  /\ txn'[b].at = "rest" /\ txn'[b].domain # None /\ ~txn'[b].linked
                   => outcome'[b] = "unqueued"
              /\ txn'[b].at = "ended" <=> status'[b] # "processing"
              /\ status'[b] = "processing" => link'[b] = None
  BY <1>2, <1>4 DEF AttachInv
<1>11. MatchIsOfADomain'
  <2> SUFFICES ASSUME NEW c \in Ids, signal'[c] \in {"match", "mismatch"}
               PROVE  company'[c] # None /\ company'[c].domain # None
    BY DEF MatchIsOfADomain
  <2>1. CASE c = txn[a].id /\ txn[a].match # "none"
    <3>1. signal'[c] = txn[a].match
      BY <2>1 DEF Commit, IdentityInv, TypeOK
    <3>2. HasDomain(txn[a])
      BY <1>1, <3>1 DEF OwnOK
    <3>3. txn[a].row \in Row \union {None}
      BY <1>1, TxnFields
    <3> QED
      BY <2>1, <3>2, <3>3, NoneIsNoRow, Committed DEF HasDomain
  <2>2. CASE c # txn[a].id \/ txn[a].match = "none"
    <3>1. signal'[c] = signal[c]
      BY <2>2 DEF Commit, IdentityInv, TypeOK
    <3>2. company[c] # None /\ company[c].domain # None
      BY <3>1 DEF AttachInv, MatchIsOfADomain
    <3> QED
      BY <3>2, CommitKeeps
  <2> QED
    BY <2>1, <2>2
<1> QED
  BY <1>5, <1>6, <1>7, <1>8, <1>9, <1>10, <1>11 DEF AttachInv

LEMMA AttachStep == IdentityInv /\ AttachInv /\ [Next]_vars => AttachInv'
<1> SUFFICES ASSUME IdentityInv, AttachInv, [Next]_vars PROVE AttachInv'
  OBVIOUS
<1>1. CASE UNCHANGED vars
  <2>1. /\ company' = company /\ link' = link /\ status' = status /\ txn' = txn /\ signal' = signal
        /\ outcome' = outcome
    BY <1>1 DEF vars, tables
  <2> QED
    BY <2>1 DEF AttachInv, OwnOK, IsOwn, HasDomain, WithKey, AttachedToItsCompany, MatchIsOfADomain
<1>2. ASSUME NEW a \in Analyses, Stage(a)
      PROVE  AttachInv'
  BY <1>2, OwnResolve, OwnUpgrade, OwnLater, OwnRollback DEF Stage
<1>3. ASSUME NEW a \in Analyses, Commit(a) \/ Abort(a) \/ FailGeneric(a) \/ Lose(a)
      PROVE  AttachInv'
  BY <1>3, OwnCommit, OwnRollback
<1> QED
  BY <1>1, <1>2, <1>3 DEF Next

THEOREM AttachInvariance == Spec => []AttachInv
<1>1. Init => AttachInv
  <2> SUFFICES ASSUME Init PROVE AttachInv
    OBVIOUS
  <2>1. \A a \in Analyses : txn[a] = Fresh /\ status[a] = "processing" /\ link[a] = None
    BY DEF Init
  <2>2. /\ Fresh.at = "new" /\ Fresh.row = None /\ Fresh.domain = None
        /\ Fresh.match = "none" /\ Fresh.linked = FALSE
    BY DEF Fresh
  <2>3. \A c \in Ids : company[c] = None /\ signal[c] = "absent"
    BY DEF Init
  <2> QED
    BY <2>1, <2>2, <2>3 DEF AttachInv, OwnOK, AttachedToItsCompany, MatchIsOfADomain
<1> QED
  BY <1>1, AttachStep, Invariance, PTL DEF Spec

\* For any number of analyses, an analysis of a letter with a domain ends
\* attached to a company with a domain, its own or another's of the same name,
\* and without a company only if the refresh could not be queued.
THEOREM AttachmentsAreRight == Spec => []AttachedToItsCompany
<1>1. AttachInv => AttachedToItsCompany
  BY DEF AttachInv
<1> QED
  BY <1>1, AttachInvariance, PTL

\* For any number of analyses and companies, only a company with a domain is
\* said to match a letter's, or not to.
THEOREM MatchesAreOfADomain == Spec => []MatchIsOfADomain
<1>1. AttachInv => MatchIsOfADomain
  BY DEF AttachInv
<1> QED
  BY <1>1, AttachInvariance, PTL

-----------------------------------------------------------------------------
(***************************************************************************)
(* Every cycle of waits has an upgrade in it.                              *)
(***************************************************************************)

\* Someone who has inserted its company waits for nobody: no one else knows
\* the company.
LEMMA InsertersDoNotWait ==
  ASSUME IdentityInv, NEW b \in Analyses, txn[b].row # None, company[txn[b].id] = None
  PROVE  Blockers(b) = {}
<1>1. TxnOK(txn[b]) /\ txn[b].at \in {"signal", "ensure", "link", "rest"}
  BY DEF IdentityInv, TxnOK, RowOK
<1>2. ASSUME NEW c \in Analyses \ {b}, txn[c].id = txn[b].id
      PROVE  txn[c].row = None /\ txn[c].match = "none"
  <2>1. txn[c].row = None
    BY <1>2 DEF IdentityInv, RowsDiffer
  <2>2. txn[c].match # "none" => HasCompany(txn[c])
    BY DEF IdentityInv, TxnOK, StepOK
  <2> QED
    BY <1>2, <2>1, <2>2 DEF HasCompany
<1> QED
  BY <1>1, <1>2 DEF Blockers, At

\* For any number of analyses, whoever they wait for: where each of some
\* analyses waits for another of them, one of them upgrades a company.
THEOREM EveryCycleHasAnUpgrade == Spec => []CyclesHaveAnUpgrade
<1> DEFINE Upgrades(a) == /\ txn[a].row # None /\ txn[a].row.domain # None
                          /\ company[txn[a].id] # None /\ company[txn[a].id].domain = None
<1>1. ASSUME IdentityInv, AttachInv, NEW S \in (SUBSET Analyses) \ {{}},
             \A a \in S : Blockers(a) \intersect S # {}
      PROVE  \E a \in S : Upgrades(a)
  <2> SUFFICES ASSUME \A a \in S : ~Upgrades(a) PROVE FALSE
    OBVIOUS
  <2>1. \A a \in S : a \in Analyses /\ TxnOK(txn[a]) /\ OwnOK(txn[a])
    BY <1>1 DEF IdentityInv, AttachInv
  <2>2. ASSUME NEW a \in S PROVE txn[a].row = None
    <3>1. CASE txn[a].row # None /\ company[txn[a].id] = None
      BY <1>1, <2>1, <3>1, InsertersDoNotWait
    <3>2. CASE txn[a].row # None /\ company[txn[a].id] # None
      <4>1. RowOK(txn[a])
        BY <2>1 DEF TxnOK
      <4>2. company[txn[a].id].domain = None /\ txn[a].row.domain # None
        BY <3>2, <4>1 DEF RowOK
      <4> QED
        BY <3>2, <4>2
    <3> QED
      BY <3>1, <3>2
  <2>3. PICK a \in S : TRUE
    BY <1>1
  <2>4. PICK b \in S : b \in Blockers(a)
    BY <1>1
  <2>5. PICK c \in S : c \in Blockers(b)
    BY <1>1
  <2>6. txn[a].row = None /\ txn[b].row = None /\ txn[c].row = None
    BY <2>2
  <2>7. txn[b].match # "none" \/ txn[b].linked
    BY <2>4, <2>6 DEF Blockers, Claims
  <2>8. txn[b].at \in {"ensure", "link", "rest", "broken"}
    BY <2>1, <2>7 DEF OwnOK
  <2> QED
    BY <2>5, <2>6, <2>8 DEF Blockers, Claims, At
<1>2. IdentityInv /\ AttachInv => CyclesHaveAnUpgrade
  BY <1>1 DEF CyclesHaveAnUpgrade
<1> QED
  BY <1>2, AttachInvariance, Invariance, PTL
=============================================================================
