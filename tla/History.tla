------------------------------- MODULE History -------------------------------
(***************************************************************************)
(* The browsing history (HistoryStore and its page in the settings): a     *)
(* SQLite database that one connection writes.  A page of the history      *)
(* keeps counts over its visits, which every change of the visits has to   *)
(* bring up to date.                                                       *)
(***************************************************************************)
EXTENDS Integers, FiniteSets, FiniteSetsExt

CONSTANTS
  Addresses,       \* addresses as the store normalizes them
  Times,           \* visit times; the clock can be set back
  MaximumVisits,   \* HistoryStore::maximumVisits
  PruneSlack,      \* visits beyond it before a cleanup
  MaxVisits        \* bound: visits in a behaviour

ASSUME HistoryAssumption ==
  Times \subseteq Nat \ {0} /\ {MaximumVisits, PruneSlack, MaxVisits} \subseteq Nat

VARIABLE hs

hsVars == << hs >>

(***************************************************************************)
(* view: the tables as the connection sees them; disk: what a new process  *)
(* finds; they differ while a transaction is open.  listed: the rows of    *)
(* the History page; overdue: a cleanup has failed, and what it left may   *)
(* be on disk.                                                             *)
(***************************************************************************)
EmptyTables == [visits |-> {}, pages |-> {}]

HsInit ==
  hs = [view |-> EmptyTables, disk |-> EmptyTables, inTransaction |-> FALSE, listed |-> {}, overdue |-> FALSE,
        recorded |-> 0]

HsIs(S) == hs' = S

(***************************************************************************)
(* The aggregates.  rebuildPageAggregates counts the visits of the pages   *)
(* it is given and removes those that have none.                           *)
(***************************************************************************)
VisitsOf(db, page) == { v \in db.visits : v.page = page }

Aggregate(db, page) ==
  LET visits == VisitsOf(db, page)
  IN  [page |-> page, count |-> Cardinality(visits), typed |-> Cardinality({ v \in visits : v.typed }),
       last |-> Max({ v.at : v \in visits })]

\* Mutant of Rebuilt: pages that lose their last visit stay.
RebuiltCounts(db, pages) ==
  [db EXCEPT !.pages =
     { r \in @ : r.page \notin pages \/ VisitsOf(db, r.page) = {} }
       \cup { Aggregate(db, p) : p \in { q \in pages : VisitsOf(db, q) # {} } }]

Rebuilt(db, pages) ==
  [db EXCEPT !.pages =
     { r \in @ : r.page \notin pages } \cup { Aggregate(db, p) : p \in { q \in pages : VisitsOf(db, q) # {} } }]

WithoutVisits(db, gone) == Rebuilt([db EXCEPT !.visits = @ \ gone], { v.page : v \in gone })

\* The statement of recordVisit that inserts the page or adds to its counts.
Upserted(pages, page, typed, at) ==
  LET old == { r \in pages : r.page = page }
      one == IF typed THEN 1 ELSE 0
  IN  (pages \ old) \cup
      (IF old = {} THEN { [page |-> page, count |-> 1, typed |-> one, last |-> at] }
       ELSE { [page |-> page, count |-> r.count + 1, typed |-> r.typed + one, last |-> Max({ r.last, at })] : r \in old })

NextRow(db) == IF db.visits = {} THEN 1 ELSE 1 + Max({ v.id : v \in db.visits })

\* pruneIfNeeded removes the oldest visits.
Older(u, v) == u.at < v.at \/ (u.at = v.at /\ u.id < v.id)
Oldest(db, n) == { v \in db.visits : Cardinality({ u \in db.visits : Older(u, v) }) < n }

Pruned(db) ==
  IF Cardinality(db.visits) <= MaximumVisits + PruneSlack THEN db
  ELSE WithoutVisits(db, Oldest(db, Cardinality(db.visits) - MaximumVisits))

(***************************************************************************)
(* Transactions.  A failing statement rolls its transaction back.  A       *)
(* commit that fails is not followed by a rollback: SQLite may have ended  *)
(* the transaction or may keep it open, and later statements are then part *)
(* of it, and no transaction can be started, until the program ends.       *)
(***************************************************************************)
Commits(S, db) ==
  { [S EXCEPT !.view = db, !.disk = db], [S EXCEPT !.view = db, !.inTransaction = TRUE], S }

\* A statement of its own
Executes(S, db) == [S EXCEPT !.view = db, !.disk = IF S.inTransaction THEN @ ELSE db]

\* historyChanged reloads the list of the History page.
HistoryChanged(S) == [S EXCEPT !.listed = S.view.visits]

RecordVisit ==
  /\ ~hs.inTransaction /\ hs.recorded < MaxVisits
  /\ \E page \in Addresses, typed \in BOOLEAN, at \in Times :
       LET visit == [id |-> NextRow(hs.view), page |-> page, at |-> at, typed |-> typed]
           db == [visits |-> hs.view.visits \cup {visit}, pages |-> Upserted(hs.view.pages, page, typed, at)]
       IN  \E S \in Commits([hs EXCEPT !.recorded = @ + 1], db) :
             IF S.disk # db THEN HsIs(S)
             ELSE \/ HsIs(HistoryChanged([Executes(S, Pruned(db)) EXCEPT
                                            !.overdue = @ /\ Cardinality(db.visits) <= MaximumVisits + PruneSlack]))
                  \/ /\ Pruned(db) # db     \* the cleanup fails: the visit stays, the list is not reloaded
                     /\ \E T \in Commits(S, Pruned(db)) :
                          T.disk = db /\ HsIs([T EXCEPT !.overdue = TRUE])

\* HistorySettingsPage::removeSelected
RemoveVisits ==
  /\ ~hs.inTransaction
  /\ \E selected \in SUBSET { v.id : v \in hs.listed } :
       LET db == WithoutVisits(hs.view, { v \in hs.view.visits : v.id \in selected })
       IN  /\ selected # {}
           /\ \E S \in Commits(hs, db) : HsIs(IF S.disk = db THEN HistoryChanged(S) ELSE S)

\* DELETE FROM pages cascades to the visits.
Cleared(db) == EmptyTables

ClearHistory ==
  HsIs(HistoryChanged([Executes(hs, Cleared(hs.view)) EXCEPT !.overdue = @ /\ hs.inTransaction]))

OpenHistoryPage == HsIs(HistoryChanged(hs))

\* The program ends, and the next one opens the database.
RestartHistory == HsIs([hs EXCEPT !.view = hs.disk, !.inTransaction = FALSE, !.listed = {}])

HsNext == RecordVisit \/ RemoveVisits \/ ClearHistory \/ OpenHistoryPage \/ RestartHistory

(***************************************************************************)
(* Property.                                                               *)
(***************************************************************************)
\* In the connection and on disk, every page has visits and its counts are those of its visits; no
\* visit is without a page; no more visits are kept than the bound, unless a cleanup has failed; and
\* a visit that the History page removes by its id is the one it lists, although SQLite uses ids again
\* (recordVisit, removeVisits, pruneIfNeeded, rebuildPageAggregates, clear).
HistoryAgrees ==
  /\ \A db \in {hs.view, hs.disk} :
       /\ { r.page : r \in db.pages } = { v.page : v \in db.visits }
       /\ \A r \in db.pages : r = Aggregate(db, r.page)
       /\ Cardinality({ v.id : v \in db.visits }) = Cardinality(db.visits)
       /\ hs.overdue \/ Cardinality(db.visits) <= MaximumVisits + PruneSlack + 1
  /\ \A listed \in hs.listed, v \in hs.view.visits : listed.id = v.id => listed = v
=============================================================================
