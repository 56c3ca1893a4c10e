------------------------------ MODULE Downloads ------------------------------
(***************************************************************************)
(* Downloads (DownloadManager, DownloadHistoryStore, DownloadsPanel).  The *)
(* manager keeps a bounded list of records, newest first, and the requests *)
(* of Chromium that are not over; the panel keeps a row for each record    *)
(* and is told of their changes.  The save dialog is modal and runs the    *)
(* event loop, so a download can be requested, progress or end while       *)
(* another one's dialog is open.  The list is written by a timer while     *)
(* downloads run and at once when one ends; what was running when the      *)
(* program ended is marked by the next start.                              *)
(***************************************************************************)
EXTENDS Naturals, Sequences, SequencesExt, Subsequences

CONSTANTS
  MaxDownloads,      \* bound: requests of Chromium
  MaximumRecords,    \* DownloadHistoryStore::maximumRecords
  MaxPauses,         \* bound: changes of isPaused
  MaxDownloadStarts  \* bound: starts of the program

ASSUME DownloadsAssumption ==
  MaxDownloads \in Nat /\ MaximumRecords \in Nat \ {0} /\ MaxPauses \in Nat /\ MaxDownloadStarts \in Nat

VARIABLE dl

dlVars == << dl >>

\* Requests by the order in which they are made; their ids are fresh.
Downloads == 1 .. MaxDownloads

Active == { "InProgress", "Paused" }
Ended == "Ended"  \* Completed, Cancelled or Failed, which are treated alike

(***************************************************************************)
(* request: the state Chromium's request is in, "none" before it is made   *)
(* and "gone" once it is destroyed; dialogs: the save dialogs, innermost   *)
(* first; held: the keys of m_requests; rows: what the panel shows, from   *)
(* the top; file: downloads.json.  History: behind, the file misses        *)
(* changes since a save failed or the program died before its timer;       *)
(* dropped, records that the bound has pushed out.                         *)
(***************************************************************************)
DlInit ==
  dl = [request |-> [d \in Downloads |-> "none"], dialogs |-> << >>, records |-> << >>, rows |-> << >>,
        held |-> {}, timer |-> FALSE, file |-> << >>, running |-> TRUE, behind |-> FALSE, dropped |-> {},
        pauses |-> 0, starts |-> 0]

DownloadsListed(S, d) == \E i \in DOMAIN S.records : S.records[i].id = d
Bounded(records) == SubSeq(records, 1, IF Len(records) < MaximumRecords THEN Len(records) ELSE MaximumRecords)

\* An element of records with its status, the others as they are.
Marked(records, d, status) ==
  [i \in DOMAIN records |-> IF records[i].id = d THEN [records[i] EXCEPT !.status = status] ELSE records[i]]

\* What is active becomes Interrupted, at a start and in the destructor.
Interrupted(records) ==
  [i \in DOMAIN records |->
     IF records[i].status \in Active THEN [records[i] EXCEPT !.status = "Interrupted"] ELSE records[i]]

\* saveNow: the whole file or, when it fails, nothing but a line in the log.
SavedNow(S) ==
  { [S EXCEPT !.timer = FALSE, !.file = S.records, !.behind = FALSE], [S EXCEPT !.timer = FALSE, !.behind = TRUE] }

(***************************************************************************)
(* The panel: recordAdded, recordUpdated, recordRemoved and historyReset.  *)
(***************************************************************************)
AddRecord(S, d) ==
  IF \E row \in ToSet(S.rows) : row.id = d THEN S
  ELSE [S EXCEPT !.rows = << S.records[SelectInSeq(S.records, LAMBDA r : r.id = d)] >> \o @]

UpdateRecord(S, d) == [S EXCEPT !.rows = Marked(@, d, S.records[SelectInSeq(S.records, LAMBDA r : r.id = d)].status)]

RemoveRecord(S, d) == [S EXCEPT !.rows = ElementsWith(@, LAMBDA row : row.id # d)]

Rebuild(S) == [S EXCEPT !.rows = S.records]

ScheduleSave(S) == [S EXCEPT !.timer = TRUE]

Is(S) == dl' = S
Saves(S) == \E T \in SavedNow(S) : Is(T)

(***************************************************************************)
(* handleDownload: the dialog opens, and is answered.                      *)
(***************************************************************************)
Requested ==
  /\ dl.running
  /\ \E d \in Downloads :
       /\ dl.request[d] = "none" /\ \A e \in 1 .. d - 1 : dl.request[e] # "none"
       /\ Is([dl EXCEPT !.request[d] = "requested", !.dialogs = << d >> \o @])

Answering == dl.running /\ dl.dialogs # << >>

SaveAs ==
  /\ Answering
  /\ LET d == Head(dl.dialogs)
         records == << [id |-> d, status |-> "InProgress"] >> \o dl.records
         S == [dl EXCEPT
                !.dialogs = Tail(@), !.request[d] = "InProgress", !.held = @ \cup {d}, !.records = Bounded(records),
                !.dropped = @ \cup { r.id : r \in ToSet(records) \ ToSet(Bounded(records)) }]
     IN  Is(ScheduleSave(AddRecord(S, d)))

RejectDialog == Answering /\ Is([dl EXCEPT !.dialogs = Tail(@), !.request[Head(dl.dialogs)] = Ended])

(***************************************************************************)
(* updateFromRequest and the handler of destroyed.                         *)
(***************************************************************************)
Update(S, d) ==
  IF ~DownloadsListed(S, d) THEN {S}
  ELSE LET T == UpdateRecord([S EXCEPT !.records = Marked(@, d, S.request[d])], d)
       IN  IF S.request[d] \in Active THEN { ScheduleSave(T) } ELSE SavedNow([T EXCEPT !.held = @ \ {d}])

Running(d) == dl.running /\ dl.request[d] \in Active

Progress == \E d \in Downloads : Running(d) /\ \E T \in Update(dl, d) : Is(T)

\* Chromium ends the download; cancel is one of the reasons.
End ==
  \E d \in Downloads : Running(d) /\ \E T \in Update([dl EXCEPT !.request[d] = Ended], d) : Is(T)

\* A button of a row; pauseOrResume reaches the requests that are held.
PauseOrResume ==
  /\ dl.pauses < MaxPauses
  /\ \E d \in dl.held :
       /\ Running(d) /\ \E row \in ToSet(dl.rows) : row.id = d
       /\ LET S == [dl EXCEPT !.pauses = @ + 1, !.request[d] = IF @ = "Paused" THEN "InProgress" ELSE "Paused"]
          IN  \E T \in Update(S, d) : Is(T)

Destroyed(S, d) ==
  LET T == [S EXCEPT !.request[d] = "gone", !.held = @ \ {d}]
  IN  IF \E r \in ToSet(S.records) : r.id = d /\ r.status \in Active
      THEN SavedNow(UpdateRecord([T EXCEPT !.records = Marked(@, d, "Interrupted")], d))
      ELSE {T}

Destroy ==
  /\ dl.running
  /\ \E d \in Downloads :
       dl.request[d] \in Active \cup { Ended } /\ \E T \in Destroyed(dl, d) : Is(T)

(***************************************************************************)
(* The history, the timer, and the life of the program.                    *)
(***************************************************************************)
RemoveFromHistory ==
  /\ dl.running
  /\ \E row \in ToSet(dl.rows) :
       /\ row.status \notin Active /\ row.id \notin dl.held /\ DownloadsListed(dl, row.id)
       /\ Saves(RemoveRecord([dl EXCEPT !.records = ElementsWith(@, LAMBDA r : r.id # row.id)], row.id))

ClearDownloads ==
  dl.running /\ Saves(Rebuild([dl EXCEPT !.records = ElementsWith(@, LAMBDA r : r.status \in Active)]))

SaveTimer == dl.running /\ dl.timer /\ Saves(dl)

\* The requests end with the profile.
Over(S) ==
  [S EXCEPT !.running = FALSE, !.held = {}, !.dialogs = << >>, !.timer = FALSE, !.records = << >>, !.rows = << >>,
            !.request = [d \in Downloads |-> IF @[d] = "none" THEN "none" ELSE "gone"]]

\* The destructor
Quit == dl.running /\ dl.dialogs = << >>
        /\ \E T \in SavedNow([dl EXCEPT !.records = Interrupted(@)]) : Is(Over(T))

Crash == dl.running /\ Is(Over([dl EXCEPT !.behind = @ \/ dl.timer]))

\* The constructors; a file that cannot be read counts as empty.
Loading == { dl.file } \cup { << >> }

Start ==
  /\ ~dl.running /\ dl.starts < MaxDownloadStarts
  /\ \E loaded \in Loading :
       LET S == Rebuild([dl EXCEPT !.running = TRUE, !.starts = @ + 1, !.records = Interrupted(loaded),
                                   !.behind = loaded # dl.file])
       IN  IF Interrupted(loaded) = loaded THEN Is(S) ELSE Saves(S)

DlNext ==
  \/ Requested \/ SaveAs \/ RejectDialog \/ Progress \/ End \/ PauseOrResume \/ Destroy
  \/ RemoveFromHistory \/ ClearDownloads \/ SaveTimer \/ Quit \/ Crash \/ Start

(***************************************************************************)
(* Property.                                                               *)
(***************************************************************************)
\* What the downloads panel shows is what Chromium does: a record is active only while its request
\* runs, and is then held, so that it can be cancelled; a request is held without a record only when
\* the bound has pushed the record out; the rows are the records, in their order and with their status,
\* but for rows whose record the bound has pushed out; and when no save is due or has failed, the file
\* lists the records (updateFromRequest, the handler of destroyed, saveNow, the panel's handlers).
DownloadsAgree ==
  dl.running =>
    /\ \A r \in ToSet(dl.records) :
         /\ r.status \in Active => r.id \in dl.held /\ dl.request[r.id] = r.status
         /\ r.id \in dl.held => r.status \in Active
    /\ \A d \in dl.held : DownloadsListed(dl, d) \/ d \in dl.dropped
    /\ ElementsWith(dl.rows, LAMBDA row : DownloadsListed(dl, row.id)) = dl.records
    /\ \A row \in ToSet(dl.rows) : DownloadsListed(dl, row.id) \/ row.id \in dl.dropped
    /\ ~dl.timer /\ ~dl.behind => dl.file = dl.records
=============================================================================
