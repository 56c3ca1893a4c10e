--------------------------- MODULE CredentialsPage ---------------------------
(***************************************************************************)
(* The page of the settings dialog that lists the saved credentials and    *)
(* removes them (CredentialsSettingsPage).  The store works in another     *)
(* thread (CredentialStore::listAsync, removeAsync) on one credential after *)
(* the other, each of which may fail; it is that of Windows here, and that *)
(* of Linux is SecretService.  A page that signs in may save a credential  *)
(* at any time; and the dialog is not closed over a removal.               *)
(***************************************************************************)
EXTENDS Naturals

CONSTANTS
  Credentials,  \* targets: a site or a proxy, and the user there
  MaxSignIns,   \* bound: credentials saved by pages
  MaxDialogs    \* bound: times the dialog is opened

ASSUME CredentialsAssumption == MaxSignIns \in Nat /\ MaxDialogs \in Nat

VARIABLE cp

cpVars == << cp >>

(***************************************************************************)
(* The store (store: there is one): items, what it holds, damaged entries  *)
(* being those that cannot be decoded; todo, what it has yet to remove;    *)
(* result, the list it has read.  The page: shown: m_summaries; error:     *)
(* m_listError; busy: the operation under way; active:                     *)
(* m_destructiveOperationActive; warning, a message box is open; failed,   *)
(* the removals the box will tell of.  History: confirmed, what the user   *)
(* has agreed to remove in this dialog; removed, what was; stale, a        *)
(* credential was saved since the list was read.                           *)
(***************************************************************************)
NoOperation == ""

NoList == [shown |-> {}, error |-> "None"]

ClosedDialog == [open |-> FALSE, loaded |-> FALSE, busy |-> NoOperation, active |-> FALSE, warning |-> FALSE]

CpInit ==
  \E items \in [Credentials -> { "none", "stored", "damaged" }], store \in BOOLEAN :
    cp = [dialog |-> ClosedDialog, list |-> NoList, selected |-> {}, store |-> store, items |-> items,
          todo |-> {}, failed |-> {}, result |-> {}, confirmed |-> {}, removed |-> {}, stale |-> FALSE,
          signIns |-> 0, dialogs |-> 0]

CpIs(S) == cp' = S
With(state) == { c \in Credentials : cp.items[c] = state }

\* applyListResult: what is still there stays selected.
ApplyListResult(S, list) ==
  [S EXCEPT !.list = list, !.selected = @ \cap list.shown, !.dialog.busy = NoOperation, !.result = {}]

Reload(S) ==
  IF ~S.store THEN ApplyListResult([S EXCEPT !.dialog.loaded = TRUE], [shown |-> {}, error |-> "Unavailable"])
  ELSE [S EXCEPT !.dialog.loaded = TRUE, !.dialog.busy = "list", !.result = {}]

OpenDialog ==
  /\ ~cp.dialog.open /\ cp.dialogs < MaxDialogs
  /\ CpIs([cp EXCEPT !.dialog = [ClosedDialog EXCEPT !.open = TRUE], !.list = NoList, !.selected = {},
                     !.confirmed = {}, !.removed = {}, !.failed = {}, !.dialogs = @ + 1])

PageIdle == cp.dialog.open /\ cp.dialog.busy = NoOperation /\ ~cp.dialog.warning

\* showEvent
ShowPage == PageIdle /\ ~cp.dialog.loaded /\ CpIs(Reload(cp))

Refresh == PageIdle /\ cp.dialog.loaded /\ CpIs(Reload(cp))

\* What can be listed; or nothing, since the store is locked or not there.
Lists ==
  { [shown |-> With("stored"), error |-> IF With("damaged") = {} THEN "None" ELSE "CorruptData"] }
    \cup [shown : {{}}, error : { "AccessDenied", "Unavailable" }]

ListRead ==
  /\ cp.dialog.busy = "list" /\ cp.result = {}
  /\ \E list \in Lists : CpIs([cp EXCEPT !.result = { list }, !.stale = FALSE])

ListFinished == cp.dialog.busy = "list" /\ \E list \in cp.result : CpIs(ApplyListResult(cp, list))

SelectCredentials == PageIdle /\ \E S \in SUBSET cp.list.shown \ { cp.selected } : CpIs([cp EXCEPT !.selected = S])

CanRemoveAll == cp.list.shown # {} \/ cp.list.error \in { "AccessDenied", "CorruptData" }

\* The user has confirmed it.
Removing(operation, targets, confirmed) ==
  CpIs([cp EXCEPT !.dialog.active = TRUE, !.dialog.busy = operation, !.todo = targets, !.failed = {},
                  !.confirmed = @ \cup confirmed])

RemoveSelected == PageIdle /\ cp.selected # {} /\ Removing("remove", cp.selected, cp.selected)

RemoveAll == PageIdle /\ CanRemoveAll /\ Removing("removeAll", Credentials \ With("none"), Credentials)

RemoveOne ==
  \E c \in cp.todo :
    \/ CpIs([cp EXCEPT !.todo = @ \ {c}, !.items[c] = "none", !.removed = @ \cup {c}])
    \/ CpIs([cp EXCEPT !.todo = @ \ {c}, !.failed = @ \cup {c}])

RemovalOver(S) == IF S.failed = {} THEN Reload(S) ELSE [S EXCEPT !.dialog.warning = TRUE]

RemovalFinished ==
  /\ cp.dialog.busy \in { "remove", "removeAll" } /\ cp.todo = {}
  /\ CpIs(RemovalOver([cp EXCEPT !.dialog.busy = NoOperation, !.dialog.active = FALSE]))

CloseWarning == cp.dialog.warning /\ CpIs(Reload([cp EXCEPT !.dialog.warning = FALSE]))

\* reject and saveAndClose
MayClose == ~cp.dialog.active

CloseDialog ==
  /\ cp.dialog.open /\ ~cp.dialog.warning /\ MayClose
  /\ CpIs([cp EXCEPT !.dialog.open = FALSE, !.result = {},
                     !.dialog.busy = IF @ = "list" THEN NoOperation ELSE @])

SignIn ==
  /\ cp.store /\ cp.signIns < MaxSignIns
  /\ \E c \in Credentials : CpIs([cp EXCEPT !.items[c] = "stored", !.stale = TRUE, !.signIns = @ + 1])

CpNext ==
  \/ OpenDialog \/ ShowPage \/ Refresh \/ ListRead \/ ListFinished \/ SelectCredentials \/ RemoveSelected
  \/ RemoveAll \/ RemoveOne \/ RemovalFinished \/ CloseWarning \/ CloseDialog \/ SignIn

(***************************************************************************)
(* Property.                                                               *)
(***************************************************************************)
\* No removal runs once the dialog is closed; what is removed was confirmed in that dialog; a list that
\* is shown is the one the store holds, after a removal that failed in part too, unless a page has signed
\* in since; and while there is an entry that cannot be read, everything can be removed.
CredentialsAgree ==
  /\ cp.todo # {} => cp.dialog.open /\ cp.dialog.active
  /\ cp.removed \subseteq cp.confirmed
  /\ cp.selected \subseteq cp.list.shown
  /\ PageIdle /\ cp.dialog.loaded /\ ~cp.stale /\ cp.list.error \in { "None", "CorruptData" } =>
       cp.list.shown = With("stored") /\ (With("damaged") # {} => CanRemoveAll)
=============================================================================
