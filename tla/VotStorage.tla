----------------------------- MODULE VotStorage -----------------------------
(***************************************************************************)
(* GM_getValue and GM_setValue: every document of the VOT userscript works *)
(* on its own copy of the values and reports its writes to the one         *)
(* VotUserscriptStore, which saves them and sends each change to all the   *)
(* documents, the writer's included.  Reports and updates of a page keep   *)
(* their order.  One key stands for all; a page has one document.          *)
(***************************************************************************)
EXTENDS Naturals, Sequences

CONSTANTS
  StoragePages,  \* pages with a bridge
  StoredValues,  \* values of the key
  MaxWrites,     \* bound: writes made in a behaviour
  MaxReplaced    \* bound: documents and processes replaced in a behaviour

ASSUME VotStorageAssumption == MaxWrites \in Nat /\ MaxReplaced \in Nat

VARIABLE vs

vsVars == << vs >>

NoValue == "absent"
Entry == StoredValues \union { NoValue }

(***************************************************************************)
(* values: m_values; disk: vot-storage.json; copy: storage of a document;  *)
(* up, down: messages under way.  History: unsaved, documents whose last   *)
(* write was refused and not overtaken by an update; uncertain, a save     *)
(* that failed after it had replaced the file.                             *)
(***************************************************************************)
VsInit ==
  \E stored \in Entry :
    vs = [values |-> stored, disk |-> stored, copy |-> [p \in StoragePages |-> stored],
          up |-> [p \in StoragePages |-> << >>], down |-> [p \in StoragePages |-> << >>],
          unsaved |-> {}, uncertain |-> FALSE, writes |-> 0, replaced |-> 0]

\* writeValue and deleteValue of the injected script.
ScriptWrites(p, entry) ==
  /\ vs.writes < MaxWrites
  /\ vs' = [vs EXCEPT !.copy[p] = entry, !.up[p] = Append(@, entry), !.writes = @ + 1]

\* Mutant of Broadcast: the writer is left out, having the value already.
BroadcastToOthers(s, entry, writer) ==
  [s EXCEPT !.down = [p \in StoragePages |-> IF p = writer THEN @[p] ELSE Append(@[p], entry)], !.unsaved = {}]

Broadcast(s, entry, writer) ==
  [s EXCEPT !.down = [p \in StoragePages |-> Append(@[p], entry)], !.unsaved = {}]

(***************************************************************************)
(* setValue and removeValue: saved first, then taken over and announced.   *)
(* A removal of what is not there changes nothing.                         *)
(***************************************************************************)
HandleWrite(p, outcome) ==
  LET entry == Head(vs.up[p])
      read == [vs EXCEPT !.up[p] = Tail(@)]
      refused == [read EXCEPT !.unsaved = @ \union { p }]
  IN  /\ vs.up[p] # << >>
      /\ vs' = IF entry = NoValue /\ vs.values = NoValue THEN read
               ELSE CASE outcome = "saved" -> Broadcast([read EXCEPT !.values = entry, !.disk = entry,
                                                                     !.uncertain = FALSE], entry, p)
                      [] outcome = "refused" -> refused
                      [] outcome = "unrestricted" -> [refused EXCEPT !.disk = entry, !.uncertain = TRUE]

\* __panBrowserVotApplyStorageUpdate in the document.
ApplyUpdate(p) ==
  /\ vs.down[p] # << >>
  /\ vs' = [vs EXCEPT !.copy[p] = Head(vs.down[p]), !.down[p] = Tail(@)]

(***************************************************************************)
(* A page loads a new document, whose script holds the values of now; or   *)
(* the program starts again and loads the file.                            *)
(***************************************************************************)
NewDocument(p) ==
  /\ vs.replaced < MaxReplaced
  /\ vs' = [vs EXCEPT !.copy[p] = vs.values, !.down[p] = << >>, !.unsaved = @ \ { p }, !.replaced = @ + 1]

Restart ==
  /\ vs.replaced < MaxReplaced
  /\ vs' = [vs EXCEPT !.values = vs.disk, !.copy = [p \in StoragePages |-> vs.disk],
                      !.up = [p \in StoragePages |-> << >>], !.down = [p \in StoragePages |-> << >>],
                      !.unsaved = {}, !.uncertain = FALSE, !.replaced = @ + 1]

VsNext ==
  \/ Restart
  \/ \E p \in StoragePages :
       \/ \E entry \in Entry : ScriptWrites(p, entry)
       \/ \E outcome \in { "saved", "refused", "unrestricted" } : HandleWrite(p, outcome)
       \/ ApplyUpdate(p) \/ NewDocument(p)

(***************************************************************************)
(* Documents that write the same key at the same time end up with the same *)
(* value, the store's, which is also the one on disk: once a document has  *)
(* nothing under way, its copy is right unless its own last write was      *)
(* refused.                                                                *)
(***************************************************************************)
StorageConverges ==
  /\ \A p \in StoragePages :
       vs.up[p] = << >> /\ vs.down[p] = << >> /\ p \notin vs.unsaved => vs.copy[p] = vs.values
  /\ vs.disk # vs.values => vs.uncertain

=============================================================================
