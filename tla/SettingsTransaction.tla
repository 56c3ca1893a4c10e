------------------------ MODULE SettingsTransaction ------------------------
(***************************************************************************)
(* The settings dialog's save (SettingsDialog::saveAndClose): native       *)
(* preferences, then seven JSON files with their backups one after the     *)
(* other, the trust rules last, then the DNS mode of the engine; a failing *)
(* step restores everything from a snapshot (SettingsSaveTransaction).     *)
(* Certificates imported while the dialog is open are files already        *)
(* (TrustCertificateRepository): they are kept or deleted when it closes.  *)
(* File operations fail and the process may die between any two of them.   *)
(*                                                                         *)
(* The contents of a file are the number of the attempt that wrote it, 0   *)
(* for what was there before, or Absent.                                   *)
(***************************************************************************)
EXTENDS Integers, Sequences, FiniteSets

CONSTANTS
  Certificates,  \* certificate files that may be imported
  MaxAttempts,   \* bound: presses of the save button
  MaxFaults      \* bound: failing steps and crashes

ASSUME TransactionAssumption == {MaxAttempts, MaxFaults} \subseteq Nat

\* Mutant of SaveOrder: trust is saved first.
TrustFirst == << "trust", "search", "userAgent", "dns", "proxy", "connections", "video" >>

SaveOrder == << "search", "userAgent", "dns", "proxy", "connections", "video", "trust" >>

Stores == { SaveOrder[i] : i \in DOMAIN SaveOrder }

Primary(store) == <<store, "json">>
Backup(store) == <<store, "backup">>

\* The snapshot, in the order capture takes it and rollback restores it.
Files == [ i \in 1 .. 2 * Len(SaveOrder) |->
             IF i % 2 = 1 THEN Primary(SaveOrder[(i + 1) \div 2]) ELSE Backup(SaveOrder[i \div 2]) ]

FileNames == { Files[i] : i \in DOMAIN Files }

\* What a message may name as not restored or not written: a file, or the native preferences.
Preferences == <<"preferences", "native">>

Absent == -1
Attempts == 0 .. MaxAttempts

VARIABLES
  phase,       \* closed, editing, preferences, saving, apply, rollback or restore
  at, step,    \* the store being saved or file being restored, and the next step
  disk,        \* contents of each file
  preferences, \* the native preferences
  captured,    \* SettingsSaveTransaction::m_snapshots
  live,        \* what the running program uses, preferences included
  attempt,     \* presses of the save button
  installed,   \* certificate files there are
  imported,    \* TrustCertificateRepository::m_pendingFiles
  anchors,     \* certificates the rules of each attempt refer to
  outcome,     \* history: how the last save ended: "failed" with a message, "cut"
               \* by a crash in its rollback, "none" if neither (yet)
  reported,    \* what that message names as not restored, or not written
  left,        \* history: what a failed save may have left other than it is in use
  abandoned,   \* history: trust rules that a failed save left on disk when the
               \* dialog was then cancelled, by the attempt that wrote them
  faults

transactionVars == <<phase, at, step, disk, preferences, captured, live, attempt,
          installed, imported, anchors, outcome, reported, left, abandoned, faults>>

files == <<disk, preferences>>
certificates == <<installed, imported, anchors>>
failure == <<outcome, reported, left, abandoned>>

TransactionInit ==
  /\ phase = "closed" /\ at = 1 /\ step = "backup"
  /\ \E fresh, unbacked \in BOOLEAN :
       disk = [f \in FileNames |->
                 IF f # Primary("trust") /\ (IF f[2] = "json" THEN fresh ELSE unbacked)
                 THEN Absent ELSE 0]
  /\ preferences = 0
  /\ captured = disk
  /\ live = [s \in Stores \union {"preferences"} |-> 0]
  /\ attempt = 0
  /\ installed \in SUBSET Certificates
  /\ imported = {}
  /\ anchors \in [Attempts -> SUBSET Certificates]
  /\ anchors[0] \subseteq installed /\ \A n \in 1 .. MaxAttempts : anchors[n] = {}
  /\ outcome = "none" /\ reported = {} /\ left = {} /\ abandoned = {}
  /\ faults = 0

Fault == faults < MaxFaults /\ faults' = faults + 1

----------------------------------------------------------------------------
OpenDialog ==
  /\ phase = "closed"
  /\ phase' = "editing"
  /\ UNCHANGED <<at, step, files, captured, live, attempt, certificates, failure, faults>>

(***************************************************************************)
(* importFiles copies a certificate that is not there yet.                 *)
(***************************************************************************)
Import(c) ==
  /\ phase = "editing" /\ c \notin installed
  /\ installed' = installed \union {c}
  /\ imported' = imported \union {c}
  /\ UNCHANGED <<phase, at, step, files, captured, live, attempt, anchors, failure, faults>>

(***************************************************************************)
(* saveAndClose, every page valid and every file captured.                 *)
(***************************************************************************)
BeginSave(chosen) ==
  /\ phase = "editing" /\ attempt < MaxAttempts
  /\ chosen \subseteq installed
  /\ attempt' = attempt + 1
  /\ anchors' = [anchors EXCEPT ![attempt + 1] = chosen]
  /\ captured' = disk
  /\ outcome' = "none" /\ reported' = {}
  /\ phase' = "preferences"
  /\ UNCHANGED <<at, step, files, live, installed, imported, left, abandoned, faults>>

SavePreferences ==
  /\ phase = "preferences"
  /\ preferences' = attempt
  /\ phase' = "saving" /\ at' = 1 /\ step' = "backup"
  /\ UNCHANGED <<disk, captured, live, attempt, certificates, failure, faults>>

\* A failure of the first step is not rolled back, even if it wrote: the message says only that
\* the preferences cannot be written.
FailPreferences ==
  /\ Fault
  /\ phase = "preferences"
  /\ phase' = "editing"
  /\ \/ UNCHANGED <<preferences, left>>
     \/ preferences' = attempt /\ left' = left \union {Preferences}
  /\ outcome' = "failed" /\ reported' = {Preferences}
  /\ UNCHANGED <<at, step, disk, captured, live, attempt, certificates, abandoned>>

(***************************************************************************)
(* save of one store.  The site connections back up by one atomic write;   *)
(* video translation keeps no backup; the others remove the backup, then   *)
(* copy the primary.  restrictFile follows each write: its failure is the  *)
(* failure of the next step.                                               *)
(***************************************************************************)
Store == SaveOrder[at]

Saving(now, next) ==
  /\ phase = "saving" /\ step = now
  /\ step' = next
  /\ UNCHANGED <<phase, at, preferences, captured, live, attempt, certificates, failure, faults>>

BackedUp == Store # "video" /\ disk[Primary(Store)] # Absent

DropBackup ==
  /\ Saving("backup", "copy")
  /\ BackedUp /\ Store # "connections"
  /\ disk' = [disk EXCEPT ![Backup(Store)] = Absent]

MakeBackup ==
  /\ \/ Saving("copy", "write")
     \/ Saving("backup", "write") /\ BackedUp /\ Store = "connections"
  /\ disk' = [disk EXCEPT ![Backup(Store)] = disk[Primary(Store)]]

NoBackup ==
  /\ Saving("backup", "write")
  /\ ~ BackedUp
  /\ UNCHANGED disk

WritePrimary ==
  /\ Saving("write", "restrict")
  /\ disk' = [disk EXCEPT ![Primary(Store)] = attempt]

NextStore ==
  /\ phase = "saving" /\ step = "restrict"
  /\ IF at < Len(SaveOrder)
     THEN at' = at + 1 /\ step' = "backup" /\ UNCHANGED phase
     ELSE phase' = "apply" /\ UNCHANGED <<at, step>>
  /\ UNCHANGED <<files, captured, live, attempt, certificates, failure, faults>>

----------------------------------------------------------------------------
(***************************************************************************)
(* A store or the DNS mode fails: rollbackSettings restores every file,    *)
(* then the preferences.                                                   *)
(***************************************************************************)
FailSave ==
  /\ Fault
  /\ phase \in {"saving", "apply"}
  /\ phase' = "rollback" /\ at' = 1
  /\ outcome' = "failed"
  /\ UNCHANGED <<step, files, captured, live, attempt, certificates, reported, left, abandoned>>

\* Mutant of Restored: a file that was not there is left behind.
RestoredIfThere(f) == IF captured[f] = Absent THEN disk[f] ELSE captured[f]

Restored(f) == captured[f]

NextFile ==
  IF at < Len(Files) THEN at' = at + 1 /\ UNCHANGED phase ELSE phase' = "restore" /\ UNCHANGED at

Restore ==
  /\ phase = "rollback"
  /\ disk' = [disk EXCEPT ![Files[at]] = Restored(Files[at])]
  /\ NextFile
  /\ UNCHANGED <<step, preferences, captured, live, attempt, certificates, failure, faults>>

\* restoreFile fails before it has written, or in restrictFile after it.
FailRestore ==
  /\ Fault
  /\ phase = "rollback"
  /\ \/ UNCHANGED disk
     \/ captured[Files[at]] # Absent /\ disk' = [disk EXCEPT ![Files[at]] = Restored(Files[at])]
  /\ reported' = reported \union {Files[at]} /\ left' = left \union {Files[at]}
  /\ NextFile
  /\ UNCHANGED <<step, preferences, captured, live, attempt, certificates, outcome, abandoned>>

RestorePreferences ==
  /\ phase = "restore"
  /\ \/ /\ preferences' = live["preferences"] /\ left' = left \ {Preferences}
        /\ UNCHANGED <<reported, faults>>
     \/ /\ Fault /\ preferences' \in {preferences, live["preferences"]}
        /\ reported' = reported \union {Preferences} /\ left' = left \union {Preferences}
  /\ phase' = "editing"
  /\ UNCHANGED <<at, step, disk, captured, live, attempt, certificates, outcome, abandoned>>

----------------------------------------------------------------------------
\* Mutant of Unused: every imported certificate counts as unused.
AllImported(rules) == imported

\* finalize deletes the imported certificates that the saved rules do not use.
Unused(rules) == imported \ rules

(***************************************************************************)
(* The DNS mode is applied, unused certificates are deleted (or cannot     *)
(* be), and the program takes over the new settings.                       *)
(***************************************************************************)
Accept ==
  /\ phase = "apply"
  /\ \E kept \in SUBSET Unused(anchors[attempt]) :
       installed' = installed \ (Unused(anchors[attempt]) \ kept)
  /\ imported' = {}
  /\ live' = [s \in DOMAIN live |-> IF s = "trust" THEN disk[Primary("trust")] ELSE attempt]
  /\ phase' = "closed"
  /\ left' = {}
  /\ UNCHANGED <<at, step, files, captured, attempt, anchors, outcome, reported, abandoned, faults>>

\* Cancelled: reject deletes what was imported (the destructor tries again), whatever is on disk.
Reject ==
  /\ phase = "editing"
  /\ phase' = "closed"
  /\ \E kept \in SUBSET imported : installed' = installed \ (imported \ kept)
  /\ imported' = {}
  /\ abandoned' = IF disk[Primary("trust")] = live["trust"] THEN abandoned
                  ELSE abandoned \union {disk[Primary("trust")]}
  /\ UNCHANGED <<at, step, files, captured, live, attempt, anchors, outcome, reported, left, faults>>

(***************************************************************************)
(* The process dies and starts again: it reads what is there.              *)
(***************************************************************************)
Version(contents) == IF contents = Absent THEN 0 ELSE contents

Crash ==
  /\ Fault
  /\ phase' = "closed"
  /\ imported' = {}
  /\ live' = [s \in DOMAIN live |->
                IF s = "preferences" THEN preferences ELSE Version(disk[Primary(s)])]
  /\ outcome' = IF phase \in {"rollback", "restore"} THEN "cut" ELSE outcome
  /\ left' = {}
  /\ UNCHANGED <<at, step, files, captured, attempt, installed, anchors, reported, abandoned>>

TransactionNext ==
  \/ OpenDialog \/ Reject \/ Accept \/ Crash
  \/ \E c \in Certificates : Import(c)
  \/ \E chosen \in SUBSET Certificates : BeginSave(chosen)
  \/ SavePreferences \/ FailPreferences
  \/ DropBackup \/ MakeBackup \/ NoBackup \/ WritePrimary \/ NextStore
  \/ FailSave \/ Restore \/ FailRestore \/ RestorePreferences

TransactionSpec == TransactionInit /\ [][TransactionNext]_transactionVars

----------------------------------------------------------------------------
(***************************************************************************)
(* A save that failed, at whichever step, has changed nothing but what its *)
(* message names: every other primary and backup is as it was captured.    *)
(* The preferences are those in use unless the message names them, which   *)
(* it does in two cases: they could not be restored, or they were the      *)
(* first step and failed.  In the latter case saveAndClose returns without *)
(* rollbackSettings, so they may have been written although the message    *)
(* says they cannot be: that case is left out here.  It holds until the    *)
(* next save, over a cancelled dialog and a crash outside the rollback.    *)
(***************************************************************************)
FailedSaveChangesNothing ==
  phase \in {"editing", "closed"} /\ outcome = "failed" =>
    /\ \A f \in FileNames \ reported : disk[f] = captured[f]
    /\ Preferences \in reported \/ preferences = live["preferences"]

(***************************************************************************)
(* docs/ARCHITECTURE.md, 7.1: trust expansion is the last mutation.  New   *)
(* trust rules are on disk only together with every other new setting,     *)
(* preferences included, wherever the process dies.  Left out are the      *)
(* rollback, which restores the trust rules last, from its start to a      *)
(* crash in it, and a failed save whose message names the rules' file.     *)
(***************************************************************************)
TrustIsLast ==
  /\ phase \notin {"rollback", "restore"} /\ outcome # "cut"
  /\ Primary("trust") \notin reported
  /\ disk[Primary("trust")] = attempt
  => preferences = attempt /\ \A s \in Stores : Version(disk[Primary(s)]) = attempt

(***************************************************************************)
(* The certificates that the trust rules refer to are there, those of the  *)
(* rules on disk and those of the rules in use (other ones after a rollback *)
(* that failed): finalize, reject and a crash delete none of them, and     *)
(* neither does a failed save, completely rolled back or not, while the    *)
(* dialog is open.  Left out is the case in which the code does delete     *)
(* them: a failed save wrote new rules, its rollback could not take them   *)
(* back, and the dialog was then cancelled.  reject deletes every pending  *)
(* import (TrustCertificateRepository::rollback), whatever the rules on    *)
(* disk name, and the next start reads those rules without certificates.   *)
(* abandoned holds the rules left in this way, and no others.              *)
(***************************************************************************)
AnchorsExist ==
  \A rules \in {disk[Primary("trust")], live["trust"]} \ abandoned : anchors[rules] \subseteq installed

(***************************************************************************)
(* With the dialog closed the program runs with the settings on disk.      *)
(* Left out is what a failed save may have left there, since the program   *)
(* started and no later save was accepted: a file its rollback could not   *)
(* restore and named in the message, and preferences that failed after     *)
(* they were written or could not be restored.                             *)
(***************************************************************************)
LiveIsSaved ==
  phase = "closed" =>
    /\ Preferences \in left \/ live["preferences"] = preferences
    /\ \A s \in Stores : Primary(s) \in left \/ live[s] = Version(disk[Primary(s)])

=============================================================================
