---------------------------- MODULE SettingsProofs ----------------------------
(***************************************************************************)
(* The settings.  However often they are saved, whichever step fails and   *)
(* wherever the process dies: a failed save changes nothing but what its   *)
(* message names, new trust comes last, and certificates of the trust      *)
(* rules are deleted only when a save that could not be rolled back is     *)
(* cancelled.                                                              *)
(* However often the Site Connections are saved and whichever file is      *)
(* damaged, the answers acknowledged are found again, or all but the last. *)
(* The site of a host is the one the Public Suffix List prescribes and its *)
(* own site; the compiled Site Connections policy answers every request as *)
(* the stored settings do, and "always" settles the key it was asked for.  *)
(* The trust rules of the page, the file and the policy are the ones the   *)
(* user entered; a tab is called secure for the reason it names.           *)
(***************************************************************************)
EXTENDS MCSettings, SubsequenceProofs

Trust == Primary("trust")

FileContents == Absent .. attempt

TransactionTypeOK ==
  /\ phase \in {"closed", "editing", "preferences", "saving", "apply", "rollback", "restore"}
  /\ at \in 1 .. 14 /\ (phase = "saving" => at \in 1 .. 7)
  /\ step \in {"backup", "copy", "write", "restrict"}
  /\ attempt \in Attempts
  /\ disk \in [FileNames -> FileContents] /\ captured \in [FileNames -> FileContents]
  /\ disk[Trust] # Absent /\ captured[Trust] # Absent
  /\ preferences \in 0 .. attempt
  /\ live \in [Stores \union {"preferences"} -> 0 .. attempt]
  /\ installed \subseteq Certificates /\ imported \subseteq Certificates
  /\ anchors \in [Attempts -> SUBSET Certificates]
  /\ outcome \in {"none", "failed", "cut"}
  /\ reported \subseteq FileNames \union {Preferences} /\ left \subseteq FileNames \union {Preferences}

\* The files as they were when the save under way began, or are when there is none
Settled == IF phase \in {"closed", "editing", "preferences"} THEN disk ELSE captured

\* The program runs with the settled files, but for what failed saves have left.
LiveIsSettled ==
  /\ \A s \in Stores : Primary(s) \in left \/ live[s] = Version(Settled[Primary(s)])
  /\ phase \in {"closed", "editing", "preferences"} =>
       Preferences \in left \/ live["preferences"] = preferences

\* The certificates of the settled rules are there, and those of the rules in use were there
\* before the dialog was opened.
AnchorsAreSettled ==
  /\ Settled[Trust] \notin abandoned => anchors[Settled[Trust]] \subseteq installed
  /\ live["trust"] \notin abandoned => anchors[live["trust"]] \subseteq installed \ imported

ClosedImportsNothing == phase = "closed" => imported = {}

\* The rules being saved are new, and their certificates are there.
SaveIsNew ==
  /\ phase \notin {"closed", "editing"} =>
       captured[Trust] < attempt /\ anchors[attempt] \subseteq installed
  /\ phase \in {"preferences", "saving", "apply"} => outcome = "none" /\ reported = {}
  /\ phase = "preferences" => disk = captured

\* The stores before the one being saved are new, and the trust rules are old until they are written.
SavedSoFar ==
  /\ phase \in {"saving", "apply"} => preferences = attempt
  /\ phase = "saving" =>
       /\ \A i \in 1 .. 7 : i < at => disk[Primary(SaveOrder[i])] = attempt
       /\ step = "restrict" => disk[Primary(Store)] = attempt
       /\ at < 7 \/ step # "restrict" => disk[Trust] = captured[Trust]
  /\ phase = "apply" => \A s \in Stores : disk[Primary(s)] = attempt
  /\ phase \in {"rollback", "restore"} => disk[Trust] \in {captured[Trust], attempt}

\* A rollback has restored the files before the one at hand, but for those it reports.
RestoredSoFar ==
  /\ phase \in {"rollback", "restore"} => outcome = "failed" /\ reported \subseteq left
  /\ phase = "rollback" =>
       \A j \in 1 .. 14 : j < at => Files[j] \in reported \/ disk[Files[j]] = captured[Files[j]]
  /\ phase = "restore" => \A f \in FileNames \ reported : disk[f] = captured[f]

TransactionInv ==
  /\ TransactionTypeOK
  /\ LiveIsSettled /\ AnchorsAreSettled /\ ClosedImportsNothing
  /\ SaveIsNew /\ SavedSoFar /\ RestoredSoFar
  /\ FailedSaveChangesNothing /\ TrustIsLast

(***************************************************************************)
(* The stores and their files.                                             *)
(***************************************************************************)
LEMMA OrderOfStores ==
  /\ Len(SaveOrder) = 7 /\ DOMAIN SaveOrder = 1 .. 7
  /\ Stores = {"search", "userAgent", "dns", "proxy", "connections", "video", "trust"}
  /\ SaveOrder[7] = "trust" /\ \A i \in 1 .. 6 : SaveOrder[i] # "trust"
  /\ \A i \in 1 .. 7 : SaveOrder[i] \in Stores
  /\ \A s \in Stores : \E i \in 1 .. 7 : SaveOrder[i] = s
<1>1. Len(SaveOrder) = 7 /\ DOMAIN SaveOrder = 1 .. 7
  BY DEF SaveOrder
<1>2. \A i \in 1 .. 7 : i \in {1, 2, 3, 4, 5, 6, 7}
  OBVIOUS
<1>3. /\ SaveOrder[1] = "search" /\ SaveOrder[2] = "userAgent" /\ SaveOrder[3] = "dns" /\ SaveOrder[4] = "proxy"
      /\ SaveOrder[5] = "connections" /\ SaveOrder[6] = "video" /\ SaveOrder[7] = "trust"
  BY DEF SaveOrder
<1>4. Stores = {"search", "userAgent", "dns", "proxy", "connections", "video", "trust"}
  BY <1>1, <1>2, <1>3 DEF Stores
<1> QED
  BY <1>1, <1>2, <1>3, <1>4

LEMMA NamesOfFiles ==
  /\ Len(Files) = 14 /\ Files \in [1 .. 14 -> FileNames]
  /\ \A f \in FileNames : \E j \in 1 .. 14 : Files[j] = f
  /\ \A s \in Stores : Primary(s) \in FileNames /\ Backup(s) \in FileNames
  /\ \A s, t : Primary(s) # Backup(t)
  /\ \A s, t : Primary(s) = Primary(t) => s = t
  /\ Trust \in FileNames
<1>1. Files = [i \in 1 .. 14 |->
                 IF i % 2 = 1 THEN Primary(SaveOrder[(i + 1) \div 2]) ELSE Backup(SaveOrder[i \div 2])]
  BY OrderOfStores DEF Files
<1>2. Files \in [1 .. 14 -> FileNames] /\ \A f \in FileNames : \E j \in 1 .. 14 : Files[j] = f
  BY <1>1 DEF FileNames
<1>3. Len(Files) = 14
  BY <1>2, LenProperties
<1>4. ASSUME NEW i \in 1 .. 7
      PROVE  Primary(SaveOrder[i]) \in FileNames /\ Backup(SaveOrder[i]) \in FileNames
  <2>1. Files[2 * i - 1] = Primary(SaveOrder[i])
    BY <1>1
  <2>2. Files[2 * i] = Backup(SaveOrder[i])
    BY <1>1
  <2> QED
    BY <1>2, <2>1, <2>2
<1>5. \A s, t : Primary(s) # Backup(t) /\ (Primary(s) = Primary(t) => s = t)
  BY DEF Primary, Backup
<1> QED
  BY <1>2, <1>3, <1>4, <1>5, OrderOfStores DEF Trust

LEMMA NamesOfPreferences == Preferences \notin FileNames /\ \A s : Primary(s) # Preferences
<1>1. \A s : Primary(s) # Preferences /\ Backup(s) # Preferences
  BY DEF Primary, Backup, Preferences
<1>2. FileNames = { Files[i] : i \in 1 .. 14 }
  BY OrderOfStores DEF FileNames, Files
<1>3. \A i \in 1 .. 14 : \E s : Files[i] = Primary(s) \/ Files[i] = Backup(s)
  BY OrderOfStores DEF Files
<1> QED
  BY <1>1, <1>2, <1>3

(***************************************************************************)
(* The start, and what holds of the trust rules at any moment.             *)
(***************************************************************************)
LEMMA TransactionInitHolds == TransactionInit => TransactionInv
<1> SUFFICES ASSUME TransactionInit
             PROVE  TransactionInv
  OBVIOUS
<1>1. /\ attempt = 0 /\ captured = disk /\ preferences = 0 /\ phase = "closed" /\ imported = {}
      /\ live = [s \in Stores \union {"preferences"} |-> 0]
      /\ disk \in [FileNames -> {Absent, 0}] /\ disk[Trust] = 0
  BY NamesOfFiles DEF TransactionInit, Trust
<1>2. TransactionTypeOK
  BY <1>1, NamesOfFiles, TransactionAssumption
  DEF TransactionInit, TransactionTypeOK, FileContents, Absent, Attempts
<1>3. \A s \in Stores : Version(disk[Primary(s)]) = 0
  BY <1>1, NamesOfFiles DEF Version, Absent
<1>4. LiveIsSettled /\ TrustIsLast
  BY <1>1, <1>3 DEF LiveIsSettled, Settled, TrustIsLast
<1>5. AnchorsAreSettled
  <2>1. live["trust"] = 0 /\ anchors[0] \subseteq installed \ imported
    BY <1>1, OrderOfStores DEF TransactionInit
  <2> QED
    BY <1>1, <2>1 DEF AnchorsAreSettled, Settled
<1> QED
  BY <1>1, <1>2, <1>4, <1>5
  DEF TransactionInit, TransactionInv, ClosedImportsNothing, SaveIsNew, SavedSoFar, RestoredSoFar,
      FailedSaveChangesNothing

\* The rules on disk are the settled ones or those being saved: their certificates are there.
LEMMA AnchorsFollow == TransactionInv => AnchorsExist
<1> SUFFICES ASSUME TransactionInv, disk[Trust] \notin abandoned
             PROVE  anchors[disk[Trust]] \subseteq installed
  BY DEF TransactionInv, AnchorsAreSettled, AnchorsExist, Trust
<1>1. CASE phase \in {"closed", "editing", "preferences"}
  BY <1>1 DEF TransactionInv, AnchorsAreSettled, Settled
<1>2. CASE phase \in {"saving", "apply", "rollback", "restore"}
  <2>1. disk[Trust] = captured[Trust] \/ disk[Trust] = attempt
    BY <1>2, OrderOfStores DEF TransactionInv, TransactionTypeOK, SavedSoFar, Store, Trust
  <2> QED
    BY <1>2, <2>1 DEF TransactionInv, AnchorsAreSettled, SaveIsNew, Settled
<1> QED
  BY <1>1, <1>2 DEF TransactionInv, TransactionTypeOK

\* While the stores are saved the new trust rules come after all others.
LEMMA SavingKeepsTrustLast ==
  TransactionTypeOK /\ SaveIsNew /\ SavedSoFar /\ phase \in {"saving", "apply"} => TrustIsLast
<1> SUFFICES ASSUME TransactionTypeOK, SaveIsNew, SavedSoFar, phase \in {"saving", "apply"}
             PROVE  TrustIsLast
  OBVIOUS
<1>1. captured[Trust] < attempt /\ attempt \in Nat
  BY TransactionAssumption DEF SaveIsNew, TransactionTypeOK, Attempts
<1>2. CASE phase = "saving"
  <2> SUFFICES ASSUME disk[Trust] = attempt, NEW s \in Stores
               PROVE  Version(disk[Primary(s)]) = attempt
    BY <1>2 DEF TrustIsLast, Trust, SavedSoFar
  <2>1. at = 7 /\ step = "restrict"
    BY <1>1, <1>2, NamesOfFiles DEF SavedSoFar, TransactionTypeOK, FileContents, Absent
  <2>2. disk[Primary(s)] = attempt
    BY <1>2, <2>1, OrderOfStores DEF SavedSoFar, Trust
  <2> QED
    BY <1>1, <2>2 DEF Version, Absent
<1>3. CASE phase = "apply"
  BY <1>1, <1>3 DEF SavedSoFar, TrustIsLast, Version, Absent
<1> QED
  BY <1>2, <1>3

(***************************************************************************)
(* The dialog is opened, certificates are imported, a save begins.         *)
(***************************************************************************)
LEMMA OpenDialogKeeps == TransactionInv /\ OpenDialog => TransactionInv'
BY NamesOfFiles
DEF OpenDialog, files, certificates, TransactionInv, TransactionTypeOK, FileContents, Settled, LiveIsSettled,
    AnchorsAreSettled, ClosedImportsNothing, SaveIsNew, SavedSoFar, RestoredSoFar, FailedSaveChangesNothing,
    TrustIsLast, failure

LEMMA ImportKeeps == ASSUME NEW c \in Certificates PROVE TransactionInv /\ Import(c) => TransactionInv'
BY NamesOfFiles
DEF Import, files, certificates, TransactionInv, TransactionTypeOK, FileContents, Settled, LiveIsSettled,
    AnchorsAreSettled, ClosedImportsNothing, SaveIsNew, SavedSoFar, RestoredSoFar, FailedSaveChangesNothing,
    TrustIsLast, failure

LEMMA BeginSaveKeeps ==
  ASSUME NEW chosen \in SUBSET Certificates
  PROVE  TransactionInv /\ BeginSave(chosen) => TransactionInv'
<1> SUFFICES ASSUME TransactionInv, BeginSave(chosen)
             PROVE  TransactionInv'
  OBVIOUS
<1> USE DEF BeginSave, files
<1>1. attempt \in Nat /\ attempt' = attempt + 1 /\ attempt' \in Attempts
  BY TransactionAssumption DEF TransactionInv, TransactionTypeOK, Attempts
<1>2. /\ \A f \in FileNames : disk[f] \in Absent .. attempt
      /\ disk[Trust] \in 0 .. attempt
  BY NamesOfFiles DEF TransactionInv, TransactionTypeOK, FileContents, Absent
<1>3. TransactionTypeOK'
  <2>1. disk' \in [FileNames -> FileContents'] /\ captured' \in [FileNames -> FileContents']
    BY <1>1 DEF TransactionInv, TransactionTypeOK, FileContents, Absent
  <2>2. preferences' \in 0 .. attempt' /\ live' \in [Stores \union {"preferences"} -> 0 .. attempt']
    BY <1>1 DEF TransactionInv, TransactionTypeOK
  <2>3. installed' \subseteq Certificates /\ imported' \subseteq Certificates
        /\ anchors' \in [Attempts -> SUBSET Certificates]
    BY <1>1 DEF TransactionInv, TransactionTypeOK
  <2> QED
    BY <1>1, <2>1, <2>2, <2>3 DEF TransactionInv, TransactionTypeOK
<1>4. anchors'[attempt'] = chosen /\ anchors'[disk[Trust]] = anchors[disk[Trust]]
  BY <1>1, <1>2 DEF TransactionInv, TransactionTypeOK, Attempts
<1>5. LiveIsSettled'
  BY DEF TransactionInv, LiveIsSettled, Settled
<1>6. AnchorsAreSettled'
  <2>1. live["trust"] \in 0 .. attempt
    BY OrderOfStores DEF TransactionInv, TransactionTypeOK
  <2>2. anchors'[live["trust"]] = anchors[live["trust"]]
    BY <1>1, <2>1 DEF TransactionInv, TransactionTypeOK, Attempts
  <2> QED
    BY <1>4, <2>2 DEF TransactionInv, AnchorsAreSettled, Settled
<1>7. SaveIsNew'
  BY <1>1, <1>2, <1>4 DEF SaveIsNew
<1>8. TrustIsLast'
  BY <1>1, <1>2 DEF TrustIsLast, Trust
<1> QED
  BY <1>3, <1>5, <1>6, <1>7, <1>8
  DEF TransactionInv, ClosedImportsNothing, SavedSoFar, RestoredSoFar, FailedSaveChangesNothing

(***************************************************************************)
(* The save: preferences, then store after store.                          *)
(***************************************************************************)
LEMMA SavePreferencesKeeps == TransactionInv /\ SavePreferences => TransactionInv'
<1> SUFFICES ASSUME TransactionInv, SavePreferences
             PROVE  TransactionInv'
  OBVIOUS
<1> USE DEF SavePreferences, certificates, failure
<1>1. attempt \in Nat /\ disk = captured
  BY TransactionAssumption DEF TransactionInv, TransactionTypeOK, Attempts, SaveIsNew
<1>2. TransactionTypeOK'
  BY <1>1 DEF TransactionInv, TransactionTypeOK, FileContents
<1>3. LiveIsSettled' /\ AnchorsAreSettled'
  BY <1>1 DEF TransactionInv, LiveIsSettled, AnchorsAreSettled, Settled
<1>4. SaveIsNew' /\ SavedSoFar'
  BY <1>1 DEF TransactionInv, SaveIsNew, SavedSoFar
<1>5. (phase \in {"saving", "apply"})'
  OBVIOUS
<1>6. TrustIsLast'
  BY <1>2, <1>4, <1>5, SavingKeepsTrustLast, PTL
<1> QED
  BY <1>2, <1>3, <1>4, <1>6 DEF TransactionInv, ClosedImportsNothing, RestoredSoFar, FailedSaveChangesNothing

LEMMA FailPreferencesKeeps == TransactionInv /\ FailPreferences => TransactionInv'
<1> SUFFICES ASSUME TransactionInv, FailPreferences
             PROVE  TransactionInv'
  OBVIOUS
<1> USE DEF FailPreferences, certificates
<1>1. attempt \in Nat
  BY TransactionAssumption DEF TransactionInv, TransactionTypeOK, Attempts
<1>2. TransactionTypeOK'
  BY <1>1 DEF TransactionInv, TransactionTypeOK, FileContents
<1>3. LiveIsSettled'
  BY NamesOfPreferences DEF TransactionInv, LiveIsSettled, Settled
<1>4. AnchorsAreSettled' /\ TrustIsLast'
  BY <1>1 DEF TransactionInv, AnchorsAreSettled, Settled, SaveIsNew, TrustIsLast, Trust
<1> QED
  BY <1>2, <1>3, <1>4
  DEF TransactionInv, ClosedImportsNothing, SaveIsNew, SavedSoFar, RestoredSoFar, FailedSaveChangesNothing

\* A step of the save that keeps to the order keeps the rest.
LEMMA SaveStepKeeps ==
  ASSUME TransactionInv, phase = "saving", phase' \in {"saving", "apply"},
         TransactionTypeOK', SavedSoFar',
         UNCHANGED <<preferences, captured, live, attempt, certificates, failure>>
  PROVE  TransactionInv'
<1> USE DEF certificates, failure
<1>1. LiveIsSettled' /\ AnchorsAreSettled' /\ SaveIsNew'
  BY DEF TransactionInv, LiveIsSettled, AnchorsAreSettled, Settled, SaveIsNew
<1>2. (phase \in {"saving", "apply"})'
  OBVIOUS
<1>3. TrustIsLast'
  BY <1>1, <1>2, SavingKeepsTrustLast, PTL
<1> QED
  BY <1>1, <1>3 DEF TransactionInv, ClosedImportsNothing, RestoredSoFar, FailedSaveChangesNothing

\* Making or dropping a backup touches no primary.
LEMMA BackupStepKeeps ==
  ASSUME TransactionInv, NEW now \in {"backup", "copy"}, NEW next \in {"copy", "write"}, Saving(now, next),
         NEW contents \in FileContents,
         disk' = [disk EXCEPT ![Backup(Store)] = contents] \/ UNCHANGED disk
  PROVE  TransactionInv'
<1> USE DEF Saving, certificates, failure
<1>1. attempt \in Nat /\ disk \in [FileNames -> FileContents]
  BY TransactionAssumption DEF TransactionInv, TransactionTypeOK, Attempts
<1>2. /\ disk' \in [FileNames -> FileContents]
      /\ \A s : Primary(s) \in FileNames => disk'[Primary(s)] = disk[Primary(s)]
  BY <1>1, NamesOfFiles
<1>3. disk'[Trust] = disk[Trust]
  BY <1>2, NamesOfFiles DEF Trust
<1>4. TransactionTypeOK'
  BY <1>2, <1>3 DEF TransactionInv, TransactionTypeOK, FileContents
<1>5. SavedSoFar'
  BY <1>2, <1>3, OrderOfStores, NamesOfFiles DEF TransactionInv, SavedSoFar
<1> QED
  BY <1>4, <1>5, SaveStepKeeps DEF certificates, failure

LEMMA DropBackupKeeps == TransactionInv /\ DropBackup => TransactionInv'
<1> SUFFICES ASSUME TransactionInv, DropBackup
             PROVE  TransactionInv'
  OBVIOUS
<1>1. Absent \in FileContents
  BY TransactionAssumption DEF TransactionInv, TransactionTypeOK, FileContents, Absent, Attempts
<1> QED
  BY <1>1, BackupStepKeeps DEF DropBackup

LEMMA MakeBackupKeeps == TransactionInv /\ MakeBackup => TransactionInv'
<1> SUFFICES ASSUME TransactionInv, MakeBackup
             PROVE  TransactionInv'
  OBVIOUS
<1>1. disk[Primary(Store)] \in FileContents
  BY OrderOfStores, NamesOfFiles DEF MakeBackup, Saving, TransactionInv, TransactionTypeOK, Store
<1> QED
  BY <1>1, BackupStepKeeps DEF MakeBackup

LEMMA NoBackupKeeps == TransactionInv /\ NoBackup => TransactionInv'
<1> SUFFICES ASSUME TransactionInv, NoBackup
             PROVE  TransactionInv'
  OBVIOUS
<1>1. Absent \in FileContents
  BY TransactionAssumption DEF TransactionInv, TransactionTypeOK, FileContents, Absent, Attempts
<1> QED
  BY <1>1, BackupStepKeeps DEF NoBackup

LEMMA WritePrimaryKeeps == TransactionInv /\ WritePrimary => TransactionInv'
<1> SUFFICES ASSUME TransactionInv, WritePrimary
             PROVE  TransactionInv'
  OBVIOUS
<1> USE DEF WritePrimary, Saving, certificates, failure
<1>1. attempt \in Nat /\ disk \in [FileNames -> FileContents] /\ at \in 1 .. 7
  BY TransactionAssumption DEF TransactionInv, TransactionTypeOK, Attempts
<1>2. Store \in Stores /\ (at < 7 => Store # "trust") /\ Store' = Store
  BY <1>1, OrderOfStores DEF Store
<1>3. /\ disk' \in [FileNames -> FileContents]
      /\ disk'[Primary(Store)] = attempt
      /\ \A s : Primary(s) \in FileNames => disk'[Primary(s)] \in {disk[Primary(s)], attempt}
  BY <1>1, <1>2, NamesOfFiles DEF FileContents, Absent
<1>4. at < 7 => disk'[Trust] = disk[Trust]
  BY <1>1, <1>2, NamesOfFiles DEF Trust
<1>5. disk'[Trust] # Absent
  BY <1>1, <1>3, NamesOfFiles DEF TransactionInv, TransactionTypeOK, Trust, Absent
<1>6. TransactionTypeOK'
  BY <1>3, <1>5 DEF TransactionInv, TransactionTypeOK, FileContents
<1>7. SavedSoFar'
  <2>1. \A i \in 1 .. 7 : i < at => disk'[Primary(SaveOrder[i])] = attempt
    BY <1>3, OrderOfStores, NamesOfFiles DEF TransactionInv, SavedSoFar
  <2> QED
    BY <1>1, <1>2, <1>3, <1>4, <2>1 DEF TransactionInv, SavedSoFar
<1> QED
  BY <1>6, <1>7, SaveStepKeeps DEF certificates, failure

LEMMA NextStoreKeeps == TransactionInv /\ NextStore => TransactionInv'
<1> SUFFICES ASSUME TransactionInv, NextStore
             PROVE  TransactionInv'
  OBVIOUS
<1> USE DEF NextStore, files, certificates, failure
<1>1. attempt \in Nat /\ at \in 1 .. 7 /\ Len(SaveOrder) = 7
  BY TransactionAssumption, OrderOfStores DEF TransactionInv, TransactionTypeOK, Attempts
<1>2. TransactionTypeOK'
  BY <1>1 DEF TransactionInv, TransactionTypeOK, FileContents
<1>3. \A i \in 1 .. 7 : i <= at => disk[Primary(SaveOrder[i])] = attempt
  BY <1>1 DEF TransactionInv, SavedSoFar, Store
<1>4. SavedSoFar'
  <2>1. CASE at < 7
    BY <1>1, <1>3, <2>1 DEF TransactionInv, SavedSoFar
  <2>2. CASE at = 7
    BY <1>1, <1>3, <2>2, OrderOfStores DEF TransactionInv, SavedSoFar
  <2> QED
    BY <1>1, <2>1, <2>2
<1> QED
  BY <1>1, <1>2, <1>4, SaveStepKeeps DEF files, certificates, failure

(***************************************************************************)
(* The rollback.                                                           *)
(***************************************************************************)
LEMMA FailSaveKeeps == TransactionInv /\ FailSave => TransactionInv'
<1> SUFFICES ASSUME TransactionInv, FailSave
             PROVE  TransactionInv'
  OBVIOUS
<1> USE DEF FailSave, files, certificates
<1>1. TransactionTypeOK'
  BY DEF TransactionInv, TransactionTypeOK, FileContents
<1>2. LiveIsSettled' /\ AnchorsAreSettled' /\ SaveIsNew'
  BY DEF TransactionInv, LiveIsSettled, AnchorsAreSettled, Settled, SaveIsNew
<1>3. disk[Trust] \in {captured[Trust], attempt}
  BY OrderOfStores DEF TransactionInv, TransactionTypeOK, SavedSoFar, Store, Trust
<1>4. SavedSoFar' /\ RestoredSoFar'
  BY <1>3 DEF TransactionInv, SaveIsNew, SavedSoFar, RestoredSoFar
<1> QED
  BY <1>1, <1>2, <1>4 DEF TransactionInv, ClosedImportsNothing, FailedSaveChangesNothing, TrustIsLast

\* A file that the rollback does not restore is reported, and counts as left.
LEMMA RollbackStepKeeps ==
  ASSUME TransactionInv, phase = "rollback", NextFile,
         UNCHANGED <<step, preferences, captured, live, attempt, certificates, outcome, abandoned>>,
         \/ disk' = [disk EXCEPT ![Files[at]] = captured[Files[at]]] /\ UNCHANGED <<reported, left>>
         \/ /\ disk' = [disk EXCEPT ![Files[at]] = captured[Files[at]]] \/ UNCHANGED disk
            /\ reported' = reported \union {Files[at]} /\ left' = left \union {Files[at]}
  PROVE  TransactionInv'
<1> USE DEF certificates, NextFile
<1>1. /\ at \in 1 .. 14 /\ Files[at] \in FileNames
      /\ disk \in [FileNames -> FileContents] /\ captured \in [FileNames -> FileContents]
      /\ disk[Trust] # Absent /\ captured[Trust] # Absent
      /\ phase' \in {"rollback", "restore"}
  BY NamesOfFiles DEF TransactionInv, TransactionTypeOK
<1>2. at' \in 1 .. 14
  BY <1>1, NamesOfFiles
<1>3. disk' \in [FileNames -> FileContents] /\ disk'[Trust] \in {disk[Trust], captured[Trust]}
  BY <1>1, NamesOfFiles
<1>4. TransactionTypeOK'
  BY <1>1, <1>2, <1>3 DEF TransactionInv, TransactionTypeOK, FileContents
<1>5. LiveIsSettled' /\ AnchorsAreSettled' /\ SaveIsNew'
  BY <1>1 DEF TransactionInv, LiveIsSettled, AnchorsAreSettled, Settled, SaveIsNew
<1>6. SavedSoFar'
  BY <1>1, <1>3 DEF TransactionInv, SavedSoFar
<1>7. RestoredSoFar'
  <2>1. \A j \in 1 .. 14 : j <= at => Files[j] \in reported' \/ disk'[Files[j]] = captured[Files[j]]
    BY <1>1, NamesOfFiles DEF TransactionInv, RestoredSoFar
  <2>2. outcome' = "failed" /\ reported' \subseteq left'
    BY DEF TransactionInv, RestoredSoFar
  <2>3. CASE at < 14
    BY <1>1, <2>1, <2>2, <2>3, NamesOfFiles DEF RestoredSoFar
  <2>4. CASE at = 14
    <3>1. \A f \in FileNames \ reported' : disk'[f] = captured[f]
      BY <2>1, <2>4, NamesOfFiles
    <3> QED
      BY <1>1, <2>2, <2>4, <3>1, NamesOfFiles DEF RestoredSoFar
  <2> QED
    BY <1>1, <2>3, <2>4
<1> QED
  BY <1>1, <1>4, <1>5, <1>6, <1>7
  DEF TransactionInv, ClosedImportsNothing, FailedSaveChangesNothing, TrustIsLast

LEMMA RestoreKeeps == TransactionInv /\ Restore => TransactionInv'
BY RollbackStepKeeps DEF Restore, Restored, failure

LEMMA FailRestoreKeeps == TransactionInv /\ FailRestore => TransactionInv'
BY RollbackStepKeeps DEF FailRestore, Restored

LEMMA RestorePreferencesKeeps == TransactionInv /\ RestorePreferences => TransactionInv'
<1> SUFFICES ASSUME TransactionInv, RestorePreferences
             PROVE  TransactionInv'
  OBVIOUS
<1> USE DEF RestorePreferences, certificates
<1>1. TransactionTypeOK'
  BY DEF TransactionInv, TransactionTypeOK, FileContents
<1>2. /\ \A f \in FileNames \ reported' : disk[f] = captured[f]
      /\ Preferences \in reported' \/ preferences' = live["preferences"]
      /\ \A s \in Stores : Primary(s) \in left' \/ disk[Primary(s)] = captured[Primary(s)]
  <2>1. reported \subseteq reported' /\ reported \subseteq left
    BY DEF TransactionInv, RestoredSoFar
  <2>2. \A f \in FileNames \ reported : disk[f] = captured[f]
    BY DEF TransactionInv, RestoredSoFar
  <2>3. \A s \in Stores : Primary(s) \in left => Primary(s) \in left'
    BY NamesOfPreferences
  <2> QED
    BY <2>1, <2>2, <2>3, NamesOfFiles
<1>3. LiveIsSettled'
  <2>1. \A s \in Stores : Primary(s) \in left => Primary(s) \in left'
    BY NamesOfPreferences
  <2>2. Preferences \in left' \/ live["preferences"] = preferences'
    OBVIOUS
  <2> QED
    BY <1>2, <2>1, <2>2 DEF TransactionInv, LiveIsSettled, Settled
<1>4. AnchorsAreSettled'
  BY AnchorsFollow DEF TransactionInv, AnchorsAreSettled, AnchorsExist, Settled, Trust
<1>5. TrustIsLast'
  <2>1. captured[Trust] < attempt /\ attempt \in Nat
    BY TransactionAssumption DEF TransactionInv, TransactionTypeOK, SaveIsNew, Attempts
  <2> QED
    BY <1>2, <2>1, NamesOfFiles DEF TrustIsLast, Trust
<1>6. FailedSaveChangesNothing'
  BY <1>2 DEF FailedSaveChangesNothing
<1> QED
  BY <1>1, <1>3, <1>4, <1>5, <1>6 DEF TransactionInv, ClosedImportsNothing, SaveIsNew, SavedSoFar, RestoredSoFar

(***************************************************************************)
(* The save is accepted, the dialog cancelled, the process dies.           *)
(***************************************************************************)
LEMMA AcceptKeeps == TransactionInv /\ Accept => TransactionInv'
<1> SUFFICES ASSUME TransactionInv, Accept
             PROVE  TransactionInv'
  OBVIOUS
<1> USE DEF Accept, files, Unused
<1>1. attempt \in Nat /\ preferences = attempt /\ \A s \in Stores : disk[Primary(s)] = attempt
  BY TransactionAssumption DEF TransactionInv, TransactionTypeOK, SavedSoFar, Attempts
<1>2. disk[Trust] = attempt
  BY <1>1, OrderOfStores DEF Trust
<1>3. live' = [s \in Stores \union {"preferences"} |-> attempt]
  BY <1>2 DEF TransactionInv, TransactionTypeOK, Trust
<1>4. TransactionTypeOK'
  BY <1>1, <1>3 DEF TransactionInv, TransactionTypeOK, FileContents
<1>5. LiveIsSettled'
  BY <1>1, <1>3 DEF LiveIsSettled, Settled, Version, Absent
<1>6. anchors[attempt] \subseteq installed /\ anchors[attempt] \subseteq installed'
  BY DEF TransactionInv, SaveIsNew
<1>7. AnchorsAreSettled'
  BY <1>2, <1>3, <1>6, OrderOfStores DEF AnchorsAreSettled, Settled
<1>8. TrustIsLast'
  BY <1>1 DEF TrustIsLast, Version, Absent
<1>9. outcome' = "none"
  BY DEF TransactionInv, SaveIsNew
<1> QED
  BY <1>4, <1>5, <1>7, <1>8, <1>9
  DEF TransactionInv, ClosedImportsNothing, SaveIsNew, SavedSoFar, RestoredSoFar, FailedSaveChangesNothing

LEMMA RejectKeeps == TransactionInv /\ Reject => TransactionInv'
<1> SUFFICES ASSUME TransactionInv, Reject
             PROVE  TransactionInv'
  OBVIOUS
<1> USE DEF Reject, files
<1>1. TransactionTypeOK'
  BY DEF TransactionInv, TransactionTypeOK, FileContents
<1>2. LiveIsSettled' /\ TrustIsLast'
  BY DEF TransactionInv, LiveIsSettled, Settled, TrustIsLast
<1>3. AnchorsAreSettled'
  <2>1. disk[Trust] \notin abandoned' => disk[Trust] = live["trust"]
    BY DEF Trust
  <2>2. live["trust"] \notin abandoned' => anchors[live["trust"]] \subseteq installed \ imported
    BY DEF TransactionInv, AnchorsAreSettled
  <2> QED
    BY <2>1, <2>2 DEF AnchorsAreSettled, Settled
<1> QED
  BY <1>1, <1>2, <1>3
  DEF TransactionInv, ClosedImportsNothing, SaveIsNew, SavedSoFar, RestoredSoFar, FailedSaveChangesNothing

LEMMA CrashKeeps == TransactionInv /\ Crash => TransactionInv'
<1> SUFFICES ASSUME TransactionInv, Crash
             PROVE  TransactionInv'
  OBVIOUS
<1> USE DEF Crash, files
<1>1. /\ attempt \in Nat /\ disk \in [FileNames -> FileContents]
      /\ DOMAIN live = Stores \union {"preferences"} /\ "preferences" \notin Stores
  BY TransactionAssumption, OrderOfStores DEF TransactionInv, TransactionTypeOK, Attempts
<1>2. \A s \in Stores : Version(disk[Primary(s)]) \in 0 .. attempt
  BY <1>1, NamesOfFiles DEF Version, FileContents, Absent
<1>3. /\ live' \in [Stores \union {"preferences"} -> 0 .. attempt]
      /\ live'["preferences"] = preferences
      /\ \A s \in Stores : live'[s] = Version(disk[Primary(s)])
  BY <1>1, <1>2 DEF TransactionInv, TransactionTypeOK
<1>4. TransactionTypeOK'
  BY <1>3 DEF TransactionInv, TransactionTypeOK, FileContents
<1>5. LiveIsSettled'
  BY <1>3 DEF LiveIsSettled, Settled, Version
<1>6. AnchorsAreSettled'
  <2>1. live'["trust"] = disk[Trust]
    BY <1>3, OrderOfStores DEF TransactionInv, TransactionTypeOK, Version, Trust
  <2> QED
    BY <2>1, AnchorsFollow DEF AnchorsExist, AnchorsAreSettled, Settled, Trust
<1>7. TrustIsLast'
  BY DEF TransactionInv, TrustIsLast, Version
<1>8. FailedSaveChangesNothing'
  <2>1. outcome' = "failed" => phase \in {"closed", "editing"} /\ outcome = "failed"
    BY DEF TransactionInv, TransactionTypeOK, SaveIsNew
  <2>2. preferences' = live'["preferences"]
    BY <1>3
  <2> QED
    BY <2>1, <2>2 DEF TransactionInv, FailedSaveChangesNothing
<1> QED
  BY <1>4, <1>5, <1>6, <1>7, <1>8
  DEF TransactionInv, ClosedImportsNothing, SaveIsNew, SavedSoFar, RestoredSoFar, FailedSaveChangesNothing

(***************************************************************************)
(* The invariant, and what the user and the documentation rely on.         *)
(***************************************************************************)
\* The inductive invariant of the dialog's save, for any number of attempts, failures and certificates.
THEOREM TransactionInvariance == TransactionSpec => []TransactionInv
<1>1. TransactionInv /\ [TransactionNext]_transactionVars => TransactionInv'
  <2> SUFFICES ASSUME TransactionInv, [TransactionNext]_transactionVars
               PROVE  TransactionInv'
    OBVIOUS
  <2>1. CASE UNCHANGED transactionVars
    BY <2>1
    DEF transactionVars, files, certificates, failure, TransactionInv, TransactionTypeOK, FileContents, Settled,
        LiveIsSettled, AnchorsAreSettled, ClosedImportsNothing, SaveIsNew, SavedSoFar, Store, RestoredSoFar,
        FailedSaveChangesNothing, TrustIsLast
  <2>2. CASE \E c \in Certificates : Import(c)
    BY <2>2, ImportKeeps
  <2>3. CASE \E chosen \in SUBSET Certificates : BeginSave(chosen)
    BY <2>3, BeginSaveKeeps
  <2> QED
    BY <2>1, <2>2, <2>3, OpenDialogKeeps, RejectKeeps, AcceptKeeps, CrashKeeps, SavePreferencesKeeps,
       FailPreferencesKeeps, DropBackupKeeps, MakeBackupKeeps, NoBackupKeeps, WritePrimaryKeeps,
       NextStoreKeeps, FailSaveKeeps, RestoreKeeps, FailRestoreKeeps, RestorePreferencesKeeps
    DEF TransactionNext
<1> QED
  BY <1>1, TransactionInitHolds, PTL DEF TransactionSpec

(***************************************************************************)
(* A save that failed, whichever step did, leaves every file that its      *)
(* message does not name as it was captured, and the preferences unless it *)
(* names them: because they could not be restored, or because they were    *)
(* the step that failed, which may have written them and is not rolled     *)
(* back (SettingsSaveTransaction, SettingsDialog::saveAndClose).           *)
(***************************************************************************)
THEOREM FailedSavesChangeNothing == TransactionSpec => []FailedSaveChangesNothing
<1>1. TransactionInv => FailedSaveChangesNothing
  BY DEF TransactionInv
<1> QED
  BY <1>1, TransactionInvariance, PTL

(***************************************************************************)
(* New trust rules are on disk only together with every other new setting  *)
(* (SettingsDialog::saveAndClose), unless a rollback is under way or was   *)
(* cut short by a crash, or could not restore the rules' file.             *)
(***************************************************************************)
THEOREM TrustComesLast == TransactionSpec => []TrustIsLast
<1>1. TransactionInv => TrustIsLast
  BY DEF TransactionInv
<1> QED
  BY <1>1, TransactionInvariance, PTL

(***************************************************************************)
(* The certificates that the trust rules refer to, on disk or in use, are  *)
(* there, while the dialog is open and after it, however its save ended    *)
(* (TrustCertificateRepository).  The exception is rules that a failed save *)
(* left on disk, its rollback failing too, when the dialog was cancelled.  *)
(***************************************************************************)
THEOREM AnchorsAlwaysExist == TransactionSpec => []AnchorsExist
BY AnchorsFollow, TransactionInvariance, PTL

(***************************************************************************)
(* With the dialog closed the program runs with the settings on disk       *)
(* (SettingsDialog::saveAndClose, MainWindow's use of its results), but    *)
(* for files and preferences that a failed save could not put back.        *)
(***************************************************************************)
THEOREM LiveIsAlwaysSaved == TransactionSpec => []LiveIsSaved
<1>1. TransactionInv => LiveIsSaved
  BY DEF TransactionInv, LiveIsSettled, Settled, LiveIsSaved
<1> QED
  BY <1>1, TransactionInvariance, PTL

----------------------------------------------------------------------------
(***************************************************************************)
(* The file of the Site Connections and its backup.                        *)
(***************************************************************************)
StoreSpec == StoreInit /\ [][StoreNext]_storeVars

Steps == {"none", "backup", "restrict backup", "primary", "restrict primary"}

Saves == [step : Steps, config : Configs, by : {"user", "start"}]

\* The edition a file is good for: that of the defaults when it does not load
Ed(contents) == IF Loads(contents) THEN contents.edition ELSE 0

StoreTypeOK ==
  /\ primary \in Contents /\ backup \in Contents
  /\ running \in BOOLEAN
  /\ memory \in Configs
  /\ saving \in Saves
  /\ edition \in 0 .. MaxEdition /\ acked \in 0 .. MaxEdition /\ previous \in 0 .. MaxEdition
  /\ damage \in 0 .. MaxDamage

\* Editions only grow; the save that is asked for has the newest, and that of the defaults happens
\* while nothing was acknowledged.
EditionsGrow ==
  /\ previous <= acked /\ acked <= edition
  /\ Ed(primary) <= edition /\ Ed(backup) <= edition

IdleIsNoSave == saving.step = "none" => saving = NoSave

NewestIsSaved == saving.step # "none" /\ saving.by = "user" => saving.config.edition = edition

DefaultsAreFirst ==
  saving.step # "none" /\ saving.by = "start" =>
    saving.config.edition = 0 /\ acked = 0 /\ (damage = 0 => Ed(primary) = 0)

\* Undamaged, the primary has what was acknowledged, and the backup what was before that; once the backup
\* step of a save is over, the backup has it, too, until the primary has the new configuration.
FilesInOrder ==
  damage = 0 =>
    /\ acked <= Ed(primary) /\ previous <= Ed(backup) /\ Ed(backup) <= Ed(primary)
    /\ acked < Ed(primary) => acked <= Ed(backup)

BackupComesFirst ==
  damage = 0 /\ saving.step \in {"restrict backup", "primary", "restrict primary"} => acked <= Ed(backup)

PrimaryIsNew == damage = 0 /\ saving.step = "restrict primary" => primary = saving.config

\* With one file damaged, what is found is no older than the last but one; a save about to be acknowledged
\* has its primary, or the backup from before.
Found == IF Loads(primary) THEN Ed(primary) ELSE Ed(backup)

FoundOnceDamaged == damage = 1 => previous <= Found

SavedOnceDamaged ==
  damage = 1 /\ saving.step = "restrict primary" =>
    primary = saving.config \/ (~Loads(primary) /\ acked <= Ed(backup))

StoreInv ==
  /\ StoreTypeOK /\ EditionsGrow /\ IdleIsNoSave /\ NewestIsSaved /\ DefaultsAreFirst
  /\ FilesInOrder /\ BackupComesFirst /\ PrimaryIsNew
  /\ FoundOnceDamaged /\ SavedOnceDamaged

\* What a start finds is the primary's edition, or the backup's (loadRecoveringBackup).
LEMMA FoundEdition ==
  ASSUME NEW p \in Contents, NEW b \in Contents
  PROVE  /\ Loaded(p, b) \in Configs
         /\ Loaded(p, b).edition = IF Loads(p) THEN Ed(p) ELSE Ed(b)
<1>1. CASE Loads(p) \/ Loads(b)
  BY <1>1 DEF Loaded, Loads, Ed
<1>2. CASE ~Loads(p) /\ ~Loads(b)
  <2>1. DefaultConfig \in Configs
    BY StoreAssumption DEF DefaultConfig, Configs
  <2>2. \A e \in BOOLEAN : [DefaultConfig EXCEPT !.enabled = e] \in Configs
    BY <2>1 DEF Configs
  <2>3. \A e \in BOOLEAN : [DefaultConfig EXCEPT !.enabled = e].edition = 0
    BY DEF DefaultConfig
  <2> QED
    BY <1>2, <2>2, <2>3 DEF Loaded, Ed
<1> QED
  BY <1>1, <1>2

\* Editions are numbers of saves.
LEMMA EdType ==
  ASSUME NEW contents \in Contents
  PROVE  Ed(contents) \in 0 .. MaxEdition
BY StoreAssumption DEF Ed, Loads, Configs

\* Files that are gone or spoiled are good for nothing.
LEMMA HarmedLoadsNothing ==
  /\ NoFile \in Contents /\ ~Loads(NoFile) /\ Ed(NoFile) = 0
  /\ Spoiled \in Contents /\ ~Loads(Spoiled) /\ Ed(Spoiled) = 0
BY DEF Loads, NoFile, Spoiled, Configs, Contents, Ed

\* The numbers of a state are natural numbers, and a configuration that loads has its edition.
LEMMA Numbers ==
  ASSUME StoreTypeOK
  PROVE  /\ Ed(primary) \in Nat /\ Ed(backup) \in Nat
         /\ edition \in Nat /\ acked \in Nat /\ previous \in Nat /\ damage \in Nat
         /\ ~Loads(primary) => Ed(primary) = 0
<1>1. Ed(primary) \in 0 .. MaxEdition /\ Ed(backup) \in 0 .. MaxEdition
  BY EdType DEF StoreTypeOK
<1> QED
  BY <1>1, StoreAssumption DEF StoreTypeOK, Ed

\* The save of the defaults, under way or not.
LEMMA SaveOfDefaults ==
  /\ DefaultConfig \in Configs
  /\ NoSave \in Saves
  /\ [step |-> "backup", config |-> DefaultConfig, by |-> "start"] \in Saves
<1>1. DefaultConfig \in Configs
  BY StoreAssumption DEF DefaultConfig, Configs
<1> QED
  BY <1>1 DEF NoSave, Saves, Steps

\* The program has never run.
LEMMA StoreInitHolds == StoreInit => StoreInv
<1> SUFFICES ASSUME StoreInit
             PROVE  StoreInv
  OBVIOUS
<1>1. DefaultConfig \in Configs /\ NoSave \in Saves
  BY SaveOfDefaults
<1>2. StoreTypeOK
  <2>1. 0 \in 0 .. MaxEdition /\ 0 \in 0 .. MaxDamage
    BY StoreAssumption
  <2>2. NoFile \in Contents
    BY DEF Contents
  <2> QED
    BY <1>1, <2>1, <2>2 DEF StoreInit, StoreTypeOK
<1>3. Ed(primary) = 0 /\ Ed(backup) = 0 /\ acked = 0 /\ previous = 0 /\ edition = 0 /\ damage = 0
  BY HarmedLoadsNothing DEF StoreInit
<1>4. saving = NoSave /\ saving.step = "none"
  BY DEF StoreInit, NoSave
<1>5. EditionsGrow /\ FilesInOrder
  BY <1>3 DEF EditionsGrow, FilesInOrder
<1>6. /\ IdleIsNoSave /\ NewestIsSaved /\ DefaultsAreFirst
      /\ BackupComesFirst /\ PrimaryIsNew /\ FoundOnceDamaged /\ SavedOnceDamaged
  BY <1>3, <1>4
  DEF IdleIsNoSave, NewestIsSaved, DefaultsAreFirst, BackupComesFirst, PrimaryIsNew, FoundOnceDamaged,
      SavedOnceDamaged
<1> QED
  BY <1>2, <1>5, <1>6 DEF StoreInv

(***************************************************************************)
(* The actions.                                                            *)
(***************************************************************************)
\* A start takes over what it finds, and writes nothing but the defaults where there was no file.
LEMMA StartKeeps == StoreInv /\ Start => StoreInv'
<1> SUFFICES ASSUME StoreInv, Start
             PROVE  StoreInv'
  OBVIOUS
<1>1. Loaded(primary, backup) \in Configs /\ Loaded(primary, backup).edition = Found
  BY FoundEdition DEF StoreInv, StoreTypeOK, Found
<1>2. /\ acked' = Found
      /\ previous' = IF acked' < acked THEN acked' ELSE IF acked' = acked THEN previous ELSE acked
  BY <1>1 DEF Start
<1>3. memory' \in Configs /\ running' = TRUE
  BY <1>1 DEF Start, LoadSettings
<1>4. primary' = primary /\ backup' = backup /\ edition' = edition /\ damage' = damage
  BY DEF Start
<1>5. Ed(primary)' = Ed(primary) /\ Ed(backup)' = Ed(backup) /\ Found' = Found
  BY <1>4 DEF Ed, Loads, Found
<1>6. Found \in 0 .. MaxEdition
  BY EdType DEF Found, StoreInv, StoreTypeOK
<1>7. \/ saving' = NoSave
      \/ saving' = [step |-> "backup", config |-> DefaultConfig, by |-> "start"] /\ primary = NoFile /\ backup = NoFile
  <2>1. [NoSave EXCEPT !.step = "backup"] = [step |-> "backup", config |-> DefaultConfig, by |-> "start"]
    BY DEF NoSave
  <2> QED
    BY <2>1 DEF Start
<1>8. saving'.step \in {"none", "backup"} /\ saving'.config = DefaultConfig /\ saving'.by = "start"
  BY <1>7 DEF NoSave
<1>9. saving'.step # "none" => Found = 0 /\ Ed(primary) = 0
  BY <1>7, HarmedLoadsNothing DEF NoSave, Found
<1>10. StoreTypeOK'
  <2>2. saving' \in Saves
    BY <1>7, SaveOfDefaults
  <2>3. acked' \in 0 .. MaxEdition /\ previous' \in 0 .. MaxEdition
    BY <1>2, <1>6 DEF StoreInv, StoreTypeOK
  <2> QED
    BY <1>3, <1>4, <2>2, <2>3 DEF StoreInv, StoreTypeOK
<1>11. /\ Ed(primary) \in Nat /\ Ed(backup) \in Nat /\ Found \in Nat
       /\ edition \in Nat /\ acked \in Nat /\ previous \in Nat
       /\ ~Loads(primary) => Ed(primary) = 0
  BY Numbers DEF StoreInv, Found
<1>12. EditionsGrow'
  BY <1>2, <1>4, <1>5, <1>11 DEF StoreInv, EditionsGrow, Found
<1>13. IdleIsNoSave' /\ NewestIsSaved' /\ DefaultsAreFirst'
  <2>1. DefaultConfig.edition = 0
    BY DEF DefaultConfig
  <2> QED
    BY <1>2, <1>5, <1>7, <1>8, <1>9, <2>1 DEF IdleIsNoSave, NewestIsSaved, DefaultsAreFirst, NoSave
<1>14. FilesInOrder'
  <2> SUFFICES ASSUME damage = 0
               PROVE  /\ acked' <= Ed(primary) /\ previous' <= Ed(backup) /\ Ed(backup) <= Ed(primary)
                      /\ acked' < Ed(primary) => acked' <= Ed(backup)
    BY <1>4, <1>5 DEF FilesInOrder
  <2>1. /\ acked <= Ed(primary) /\ previous <= Ed(backup) /\ Ed(backup) <= Ed(primary)
        /\ acked < Ed(primary) => acked <= Ed(backup)
    BY DEF StoreInv, FilesInOrder
  <2>2. Found = Ed(primary)
    BY <1>11, <2>1 DEF Found
  <2> QED
    BY <1>2, <1>11, <2>1, <2>2
<1>15. BackupComesFirst' /\ PrimaryIsNew' /\ SavedOnceDamaged'
  BY <1>8 DEF BackupComesFirst, PrimaryIsNew, SavedOnceDamaged
<1>16. FoundOnceDamaged'
  BY <1>2, <1>4, <1>5, <1>11 DEF StoreInv, FoundOnceDamaged, EditionsGrow
<1> QED
  BY <1>10, <1>12, <1>13, <1>14, <1>15, <1>16 DEF StoreInv

\* A new configuration has the next edition.
LEMMA BeginStoreKeeps == StoreInv /\ (\E enabled \in BOOLEAN : BeginStore(enabled)) => StoreInv'
<1> SUFFICES ASSUME StoreInv, NEW enabled \in BOOLEAN, BeginStore(enabled)
             PROVE  StoreInv'
  OBVIOUS
<1>1. /\ edition < MaxEdition /\ edition' = edition + 1
      /\ saving' = [step |-> "backup", by |-> "user", config |-> [edition |-> edition + 1, enabled |-> enabled]]
      /\ primary' = primary /\ backup' = backup /\ running' = running /\ memory' = memory
      /\ acked' = acked /\ previous' = previous /\ damage' = damage
  BY DEF BeginStore
<1>2. Ed(primary)' = Ed(primary) /\ Ed(backup)' = Ed(backup) /\ Found' = Found
  BY <1>1 DEF Ed, Loads, Found
<1>3. saving'.step = "backup" /\ saving'.by = "user" /\ saving'.config.edition = edition'
  BY <1>1
<1>4. /\ Ed(primary) \in Nat /\ Ed(backup) \in Nat /\ edition \in Nat /\ acked \in Nat
  BY Numbers DEF StoreInv
<1>5. StoreTypeOK'
  <2>1. edition' \in 0 .. MaxEdition
    BY <1>1, <1>4, StoreAssumption
  <2>2. [edition |-> edition + 1, enabled |-> enabled] \in Configs
    BY <1>1, <2>1 DEF Configs
  <2>3. saving' \in Saves
    BY <1>1, <2>2 DEF Saves, Steps
  <2> QED
    BY <1>1, <2>1, <2>3 DEF StoreInv, StoreTypeOK
<1>6. EditionsGrow'
  BY <1>1, <1>2, <1>4 DEF StoreInv, EditionsGrow
<1>7. IdleIsNoSave' /\ NewestIsSaved' /\ DefaultsAreFirst'
  BY <1>3 DEF IdleIsNoSave, NewestIsSaved, DefaultsAreFirst
<1>8. FilesInOrder' /\ FoundOnceDamaged'
  BY <1>1, <1>2 DEF StoreInv, FilesInOrder, FoundOnceDamaged
<1>9. BackupComesFirst' /\ PrimaryIsNew' /\ SavedOnceDamaged'
  BY <1>3 DEF BackupComesFirst, PrimaryIsNew, SavedOnceDamaged
<1> QED
  BY <1>5, <1>6, <1>7, <1>8, <1>9 DEF StoreInv

\* A save that goes on to its next step is the same save.
LEMMA ProceedStep ==
  ASSUME StoreTypeOK, saving.step # "none", NEW next \in Steps, saving' = [saving EXCEPT !.step = next]
  PROVE  /\ saving' \in Saves
         /\ saving'.step = next /\ saving'.config = saving.config /\ saving'.by = saving.by
BY DEF StoreTypeOK, Saves

\* The primary becomes the backup, if it loads.
LEMMA WriteBackupKeeps == StoreInv /\ WriteBackup => StoreInv'
<1> SUFFICES ASSUME StoreInv, WriteBackup
             PROVE  StoreInv'
  OBVIOUS
<1> DEFINE next == IF Loads(primary) THEN "restrict backup" ELSE "primary"
<1>1. /\ saving.step = "backup" /\ saving' = [saving EXCEPT !.step = next]
      /\ backup' = (IF Loads(primary) THEN primary ELSE backup)
      /\ primary' = primary /\ running' = running /\ memory' = memory
      /\ edition' = edition /\ acked' = acked /\ previous' = previous /\ damage' = damage
  BY DEF WriteBackup, Proceed, history
<1>2. next \in Steps \ {"none"}
  BY DEF Steps
<1>3. /\ saving' \in Saves
      /\ saving'.step = next /\ saving'.config = saving.config /\ saving'.by = saving.by
  BY <1>1, <1>2, ProceedStep DEF StoreInv
<1>4. /\ Ed(primary)' = Ed(primary)
      /\ Ed(backup)' = IF Loads(primary) THEN Ed(primary) ELSE Ed(backup)
      /\ Found' = Found
  BY <1>1 DEF Ed, Loads, Found
<1>5. /\ Ed(primary) \in Nat /\ Ed(backup) \in Nat /\ acked \in Nat /\ previous \in Nat
      /\ ~Loads(primary) => Ed(primary) = 0
  BY Numbers DEF StoreInv
<1>6. StoreTypeOK'
  BY <1>1, <1>3 DEF StoreInv, StoreTypeOK
<1>7. EditionsGrow'
  BY <1>1, <1>4 DEF StoreInv, EditionsGrow
<1>8. IdleIsNoSave' /\ NewestIsSaved' /\ DefaultsAreFirst'
  <2>1. saving.step # "none" /\ saving'.step # "none"
    BY <1>1, <1>2, <1>3
  <2> QED
    BY <1>1, <1>3, <1>4, <2>1 DEF StoreInv, IdleIsNoSave, NewestIsSaved, DefaultsAreFirst
<1>9. FilesInOrder' /\ BackupComesFirst'
  <2>1. damage = 0 =>
          /\ acked <= Ed(primary) /\ previous <= Ed(backup) /\ Ed(backup) <= Ed(primary)
          /\ previous <= acked
    BY DEF StoreInv, FilesInOrder, EditionsGrow
  <2>2. damage = 0 => /\ acked <= Ed(backup)' /\ previous <= Ed(backup)' /\ Ed(backup)' <= Ed(primary)
    BY <1>4, <1>5, <2>1
  <2> QED
    BY <1>1, <1>4, <2>1, <2>2 DEF FilesInOrder, BackupComesFirst
<1>10. PrimaryIsNew' /\ SavedOnceDamaged'
  BY <1>3 DEF PrimaryIsNew, SavedOnceDamaged
<1>11. FoundOnceDamaged'
  BY <1>1, <1>4 DEF StoreInv, FoundOnceDamaged
<1> QED
  BY <1>6, <1>7, <1>8, <1>9, <1>10, <1>11 DEF StoreInv

\* The permissions of the backup change no contents.
LEMMA RestrictBackupKeeps == StoreInv /\ RestrictBackup => StoreInv'
<1> SUFFICES ASSUME StoreInv, RestrictBackup
             PROVE  StoreInv'
  OBVIOUS
<1>1. /\ saving.step = "restrict backup" /\ saving' = [saving EXCEPT !.step = "primary"]
      /\ primary' = primary /\ backup' = backup /\ running' = running /\ memory' = memory
      /\ edition' = edition /\ acked' = acked /\ previous' = previous /\ damage' = damage
  BY DEF RestrictBackup, Proceed, history
<1>2. /\ saving' \in Saves
      /\ saving'.step = "primary" /\ saving'.config = saving.config /\ saving'.by = saving.by
  BY <1>1, ProceedStep DEF StoreInv, Steps
<1>3. Ed(primary)' = Ed(primary) /\ Ed(backup)' = Ed(backup) /\ Found' = Found
  BY <1>1 DEF Ed, Loads, Found
<1>4. StoreTypeOK'
  BY <1>1, <1>2 DEF StoreInv, StoreTypeOK
<1>5. EditionsGrow' /\ FilesInOrder' /\ FoundOnceDamaged'
  BY <1>1, <1>3 DEF StoreInv, EditionsGrow, FilesInOrder, FoundOnceDamaged
<1>6. IdleIsNoSave' /\ NewestIsSaved' /\ DefaultsAreFirst'
  BY <1>1, <1>2, <1>3 DEF StoreInv, IdleIsNoSave, NewestIsSaved, DefaultsAreFirst
<1>7. BackupComesFirst'
  BY <1>1, <1>3 DEF StoreInv, BackupComesFirst
<1>8. PrimaryIsNew' /\ SavedOnceDamaged'
  BY <1>2 DEF PrimaryIsNew, SavedOnceDamaged
<1> QED
  BY <1>4, <1>5, <1>6, <1>7, <1>8 DEF StoreInv

\* The new configuration replaces the primary at once.
LEMMA ReplacePrimaryKeeps == StoreInv /\ ReplacePrimary => StoreInv'
<1> SUFFICES ASSUME StoreInv, ReplacePrimary
             PROVE  StoreInv'
  OBVIOUS
<1>1. /\ saving.step = "primary" /\ saving' = [saving EXCEPT !.step = "restrict primary"]
      /\ primary' = saving.config /\ backup' = backup /\ running' = running /\ memory' = memory
      /\ edition' = edition /\ acked' = acked /\ previous' = previous /\ damage' = damage
  BY DEF ReplacePrimary, Proceed, history
<1>2. /\ saving' \in Saves
      /\ saving'.step = "restrict primary" /\ saving'.config = saving.config /\ saving'.by = saving.by
  BY <1>1, ProceedStep DEF StoreInv, Steps
<1>3. saving.config \in Configs /\ saving.config.edition \in 0 .. MaxEdition /\ saving.by \in {"user", "start"}
  BY DEF StoreInv, StoreTypeOK, Saves, Configs
<1>4. Ed(primary)' = saving.config.edition /\ Ed(backup)' = Ed(backup) /\ Found' = saving.config.edition
  BY <1>1, <1>3 DEF Ed, Loads, Found
<1>5. /\ Ed(primary) \in Nat /\ Ed(backup) \in Nat /\ acked \in Nat /\ previous \in Nat /\ edition \in Nat
      /\ saving.config.edition \in Nat
  BY <1>3, Numbers DEF StoreInv
<1>6. \/ saving.by = "user" /\ saving.config.edition = edition
      \/ /\ saving.by = "start" /\ saving.config.edition = 0 /\ acked = 0
         /\ damage = 0 => Ed(primary) = 0
  BY <1>1, <1>3 DEF StoreInv, NewestIsSaved, DefaultsAreFirst
<1>7. StoreTypeOK'
  BY <1>1, <1>2, <1>3 DEF StoreInv, StoreTypeOK, Contents
<1>8. EditionsGrow'
  <2>1. saving.config.edition <= edition
    BY <1>5, <1>6
  <2> QED
    BY <1>1, <1>4, <2>1 DEF StoreInv, EditionsGrow
<1>9. IdleIsNoSave' /\ NewestIsSaved' /\ DefaultsAreFirst'
  BY <1>1, <1>2, <1>4, <1>6 DEF StoreInv, IdleIsNoSave, NewestIsSaved, DefaultsAreFirst
<1>10. FilesInOrder'
  BY <1>1, <1>4, <1>5, <1>6 DEF StoreInv, FilesInOrder, BackupComesFirst, EditionsGrow
<1>11. BackupComesFirst'
  BY <1>1, <1>4 DEF StoreInv, BackupComesFirst
<1>12. PrimaryIsNew' /\ SavedOnceDamaged'
  BY <1>1, <1>2 DEF PrimaryIsNew, SavedOnceDamaged
<1>13. FoundOnceDamaged'
  <2>1. previous <= acked /\ acked <= edition
    BY DEF StoreInv, EditionsGrow
  <2>2. previous <= saving.config.edition
    BY <1>5, <1>6, <2>1
  <2> QED
    BY <1>1, <1>4, <2>2 DEF FoundOnceDamaged
<1> QED
  BY <1>7, <1>8, <1>9, <1>10, <1>11, <1>12, <1>13 DEF StoreInv

\* The answer is acknowledged when everything is on disk.
LEMMA FinishStoreKeeps == StoreInv /\ FinishStore => StoreInv'
<1> SUFFICES ASSUME StoreInv, FinishStore
             PROVE  StoreInv'
  OBVIOUS
<1>1. /\ saving.step = "restrict primary" /\ saving' = NoSave
      /\ primary' = primary /\ backup' = backup /\ running' = running
      /\ edition' = edition /\ damage' = damage
      /\ \/ /\ saving.by = "user" /\ memory' = saving.config
            /\ acked' = saving.config.edition /\ previous' = acked
         \/ memory' = memory /\ acked' = acked /\ previous' = previous
  BY DEF FinishStore, Acknowledge
<1>2. saving.config \in Configs /\ saving.config.edition \in 0 .. MaxEdition
  BY DEF StoreInv, StoreTypeOK, Saves, Configs
<1>3. Ed(primary)' = Ed(primary) /\ Ed(backup)' = Ed(backup) /\ Found' = Found
  BY <1>1 DEF Ed, Loads, Found
<1>4. primary = saving.config => Ed(primary) = saving.config.edition /\ Found = saving.config.edition
  BY <1>2 DEF Ed, Loads, Found
<1>5. /\ Ed(primary) \in Nat /\ Ed(backup) \in Nat /\ acked \in Nat /\ previous \in Nat /\ edition \in Nat
      /\ saving.config.edition \in Nat
  BY <1>2, Numbers DEF StoreInv
<1>6. saving.by = "user" => saving.config.edition = edition
  BY <1>1 DEF StoreInv, NewestIsSaved
<1>7. saving'.step = "none"
  BY <1>1 DEF NoSave
<1>13. \/ acked' = saving.config.edition /\ acked' = edition /\ previous' = acked
       \/ acked' = acked /\ previous' = previous
  BY <1>1, <1>6, Zenon
<1>8. StoreTypeOK'
  BY <1>1, <1>2, SaveOfDefaults DEF StoreInv, StoreTypeOK
<1>9. EditionsGrow'
  <2>1. previous <= acked /\ acked <= edition
    BY DEF StoreInv, EditionsGrow
  <2>2. previous' <= acked' /\ acked' <= edition
    BY <1>5, <1>13, <2>1
  <2> QED
    BY <1>1, <1>3, <2>2 DEF StoreInv, EditionsGrow
<1>10. /\ IdleIsNoSave' /\ NewestIsSaved' /\ DefaultsAreFirst'
       /\ BackupComesFirst' /\ PrimaryIsNew' /\ SavedOnceDamaged'
  BY <1>1, <1>7
  DEF IdleIsNoSave, NewestIsSaved, DefaultsAreFirst, BackupComesFirst, PrimaryIsNew, SavedOnceDamaged
<1>11. FilesInOrder'
  <2>1. damage = 0 => primary = saving.config /\ acked <= Ed(backup)
    BY <1>1 DEF StoreInv, PrimaryIsNew, BackupComesFirst
  <2> QED
    <3>1. damage = 0 =>
            /\ acked <= Ed(primary) /\ previous <= Ed(backup) /\ Ed(backup) <= Ed(primary)
            /\ acked < Ed(primary) => acked <= Ed(backup)
      BY Zenon DEF StoreInv, FilesInOrder
    <3>2. damage = 0 =>
            /\ acked' <= Ed(primary) /\ previous' <= Ed(backup)
            /\ acked' < Ed(primary) => acked' <= Ed(backup)
      BY <1>4, <1>5, <1>13, <2>1, <3>1
    <3> QED
      BY <1>1, <1>3, <3>1, <3>2 DEF FilesInOrder
<1>12. FoundOnceDamaged'
  <2>1. damage = 1 => primary = saving.config \/ (~Loads(primary) /\ acked <= Ed(backup))
    BY <1>1 DEF StoreInv, SavedOnceDamaged
  <2>2. damage = 1 /\ saving.by = "user" => acked <= Found
    BY <1>4, <1>5, <1>6, <2>1 DEF StoreInv, EditionsGrow, Found
  <2> QED
    BY <1>1, <1>3, <1>5, <2>2 DEF StoreInv, FoundOnceDamaged
<1> QED
  BY <1>8, <1>9, <1>10, <1>11, <1>12 DEF StoreInv

\* A save that fails, or dies with its process, leaves the files as they are.
LEMMA LeavingKeeps ==
  ASSUME StoreInv, saving' = NoSave, running' \in BOOLEAN,
         primary' = primary, backup' = backup, memory' = memory,
         edition' = edition, acked' = acked, previous' = previous, damage' = damage
  PROVE  StoreInv'
<1>1. saving'.step = "none"
  BY DEF NoSave
<1>2. Ed(primary)' = Ed(primary) /\ Ed(backup)' = Ed(backup) /\ Found' = Found
  BY DEF Ed, Loads, Found
<1>3. StoreTypeOK'
  BY SaveOfDefaults DEF StoreInv, StoreTypeOK
<1>4. EditionsGrow' /\ FilesInOrder' /\ FoundOnceDamaged'
  BY <1>2 DEF StoreInv, EditionsGrow, FilesInOrder, FoundOnceDamaged
<1>5. /\ IdleIsNoSave' /\ NewestIsSaved' /\ DefaultsAreFirst'
      /\ BackupComesFirst' /\ PrimaryIsNew' /\ SavedOnceDamaged'
  BY <1>1
  DEF IdleIsNoSave, NewestIsSaved, DefaultsAreFirst, BackupComesFirst, PrimaryIsNew, SavedOnceDamaged
<1> QED
  BY <1>3, <1>4, <1>5 DEF StoreInv

\* A file is lost or spoiled from outside.
LEMMA DamageKeeps == StoreInv /\ (\E harm \in {NoFile, Spoiled} : Damage(harm)) => StoreInv'
<1> SUFFICES ASSUME StoreInv, NEW harm \in {NoFile, Spoiled}, Damage(harm)
             PROVE  StoreInv'
  OBVIOUS
<1>1. /\ damage < MaxDamage /\ damage' = damage + 1
      /\ running' = running /\ memory' = memory /\ saving' = saving
      /\ edition' = edition /\ acked' = acked /\ previous' = previous
      /\ \/ primary' = harm /\ backup' = backup
         \/ primary' = primary /\ backup' = harm
  BY DEF Damage
<1>2. harm \in Contents /\ ~Loads(harm) /\ Ed(harm) = 0
  BY HarmedLoadsNothing
<1>3. /\ Ed(primary) \in Nat /\ Ed(backup) \in Nat /\ acked \in Nat /\ previous \in Nat /\ edition \in Nat
      /\ damage \in Nat
      /\ ~Loads(primary) => Ed(primary) = 0
  BY Numbers DEF StoreInv
<1>4. \/ /\ primary' = harm /\ ~Loads(primary)' /\ Ed(primary)' = 0
         /\ Ed(backup)' = Ed(backup) /\ Found' = Ed(backup)
      \/ /\ primary' = primary /\ Loads(primary)' = Loads(primary) /\ Ed(primary)' = Ed(primary)
         /\ Ed(backup)' = 0 /\ Found' = Ed(primary)
  <2>1. CASE primary' = harm /\ backup' = backup
    BY <1>2, <2>1 DEF Ed, Loads, Found
  <2>2. CASE primary' = primary /\ backup' = harm
    BY <1>2, <1>3, <2>2 DEF Ed, Loads, Found
  <2> QED
    BY <1>1, <2>1, <2>2
<1>5. StoreTypeOK'
  BY <1>1, <1>2, <1>3, StoreAssumption DEF StoreInv, StoreTypeOK
<1>6. damage' # 0 /\ (damage' = 1 => damage = 0)
  BY <1>1, <1>3
<1>7. EditionsGrow'
  BY <1>1, <1>3, <1>4 DEF StoreInv, EditionsGrow
<1>8. IdleIsNoSave' /\ NewestIsSaved' /\ DefaultsAreFirst'
  BY <1>1, <1>6 DEF StoreInv, IdleIsNoSave, NewestIsSaved, DefaultsAreFirst
<1>9. FilesInOrder' /\ BackupComesFirst' /\ PrimaryIsNew'
  BY <1>6 DEF FilesInOrder, BackupComesFirst, PrimaryIsNew
<1>10. FoundOnceDamaged'
  BY <1>1, <1>3, <1>4, <1>6 DEF StoreInv, FoundOnceDamaged, FilesInOrder, EditionsGrow
<1>11. SavedOnceDamaged'
  <2>1. damage = 0 /\ saving.step = "restrict primary" => primary = saving.config /\ acked <= Ed(backup)
    BY DEF StoreInv, PrimaryIsNew, BackupComesFirst
  <2> QED
    BY <1>1, <1>4, <1>6, <2>1 DEF SavedOnceDamaged
<1> QED
  BY <1>5, <1>7, <1>8, <1>9, <1>10, <1>11 DEF StoreInv

\* The inductive invariant of the file and its backup.
THEOREM StoreInvariance == StoreSpec => []StoreInv
<1>1. StoreInv /\ [StoreNext]_storeVars => StoreInv'
  <2> SUFFICES ASSUME StoreInv, [StoreNext]_storeVars
               PROVE  StoreInv'
    OBVIOUS
  <2>1. CASE FailStore
    BY <2>1, LeavingKeeps DEF FailStore, history, StoreInv, StoreTypeOK
  <2>2. CASE StopProcess
    BY <2>2, LeavingKeeps DEF StopProcess, history
  <2>3. CASE UNCHANGED storeVars
    BY <2>3
    DEF storeVars, StoreInv, StoreTypeOK, EditionsGrow, IdleIsNoSave, NewestIsSaved, DefaultsAreFirst,
        FilesInOrder, BackupComesFirst, PrimaryIsNew, FoundOnceDamaged, SavedOnceDamaged, Found, Ed, Loads
  <2> QED
    BY <2>1, <2>2, <2>3, StartKeeps, BeginStoreKeeps, WriteBackupKeeps, RestrictBackupKeeps,
       ReplacePrimaryKeeps, FinishStoreKeeps, DamageKeeps
    DEF StoreNext
<1> QED
  BY <1>1, StoreInitHolds, PTL DEF StoreSpec

(***************************************************************************)
(* Whatever save dies or fails at whatever step, a start finds every       *)
(* answer that was acknowledged, and all but the last when one file was    *)
(* lost or spoiled (CrossDomainSettings::save, loadRecoveringBackup).      *)
(***************************************************************************)
THEOREM LossIsBoundedAlways == StoreSpec => []LossIsBounded
<1>1. StoreInv => LossIsBounded
  <2> SUFFICES ASSUME StoreInv
               PROVE  LossIsBounded
    OBVIOUS
  <2>1. Loaded(primary, backup).edition = Found
    BY FoundEdition DEF StoreInv, StoreTypeOK, Found
  <2>2. /\ Ed(primary) \in Nat /\ Ed(backup) \in Nat /\ acked \in Nat /\ previous \in Nat /\ damage \in Nat
        /\ ~Loads(primary) => Ed(primary) = 0
    BY Numbers DEF StoreInv
  <2>3. damage = 0 => acked <= Found
    BY <2>2 DEF StoreInv, FilesInOrder, Found
  <2>4. damage <= 1 => previous <= Found
    BY <2>2, <2>3 DEF StoreInv, FoundOnceDamaged, EditionsGrow, Found
  <2>5. Found \in Nat
    BY <2>2 DEF Found
  <2> QED
    BY <2>1, <2>2, <2>3, <2>4, <2>5 DEF LossIsBounded
<1> QED
  BY <1>1, StoreInvariance, PTL

(***************************************************************************)
(* A start finds the protection off only where a readable file says so, or *)
(* there is none: damage never switches it off                             *)
(* (initializeCrossDomainSettings).                                        *)
(***************************************************************************)
THEOREM ProtectionFailsClosed == StoreSpec => UnreadableFailsClosed
<1>1. [StoreNext]_storeVars =>
        [~ running /\ running' /\ ~ memory'.enabled =>
           memory' \in {primary, backup} \/ (primary = NoFile /\ backup = NoFile)]_storeVars
  <2> SUFFICES ASSUME StoreNext, ~ running, running', ~ memory'.enabled
               PROVE  memory' \in {primary, backup} \/ (primary = NoFile /\ backup = NoFile)
    BY DEF storeVars
  <2>1. Start
    BY DEF StoreNext, BeginStore, WriteBackup, RestrictBackup, ReplacePrimary, FinishStore, FailStore, StopProcess,
           Damage, history
  <2>2. memory' = Loaded(primary, backup)
    BY <2>1 DEF Start, LoadSettings
  <2>3. CASE Loads(primary) \/ Loads(backup)
    BY <2>2, <2>3 DEF Loaded
  <2>4. CASE ~Loads(primary) /\ ~Loads(backup)
    <3>1. memory' = [DefaultConfig EXCEPT !.enabled = ~ (primary = NoFile /\ backup = NoFile)]
      BY <2>2, <2>4 DEF Loaded
    <3>2. memory'.enabled <=> ~ (primary = NoFile /\ backup = NoFile)
      BY <3>1, Zenon DEF DefaultConfig
    <3> QED
      BY <3>2
  <2> QED
    BY <2>3, <2>4
<1> QED
  BY <1>1, PTL DEF StoreSpec, UnreadableFailsClosed

----------------------------------------------------------------------------
(***************************************************************************)
(* Sites.  The lengths, in labels, of the suffixes of a host that are in a *)
(* set of rules, and of those below a wildcard rule's base.                *)
(***************************************************************************)
SuffixLengths(rules, h) ==
  { Len(h) - i + 1 : i \in { j \in 1 .. Len(h) : SuffixFrom(h, j) \in rules } }

WildcardLengths(rules, h) ==
  { Len(h) - i + 2 : i \in { j \in 2 .. Len(h) : SuffixFrom(h, j) \in rules } }

PlainLengths(list, h) ==
  {1} \union SuffixLengths(list.exact, h) \union WildcardLengths(list.wildcardBases, h)

\* publicSuffixLabelCount in terms of these lengths.
LEMMA LabelCount ==
  ASSUME NEW list, NEW h
  PROVE  PublicSuffixLabelCount(list, h) =
           IF SuffixLengths(list.exceptions, h) # {} THEN Max(SuffixLengths(list.exceptions, h)) - 1
           ELSE Min({ Len(h), Max(PlainLengths(list, h)) })
BY DEF PublicSuffixLabelCount, SuffixLengths, WildcardLengths, PlainLengths

\* A suffix of a suffix is a suffix.
LEMMA SuffixOfSuffix ==
  ASSUME NEW V, NEW h \in Seq(V), NEW a \in 1 .. Len(h)
  PROVE  /\ SuffixFrom(h, a) \in Seq(V)
         /\ Len(SuffixFrom(h, a)) = Len(h) - a + 1
         /\ \A i \in 1 .. Len(SuffixFrom(h, a)) : SuffixFrom(h, a)[i] = h[a + i - 1]
         /\ \A i \in 1 .. Len(SuffixFrom(h, a)) : SuffixFrom(SuffixFrom(h, a), i) = SuffixFrom(h, a + i - 1)
<1>1. SuffixFrom(h, a) \in Seq(V) /\ Len(SuffixFrom(h, a)) = Len(h) - a + 1
  BY DEF SuffixFrom
<1>2. \A i \in 1 .. Len(SuffixFrom(h, a)) : SuffixFrom(h, a)[i] = h[a + i - 1]
  BY DEF SuffixFrom
<1>3. ASSUME NEW i \in 1 .. Len(SuffixFrom(h, a))
      PROVE  SuffixFrom(SuffixFrom(h, a), i) = SuffixFrom(h, a + i - 1)
  BY <1>1, <1>2, <1>3 DEF SuffixFrom
<1> QED BY <1>1, <1>2, <1>3

\* The lengths found for a suffix of a host are those found for the host that are no longer than it.
LEMMA LengthsOfSuffix ==
  ASSUME NEW V, NEW h \in Seq(V), NEW a \in 1 .. Len(h), NEW rules
  PROVE  /\ SuffixLengths(rules, SuffixFrom(h, a)) = { n \in SuffixLengths(rules, h) : n <= Len(h) - a + 1 }
         /\ WildcardLengths(rules, SuffixFrom(h, a)) = { n \in WildcardLengths(rules, h) : n <= Len(h) - a + 1 }
<1>1. PICK g \in Seq(V) : g = SuffixFrom(h, a)
  BY SuffixOfSuffix
<1>2. Len(g) = Len(h) - a + 1 /\ Len(h) \in Nat
  <2>1. Len(SuffixFrom(h, a)) = Len(h) - a + 1
    BY SuffixOfSuffix
  <2> QED BY <1>1, <2>1
<1>3. \A i \in 1 .. Len(g) : SuffixFrom(g, i) = SuffixFrom(h, a + i - 1)
  BY <1>1, SuffixOfSuffix
<1>4. ASSUME NEW n \in SuffixLengths(rules, g)
      PROVE  n \in SuffixLengths(rules, h) /\ n <= Len(g)
  <2>1. PICK i \in 1 .. Len(g) : n = Len(g) - i + 1 /\ SuffixFrom(g, i) \in rules
    BY DEF SuffixLengths
  <2>2. a + i - 1 \in 1 .. Len(h) /\ SuffixFrom(h, a + i - 1) \in rules /\ n = Len(h) - (a + i - 1) + 1
    BY <1>2, <1>3, <2>1
  <2>3. n \in SuffixLengths(rules, h)
    BY <2>2 DEF SuffixLengths
  <2>4. n <= Len(g)
    BY <1>2, <2>1
  <2> QED BY <2>3, <2>4
<1>5. ASSUME NEW n \in SuffixLengths(rules, h), n <= Len(g)
      PROVE  n \in SuffixLengths(rules, g)
  <2>1. PICK i \in 1 .. Len(h) : n = Len(h) - i + 1 /\ SuffixFrom(h, i) \in rules
    BY DEF SuffixLengths
  <2>2. i - a + 1 \in 1 .. Len(g) /\ a + (i - a + 1) - 1 = i /\ n = Len(g) - (i - a + 1) + 1
    BY <1>2, <1>5, <2>1
  <2>3. SuffixFrom(g, i - a + 1) \in rules
    BY <1>3, <2>1, <2>2
  <2> QED BY <2>2, <2>3 DEF SuffixLengths
<1>6. ASSUME NEW n \in WildcardLengths(rules, g)
      PROVE  n \in WildcardLengths(rules, h) /\ n <= Len(g)
  <2>1. PICK i \in 2 .. Len(g) : n = Len(g) - i + 2 /\ SuffixFrom(g, i) \in rules
    BY DEF WildcardLengths
  <2>2. a + i - 1 \in 2 .. Len(h) /\ SuffixFrom(h, a + i - 1) \in rules /\ n = Len(h) - (a + i - 1) + 2
    BY <1>2, <1>3, <2>1
  <2>3. n \in WildcardLengths(rules, h)
    BY <2>2 DEF WildcardLengths
  <2>4. n <= Len(g)
    BY <1>2, <2>1
  <2> QED BY <2>3, <2>4
<1>7. ASSUME NEW n \in WildcardLengths(rules, h), n <= Len(g)
      PROVE  n \in WildcardLengths(rules, g)
  <2>1. PICK i \in 2 .. Len(h) : n = Len(h) - i + 2 /\ SuffixFrom(h, i) \in rules
    BY DEF WildcardLengths
  <2>2. i - a + 1 \in 2 .. Len(g) /\ a + (i - a + 1) - 1 = i /\ n = Len(g) - (i - a + 1) + 2
    BY <1>2, <1>7, <2>1
  <2>3. SuffixFrom(g, i - a + 1) \in rules
    BY <1>3, <2>1, <2>2
  <2> QED BY <2>2, <2>3 DEF WildcardLengths
<1>8. SuffixLengths(rules, g) = { n \in SuffixLengths(rules, h) : n <= Len(g) }
  BY <1>4, <1>5
<1>9. WildcardLengths(rules, g) = { n \in WildcardLengths(rules, h) : n <= Len(g) }
  BY <1>6, <1>7
<1> QED BY <1>1, <1>2, <1>8, <1>9

\* The lengths are numbers of labels of the host; the longest is among them.
LEMMA LengthsBounded ==
  ASSUME NEW V, NEW h \in Seq(V), Len(h) # 0, NEW list
  PROVE  /\ \A rules : SuffixLengths(rules, h) \in SUBSET (1 .. Len(h))
         /\ PlainLengths(list, h) \in SUBSET (1 .. Len(h))
         /\ Max(PlainLengths(list, h)) \in PlainLengths(list, h)
         /\ \A n \in PlainLengths(list, h) : n <= Max(PlainLengths(list, h))
         /\ SuffixLengths(list.exceptions, h) # {} =>
              /\ Max(SuffixLengths(list.exceptions, h)) \in SuffixLengths(list.exceptions, h)
              /\ \A n \in SuffixLengths(list.exceptions, h) : n <= Max(SuffixLengths(list.exceptions, h))
<1>1. Len(h) \in Nat
  OBVIOUS
<1>2. \A rules : SuffixLengths(rules, h) \in SUBSET (1 .. Len(h))
  BY <1>1 DEF SuffixLengths
<1>3. WildcardLengths(list.wildcardBases, h) \in SUBSET (1 .. Len(h))
  BY <1>1 DEF WildcardLengths
<1>4. PlainLengths(list, h) \in SUBSET (1 .. Len(h)) /\ 1 \in PlainLengths(list, h)
  BY <1>1, <1>2, <1>3 DEF PlainLengths
<1>5. PICK S : S = PlainLengths(list, h)
  OBVIOUS
<1>6. Max(S) \in S /\ \A n \in S : n <= Max(S)
  <2>1. S \in SUBSET Nat /\ S # {} /\ \A n \in S : n <= Len(h)
    BY <1>1, <1>4, <1>5
  <2> QED BY <1>1, <2>1, LargestOfBounded
<1>7. PICK T : T = SuffixLengths(list.exceptions, h)
  OBVIOUS
<1>8. T # {} => Max(T) \in T /\ \A n \in T : n <= Max(T)
  <2>1. T \in SUBSET Nat /\ \A n \in T : n <= Len(h)
    BY <1>1, <1>2, <1>7
  <2> QED BY <1>1, <2>1, LargestOfBounded
<1> QED BY <1>2, <1>4, <1>5, <1>6, <1>7, <1>8

\* The site of a site is the site (RegistrableDomain), for every list of rules.
LEMMA SiteIsSite ==
  ASSUME NEW list, NEW V, NEW h \in Seq(V)
  PROVE  /\ RegistrableDomain(list, h) \in Seq(V)
         /\ RegistrableDomain(list, h) = NoHost <=> h = NoHost
         /\ RegistrableDomain(list, RegistrableDomain(list, h)) = RegistrableDomain(list, h)
<1>1. CASE h \in Addresses \/ Len(h) <= 1
  BY <1>1 DEF RegistrableDomain
<1>2. CASE ~(h \in Addresses \/ Len(h) <= 1)
  <2>1. PICK k : k = PublicSuffixLabelCount(list, h)
    OBVIOUS
  <2>2. Len(h) \in Nat /\ Len(h) > 1 /\ Len(h) # 0
    BY <1>2
  <2>3. /\ \A rules : SuffixLengths(rules, h) \in SUBSET (1 .. Len(h))
        /\ PlainLengths(list, h) \in SUBSET (1 .. Len(h))
        /\ Max(PlainLengths(list, h)) \in PlainLengths(list, h)
        /\ \A n \in PlainLengths(list, h) : n <= Max(PlainLengths(list, h))
        /\ SuffixLengths(list.exceptions, h) # {} =>
             /\ Max(SuffixLengths(list.exceptions, h)) \in SuffixLengths(list.exceptions, h)
             /\ \A n \in SuffixLengths(list.exceptions, h) : n <= Max(SuffixLengths(list.exceptions, h))
    BY <2>2, LengthsBounded, Zenon
  <2>4. PICK longest : longest = Max(PlainLengths(list, h))
    OBVIOUS
  <2>5. PICK exception : exception = Max(SuffixLengths(list.exceptions, h))
    OBVIOUS
  <2>6. k = IF SuffixLengths(list.exceptions, h) # {} THEN exception - 1 ELSE Min({ Len(h), longest })
    BY <2>1, <2>4, <2>5, LabelCount
  <2>7. longest \in 1 .. Len(h) /\ (SuffixLengths(list.exceptions, h) # {} => exception \in 1 .. Len(h))
    BY <2>3, <2>4, <2>5
  <2>8. SuffixLengths(list.exceptions, h) = {} => k = longest
    <3>1. Min({ Len(h), longest }) = longest
      BY <2>2, <2>7 DEF Min
    <3> QED BY <2>6, <3>1
  <2>9. k \in 0 .. Len(h)
    BY <2>2, <2>6, <2>7, <2>8
  <2>10. CASE Len(h) <= k
    BY <1>2, <2>1, <2>2, <2>10 DEF RegistrableDomain
  <2>11. CASE ~(Len(h) <= k)
    <3>1. Len(h) - k \in 1 .. Len(h)
      BY <2>2, <2>9, <2>11
    <3>2. PICK g \in Seq(V) : g = SuffixFrom(h, Len(h) - k)
      BY <3>1, SuffixOfSuffix
    <3>3. RegistrableDomain(list, h) = g
      BY <1>2, <2>1, <2>11, <3>2 DEF RegistrableDomain
    <3>4. Len(g) = k + 1
      <4>1. Len(SuffixFrom(h, Len(h) - k)) = Len(h) - (Len(h) - k) + 1
        BY <3>1, SuffixOfSuffix
      <4> QED BY <2>2, <2>9, <3>2, <4>1
    <3>5. /\ \A rules : SuffixLengths(rules, g) = { n \in SuffixLengths(rules, h) : n <= k + 1 }
          /\ \A rules : WildcardLengths(rules, g) = { n \in WildcardLengths(rules, h) : n <= k + 1 }
      <4>1. Len(h) - (Len(h) - k) + 1 = k + 1
        BY <2>2, <2>9
      <4> QED BY <3>1, <3>2, <4>1, LengthsOfSuffix
    <3>6. PublicSuffixLabelCount(list, g) = k
      <4>1. CASE SuffixLengths(list.exceptions, h) # {}
        <5>1. k = exception - 1 /\ exception \in Nat
          BY <2>6, <2>7, <4>1
        <5>2. SuffixLengths(list.exceptions, h) \subseteq Nat
          BY <2>3
        <5>3. \A n \in SuffixLengths(list.exceptions, h) : n <= k + 1
          BY <2>3, <2>5, <4>1, <5>1, <5>2
        <5>4. SuffixLengths(list.exceptions, g) = SuffixLengths(list.exceptions, h)
          BY <3>5, <5>3
        <5> QED BY <2>5, <4>1, <5>1, <5>4, LabelCount
      <4>2. CASE SuffixLengths(list.exceptions, h) = {}
        <5>1. k = longest
          BY <2>8, <4>2
        <5>2. PlainLengths(list, h) \subseteq Nat
          BY <2>3
        <5>3. \A n \in PlainLengths(list, h) : n <= k + 1
          BY <2>3, <2>4, <2>9, <5>1, <5>2
        <5>4. PlainLengths(list, g) = PlainLengths(list, h)
          BY <3>5, <5>3 DEF PlainLengths
        <5>5. SuffixLengths(list.exceptions, g) = {}
          BY <3>5, <4>2
        <5>6. PublicSuffixLabelCount(list, g) = Min({ Len(g), k })
          BY <2>4, <5>1, <5>4, <5>5, LabelCount
        <5>7. Min({ k + 1, k }) = k
          BY <2>9 DEF Min
        <5> QED BY <3>4, <5>6, <5>7
      <4> QED BY <4>1, <4>2
    <3>7. RegistrableDomain(list, g) = g
      <4>1. CASE g \in Addresses \/ Len(g) <= 1
        BY <4>1 DEF RegistrableDomain
      <4>2. CASE ~(g \in Addresses \/ Len(g) <= 1)
        <5>1. RegistrableDomain(list, g) = SuffixFrom(g, Len(g) - k)
          BY <2>9, <3>4, <3>6, <4>2 DEF RegistrableDomain
        <5>2. SuffixFrom(g, 1) = g
          BY DEF SuffixFrom
        <5> QED BY <2>9, <3>4, <5>1, <5>2
      <4> QED BY <4>1, <4>2
    <3>8. g # NoHost /\ h # NoHost
      BY <2>2, <2>9, <3>4 DEF NoHost
    <3> QED BY <3>3, <3>7, <3>8
  <2> QED BY <2>10, <2>11
<1> QED BY <1>1, <1>2

(***************************************************************************)
(* The reference counts the same lengths: a rule without a star matches a  *)
(* host if it is the suffix of that length, one with a star if what        *)
(* follows the star is.                                                    *)
(***************************************************************************)
LEMMA RuleIsSuffix ==
  ASSUME Star \notin Labels, NEW h \in Seq(Labels), NEW rule \in Seq(Labels), Len(rule) # 0
  PROVE  /\ RuleMatches(rule, h) <=> Len(rule) <= Len(h) /\ SuffixFrom(h, Len(h) - Len(rule) + 1) = rule
         /\ RuleMatches(<<Star>> \o rule, h) <=>
              Len(rule) + 1 <= Len(h) /\ SuffixFrom(h, Len(h) - Len(rule) + 1) = rule
         /\ RuleMatches(<<Star>>, h) <=> 1 <= Len(h)
<1>1. Len(h) \in Nat /\ Len(rule) \in Nat /\ \A i \in 1 .. Len(rule) : rule[i] \in Labels
  OBVIOUS
<1>2. ASSUME Len(rule) <= Len(h)
      PROVE  (SuffixFrom(h, Len(h) - Len(rule) + 1) = rule) <=>
               \A i \in 1 .. Len(rule) : rule[i] = h[Len(h) - Len(rule) + i]
  <2>1. PICK g \in Seq(Labels) : g = SuffixFrom(h, Len(h) - Len(rule) + 1)
    <3>1. Len(h) - Len(rule) + 1 \in 1 .. Len(h)
      BY <1>1, <1>2
    <3> QED BY <3>1, SuffixOfSuffix
  <2>2. Len(g) = Len(rule) /\ \A i \in 1 .. Len(rule) : g[i] = h[Len(h) - Len(rule) + i]
    BY <1>1, <1>2, <2>1 DEF SuffixFrom
  <2>3. g = rule <=> \A i \in 1 .. Len(rule) : rule[i] = g[i]
    BY <2>1, <2>2, SeqEqual
  <2> QED BY <2>1, <2>2, <2>3
<1>3. RuleMatches(rule, h) <=> Len(rule) <= Len(h) /\ SuffixFrom(h, Len(h) - Len(rule) + 1) = rule
  BY <1>1, <1>2 DEF RuleMatches
<1>4. PICK starred : starred = <<Star>> \o rule
  OBVIOUS
<1>5. Len(starred) = Len(rule) + 1 /\ starred[1] = Star /\ \A i \in 1 .. Len(rule) : starred[i + 1] = rule[i]
  BY <1>1, <1>4
<1>6. ASSUME Len(rule) + 1 <= Len(h)
      PROVE  (\A i \in 1 .. Len(starred) : starred[i] \in { Star, h[Len(h) - Len(starred) + i] }) <=>
               \A i \in 1 .. Len(rule) : rule[i] = h[Len(h) - Len(rule) + i]
  <2>1. ASSUME \A i \in 1 .. Len(rule) : rule[i] = h[Len(h) - Len(rule) + i], NEW i \in 1 .. Len(starred)
        PROVE  starred[i] \in { Star, h[Len(h) - Len(starred) + i] }
    <3>1. CASE i = 1
      BY <1>5, <3>1
    <3>2. CASE i # 1
      <4>1. i - 1 \in 1 .. Len(rule) /\ starred[i] = rule[i - 1]
        BY <1>1, <1>5, <3>2
      <4>2. rule[i - 1] = h[Len(h) - Len(rule) + (i - 1)]
        BY <2>1, <4>1
      <4>3. Len(h) - Len(rule) + (i - 1) = Len(h) - Len(starred) + i
        BY <1>1, <1>5
      <4> QED BY <4>1, <4>2, <4>3
    <3> QED BY <3>1, <3>2
  <2>2. ASSUME \A i \in 1 .. Len(starred) : starred[i] \in { Star, h[Len(h) - Len(starred) + i] },
               NEW i \in 1 .. Len(rule)
        PROVE  rule[i] = h[Len(h) - Len(rule) + i]
    <3>1. i + 1 \in 1 .. Len(starred) /\ starred[i + 1] = rule[i] /\ rule[i] # Star
      BY <1>1, <1>5
    <3>2. starred[i + 1] \in { Star, h[Len(h) - Len(starred) + (i + 1)] }
      BY <2>2, <3>1
    <3>3. Len(h) - Len(rule) + i = Len(h) - Len(starred) + (i + 1)
      BY <1>1, <1>5
    <3> QED BY <3>1, <3>2, <3>3
  <2> QED BY <2>1, <2>2
<1>7. RuleMatches(starred, h) <=> Len(rule) + 1 <= Len(h) /\ SuffixFrom(h, Len(h) - Len(rule) + 1) = rule
  BY <1>1, <1>2, <1>5, <1>6 DEF RuleMatches
<1>8. RuleMatches(<<Star>>, h) <=> 1 <= Len(h)
  <2>1. Len(<<Star>>) = 1 /\ <<Star>>[1] = Star
    OBVIOUS
  <2> QED BY <2>1 DEF RuleMatches
<1> QED BY <1>3, <1>4, <1>7, <1>8

\* The longest of some rules has the largest of their lengths.
LEMMA LongestLength ==
  ASSUME NEW S, S # {}, NEW b \in Nat, \A r \in S : Len(r) \in Nat /\ Len(r) <= b
  PROVE  Len(Longest(S)) = Max({ Len(r) : r \in S })
<1>1. PICK lengths : lengths = { Len(r) : r \in S }
  OBVIOUS
<1>2. Max(lengths) \in lengths /\ \A n \in lengths : n <= Max(lengths)
  <2>1. lengths \in SUBSET Nat /\ lengths # {} /\ \A n \in lengths : n <= b
    BY <1>1
  <2> QED BY <2>1, LargestOfBounded
<1>3. PICK r \in S : Len(r) = Max(lengths)
  BY <1>1, <1>2
<1>4. \A other \in S : Len(other) <= Len(r)
  BY <1>1, <1>2, <1>3
<1>5. Longest(S) \in S /\ \A other \in S : Len(other) <= Len(Longest(S))
  BY <1>4, Zenon DEF Longest
<1>6. Len(Longest(S)) <= Len(r) /\ Len(r) <= Len(Longest(S))
  BY <1>4, <1>5
<1> QED BY <1>1, <1>3, <1>5, <1>6

\* The rules of the list are sequences of labels; that holds in every state.
SuffixesOK ==
  /\ \A rule \in suffixes.exact \union suffixes.wildcardBases \union suffixes.exceptions :
       rule \in Seq(Labels) /\ Len(rule) # 0
  /\ host \in Seq(Labels)

\* The rules that match a host have the lengths publicSuffixLabelCount looks up.
LEMMA SameLengths ==
  ASSUME Star \notin Labels, SuffixesOK, NEW h \in Seq(Labels), Len(h) # 0
  PROVE  /\ { Len(r) : r \in { e \in suffixes.exceptions : RuleMatches(e, h) } }
              = SuffixLengths(suffixes.exceptions, h)
         /\ { Len(r) : r \in { p \in PlainRules : RuleMatches(p, h) } } = PlainLengths(suffixes, h)
<1>1. Len(h) \in Nat
  OBVIOUS
<1>2. ASSUME NEW rules, \A rule \in rules : rule \in Seq(Labels) /\ Len(rule) # 0
      PROVE  /\ { Len(r) : r \in { e \in rules : RuleMatches(e, h) } } = SuffixLengths(rules, h)
             /\ { Len(<<Star>> \o r) : r \in { e \in rules : RuleMatches(<<Star>> \o e, h) } }
                  = WildcardLengths(rules, h)
  <2>1. ASSUME NEW r \in rules
        PROVE  /\ r \in Seq(Labels) /\ Len(r) \in Nat /\ Len(r) # 0 /\ Len(<<Star>> \o r) = Len(r) + 1
               /\ RuleMatches(r, h) <=> Len(r) <= Len(h) /\ SuffixFrom(h, Len(h) - Len(r) + 1) = r
               /\ RuleMatches(<<Star>> \o r, h) <=>
                    Len(r) + 1 <= Len(h) /\ SuffixFrom(h, Len(h) - Len(r) + 1) = r
    <3>1. r \in Seq(Labels) /\ Len(r) # 0
      BY <1>2
    <3>2. Len(r) \in Nat /\ Len(<<Star>> \o r) = Len(r) + 1
      BY <3>1
    <3> QED BY <3>1, <3>2, RuleIsSuffix
  <2>2. ASSUME NEW i \in 1 .. Len(h), SuffixFrom(h, i) \in rules
        PROVE  Len(SuffixFrom(h, i)) = Len(h) - i + 1
    BY SuffixOfSuffix
  <2>3. ASSUME NEW r \in rules, RuleMatches(r, h) PROVE Len(r) \in SuffixLengths(rules, h)
    <3>1. Len(h) - Len(r) + 1 \in 1 .. Len(h) /\ Len(r) = Len(h) - (Len(h) - Len(r) + 1) + 1
      BY <1>1, <2>1, <2>3
    <3>2. SuffixFrom(h, Len(h) - Len(r) + 1) \in rules
      BY <2>1, <2>3
    <3> QED BY <3>1, <3>2 DEF SuffixLengths
  <2>4. ASSUME NEW i \in 1 .. Len(h), SuffixFrom(h, i) \in rules
        PROVE  \E r \in rules : RuleMatches(r, h) /\ Len(r) = Len(h) - i + 1
    <3>1. PICK r \in rules : r = SuffixFrom(h, i)
      BY <2>4
    <3>2. Len(r) = Len(h) - i + 1
      BY <2>2, <2>4, <3>1
    <3>3. Len(r) <= Len(h) /\ Len(h) - Len(r) + 1 = i
      BY <1>1, <3>2
    <3> QED BY <2>1, <3>1, <3>2, <3>3
  <2>5. ASSUME NEW r \in rules, RuleMatches(<<Star>> \o r, h)
        PROVE  Len(<<Star>> \o r) \in WildcardLengths(rules, h)
    <3>1. Len(h) - Len(r) + 1 \in 2 .. Len(h) /\ Len(<<Star>> \o r) = Len(h) - (Len(h) - Len(r) + 1) + 2
      BY <1>1, <2>1, <2>5
    <3>2. SuffixFrom(h, Len(h) - Len(r) + 1) \in rules
      BY <2>1, <2>5
    <3> QED BY <3>1, <3>2 DEF WildcardLengths
  <2>6. ASSUME NEW i \in 2 .. Len(h), SuffixFrom(h, i) \in rules
        PROVE  \E r \in rules : RuleMatches(<<Star>> \o r, h) /\ Len(<<Star>> \o r) = Len(h) - i + 2
    <3>1. PICK r \in rules : r = SuffixFrom(h, i)
      BY <2>6
    <3>2. Len(r) = Len(h) - i + 1
      BY <2>2, <2>6, <3>1
    <3>3. Len(r) + 1 <= Len(h) /\ Len(h) - Len(r) + 1 = i
      BY <1>1, <3>2
    <3>4. Len(<<Star>> \o r) = Len(h) - i + 2
      BY <1>1, <2>1, <3>2
    <3> QED BY <2>1, <3>1, <3>3, <3>4
  <2>7. { Len(r) : r \in { e \in rules : RuleMatches(e, h) } } \subseteq SuffixLengths(rules, h)
    BY <2>3
  <2>8. SuffixLengths(rules, h) \subseteq { Len(r) : r \in { e \in rules : RuleMatches(e, h) } }
    BY <2>4 DEF SuffixLengths
  <2>9. { Len(<<Star>> \o r) : r \in { e \in rules : RuleMatches(<<Star>> \o e, h) } }
          \subseteq WildcardLengths(rules, h)
    BY <2>5
  <2>10. WildcardLengths(rules, h)
           \subseteq { Len(<<Star>> \o r) : r \in { e \in rules : RuleMatches(<<Star>> \o e, h) } }
    BY <2>6 DEF WildcardLengths
  <2> QED BY <2>7, <2>8, <2>9, <2>10
<1>3. { Len(r) : r \in { e \in suffixes.exceptions : RuleMatches(e, h) } } = SuffixLengths(suffixes.exceptions, h)
  BY <1>2 DEF SuffixesOK
<1>4. { Len(r) : r \in { e \in suffixes.exact : RuleMatches(e, h) } } = SuffixLengths(suffixes.exact, h)
  BY <1>2 DEF SuffixesOK
<1>5. { Len(<<Star>> \o r) : r \in { e \in suffixes.wildcardBases : RuleMatches(<<Star>> \o e, h) } }
        = WildcardLengths(suffixes.wildcardBases, h)
  BY <1>2 DEF SuffixesOK
<1>6. RuleMatches(<<Star>>, h) /\ Len(<<Star>>) = 1
  <2>1. Len(<<Star>>) = 1 /\ <<Star>>[1] = Star
    OBVIOUS
  <2> QED BY <1>1, <2>1 DEF RuleMatches
<1>7. { Len(r) : r \in { p \in PlainRules : RuleMatches(p, h) } }
        = { Len(r) : r \in { e \in suffixes.exact : RuleMatches(e, h) } }
            \union { Len(<<Star>> \o r) : r \in { e \in suffixes.wildcardBases : RuleMatches(<<Star>> \o e, h) } }
            \union { Len(<<Star>>) }
  BY <1>6, Zenon DEF PlainRules
<1>8. { Len(r) : r \in { p \in PlainRules : RuleMatches(p, h) } }
        = SuffixLengths(suffixes.exact, h) \union WildcardLengths(suffixes.wildcardBases, h) \union {1}
  BY <1>4, <1>5, <1>6, <1>7
<1>9. PlainLengths(suffixes, h)
        = SuffixLengths(suffixes.exact, h) \union WildcardLengths(suffixes.wildcardBases, h) \union {1}
  BY Zenon DEF PlainLengths
<1> QED BY <1>3, <1>8, <1>9

\* registrableDomain is the reference's site.
LEMMA SiteIsReference ==
  ASSUME Star \notin Labels, SuffixesOK, NEW h \in Seq(Labels), Len(h) # 0
  PROVE  RegistrableDomain(suffixes, h) = ReferenceSite(h)
<1>1. Len(h) \in Nat
  OBVIOUS
<1>2. PICK exceptions : exceptions = { r \in suffixes.exceptions : RuleMatches(r, h) }
  OBVIOUS
<1>3. PICK plain : plain = { r \in PlainRules : RuleMatches(r, h) }
  OBVIOUS
<1>4. /\ { Len(r) : r \in exceptions } = SuffixLengths(suffixes.exceptions, h)
      /\ { Len(r) : r \in plain } = PlainLengths(suffixes, h)
  BY <1>2, <1>3, SameLengths
<1>5. /\ \A rules : SuffixLengths(rules, h) \in SUBSET (1 .. Len(h))
      /\ PlainLengths(suffixes, h) \in SUBSET (1 .. Len(h))
      /\ Max(PlainLengths(suffixes, h)) \in PlainLengths(suffixes, h)
      /\ SuffixLengths(suffixes.exceptions, h) # {} =>
           Max(SuffixLengths(suffixes.exceptions, h)) \in SuffixLengths(suffixes.exceptions, h)
  BY LengthsBounded, Zenon
<1>6. exceptions # {} => Len(Longest(exceptions)) = Max(SuffixLengths(suffixes.exceptions, h))
  <2>1. \A r \in exceptions : Len(r) \in Nat /\ Len(r) <= Len(h)
    <3>1. \A r \in exceptions : Len(r) \in SuffixLengths(suffixes.exceptions, h)
      BY <1>4
    <3> QED BY <1>1, <1>5, <3>1
  <2> QED BY <1>1, <1>4, <2>1, LongestLength
<1>7. plain # {} /\ Len(Longest(plain)) = Max(PlainLengths(suffixes, h))
  <2>1. \A r \in plain : Len(r) \in Nat /\ Len(r) <= Len(h)
    <3>1. \A r \in plain : Len(r) \in PlainLengths(suffixes, h)
      BY <1>4
    <3> QED BY <1>1, <1>5, <3>1
  <2>2. plain # {}
    BY <1>4, <1>5
  <2> QED BY <1>1, <1>4, <2>1, <2>2, LongestLength
<1>8. exceptions # {} <=> SuffixLengths(suffixes.exceptions, h) # {}
  <2>1. exceptions # {} <=> { Len(r) : r \in exceptions } # {}
    OBVIOUS
  <2> QED BY <1>4, <2>1, Zenon
<1>9. PICK prevailing : prevailing = PrevailingLength(h)
  OBVIOUS
<1>10. prevailing = IF exceptions # {} THEN Max(SuffixLengths(suffixes.exceptions, h)) - 1
                    ELSE Max(PlainLengths(suffixes, h))
  BY <1>2, <1>3, <1>6, <1>7, <1>9 DEF PrevailingLength
<1>11. PublicSuffixLabelCount(suffixes, h) = prevailing /\ prevailing \in 0 .. Len(h)
  <2>1. CASE exceptions # {}
    <3>1. PublicSuffixLabelCount(suffixes, h) = prevailing
      BY <1>8, <1>10, <2>1, LabelCount
    <3>2. Max(SuffixLengths(suffixes.exceptions, h)) \in 1 .. Len(h)
      BY <1>5, <1>8, <2>1
    <3> QED BY <1>1, <1>10, <2>1, <3>1, <3>2
  <2>2. CASE exceptions = {}
    <3>1. PublicSuffixLabelCount(suffixes, h) = Min({ Len(h), prevailing })
      BY <1>8, <1>10, <2>2, LabelCount
    <3>2. prevailing \in 1 .. Len(h)
      BY <1>5, <1>10, <2>2
    <3>3. Min({ Len(h), prevailing }) = prevailing
      BY <1>1, <3>2 DEF Min
    <3> QED BY <3>1, <3>2, <3>3
  <2> QED BY <2>1, <2>2
<1>12. CASE h \in Addresses
  BY <1>12 DEF RegistrableDomain, ReferenceSite
<1>13. CASE h \notin Addresses /\ Len(h) <= 1
  <2>1. Len(h) = 1 /\ RegistrableDomain(suffixes, h) = h
    <3>1. \A n \in Nat : n # 0 /\ n <= 1 => n = 1
      OBVIOUS
    <3>2. Len(h) = 1
      BY <1>1, <1>13, <3>1, Zenon
    <3> QED BY <1>13, <3>2, Zenon DEF RegistrableDomain
  <2>2. CASE Len(h) <= prevailing
    BY <1>9, <2>1, <2>2 DEF ReferenceSite
  <2>3. CASE ~(Len(h) <= prevailing)
    <3>1. prevailing = 0
      BY <1>11, <2>1, <2>3
    <3>2. ReferenceSite(h) = SubSeq(h, 1, Len(h))
      BY <1>9, <1>13, <2>1, <3>1 DEF ReferenceSite
    <3> QED BY <2>1, <3>2
  <2> QED BY <2>2, <2>3
<1>14. CASE h \notin Addresses /\ ~(Len(h) <= 1)
  BY <1>9, <1>11, <1>14 DEF RegistrableDomain, ReferenceSite, SuffixFrom
<1> QED BY <1>12, <1>13, <1>14

\* The hosts examined are sequences of labels.
LEMMA ShortHostsAreHosts ==
  ASSUME NEW h \in ShortHosts
  PROVE  h \in Seq(Labels) /\ Len(h) # 0
<1>1. PICK n \in 1 .. 3 : h \in [1 .. n -> Labels]
  BY DEF ShortHosts
<1>2. n \in Nat /\ n # 0
  OBVIOUS
<1>3. h \in Seq(Labels) /\ Len(h) = n
  BY <1>1, <1>2
<1> QED BY <1>2, <1>3

(***************************************************************************)
(* The site of a host is the one the Public Suffix List algorithm          *)
(* prescribes, and the site of a site is the same, for every set of labels *)
(* and every list of rules.                                                *)
(***************************************************************************)
THEOREM SitesFollowPublicSuffixList == Spec => []SiteFollowsPublicSuffixList
<1> DEFINE Inv == SuffixesOK
<1>1. Init => Inv
  <2> SUFFICES ASSUME Init PROVE Inv
    OBVIOUS
  <2>1. host \in Seq(Labels)
    BY DEF Init, NoHost
  <2>2. CASE suffixes = NoSuffixes
    BY <2>1, <2>2 DEF NoSuffixes, SuffixesOK
  <2>3. CASE suffixes \in SuffixLists
    <3>1. \A S \in AtMost(2, ShortHosts) \union AtMost(1, ShortHosts) : S \subseteq ShortHosts
      BY DEF AtMost, kSubset
    <3>2. suffixes.exact \union suffixes.wildcardBases \union suffixes.exceptions \subseteq ShortHosts
      BY <2>3, <3>1 DEF SuffixLists
    <3> QED BY <2>1, <3>2, ShortHostsAreHosts DEF SuffixesOK
  <2> QED BY <2>2, <2>3 DEF Init
<1>2. Inv /\ [Next]_vars => Inv'
  <2> SUFFICES ASSUME SuffixesOK, [Next]_vars PROVE SuffixesOK'
    OBVIOUS
  <2>1. CASE UNCHANGED suffixesVars
    BY <2>1 DEF suffixesVars, SuffixesOK
  <2>2. CASE Examine
    BY <2>2, ShortHostsAreHosts DEF Examine, SuffixesOK
  <2> QED BY <2>1, <2>2 DEF Next, vars
<1>3. Inv => SiteFollowsPublicSuffixList
  <2> SUFFICES ASSUME SuffixesOK, host # NoHost
               PROVE  /\ RegistrableDomain(suffixes, host) = ReferenceSite(host)
                      /\ RegistrableDomain(suffixes, RegistrableDomain(suffixes, host))
                           = RegistrableDomain(suffixes, host)
    BY DEF SiteFollowsPublicSuffixList
  <2>1. host \in Seq(Labels) /\ Len(host) # 0
    BY EmptySeq DEF SuffixesOK, NoHost
  <2>2. Star \notin Labels
    BY LabelsAssumption DEF Star
  <2> QED BY <2>1, <2>2, SiteIsReference, SiteIsSite
<1> HIDE DEF Inv
<1> QED BY <1>1, <1>2, <1>3, PTL DEF Spec

----------------------------------------------------------------------------
(***************************************************************************)
(* The policy.  RuleType and SettingsType: the settings that edits and     *)
(* answers lead to.  All else that matters of them is that they validate.  *)
(***************************************************************************)
RuleType == [source : Hosts \union {NoHost}, target : Hosts \union {NoHost}, decision : Decisions]

SettingsType ==
  [enabled : BOOLEAN, allow : SUBSET Storable, block : SUBSET Storable, rules : Seq(RuleType),
   presets : SUBSET PresetIds]

\* A host, or the absent one, is a sequence of labels.
LEMMA HostsAreSequences ==
  ASSUME NEW h \in Hosts \union {NoHost}
  PROVE  \E V : h \in Seq(V)
<1>1. CASE h = NoHost
  BY <1>1 DEF NoHost
<1>2. CASE h \in Hosts
  BY <1>2, HostsAssumption
<1> QED BY <1>1, <1>2

\* The site of a host is one, is its own site, and is absent only if the host is.
LEMMA Sites ==
  ASSUME NEW h \in Hosts \union {NoHost}
  PROVE  /\ Site(h) \in Hosts \union {NoHost}
         /\ Site(Site(h)) = Site(h)
         /\ Site(h) = NoHost <=> h = NoHost
<1>1. PICK V : h \in Seq(V)
  BY HostsAreSequences
<1>2. PICK site : site = RegistrableDomain(PublicSuffixes, h)
  OBVIOUS
<1>3. (site = NoHost <=> h = NoHost) /\ RegistrableDomain(PublicSuffixes, site) = site
  BY <1>1, <1>2, SiteIsSite
<1>4. site \in Hosts \union {NoHost}
  BY <1>2, <1>3, HostsAssumption
<1>5. Site(h) = site /\ Site(site) = RegistrableDomain(PublicSuffixes, site)
  BY <1>2, <1>4 DEF Site, SiteOf
<1> QED BY <1>3, <1>4, <1>5

\* A normalized rule is a rule.
LEMMA NormalizedTyped ==
  ASSUME NEW rule \in RuleType
  PROVE  NormalizedRule(rule) \in RuleType
<1>1. Storable \subseteq Hosts
  BY SettingsAssumption
<1>2. \A h : NormalizeHostPattern(h) \in Hosts \union {NoHost}
  BY <1>1 DEF NormalizeHostPattern
<1>3. Site(NormalizeHostPattern(rule.source)) \in Hosts \union {NoHost}
  BY <1>2, Sites
<1> QED BY <1>2, <1>3 DEF NormalizedRule, RuleType

\* The page's rules, normalized and without duplicates, are settings again.
LEMMA SetRulesTyped ==
  ASSUME NEW S \in SettingsType, NEW rules \in Seq(RuleType)
  PROVE  SetRules(S, rules) \in SettingsType
<1> DEFINE normalized == [i \in DOMAIN rules |-> NormalizedRule(rules[i])]
           kept == { i \in DOMAIN rules :
                       /\ normalized[i].source # NoHost /\ normalized[i].target # NoHost
                       /\ \A j \in 1 .. (i - 1) : ~ SameKey(normalized[j], normalized[i]) }
           Nth(n) == CHOOSE i \in kept : Cardinality({ j \in kept : j <= i }) = n
           chosen == [n \in 1 .. Cardinality(kept) |-> normalized[Nth(n)]]
<1>1. \A i \in DOMAIN rules : normalized[i] \in RuleType
  BY NormalizedTyped
<1>2. kept \in SUBSET (1 .. Len(rules)) /\ Len(rules) \in Nat /\ kept \subseteq DOMAIN rules
  OBVIOUS
<1>3. SetRules(S, rules) = [S EXCEPT !.rules = chosen]
  BY DEF SetRules
<1> HIDE DEF normalized, kept
<1>4. Cardinality(kept) \in Nat
  <2>1. IsFiniteSet(1 .. Len(rules))
    BY <1>2, FS_Interval
  <2>2. IsFiniteSet(kept)
    BY <1>2, <2>1, FS_Subset
  <2> QED BY <2>2, FS_CardinalityType
<1>5. ASSUME NEW n \in 1 .. Cardinality(kept) PROVE normalized[Nth(n)] \in RuleType
  <2>1. \E i \in kept : Cardinality({ j \in kept : j <= i }) = n
    BY <1>2, Ranked
  <2>2. Nth(n) \in kept
    BY <2>1
  <2> QED BY <1>1, <1>2, <2>2
<1>6. chosen \in Seq(RuleType)
  <2>1. PICK count \in Nat : count = Cardinality(kept)
    BY <1>4
  <2>2. chosen \in [1 .. count -> RuleType]
    BY <1>5, <2>1
  <2> HIDE DEF chosen
  <2> QED BY <2>2
<1> HIDE DEF chosen
<1> QED BY <1>3, <1>6 DEF SettingsType

\* So are the settings with one answer added.
LEMMA SetRuleTyped ==
  ASSUME NEW S \in SettingsType, NEW s \in Hosts \union {NoHost}, NEW t \in Hosts \union {NoHost},
         NEW d \in Decisions
  PROVE  SetRule(S, s, t, d) \in SettingsType
<1>1. PICK rule : rule = NormalizedRule([source |-> s, target |-> t, decision |-> d])
  OBVIOUS
<1>2. rule \in RuleType
  <2>1. [source |-> s, target |-> t, decision |-> d] \in RuleType
    BY DEF RuleType
  <2> QED BY <1>1, <2>1, NormalizedTyped
<1>3. PICK same : same = { i \in DOMAIN S.rules : SameKey(S.rules[i], rule) }
  OBVIOUS
<1>4. S.rules \in Seq(RuleType)
  BY DEF SettingsType
<1>5. SetRule(S, s, t, d) =
        IF same # {} THEN [S EXCEPT !.rules[Min(same)].decision = d] ELSE [S EXCEPT !.rules = Append(@, rule)]
  BY <1>1, <1>3 DEF SetRule
<1>6. CASE same # {}
  <2>1. same \subseteq Nat
    BY <1>3, <1>4
  <2>2. Min(same) \in same
    BY <1>6, <2>1, LeastNumber DEF Min
  <2>3. PICK i \in DOMAIN S.rules : i = Min(same)
    BY <1>3, <2>2
  <2>4. PICK rules : rules = [S.rules EXCEPT ![i].decision = d]
    OBVIOUS
  <2>5. rules \in Seq(RuleType)
    <3>1. DOMAIN rules = 1 .. Len(S.rules) /\ Len(S.rules) \in Nat
      BY <1>4, <2>4
    <3>2. ASSUME NEW j \in 1 .. Len(S.rules) PROVE rules[j] \in RuleType
      <4>1. S.rules[j] \in RuleType
        BY <1>4
      <4>2. [S.rules[j] EXCEPT !.decision = d] \in RuleType
        BY <4>1 DEF RuleType
      <4>3. rules[j] = IF i = j THEN [S.rules[j] EXCEPT !.decision = d] ELSE S.rules[j]
        BY <1>4, <2>4
      <4> QED BY <4>1, <4>2, <4>3
    <3> QED BY <1>4, <2>4, <3>1, <3>2
  <2>6. SetRule(S, s, t, d) = [S EXCEPT !.rules = rules]
    BY <1>5, <1>6, <2>3, <2>4
  <2> QED BY <2>5, <2>6 DEF SettingsType
<1>7. CASE same = {}
  <2>1. Append(S.rules, rule) \in Seq(RuleType)
    BY <1>2, <1>4
  <2>2. SetRule(S, s, t, d) = [S EXCEPT !.rules = Append(S.rules, rule)]
    BY <1>5, <1>7
  <2> QED BY <2>1, <2>2 DEF SettingsType
<1> QED BY <1>6, <1>7

\* No two of the rules that validate are for the same site and host.
LEMMA KeysDiffer ==
  ASSUME NEW S \in SettingsType, Validate(S), NEW i \in DOMAIN S.rules, NEW j \in DOMAIN S.rules,
         S.rules[i].source = S.rules[j].source, S.rules[i].target = S.rules[j].target
  PROVE  i = j
<1>1. DOMAIN S.rules = 1 .. Len(S.rules) /\ Len(S.rules) \in Nat
  BY DEF SettingsType
<1>2. SameKey(NormalizedRule(S.rules[i]), NormalizedRule(S.rules[j]))
  BY DEF SameKey, NormalizedRule
<1>3. SameKey(NormalizedRule(S.rules[j]), NormalizedRule(S.rules[i]))
  BY DEF SameKey, NormalizedRule
<1>4. \A m \in DOMAIN S.rules : \A n \in 1 .. (m - 1) :
        ~SameKey(NormalizedRule(S.rules[n]), NormalizedRule(S.rules[m]))
  BY Zenon DEF Validate, ValidRules
<1>5. i \in Nat /\ j \in Nat /\ i >= 1 /\ j >= 1
  BY <1>1
<1>6. CASE i < j
  <2>1. i \in 1 .. (j - 1)
    BY <1>5, <1>6
  <2> QED BY <1>2, <1>4, <2>1
<1>7. CASE j < i
  <2>1. j \in 1 .. (i - 1)
    BY <1>5, <1>7
  <2> QED BY <1>3, <1>4, <2>1
<1> QED BY <1>5, <1>6, <1>7

\* A host matches one of some patterns if it or what follows one of its dots is among them.
LEMMA PatternsMatched ==
  ASSUME NEW patterns \in SUBSET Storable, NEW t \in Hosts
  PROVE  (\E p \in patterns : HostMatchesPattern(t, p)) <=> MatcherMatches(patterns, t)
<1>1. PICK V : t \in Seq(V)
  BY HostsAreSequences
<1>2. Len(t) \in Nat
  BY <1>1
<1>3. ASSUME NEW first \in 2 .. Len(t) PROVE SuffixFrom(t, first) # NoHost
  <2>1. first \in 1 .. Len(t)
    BY <1>2
  <2>2. Len(SuffixFrom(t, first)) = Len(t) - first + 1
    BY <1>1, <2>1, SuffixOfSuffix
  <2>3. Len(NoHost) = 0
    BY DEF NoHost
  <2> QED BY <1>2, <2>1, <2>2, <2>3
<1>4. t \in Addresses => \A first \in 2 .. Len(t) : SuffixFrom(t, first) \notin patterns
  BY HostsAssumption
<1>5. ASSUME NEW p \in patterns, HostMatchesPattern(t, p) PROVE MatcherMatches(patterns, t)
  <2>1. CASE t = p
    BY <1>5, <2>1 DEF HostMatchesPattern, MatcherMatches
  <2>2. CASE t # p
    <3>1. PICK first \in 2 .. Len(t) : SuffixFrom(t, first) = p
      BY <1>5, <2>2 DEF HostMatchesPattern, EndsWith
    <3> QED BY <1>4, <1>5, <3>1 DEF HostMatchesPattern, MatcherMatches
  <2> QED BY <2>1, <2>2
<1>6. ASSUME MatcherMatches(patterns, t) PROVE \E p \in patterns : HostMatchesPattern(t, p)
  <2>1. CASE t \in patterns
    BY <1>6, <2>1 DEF HostMatchesPattern, MatcherMatches
  <2>2. CASE t \notin patterns
    <3>1. PICK first \in 2 .. Len(t) : SuffixFrom(t, first) \in patterns
      BY <1>6, <2>2 DEF MatcherMatches
    <3> QED BY <1>3, <1>6, <3>1 DEF HostMatchesPattern, EndsWith, MatcherMatches
  <2> QED BY <2>1, <2>2
<1> QED BY <1>5, <1>6

\* Looking a host up in the united patterns of the presets is looking it up in each.
LEMMA PresetsAgree ==
  ASSUME NEW S \in SettingsType, NEW t \in Hosts
  PROVE  SnapshotPresets(Compile(S), t) = EvaluatePresets(S, t)
<1>1. CASE ~S.enabled
  BY <1>1 DEF SnapshotPresets, EvaluatePresets, Compile
<1>2. CASE S.enabled
  <2> DEFINE known == S.presets \intersect PresetIds
             Patterns(d) == UNION { PresetPatterns[id] : id \in { i \in known : PresetDecision[i] = d } }
             decisions == { PresetDecision[id] :
                              id \in { i \in known : MatcherMatches(PresetPatterns[i], t) } }
  <2>1. ASSUME NEW d PROVE d \in decisions <=> MatcherMatches(Patterns(d), t)
    <3>1. ASSUME NEW id \in known, PresetDecision[id] = d, MatcherMatches(PresetPatterns[id], t)
          PROVE  MatcherMatches(Patterns(d), t)
      <4>1. PresetPatterns[id] \subseteq Patterns(d)
        BY <3>1
      <4> QED BY <3>1, <4>1 DEF MatcherMatches
    <3>2. ASSUME MatcherMatches(Patterns(d), t)
          PROVE  \E id \in known : PresetDecision[id] = d /\ MatcherMatches(PresetPatterns[id], t)
      <4>1. PICK p \in Patterns(d) :
              t # NoHost /\ (t = p \/ (t \notin Addresses /\ \E first \in 2 .. Len(t) : SuffixFrom(t, first) = p))
        <5> HIDE DEF Patterns
        <5> QED BY <3>2 DEF MatcherMatches
      <4>2. PICK id \in known : PresetDecision[id] = d /\ p \in PresetPatterns[id]
        OBVIOUS
      <4>3. MatcherMatches(PresetPatterns[id], t)
        BY <4>1, <4>2 DEF MatcherMatches
      <4> QED BY <4>2, <4>3
    <3> QED BY <3>1, <3>2
  <2>2. /\ Compile(S).enabled /\ Compile(S).presetBlock = Patterns("block")
        /\ Compile(S).presetAllow = Patterns("allow")
    BY <1>2 DEF Compile
  <2>3. EvaluatePresets(S, t) =
          IF "block" \in decisions THEN "block" ELSE IF "allow" \in decisions THEN "allow" ELSE "ask"
    BY <1>2 DEF EvaluatePresets
  <2> HIDE DEF Patterns, decisions
  <2> QED BY <2>1, <2>2, <2>3 DEF SnapshotPresets
<1> QED BY <1>1, <1>2

\* The rules for a key.
Matching(S, s, t) == { i \in DOMAIN S.rules : S.rules[i].source = s /\ S.rules[i].target = t }

\* The rule for a key is the one found first, and the one written last: it is the only one.
LEMMA RulesAsWritten ==
  ASSUME NEW S \in SettingsType, Validate(S), S.enabled, NEW s, NEW t
  PROVE  /\ <<s, t>> \in DOMAIN Compile(S).rules <=> Matching(S, s, t) # {}
         /\ Matching(S, s, t) # {} =>
              /\ Min(Matching(S, s, t)) \in Matching(S, s, t)
              /\ Compile(S).rules[<<s, t>>] = S.rules[Min(Matching(S, s, t))].decision
              /\ S.rules[Min(Matching(S, s, t))].decision \in Decisions
<1> DEFINE matching == { i \in DOMAIN S.rules : S.rules[i].source = s /\ S.rules[i].target = t }
           keys == { <<S.rules[i].source, S.rules[i].target>> : i \in DOMAIN S.rules }
           ForKey(key) == { i \in DOMAIN S.rules : <<S.rules[i].source, S.rules[i].target>> = key }
<1>1. Compile(S).rules = [key \in keys |-> S.rules[Max(ForKey(key))].decision]
  BY DEF Compile
<1>2. <<s, t>> \in keys <=> matching # {}
  OBVIOUS
<1>3. ForKey(<<s, t>>) = matching
  OBVIOUS
<1>4. ASSUME NEW i \in matching PROVE matching = {i}
  BY KeysDiffer
<1>5. ASSUME NEW i \in matching PROVE Min(matching) = i /\ Max(matching) = i
  <2>1. matching = {i} /\ i \in Nat
    BY <1>4 DEF SettingsType
  <2> QED BY <2>1 DEF Min, Max
<1>6. ASSUME NEW i \in matching PROVE S.rules[i].decision \in Decisions
  <2>1. S.rules \in Seq(RuleType) /\ i \in DOMAIN S.rules
    BY DEF SettingsType
  <2>2. S.rules[i] \in RuleType
    BY <2>1
  <2> QED BY <2>2 DEF RuleType
<1> HIDE DEF matching, keys, ForKey
<1>7. <<s, t>> \in DOMAIN Compile(S).rules <=> matching # {}
  BY <1>1, <1>2
<1>8. ASSUME NEW i \in matching
      PROVE  /\ Min(matching) \in matching
             /\ Compile(S).rules[<<s, t>>] = S.rules[Min(matching)].decision
             /\ S.rules[Min(matching)].decision \in Decisions
  <2>1. <<s, t>> \in keys
    BY <1>2
  <2>2. Compile(S).rules[<<s, t>>] = S.rules[Max(matching)].decision
    BY <1>1, <1>3, <2>1
  <2> QED BY <1>5, <1>6, <2>2
<1>9. Matching(S, s, t) = matching
  BY DEF Matching, matching
<1> QED BY <1>7, <1>8, <1>9

\* The compiled policy answers as the settings do, and what it asks about the router asks about too.
LEMMA CompiledAgrees ==
  ASSUME NEW S \in SettingsType, Validate(S), NEW request \in Request
  PROVE  /\ SnapshotEvaluate(Compile(S), request) = EvaluateRequest(S, request)
         /\ SnapshotEvaluate(Compile(S), request) = "ask" =>
              EvaluateKey(S, Site(request.source), request.target) = "ask"
<1>1. PICK s \in Hosts \union {NoHost}, t \in Hosts \union {NoHost} : s = request.source /\ t = request.target
  BY DEF Request
<1>2. PICK C : C = Compile(S)
  OBVIOUS
<1>3. CASE ~S.enabled
  <2>1. ~C.enabled
    BY <1>2, <1>3 DEF Compile
  <2>2. SnapshotEvaluate(C, request) = "allow" /\ EvaluateRequest(S, request) = "allow"
    BY <1>3, <2>1 DEF SnapshotEvaluate, SnapshotUser, EvaluateRequest
  <2> QED BY <1>2, <2>2
<1>4. CASE S.enabled
  <2>1. C.enabled /\ C.block = S.block /\ C.allow = S.allow
    BY <1>2, <1>4 DEF Compile
  <2>2. Site(s) \in Hosts \union {NoHost} /\ Site(Site(s)) = Site(s) /\ (Site(t) = NoHost <=> t = NoHost)
    BY Sites
  <2>3. CASE ~request.targetIsWeb
    <3>1. SnapshotEvaluate(C, request) = "allow" /\ EvaluateRequest(S, request) = "allow"
      BY <2>3 DEF SnapshotEvaluate, SnapshotUser, EvaluateRequest
    <3> QED BY <1>2, <3>1
  <2>4. CASE request.targetIsWeb /\ (~request.sourceIsWeb \/ Site(s) = NoHost)
    <3>1. SnapshotEvaluate(C, request) = "block" /\ EvaluateRequest(S, request) = "block"
      BY <1>1, <1>4, <2>1, <2>4 DEF SnapshotEvaluate, SnapshotUser, EvaluateRequest
    <3> QED BY <1>2, <3>1
  <2>5. CASE /\ request.targetIsWeb /\ ~(~request.sourceIsWeb \/ Site(s) = NoHost)
             /\ t = NoHost \/ Site(s) = Site(t)
    <3>1. SnapshotEvaluate(C, request) = "allow" /\ EvaluateRequest(S, request) = "allow"
      BY <1>1, <1>4, <2>1, <2>2, <2>5 DEF SnapshotEvaluate, SnapshotUser, EvaluateRequest
    <3> QED BY <1>2, <3>1
  <2>6. CASE /\ request.targetIsWeb /\ ~(~request.sourceIsWeb \/ Site(s) = NoHost)
             /\ ~(t = NoHost \/ Site(s) = Site(t))
    <3> DEFINE matching == Matching(S, Site(s), t)
               Listed(patterns) == \E p \in patterns : HostMatchesPattern(t, p)
               user == IF Listed(S.block) THEN "block"
                       ELSE IF matching # {} THEN S.rules[Min(matching)].decision
                       ELSE IF Listed(S.allow) THEN "allow" ELSE "ask"
    <3>1. t \in Hosts
      BY <2>6
    <3>2. EvaluateUserKey(S, Site(s), t) = user
      BY <1>4, <2>2, <2>6 DEF EvaluateUserKey, Matching
    <3>3. /\ <<Site(s), t>> \in DOMAIN C.rules <=> matching # {}
          /\ matching # {} => C.rules[<<Site(s), t>>] = S.rules[Min(matching)].decision
      BY <1>2, <1>4, RulesAsWritten
    <3>4. S.block \in SUBSET Storable /\ S.allow \in SUBSET Storable
      BY DEF SettingsType
    <3>5. (Listed(S.block) <=> MatcherMatches(S.block, t)) /\ (Listed(S.allow) <=> MatcherMatches(S.allow, t))
      BY <3>1, <3>4, PatternsMatched
    <3>6. SnapshotUser(C, request) =
            IF MatcherMatches(S.block, t) THEN "block"
            ELSE IF <<Site(s), t>> \in DOMAIN C.rules THEN C.rules[<<Site(s), t>>]
            ELSE IF MatcherMatches(S.allow, t) THEN "allow" ELSE "ask"
      BY <1>1, <2>1, <2>6 DEF SnapshotUser
    <3> HIDE DEF matching, Listed
    <3>7. SnapshotUser(C, request) = user
      BY <3>3, <3>5, <3>6
    <3>8. EvaluateRequest(S, request) = IF user # "ask" THEN user ELSE EvaluatePresets(S, t)
      <4>1. Site(t) # NoHost
        BY <2>2, <2>6
      <4> HIDE DEF user
      <4> QED BY <1>1, <1>4, <2>6, <3>2, <4>1 DEF EvaluateRequest
    <3>9. EvaluateKey(S, Site(s), t) = IF user # "ask" THEN user ELSE EvaluatePresets(S, t)
      <4> HIDE DEF user
      <4> QED BY <3>2 DEF EvaluateKey
    <3>10. SnapshotPresets(C, t) = EvaluatePresets(S, t)
      BY <1>2, <3>1, PresetsAgree
    <3> HIDE DEF user
    <3>11. SnapshotEvaluate(C, request) = IF user # "ask" THEN user ELSE EvaluatePresets(S, t)
      BY <1>1, <3>7, <3>10 DEF SnapshotEvaluate
    <3> QED BY <1>1, <1>2, <3>8, <3>9, <3>11
  <2> QED BY <2>3, <2>4, <2>5, <2>6
<1> QED BY <1>3, <1>4

\* Two suffixes of a host are suffixes of each other, so patterns that do not overlap do not both match.
LEMMA GlobalsApart ==
  ASSUME NEW S \in SettingsType, Validate(S), NEW h \in Hosts,
         MatcherMatches(S.allow, h), MatcherMatches(S.block, h)
  PROVE  FALSE
<1>1. PICK V : h \in Seq(V)
  BY HostsAreSequences
<1>2. Len(h) \in Nat /\ h # NoHost /\ SuffixFrom(h, 1) = h
  BY <1>1 DEF MatcherMatches, SuffixFrom
<1>3. Len(h) >= 1
  BY <1>1, <1>2, EmptySeq DEF NoHost
<1>4. PICK a \in 1 .. Len(h) : SuffixFrom(h, a) \in S.allow
  BY <1>2, <1>3 DEF MatcherMatches
<1>5. PICK b \in 1 .. Len(h) : SuffixFrom(h, b) \in S.block
  BY <1>2, <1>3 DEF MatcherMatches
<1>6. ASSUME NEW m \in 1 .. Len(h), NEW n \in 1 .. Len(h), m <= n
      PROVE  HostMatchesPattern(SuffixFrom(h, m), SuffixFrom(h, n))
  <2>1. SuffixFrom(h, m) # NoHost /\ SuffixFrom(h, n) # NoHost
    <3>1. Len(SuffixFrom(h, m)) = Len(h) - m + 1 /\ Len(SuffixFrom(h, n)) = Len(h) - n + 1
      BY <1>1, SuffixOfSuffix
    <3>2. Len(NoHost) = 0
      BY DEF NoHost
    <3> QED BY <1>2, <3>1, <3>2
  <2>2. CASE m = n
    BY <2>1, <2>2 DEF HostMatchesPattern
  <2>3. CASE m # n
    <3>1. PICK g \in Seq(V) : g = SuffixFrom(h, m)
      BY <1>1, SuffixOfSuffix
    <3>2. Len(g) = Len(h) - m + 1 /\ \A i \in 1 .. Len(g) : SuffixFrom(g, i) = SuffixFrom(h, m + i - 1)
      BY <1>1, <3>1, SuffixOfSuffix
    <3>3. n - m + 1 \in 2 .. Len(g) /\ n - m + 1 \in 1 .. Len(g) /\ m + (n - m + 1) - 1 = n
      <4>1. m \in Nat /\ n \in Nat /\ m >= 1 /\ m < n /\ n <= Len(h)
        BY <1>2, <1>6, <2>3
      <4>2. PICK l \in Nat : l = Len(h)
        BY <1>2
      <4>3. Len(g) = l - m + 1
        BY <3>2, <4>2
      <4>4. PICK k \in Int : k = n - m + 1
        BY <4>1
      <4>5. k >= 2 /\ k <= l - m + 1 /\ m + k - 1 = n
        BY <4>1, <4>2, <4>4
      <4>6. k \in 2 .. Len(g) /\ k \in 1 .. Len(g)
        BY <4>1, <4>2, <4>3, <4>5
      <4> QED BY <4>4, <4>5, <4>6
    <3>4. SuffixFrom(g, n - m + 1) = SuffixFrom(h, n)
      BY <3>2, <3>3
    <3> QED BY <2>1, <3>1, <3>3, <3>4 DEF HostMatchesPattern, EndsWith
  <2> QED BY <2>2, <2>3
<1>7. PatternsOverlap(SuffixFrom(h, b), SuffixFrom(h, a))
  <2>1. a <= b \/ b <= a
    OBVIOUS
  <2> QED BY <1>6, <2>1 DEF PatternsOverlap
<1> QED BY <1>4, <1>5, <1>7 DEF Validate, ValidGlobals

----------------------------------------------------------------------------
(***************************************************************************)
(* The policy in force is compiled from the settings, and these validate.  *)
(***************************************************************************)
PolicyInForce == settings \in SettingsType /\ Validate(settings) /\ policy = Compile(settings)

\* Every edit of the page leaves the policy compiled from settings that validate.
LEMMA EditsTyped ==
  ASSUME settings \in SettingsType, EditSettings
  PROVE  PolicyInForce'
<1>1. ASSUME NEW updated \in SettingsType, SetCrossDomainSettings(updated) PROVE PolicyInForce'
  BY <1>1 DEF SetCrossDomainSettings, PolicyInForce
<1>2. settings.rules \in Seq(RuleType)
  BY DEF SettingsType
<1>3. CASE SetCrossDomainSettings([settings EXCEPT !.enabled = ~ @])
  <2>1. [settings EXCEPT !.enabled = ~ @] \in SettingsType
    BY DEF SettingsType
  <2> QED BY <1>1, <1>3, <2>1
<1>4. ASSUME NEW p \in Storable,
             \/ SetCrossDomainSettings([settings EXCEPT !.allow = @ \union {p}])
             \/ SetCrossDomainSettings([settings EXCEPT !.allow = @ \ {p}])
             \/ SetCrossDomainSettings([settings EXCEPT !.block = @ \union {p}])
             \/ SetCrossDomainSettings([settings EXCEPT !.block = @ \ {p}])
      PROVE  PolicyInForce'
  <2>1. /\ [settings EXCEPT !.allow = @ \union {p}] \in SettingsType
        /\ [settings EXCEPT !.allow = @ \ {p}] \in SettingsType
        /\ [settings EXCEPT !.block = @ \union {p}] \in SettingsType
        /\ [settings EXCEPT !.block = @ \ {p}] \in SettingsType
    BY DEF SettingsType
  <2> QED BY <1>1, <1>4, <2>1
<1>5. ASSUME NEW ids \in SUBSET PresetIds, SetCrossDomainSettings([settings EXCEPT !.presets = ids])
      PROVE  PolicyInForce'
  <2>1. [settings EXCEPT !.presets = ids] \in SettingsType
    BY DEF SettingsType
  <2> QED BY <1>1, <1>5, <2>1
<1>6. ASSUME NEW s \in Hosts, NEW t \in Hosts, NEW d \in Decisions,
             SetCrossDomainSettings(
               SetRules(settings, Append(settings.rules, [source |-> s, target |-> t, decision |-> d])))
      PROVE  PolicyInForce'
  <2>1. [source |-> s, target |-> t, decision |-> d] \in RuleType
    BY DEF RuleType
  <2>2. Append(settings.rules, [source |-> s, target |-> t, decision |-> d]) \in Seq(RuleType)
    BY <1>2, <2>1
  <2>3. SetRules(settings, Append(settings.rules, [source |-> s, target |-> t, decision |-> d])) \in SettingsType
    BY <2>2, SetRulesTyped
  <2> QED BY <1>1, <1>6, <2>3
<1>7. CASE SetCrossDomainSettings([settings EXCEPT !.rules = << >>])
  <2>1. << >> \in Seq(RuleType)
    OBVIOUS
  <2>2. [settings EXCEPT !.rules = << >>] \in SettingsType
    BY <2>1 DEF SettingsType
  <2> QED BY <1>1, <1>7, <2>2
<1> QED BY <1>3, <1>4, <1>5, <1>6, <1>7, Zenon DEF EditSettings

\* That holds in every state reached.
LEMMA InForceHolds == Spec => []PolicyInForce
<1>1. Init => PolicyInForce
  <2> SUFFICES ASSUME Init PROVE PolicyInForce
    OBVIOUS
  <2>1. settings = Defaults /\ policy = Compile(Defaults)
    BY DEF Init, PolicyInit
  <2>2. << >> \in Seq(RuleType)
    OBVIOUS
  <2>3. Defaults \in SettingsType
    BY <2>2 DEF Defaults, SettingsType
  <2>4. Defaults.block = {} /\ Defaults.rules = << >>
    BY DEF Defaults
  <2>5. ValidGlobals(Defaults)
    BY <2>4 DEF ValidGlobals
  <2>6. ValidRules(Defaults)
    <3>1. Len(Defaults.rules) = 0 /\ DOMAIN Defaults.rules = {}
      BY <2>4
    <3>2. 0 <= MaxRules
      BY SettingsAssumption
    <3> QED BY <3>1, <3>2 DEF ValidRules
  <2> QED BY <2>1, <2>3, <2>5, <2>6 DEF PolicyInForce, Validate
<1>2. PolicyInForce /\ [Next]_vars => PolicyInForce'
  <2> SUFFICES ASSUME PolicyInForce, [Next]_vars PROVE PolicyInForce'
    OBVIOUS
  <2>1. settings \in SettingsType
    BY DEF PolicyInForce
  <2>2. CASE UNCHANGED policyVars
    BY <2>2 DEF PolicyInForce, policyVars
  <2>3. CASE EditSettings
    BY <2>1, <2>3, EditsTyped
  <2>4. ASSUME NEW source \in Hosts, NEW target \in Hosts, NEW d \in Decisions,
               PersistDecision(source, target, d)
        PROVE  PolicyInForce'
    <3>1. Site(source) \in Hosts \union {NoHost}
      BY Sites
    <3>2. SetRule(settings, Site(source), target, d) \in SettingsType
      BY <2>1, <3>1, SetRuleTyped
    <3> QED BY <2>4, <3>2 DEF PersistDecision, PolicyInForce
  <2>5. PolicyNext \/ UNCHANGED policyVars
    BY DEF Next, vars
  <2> QED BY <2>2, <2>3, <2>4, <2>5 DEF PolicyNext
<1> QED BY <1>1, <1>2, PTL DEF Spec

(***************************************************************************)
(* The router and the interceptor answer alike for every request, and no   *)
(* host is both allowed and blocked everywhere: in every state reached,    *)
(* whatever the hosts, the suffix rules, the presets and the limit.        *)
(***************************************************************************)
THEOREM PolicyFollowsSettings == Spec => []PolicyAgrees
<1>1. PolicyInForce => PolicyAgrees
  <2> SUFFICES ASSUME PolicyInForce PROVE RouterAgreesWithInterceptor /\ NoContradictoryGlobals
    BY DEF PolicyAgrees
  <2>1. settings \in SettingsType /\ Validate(settings) /\ policy = Compile(settings)
    BY DEF PolicyInForce
  <2>2. RouterAgreesWithInterceptor
    <3>1. ASSUME NEW request \in Request
          PROVE  /\ SnapshotEvaluate(policy, request) = EvaluateRequest(settings, request)
                 /\ SnapshotEvaluate(policy, request) = "ask"
                      => EvaluateKey(settings, Site(request.source), request.target) = "ask"
      BY <2>1, CompiledAgrees
    <3> QED BY <3>1, Zenon DEF RouterAgreesWithInterceptor
  <2>3. NoContradictoryGlobals
    BY <2>1, GlobalsApart DEF NoContradictoryGlobals
  <2> QED BY <2>2, <2>3
<1> QED BY <1>1, InForceHolds, PTL

----------------------------------------------------------------------------
(***************************************************************************)
(* What a stored policy says of a host to a site: the global block, then   *)
(* the first rule of the key, then the global allow.                       *)
(***************************************************************************)
UserDecision(S, site, t) ==
  IF \E p \in S.block : HostMatchesPattern(t, p) THEN "block"
  ELSE IF Matching(S, site, t) # {} THEN S.rules[Min(Matching(S, site, t))].decision
  ELSE IF \E p \in S.allow : HostMatchesPattern(t, p) THEN "allow" ELSE "ask"

\* EvaluateRequest of two web hosts, with the key's lookup named.
LEMMA Evaluated ==
  ASSUME NEW S, NEW s \in Hosts, NEW t \in Hosts
  PROVE  EvaluateRequest(S, WebRequest(s, t)) =
           IF ~S.enabled THEN "allow"
           ELSE IF Site(s) = NoHost THEN "block"
           ELSE IF Site(t) = NoHost \/ Site(s) = Site(t) THEN "allow"
           ELSE IF UserDecision(S, Site(s), t) # "ask" THEN UserDecision(S, Site(s), t)
           ELSE EvaluatePresets(S, t)
<1>1. Site(Site(s)) = Site(s) /\ (Site(t) = NoHost <=> t = NoHost)
  BY Sites
<1>2. PICK r : r = WebRequest(s, t)
  OBVIOUS
<1>3. r.sourceIsWeb /\ r.targetIsWeb /\ r.source = s /\ r.target = t
  BY <1>2 DEF WebRequest
<1>4. CASE ~S.enabled
  BY <1>2, <1>4 DEF EvaluateRequest
<1>5. CASE S.enabled /\ Site(s) = NoHost
  BY <1>2, <1>3, <1>5 DEF EvaluateRequest
<1>6. CASE S.enabled /\ Site(s) # NoHost /\ (Site(t) = NoHost \/ Site(s) = Site(t))
  BY <1>2, <1>3, <1>6 DEF EvaluateRequest
<1>7. CASE S.enabled /\ Site(s) # NoHost /\ ~(Site(t) = NoHost \/ Site(s) = Site(t))
  <2>1. EvaluateUserKey(S, Site(s), t) = UserDecision(S, Site(s), t)
    BY <1>1, <1>7 DEF EvaluateUserKey, UserDecision, Matching
  <2> QED BY <1>2, <1>3, <1>7, <2>1 DEF EvaluateRequest
<1> QED BY <1>4, <1>5, <1>6, <1>7

\* A rule that normalizes to something has the hosts it is written with, and its source is a site.
LEMMA KeyNormalized ==
  ASSUME NEW s \in Hosts, NEW t \in Hosts, NEW d, NEW rule,
         rule = NormalizedRule([source |-> Site(s), target |-> t, decision |-> d]),
         rule.source # NoHost, rule.target # NoHost
  PROVE  rule.source = Site(s) /\ rule.target = t /\ rule.decision = d
<1>1. /\ rule.source = Site(NormalizeHostPattern(Site(s)))
      /\ rule.target = NormalizeHostPattern(t) /\ rule.decision = d
  BY DEF NormalizedRule
<1>2. Site(Site(s)) = Site(s) /\ Site(NoHost) = NoHost
  BY Sites
<1> QED BY <1>1, <1>2 DEF NormalizeHostPattern

\* The rules of settings that validate are for some site and host.
LEMMA RulesNamed ==
  ASSUME NEW S \in SettingsType, Validate(S), NEW i \in DOMAIN S.rules
  PROVE  S.rules[i].source # NoHost /\ S.rules[i].target # NoHost
<1>1. NormalizedRule(S.rules[i]).source # NoHost /\ NormalizedRule(S.rules[i]).target # NoHost
  BY Zenon DEF Validate, ValidRules
<1>2. /\ Site(NormalizeHostPattern(S.rules[i].source)) # NoHost
      /\ NormalizeHostPattern(S.rules[i].target) # NoHost
  BY <1>1 DEF NormalizedRule
<1>3. Site(NoHost) = NoHost
  BY Sites
<1> QED BY <1>2, <1>3 DEF NormalizeHostPattern

\* A question that was asked is about a host no rule of the site names, and no global block covers.
LEMMA AskedIsOpen ==
  ASSUME NEW S \in SettingsType, Validate(S), NEW source \in Hosts, NEW target \in Hosts,
         SnapshotEvaluate(Compile(S), WebRequest(source, target)) = "ask"
  PROVE  /\ S.enabled /\ Site(source) # NoHost /\ Site(target) # NoHost /\ Site(source) # Site(target)
         /\ ~\E p \in S.block : HostMatchesPattern(target, p)
         /\ Matching(S, Site(source), target) = {}
<1>1. WebRequest(source, target) \in Request
  BY DEF WebRequest, Request
<1>2. EvaluateRequest(S, WebRequest(source, target)) = "ask"
  BY <1>1, CompiledAgrees
<1>3. /\ S.enabled /\ Site(source) # NoHost /\ Site(target) # NoHost /\ Site(source) # Site(target)
      /\ UserDecision(S, Site(source), target) = "ask"
  BY <1>2, Evaluated
<1>4. ASSUME Matching(S, Site(source), target) # {}
      PROVE  S.rules[Min(Matching(S, Site(source), target))].decision # "ask"
  <2>1. S.rules[Min(Matching(S, Site(source), target))].decision \in Decisions
    BY <1>3, <1>4, RulesAsWritten
  <2> QED BY <2>1 DEF Decisions
<1> QED BY <1>3, <1>4 DEF UserDecision

\* The answer becomes a rule behind the others: that of its site and host.
LEMMA AnswerAppended ==
  ASSUME NEW S \in SettingsType, Validate(S), NEW source \in Hosts, NEW target \in Hosts, NEW d \in Decisions,
         Matching(S, Site(source), target) = {},
         NEW updated, updated = SetRule(S, Site(source), target, d), Validate(updated)
  PROVE  \E rule : /\ rule.source = Site(source) /\ rule.target = target /\ rule.decision = d
                   /\ updated = [S EXCEPT !.rules = Append(S.rules, rule)]
<1>1. PICK rule : rule = NormalizedRule([source |-> Site(source), target |-> target, decision |-> d])
  OBVIOUS
<1>2. PICK same : same = { i \in DOMAIN S.rules : SameKey(S.rules[i], rule) }
  OBVIOUS
<1>3. S.rules \in Seq(RuleType)
  BY DEF SettingsType
<1>4. updated =
        IF same # {} THEN [S EXCEPT !.rules[Min(same)].decision = d] ELSE [S EXCEPT !.rules = Append(@, rule)]
  BY <1>1, <1>2 DEF SetRule
<1>5. ASSUME NEW i \in same PROVE FALSE
  <2>1. i \in DOMAIN S.rules /\ S.rules[i].source = rule.source /\ S.rules[i].target = rule.target
    BY <1>2 DEF SameKey
  <2>2. rule.source # NoHost /\ rule.target # NoHost
    BY <2>1, RulesNamed
  <2>3. rule.source = Site(source) /\ rule.target = target
    BY <1>1, <2>2, KeyNormalized
  <2> QED BY <2>1, <2>3 DEF Matching
<1>6. updated = [S EXCEPT !.rules = Append(S.rules, rule)]
  BY <1>4, <1>5
<1>7. rule \in RuleType
  <2>1. Site(source) \in Hosts \union {NoHost}
    BY Sites
  <2>2. [source |-> Site(source), target |-> target, decision |-> d] \in RuleType
    BY <2>1 DEF RuleType
  <2> QED BY <1>1, <2>2, NormalizedTyped
<1>8. rule.source # NoHost /\ rule.target # NoHost
  <2>1. updated.rules = Append(S.rules, rule) /\ updated \in SettingsType
    <3>1. Append(S.rules, rule) \in Seq(RuleType)
      BY <1>3, <1>7
    <3> QED BY <1>6, <3>1 DEF SettingsType
  <2>2. PICK last : last = Len(S.rules) + 1
    OBVIOUS
  <2>3. last \in DOMAIN updated.rules /\ updated.rules[last] = rule
    BY <1>3, <1>7, <2>1, <2>2
  <2> QED BY <2>1, <2>3, RulesNamed
<1>9. rule.source = Site(source) /\ rule.target = target /\ rule.decision = d
  BY <1>1, <1>8, KeyNormalized
<1> QED BY <1>6, <1>9

\* Of the keys only that of the new rule has another rule than before.
RuleOnlyFor(S, updated, rule, site, t) ==
  /\ site = rule.source /\ t = rule.target =>
       /\ Matching(updated, site, t) # {}
       /\ updated.rules[Min(Matching(updated, site, t))] = rule
  /\ ~(site = rule.source /\ t = rule.target) =>
       /\ Matching(updated, site, t) = Matching(S, site, t)
       /\ Matching(S, site, t) # {} =>
            updated.rules[Min(Matching(S, site, t))] = S.rules[Min(Matching(S, site, t))]

\* A rule for a key that had none, behind the others, is found for that key only.
LEMMA RuleFound ==
  ASSUME NEW S \in SettingsType, NEW site, NEW t, NEW rule, NEW updated,
         updated = [S EXCEPT !.rules = Append(S.rules, rule)],
         Matching(S, rule.source, rule.target) = {}
  PROVE  /\ updated.enabled = S.enabled /\ updated.block = S.block /\ updated.allow = S.allow
         /\ updated.presets = S.presets
         /\ RuleOnlyFor(S, updated, rule, site, t)
<1>1. /\ updated.enabled = S.enabled /\ updated.block = S.block /\ updated.allow = S.allow
      /\ updated.presets = S.presets /\ updated.rules = Append(S.rules, rule)
  BY DEF SettingsType
<1>2. PICK n \in Nat : n = Len(S.rules)
  BY DEF SettingsType
<1>3. /\ DOMAIN S.rules = 1 .. n /\ DOMAIN updated.rules = 1 .. (n + 1)
      /\ updated.rules[n + 1] = rule /\ \A i \in 1 .. n : updated.rules[i] = S.rules[i]
  <2>1. S.rules \in Seq(RuleType)
    BY DEF SettingsType
  <2>2. PICK V : V = RuleType \union {rule}
    OBVIOUS
  <2>3. S.rules \in Seq(V) /\ rule \in V
    BY <2>1, <2>2
  <2> QED BY <1>1, <1>2, <2>3
<1>4. ASSUME site = rule.source, t = rule.target
      PROVE  /\ Matching(updated, site, t) # {}
             /\ updated.rules[Min(Matching(updated, site, t))] = rule
  <2>1. ASSUME NEW i PROVE i \in Matching(updated, site, t) <=> i = n + 1
    <3>1. i \in 1 .. (n + 1) <=> i \in 1 .. n \/ i = n + 1
      BY <1>2
    <3>2. i \in 1 .. n => i \notin Matching(updated, site, t)
      BY <1>3, <1>4 DEF Matching
    <3>3. i = n + 1 => i \in Matching(updated, site, t)
      BY <1>3, <1>4, <3>1 DEF Matching
    <3>4. i \in Matching(updated, site, t) => i \in 1 .. (n + 1)
      BY <1>3 DEF Matching
    <3> QED BY <3>1, <3>2, <3>3, <3>4
  <2>2. Matching(updated, site, t) = {n + 1}
    BY <2>1
  <2>3. Min({n + 1}) = n + 1
    BY <1>2 DEF Min
  <2> QED BY <1>3, <2>2, <2>3
<1>5. ASSUME ~(site = rule.source /\ t = rule.target)
      PROVE  /\ Matching(updated, site, t) = Matching(S, site, t)
             /\ Matching(S, site, t) # {} =>
                  updated.rules[Min(Matching(S, site, t))] = S.rules[Min(Matching(S, site, t))]
  <2>1. ASSUME NEW i PROVE i \in Matching(updated, site, t) <=> i \in Matching(S, site, t)
    <3>1. i \in 1 .. (n + 1) <=> i \in 1 .. n \/ i = n + 1
      BY <1>2
    <3>2. i \in 1 .. n => (i \in Matching(updated, site, t) <=> i \in Matching(S, site, t))
      BY <1>3, <3>1 DEF Matching
    <3>3. n + 1 \notin Matching(updated, site, t)
      BY <1>3, <1>5 DEF Matching
    <3>4. /\ i \in Matching(updated, site, t) => i \in 1 .. (n + 1)
          /\ i \in Matching(S, site, t) => i \in 1 .. n
      BY <1>3 DEF Matching
    <3> QED BY <3>1, <3>2, <3>3, <3>4
  <2>2. ASSUME Matching(S, site, t) # {}
        PROVE  updated.rules[Min(Matching(S, site, t))] = S.rules[Min(Matching(S, site, t))]
    <3>1. Matching(S, site, t) \subseteq 1 .. n
      BY <1>3 DEF Matching
    <3>2. Matching(S, site, t) \subseteq Nat
      BY <3>1
    <3>3. Min(Matching(S, site, t)) \in Matching(S, site, t)
      BY <2>2, <3>2, LeastNumber DEF Min
    <3> QED BY <1>3, <3>1, <3>3
  <2> QED BY <2>1, <2>2
<1> QED BY <1>1, <1>4, <1>5, Zenon DEF RuleOnlyFor

(***************************************************************************)
(* Answering a prompt with "always" settles its site and host as answered, *)
(* and no other pair (BrowserProfile::resolveCrossDomainRequest).          *)
(***************************************************************************)
THEOREM AnswerSettlesOnlyItsKey == Spec => DecisionSettlesOnlyItsKey
<1>1. ASSUME PolicyInForce, NEW source \in Hosts, NEW target \in Hosts, NEW d \in Decisions,
             PersistDecision(source, target, d), NEW s \in Hosts, NEW t \in Hosts
      PROVE  EvaluateRequest(settings', WebRequest(s, t)) =
               IF Site(s) = Site(source) /\ t = target
               THEN d
               ELSE EvaluateRequest(settings, WebRequest(s, t))
  <2>1. PICK S : S = settings
    OBVIOUS
  <2>2. PICK updated : updated = settings'
    OBVIOUS
  <2>3. /\ S \in SettingsType /\ Validate(S)
        /\ SnapshotEvaluate(Compile(S), WebRequest(source, target)) = "ask"
        /\ updated = SetRule(S, Site(source), target, d) /\ Validate(updated)
    BY <1>1, <2>1, <2>2 DEF PolicyInForce, PersistDecision, Asked
  <2>4. /\ S.enabled /\ Site(source) # NoHost /\ Site(target) # NoHost /\ Site(source) # Site(target)
        /\ ~\E p \in S.block : HostMatchesPattern(target, p)
        /\ Matching(S, Site(source), target) = {}
    BY <2>3, AskedIsOpen
  <2>5. PICK rule : /\ rule.source = Site(source) /\ rule.target = target /\ rule.decision = d
                    /\ updated = [S EXCEPT !.rules = Append(S.rules, rule)]
    BY <2>3, <2>4, AnswerAppended
  <2>6. Matching(S, rule.source, rule.target) = {}
    BY <2>4, <2>5
  <2>7. /\ updated.enabled = S.enabled /\ updated.block = S.block /\ updated.allow = S.allow
        /\ updated.presets = S.presets
    BY <2>3, <2>5, <2>6, RuleFound
  <2>8. RuleOnlyFor(S, updated, rule, Site(s), t)
    BY <2>3, <2>5, <2>6, RuleFound
  <2>9. CASE Site(s) = Site(source) /\ t = target
    <3>1. /\ Matching(updated, Site(s), t) # {}
          /\ updated.rules[Min(Matching(updated, Site(s), t))] = rule
      BY <2>5, <2>9, <2>8 DEF RuleOnlyFor
    <3>2. UserDecision(updated, Site(s), t) = d
      BY <2>4, <2>5, <2>7, <2>9, <3>1 DEF UserDecision
    <3>3. d # "ask"
      BY DEF Decisions
    <3>4. EvaluateRequest(updated, WebRequest(s, t)) = d
      <4>1. EvaluateRequest(updated, WebRequest(s, t)) =
              IF ~updated.enabled THEN "allow"
              ELSE IF Site(s) = NoHost THEN "block"
              ELSE IF Site(t) = NoHost \/ Site(s) = Site(t) THEN "allow"
              ELSE IF UserDecision(updated, Site(s), t) # "ask" THEN UserDecision(updated, Site(s), t)
              ELSE EvaluatePresets(updated, t)
        BY Evaluated, Zenon
      <4> QED BY <2>4, <2>7, <2>9, <3>2, <3>3, <4>1
    <3> QED BY <2>2, <2>9, <3>4
  <2>10. CASE ~(Site(s) = Site(source) /\ t = target)
    <3>1. /\ Matching(updated, Site(s), t) = Matching(S, Site(s), t)
          /\ Matching(S, Site(s), t) # {} =>
               updated.rules[Min(Matching(S, Site(s), t))] = S.rules[Min(Matching(S, Site(s), t))]
      BY <2>5, <2>10, <2>8 DEF RuleOnlyFor
    <3>2. UserDecision(updated, Site(s), t) = UserDecision(S, Site(s), t)
      BY <2>7, <3>1 DEF UserDecision
    <3>3. EvaluatePresets(updated, t) = EvaluatePresets(S, t)
      BY <2>7 DEF EvaluatePresets
    <3>4. EvaluateRequest(updated, WebRequest(s, t)) = EvaluateRequest(S, WebRequest(s, t))
      BY <2>7, <3>2, <3>3, Evaluated
    <3> QED BY <2>1, <2>2, <2>10, <3>4
  <2> QED BY <2>9, <2>10
<1>2. ASSUME PolicyInForce
      PROVE  settings' # settings =>
               \A source, target \in Hosts, d \in Decisions :
                 PersistDecision(source, target, d) =>
                   \A s, t \in Hosts :
                     EvaluateRequest(settings, WebRequest(s, t))' =
                       IF Site(s) = Site(source) /\ t = target
                       THEN d
                       ELSE EvaluateRequest(settings, WebRequest(s, t))
  BY <1>1, <1>2
<1> QED BY <1>2, InForceHolds, PTL DEF DecisionSettlesOnlyItsKey

----------------------------------------------------------------------------
(***************************************************************************)
(* The trust rules: those that are enabled, and their domains.             *)
(***************************************************************************)
\* The enabled rules of a file are its rules that are enabled, in their order.
EnabledAt(rules) == { i \in DOMAIN rules : rules[i].enabled }

LEMMA EnabledRules ==
  ASSUME NEW R, NEW rules \in Seq(R)
  PROVE  /\ EnabledAt(rules) \in SUBSET (1 .. Len(rules)) /\ Len(rules) \in Nat
         /\ Cardinality(EnabledAt(rules)) \in Nat
         /\ Enabled(rules) \in Seq(R) /\ DOMAIN Enabled(rules) = 1 .. Cardinality(EnabledAt(rules))
         /\ Len(Enabled(rules)) = Cardinality(EnabledAt(rules))
         /\ \A n \in DOMAIN Enabled(rules) :
              /\ PlaceOf(EnabledAt(rules), n) \in EnabledAt(rules)
              /\ Enabled(rules)[n] = rules[PlaceOf(EnabledAt(rules), n)]
         /\ \A i \in EnabledAt(rules) :
              /\ Rank(EnabledAt(rules), i) \in DOMAIN Enabled(rules)
              /\ PlaceOf(EnabledAt(rules), Rank(EnabledAt(rules), i)) = i
         /\ \A n, l \in DOMAIN Enabled(rules) :
              n < l => PlaceOf(EnabledAt(rules), n) < PlaceOf(EnabledAt(rules), l)
<1>1. PICK kept : kept = EnabledAt(rules)
  OBVIOUS
<1>2. kept \in SUBSET (1 .. Len(rules)) /\ Len(rules) \in Nat
  BY <1>1 DEF EnabledAt
<1>3. Enabled(rules) = ElementsAt(rules, kept)
  BY <1>1 DEF Enabled, ElementsWith, EnabledAt
<1> QED BY <1>1, <1>2, <1>3, ElementsHave

\* A suffix, label by label.
LEMMA SuffixByLabels ==
  ASSUME NEW s \in Seq(STRING), NEW t \in Seq(STRING)
  PROVE  IsSuffix(s, t) <=>
           /\ Len(s) <= Len(t)
           /\ \A i \in 1 .. Len(s) : s[i] = t[Len(t) - Len(s) + i]
<1>1. PICK m \in Nat : m = Len(s)
  OBVIOUS
<1>2. PICK n \in Nat : n = Len(t)
  OBVIOUS
<1>3. PICK r : r = Reverse(s)
  OBVIOUS
<1>4. PICK q : q = Reverse(t)
  OBVIOUS
<1>5. r \in Seq(STRING) /\ Len(r) = m /\ \A i \in 1 .. m : r[i] = s[m - i + 1]
  <2>1. r = [i \in 1 .. m |-> s[(m - i) + 1]]
    BY <1>1, <1>3 DEF Reverse
  <2>2. \A i \in 1 .. m : s[(m - i) + 1] \in STRING
    BY <1>1
  <2>3. r \in [1 .. m -> STRING]
    BY <2>1, <2>2
  <2> QED BY <2>1, <2>3
<1>6. q \in Seq(STRING) /\ Len(q) = n /\ \A i \in 1 .. n : q[i] = t[n - i + 1]
  <2>1. q = [i \in 1 .. n |-> t[(n - i) + 1]]
    BY <1>2, <1>4 DEF Reverse
  <2>2. \A i \in 1 .. n : t[(n - i) + 1] \in STRING
    BY <1>2
  <2>3. q \in [1 .. n -> STRING]
    BY <2>1, <2>2
  <2> QED BY <2>1, <2>3
<1>7. IsSuffix(s, t) <=> m <= n /\ SubSeq(r, 1, m) = SubSeq(q, 1, m)
  BY <1>3, <1>4, <1>5, <1>6, Zenon DEF IsSuffix, IsPrefix
<1>8. CASE ~(m <= n)
  BY <1>1, <1>2, <1>7, <1>8
<1>9. CASE m <= n
  <2>1. SubSeq(r, 1, m) = r
    BY <1>5, SubSeqFull
  <2>2. /\ SubSeq(q, 1, m) \in Seq(STRING) /\ Len(SubSeq(q, 1, m)) = m
        /\ \A i \in 1 .. m : SubSeq(q, 1, m)[i] = q[i]
    <3>1. \A i \in 1 .. m : i \in 1 .. Len(q)
      BY <1>6, <1>9
    <3> QED BY <1>6, <1>9, <3>1
  <2>3. r = SubSeq(q, 1, m) <=> \A i \in 1 .. m : r[i] = q[i]
    <3>1. PICK z : z = SubSeq(q, 1, m)
      OBVIOUS
    <3>2. z \in Seq(STRING) /\ Len(z) = m /\ \A i \in 1 .. m : z[i] = q[i]
      BY <2>2, <3>1
    <3>3. r = z <=> \A i \in 1 .. m : r[i] = z[i]
      <4>1. (\A i \in 1 .. Len(r) : r[i] = z[i]) => r = z
        BY <1>5, <3>2, SeqEqual
      <4> QED BY <1>5, <4>1
    <3> QED BY <3>1, <3>2, <3>3
  <2>4. (\A i \in 1 .. m : r[i] = q[i]) <=> \A i \in 1 .. m : s[i] = t[n - m + i]
    <3>1. ASSUME \A i \in 1 .. m : r[i] = q[i], NEW i \in 1 .. m PROVE s[i] = t[n - m + i]
      <4>1. PICK j \in 1 .. m : j = m - i + 1
        OBVIOUS
      <4>2. j \in 1 .. n /\ m - j + 1 = i /\ n - j + 1 = n - m + i
        BY <1>9, <4>1
      <4> QED BY <1>5, <1>6, <3>1, <4>2
    <3>2. ASSUME \A i \in 1 .. m : s[i] = t[n - m + i], NEW i \in 1 .. m PROVE r[i] = q[i]
      <4>1. PICK j \in 1 .. m : j = m - i + 1
        OBVIOUS
      <4>2. i \in 1 .. n /\ n - m + j = n - i + 1
        BY <1>9, <4>1
      <4>3. r[i] = s[j] /\ q[i] = t[n - i + 1]
        BY <1>5, <1>6, <4>1, <4>2
      <4>4. s[j] = t[n - m + j]
        BY <3>2
      <4> QED BY <4>2, <4>3, <4>4
    <3> QED BY <3>1, <3>2
  <2> QED BY <1>1, <1>2, <1>7, <1>9, <2>1, <2>3, <2>4
<1> QED BY <1>8, <1>9

\* Two suffixes of a host are one a suffix of the other.
LEMMA SuffixesNest ==
  ASSUME NEW p \in Seq(STRING), NEW q \in Seq(STRING), NEW h \in Seq(STRING), IsSuffix(p, h), IsSuffix(q, h)
  PROVE  IsSuffix(p, q) \/ IsSuffix(q, p)
<1>1. ASSUME NEW a \in Seq(STRING), NEW b \in Seq(STRING), IsSuffix(a, h), IsSuffix(b, h), Len(a) <= Len(b)
      PROVE  IsSuffix(a, b)
  <2>1. PICK l \in Nat : l = Len(h)
    OBVIOUS
  <2>2. PICK m \in Nat : m = Len(a)
    OBVIOUS
  <2>3. PICK n \in Nat : n = Len(b)
    OBVIOUS
  <2>4. m <= l /\ \A i \in 1 .. m : a[i] = h[l - m + i]
    BY <1>1, <2>1, <2>2, SuffixByLabels
  <2>5. n <= l /\ \A i \in 1 .. n : b[i] = h[l - n + i]
    BY <1>1, <2>1, <2>3, SuffixByLabels
  <2>6. m <= n
    BY <1>1, <2>2, <2>3
  <2>7. ASSUME NEW i \in 1 .. m PROVE a[i] = b[n - m + i]
    <3>1. PICK j \in 1 .. n : j = n - m + i
      BY <2>6
    <3>2. l - n + j = l - m + i
      BY <3>1
    <3> QED BY <2>4, <2>5, <3>1, <3>2
  <2> QED BY <2>2, <2>3, <2>6, <2>7, SuffixByLabels
<1>2. Len(p) \in Nat /\ Len(q) \in Nat
  OBVIOUS
<1>3. CASE Len(p) <= Len(q)
  BY <1>1, <1>3
<1>4. CASE Len(q) <= Len(p)
  BY <1>1, <1>4
<1> QED BY <1>2, <1>3, <1>4

\* Patterns that match one host overlap (domainPatternsOverlap).
LEMMA MatchesOverlap ==
  ASSUME NEW p \in PatternType, NEW q \in PatternType, NEW h \in Seq(STRING),
         MatchesDomain(p, h), MatchesDomain(q, h)
  PROVE  DomainPatternsOverlap(p, q)
<1>1. p.labels \in Seq(STRING) /\ q.labels \in Seq(STRING)
  BY DEF PatternType
<1>2. /\ IF p.star THEN IsStrictSuffix(p.labels, h) ELSE h = p.labels
      /\ IF q.star THEN IsStrictSuffix(q.labels, h) ELSE h = q.labels
  BY Zenon DEF MatchesDomain
<1>3. CASE p.star /\ q.star
  <2>1. IsSuffix(p.labels, h) /\ IsSuffix(q.labels, h)
    BY <1>2, <1>3, Zenon DEF IsStrictSuffix
  <2>2. IsSuffix(p.labels, q.labels) \/ IsSuffix(q.labels, p.labels)
    BY <1>1, <2>1, SuffixesNest
  <2> QED BY <1>3, <2>2, Zenon DEF DomainPatternsOverlap
<1>4. CASE p.star /\ ~q.star
  BY <1>2, <1>4, Zenon DEF DomainPatternsOverlap
<1>5. CASE ~p.star /\ q.star
  BY <1>2, <1>5, Zenon DEF DomainPatternsOverlap
<1>6. CASE ~p.star /\ ~q.star
  BY <1>2, <1>6, Zenon DEF DomainPatternsOverlap
<1> QED BY <1>3, <1>4, <1>5, <1>6

(***************************************************************************)
(* The page of the trust rules, the file and the policy.                   *)
(***************************************************************************)
TrType ==
  [file : Seq(TrustRuleType), policy : Seq(TrustRuleType), open : BOOLEAN, rules : Seq(TrustRuleType), row : Nat,
   form : TrustRuleType, wanted : Seq(TrustRuleType), byHand : BOOLEAN, edits : Nat]

KnownModes(rules) == \A i \in DOMAIN rules : rules[i].mode \in Modes

PageAgrees(S) ==
  /\ S.rules = S.wanted
  /\ S.row \in 0 .. Len(S.rules)
  /\ S.row # 0 => S.form = S.rules[S.row]
  /\ KnownModes(S.rules)

PolicyKept(S) ==
  /\ NoOverlap(S.policy) /\ NamesDiffer(S.policy)
  /\ ~S.byHand => S.policy = TrustPolicyOf(S.file)

TrInv(S) == S \in TrType /\ PageAgrees(S) /\ PolicyKept(S)

LEMMA UsedParts ==
  /\ "" \in UsedNames /\ RuleNames \subseteq UsedNames /\ NewNames \subseteq UsedNames
  /\ Modes \subseteq UsedModes /\ TrustCertificates \subseteq UsedCertificates
<1>1. "" \in UsedNames /\ RuleNames \subseteq UsedNames /\ NewNames \subseteq UsedNames
  BY Zenon DEF UsedNames
<1>2. Modes \subseteq UsedModes /\ TrustCertificates \subseteq UsedCertificates
  BY Zenon DEF UsedModes, UsedCertificates
<1> QED BY <1>1, <1>2, Zenon

LEMMA BlankTyped == BlankRule \in TrustRuleType
<1>1. << >> \in Seq(PatternType) /\ {} \in SUBSET UsedCertificates
  OBVIOUS
<1>2. "system-only" \in Modes
  BY DEF Modes
<1>3. "" \in UsedNames /\ Modes \subseteq UsedModes
  BY UsedParts, Zenon
<1>4. "system-only" \in UsedModes
  BY <1>2, <1>3, Zenon
<1>5. FALSE \in BOOLEAN
  OBVIOUS
<1> QED BY <1>1, <1>3, <1>4, <1>5, Zenon DEF BlankRule, TrustRuleType

LEMMA PolicyTyped ==
  ASSUME NEW file \in Seq(TrustRuleType)
  PROVE  /\ TrustPolicyOf(file) \in Seq(TrustRuleType)
         /\ NoOverlap(TrustPolicyOf(file)) /\ NamesDiffer(TrustPolicyOf(file))
<1>1. Enabled(file) \in Seq(TrustRuleType)
  BY EnabledRules
<1>2. CASE PolicyLoads(file)
  <2>1. TrustPolicyOf(file) = Enabled(file)
    BY <1>2 DEF TrustPolicyOf
  <2>2. NoOverlap(Enabled(file)) /\ NamesDiffer(Enabled(file))
    BY <1>2, Zenon DEF PolicyLoads
  <2> QED BY <1>1, <2>1, <2>2
<1>3. CASE ~PolicyLoads(file)
  <2>1. TrustPolicyOf(file) = << >>
    BY <1>3 DEF TrustPolicyOf
  <2>2. << >> \in Seq(TrustRuleType) /\ DOMAIN << >> = {}
    OBVIOUS
  <2>3. NoOverlap(<< >>) /\ NamesDiffer(<< >>)
    BY <2>2 DEF NoOverlap, NamesDiffer
  <2> QED BY <2>1, <2>2, <2>3
<1> QED BY <1>2, <1>3

\* What the editor shows is stored already.
LEMMA NothingToStore ==
  ASSUME NEW S \in TrType, PageAgrees(S)
  PROVE  StoreCurrentRule(S) = S
<1>1. CASE S.row \notin DOMAIN S.rules
  BY <1>1 DEF StoreCurrentRule
<1>2. CASE S.row \in DOMAIN S.rules
  <2>1. S.rules \in Seq(TrustRuleType) /\ S.row \in Nat
    BY DEF TrType
  <2>2. S.row # 0
    BY <1>2, <2>1
  <2>3. PICK rule \in TrustRuleType : rule = S.rules[S.row]
    BY <1>2, <2>1
  <2>4. S.form = rule
    BY <2>2, <2>3 DEF PageAgrees
  <2>5. [rule EXCEPT !.anchors = rule.anchors] = rule
    BY DEF TrustRuleType
  <2>6. [S.rules EXCEPT ![S.row] = rule] = S.rules
    <3>1. PICK other : other = [S.rules EXCEPT ![S.row] = rule]
      OBVIOUS
    <3>2. other \in Seq(TrustRuleType) /\ Len(other) = Len(S.rules)
      <4>1. S.row \in 1 .. Len(S.rules)
        BY <1>2, <2>1
      <4> HIDE DEF TrustRuleType
      <4> QED BY <2>1, <2>3, <3>1, <4>1, ExceptSeq
    <3>3. \A i \in 1 .. Len(S.rules) : other[i] = S.rules[i]
      BY <2>1, <2>3, <3>1
    <3> HIDE DEF TrustRuleType
    <3> QED BY <2>1, <3>1, <3>2, <3>3, SeqEqual
  <2>7. [S EXCEPT !.rules = S.rules] = S
    BY DEF TrType
  <2>8. StoreCurrentRule(S) = [S EXCEPT !.rules[S.row] = [S.form EXCEPT !.anchors = S.rules[S.row].anchors]]
    BY <1>2 DEF StoreCurrentRule
  <2>9. StoreCurrentRule(S) = [S EXCEPT !.rules = [S.rules EXCEPT ![S.row] = [S.form EXCEPT !.anchors = S.rules[S.row].anchors]]]
    BY <2>8
  <2> QED BY <2>3, <2>4, <2>5, <2>6, <2>7, <2>9
<1> QED BY <1>1, <1>2

\* Only what is shown of the rules changes when another is selected.
LEMMA SelectionAgrees ==
  ASSUME NEW S \in TrType, S.rules = S.wanted, KnownModes(S.rules), PolicyKept(S), NEW row \in 0 .. Len(S.rules)
  PROVE  /\ LoadCurrentRule(S, row) \in TrType /\ PageAgrees(LoadCurrentRule(S, row))
         /\ PolicyKept(LoadCurrentRule(S, row))
<1>1. S.rules \in Seq(TrustRuleType) /\ row \in Nat
  BY DEF TrType
<1>2. PICK shown : shown = IF row \in DOMAIN S.rules THEN S.rules[row] ELSE BlankRule
  OBVIOUS
<1>3. shown \in TrustRuleType
  BY <1>1, <1>2, BlankTyped
<1>4. PICK T : T = [S EXCEPT !.row = row, !.form = shown]
  OBVIOUS
<1>5. LoadCurrentRule(S, row) = T
  BY <1>2, <1>4 DEF LoadCurrentRule
<1>6. T \in TrType
  BY <1>1, <1>3, <1>4 DEF TrType
<1>7. /\ T.rules = S.rules /\ T.wanted = S.wanted /\ T.row = row /\ T.form = shown /\ T.policy = S.policy
      /\ T.file = S.file /\ T.byHand = S.byHand
  BY <1>4 DEF TrType
<1>8. row # 0 => row \in DOMAIN S.rules
  BY <1>1
<1>9. PageAgrees(T)
  BY <1>2, <1>7, <1>8 DEF PageAgrees
<1>10. PolicyKept(T)
  BY <1>7 DEF PolicyKept
<1> QED BY <1>5, <1>6, <1>9, <1>10

LEMMA CountedAgrees ==
  ASSUME NEW S, TrInv(S)
  PROVE  TrInv(Edited(S))
<1>1. PICK T : T = [S EXCEPT !.edits = S.edits + 1]
  OBVIOUS
<1>2. Edited(S) = T
  BY <1>1 DEF Edited
<1>3. T \in TrType
  <2>1. S \in TrType
    BY DEF TrInv
  <2>2. PICK n \in Nat : n = S.edits + 1
    BY <2>1 DEF TrType
  <2> QED BY <1>1, <2>1, <2>2 DEF TrType
<1>4. /\ T.rules = S.rules /\ T.wanted = S.wanted /\ T.row = S.row /\ T.form = S.form /\ T.policy = S.policy
      /\ T.file = S.file /\ T.byHand = S.byHand
  BY <1>1 DEF TrType, TrInv
<1>5. PageAgrees(T) /\ PolicyKept(T)
  BY <1>4 DEF PageAgrees, PolicyKept, TrInv
<1> QED BY <1>2, <1>3, <1>5 DEF TrInv

LEMMA OpenAgrees ==
  ASSUME TrInv(tr), OpenTrustPage
  PROVE  TrInv(tr')
<1>1. tr \in TrType /\ PolicyKept(tr) /\ SettingsLoad(tr.file)
  BY DEF TrInv, OpenTrustPage
<1>2. PICK file \in Seq(TrustRuleType) : file = tr.file
  BY <1>1 DEF TrType
<1>3. PICK S : S = [[tr EXCEPT !.open = TRUE, !.rules = file, !.wanted = file] EXCEPT !.row = 0]
  OBVIOUS
<1>4. PICK row : row = IF file = << >> THEN 0 ELSE 1
  OBVIOUS
<1>5. tr' = SelectRule(S, row)
  BY <1>2, <1>3, <1>4, Zenon DEF OpenTrustPage, TrIs, RebuildRuleList
<1>6. S \in TrType
  BY <1>1, <1>3 DEF TrType
<1>7. /\ S.rules = file /\ S.wanted = file /\ S.row = 0 /\ S.policy = tr.policy /\ S.file = tr.file
      /\ S.byHand = tr.byHand
  BY <1>1, <1>3 DEF TrType
<1>8. PolicyKept(S)
  BY <1>1, <1>7 DEF PolicyKept
<1>9. KnownModes(file)
  BY <1>1, <1>2 DEF SettingsLoad, KnownModes, ToSet
<1>10. row \in 0 .. Len(S.rules)
  <2>1. Len(file) \in Nat /\ (Len(file) = 0 => file = << >>)
    BY EmptySeq
  <2> QED BY <1>4, <1>7, <2>1
<1>11. StoreCurrentRule(S) = S
  <2>1. 0 \notin DOMAIN S.rules
    BY <1>7
  <2> QED BY <1>7, <2>1 DEF StoreCurrentRule
<1>12. tr' = LoadCurrentRule(S, row)
  BY <1>5, <1>11 DEF SelectRule
<1> QED BY <1>6, <1>7, <1>8, <1>9, <1>10, <1>12, SelectionAgrees DEF TrInv

LEMMA ChooseAgrees ==
  ASSUME TrInv(tr), ChooseRule
  PROVE  TrInv(tr')
<1>1. tr \in TrType /\ PageAgrees(tr) /\ PolicyKept(tr)
  BY DEF TrInv
<1>2. PICK row \in DOMAIN tr.rules : tr' = SelectRule(tr, row)
  BY DEF ChooseRule, TrIs
<1>3. tr' = LoadCurrentRule(tr, row)
  BY <1>1, <1>2, NothingToStore DEF SelectRule
<1>4. row \in 0 .. Len(tr.rules)
  <2>1. tr.rules \in Seq(TrustRuleType)
    BY <1>1 DEF TrType
  <2> QED BY <2>1
<1>5. tr.rules = tr.wanted /\ KnownModes(tr.rules)
  BY <1>1 DEF PageAgrees
<1> QED BY <1>1, <1>3, <1>4, <1>5, SelectionAgrees DEF TrInv

\* The rule shown is changed, in the rules and in what is wanted alike.
Rewritten(S, rule) ==
  [S EXCEPT !.form = rule, !.rules = [S.rules EXCEPT ![S.row] = rule], !.wanted = [S.wanted EXCEPT ![S.row] = rule]]

LEMMA ChangeAgrees ==
  ASSUME NEW S, TrInv(S), S.row # 0, NEW rule \in TrustRuleType, rule.mode \in Modes
  PROVE  TrInv(Rewritten(S, rule))
<1> DEFINE T == Rewritten(S, rule)
<1>1. S \in TrType /\ PageAgrees(S) /\ PolicyKept(S)
  BY DEF TrInv
<1>2. S.rules \in Seq(TrustRuleType) /\ S.wanted = S.rules /\ S.row \in 1 .. Len(S.rules)
  <2>1. S.rules \in Seq(TrustRuleType) /\ S.row \in 0 .. Len(S.rules) /\ S.wanted = S.rules
    BY <1>1 DEF TrType, PageAgrees
  <2> QED BY <2>1
<1>3. PICK rules : rules = [S.rules EXCEPT ![S.row] = rule]
  OBVIOUS
<1>4. /\ rules \in Seq(TrustRuleType) /\ Len(rules) = Len(S.rules)
      /\ \A i \in 1 .. Len(S.rules) : rules[i] = IF i = S.row THEN rule ELSE S.rules[i]
  <2> HIDE DEF TrustRuleType
  <2> QED BY <1>2, <1>3, ExceptSeq
<1>5. T = [S EXCEPT !.form = rule, !.rules = rules, !.wanted = rules]
  BY <1>2, <1>3 DEF Rewritten
<1> HIDE DEF T
<1>6. T \in TrType
  BY <1>1, <1>4, <1>5 DEF TrType
<1>7. /\ T.rules = rules /\ T.wanted = rules /\ T.row = S.row /\ T.form = rule /\ T.policy = S.policy
      /\ T.file = S.file /\ T.byHand = S.byHand
  BY <1>1, <1>5 DEF TrType
<1>8. KnownModes(rules)
  <2>1. ASSUME NEW i \in 1 .. Len(S.rules) PROVE rules[i].mode \in Modes
    <3>1. S.rules[i].mode \in Modes
      BY <1>1, <1>2 DEF PageAgrees, KnownModes
    <3> QED BY <1>4, <3>1
  <2>2. DOMAIN rules = 1 .. Len(S.rules)
    BY <1>4
  <2> QED BY <2>1, <2>2 DEF KnownModes
<1>9. PageAgrees(T)
  BY <1>2, <1>4, <1>7, <1>8 DEF PageAgrees
<1>10. PolicyKept(T)
  BY <1>1, <1>7 DEF PolicyKept
<1> QED BY <1>6, <1>9, <1>10 DEF TrInv, T

LEMMA EditAgrees ==
  ASSUME TrInv(tr), EditRule
  PROVE  TrInv(tr')
<1>1. tr \in TrType /\ PageAgrees(tr) /\ PolicyKept(tr) /\ tr.row # 0
  BY DEF TrInv, EditRule, OnRule
<1>2. /\ tr.rules \in Seq(TrustRuleType) /\ tr.wanted = tr.rules /\ tr.row \in 1 .. Len(tr.rules)
      /\ tr.form = tr.rules[tr.row] /\ tr.form \in TrustRuleType /\ tr.form.mode \in Modes
  <2>1. /\ tr.rules \in Seq(TrustRuleType) /\ tr.row \in 0 .. Len(tr.rules) /\ tr.wanted = tr.rules
        /\ tr.form = tr.rules[tr.row] /\ tr.form \in TrustRuleType
    BY <1>1 DEF TrType, PageAgrees
  <2>2. tr.row \in 1 .. Len(tr.rules)
    BY <1>1, <2>1
  <2>3. tr.rules[tr.row].mode \in Modes
    BY <1>1, <2>1, <2>2 DEF PageAgrees, KnownModes
  <2> QED BY <2>1, <2>2, <2>3
<1>3. PICK form : /\ \/ \E n \in RuleNames : form = [tr.form EXCEPT !.name = n]
                     \/ form = [tr.form EXCEPT !.enabled = ~@]
                     \/ \E m \in Modes : form = [tr.form EXCEPT !.mode = m]
                     \/ \E d \in DomainLists : form = [tr.form EXCEPT !.domains = d]
                  /\ tr' = StoreCurrentRule(Edited([tr EXCEPT !.form = form, !.wanted[tr.row] = form]))
  <2>1. PICK form \in { [tr.form EXCEPT !.name = n] : n \in RuleNames } \cup { [tr.form EXCEPT !.enabled = ~@] }
                        \cup { [tr.form EXCEPT !.mode = m] : m \in Modes }
                        \cup { [tr.form EXCEPT !.domains = d] : d \in DomainLists } :
               tr' = StoreCurrentRule(Edited([tr EXCEPT !.form = form, !.wanted[tr.row] = form]))
    BY Zenon DEF EditRule, TrIs
  <2>2. \/ \E n \in RuleNames : form = [tr.form EXCEPT !.name = n]
        \/ form = [tr.form EXCEPT !.enabled = ~@]
        \/ \E m \in Modes : form = [tr.form EXCEPT !.mode = m]
        \/ \E d \in DomainLists : form = [tr.form EXCEPT !.domains = d]
    BY Zenon
  <2> QED BY <2>1, <2>2, Zenon
<1>4. form \in TrustRuleType /\ form.mode \in Modes /\ form.anchors = tr.form.anchors
  <2>1. DomainLists \subseteq Seq(PatternType)
    BY Zenon, TrustRulesAssumption
  <2>6. PICK old \in TrustRuleType : old = tr.form /\ old.mode \in Modes
    BY <1>2
  <2>7. ASSUME NEW n \in UsedNames, form = [old EXCEPT !.name = n] PROVE form \in TrustRuleType /\ form.mode \in Modes /\ form.anchors = tr.form.anchors
    BY <2>6, <2>7 DEF TrustRuleType
  <2>8. ASSUME form = [old EXCEPT !.enabled = ~@] PROVE form \in TrustRuleType /\ form.mode \in Modes /\ form.anchors = tr.form.anchors
    BY <2>6, <2>8 DEF TrustRuleType
  <2>9. ASSUME NEW m \in UsedModes, m \in Modes, form = [old EXCEPT !.mode = m] PROVE form \in TrustRuleType /\ form.mode \in Modes /\ form.anchors = tr.form.anchors
    BY <2>6, <2>9 DEF TrustRuleType
  <2>10. ASSUME NEW d \in Seq(PatternType), form = [old EXCEPT !.domains = d] PROVE form \in TrustRuleType /\ form.mode \in Modes /\ form.anchors = tr.form.anchors
    BY <2>6, <2>10 DEF TrustRuleType
  <2>11. RuleNames \subseteq UsedNames /\ Modes \subseteq UsedModes
    BY UsedParts, Zenon
  <2>12. CASE \E n \in RuleNames : form = [tr.form EXCEPT !.name = n]
    BY <2>6, <2>7, <2>11, <2>12, Zenon
  <2>13. CASE form = [tr.form EXCEPT !.enabled = ~@]
    BY <2>6, <2>8, <2>13, Zenon
  <2>14. CASE \E m \in Modes : form = [tr.form EXCEPT !.mode = m]
    BY <2>6, <2>9, <2>11, <2>14, Zenon
  <2>15. CASE \E d \in DomainLists : form = [tr.form EXCEPT !.domains = d]
    BY <2>1, <2>6, <2>10, <2>15, Zenon
  <2> QED BY <1>3, <2>12, <2>13, <2>14, <2>15, Zenon
<1>5. PICK S : S = [tr EXCEPT !.form = form, !.wanted[tr.row] = form]
  OBVIOUS
<1>6. PICK T : T = [S EXCEPT !.edits = S.edits + 1]
  OBVIOUS
<1>7. tr' = StoreCurrentRule(T)
  BY <1>3, <1>5, <1>6 DEF Edited
<1>8. PICK U : U = Rewritten(tr, form)
  OBVIOUS
<1>9. TrInv(U)
  BY <1>1, <1>4, <1>8, ChangeAgrees
<1>10. tr' = Edited(U)
  <2>1. S = [tr EXCEPT !.form = form, !.wanted = [tr.wanted EXCEPT ![tr.row] = form]]
    BY <1>5
  <2>2. T.row = tr.row /\ T.rules = tr.rules /\ T.form = form
    BY <1>1, <1>6, <2>1 DEF TrType
  <2>3. tr.row \in DOMAIN tr.rules
    BY <1>2
  <2>4. [form EXCEPT !.anchors = tr.rules[tr.row].anchors] = form
    <3>1. form \in TrustRuleType /\ tr.rules[tr.row].anchors = form.anchors
      BY <1>2, <1>4
    <3> QED BY <3>1 DEF TrustRuleType
  <2>5. tr' = [T EXCEPT !.rules = [T.rules EXCEPT ![T.row] = [T.form EXCEPT !.anchors = T.rules[T.row].anchors]]]
    BY <1>7, <2>2, <2>3 DEF StoreCurrentRule
  <2>6. tr' = [T EXCEPT !.rules = [tr.rules EXCEPT ![tr.row] = form]]
    BY <2>2, <2>4, <2>5
  <2>7. PICK rules : rules = [tr.rules EXCEPT ![tr.row] = form]
    OBVIOUS
  <2>8. PICK wanted : wanted = [tr.wanted EXCEPT ![tr.row] = form]
    OBVIOUS
  <2>9. PICK e : e = tr.edits + 1
    OBVIOUS
  <2>10. U = [tr EXCEPT !.form = form, !.rules = rules, !.wanted = wanted]
    BY <1>8, <2>7, <2>8 DEF Rewritten
  <2>13. S.edits + 1 = e /\ U.edits + 1 = e
    BY <1>1, <2>1, <2>9, <2>10 DEF TrType
  <2>11. tr' = [[[tr EXCEPT !.form = form, !.wanted = wanted] EXCEPT !.edits = e] EXCEPT !.rules = rules]
    BY <1>6, <2>1, <2>6, <2>7, <2>8, <2>13
  <2>12. Edited(U) = [[tr EXCEPT !.form = form, !.rules = rules, !.wanted = wanted] EXCEPT !.edits = e]
    BY <2>10, <2>13 DEF Edited
  <2> QED BY <1>1, <2>11, <2>12 DEF TrType
<1> QED BY <1>9, <1>10, CountedAgrees

\* The list of rules is built anew, and a rule of it shown.
Listed(S, rules) == [[S EXCEPT !.rules = rules, !.wanted = rules] EXCEPT !.row = 0]

LEMMA ListAgrees ==
  ASSUME NEW S \in TrType, PolicyKept(S), NEW rules \in Seq(TrustRuleType), KnownModes(rules),
         NEW row \in 0 .. Len(rules)
  PROVE  TrInv(Edited(SelectRule(Listed(S, rules), row)))
<1>1. PICK T : T = Listed(S, rules)
  OBVIOUS
<1>2. T \in TrType
  <2>1. 0 \in Nat
    OBVIOUS
  <2> QED BY <1>1, <2>1 DEF Listed, TrType
<1>3. /\ T.rules = rules /\ T.wanted = rules /\ T.row = 0 /\ T.policy = S.policy /\ T.file = S.file
      /\ T.byHand = S.byHand
  BY <1>1 DEF Listed, TrType
<1>4. PolicyKept(T)
  BY <1>3 DEF PolicyKept
<1>5. StoreCurrentRule(T) = T
  <2>1. 0 \notin DOMAIN T.rules
    BY <1>3
  <2> QED BY <1>3, <2>1 DEF StoreCurrentRule
<1>6. SelectRule(T, row) = LoadCurrentRule(T, row)
  BY <1>5 DEF SelectRule
<1>7. TrInv(LoadCurrentRule(T, row))
  BY <1>2, <1>3, <1>4, SelectionAgrees DEF TrInv
<1> QED BY <1>1, <1>6, <1>7, CountedAgrees

LEMMA AddAgrees ==
  ASSUME TrInv(tr), AddRule
  PROVE  TrInv(tr')
<1>1. tr \in TrType /\ PageAgrees(tr) /\ PolicyKept(tr)
  BY DEF TrInv
<1>2. StoreCurrentRule(tr) = tr
  BY <1>1, NothingToStore
<1>3. PICK fresh : fresh = { n \in NewNames : \A r \in ToSet(tr.rules) : r.name # n }
  OBVIOUS
<1>0. PICK name : name = CHOOSE n \in fresh : TRUE
  OBVIOUS
<1>4. PICK rule : rule = [BlankRule EXCEPT !.name = name, !.mode = "system-plus-custom"]
  OBVIOUS
<1>5. PICK T : T = [[tr EXCEPT !.rules = Append(tr.rules, rule), !.wanted = Append(tr.wanted, rule)] EXCEPT !.row = 0]
  OBVIOUS
<1>6. fresh # {} /\ tr' = Edited(SelectRule(T, Len(T.rules)))
  BY <1>2, <1>3, <1>0, <1>4, <1>5 DEF AddRule, TrIs, RebuildRuleList
<1>7. rule \in TrustRuleType /\ rule.mode \in Modes
  <2>1. name \in NewNames
    BY <1>3, <1>0, <1>6
  <2>2. name \in UsedNames
    BY <2>1, UsedParts, Zenon
  <2>3. PICK mode \in Modes : mode = "system-plus-custom"
    BY DEF Modes
  <2>4. mode \in UsedModes
    BY <2>3, UsedParts, Zenon
  <2>5. PICK blank \in TrustRuleType : blank = BlankRule
    BY BlankTyped
  <2>6. rule = [blank EXCEPT !.name = name, !.mode = mode]
    BY <1>4, <2>3, <2>5
  <2>7. rule \in TrustRuleType /\ rule.mode = mode
    BY <2>2, <2>4, <2>5, <2>6 DEF TrustRuleType
  <2> QED BY <2>3, <2>7
<1>8. tr.rules \in Seq(TrustRuleType) /\ tr.wanted = tr.rules /\ KnownModes(tr.rules)
  BY <1>1 DEF TrType, PageAgrees
<1>9. PICK rules \in Seq(TrustRuleType) : rules = Append(tr.rules, rule)
  <2>1. Append(tr.rules, rule) \in Seq(TrustRuleType)
    BY <1>7, <1>8
  <2> QED BY <2>1, Zenon
<1>10. Len(rules) \in 0 .. Len(rules)
  OBVIOUS
<1>11. KnownModes(rules)
  <2>1. ASSUME NEW i \in DOMAIN rules PROVE rules[i].mode \in Modes
    <3>1. i \in 1 .. Len(tr.rules) + 1 /\ rules[i] = IF i <= Len(tr.rules) THEN tr.rules[i] ELSE rule
      <4> HIDE DEF TrustRuleType
      <4> QED BY <1>7, <1>8, <1>9
    <3>2. CASE i <= Len(tr.rules)
      <4>1. i \in DOMAIN tr.rules
        BY <1>8, <3>1, <3>2
      <4> QED BY <1>8, <3>1, <3>2, <4>1 DEF KnownModes
    <3>3. CASE ~(i <= Len(tr.rules))
      BY <1>7, <3>1, <3>3
    <3> QED BY <3>2, <3>3
  <2> QED BY <2>1 DEF KnownModes
<1>12. T = Listed(tr, rules) /\ T.rules = rules
  <2>1. T = Listed(tr, rules)
    BY <1>5, <1>8, <1>9 DEF Listed
  <2>2. Listed(tr, rules).rules = rules
    BY <1>1 DEF Listed, TrType
  <2> QED BY <2>1, <2>2
<1> QED BY <1>1, <1>6, <1>10, <1>11, <1>12, ListAgrees

LEMMA RemoveAgrees ==
  ASSUME TrInv(tr), RemoveRule
  PROVE  TrInv(tr')
<1>1. tr \in TrType /\ PageAgrees(tr) /\ PolicyKept(tr) /\ tr.row # 0
  BY DEF TrInv, RemoveRule, OnRule
<1>2. /\ tr.rules \in Seq(TrustRuleType) /\ tr.wanted = tr.rules /\ KnownModes(tr.rules)
      /\ tr.row \in 1 .. Len(tr.rules)
  <2>1. /\ tr.rules \in Seq(TrustRuleType) /\ tr.row \in 0 .. Len(tr.rules) /\ tr.wanted = tr.rules
        /\ KnownModes(tr.rules)
    BY <1>1 DEF TrType, PageAgrees
  <2> QED BY <1>1, <2>1
<1>3. PICK rules : rules = RemoveAt(tr.rules, tr.row)
  OBVIOUS
<1>4. PICK S : S = [[tr EXCEPT !.rules = rules, !.wanted = rules] EXCEPT !.row = 0]
  OBVIOUS
<1>5. S = Listed(tr, rules) /\ S.rules = rules
  BY <1>1, <1>4 DEF Listed, TrType
<1>6. PICK row : row = IF tr.row <= Len(rules) THEN tr.row ELSE Len(rules)
  OBVIOUS
<1>7. tr' = Edited(SelectRule(S, row))
  <2>1. S = RebuildRuleList([tr EXCEPT !.rules = RemoveAt(tr.rules, tr.row), !.wanted = RemoveAt(tr.wanted, tr.row)])
    BY <1>2, <1>3, <1>4 DEF RebuildRuleList
  <2>2. row = IF tr.row <= Len(S.rules) THEN tr.row ELSE Len(S.rules)
    BY <1>5, <1>6
  <2> QED BY <2>1, <2>2 DEF RemoveRule, TrIs
<1>8. /\ rules \in Seq(TrustRuleType) /\ Len(rules) = Len(tr.rules) - 1
      /\ \A k \in 1 .. Len(tr.rules) - 1 : rules[k] = IF k < tr.row THEN tr.rules[k] ELSE tr.rules[k + 1]
  <2> HIDE DEF TrustRuleType
  <2> QED BY <1>2, <1>3, RemovedAt
<1>9. row \in 0 .. Len(rules)
  <2>1. Len(rules) \in Nat /\ tr.row \in Nat
    BY <1>2, <1>8
  <2> QED BY <1>6, <2>1
<1>10. KnownModes(rules)
  <2>1. ASSUME NEW i \in DOMAIN rules PROVE rules[i].mode \in Modes
    <3>1. PICK k \in DOMAIN tr.rules : rules[i] = tr.rules[k]
      <4>1. i \in 1 .. Len(tr.rules) - 1 /\ Len(tr.rules) \in Nat
        BY <1>2, <1>8
      <4>2. i \in DOMAIN tr.rules /\ i + 1 \in DOMAIN tr.rules
        BY <1>2, <4>1
      <4> QED BY <1>8, <4>1, <4>2
    <3> QED BY <1>2, <3>1 DEF KnownModes
  <2> QED BY <2>1 DEF KnownModes
<1> QED BY <1>1, <1>5, <1>7, <1>8, <1>9, <1>10, ListAgrees

\* The certificates of the rule shown change, in the editor and in the rules alike.
LEMMA AnchorsAgree ==
  ASSUME TrInv(tr), tr.row # 0, NEW A \in SUBSET UsedCertificates, ChangeAnchors(A)
  PROVE  TrInv(tr')
<1>1. tr \in TrType /\ PageAgrees(tr)
  BY DEF TrInv
<1>2. /\ tr.rules \in Seq(TrustRuleType) /\ tr.wanted = tr.rules /\ tr.row \in 1 .. Len(tr.rules)
      /\ tr.form = tr.rules[tr.row] /\ tr.form \in TrustRuleType /\ tr.form.mode \in Modes
  <2>1. /\ tr.rules \in Seq(TrustRuleType) /\ tr.row \in 0 .. Len(tr.rules) /\ tr.wanted = tr.rules
        /\ tr.form = tr.rules[tr.row] /\ tr.form \in TrustRuleType
    BY <1>1 DEF TrType, PageAgrees
  <2>2. tr.row \in 1 .. Len(tr.rules)
    BY <2>1
  <2>3. tr.rules[tr.row].mode \in Modes
    BY <1>1, <2>1, <2>2 DEF PageAgrees, KnownModes
  <2> QED BY <2>1, <2>2, <2>3
<1>3. PICK form : form = [tr.form EXCEPT !.anchors = A]
  OBVIOUS
<1>4. form \in TrustRuleType /\ form.mode \in Modes
  BY <1>2, <1>3 DEF TrustRuleType
<1>5. TrInv(Rewritten(tr, form))
  BY <1>4, ChangeAgrees
<1>6. tr' = Edited(Rewritten(tr, form))
  <2>1. tr' = Edited([tr EXCEPT !.rules = [tr.rules EXCEPT ![tr.row] = [tr.rules[tr.row] EXCEPT !.anchors = A]],
                                !.wanted = [tr.wanted EXCEPT ![tr.row] = [tr.wanted[tr.row] EXCEPT !.anchors = A]],
                                !.form = [tr.form EXCEPT !.anchors = A]])
    BY DEF ChangeAnchors, TrIs
  <2>2. [tr.rules[tr.row] EXCEPT !.anchors = A] = form /\ [tr.wanted[tr.row] EXCEPT !.anchors = A] = form
    BY <1>2, <1>3
  <2>3. tr' = Edited([tr EXCEPT !.rules = [tr.rules EXCEPT ![tr.row] = form],
                                !.wanted = [tr.wanted EXCEPT ![tr.row] = form], !.form = form])
    BY <1>3, <2>1, <2>2
  <2>4. PICK rules : rules = [tr.rules EXCEPT ![tr.row] = form]
    OBVIOUS
  <2>5. PICK wanted : wanted = [tr.wanted EXCEPT ![tr.row] = form]
    OBVIOUS
  <2>6. [tr EXCEPT !.rules = rules, !.wanted = wanted, !.form = form]
          = [tr EXCEPT !.form = form, !.rules = rules, !.wanted = wanted]
    BY <1>1 DEF TrType
  <2> QED BY <2>3, <2>4, <2>5, <2>6 DEF Rewritten
<1> QED BY <1>5, <1>6, CountedAgrees

LEMMA ImportAgrees ==
  ASSUME TrInv(tr), ImportCertificates \/ RemoveCertificate
  PROVE  TrInv(tr')
<1>1. tr.row # 0
  BY DEF ImportCertificates, RemoveCertificate, OnRule
<1>2. tr.rules[tr.row].anchors \in SUBSET UsedCertificates
  <2>1. tr.rules \in Seq(TrustRuleType) /\ tr.row \in DOMAIN tr.rules
    <3>1. tr.rules \in Seq(TrustRuleType) /\ tr.row \in 0 .. Len(tr.rules)
      BY DEF TrInv, TrType, PageAgrees
    <3> QED BY <1>1, <3>1
  <2>2. PICK rule \in TrustRuleType : rule = tr.rules[tr.row]
    BY <2>1
  <2> QED BY <2>2 DEF TrustRuleType
<1>3. CASE ImportCertificates
  <2>1. PICK c \in TrustCertificates : ChangeAnchors(tr.rules[tr.row].anchors \cup {c})
    BY <1>3 DEF ImportCertificates
  <2>2. c \in UsedCertificates
    BY UsedParts, Zenon
  <2> QED BY <1>1, <1>2, <2>1, <2>2, AnchorsAgree
<1>4. CASE RemoveCertificate
  <2>1. PICK c : ChangeAnchors(tr.rules[tr.row].anchors \ {c})
    BY <1>4 DEF RemoveCertificate
  <2> QED BY <1>1, <1>2, <2>1, AnchorsAgree
<1> QED BY <1>3, <1>4

\* Closing the page, and loading the policy anew.
LEMMA ClosedAgrees ==
  ASSUME NEW S \in TrType, PolicyKept(S)
  PROVE  TrInv(ClosedPage(S))
<1>1. PICK T : T = ClosedPage(S)
  OBVIOUS
<1>2. << >> \in Seq(TrustRuleType) /\ BlankRule \in TrustRuleType /\ 0 \in Nat /\ Len(<< >>) = 0
  BY BlankTyped
<1>3. T \in TrType
  BY <1>1, <1>2 DEF ClosedPage, TrType
<1>4. /\ T.rules = << >> /\ T.wanted = << >> /\ T.row = 0 /\ T.policy = S.policy /\ T.file = S.file
      /\ T.byHand = S.byHand
  BY <1>1 DEF ClosedPage, TrType
<1>5. PageAgrees(T)
  <2>1. KnownModes(<< >>)
    BY DEF KnownModes
  <2>2. T.row \in 0 .. Len(T.rules)
    BY <1>2, <1>4
  <2> QED BY <1>4, <2>1, <2>2 DEF PageAgrees
<1>6. PolicyKept(T)
  BY <1>4 DEF PolicyKept
<1> QED BY <1>1, <1>3, <1>5, <1>6 DEF TrInv

LEMMA ReloadedAgrees ==
  ASSUME NEW S \in TrType
  PROVE  /\ Reloaded(S) \in TrType /\ PolicyKept(Reloaded(S))
         /\ PageAgrees(S) => PageAgrees(Reloaded(S))
<1>1. PICK policyOf : policyOf = TrustPolicyOf(S.file)
  OBVIOUS
<1>2. S.file \in Seq(TrustRuleType)
  BY DEF TrType
<1>3. policyOf \in Seq(TrustRuleType) /\ NoOverlap(policyOf) /\ NamesDiffer(policyOf)
  BY <1>1, <1>2, PolicyTyped
<1>4. PICK T : T = [S EXCEPT !.policy = policyOf, !.byHand = FALSE]
  OBVIOUS
<1>5. Reloaded(S) = T
  BY <1>1, <1>4 DEF Reloaded
<1>6. T \in TrType
  BY <1>3, <1>4 DEF TrType
<1>7. /\ T.rules = S.rules /\ T.wanted = S.wanted /\ T.row = S.row /\ T.form = S.form /\ T.policy = policyOf
      /\ T.file = S.file
  BY <1>4 DEF TrType
<1>8. PolicyKept(T)
  BY <1>1, <1>3, <1>7 DEF PolicyKept
<1>9. PageAgrees(S) => PageAgrees(T)
  BY <1>7 DEF PageAgrees
<1> QED BY <1>5, <1>6, <1>8, <1>9

LEMMA SaveAgrees ==
  ASSUME TrInv(tr), SaveTrustRules \/ CancelTrustPage \/ EditByHand \/ ReloadRules
  PROVE  TrInv(tr')
<1>1. tr \in TrType /\ PageAgrees(tr) /\ PolicyKept(tr)
  BY DEF TrInv
<1>2. CASE SaveTrustRules
  <2>1. PICK S : S = [tr EXCEPT !.file = tr.rules]
    OBVIOUS
  <2>2. StoreCurrentRule(tr) = tr
    BY <1>1, NothingToStore
  <2>3. tr' = ClosedPage(Reloaded(S))
    BY <1>2, <2>1, <2>2 DEF SaveTrustRules, TrIs
  <2>4. S \in TrType
    BY <1>1, <2>1 DEF TrType
  <2> QED BY <2>3, <2>4, ReloadedAgrees, ClosedAgrees
<1>3. CASE CancelTrustPage
  <2>1. tr' = ClosedPage(tr)
    BY <1>3 DEF CancelTrustPage, TrIs
  <2> QED BY <1>1, <2>1, ClosedAgrees
<1>4. CASE EditByHand
  <2>1. PICK file \in HandWritten \ {tr.file} : tr' = Edited([tr EXCEPT !.file = file, !.byHand = TRUE])
    BY <1>4, Zenon DEF EditByHand, TrIs
  <2>2. file \in Seq(TrustRuleType)
    BY TrustRulesAssumption, Zenon
  <2>3. PICK S : S = [tr EXCEPT !.file = file, !.byHand = TRUE]
    OBVIOUS
  <2>4. S \in TrType
    BY <1>1, <2>2, <2>3 DEF TrType
  <2>5. /\ S.rules = tr.rules /\ S.wanted = tr.wanted /\ S.row = tr.row /\ S.form = tr.form
        /\ S.policy = tr.policy /\ S.byHand
    BY <1>1, <2>3 DEF TrType
  <2>6. PageAgrees(S) /\ PolicyKept(S)
    BY <1>1, <2>5 DEF PageAgrees, PolicyKept
  <2> QED BY <2>1, <2>3, <2>4, <2>6, CountedAgrees DEF TrInv
<1>5. CASE ReloadRules
  <2>1. tr' = Reloaded(tr)
    BY <1>5 DEF ReloadRules, TrIs
  <2> QED BY <1>1, <2>1, ReloadedAgrees DEF TrInv
<1> QED BY <1>2, <1>3, <1>4, <1>5

LEMMA TrSteps ==
  ASSUME TrInv(tr), TrNext
  PROVE  TrInv(tr')
BY OpenAgrees, ChooseAgrees, EditAgrees, AddAgrees, RemoveAgrees, ImportAgrees, SaveAgrees DEF TrNext

LEMMA TrStarts ==
  ASSUME TrInit
  PROVE  TrInv(tr)
<1>1. PICK file \in HandWritten :
        tr = [file |-> file, policy |-> TrustPolicyOf(file), open |-> FALSE, rules |-> << >>, row |-> 0,
              form |-> BlankRule, wanted |-> << >>, byHand |-> FALSE, edits |-> 0]
  BY DEF TrInit
<1>2. file \in Seq(TrustRuleType)
  BY TrustRulesAssumption, Zenon
<1>3. PICK policyOf \in Seq(TrustRuleType) :
        policyOf = TrustPolicyOf(file) /\ NoOverlap(policyOf) /\ NamesDiffer(policyOf)
  BY <1>2, PolicyTyped
<1>4. << >> \in Seq(TrustRuleType) /\ BlankRule \in TrustRuleType /\ Len(<< >>) = 0
  BY BlankTyped
<1>5. tr \in TrType
  BY <1>1, <1>2, <1>3, <1>4 DEF TrType
<1>6. /\ tr.rules = << >> /\ tr.wanted = << >> /\ tr.row = 0 /\ tr.policy = policyOf /\ tr.file = file
  BY <1>1, <1>3
<1>7. KnownModes(<< >>)
  BY DEF KnownModes
<1>8. PageAgrees(tr)
  BY <1>4, <1>6, <1>7 DEF PageAgrees
<1>9. PolicyKept(tr)
  BY <1>3, <1>6 DEF PolicyKept
<1> QED BY <1>5, <1>8, <1>9 DEF TrInv

\* No host is covered by two rules of the policy.
LEMMA OneCovers ==
  ASSUME TrInv(tr), NEW h \in TrustHosts, NEW i \in DOMAIN tr.policy, NEW j \in DOMAIN tr.policy,
         RuleCovers(tr.policy[i], h), RuleCovers(tr.policy[j], h)
  PROVE  i = j
<1>1. tr.policy \in Seq(TrustRuleType) /\ NoOverlap(tr.policy)
  BY DEF TrInv, TrType, PolicyKept
<1>2. h \in Seq(STRING)
  BY TrustRulesAssumption, Zenon
<1>3. PICK r \in TrustRuleType : r = tr.policy[i]
  BY <1>1
<1>4. PICK s \in TrustRuleType : s = tr.policy[j]
  BY <1>1
<1>5. r.domains \in Seq(PatternType) /\ s.domains \in Seq(PatternType)
  BY DEF TrustRuleType
<1>6. PICK m \in DOMAIN r.domains : MatchesDomain(r.domains[m], h)
  BY <1>3 DEF RuleCovers, ToSet
<1>7. PICK n \in DOMAIN s.domains : MatchesDomain(s.domains[n], h)
  BY <1>4 DEF RuleCovers, ToSet
<1>8. r.domains[m] \in PatternType /\ s.domains[n] \in PatternType
  <2> HIDE DEF PatternType
  <2> QED BY <1>5
<1>9. DomainPatternsOverlap(r.domains[m], s.domains[n])
  BY <1>2, <1>6, <1>7, <1>8, MatchesOverlap
<1>10. << i, m >> = << j, n >>
  BY <1>1, <1>3, <1>4, <1>9 DEF NoOverlap
<1> QED BY <1>10

\* The least of some numbers.
LEMMA LeastIsMin ==
  ASSUME NEW S \in SUBSET Nat, NEW n \in S, \A l \in S : n <= l
  PROVE  Min(S) = n
<1>1. S # {} /\ n \in Nat
  OBVIOUS
<1>2. \E x \in S : \A y \in S : x <= y
  OBVIOUS
<1>3. Min(S) \in S /\ \A y \in S : Min(S) <= y
  BY <1>2 DEF Min
<1>4. Min(S) \in Nat /\ n <= Min(S) /\ Min(S) <= n
  BY <1>3
<1> QED BY <1>1, <1>4

\* What validates loads.
LEMMA ValidatedLoads ==
  ASSUME NEW rules \in Seq(TrustRuleType), KnownModes(rules), TrustValidated(rules)
  PROVE  PolicyLoads(rules) /\ TrustPolicyOf(rules) = Enabled(rules)
<1>1. PICK E : E = Enabled(rules)
  OBVIOUS
<1>2. PICK kept : kept = EnabledAt(rules)
  OBVIOUS
<1>3. /\ kept \in SUBSET (1 .. Len(rules)) /\ Len(rules) \in Nat
      /\ Cardinality(kept) \in Nat /\ DOMAIN E = 1 .. Cardinality(kept)
      /\ \A n \in DOMAIN E : PlaceOf(kept, n) \in kept /\ E[n] = rules[PlaceOf(kept, n)]
      /\ \A n, l \in DOMAIN E : n < l => PlaceOf(kept, n) < PlaceOf(kept, l)
  BY <1>1, <1>2, EnabledRules
<1>8. kept \subseteq DOMAIN rules
  BY <1>2 DEF EnabledAt
<1>4. NamesDiffer(rules) /\ NoOverlap(E) /\ \A r \in ToSet(E) : UsableRule(r)
  BY <1>1, Zenon DEF TrustValidated
<1>5. NamesDiffer(E)
  <2>1. ASSUME NEW n \in DOMAIN E PROVE PlaceOf(kept, n) \in DOMAIN rules /\ E[n] = rules[PlaceOf(kept, n)]
    BY <1>3, <1>8, Zenon
  <2>2. ASSUME NEW n \in DOMAIN E, NEW l \in DOMAIN E, n # l PROVE PlaceOf(kept, n) # PlaceOf(kept, l)
    <3>1. n < l \/ l < n
      BY <1>3, <2>2
    <3>2. PlaceOf(kept, n) \in Nat /\ PlaceOf(kept, l) \in Nat
      <4>1. PlaceOf(kept, n) \in kept /\ PlaceOf(kept, l) \in kept
        BY <1>3, Zenon
      <4>2. kept \subseteq Nat
        BY <1>3
      <4> QED BY <4>1, <4>2, Zenon
    <3>3. PlaceOf(kept, n) < PlaceOf(kept, l) \/ PlaceOf(kept, l) < PlaceOf(kept, n)
      BY <1>3, <3>1, Zenon
    <3> QED BY <3>2, <3>3
  <2>3. \A i, j \in DOMAIN rules : rules[i].name # "" /\ (i # j => rules[i].name # rules[j].name)
    BY <1>4, Zenon DEF NamesDiffer
  <2>4. ASSUME NEW n \in DOMAIN E, NEW l \in DOMAIN E
        PROVE  E[n].name # "" /\ (n # l => E[n].name # E[l].name)
    <3>1. E[n].name # ""
      BY <2>1, <2>3, Zenon
    <3>2. n # l => E[n].name # E[l].name
      BY <2>1, <2>2, <2>3, Zenon
    <3> QED BY <3>1, <3>2, Zenon
  <2> QED BY <2>4, Zenon DEF NamesDiffer
<1>6. ASSUME NEW r \in ToSet(E) PROVE r.mode \in Modes
  <2>1. PICK n \in DOMAIN E : r = E[n]
    BY <1>6, Zenon DEF ToSet
  <2>2. PlaceOf(kept, n) \in DOMAIN rules /\ E[n] = rules[PlaceOf(kept, n)]
    BY <1>3, <1>8, Zenon
  <2> QED BY <2>1, <2>2, Zenon DEF KnownModes
<1>7. PolicyLoads(rules)
  BY <1>1, <1>4, <1>5, <1>6, Zenon DEF PolicyLoads
<1> QED BY <1>7 DEF TrustPolicyOf

\* The rules a policy has for a host, and those a test of it finds.
CoversAt(rules, h) == { n \in 1 .. Len(rules) : RuleCovers(rules[n], h) }

TestedAt(rules, h) == { k \in 1 .. Len(rules) : rules[k].enabled /\ rules[k].name # "" /\ RuleCovers(rules[k], h) }

LEMMA TestedRule ==
  ASSUME NEW rules, NEW h
  PROVE  TestDomain(rules, h) = IF (IF TestedAt(rules, h) # {} THEN Min(TestedAt(rules, h)) ELSE 0) = 0 THEN ""
                                ELSE rules[IF TestedAt(rules, h) # {} THEN Min(TestedAt(rules, h)) ELSE 0].name
BY Zenon DEF TestDomain, SelectInSeq, TestedAt

\* The test of a domain names the rule that the policy has for it.
LEMMA TestAgrees ==
  ASSUME NEW rules \in Seq(TrustRuleType), NamesDiffer(rules), NEW h
  PROVE  TestDomain(rules, h) = IF RuleForHost(Enabled(rules), h) = 0 THEN ""
                                ELSE Enabled(rules)[RuleForHost(Enabled(rules), h)].name
<1>1. PICK E : E = Enabled(rules)
  OBVIOUS
<1>2. PICK kept : kept = EnabledAt(rules)
  OBVIOUS
<1>3. /\ kept \in SUBSET (1 .. Len(rules)) /\ Len(rules) \in Nat
      /\ Len(E) \in Nat /\ DOMAIN E = 1 .. Len(E)
      /\ \A n \in DOMAIN E : PlaceOf(kept, n) \in kept /\ E[n] = rules[PlaceOf(kept, n)]
      /\ \A i \in kept : Rank(kept, i) \in DOMAIN E /\ PlaceOf(kept, Rank(kept, i)) = i
      /\ \A n, l \in DOMAIN E : n < l => PlaceOf(kept, n) < PlaceOf(kept, l)
  BY <1>1, <1>2, EnabledRules
<1>4. PICK I : I = CoversAt(E, h)
  OBVIOUS
<1>5. RuleForHost(E, h) = IF I # {} THEN Min(I) ELSE 0
  BY <1>4 DEF RuleForHost, SelectInSeq, CoversAt
<1>6. PICK K : K = TestedAt(rules, h)
  OBVIOUS
<1>7. PICK i : i = IF K # {} THEN Min(K) ELSE 0
  OBVIOUS
<1>8. TestDomain(rules, h) = IF i = 0 THEN "" ELSE rules[i].name
  BY <1>6, <1>7, TestedRule, Zenon
<1>13. I \subseteq DOMAIN E /\ \A n \in DOMAIN E : n \in I <=> RuleCovers(E[n], h)
  BY <1>3, <1>4 DEF CoversAt
<1>14. DOMAIN rules = 1 .. Len(rules)
  OBVIOUS
<1>9. ASSUME NEW n \in I PROVE PlaceOf(kept, n) \in K
  <2>1. n \in DOMAIN E /\ RuleCovers(E[n], h)
    BY <1>13, Zenon
  <2>2. PICK k \in kept : k = PlaceOf(kept, n) /\ E[n] = rules[k]
    BY <1>3, <2>1, Zenon
  <2>3. k \in DOMAIN rules /\ rules[k].enabled
    BY <1>2, <2>2, Zenon DEF EnabledAt
  <2>4. rules[k].name # ""
    BY <2>3, Zenon DEF NamesDiffer
  <2>5. RuleCovers(rules[k], h)
    BY <2>1, <2>2
  <2>6. k \in K
    BY <1>6, <1>14, <2>3, <2>4, <2>5, Zenon DEF TestedAt
  <2> QED BY <2>2, <2>6
<1>10. ASSUME NEW k \in K PROVE k \in kept /\ Rank(kept, k) \in I
  <2>1. k \in DOMAIN rules /\ rules[k].enabled /\ RuleCovers(rules[k], h)
    BY <1>6, <1>14, Zenon DEF TestedAt
  <2>2. k \in kept
    BY <1>2, <2>1, Zenon DEF EnabledAt
  <2>3. Rank(kept, k) \in DOMAIN E /\ E[Rank(kept, k)] = rules[k]
    BY <1>3, <2>2, Zenon
  <2> QED BY <1>13, <2>1, <2>2, <2>3, Zenon
<1>11. CASE I = {}
  <2>1. K = {}
    BY <1>10, <1>11
  <2>2. i = 0 /\ RuleForHost(E, h) = 0
    BY <1>5, <1>7, <1>11, <2>1
  <2> QED BY <1>1, <1>8, <2>2, Zenon
<1>12. CASE I # {}
  <2>1. I \in SUBSET Nat /\ \A n \in I : n # 0 /\ n \in DOMAIN E
    BY <1>3, <1>13
  <2>2. PICK n \in I : \A l \in I : n <= l
    BY <1>12, <2>1, LeastNumber
  <2>3. Min(I) = n
    BY <2>1, <2>2, LeastIsMin
  <2>4. PICK k \in K : k = PlaceOf(kept, n)
    BY <1>9
  <2>5. K \in SUBSET Nat /\ k # 0
    <3>1. K \subseteq 1 .. Len(rules)
      BY <1>10, <1>3
    <3> QED BY <1>3, <3>1
  <2>6. ASSUME NEW l \in K PROVE k <= l
    <3>1. PICK o \in I : o = Rank(kept, l) /\ PlaceOf(kept, o) = l
      BY <1>3, <1>10
    <3>2. n <= o /\ n \in Nat /\ o \in Nat
      BY <2>1, <2>2
    <3>3. CASE n = o
      <4>1. k = l
        BY <2>4, <3>1, <3>3
      <4>2. k \in Nat
        BY <2>5
      <4> QED BY <4>1, <4>2
    <3>4. CASE n < o
      <4>1. k < l
        BY <1>3, <2>1, <2>4, <3>1, <3>4
      <4>2. k \in Nat /\ l \in Nat
        BY <2>5
      <4> QED BY <4>1, <4>2
    <3> QED BY <3>2, <3>3, <3>4
  <2>7. Min(K) = k
    BY <2>5, <2>6, LeastIsMin
  <2>8. i = k
    BY <1>7, <2>4, <2>7
  <2>9. TestDomain(rules, h) = rules[k].name
    BY <1>8, <2>5, <2>8, Zenon
  <2>10. RuleForHost(E, h) = n /\ n # 0
    BY <1>5, <1>12, <2>1, <2>3
  <2>11. E[n] = rules[k]
    BY <1>3, <2>1, <2>4
  <2> QED BY <1>1, <2>9, <2>10, <2>11, Zenon
<1> QED BY <1>11, <1>12, Zenon

LEMMA TrAgrees ==
  ASSUME TrInv(tr)
  PROVE  RulesAgree
<1>1. /\ tr.rules \in Seq(TrustRuleType) /\ tr.rules = tr.wanted /\ (tr.row # 0 => tr.form = tr.rules[tr.row])
      /\ KnownModes(tr.rules)
  BY DEF TrInv, TrType, PageAgrees
<1>2. ASSUME NEW h \in TrustHosts, NEW r \in ToSet(tr.policy), NEW s \in ToSet(tr.policy),
             RuleCovers(r, h), RuleCovers(s, h)
      PROVE  r = s
  <2>1. PICK i \in DOMAIN tr.policy : r = tr.policy[i]
    BY DEF ToSet
  <2>2. PICK j \in DOMAIN tr.policy : s = tr.policy[j]
    BY DEF ToSet
  <2>3. i = j
    BY <1>2, <2>1, <2>2, OneCovers
  <2> QED BY <2>1, <2>2, <2>3
<1>3. ASSUME TrustValidated(tr.rules), NEW h
      PROVE  /\ PolicyLoads(tr.rules)
             /\ LET i == RuleForHost(TrustPolicyOf(tr.rules), h)
                IN  TestDomain(tr.rules, h) = IF i = 0 THEN "" ELSE TrustPolicyOf(tr.rules)[i].name
  <2>1. PolicyLoads(tr.rules) /\ TrustPolicyOf(tr.rules) = Enabled(tr.rules)
    BY <1>1, <1>3, ValidatedLoads
  <2>2. NamesDiffer(tr.rules)
    BY <1>3, Zenon DEF TrustValidated
  <2>3. TestDomain(tr.rules, h) = IF RuleForHost(Enabled(tr.rules), h) = 0 THEN ""
                                  ELSE Enabled(tr.rules)[RuleForHost(Enabled(tr.rules), h)].name
    BY <1>1, <2>2, TestAgrees, Zenon
  <2> QED BY <2>1, <2>3, Zenon
<1>4. ~tr.byHand => tr.policy = TrustPolicyOf(tr.file)
  BY DEF TrInv, PolicyKept
<1>5. TrustValidated(tr.rules) => PolicyLoads(tr.rules)
  BY <1>1, ValidatedLoads
<1> QED BY <1>1, <1>2, <1>3, <1>4, <1>5, Zenon DEF RulesAgree

----------------------------------------------------------------------------
(***************************************************************************)
(* A tab under the trust rules.  While a load goes on that was not refused *)
(* the URL taken for the top level's is one the load was sent to, so a     *)
(* rule that is accepted for it is one of the load's; and what had to be   *)
(* recovered is put down to a rule at once.                                *)
(***************************************************************************)
Blank == ""

Pages == Origins \cup {Nowhere}

StatusType ==
  [kind : {"ready", "loading", "failed", "blocked", "secure", "insecure", "none"}, rule : UsedNames]

Befores == StatusType \X UsedNames

Acceptances == Pages \X UsedNames

TsType ==
  [page : Pages, target : Pages, top : Pages, loading : BOOLEAN, rule : UsedNames, status : StatusType,
   before : Befores, delegated : BOOLEAN, committed : BOOLEAN, refused : BOOLEAN,
   visited : SUBSET Origins, accepted : SUBSET Acceptances, recovered : SUBSET Acceptances,
   ended : {Blank, "ok", "failed", "delegated"}, loads : Nat]

\* What a secure status says of the load, if it names a rule.
Named(S) == S.status.rule # Blank => \E o \in S.visited : << o, S.status.rule >> \in S.accepted

Secure(S) == S.status.kind = "secure" => S.status.rule # Blank /\ Named(S)

Recovered(S) == S.rule = Blank => S.recovered = {}

LoadAgrees(S) ==
  /\ S.target \in S.visited /\ S.top = S.target
  /\ S.committed => S.page = S.top
  /\ Secure(S) /\ Recovered(S)

LoadedAgrees(S) ==
  /\ S.page = S.top /\ S.page \in S.visited
  /\ S.status.kind = "secure" =>
       /\ S.page.https /\ Named(S)
       /\ S.status.rule = Blank => \A recovery \in S.recovered : recovery[1] # S.page

TabInv(S) ==
  /\ S \in TsType
  /\ S.loading => S.ended = Blank
  /\ S.loading /\ ~S.refused => LoadAgrees(S)
  /\ S.ended = "ok" => LoadedAgrees(S)

LEMMA BlankDiffers == Blank # "ok"
BY Zenon DEF Blank

LEMMA StatusTyped ==
  /\ Blank \in UsedNames /\ Nowhere \in Pages
  /\ \A kind \in {"ready", "loading", "failed", "blocked", "insecure", "none"} :
       Plainly(kind) \in StatusType /\ Plainly(kind).kind = kind /\ Plainly(kind).rule = Blank
  /\ \A name \in UsedNames :
       SecureBy(name) \in StatusType /\ SecureBy(name).kind = "secure" /\ SecureBy(name).rule = name
<1>1. Blank \in UsedNames
  BY UsedParts, Zenon DEF Blank
<1>2. Nowhere \in Pages
  BY DEF Pages
<1>3. ASSUME NEW kind \in {"ready", "loading", "failed", "blocked", "secure", "insecure", "none"},
             NEW name \in UsedNames
      PROVE  [kind |-> kind, rule |-> name] \in StatusType
  BY DEF StatusType
<1>4. ASSUME NEW kind \in {"ready", "loading", "failed", "blocked", "insecure", "none"}
      PROVE  Plainly(kind) \in StatusType /\ Plainly(kind).kind = kind /\ Plainly(kind).rule = Blank
  <2>1. kind \in {"ready", "loading", "failed", "blocked", "secure", "insecure", "none"}
    BY Zenon
  <2>2. Plainly(kind) \in StatusType
    BY <1>1, <1>3, <2>1, Zenon DEF Plainly, Blank
  <2>3. Plainly(kind) = [kind |-> kind, rule |-> Blank]
    BY Zenon DEF Plainly, Blank
  <2> QED BY <2>2, <2>3
<1>5. ASSUME NEW name \in UsedNames
      PROVE  SecureBy(name) \in StatusType /\ SecureBy(name).kind = "secure" /\ SecureBy(name).rule = name
  <2>1. "secure" \in {"ready", "loading", "failed", "blocked", "secure", "insecure", "none"}
    OBVIOUS
  <2>2. SecureBy(name) \in StatusType
    BY <1>3, <2>1, Zenon DEF SecureBy
  <2> QED BY <2>2 DEF SecureBy
<1> QED BY <1>1, <1>2, <1>4, <1>5, Zenon

\* A request of the load, whatever becomes of it, leaves a load that agrees.
LEMMA RequestsAgree ==
  ASSUME NEW S \in TsType, S.loading, S.ended = Blank, Secure(S), Recovered(S), ~S.committed, NEW T \in Requested(S)
  PROVE  TabInv(T)
<1>1. CASE \E o \in Origins \ S.visited : T = [S EXCEPT !.top = o, !.target = o, !.visited = @ \cup {o}]
  <2>1. PICK o \in Origins : T = [S EXCEPT !.top = o, !.target = o, !.visited = @ \cup {o}]
    BY <1>1, Zenon
  <2>2. PICK visited \in SUBSET Origins : visited = S.visited \cup {o}
    BY DEF TsType
  <2>3. T = [S EXCEPT !.top = o, !.target = o, !.visited = visited]
    BY <2>1, <2>2
  <2>4. o \in Pages
    BY DEF Pages
  <2>5. T \in TsType
    BY <2>4, <2>3 DEF TsType
  <2>6. /\ T.top = o /\ T.target = o /\ T.visited = S.visited \cup {o}
        /\ T.status = S.status /\ T.accepted = S.accepted /\ T.recovered = S.recovered /\ T.rule = S.rule
        /\ T.ended = S.ended
    BY <2>2, <2>3 DEF TsType
  <2>7. ~T.committed
    BY <2>3 DEF TsType
  <2>8. Secure(T)
    BY <2>6 DEF Secure, Named
  <2>9. Recovered(T)
    BY <2>6 DEF Recovered
  <2>10. LoadAgrees(T)
    BY <2>6, <2>7, <2>8, <2>9 DEF LoadAgrees
  <2>11. T.ended = Blank /\ T.ended # "ok"
    BY <2>6, BlankDiffers
  <2> QED BY <2>5, <2>10, <2>11 DEF TabInv
<1>2. CASE T = [S EXCEPT !.delegated = TRUE, !.refused = TRUE]
  <2>1. T \in TsType
    BY <1>2 DEF TsType
  <2>2. T.refused
    BY <1>2 DEF TsType
  <2>3. T.ended = Blank
    BY <1>2 DEF TsType
  <2> QED BY <2>1, <2>2, <2>3, BlankDiffers, Zenon DEF TabInv
<1>3. CASE T = [S EXCEPT !.refused = TRUE]
  <2>1. T \in TsType
    BY <1>3 DEF TsType
  <2>2. T.refused
    BY <1>3 DEF TsType
  <2>3. T.ended = Blank
    BY <1>3 DEF TsType
  <2> QED BY <2>1, <2>2, <2>3, BlankDiffers, Zenon DEF TabInv
<1>4. \/ \E o \in Origins \ S.visited : T = [S EXCEPT !.top = o, !.target = o, !.visited = @ \cup {o}]
      \/ T = [S EXCEPT !.delegated = TRUE, !.refused = TRUE] \/ T = [S EXCEPT !.refused = TRUE]
  BY Zenon DEF Requested
<1> QED BY <1>1, <1>2, <1>3, <1>4, Zenon

RulesAreNamed ==
  /\ tr.policy \in Seq(TrustRuleType)
  /\ \A i \in DOMAIN tr.policy : tr.policy[i].name \in UsedNames /\ tr.policy[i].name # Blank

LEMMA PolicyNamed ==
  ASSUME TrInv(tr)
  PROVE  RulesAreNamed
<1>1. tr.policy \in Seq(TrustRuleType) /\ NamesDiffer(tr.policy)
  BY DEF TrInv, TrType, PolicyKept
<1>2. ASSUME NEW i \in DOMAIN tr.policy PROVE tr.policy[i].name \in UsedNames
  <2>1. PICK r \in TrustRuleType : r = tr.policy[i]
    BY <1>1
  <2> QED BY <2>1 DEF TrustRuleType
<1>3. ASSUME NEW i \in DOMAIN tr.policy PROVE tr.policy[i].name # Blank
  BY <1>1, Zenon DEF NamesDiffer, Blank
<1> QED BY <1>1, <1>2, <1>3 DEF RulesAreNamed

\* What a rule that accepts a certificate, and one that does not, make of the tab.
Taken(S, origin, name, ofLoad) ==
  [S EXCEPT !.accepted = @ \cup {<< origin, name >>},
            !.recovered = IF ofLoad THEN @ \cup {<< origin, name >>} ELSE @]

Marked(S, name, status) == [S EXCEPT !.rule = name, !.status = status]

Blocked(S, ofLoad) == [S EXCEPT !.status = Plainly("blocked"), !.refused = @ \/ ofLoad]

LEMMA MarkedTyped ==
  ASSUME NEW T \in TsType, NEW name \in UsedNames, NEW status \in StatusType, NEW U, U = Marked(T, name, status)
  PROVE  /\ U \in TsType
         /\ U.page = T.page /\ U.target = T.target /\ U.top = T.top /\ U.rule = name /\ U.status = status
         /\ U.visited = T.visited /\ U.accepted = T.accepted /\ U.ended = T.ended /\ U.recovered = T.recovered
         /\ U.loading = T.loading /\ U.refused = T.refused /\ U.committed = T.committed
<1>1. U \in TsType
  BY DEF TsType, Marked
<1>2. /\ U.page = T.page /\ U.target = T.target /\ U.top = T.top /\ U.rule = name /\ U.status = status
      /\ U.visited = T.visited /\ U.accepted = T.accepted /\ U.ended = T.ended /\ U.recovered = T.recovered
  BY DEF TsType, Marked
<1>3. U.loading = T.loading /\ U.refused = T.refused /\ U.committed = T.committed
  BY DEF TsType, Marked
<1> QED BY <1>1, <1>2, <1>3

\* A rule accepts a certificate.
LEMMA AcceptedAgrees ==
  ASSUME NEW S, TabInv(S), NEW origin \in Pages, origin.https, NEW name \in UsedNames, name # Blank,
         NEW ofLoad \in BOOLEAN, ofLoad => S.loading /\ origin = S.top
  PROVE  /\ origin = S.top => TabInv(Marked(Taken(S, origin, name, ofLoad), name, SecureBy(name)))
         /\ origin # S.top => TabInv(Taken(S, origin, name, ofLoad))
<1>0. PICK T : T = Taken(S, origin, name, ofLoad)
  OBVIOUS
<1>1. S \in TsType
  BY DEF TabInv
<1>2. PICK recovered \in SUBSET Acceptances :
        /\ recovered = IF ofLoad THEN S.recovered \cup {<< origin, name >>} ELSE S.recovered
        /\ \A r \in recovered : r \in S.recovered \/ (origin = S.top /\ ofLoad)
  <2>1. S.recovered \in SUBSET Acceptances /\ << origin, name >> \in Acceptances
    BY <1>1 DEF TsType, Acceptances
  <2> QED BY <2>1
<1>3. PICK accepted \in SUBSET Acceptances : accepted = S.accepted \cup {<< origin, name >>}
  <2>1. S.accepted \in SUBSET Acceptances /\ << origin, name >> \in Acceptances
    BY <1>1 DEF TsType, Acceptances
  <2> QED BY <2>1
<1>4. T = [S EXCEPT !.accepted = accepted, !.recovered = recovered]
  BY <1>0, <1>2, <1>3 DEF Taken
<1>5. T \in TsType
  BY <1>1, <1>4 DEF TsType
<1>6. /\ T.page = S.page /\ T.target = S.target /\ T.top = S.top /\ T.rule = S.rule /\ T.status = S.status
      /\ T.visited = S.visited /\ T.accepted = accepted /\ T.ended = S.ended /\ T.recovered = recovered
      /\ T.loading = S.loading /\ T.refused = S.refused /\ T.committed = S.committed
  BY <1>1, <1>4 DEF TsType
<1>7. CASE origin = S.top
  <2>1. SecureBy(name) \in StatusType /\ SecureBy(name).kind = "secure" /\ SecureBy(name).rule = name
    BY StatusTyped, Zenon
  <2>2. PICK status \in StatusType : status = SecureBy(name) /\ status.kind = "secure" /\ status.rule = name
    BY <2>1
  <2>3. PICK U : U = Marked(T, name, status)
    OBVIOUS
  <2>4. U \in TsType
    BY <1>5, <2>3, MarkedTyped
  <2>5. /\ U.page = S.page /\ U.target = S.target /\ U.top = S.top /\ U.rule = name /\ U.status = status
        /\ U.visited = S.visited /\ U.accepted = accepted /\ U.ended = S.ended /\ U.recovered = recovered
        /\ U.loading = S.loading /\ U.refused = S.refused /\ U.committed = S.committed
    <3>1. /\ U.page = T.page /\ U.target = T.target /\ U.top = T.top /\ U.rule = name /\ U.status = status
          /\ U.visited = T.visited /\ U.accepted = T.accepted /\ U.ended = T.ended /\ U.recovered = T.recovered
          /\ U.loading = T.loading /\ U.refused = T.refused /\ U.committed = T.committed
      BY <1>5, <2>3, MarkedTyped
    <3> QED BY <1>6, <3>1
  <2>6. ASSUME S.top \in S.visited PROVE Named(U)
    <3>1. << S.top, U.status.rule >> \in U.accepted /\ S.top \in U.visited
      BY <1>3, <1>7, <2>2, <2>5, <2>6
    <3> QED BY <3>1 DEF Named
  <2>7. LoadAgrees(S) => LoadAgrees(U)
    <3> SUFFICES ASSUME LoadAgrees(S) PROVE LoadAgrees(U)
      OBVIOUS
    <3>1. S.target \in S.visited /\ S.top = S.target /\ (S.committed => S.page = S.top)
      BY DEF LoadAgrees
    <3>2. Secure(U)
      BY <2>2, <2>5, <2>6, <3>1 DEF Secure
    <3>3. Recovered(U)
      BY <2>5 DEF Recovered
    <3> QED BY <2>5, <3>1, <3>2, <3>3 DEF LoadAgrees
  <2>8. LoadedAgrees(S) => LoadedAgrees(U)
    <3> SUFFICES ASSUME LoadedAgrees(S) PROVE LoadedAgrees(U)
      OBVIOUS
    <3>1. S.page = S.top /\ S.page \in S.visited
      BY DEF LoadedAgrees
    <3>2. U.page.https /\ Named(U) /\ U.status.rule # Blank
      BY <1>7, <2>2, <2>5, <2>6, <3>1
    <3> QED BY <2>5, <3>1, <3>2 DEF LoadedAgrees
  <2>9. (U.loading => U.ended = Blank) /\ (U.loading /\ ~U.refused => LoadAgrees(S)) /\ (U.ended = "ok" => LoadedAgrees(S))
    BY <2>5 DEF TabInv
  <2>10. TabInv(U)
    BY <2>4, <2>7, <2>8, <2>9 DEF TabInv
  <2> QED BY <1>0, <1>7, <2>2, <2>3, <2>10
<1>8. CASE origin # S.top
  <2>1. ~ofLoad /\ T.recovered = S.recovered
    BY <1>2, <1>6, <1>8
  <2>2. Named(S) => Named(T)
    BY <1>3, <1>6 DEF Named
  <2>3. Secure(S) => Secure(T)
    BY <1>6, <2>2 DEF Secure
  <2>4. Recovered(S) => Recovered(T)
    BY <1>6, <2>1 DEF Recovered
  <2>5. LoadAgrees(S) => LoadAgrees(T)
    BY <1>6, <2>3, <2>4 DEF LoadAgrees
  <2>6. LoadedAgrees(S) => LoadedAgrees(T)
    BY <1>6, <2>1, <2>2 DEF LoadedAgrees
  <2>7. (T.loading => T.ended = Blank) /\ (T.loading /\ ~T.refused => LoadAgrees(S)) /\ (T.ended = "ok" => LoadedAgrees(S))
    BY <1>6 DEF TabInv
  <2>8. TabInv(T)
    BY <1>5, <2>5, <2>6, <2>7 DEF TabInv
  <2> QED BY <1>0, <1>8, <2>8
<1> QED BY <1>7, <1>8

\* A certificate is not accepted.
LEMMA RefusedAgrees ==
  ASSUME NEW S, TabInv(S), NEW ofLoad \in BOOLEAN
  PROVE  TabInv(Blocked(S, ofLoad))
<1>0. PICK T : T = Blocked(S, ofLoad)
  OBVIOUS
<1>1. S \in TsType
  BY DEF TabInv
<1>2. PICK status \in StatusType : status = Plainly("blocked") /\ status.kind = "blocked"
  BY StatusTyped
<1>3. PICK refused \in BOOLEAN : refused = (S.refused \/ ofLoad)
  OBVIOUS
<1>4. T = [S EXCEPT !.status = status, !.refused = refused]
  BY <1>0, <1>2, <1>3 DEF Blocked
<1>5. T \in TsType
  BY <1>1, <1>4 DEF TsType
<1>6. /\ T.page = S.page /\ T.target = S.target /\ T.top = S.top /\ T.rule = S.rule /\ T.status = status
      /\ T.visited = S.visited /\ T.accepted = S.accepted /\ T.ended = S.ended /\ T.recovered = S.recovered
      /\ T.loading = S.loading /\ T.refused = refused /\ T.committed = S.committed
  BY <1>1, <1>4 DEF TsType
<1>7. T.status.kind # "secure"
  BY <1>2, <1>6
<1>8. LoadAgrees(S) => LoadAgrees(T)
  BY <1>6, <1>7 DEF LoadAgrees, Secure, Recovered
<1>9. LoadedAgrees(S) => LoadedAgrees(T)
  BY <1>6, <1>7 DEF LoadedAgrees
<1>10. (T.loading => T.ended = Blank) /\ (T.loading /\ ~T.refused => LoadAgrees(S)) /\ (T.ended = "ok" => LoadedAgrees(S))
  BY <1>3, <1>6 DEF TabInv
<1>11. TabInv(T)
  BY <1>5, <1>8, <1>9, <1>10 DEF TabInv
<1> QED BY <1>0, <1>11

\* The rule for a host is one of the policy.
LEMMA RuleIsThere ==
  ASSUME NEW R, NEW rules \in Seq(R), NEW h
  PROVE  RuleForHost(rules, h) # 0 => RuleForHost(rules, h) \in DOMAIN rules
<1> SUFFICES ASSUME RuleForHost(rules, h) # 0 PROVE RuleForHost(rules, h) \in DOMAIN rules
  OBVIOUS
<1>1. PICK I : I = { n \in 1 .. Len(rules) : RuleCovers(rules[n], h) }
  OBVIOUS
<1>2. RuleForHost(rules, h) = IF I # {} THEN Min(I) ELSE 0
  BY <1>1 DEF RuleForHost, SelectInSeq
<1>3. I \in SUBSET Nat /\ I # {} /\ I \subseteq DOMAIN rules
  BY <1>1, <1>2
<1>4. PICK n \in I : \A l \in I : n <= l
  BY <1>3, LeastNumber
<1>5. Min(I) = n
  BY <1>3, <1>4, LeastIsMin
<1> QED BY <1>2, <1>3, <1>4, <1>5

\* A certificate error, of the load or of something else, leaves a tab that agrees.
LEMMA ErrorsAgree ==
  ASSUME TabInv(ts), RulesAreNamed, NEW origin \in Pages, origin.https, NEW chain, NEW ofLoad \in BOOLEAN,
         ofLoad => Requesting /\ origin = ts.target
  PROVE  TabInv(HandleCertificateError(origin, chain, ofLoad))
<1>1. PICK i : i = RuleForHost(tr.policy, origin.host)
  OBVIOUS
<1>2. ofLoad => ts.loading /\ origin = ts.top
  BY DEF Requesting, TabInv, LoadAgrees
<1>3. CASE i # 0 /\ Recovers(chain, tr.policy[i])
  <2>1. PICK name : name = tr.policy[i].name
    OBVIOUS
  <2>2. name \in UsedNames /\ name # Blank
    <3>1. tr.policy \in Seq(TrustRuleType)
      BY DEF RulesAreNamed
    <3>2. RuleForHost(tr.policy, origin.host) # 0 => RuleForHost(tr.policy, origin.host) \in DOMAIN tr.policy
      BY <3>1, RuleIsThere
    <3>3. i \in DOMAIN tr.policy
      BY <1>1, <1>3, <3>2, Zenon
    <3> QED BY <2>1, <3>3, Zenon DEF RulesAreNamed
  <2>3. /\ origin = ts.top => TabInv(Marked(Taken(ts, origin, name, ofLoad), name, SecureBy(name)))
        /\ origin # ts.top => TabInv(Taken(ts, origin, name, ofLoad))
    BY <1>2, <2>2, AcceptedAgrees, Zenon
  <2>4. HandleCertificateError(origin, chain, ofLoad) =
          IF origin = ts.top THEN Marked(Taken(ts, origin, name, ofLoad), name, SecureBy(name))
          ELSE Taken(ts, origin, name, ofLoad)
    BY <1>1, <1>3, <2>1, Zenon DEF HandleCertificateError, IsSameWebOrigin, Marked, Taken
  <2> QED BY <2>3, <2>4, Zenon
<1>4. CASE ~(i # 0 /\ Recovers(chain, tr.policy[i]))
  <2>1. HandleCertificateError(origin, chain, ofLoad) = Blocked(ts, ofLoad)
    BY <1>1, <1>4, Zenon DEF HandleCertificateError, Blocked
  <2>2. TabInv(Blocked(ts, ofLoad))
    BY RefusedAgrees, Zenon
  <2> QED BY <2>1, <2>2, Zenon
<1> QED BY <1>3, <1>4, Zenon

LEMMA StartAgrees ==
  ASSUME TabInv(ts), LoadStarted
  PROVE  TabInv(ts')
<1>1. ts \in TsType
  BY DEF TabInv
<1>2. PICK S : S =
        [ts EXCEPT !.before = << ts.status, ts.rule >>, !.delegated = FALSE, !.rule = Blank, !.loading = TRUE,
                   !.status = Plainly("loading"), !.target = Nowhere, !.committed = FALSE, !.refused = FALSE,
                   !.visited = {}, !.accepted = {}, !.recovered = {}, !.ended = Blank, !.loads = ts.loads + 1]
  OBVIOUS
<1>3. ts' \in Requested(S)
  BY <1>2, Zenon DEF LoadStarted, Blank
<1>4. PICK status \in StatusType : status = Plainly("loading") /\ status.kind = "loading"
  BY StatusTyped
<1>5. Blank \in UsedNames /\ Nowhere \in Pages
  BY StatusTyped, Zenon
<1>6. PICK before \in Befores : before = << ts.status, ts.rule >>
  BY <1>1 DEF TsType, Befores
<1>7. PICK loads \in Nat : loads = ts.loads + 1
  BY <1>1 DEF TsType
<1>8. S = [ts EXCEPT !.before = before, !.delegated = FALSE, !.rule = Blank, !.loading = TRUE,
                     !.status = status, !.target = Nowhere, !.committed = FALSE, !.refused = FALSE,
                     !.visited = {}, !.accepted = {}, !.recovered = {}, !.ended = Blank, !.loads = loads]
  BY <1>2, <1>4, <1>6, <1>7
<1>9. S \in TsType
  <2>1. PICK T : T = [ts EXCEPT !.before = before, !.delegated = FALSE, !.rule = Blank, !.loading = TRUE,
                                !.status = status, !.target = Nowhere]
    OBVIOUS
  <2>2. T \in TsType
    BY <1>1, <1>5, <2>1 DEF TsType
  <2>3. S = [T EXCEPT !.committed = FALSE, !.refused = FALSE, !.visited = {}, !.accepted = {}, !.recovered = {},
                      !.ended = Blank, !.loads = loads]
    BY <1>8, <2>1, Zenon
  <2> QED BY <2>2, <2>3 DEF TsType
<1>10. S.status = status /\ S.recovered = {} /\ S.ended = Blank /\ S.loading /\ ~S.committed
  BY <1>1, <1>8 DEF TsType
<1>11. Secure(S) /\ Recovered(S)
  BY <1>4, <1>10 DEF Secure, Recovered
<1> QED BY <1>3, <1>9, <1>10, <1>11, RequestsAgree

LEMMA CommitAgrees ==
  ASSUME TabInv(ts), UrlChanged
  PROVE  TabInv(ts')
<1>1. ts \in TsType /\ ts.loading /\ ts.ended = Blank /\ (~ts.refused => LoadAgrees(ts))
  BY DEF TabInv, UrlChanged
<1>2. ts' = [ts EXCEPT !.page = ts.target, !.top = ts.target, !.committed = TRUE]
  BY DEF UrlChanged
<1>3. ts' \in TsType
  BY <1>1, <1>2 DEF TsType
<1>4. /\ ts'.page = ts.target /\ ts'.target = ts.target /\ ts'.top = ts.target
      /\ ts'.rule = ts.rule /\ ts'.status = ts.status /\ ts'.visited = ts.visited
      /\ ts'.accepted = ts.accepted /\ ts'.ended = ts.ended /\ ts'.recovered = ts.recovered
      /\ ts'.loading = ts.loading /\ ts'.refused = ts.refused
  BY <1>1, <1>2 DEF TsType
<1>5. LoadAgrees(ts) => LoadAgrees(ts')
  BY <1>4 DEF LoadAgrees, Secure, Recovered, Named
<1>6. ts'.ended = Blank /\ ts'.ended # "ok" /\ (ts'.loading /\ ~ts'.refused => LoadAgrees(ts))
  BY <1>1, <1>4, BlankDiffers
<1> QED BY <1>3, <1>5, <1>6 DEF TabInv

Stopped(S) == [S EXCEPT !.loading = FALSE, !.target = Nowhere, !.refused = FALSE]

LEMMA LoadedStatus ==
  ASSUME NEW page
  PROVE  /\ Scheme(page) = "https" =>
              page.https /\ StatusOfLoaded(page) = IF ts.rule = Blank THEN SecureBy(Blank) ELSE ts.status
         /\ Scheme(page) # "https" =>
              StatusOfLoaded(page) = Plainly("insecure") \/ StatusOfLoaded(page) = Plainly("none")
<1>1. Scheme(page) = "https" => page.https
  <2>1. Scheme(page) = IF page = Nowhere THEN Blank ELSE IF page.https THEN "https" ELSE "http"
    BY Zenon DEF Scheme, Blank
  <2>2. Blank # "https" /\ "http" # "https"
    BY Zenon DEF Blank
  <2> QED BY <2>1, <2>2, Zenon
<1>2. Scheme(page) = "https" => StatusOfLoaded(page) = IF ts.rule = Blank THEN SecureBy(Blank) ELSE ts.status
  BY Zenon DEF StatusOfLoaded, Blank
<1>3. Scheme(page) # "https" =>
        StatusOfLoaded(page) = Plainly("insecure") \/ StatusOfLoaded(page) = Plainly("none")
  BY Zenon DEF StatusOfLoaded
<1> QED BY <1>1, <1>2, <1>3, Zenon

LEMMA FinishAgrees ==
  ASSUME TabInv(ts), LoadFinished
  PROVE  TabInv(ts')
<1>1. ts \in TsType /\ ts.loading /\ (~ts.refused => LoadAgrees(ts))
  BY DEF TabInv, LoadFinished
<1>2. PICK S : S = Stopped(ts)
  OBVIOUS
<1>3. \/ ts' = [S EXCEPT !.delegated = FALSE, !.status = ts.before[1], !.rule = ts.before[2], !.ended = "delegated"]
      \/ ts.committed /\ ~ts.refused /\ ts' = [S EXCEPT !.status = StatusOfLoaded(ts.page), !.ended = "ok"]
      \/ ts' = [S EXCEPT !.status = IF ts.rule = Blank THEN Plainly("failed") ELSE S.status, !.ended = "failed"]
  BY <1>2, Zenon DEF LoadFinished, Stopped, Blank
<1>4. Nowhere \in Pages
  BY StatusTyped, Zenon
<1>5. S \in TsType
  BY <1>1, <1>2, <1>4 DEF TsType, Stopped
<1>6. /\ ~S.loading /\ S.page = ts.page /\ S.top = ts.top /\ S.visited = ts.visited
      /\ S.accepted = ts.accepted /\ S.recovered = ts.recovered /\ S.status = ts.status
  BY <1>1, <1>2 DEF TsType, Stopped
<1>7. CASE ts' = [S EXCEPT !.delegated = FALSE, !.status = ts.before[1], !.rule = ts.before[2], !.ended = "delegated"]
  <2>1. PICK status \in StatusType, rule \in UsedNames : status = ts.before[1] /\ rule = ts.before[2]
    BY <1>1 DEF TsType, Befores
  <2>2. ts' = [S EXCEPT !.delegated = FALSE, !.status = status, !.rule = rule, !.ended = "delegated"]
    BY <1>7, <2>1
  <2>3. ts' \in TsType /\ ~ts'.loading /\ ts'.ended = "delegated"
    BY <1>5, <1>6, <2>2 DEF TsType
  <2> QED BY <2>3 DEF TabInv
<1>8. CASE ts' = [S EXCEPT !.status = IF ts.rule = Blank THEN Plainly("failed") ELSE S.status, !.ended = "failed"]
  <2>1. S.status \in StatusType /\ Plainly("failed") \in StatusType
    BY <1>5, StatusTyped DEF TsType
  <2>2. PICK status \in StatusType : status = IF ts.rule = Blank THEN Plainly("failed") ELSE S.status
    BY <2>1
  <2>3. ts' = [S EXCEPT !.status = status, !.ended = "failed"]
    BY <1>8, <2>2
  <2>4. ts' \in TsType /\ ~ts'.loading /\ ts'.ended = "failed"
    BY <1>5, <1>6, <2>3 DEF TsType
  <2> QED BY <2>4 DEF TabInv
<1>9. CASE ts.committed /\ ~ts.refused /\ ts' = [S EXCEPT !.status = StatusOfLoaded(ts.page), !.ended = "ok"]
  <2>1. LoadAgrees(ts)
    BY <1>1, <1>9
  <2>2. ts.page = ts.top /\ ts.page \in ts.visited /\ Secure(ts) /\ Recovered(ts)
    BY <1>9, <2>1 DEF LoadAgrees
  <2>3. PICK status : status = StatusOfLoaded(ts.page)
    OBVIOUS
  <2>4. ts' = [S EXCEPT !.status = status, !.ended = "ok"]
    BY <1>9, <2>3
  <2>5. CASE Scheme(ts.page) = "https"
    <3>1. status = IF ts.rule = Blank THEN SecureBy(Blank) ELSE ts.status
      BY <2>3, <2>5, LoadedStatus, Zenon
    <3>2. ts.page.https
      BY <2>5, LoadedStatus, Zenon
    <3>3. ts.status \in StatusType /\ SecureBy(Blank) \in StatusType /\ SecureBy(Blank).rule = Blank
      BY <1>1, StatusTyped DEF TsType
    <3>4. status \in StatusType
      BY <3>1, <3>3
    <3>5. /\ ts' \in TsType /\ ~ts'.loading /\ ts'.page = ts.page /\ ts'.top = ts.top
          /\ ts'.visited = ts.visited /\ ts'.accepted = ts.accepted /\ ts'.recovered = ts.recovered
          /\ ts'.status = status
      BY <1>5, <1>6, <2>4, <3>4 DEF TsType
    <3>6. CASE ts.rule = Blank
      <4>1. status.rule = Blank /\ ts.recovered = {}
        BY <2>2, <3>1, <3>3, <3>6 DEF Recovered
      <4>2. Named(ts')
        BY <3>5, <4>1 DEF Named
      <4>3. LoadedAgrees(ts')
        BY <2>2, <3>2, <3>5, <4>1, <4>2 DEF LoadedAgrees
      <4> QED BY <3>5, <4>3 DEF TabInv
    <3>7. CASE ts.rule # Blank
      <4>1. status = ts.status
        BY <3>1, <3>7
      <4>2. status.kind = "secure" => Named(ts') /\ status.rule # Blank
        BY <2>2, <3>5, <4>1 DEF Secure, Named
      <4>3. LoadedAgrees(ts')
        BY <2>2, <3>2, <3>5, <4>2 DEF LoadedAgrees
      <4> QED BY <3>5, <4>3 DEF TabInv
    <3> QED BY <3>6, <3>7
  <2>6. CASE Scheme(ts.page) # "https"
    <3>1. status = Plainly("insecure") \/ status = Plainly("none")
      BY <2>3, <2>6, LoadedStatus, Zenon
    <3>2. status \in StatusType /\ status.kind # "secure"
      <4>1. Plainly("insecure") \in StatusType /\ Plainly("insecure").kind = "insecure"
        BY StatusTyped
      <4>2. Plainly("none") \in StatusType /\ Plainly("none").kind = "none"
        BY StatusTyped
      <4> QED BY <3>1, <4>1, <4>2
    <3>3. /\ ts' \in TsType /\ ~ts'.loading /\ ts'.page = ts.page /\ ts'.top = ts.top
          /\ ts'.visited = ts.visited /\ ts'.status = status
      BY <1>5, <1>6, <2>4, <3>2 DEF TsType
    <3>4. LoadedAgrees(ts')
      BY <2>2, <3>2, <3>3 DEF LoadedAgrees
    <3> QED BY <3>3, <3>4 DEF TabInv
  <2> QED BY <2>5, <2>6
<1> QED BY <1>3, <1>7, <1>8, <1>9

\* Every step of the tab leaves it agreeing.
LEMMA TsSteps ==
  ASSUME TabInv(ts), RulesAreNamed, TsNext
  PROVE  TabInv(ts')
<1>1. CASE Redirected
  <2>1. ts.loading /\ ~ts.committed /\ ~ts.refused /\ ts' \in Requested(ts)
    BY <1>1 DEF Redirected, Requesting
  <2>2. ts \in TsType /\ ts.ended = Blank /\ Secure(ts) /\ Recovered(ts)
    BY <2>1 DEF TabInv, LoadAgrees
  <2> QED BY <2>1, <2>2, RequestsAgree
<1>2. CASE CertificateError
  <2>1. ts \in TsType
    BY DEF TabInv
  <2>2. ASSUME NEW chain, Requesting, ts.target.https, ts' = HandleCertificateError(ts.target, chain, TRUE)
        PROVE  TabInv(ts')
    <3>1. ts.target \in Pages /\ TRUE \in BOOLEAN
      BY <2>1 DEF TsType
    <3> QED BY <2>2, <3>1, ErrorsAgree
  <2>3. ASSUME NEW chain, NEW o \in Origins, o.https, ts' = HandleCertificateError(o, chain, FALSE)
        PROVE  TabInv(ts')
    <3>1. o \in Pages /\ FALSE \in BOOLEAN
      BY DEF Pages
    <3> QED BY <2>3, <3>1, ErrorsAgree
  <2> QED BY <1>2, <2>2, <2>3 DEF CertificateError
<1> QED BY <1>1, <1>2, StartAgrees, CommitAgrees, FinishAgrees DEF TsNext

LEMMA TsStarts ==
  ASSUME TsInit
  PROVE  TabInv(ts)
<1>1. Blank \in UsedNames /\ Nowhere \in Pages
  BY StatusTyped, Zenon
<1>2. PICK status \in StatusType : status = Plainly("ready")
  BY StatusTyped
<1>3. PICK before \in Befores : before = << status, Blank >>
  BY <1>1 DEF Befores
<1>4. ts = [page |-> Nowhere, target |-> Nowhere, top |-> Nowhere, loading |-> FALSE, rule |-> Blank,
            status |-> status, before |-> before, delegated |-> FALSE,
            committed |-> FALSE, refused |-> FALSE, visited |-> {}, accepted |-> {}, recovered |-> {},
            ended |-> Blank, loads |-> 0]
  BY <1>2, <1>3, Zenon DEF TsInit, Blank
<1>5. ts \in TsType
  BY <1>1, <1>4 DEF TsType
<1>6. ~ts.loading /\ ts.ended = Blank /\ ts.ended # "ok"
  BY <1>4, BlankDiffers
<1> QED BY <1>5, <1>6 DEF TabInv

----------------------------------------------------------------------------
(***************************************************************************)
(* The rules the user has entered are those that are saved and in force,   *)
(* whatever is typed, selected, added, removed or written by hand; and a   *)
(* tab calls a connection secure for the reason it names.                  *)
(***************************************************************************)
THEOREM TrustHolds == Spec => []TrustAgrees
<1> DEFINE Inv == TrInv(tr) /\ TabInv(ts)
<1>1. Init => Inv
  <2> SUFFICES ASSUME Init PROVE Inv
    OBVIOUS
  <2>1. TrInit /\ TsInit
    BY DEF Init, TabSecurityInit
  <2> QED BY <2>1, TrStarts, TsStarts
<1>2. Inv /\ [Next]_vars => Inv'
  <2> SUFFICES ASSUME Inv, [Next]_vars PROVE Inv'
    OBVIOUS
  <2>1. tr' = tr \/ TrNext
    BY DEF Next, vars, trVars
  <2>2. ts' = ts \/ TsNext
    BY DEF Next, vars, tsVars
  <2>3. TrInv(tr')
    BY <2>1, TrSteps
  <2>4. TabInv(ts')
    BY <2>2, TsSteps, PolicyNamed
  <2> QED BY <2>3, <2>4
<1>3. Inv => TrustAgrees
  <2> SUFFICES ASSUME Inv PROVE TrustAgrees
    OBVIOUS
  <2>1. RulesAgree
    BY TrAgrees
  <2>2. SecurityAgrees
    BY Zenon DEF SecurityAgrees, TabInv, LoadedAgrees, Named, Blank
  <2> QED BY <2>1, <2>2 DEF TrustAgrees
<1> HIDE DEF Inv
<1> QED BY <1>1, <1>2, <1>3, PTL DEF Spec
=============================================================================
