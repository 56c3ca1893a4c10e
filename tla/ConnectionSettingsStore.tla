---------------------- MODULE ConnectionSettingsStore ----------------------
(***************************************************************************)
(* site-connections.json and its .backup: CrossDomainSettings::save, one   *)
(* file operation at a time, the start of the program that loads them      *)
(* (MainWindow::initializeCrossDomainSettings, loadRecoveringBackup), and  *)
(* the lasting answers that save (BrowserProfile::resolveCrossDomain-      *)
(* Request).  File operations fail, the process dies between them, and     *)
(* files are lost or spoiled from outside.  QSaveFile replaces a file      *)
(* atomically; a file that cannot be read counts as spoiled.               *)
(*                                                                         *)
(* A configuration is known by the number of the save that made it.        *)
(***************************************************************************)
EXTENDS Naturals

CONSTANTS
  MaxEdition,  \* bound: saves
  MaxDamage    \* bound: files lost or spoiled

ASSUME StoreAssumption == MaxEdition \in Nat /\ MaxDamage \in Nat

Configs == [edition: 0 .. MaxEdition, enabled: BOOLEAN]

\* CrossDomainSettings::defaults(): the protection is off.
DefaultConfig == [edition |-> 0, enabled |-> FALSE]

NoFile == [is |-> "missing"]
Spoiled == [is |-> "spoiled"]

Contents == Configs \union {NoFile, Spoiled}

VARIABLES
  primary, backup,  \* contents of the two files
  running,          \* whether the process is up
  memory,           \* BrowserProfile::m_crossDomainSettings
  saving,           \* the save under way: its configuration and next step
  edition,          \* saves so far
  acked, previous,  \* history: edition last known to the user, and before it
  damage            \* files damaged so far

storeVars == <<primary, backup, running, memory, saving, edition, acked, previous, damage>>
history == <<edition, acked, previous, damage>>

NoSave == [step |-> "none", config |-> DefaultConfig, by |-> "start"]

Loads(contents) == contents \in Configs

Acknowledge(number) ==
  /\ acked' = number
  /\ previous' = acked

StoreInit ==
  /\ primary = NoFile /\ backup = NoFile
  /\ running = FALSE
  /\ memory = DefaultConfig
  /\ saving = NoSave
  /\ edition = 0 /\ acked = 0 /\ previous = 0 /\ damage = 0

----------------------------------------------------------------------------
\* Mutant of Loaded: unreadable settings start the program with its defaults.
LoadedOrDefaults(p, b) ==
  IF Loads(p) THEN p ELSE IF Loads(b) THEN b ELSE DefaultConfig

(***************************************************************************)
(* What a start makes of the files: the primary, else the backup, else the *)
(* defaults -- with the protection on when a file is there but unreadable. *)
(***************************************************************************)
Loaded(p, b) ==
  IF Loads(p) THEN p
  ELSE IF Loads(b) THEN b
  ELSE [DefaultConfig EXCEPT !.enabled = ~ (p = NoFile /\ b = NoFile)]

LoadSettings == memory' = Loaded(primary, backup)

(***************************************************************************)
(* A start writes nothing, unless neither file exists: then it saves the   *)
(* defaults, and does not mind if that fails (by "start").               *)
(***************************************************************************)
Start ==
  /\ ~ running
  /\ running' = TRUE
  /\ LoadSettings
  /\ saving' = IF primary = NoFile /\ backup = NoFile
               THEN [NoSave EXCEPT !.step = "backup"]
               ELSE NoSave
  /\ acked' = Loaded(primary, backup).edition
  /\ previous' = IF acked' < acked THEN acked' ELSE IF acked' = acked THEN previous ELSE acked
  /\ UNCHANGED <<primary, backup, edition, damage>>

(***************************************************************************)
(* A lasting answer, or the settings page, saves a configuration.  (An     *)
(* invalid one is refused before anything is written.)                     *)
(***************************************************************************)
BeginStore(enabled) ==
  /\ running /\ saving = NoSave
  /\ edition < MaxEdition
  /\ edition' = edition + 1
  /\ saving' = [step |-> "backup", by |-> "user",
                config |-> [edition |-> edition + 1, enabled |-> enabled]]
  /\ UNCHANGED <<primary, backup, running, memory, acked, previous, damage>>

Proceed(step) == saving' = [saving EXCEPT !.step = step]

\* Mutant of WriteBackup: whatever the primary holds is copied, as other settings do.
CopyBackup ==
  /\ saving.step = "backup"
  /\ backup' = primary
  /\ Proceed("restrict backup")
  /\ UNCHANGED <<primary, running, memory, history>>

(***************************************************************************)
(* Only a primary that loads is kept as the backup.                        *)
(***************************************************************************)
WriteBackup ==
  /\ saving.step = "backup"
  /\ backup' = IF Loads(primary) THEN primary ELSE backup
  /\ Proceed(IF Loads(primary) THEN "restrict backup" ELSE "primary")
  /\ UNCHANGED <<primary, running, memory, history>>

RestrictBackup ==
  /\ saving.step = "restrict backup"
  /\ Proceed("primary")
  /\ UNCHANGED <<primary, backup, running, memory, history>>

ReplacePrimary ==
  /\ saving.step = "primary"
  /\ primary' = saving.config
  /\ Proceed("restrict primary")
  /\ UNCHANGED <<backup, running, memory, history>>

(***************************************************************************)
(* The save has succeeded: the answer is now in force.                     *)
(***************************************************************************)
FinishStore ==
  /\ saving.step = "restrict primary"
  /\ saving' = NoSave
  /\ IF saving.by = "user"
     THEN memory' = saving.config /\ Acknowledge(saving.config.edition)
     ELSE UNCHANGED <<memory, acked, previous>>
  /\ UNCHANGED <<primary, backup, running, edition, damage>>

(***************************************************************************)
(* A file operation fails and save returns false.  When it is the last one *)
(* (restrictFile after commit), the file already has the configuration     *)
(* that memory does not.                                                   *)
(***************************************************************************)
FailStore ==
  /\ saving # NoSave
  /\ saving.step = "backup" => Loads(primary)
  /\ saving' = NoSave
  /\ UNCHANGED <<primary, backup, running, memory, history>>

StopProcess ==
  /\ running
  /\ running' = FALSE
  /\ saving' = NoSave
  /\ UNCHANGED <<primary, backup, memory, history>>

Damage(harm) ==
  /\ damage < MaxDamage
  /\ damage' = damage + 1
  /\ \/ primary # NoFile /\ primary' = harm /\ UNCHANGED backup
     \/ backup # NoFile /\ backup' = harm /\ UNCHANGED primary
  /\ UNCHANGED <<running, memory, saving, edition, acked, previous>>

StoreNext ==
  \/ Start
  \/ \E enabled \in BOOLEAN : BeginStore(enabled)
  \/ WriteBackup \/ RestrictBackup \/ ReplacePrimary \/ FinishStore
  \/ FailStore
  \/ StopProcess
  \/ \E harm \in {NoFile, Spoiled} : Damage(harm)

----------------------------------------------------------------------------
(***************************************************************************)
(* Wherever the process dies, a start finds every answer that was          *)
(* acknowledged; and if one file was lost or spoiled, all but the last.    *)
(***************************************************************************)
LossIsBounded ==
  LET found == Loaded(primary, backup).edition
  IN  /\ damage = 0 => found >= acked
      /\ damage <= 1 => found >= previous

(***************************************************************************)
(* The protection is off only by a configuration that says so, or when     *)
(* there was none at all: unreadable files never switch it off.            *)
(***************************************************************************)
UnreadableFailsClosed ==
  [][ ~ running /\ running' /\ ~ memory'.enabled =>
        memory' \in {primary, backup} \/ (primary = NoFile /\ backup = NoFile) ]_storeVars

=============================================================================
