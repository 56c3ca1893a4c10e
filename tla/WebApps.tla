------------------------------- MODULE WebApps -------------------------------
(***************************************************************************)
(* Installed web apps: how a window offers the app of the page in front    *)
(* (WebAppInstallController), the registry (WebAppStore), the system       *)
(* shortcuts (WebAppShortcutManager) and the windows of the apps.  A page  *)
(* is asked for its manifest link after each load, and for the manifest    *)
(* when the user wants to install it; both answers come later, when the    *)
(* page may be another one.  Dialogs nest, and events run beneath them.    *)
(***************************************************************************)
EXTENDS Naturals, Sequences, FiniteSets, SequencesExt

CONSTANTS
  Views,           \* the tabs of a window
  Manifests,       \* manifest addresses
  AppIds,          \* what parseManifest derives from a manifest and the page that links it
  MaximumApps,     \* WebAppStore::maximumApps
  MaxPageLoads,    \* bound: loads of a tab
  MaxInstalls      \* bound: manifests fetched by a process

ASSUME WebAppsAssumption == {MaximumApps, MaxPageLoads, MaxInstalls} \subseteq Nat

VARIABLE wa

waVars == << wa >>

NoManifest == "no manifest"
Corrupt == << [id |-> "corrupt", manifest |-> NoManifest] >>    \* stands for a file that cannot be read

App(id, manifest) == [id |-> id, manifest |-> manifest]

(***************************************************************************)
(* load and finished: the load of a tab, and whether it has ended;         *)
(* detecting: manifestDetectionGenerations, 0 for none; probes: scripts    *)
(* that have not answered; state: manifests; requests: pendingRequests;    *)
(* dialogs: the questions open, the top one first; file: web-apps.json;    *)
(* found: the file when it was loaded; shortcuts: the ids of the bundles;  *)
(* windows: the ids of the app windows.                                    *)
(***************************************************************************)
NoState == [load |-> 0, manifest |-> NoManifest]

\* load fails closed: a file with duplicates is one that cannot be read.
Loadable(file) ==
  /\ file # Corrupt
  /\ \A i, j \in DOMAIN file : i # j => file[i].id # file[j].id /\ file[i].manifest # file[j].manifest

Launched(file, shortcuts) ==
  [file |-> file, found |-> file, available |-> Loadable(file), apps |-> IF Loadable(file) THEN file ELSE << >>,
   open |-> Views, current |-> CHOOSE v \in Views : TRUE, action |-> "none",
   load |-> [v \in Views |-> 0], finished |-> [v \in Views |-> TRUE], detecting |-> [v \in Views |-> 0],
   probes |-> {}, state |-> [v \in Views |-> NoState], requests |-> {}, requested |-> 0, dialogs |-> << >>,
   shortcuts |-> shortcuts, windows |-> {}, ahead |-> FALSE]

WaInit == \E file \in {<< >>, Corrupt} : wa = Launched(file, {})

WaIs(S) == wa' = S

Ids(apps) == { apps[i].id : i \in DOMAIN apps }

AppForManifest(S, manifest) == \E i \in DOMAIN S.apps : S.apps[i].manifest = manifest

(***************************************************************************)
(* What the window offers for the tab in front (currentViewChanged).       *)
(***************************************************************************)
Offered(S) ==
  IF S.current \notin S.open \/ ~S.available \/ S.state[S.current].manifest = NoManifest THEN "none"
  ELSE IF AppForManifest(S, S.state[S.current].manifest) THEN "open" ELSE "install"

CurrentViewChanged(S) == [S EXCEPT !.action = Offered(S)]

IfCurrent(S, v) == IF S.current = v THEN CurrentViewChanged(S) ELSE S

ClearManifest(S, v) == IfCurrent([S EXCEPT !.detecting[v] = 0, !.state[v] = NoState], v)

(***************************************************************************)
(* Pages.                                                                  *)
(***************************************************************************)
PageLoadStarted ==
  \E v \in wa.open :
    /\ wa.load[v] < MaxPageLoads
    /\ WaIs(ClearManifest([wa EXCEPT !.load[v] = @ + 1, !.finished[v] = FALSE], v))

\* The page that loadFinished tells of has failed, is not at an HTTPS address, or is asked.
PageLoadFinished ==
  \E v \in wa.open :
    LET S == [wa EXCEPT !.finished[v] = TRUE]
    IN  /\ ~wa.finished[v]
        /\ \/ WaIs(S)
           \/ WaIs(ClearManifest(S, v))
           \/ WaIs([S EXCEPT !.detecting[v] = S.load[v], !.probes = @ \cup {[view |-> v, load |-> S.load[v]]}])

\* Mutant of IsExpected: the generation is not compared.
IsExpectedOfView(S, p) == TRUE

IsExpected(S, p) == S.detecting[p.view] = p.load

\* The link is another one, or none, or not of the page's origin; or the page has another address now.
ManifestDetected ==
  \E p \in wa.probes, manifest \in Manifests \cup {NoManifest} :
    LET S == [wa EXCEPT !.probes = @ \ {p}]
    IN  WaIs(IF ~IsExpected(wa, p) THEN S
             ELSE IfCurrent([S EXCEPT !.detecting[p.view] = 0,
                                      !.state[p.view] = [load |-> p.load, manifest |-> manifest]], p.view))

\* closeTab and forgetView
CloseView ==
  \E v \in wa.open, next \in Views :
    /\ next \in wa.open \ {v} \/ wa.open = {v}
    /\ next = wa.current \/ v = wa.current
    /\ WaIs(CurrentViewChanged(
         [wa EXCEPT !.open = @ \ {v}, !.current = next, !.detecting[v] = 0, !.state[v] = NoState,
                    !.probes = { p \in @ : p.view # v }, !.requests = { r \in @ : r.view # v }]))

(***************************************************************************)
(* The registry: a change is kept if the file can be written.  The file    *)
(* may have been written although the save fails (restrictFile).           *)
(***************************************************************************)
\* appsChanged: an app that is no longer installed loses its window.
AppsChanged(S) == CurrentViewChanged([S EXCEPT !.windows = @ \cap Ids(S.apps)])

StoreSaved(S, apps) == AppsChanged([S EXCEPT !.apps = apps, !.file = apps, !.ahead = FALSE])

SaveFailed(S, apps) == { S, [S EXCEPT !.file = apps, !.ahead = TRUE] }

\* An app replaces the first one with its id or its manifest.
Replaces(S, app) ==
  { i \in DOMAIN S.apps : S.apps[i].id = app.id \/ S.apps[i].manifest = app.manifest }

Installed(S, app) ==
  LET same == Replaces(S, app)
  IN  IF same = {} THEN Append(S.apps, app)
      ELSE [S.apps EXCEPT ![CHOOSE i \in same : \A j \in same : i <= j] = app]

MayInstall(S, app) == S.available /\ (Replaces(S, app) # {} \/ Len(S.apps) < MaximumApps)

OpenWindow(S, id) == IF id \in Ids(S.apps) THEN [S EXCEPT !.windows = @ \cup {id}] ELSE S

\* createOrUpdate builds a bundle beside the old one and renames it; the old one is lost if neither rename works.
ShortcutCreated(S, id) ==
  { S, [S EXCEPT !.shortcuts = @ \cup {id}], [S EXCEPT !.shortcuts = @ \ {id}] }

ShortcutRemoved(S, id) == { S, [S EXCEPT !.shortcuts = @ \ {id}] }

\* The installation, once it has been confirmed
Install(S, app) ==
  IF ~MayInstall(S, app) THEN {S}
  ELSE SaveFailed(S, Installed(S, app))
         \cup { OpenWindow(T, app.id) : T \in ShortcutCreated(StoreSaved(S, Installed(S, app)), app.id) }

\* removeSelected, once it has been confirmed: the shortcut goes first.
Uninstall(S, app) ==
  UNION { LET rest == SelectSeq(T.apps, LAMBDA a : a.id # app.id)
          IN  IF ~T.available \/ rest = T.apps THEN {T} ELSE {StoreSaved(T, rest)} \cup SaveFailed(T, rest)
          : T \in ShortcutRemoved(S, app.id) }

(***************************************************************************)
(* The user.  A modal dialog keeps everything else from the user.          *)
(***************************************************************************)
AtWindow == wa.dialogs = << >>

SelectView == AtWindow /\ \E v \in wa.open \ {wa.current} : WaIs(CurrentViewChanged([wa EXCEPT !.current = v]))

InstallCurrent ==
  /\ AtWindow /\ wa.action \in {"install", "open"}
  /\ LET s == wa.state[wa.current]
         r == [number |-> wa.requested + 1, view |-> wa.current, load |-> s.load, manifest |-> s.manifest]
         i == SelectInSeq(wa.apps, LAMBDA a : a.manifest = s.manifest)
     IN  /\ s.manifest # NoManifest
         /\ IF i # 0 THEN WaIs(OpenWindow(wa, wa.apps[i].id))
            ELSE /\ wa.requested < MaxInstalls
                 /\ WaIs([wa EXCEPT !.requests = @ \cup {r}, !.requested = @ + 1, !.action = "reading"])

Concluded(S, r) == CurrentViewChanged([S EXCEPT !.requests = @ \ {r}])

\* The answer is an error or not a manifest, or the app is proposed; the page answers until another one has replaced it.
ManifestFetched ==
  \E r \in wa.requests :
    LET S == Concluded(wa, r)
    IN  /\ r.load = wa.load[r.view] \/ (r.load + 1 = wa.load[r.view] /\ ~wa.finished[r.view])
        /\ \/ WaIs(S)
           \/ /\ S.state[r.view].manifest = r.manifest
              /\ \E id \in AppIds :
                   WaIs([S EXCEPT !.dialogs = << [asks |-> "install", app |-> App(id, r.manifest)] >> \o @])

FetchTimedOut == \E r \in wa.requests : WaIs(Concluded(wa, r))

AskToRemove ==
  /\ AtWindow
  /\ \E i \in DOMAIN wa.apps : WaIs([wa EXCEPT !.dialogs = << [asks |-> "remove", app |-> wa.apps[i]] >>])

Answered ==
  /\ ~AtWindow
  /\ LET asked == Head(wa.dialogs)
         S == [wa EXCEPT !.dialogs = Tail(@)]
     IN  \/ WaIs(S)
         \/ \E T \in IF asked.asks = "install" THEN Install(S, asked.app) ELSE Uninstall(S, asked.app) : WaIs(T)

\* createOrRepairShortcut and removeShortcut
ChangeShortcut ==
  /\ AtWindow
  /\ \E id \in Ids(wa.apps) : \E S \in ShortcutCreated(wa, id) \cup ShortcutRemoved(wa, id) : WaIs(S)

\* From a menu or a shortcut, which may be of an app that has gone
LaunchInstalledWebApp == \E id \in wa.shortcuts \cup Ids(wa.apps) : WaIs(OpenWindow(wa, id))

CloseAppWindow == \E id \in wa.windows : WaIs([wa EXCEPT !.windows = @ \ {id}])

\* The program ends or dies, and is started again.
Relaunch == WaIs(Launched(wa.file, wa.shortcuts))

WaNext ==
  \/ PageLoadStarted \/ PageLoadFinished \/ ManifestDetected \/ CloseView \/ SelectView
  \/ InstallCurrent \/ ManifestFetched \/ FetchTimedOut \/ AskToRemove \/ Answered
  \/ ChangeShortcut \/ LaunchInstalledWebApp \/ CloseAppWindow \/ Relaunch

WaSpec == WaInit /\ [][WaNext]_waVars

(***************************************************************************)
(* Properties.                                                             *)
(***************************************************************************)
\* The registry in memory is the one in the file, or the file holds the change of a save that failed
\* after writing; a file that could not be read is never replaced; what a tab offers was found in the
\* page it shows, never in one it has left; the action of the window tells what can be done with the
\* tab in front unless a manifest is being read; and app windows are those of installed apps, whatever
\* answers and confirmations come late (WebAppInstallController, WebAppStore).
WebAppsAgree ==
  /\ IF wa.available THEN wa.ahead \/ wa.apps = wa.file ELSE wa.file = wa.found /\ wa.apps = << >>
  /\ \A v \in Views : wa.state[v].manifest # NoManifest => wa.state[v].load = wa.load[v]
  /\ IF wa.action = "reading" THEN wa.requests # {} ELSE wa.action = Offered(wa)
  /\ wa.windows \subseteq Ids(wa.apps)

\* What the registry writes it can read again: the installed apps are still there after a restart
\* (WebAppStore::install, save, load).
SavedAppsLoad == wa.available => Loadable(wa.file)
=============================================================================
