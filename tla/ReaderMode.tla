----------------------------- MODULE ReaderMode -----------------------------
(***************************************************************************)
(* Reader mode of the tabs (ReaderModeController and its wiring in         *)
(* MainWindow).  The controller runs scripts in the page and gets their    *)
(* results back later: a probe that tells whether the document is an       *)
(* article, the activation that puts an overlay over it, its removal, and  *)
(* changes of its appearance.  The overlay reports clicks on its tool bar. *)
(* Scripts of a page run in order, and so arrive results and reports.      *)
(*                                                                         *)
(* A generation or a probe request that has been counted on makes earlier  *)
(* results stale; here that is marked on the results themselves.           *)
(***************************************************************************)
EXTENDS Naturals, Sequences, FiniteSets

CONSTANTS
  ReaderTabs,
  Appearances,     \* ReaderSettings
  ProbeRetries,    \* size of probeRetryDelaysMs
  MaxReaderEvents  \* bound: navigations, toggles and clicks in a behaviour

NoOverlay == "none"

ASSUME ReaderModeAssumption == NoOverlay \notin Appearances /\ ProbeRetries \in Nat /\ MaxReaderEvents \in Nat

VARIABLE rd

rdVars == << rd >>

(***************************************************************************)
(* availability, active, pending, attempts, timer, loading: the members of *)
(* the controller.  overlay: its appearance, if there is one; scripts and  *)
(* results: under way to and from the page.  document counts what the page *)
(* shows.  History: judged, the document availability is about; missed:    *)
(* the appearance has changed since the activation began, which still was  *)
(* pending, and not again since then.                                      *)
(***************************************************************************)
RdInit ==
  \E appearance \in Appearances :
    rd = [appearance |-> appearance, events |-> 0,
          tab |-> [t \in ReaderTabs |->
                     [availability |-> "Unknown", active |-> FALSE, pending |-> FALSE, attempts |-> 0,
                      timer |-> FALSE, loading |-> TRUE, overlay |-> NoOverlay, scripts |-> << >>,
                      results |-> << >>, document |-> 0, judged |-> 0, missed |-> FALSE]]]

Event == rd.events < MaxReaderEvents
TabStep(t, tab) == rd' = [rd EXCEPT !.tab[t] = tab]
ReaderEvent(t, tab) == Event /\ rd' = [rd EXCEPT !.tab[t] = tab, !.events = @ + 1]

Run(tab, script) == [tab EXCEPT !.scripts = Append(@, script)]

Stale(queue, kinds) ==
  [i \in DOMAIN queue |-> IF queue[i].kind \in kinds THEN [queue[i] EXCEPT !.stale = TRUE] ELSE queue[i]]

\* ++m_generation, ++m_probeRequest
NextGeneration(tab) ==
  [tab EXCEPT !.scripts = Stale(@, { "probe", "activate" }), !.results = Stale(@, { "probe", "activate" })]
NextProbe(tab) == [tab EXCEPT !.scripts = Stale(@, { "probe" }), !.results = Stale(@, { "probe" })]

Script(kind, appearance) == [kind |-> kind, appearance |-> appearance, stale |-> FALSE]

(***************************************************************************)
(* resetForNavigation, and probe.                                          *)
(***************************************************************************)
\* Mutant of ResetForNavigation: the generation stays.
ResetKeepingGeneration(tab) ==
  LET cleared == IF tab.active \/ tab.pending THEN Run(tab, Script("destroy", NoOverlay)) ELSE tab
  IN  [cleared EXCEPT !.availability = "Unknown", !.active = FALSE, !.pending = FALSE, !.attempts = 0,
                      !.timer = FALSE]

ResetForNavigation(tab) ==
  LET cleared == IF tab.active \/ tab.pending THEN Run(tab, Script("destroy", NoOverlay)) ELSE tab
  IN  [NextGeneration(cleared) EXCEPT !.availability = "Unknown", !.active = FALSE, !.pending = FALSE,
                                      !.attempts = 0, !.timer = FALSE]

Probe(tab, supported) ==
  IF supported
  THEN Run([NextProbe(tab) EXCEPT !.timer = FALSE, !.availability = "Unknown", !.attempts = @ + 1],
           Script("probe", NoOverlay))
  ELSE [tab EXCEPT !.timer = FALSE, !.availability = "Unavailable"]

(***************************************************************************)
(* Navigation.  The new document replaces the old one some time after      *)
(* loadStarted, or never; a change of the URL alone is a document too.     *)
(***************************************************************************)
LoadStarted(t) == ReaderEvent(t, ResetForNavigation([rd.tab[t] EXCEPT !.loading = TRUE]))

DocumentCommitted(t) ==
  /\ rd.tab[t].loading
  /\ ReaderEvent(t, [rd.tab[t] EXCEPT !.document = @ + 1, !.overlay = NoOverlay, !.scripts = << >>])

LoadFinished(t, ok, supported) ==
  LET tab == NextProbe([rd.tab[t] EXCEPT !.loading = FALSE, !.timer = FALSE]) IN
  /\ rd.tab[t].loading
  /\ TabStep(t, IF ok THEN Probe([tab EXCEPT !.attempts = 0], supported)
                ELSE [tab EXCEPT !.availability = "Unavailable"])

UrlChanged(t) ==
  LET tab == [rd.tab[t] EXCEPT !.document = @ + 1]
  IN  ReaderEvent(t, IF tab.loading THEN tab ELSE [ResetForNavigation(tab) EXCEPT !.timer = TRUE])

ProbeTimer(t, supported) == rd.tab[t].timer /\ TabStep(t, Probe(rd.tab[t], supported))

(***************************************************************************)
(* activate and deactivate (toggleReaderMode).                             *)
(***************************************************************************)
Activate(t) ==
  LET tab == rd.tab[t] IN
  /\ ~ tab.active /\ ~ tab.pending /\ tab.availability = "Available"
  /\ ReaderEvent(t, Run([tab EXCEPT !.pending = TRUE, !.missed = FALSE], Script("activate", rd.appearance)))

Deactivated(tab) ==
  IF tab.active \/ tab.pending
  THEN Run([NextGeneration(tab) EXCEPT !.active = FALSE, !.pending = FALSE], Script("destroy", NoOverlay))
  ELSE tab

Deactivate(t) ==
  rd.tab[t].active /\ ReaderEvent(t, Deactivated(rd.tab[t]))

(***************************************************************************)
(* The page runs a script; ok: an article is found, the overlay comes up.  *)
(***************************************************************************)
After(script, overlay, ok) ==
  CASE script.kind = "probe" -> overlay
    [] script.kind = "activate" -> IF ok /\ overlay = NoOverlay THEN script.appearance ELSE overlay
    [] script.kind = "destroy" -> NoOverlay
    [] script.kind = "appearance" -> IF overlay = NoOverlay THEN overlay ELSE script.appearance

ResultKinds == { "probe", "activate" }

Ran(tab, ok) ==
  LET script == Head(tab.scripts)
      result == [kind |-> script.kind, ok |-> ok, stale |-> script.stale, document |-> tab.document,
                 appearance |-> NoOverlay]
  IN  [tab EXCEPT !.scripts = Tail(@), !.overlay = After(script, @, ok),
                  !.results = IF script.kind \in ResultKinds THEN Append(@, result) ELSE @]

RunScript(t, ok) ==
  LET tab == rd.tab[t] IN
  /\ tab.scripts # << >>
  /\ ok \/ Head(tab.scripts).kind \in ResultKinds
  /\ TabStep(t, Ran(tab, ok))

(***************************************************************************)
(* The overlay reports a click; the controllers of all tabs follow a       *)
(* change of the appearance.                                               *)
(***************************************************************************)
Report(t, kind, appearance) ==
  /\ rd.tab[t].overlay # NoOverlay
  /\ ReaderEvent(t, [rd.tab[t] EXCEPT
       !.results = Append(@, [kind |-> kind, ok |-> TRUE, stale |-> FALSE, document |-> 0, appearance |-> appearance])])

ApplyAppearance(tab, appearance) ==
  IF tab.active THEN Run([tab EXCEPT !.missed = FALSE], Script("appearance", appearance))
  ELSE [tab EXCEPT !.missed = @ \/ tab.pending]

AppearanceChanged(tabs, appearance) ==
  rd' = [rd EXCEPT !.appearance = appearance, !.tab = [u \in ReaderTabs |-> ApplyAppearance(tabs[u], appearance)]]

Probed(tab, result) ==
  IF result.stale THEN tab
  ELSE IF ~ result.ok /\ tab.attempts <= ProbeRetries THEN [tab EXCEPT !.timer = TRUE]
  ELSE [tab EXCEPT !.availability = IF result.ok THEN "Available" ELSE "Unavailable", !.judged = result.document]

ReaderActivated(tab, result) ==
  IF result.stale THEN tab
  ELSE IF result.ok THEN [tab EXCEPT !.pending = FALSE, !.active = TRUE]
  ELSE [tab EXCEPT !.pending = FALSE, !.availability = "Unavailable"]

ResultArrives(t) ==
  LET result == Head(rd.tab[t].results)
      tab == [rd.tab[t] EXCEPT !.results = Tail(@)]
  IN  /\ rd.tab[t].results # << >>
      /\ \/ result.kind = "probe" /\ TabStep(t, Probed(tab, result))
         \/ result.kind = "activate" /\ TabStep(t, ReaderActivated(tab, result))
         \/ result.kind \notin ResultKinds /\ ~ tab.active /\ TabStep(t, tab)
         \/ result.kind = "close" /\ tab.active /\ TabStep(t, Deactivated(tab))
         \/ result.kind = "change" /\ tab.active
              /\ AppearanceChanged([rd.tab EXCEPT ![t] = tab], result.appearance)

RdNext ==
  \E t \in ReaderTabs :
    \/ LoadStarted(t) \/ DocumentCommitted(t) \/ UrlChanged(t) \/ Activate(t) \/ Deactivate(t) \/ ResultArrives(t)
    \/ \E ok, supported \in BOOLEAN : LoadFinished(t, ok, supported)
    \/ \E supported \in BOOLEAN : ProbeTimer(t, supported)
    \/ \E ok \in BOOLEAN : RunScript(t, ok)
    \/ Report(t, "close", NoOverlay) \/ \E appearance \in Appearances : Report(t, "change", appearance)

(***************************************************************************)
(* Controller and page agree once nothing is under way between them: there *)
(* is an overlay exactly if the tab is in reader mode, in the appearance   *)
(* of the settings, unless that changed while the activation was pending.  *)
(* A document is offered as an article only on a probe of itself.          *)
(***************************************************************************)
ReaderAgrees ==
  \A t \in ReaderTabs :
    LET tab == rd.tab[t] IN
    /\ tab.scripts = << >> /\ tab.results = << >> =>
         /\ tab.active <=> tab.overlay # NoOverlay
         /\ tab.active /\ ~ tab.missed => tab.overlay = rd.appearance
         /\ ~ tab.pending
    /\ tab.availability = "Available" => ~ tab.loading /\ tab.judged = tab.document

=============================================================================
