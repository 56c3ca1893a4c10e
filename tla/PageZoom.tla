------------------------------- MODULE PageZoom -------------------------------
(***************************************************************************)
(* The zoom of pages: kept for each site in the native settings, and the   *)
(* same in all tabs of all windows that show the site (MainWindow, the     *)
(* functions of PageZoom.cpp).  A factor is its number in zoomLevels.  The *)
(* browser is in the foreground, and no video has a window of its own.     *)
(***************************************************************************)
EXTENDS Integers

CONSTANTS
  ZoomTabs, ZoomWindows,  \* tabs, and the windows they are in
  Sites,                  \* pageZoomSiteKey of web pages
  MaxZoomEvents           \* bound: pages shown and changes of their zoom

NoSite == "none"
GreyedOut == 0
MinimumZoom == 1
DefaultZoom == 2
MaximumZoom == 3

ASSUME ZoomAssumption == ZoomTabs # {} /\ NoSite \notin Sites /\ MaxZoomEvents \in Nat

VARIABLE pz

pzVars == << pz >>

(***************************************************************************)
(* site and zoom of the page of each tab; stored, the settings; failed,    *)
(* the sites whose last zoom could not be written (history); active, the   *)
(* window that is; command, the factor that a window shows among its zoom  *)
(* commands, unless they are greyed out.                                   *)
(***************************************************************************)
PzInit ==
  \E window \in [ZoomTabs -> ZoomWindows] :
    /\ \A w \in ZoomWindows : \E t \in ZoomTabs : window[t] = w
    /\ pz = [window |-> window, front |-> [w \in ZoomWindows |-> CHOOSE t \in ZoomTabs : window[t] = w],
             site |-> [t \in ZoomTabs |-> NoSite], zoom |-> [t \in ZoomTabs |-> DefaultZoom],
             stored |-> [s \in Sites |-> DefaultZoom], failed |-> {},
             active |-> window[CHOOSE t \in ZoomTabs : TRUE],
             command |-> [w \in ZoomWindows |-> DefaultZoom], events |-> 0]

Zoomed(S) == pz.events < MaxZoomEvents /\ pz' = [S EXCEPT !.events = @ + 1]

\* commandTargetWebView: a window has a target for its commands only while it is the active one.
UpdateZoomActions(S, windows) ==
  LET shown(w) == IF w = S.active THEN S.zoom[S.front[w]] ELSE GreyedOut
  IN  [S EXCEPT !.command = [w \in ZoomWindows |-> IF w \in windows THEN shown(w) ELSE @[w]]]

\* applyStoredPageZoom, from urlChanged
ZoomUrlChanged ==
  \E t \in ZoomTabs, site \in Sites \cup {NoSite} :
    LET w == pz.window[t]
        S == [pz EXCEPT !.site[t] = site, !.zoom[t] = IF site = NoSite THEN DefaultZoom ELSE pz.stored[site]]
    IN  Zoomed(UpdateZoomActions(S, IF t = S.front[w] THEN {w} ELSE {}))

FrontChanged ==
  \E t \in ZoomTabs :
    LET w == pz.window[t]
    IN  pz.front[w] # t /\ Zoomed(UpdateZoomActions([pz EXCEPT !.front[w] = t], {w}))

Affected(t) == IF pz.site[t] = NoSite THEN {t} ELSE { u \in ZoomTabs : pz.site[u] = pz.site[t] }

\* A value that could not be written may still be found by the next reader.
Persisted(S, site, factor) ==
  IF site = NoSite THEN {S}
  ELSE { [S EXCEPT !.stored[site] = factor, !.failed = @ \ {site}],
         [S EXCEPT !.stored[site] = factor, !.failed = @ \cup {site}],
         [S EXCEPT !.failed = @ \cup {site}] }

SetPageZoom(t, factor) ==
  \E S \in Persisted(pz, pz.site[t], factor) :
    LET Z == [S EXCEPT !.zoom = [u \in ZoomTabs |-> IF u \in Affected(t) THEN factor ELSE @[u]]]
    IN  Zoomed(UpdateZoomActions(Z, IF pz.site[t] = NoSite THEN { pz.window[t] } ELSE ZoomWindows))

\* Commands and the wheel act on the tab in front of the active window; the wheel may take several steps.
NextPageZoom(factor, steps) ==
  IF factor + steps < MinimumZoom THEN MinimumZoom
  ELSE IF factor + steps > MaximumZoom THEN MaximumZoom ELSE factor + steps

Target == pz.front[pz.active]

ChangePageZoomBySteps ==
  \E steps \in { -2, -1, 1, 2 } : SetPageZoom(Target, NextPageZoom(pz.zoom[Target], steps))

ResetPageZoom == pz.zoom[Target] # DefaultZoom /\ SetPageZoom(Target, DefaultZoom)

\* Nothing looks at the commands when a window is activated.
ActivateWindow == \E w \in ZoomWindows \ {pz.active} : Zoomed([pz EXCEPT !.active = w])

PzNext == ZoomUrlChanged \/ FrontChanged \/ ChangePageZoomBySteps \/ ResetPageZoom \/ ActivateWindow

(***************************************************************************)
(* Property.                                                               *)
(***************************************************************************)
\* Pages of one site have one zoom, whatever window they are in and however they came there, and it
\* is the stored one, as long as the settings can be written; and no window shows among its commands
\* the zoom of another page than the one in front (setPageZoom, applyStoredPageZoom,
\* updateZoomActions).
ZoomAgrees ==
  /\ \A t \in ZoomTabs : pz.site[t] \notin pz.failed \cup {NoSite} => pz.zoom[t] = pz.stored[pz.site[t]]
  /\ \A w \in ZoomWindows : pz.command[w] \in {GreyedOut, pz.zoom[pz.front[w]]}
=============================================================================
