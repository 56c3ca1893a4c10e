-------------------------- MODULE VideoPresentation --------------------------
(***************************************************************************)
(* The surfaces of one window: the page that fills it in full screen       *)
(* (BrowserFullScreenController), the videos detached into windows of      *)
(* their own (DetachedVideoSession), and the permission prompt, whose tool *)
(* bar full screen hides.  MainWindow negotiates with the page: the page   *)
(* asks for full screen and leaves it when it likes; the window asks it to *)
(* leave and goes on without its answer after a while.                     *)
(*                                                                         *)
(* A handler is a function from the state of the window to the state of    *)
(* the window.  The page may answer a request to leave at once, inside the *)
(* handler that made it ("answers"), or later, or never.                   *)
(***************************************************************************)
EXTENDS PermissionPrompts

CONSTANTS
  FirstView,    \* the tab in front at the start
  MaxAsks,      \* bound: requests of pages to enter full screen
  MaxClicks,    \* bound: clicks on the pop-out button
  MaxLoads,     \* bound: navigations
  MaxRequests   \* bound: permission requests

ASSUME WindowAssumption ==
  /\ FirstView \in Views
  /\ {MaxAsks, MaxClicks, MaxLoads, MaxRequests} \subseteq Nat

VARIABLES
  u,        \* the state of the window: see WindowInit
  open,     \* the tabs that are not closing
  load,     \* navigations started in each tab
  fresh,    \* history: tabs whose page has an unexpired, unused pop-out click
  asks, clicks, loads, requests   \* what the bounds count

vars == <<u, open, load, fresh, asks, clicks, loads, requests>>

(***************************************************************************)
(* engine: whether the engine holds the page to be in full screen.         *)
(* fs and savedBar: the controller's view and the saved visibility of the  *)
(* permission tool bar.  expected, serial, exitTimers: the exits asked of  *)
(* pages.  session, videoExits: detached videos; a session has a window    *)
(* and, while "returning", a running timer.  popout, popTimers: pop-out    *)
(* requests; "late" is past the deadline.  p: the permission controller.   *)
(***************************************************************************)
WindowInit(view) ==
  [ engine |-> [v \in Views |-> FALSE],
    fs |-> NoView, savedBar |-> FALSE,
    expected |-> [v \in Views |-> 0], serial |-> 0, exitTimers |-> {},
    session |-> [v \in Views |-> "attached"], videoExits |-> {},
    popout |-> [v \in Views |-> [serial |-> 0, state |-> "none"]], popTimers |-> {},
    p |-> NoPermissions(view) ]

Detached(w, v) == w.session[v] # "attached"

\* isTabInteractionActive may be true: the tab's window, or video, is in front.
CanBeActive(w, v) == v = w.p.current \/ Detached(w, v)

----------------------------------------------------------------------------
EnterBrowserFullScreen(w, v) ==
  [w EXCEPT !.engine[v] = TRUE, !.fs = v, !.savedBar = w.p.bar, !.p.bar = FALSE]

ExitBrowserFullScreen(w, v) ==
  IF w.fs = v
  THEN [w EXCEPT !.fs = NoView, !.p.bar = w.savedBar, !.savedBar = FALSE]
  ELSE w

RestoreDetachedVideo(w, v) == [w EXCEPT !.session[v] = "attached"]

ForgetPopout(w, v) == [w EXCEPT !.popout[v].state = "none"]

(***************************************************************************)
(* handleFullScreenRequest, toggleOn false.  A rejected request leaves the *)
(* page in full screen.                                                    *)
(***************************************************************************)
PageLeft(w, v) ==
  IF Detached(w, v) \/ v \in w.videoExits
  THEN RestoreDetachedVideo([w EXCEPT !.engine[v] = FALSE, !.videoExits = @ \ {v}], v)
  ELSE IF w.fs = v \/ w.expected[v] # 0
  THEN ExitBrowserFullScreen([w EXCEPT !.engine[v] = FALSE, !.expected[v] = 0], v)
  ELSE w

\* ExitFullScreen triggered on the page.
Trigger(w, v, answers) == IF answers /\ w.engine[v] THEN PageLeft(w, v) ELSE w

(***************************************************************************)
(* handleFullScreenRequest, toggleOn true.  A request that overtakes an    *)
(* exit is rejected and the exit completed.  active: the surface of the    *)
(* tab is in front, and the origin is one of the web.                      *)
(***************************************************************************)
Overtakes(w, v) == w.expected[v] # 0 \/ v \in w.videoExits

FinishExits(w, v) ==
  LET video == IF v \in w.videoExits THEN RestoreDetachedVideo(w, v) ELSE w
      both == IF w.expected[v] # 0 THEN ExitBrowserFullScreen(video, v) ELSE video
  IN  [ForgetPopout(both, v) EXCEPT !.engine[v] = FALSE, !.expected[v] = 0,
                                    !.videoExits = @ \ {v}]

PageAsks(w, v, active, sameOrigin) ==
  LET wanted == w.popout[v].state = "live" /\ sameOrigin
      known == ForgetPopout(w, v)
  IN  IF Overtakes(w, v) THEN FinishExits(w, v)
      ELSE IF ~ active \/ Detached(w, v) \/ w.fs # NoView
      THEN [known EXCEPT !.engine[v] = FALSE]
      ELSE IF wanted THEN [known EXCEPT !.engine[v] = TRUE, !.session[v] = "detached"]
      ELSE EnterBrowserFullScreen(known, v)

(***************************************************************************)
(* requestBrowserFullScreenExit, with its timer of 500 ms.                 *)
(***************************************************************************)
\* Mutant of RequestExit: only the page's answer ends full screen.
RequestExitUntimed(w, v, answers) ==
  LET n == w.serial + 1
  IN  IF v = NoView \/ w.fs # v \/ w.expected[v] # 0 THEN w
      ELSE Trigger([w EXCEPT !.serial = n, !.expected[v] = n], v, answers)

RequestExit(w, v, answers) ==
  LET n == w.serial + 1
      asked == [w EXCEPT !.serial = n, !.expected[v] = n, !.exitTimers = @ \union {<<v, n>>}]
  IN  IF v = NoView \/ w.fs # v \/ w.expected[v] # 0 THEN w
      ELSE Trigger(asked, v, answers)

\* Mutant of ExitTimedOut: the timer does not ask whose exit it is.
ExitTimedOutUnchecked(w, v, n) ==
  ExitBrowserFullScreen([w EXCEPT !.exitTimers = @ \ {<<v, n>>}], v)

\* Mutant of ExitTimedOut: the page's late answer is no longer expected.
ExitTimedOutForgetting(w, v, n) ==
  LET fired == [w EXCEPT !.exitTimers = @ \ {<<v, n>>}]
  IN  IF w.expected[v] = n
      THEN ExitBrowserFullScreen([fired EXCEPT !.expected[v] = 0], v)
      ELSE fired

ExitTimedOut(w, v, n) ==
  LET fired == [w EXCEPT !.exitTimers = @ \ {<<v, n>>}]
  IN  IF w.expected[v] = n THEN ExitBrowserFullScreen(fired, v) ELSE fired

\* requestDetachedVideoReturn: DetachedVideoSession::requestReturn.
RequestReturn(w, v, answers) ==
  IF w.session[v] # "detached" THEN w
  ELSE Trigger([w EXCEPT !.session[v] = "returning", !.videoExits = @ \union {v}], v, answers)

(***************************************************************************)
(* currentChanged: another tab comes to the front.                         *)
(***************************************************************************)
TabChanged(w, v, answers) ==
  LET left == IF w.fs = v THEN w ELSE RequestExit(w, w.fs, answers)
  IN  [left EXCEPT !.p = CurrentViewChanged(@, v)]

(***************************************************************************)
(* permissionRequested.  A detached video is brought home first, and its   *)
(* tab to the front; the page's answer to that may still come.  (A tab     *)
(* whose video is detached is not in full screen: see TypeOK.)             *)
(***************************************************************************)
ReturnForPrompt(w, v, answers) ==
  LET asked == Trigger([w EXCEPT !.videoExits = @ \union {v}], v, answers)
      home == RestoreDetachedVideo(asked, v)
      front == IF home.p.current = v THEN home ELSE TabChanged(home, v, answers)
  IN  [front EXCEPT !.p = CurrentViewChanged(@, v)]

PermissionRequested(w, r, promptable, answers) ==
  LET home == IF Detached(w, r.view) THEN ReturnForPrompt(w, r.view, answers) ELSE w
  IN  [home EXCEPT !.p = RequestPermission(@, r, promptable)]

LoadStarted(w, v, answers) ==
  LET asked == RequestExit([w EXCEPT !.p = CancelForView(@, v)], v, answers)
  IN  [asked EXCEPT !.popout[v] = [serial |-> @.serial + 1, state |-> "none"]]

\* Timers of a closed tab find nothing to act on.
DropTimers(w, v) ==
  [w EXCEPT !.exitTimers = { t \in @ : t[1] # v }, !.popTimers = { t \in @ : t[1] # v },
            !.popout[v].state = "none"]

\* closeTab and prepareTabForClosing; next comes to the front if v was there.
CloseTab(w, v, next, answers) ==
  LET home == RestoreDetachedVideo([w EXCEPT !.videoExits = @ \ {v}], v)
      left == ExitBrowserFullScreen([home EXCEPT !.expected[v] = 0], v)
      silent == [DropTimers(left, v) EXCEPT !.p = CancelForView(@, v), !.engine[v] = FALSE]
  IN  IF w.p.current = v THEN TabChanged(silent, next, answers) ELSE silent

\* videoPopoutRequested, with its deadline (2500 ms) and its timer (2600 ms).
PopoutClicked(w, v) ==
  LET n == w.popout[v].serial + 1
  IN  [w EXCEPT !.popout[v] = [serial |-> n, state |-> "live"],
                !.popTimers = @ \union {<<v, n>>}]

PopoutPossible(w, v) == ~ Detached(w, v) /\ w.fs = NoView

\* Mutant of PopoutTimedOut: the timer of an earlier click ends the later one.
PopoutTimedOutUnchecked(w, v, n) ==
  ForgetPopout([w EXCEPT !.popTimers = @ \ {<<v, n>>}], v)

PopoutTimedOut(w, v, n) ==
  LET fired == [w EXCEPT !.popTimers = @ \ {<<v, n>>}]
  IN  IF w.popout[v].serial = n THEN ForgetPopout(fired, v) ELSE fired

----------------------------------------------------------------------------
Init ==
  /\ u = WindowInit(FirstView)
  /\ open = Views
  /\ load = [v \in Views |-> 0]
  /\ fresh = {}
  /\ asks = 0 /\ clicks = 0 /\ loads = 0 /\ requests = 0

\* The page asks; the engine asks only from outside full screen, or while it
\* was told to leave.
PageAsksFullScreen ==
  \E v \in open, active, sameOrigin \in BOOLEAN :
    /\ asks < MaxAsks
    /\ ~ u.engine[v] \/ Overtakes(u, v)
    /\ active => CanBeActive(u, v)
    /\ u' = PageAsks(u, v, active, sameOrigin)
    /\ asks' = asks + 1
    /\ fresh' = fresh \ {v}
    /\ UNCHANGED <<open, load, clicks, loads, requests>>

\* The page leaves on its own, or answers at last.
PageLeavesFullScreen ==
  \E v \in open :
    /\ u.engine[v]
    /\ u' = PageLeft(u, v)
    /\ UNCHANGED <<open, load, fresh, asks, clicks, loads, requests>>

\* Escape, or the native control of the platform (nativeExitRequested).
UserLeavesFullScreen ==
  \E answers \in BOOLEAN :
    /\ u.fs # NoView
    /\ u' = RequestExit(u, u.fs, answers)
    /\ UNCHANGED <<open, load, fresh, asks, clicks, loads, requests>>

ExitTimer ==
  \E timer \in u.exitTimers :
    /\ u' = ExitTimedOut(u, timer[1], timer[2])
    /\ UNCHANGED <<open, load, fresh, asks, clicks, loads, requests>>

UserReturnsVideo ==
  \E v \in open, answers \in BOOLEAN :
    /\ Detached(u, v)
    /\ u' = RequestReturn(u, v, answers)
    /\ UNCHANGED <<open, load, fresh, asks, clicks, loads, requests>>

ReturnTimer(v) ==
  /\ u.session[v] = "returning"
  /\ u' = RestoreDetachedVideo(u, v)
  /\ UNCHANGED <<open, load, fresh, asks, clicks, loads, requests>>

UserClicksPopout ==
  \E v \in open :
    /\ clicks < MaxClicks
    /\ CanBeActive(u, v) /\ PopoutPossible(u, v)
    /\ u' = PopoutClicked(u, v)
    /\ clicks' = clicks + 1
    /\ fresh' = fresh \union {v}
    /\ UNCHANGED <<open, load, asks, loads, requests>>

PopoutDeadline ==
  \E v \in Views :
    /\ u.popout[v].state = "live"
    /\ u' = [u EXCEPT !.popout[v].state = "late"]
    /\ fresh' = fresh \ {v}
    /\ UNCHANGED <<open, load, asks, clicks, loads, requests>>

\* The timer of a click runs out after its deadline.
PopoutTimer ==
  \E timer \in u.popTimers :
    /\ u.popout[timer[1]] # [serial |-> timer[2], state |-> "live"]
    /\ u' = PopoutTimedOut(u, timer[1], timer[2])
    /\ UNCHANGED <<open, load, fresh, asks, clicks, loads, requests>>

PageAsksPermission ==
  \E v \in open, promptable, answers \in BOOLEAN :
    /\ requests < MaxRequests
    /\ requests' = requests + 1
    /\ u' = PermissionRequested(u, [view |-> v, page |-> load[v], id |-> requests'],
                                promptable, answers)
    /\ UNCHANGED <<open, load, fresh, asks, clicks, loads>>

UserAnswersPrompt ==
  /\ u.p.bar
  /\ \/ u' = [u EXCEPT !.p = AllowCurrent(@)]
     \/ u' = [u EXCEPT !.p = DenyCurrent(@)]
  /\ UNCHANGED <<open, load, fresh, asks, clicks, loads, requests>>

UserChangesTab ==
  \E v \in open \ {u.p.current}, answers \in BOOLEAN :
    /\ u' = TabChanged(u, v, answers)
    /\ UNCHANGED <<open, load, fresh, asks, clicks, loads, requests>>

PageStartsLoading ==
  \E v \in open, answers \in BOOLEAN :
    /\ loads < MaxLoads
    /\ loads' = loads + 1
    /\ load' = [load EXCEPT ![v] = @ + 1]
    /\ u' = LoadStarted(u, v, answers)
    /\ fresh' = fresh \ {v}
    /\ UNCHANGED <<open, asks, clicks, requests>>

\* The window's last tab closes with the window.
UserClosesTab ==
  \E v \in open, next \in open, answers \in BOOLEAN :
    /\ next # v
    /\ u' = CloseTab(u, v, next, answers)
    /\ open' = open \ {v}
    /\ fresh' = fresh \ {v}
    /\ UNCHANGED <<load, asks, clicks, loads, requests>>

Next ==
  \/ PageAsksFullScreen \/ PageLeavesFullScreen \/ UserLeavesFullScreen \/ ExitTimer
  \/ UserReturnsVideo \/ (\E v \in Views : ReturnTimer(v))
  \/ UserClicksPopout \/ PopoutDeadline \/ PopoutTimer
  \/ PageAsksPermission \/ UserAnswersPrompt
  \/ UserChangesTab \/ PageStartsLoading \/ UserClosesTab

Spec == Init /\ [][Next]_vars

\* Timers of a running event loop fire.
FairSpec == Spec /\ WF_vars(ExitTimer) /\ \A v \in Views : WF_vars(ReturnTimer(v))

----------------------------------------------------------------------------
RequestType ==
  [view : Views, page : 0 .. MaxLoads, id : 1 .. MaxRequests]

PermissionType ==
  [current : Views, active : RequestType \union {NoRequest},
   queue : SUBSET RequestType, decided : SUBSET (1 .. MaxRequests), bar : BOOLEAN]

\* Types; a tab in full screen or current is open, and full screen and a
\* detached video exclude each other in one tab.
TypeOK ==
  /\ u.engine \in [Views -> BOOLEAN]
  /\ u.fs \in open \union {NoView} /\ u.savedBar \in BOOLEAN
  /\ u.expected \in [Views -> 0 .. u.serial] /\ u.serial \in 0 .. MaxAsks
  /\ u.exitTimers \subseteq Views \X (1 .. u.serial)
  /\ u.session \in [Views -> {"attached", "detached", "returning"}]
  /\ u.videoExits \subseteq Views
  /\ u.popout \in [Views -> [serial : 0 .. MaxClicks + MaxLoads,
                             state : {"none", "live", "late"}]]
  /\ u.popTimers \subseteq Views \X (1 .. MaxClicks + MaxLoads)
  /\ u.p \in PermissionType /\ u.p.current \in open
  /\ u.fs # NoView => ~ Detached(u, u.fs)
  /\ open \subseteq Views /\ load \in [Views -> 0 .. MaxLoads] /\ fresh \subseteq open

(***************************************************************************)
(* A page that the engine holds to be in full screen fills the window or   *)
(* its video's window, or the window still expects it to leave: when it    *)
(* leaves, the request is never rejected, which would leave page and       *)
(* window in disagreement for good.                                        *)
(***************************************************************************)
FullPageIsOwned ==
  \A v \in open : u.engine[v] => u.fs = v \/ Detached(u, v) \/ Overtakes(u, v)

(***************************************************************************)
(* What fills the window or a video window is in full screen as far as the *)
(* engine knows: otherwise the page never leaves and no event brings the   *)
(* window back.                                                            *)
(***************************************************************************)
SurfaceIsBacked ==
  \A v \in Views : u.fs = v \/ Detached(u, v) => u.engine[v]

(***************************************************************************)
(* What the page, the window and the video's window take to be in full     *)
(* screen is consistent, whatever order their answers come in.             *)
(***************************************************************************)
PageAndWindowAgree == TypeOK /\ FullPageIsOwned /\ SurfaceIsBacked

(***************************************************************************)
(* Full screen ends only when the page left, the window asked it to leave, *)
(* or the tab closes; a timer of an earlier exit does not end a later full *)
(* screen.                                                                 *)
(***************************************************************************)
NobodyIsThrownOut ==
  [][\A v \in Views : u.fs = v /\ u'.fs # v =>
       u.expected[v] # 0 \/ ~ u'.engine[v] \/ v \notin open']_vars

(***************************************************************************)
(* A pop-out request is live exactly while the page shown has a click that *)
(* is neither used nor expired: navigation clears it, and the timer of an  *)
(* earlier click does not.                                                 *)
(***************************************************************************)
PopoutFollowsClick ==
  \A v \in open : u.popout[v].state = "live" <=> v \in fresh

Undecided(p) ==
  p.queue \union ({p.active} \ {NoRequest})

(***************************************************************************)
(* Whatever the user may still be asked belongs to the tab in front and to *)
(* a page whose tab has not started to load another since.                 *)
(***************************************************************************)
AskingIsCurrent ==
  \A r \in Undecided(u.p) : r.view = u.p.current /\ r.page = load[r.view]

(***************************************************************************)
(* Every permission request is either decided or still to be decided;      *)
(* requests wait only behind one that is being asked.                      *)
(***************************************************************************)
NoRequestIsForgotten ==
  LET waiting == { r.id : r \in Undecided(u.p) }
  IN  /\ u.p.decided \union waiting = 1 .. requests
      /\ u.p.decided \cap waiting = {}
      /\ u.p.queue # {} => u.p.active # NoRequest

(***************************************************************************)
(* While the window is not in full screen, the prompt's tool bar is        *)
(* visible exactly while a request is being asked.                         *)
(***************************************************************************)
PromptIsShown == u.fs = NoView => (u.p.bar <=> u.p.active # NoRequest)

(***************************************************************************)
(* Whatever the page does, a full screen it was asked to leave ends, and a *)
(* video asked to return returns.                                          *)
(***************************************************************************)
ExitsComplete ==
  \A v \in Views :
    /\ (u.fs = v /\ u.expected[v] # 0) ~> (u.fs # v)
    /\ (u.session[v] = "returning") ~> (u.session[v] = "attached")

=============================================================================
