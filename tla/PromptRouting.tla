---------------------------- MODULE PromptRouting ----------------------------
(***************************************************************************)
(* How a blocked request becomes a prompt in one of several windows:       *)
(* CrossDomainWindowRouter, the CrossDomainPromptController of each        *)
(* window, and the MainWindow handlers that call them (tabs opened,        *)
(* switched, loaded, closed with an animation, windows closed, settings    *)
(* saved).  Everything here runs on the user interface thread, one handler *)
(* at a time; what comes in between are notifications, retry timers,       *)
(* deferred deletions and page events.                                     *)
(*                                                                         *)
(* A handler is a function from the prompt state to the prompt state, as   *)
(* handlers call one another (cancelling one window's prompt may hand it   *)
(* to another window's controller).                                        *)
(***************************************************************************)
EXTENDS PendingTracker, Sequences, FiniteSetsExt, Functions

Seqs == INSTANCE SequencesExt

CONSTANTS
  Policies,          \* as in PromptLifecycle
  MainWin, Popups,   \* the primary window, and windows it may open
  Views, NoView,     \* QWebEngineViews, each used for one tab
  FirstView,         \* the tab the program starts with
  Urls, Blank,       \* what a view may show; Blank is no web page
  Matching,          \* Sources -> sets of Urls: same page, or same origin
  OriginOnly,        \* the sources known by their origin only
  MaxAffectedViews,  \* maximumAffectedViews (64)
  MaxRetries,        \* retries of route (3)
  MaxBlocked,        \* bound: requests blocked
  MaxMoves           \* bound: moves of tabs and windows

Windows == {MainWin} \union Popups
NoRequest == [key |-> "none"]

ASSUME RoutingAssumption ==
  /\ MainWin \notin Popups
  /\ FirstView \in Views /\ NoView \notin Views
  /\ Blank \in Urls
  /\ Matching \in [Sources -> SUBSET (Urls \ {Blank})]
  /\ OriginOnly \subseteq Sources
  /\ {MaxAffectedViews, MaxRetries, MaxBlocked, MaxMoves} \subseteq Nat

VARIABLES
  policy, session,  \* as in PromptLifecycle
  inflight,  \* notifications and retry timers, counted by key, source, attempt
  ui,        \* the prompt state: see UiInit
  tabs,      \* m_tabStates of each window
  windows,   \* registered windows, in registration order
  url,       \* what each view shows
  status,    \* of each view: unborn, open, loading, closing, removed or gone
  blocked,   \* requests blocked so far
  moves      \* moves so far

vars == <<policy, session, inflight, ui, tabs, windows, url, status, blocked, moves>>

(***************************************************************************)
(* ui holds the tracker, the router's routes (key to window and anchor),   *)
(* and each controller's current view, active and queued requests, which   *)
(* are numbered by their place in the queue; refused is history, as in     *)
(* PromptLifecycle.                                                        *)
(***************************************************************************)
UiInit ==
  [ pending |-> EmptyTracker, refused |-> {}, routes |-> << >>,
    current |-> [w \in Windows |-> NoView],
    active |-> [w \in Windows |-> NoRequest],
    queue |-> [w \in Windows |-> {}] ]

Alive(v) == status[v] # "gone"
Showing(v) == status[v] \in {"open", "loading"}

RequestsOf(u, w) == u.queue[w] \union ({u.active[w]} \ {NoRequest})

AllRequests(u) == UNION { RequestsOf(u, w) : w \in Windows }

SourcePairs(r) == { <<r.key, s>> : s \in r.sources }

\* Notifications of one source, whatever their attempt.
Total(counts) ==
  LET upTo[a \in 0 .. MaxRetries] == IF a = 0 THEN counts[0] ELSE upTo[a - 1] + counts[a]
  IN  upTo[MaxRetries]

Lifecycle == INSTANCE PromptLifecycle WITH
  pending <- ui.pending,
  refused <- ui.refused,
  prompts <- UNION { SourcePairs(r) : r \in AllRequests(ui) },
  notices <- [key \in Keys |-> [source \in Sources |-> Total(inflight[key][source])]]

ASSUME PoliciesAssumption == Policies \subseteq Lifecycle!Policy

----------------------------------------------------------------------------
First(requests) == CHOOSE r \in requests : \A x \in requests : r.place <= x.place

LastPlace(requests) == Max({0} \union { r.place : r \in requests })

(***************************************************************************)
(* CrossDomainPromptController.  dismiss, for each of some requests:       *)
(* forgets the request's sources and gives up its route, if the route      *)
(* still is this window's.                                                 *)
(***************************************************************************)
FinishRoutes(u, w, keys) ==
  [u EXCEPT !.routes = Restrict(@, { k \in DOMAIN @ : k \in keys => @[k].window # w })]

\* Mutant of DismissRequests: the sources stay pending.
DismissSilently(u, w, requests) == FinishRoutes(u, w, { r.key : r \in requests })

DismissRequests(u, w, requests) ==
  FinishRoutes([u EXCEPT !.pending = Forget(@, UNION { SourcePairs(r) : r \in requests })],
               w, { r.key : r \in requests })

(***************************************************************************)
(* showNext: the first queued request of the current view becomes active;  *)
(* those whose anchor is gone, up to there, are dismissed.                 *)
(***************************************************************************)
ShowNext(u, w) ==
  LET here == { r \in u.queue[w] : r.anchor = u.current[w] /\ Alive(r.anchor) }
      next == IF here = {} THEN NoRequest ELSE First(here)
      dropped == { r \in u.queue[w] : ~ Alive(r.anchor) /\ (here # {} => r.place < next.place) }
  IN  IF u.active[w] # NoRequest THEN u
      ELSE [DismissRequests(u, w, dropped) EXCEPT
              !.queue[w] = @ \ (dropped \union {next}),
              !.active[w] = IF here = {} THEN NoRequest ELSE [next EXCEPT !.place = 0]]

(***************************************************************************)
(* request: merge into the request of the same key, or queue a new one.    *)
(***************************************************************************)
MergeViews(r, affected) ==
  LET Add(views, c) ==
        LET known == { i \in DOMAIN views : views[i].view = c.view }
        IN  IF c.url = Blank THEN views
            ELSE IF known # {} THEN [views EXCEPT ![Min(known)].url = c.url]
            ELSE IF Len(views) < MaxAffectedViews THEN Append(views, c)
            ELSE views
  IN  [r EXCEPT !.affected = Seqs!FoldLeft(Add, @, affected)]

\* Mutant of MergeSources: a prompt is full one source early.
MergeTooFew(r, sources) ==
  [r EXCEPT !.sources = IF Cardinality(@ \union sources) < MaxSourcesPerRequest THEN @ \union sources ELSE @]

MergeSources(r, sources) ==
  LET new == sources \ r.sources
      room == MaxSourcesPerRequest - Cardinality(r.sources)
      taken == IF Cardinality(new) <= room THEN new
               ELSE CHOOSE some \in SUBSET new : Cardinality(some) = room
  IN  [r EXCEPT !.sources = @ \union taken]

Request(u, w, anchor, affected, sources, key) ==
  LET all == IF \E i \in DOMAIN affected : affected[i].view = anchor THEN affected
             ELSE << [view |-> anchor, url |-> url[anchor]] >> \o affected
      Merged(r) == MergeSources(MergeViews(r, all), sources)
      Refused(r) == u.refused \union { <<key, s>> : s \in sources \ Merged(r).sources }
      same == { r \in u.queue[w] : r.key = key }
      queued == First(same)
      fresh == [place |-> LastPlace(u.queue[w]) + 1, key |-> key, anchor |-> anchor,
                affected |-> << >>, sources |-> {}]
  IN  IF u.active[w] # NoRequest /\ u.active[w].key = key
      THEN [u EXCEPT !.active[w] = Merged(@), !.refused = Refused(u.active[w])]
      ELSE IF same # {}
      THEN [u EXCEPT !.queue[w] = (@ \ {queued}) \union {Merged(queued)}, !.refused = Refused(queued)]
      ELSE ShowNext([u EXCEPT !.queue[w] = @ \union {Merged(fresh)}, !.refused = Refused(fresh)], w)

\* Mutant of CurrentViewChanged: the active request stays.
CurrentViewChangedStaying(u, w, v) == ShowNext([u EXCEPT !.current[w] = v], w)

(***************************************************************************)
(* currentViewChanged: an active request of another view steps back to the *)
(* head of the queue.                                                      *)
(***************************************************************************)
CurrentViewChanged(u, w, v) ==
  LET r == u.active[w]
      now == [u EXCEPT !.current[w] = v]
      stale == r # NoRequest /\ (IF Alive(r.anchor) THEN r.anchor ELSE NoView) # v
      behind == { [x EXCEPT !.place = @ + 1] : x \in u.queue[w] }
  IN  ShowNext(IF stale
               THEN [now EXCEPT !.queue[w] = {[r EXCEPT !.place = 1]} \union behind, !.active[w] = NoRequest]
               ELSE now, w)

----------------------------------------------------------------------------
\* Mutant of Reanchor: the route is left where it was.
ReanchorUnrouted(u, owner, r) ==
  LET hosts == { i \in DOMAIN windows : r.anchor \in tabs[windows[i]] }
  IN  IF hosts = {} THEN DismissRequests(u, owner, {r})
      ELSE Request(u, windows[Min(hosts)], r.anchor, r.affected, r.sources, r.key)

(***************************************************************************)
(* The router's requestReanchorRequested handler: the request moves to the *)
(* window that has the view it is now anchored to.                         *)
(***************************************************************************)
Reanchor(u, owner, r) ==
  LET hosts == { i \in DOMAIN windows : r.anchor \in tabs[windows[i]] }
      host == windows[Min(hosts)]
      routed == [u EXCEPT !.routes =
                   [k \in DOMAIN @ \union {r.key} |->
                      IF k = r.key THEN [window |-> host, anchor |-> r.anchor] ELSE @[k]]]
  IN  IF hosts = {} THEN DismissRequests(u, owner, {r})
      ELSE Request(routed, host, r.anchor, r.affected, r.sources, r.key)

\* The requests that cancelForView moves, in the order of their places.
ReanchorAll(u, owner, requests) ==
  LET after[i \in 0 .. LastPlace(requests)] ==
        IF i = 0 THEN u
        ELSE IF \E r \in requests : r.place = i
        THEN Reanchor(after[i - 1], owner, CHOOSE r \in requests : r.place = i)
        ELSE after[i - 1]
  IN  after[LastPlace(requests)]

(***************************************************************************)
(* removeViewAndChooseAnchor, and cancelForView of one controller: without *)
(* an affected view left a request is dismissed, and one whose anchor went *)
(* is handed to the router again with its first affected view as anchor.   *)
(***************************************************************************)
WithoutView(r, v) ==
  [r EXCEPT !.affected = SelectSeq(@, LAMBDA a : Alive(a.view) /\ a.view # v)]

CancelInWindow(u, w, v) ==
  LET Anchored(r) == r.anchor # v /\ Alive(r.anchor)
      Homeless(r) == ~ Anchored(r) /\ WithoutView(r, v).affected = << >>
      Moved(r) == [WithoutView(r, v) EXCEPT !.anchor = WithoutView(r, v).affected[1].view]
      last == LastPlace(u.queue[w]) + 1
      held == u.queue[w] \union { [r EXCEPT !.place = last] : r \in {u.active[w]} \ {NoRequest} }
      homeless == { r \in held : Homeless(r) }
      moving == { r \in held : ~ Anchored(r) /\ ~ Homeless(r) }
      kept == [u EXCEPT
                 !.queue[w] = { WithoutView(r, v) : r \in { x \in @ : Anchored(x) } },
                 !.active[w] = IF @ # NoRequest /\ Anchored(@) THEN WithoutView(@, v)
                               ELSE NoRequest]
      dismissed == DismissRequests(kept, w, homeless)
  IN  ShowNext(ReanchorAll(dismissed, w, { Moved(r) : r \in moving }), w)

(***************************************************************************)
(* CrossDomainWindowRouter::cancelForView: every registered window's       *)
(* controller; and the same for one view after the other.                  *)
(***************************************************************************)
CancelForView(u, v) ==
  LET after[i \in 0 .. Len(windows)] ==
        IF i = 0 THEN u ELSE CancelInWindow(after[i - 1], windows[i], v)
  IN  after[Len(windows)]

CancelForViews(u, views) ==
  LET after[i \in 0 .. Len(views)] ==
        IF i = 0 THEN u ELSE CancelForView(after[i - 1], views[i])
  IN  after[Len(views)]

DismissAll(u, w) ==
  [DismissRequests(u, w, RequestsOf(u, w)) EXCEPT !.active[w] = NoRequest, !.queue[w] = {}]

----------------------------------------------------------------------------
(***************************************************************************)
(* CrossDomainWindowRouter::route.  Candidates are the tabs of registered  *)
(* windows, the active window's first and each window's current tab first; *)
(* a tab that is closing is still one of them.                             *)
(***************************************************************************)
Registered == Range(windows)

WindowOf(v) == CHOOSE w \in Registered : v \in tabs[w]

Candidates(source) ==
  LET matching == { v \in UNION { tabs[w] : w \in Registered } : url[v] \in Matching[source] }
  IN  IF source \in OriginOnly /\ Cardinality(matching) # 1 THEN {} ELSE matching

CandidateOrders(source) ==
  LET Before(activeWin, v, x) ==
        LET p == WindowOf(v)
            q == WindowOf(x)
            Place(w) == IF w = activeWin THEN 0 ELSE CHOOSE i \in DOMAIN windows : windows[i] = w
        IN  IF p = q THEN x # ui.current[q] ELSE Place(p) < Place(q)
  IN  { order \in Seqs!SetToSeqs(Candidates(source)) :
          \E activeWin \in Registered :
            \A i, j \in DOMAIN order : i < j => Before(activeWin, order[i], order[j]) }

AsksNow(key) ==
  Lifecycle!InForceOf(policy, [session EXCEPT ![key] = Lifecycle!Undecided], key) = "ask"

RouteIsLive(key) ==
  /\ key \in DOMAIN ui.routes
  /\ Alive(ui.routes[key].anchor)
  /\ ui.routes[key].window \in Registered
  /\ ui.routes[key].anchor \in tabs[ui.routes[key].window]

RouteTo(key, source, order) ==
  LET affected == [i \in DOMAIN order |-> [view |-> order[i], url |-> url[order[i]]]]
      target == IF RouteIsLive(key) THEN ui.routes[key]
                ELSE [window |-> WindowOf(order[1]), anchor |-> order[1]]
      routed == [ui EXCEPT !.routes =
                   [k \in DOMAIN @ \union {key} |-> IF k = key THEN target ELSE @[k]]]
  IN  Request(routed, target.window, target.anchor, affected, {source}, key)

\* With no candidate, a route found dead has been erased all the same.
WithoutDeadRoute(key) ==
  IF RouteIsLive(key) THEN ui ELSE [ui EXCEPT !.routes = Restrict(@, DOMAIN @ \ {key})]

\* Mutant of Retried: the timer calls route with the same attempt.
RetriedForever(taken, key, source, attempt) ==
  [taken EXCEPT ![key][source][attempt] = @ + 1]

Retried(taken, key, source, attempt) ==
  [taken EXCEPT ![key][source][attempt + 1] = @ + 1]

(***************************************************************************)
(* A notification or a retry.  It is dropped when its source is no longer  *)
(* pending, or its key was decided (then the whole key is dismissed).      *)
(***************************************************************************)
Route(key, source, attempt) ==
  LET taken == [inflight EXCEPT ![key][source][attempt] = @ - 1]
      known == IsPending(ui.pending, key, source)
      orphan == known /\ AsksNow(key) /\ Candidates(source) = {}
      bare == WithoutDeadRoute(key)
  IN  /\ inflight[key][source][attempt] > 0
      /\ \/ /\ ~ (known /\ AsksNow(key))
            /\ inflight' = taken
            /\ ui' = [ui EXCEPT !.pending = IF known THEN RemoveKey(@, key) ELSE @]
         \/ /\ known /\ AsksNow(key)
            /\ inflight' = taken
            /\ \E order \in CandidateOrders(source) :
                 order # << >> /\ ui' = RouteTo(key, source, order)
         \/ orphan /\ attempt < MaxRetries /\ ui' = bare
            /\ inflight' = Retried(taken, key, source, attempt)
         \/ /\ orphan /\ attempt = MaxRetries
            /\ inflight' = taken
            /\ ui' = [bare EXCEPT !.pending = RemoveSource(@, key, source)]
      /\ UNCHANGED <<policy, session, tabs, windows, url, status, blocked, moves>>

----------------------------------------------------------------------------
(***************************************************************************)
(* allowRequest blocks a request of a page some tab shows, as far as this  *)
(* thread sees it: RequestInterceptor has the details.                     *)
(***************************************************************************)
BlockRequest(key, source) ==
  /\ blocked < MaxBlocked
  /\ \E v \in UNION Range(tabs) : url[v] \in Matching[source]
  /\ Lifecycle!InForce(key) = "ask"
  /\ MayRecord(ui.pending, key, source)
  /\ ui' = [ui EXCEPT !.pending = Record(@, key, source)]
  /\ inflight' = [inflight EXCEPT ![key][source][0] = @ + 1]
  /\ blocked' = blocked + 1
  /\ UNCHANGED <<policy, session, tabs, windows, url, status, moves>>

Move == moves < MaxMoves /\ moves' = moves + 1

Unmoved == UNCHANGED <<policy, session, inflight, blocked>>

(***************************************************************************)
(* MainWindow: a popup window is created with one tab; createTab, in front *)
(* or in the background; the tab bar's current tab changes.                *)
(***************************************************************************)
OpenWindow(w, v) ==
  /\ Move /\ Unmoved
  /\ w \in Popups \ Registered /\ status[v] = "unborn"
  /\ windows' = Append(windows, w)
  /\ tabs' = [tabs EXCEPT ![w] = {v}]
  /\ status' = [status EXCEPT ![v] = "open"]
  /\ ui' = CurrentViewChanged(ui, w, v)
  /\ UNCHANGED url

OpenTab(w, v) ==
  /\ Move /\ Unmoved
  /\ w \in Registered /\ status[v] = "unborn"
  /\ tabs' = [tabs EXCEPT ![w] = @ \union {v}]
  /\ status' = [status EXCEPT ![v] = "open"]
  /\ ui' \in {ui, CurrentViewChanged(ui, w, v)}
  /\ UNCHANGED <<windows, url>>

SwitchTab(w, v) ==
  /\ Move /\ Unmoved
  /\ w \in Registered /\ v \in tabs[w] /\ Showing(v) /\ v # ui.current[w]
  /\ ui' = CurrentViewChanged(ui, w, v)
  /\ UNCHANGED <<tabs, windows, url, status>>

(***************************************************************************)
(* loadStarted cancels the prompts of the old page; its URL changes only   *)
(* when the new page commits (or fails: the URL stays).                    *)
(***************************************************************************)
LoadStarted(v) ==
  /\ Move /\ Unmoved
  /\ Showing(v)
  /\ status' = [status EXCEPT ![v] = "loading"]
  /\ ui' = CancelForView(ui, v)
  /\ UNCHANGED <<tabs, windows, url>>

Commit(v, page) ==
  /\ Unmoved
  /\ status[v] = "loading"
  /\ status' = [status EXCEPT ![v] = "open"]
  /\ url' = [url EXCEPT ![v] = page]
  /\ UNCHANGED <<ui, tabs, windows, moves>>

(***************************************************************************)
(* closeTab and prepareTabForClosing: prompts of the view are cancelled    *)
(* and the tab bar moves on, but the tab stays in m_tabStates until its    *)
(* animation ends (finishClosingTab), and the view exists until the        *)
(* deferred deletion after that.  Closing the primary window's last tab    *)
(* ends the program.                                                       *)
(***************************************************************************)
Others(w, v) == { x \in tabs[w] \ {v} : Showing(x) }

CloseTab(w, v) ==
  /\ Move /\ Unmoved
  /\ w \in Registered /\ v \in tabs[w] /\ Showing(v)
  /\ w = MainWin => Others(w, v) # {}
  /\ status' = [status EXCEPT ![v] = "closing"]
  /\ LET cancelled == CancelForView(ui, v)
     IN  IF ui.current[w] = v /\ Others(w, v) # {}
         THEN \E x \in Others(w, v) : ui' = CurrentViewChanged(cancelled, w, x)
         ELSE ui' = cancelled
  /\ UNCHANGED <<tabs, windows, url>>

FinishClosingTab(w, v) ==
  /\ Unmoved
  /\ v \in tabs[w] /\ status[v] = "closing"
  /\ tabs' = [tabs EXCEPT ![w] = @ \ {v}]
  /\ status' = [status EXCEPT ![v] = "removed"]
  /\ IF ui.current[w] # v THEN UNCHANGED ui
     ELSE \E x \in (IF tabs[w] = {v} THEN {NoView} ELSE tabs[w] \ {v}) :
            ui' = CurrentViewChanged(ui, w, x)
  /\ UNCHANGED <<windows, url, moves>>

DeleteView(v) ==
  /\ Unmoved
  /\ status[v] = "removed"
  /\ status' = [status EXCEPT ![v] = "gone"]
  /\ UNCHANGED <<ui, tabs, windows, url, moves>>

(***************************************************************************)
(* ~MainWindow of a popup: its views' prompts are cancelled one view after *)
(* the other, the window is unregistered (its controller's signals reach   *)
(* the router no more) and the controller dismisses what it still holds.   *)
(***************************************************************************)
CloseWindow(w) ==
  LET Unregistered(u) ==
        [u EXCEPT !.routes = Restrict(@, { k \in DOMAIN @ : @[k].window # w /\ Alive(@[k].anchor) })]
  IN  /\ Move /\ Unmoved
      /\ w \in Popups \intersect Registered
      /\ \E views \in Seqs!SetToSeqs(tabs[w]) :
           ui' = [DismissAll(Unregistered(CancelForViews(ui, views)), w) EXCEPT !.current[w] = NoView]
      /\ windows' = Seqs!RemoveAt(windows, CHOOSE i \in DOMAIN windows : windows[i] = w)
      /\ tabs' = [tabs EXCEPT ![w] = {}]
      /\ status' = [v \in Views |-> IF v \in tabs[w] THEN "gone" ELSE status[v]]
      /\ UNCHANGED url

(***************************************************************************)
(* resolveCurrent.  When a lasting answer cannot be saved nothing happens. *)
(* The reload an allowing answer triggers arrives as LoadStarted.          *)
(***************************************************************************)
Reloads(r) == { r.affected[i].view : i \in
                  { j \in DOMAIN r.affected : /\ Alive(r.affected[j].view)
                                              /\ url[r.affected[j].view] = r.affected[j].url } }

Resolve(w, decision, lasting) ==
  LET r == ui.active[w]
      answered == [ui EXCEPT !.active[w] = NoRequest,
                             !.pending = Lifecycle!Resolved(r.key, lasting)]
  IN  /\ r # NoRequest
      /\ IF lasting THEN Lifecycle!ResolvePersistently(r.key, decision)
                    ELSE Lifecycle!ResolveForSession(r.key, decision)
      /\ ui' = ShowNext(FinishRoutes(answered, w, {r.key}), w)
      /\ UNCHANGED <<inflight, tabs, windows, url, status, blocked, moves>>

(***************************************************************************)
(* openSettingsPage's apply handler: the policy, with which nothing is     *)
(* pending any more, then every controller's requests, then the routes.    *)
(***************************************************************************)
SaveSettings ==
  /\ Move
  /\ \E updated \in Policies :
       /\ policy' = updated
       /\ session' = IF updated.enabled THEN session
                     ELSE [key \in Keys |-> Lifecycle!Undecided]
  /\ ui' = [ui EXCEPT
              !.pending = EmptyTracker, !.routes = << >>,
              !.active = [w \in Windows |-> IF w \in Registered THEN NoRequest ELSE @[w]],
              !.queue = [w \in Windows |-> IF w \in Registered THEN {} ELSE @[w]]]
  /\ UNCHANGED <<inflight, tabs, windows, url, status, blocked>>

Init ==
  /\ policy \in Policies
  /\ session = [key \in Keys |-> Lifecycle!Undecided]
  /\ inflight = [key \in Keys |-> [source \in Sources |-> [a \in 0 .. MaxRetries |-> 0]]]
  /\ ui = [UiInit EXCEPT !.current[MainWin] = FirstView]
  /\ tabs = [w \in Windows |-> IF w = MainWin THEN {FirstView} ELSE {}]
  /\ windows = << MainWin >>
  /\ url \in [Views -> Urls] /\ \A v \in Views \ {FirstView} : url[v] = Blank
  /\ status = [v \in Views |-> IF v = FirstView THEN "open" ELSE "unborn"]
  /\ blocked = 0
  /\ moves = 0

Deliver(key, source) == \E attempt \in 0 .. MaxRetries : Route(key, source, attempt)

Next ==
  \/ \E key \in Keys, source \in Sources : BlockRequest(key, source) \/ Deliver(key, source)
  \/ \E w \in Windows :
       \/ \E v \in Views :
            \/ OpenWindow(w, v) \/ OpenTab(w, v) \/ SwitchTab(w, v)
            \/ CloseTab(w, v) \/ FinishClosingTab(w, v)
       \/ CloseWindow(w)
       \/ \E decision \in {"allow", "block"}, lasting \in BOOLEAN : Resolve(w, decision, lasting)
  \/ \E v \in Views : LoadStarted(v) \/ DeleteView(v) \/ \E page \in Urls : Commit(v, page)
  \/ SaveSettings

Spec == Init /\ [][Next]_vars

\* Notifications and retry timers are delivered.
FairSpec ==
  Spec /\ \A key \in Keys, source \in Sources, attempt \in 0 .. MaxRetries :
            WF_vars(Route(key, source, attempt))

----------------------------------------------------------------------------
TypeOK ==
  /\ policy \in Lifecycle!Policy
  /\ session \in [Keys -> Lifecycle!Decisions \union {Lifecycle!Undecided}]
  /\ inflight \in [Keys -> [Sources -> [0 .. MaxRetries -> Nat]]]
  /\ tabs \in [Windows -> SUBSET Views]
  /\ Registered \subseteq Windows
  /\ url \in [Views -> Urls]
  /\ status \in [Views -> {"unborn", "open", "loading", "closing", "removed", "gone"}]
  /\ ui.pending \in Tracker
  /\ \A key \in DOMAIN ui.routes :
       key \in Keys /\ ui.routes[key] \in [window: Windows, anchor: Views]
  /\ \A r \in AllRequests(ui) :
       r.key \in Keys /\ r.anchor \in Views /\ r.sources \in (SUBSET Sources) \ {{}}

(***************************************************************************)
(* The prompt pipeline of all windows together is PromptLifecycle: in each *)
(* handler, prompts, pending sources and notifications change together.    *)
(***************************************************************************)
ImplementsLifecycle == Lifecycle!LifecycleSpec

(***************************************************************************)
(* No source stays pending without a notification on its way or a prompt   *)
(* that asks about it: nothing else would ever unblock its page.           *)
(***************************************************************************)
PendingIsPrompted ==
  \A pair \in ui.pending.sources :
    \/ \E attempt \in 0 .. MaxRetries : inflight[pair[1]][pair[2]][attempt] > 0
    \/ \E r \in AllRequests(ui) : r.key = pair[1] /\ pair[2] \in r.sources
    \/ pair \in ui.refused

(***************************************************************************)
(* A notification routed while its tab closes may anchor a prompt to that  *)
(* tab; when the tab is gone the prompt is stranded, until the controller  *)
(* dismisses it.                                                           *)
(***************************************************************************)
Stranded(key) ==
  \E w \in Windows : \E r \in RequestsOf(ui, w) : r.key = key /\ r.anchor \notin tabs[w]

(***************************************************************************)
(* Requests and routes are well formed; a window asks once about a key;    *)
(* and a route that is followed leads to a window that asks about its key, *)
(* so that a source routed by it always joins a prompt.                    *)
(***************************************************************************)
RoutesLeadToPrompts ==
  /\ TypeOK
  /\ \A w \in Windows : \A r1, r2 \in RequestsOf(ui, w) : r1.key = r2.key => r1 = r2
  /\ \A key \in Keys :
       RouteIsLive(key) => \E r \in RequestsOf(ui, ui.routes[key].window) : r.key = key

(***************************************************************************)
(* A key is asked about once among all windows, where its route leads.     *)
(***************************************************************************)
AskedOnce(key) ==
  /\ \A w1, w2 \in Windows : \A r1 \in RequestsOf(ui, w1), r2 \in RequestsOf(ui, w2) :
       r1.key = key /\ r2.key = key => w1 = w2 /\ r1 = r2
  /\ \A w \in Windows, v \in Views :
       (\E r \in RequestsOf(ui, w) : r.key = key /\ r.anchor = v)
         <=> (RouteIsLive(key) /\ ui.routes[key] = [window |-> w, anchor |-> v])

(***************************************************************************)
(* No handler ever gives a key that is asked about once a second prompt or *)
(* a route that leads elsewhere, short of stranding its prompt.  (What may *)
(* become of the key after that, see README, section 5.)                   *)
(***************************************************************************)
OnePromptStays(key) == AskedOnce(key) /\ ~ Stranded(key) => (AskedOnce(key) \/ Stranded(key))'

(***************************************************************************)
(* Routes and prompts of all windows agree.                                *)
(***************************************************************************)
RoutesAgree == []RoutesLeadToPrompts /\ [][\A key \in Keys : OnePromptStays(key)]_vars

(***************************************************************************)
(* The prompt on screen belongs to the tab on screen: an answer is never   *)
(* given to a page the user does not see.                                  *)
(***************************************************************************)
ActiveIsCurrent ==
  \A w \in Registered : ui.active[w] # NoRequest => ui.active[w].anchor = ui.current[w]

(***************************************************************************)
(* A tab on screen with a question waiting shows one.                      *)
(***************************************************************************)
CurrentIsAsked ==
  \A w \in Registered :
    (\E r \in RequestsOf(ui, w) : r.anchor = ui.current[w] /\ Alive(r.anchor))
      => ui.active[w] # NoRequest

(***************************************************************************)
(* The prompt on screen is one about the tab on screen, if there is one.   *)
(***************************************************************************)
PromptFollowsTab == ActiveIsCurrent /\ CurrentIsAsked

(***************************************************************************)
(* Every notification is routed or given up: retrying ends.                *)
(***************************************************************************)
EveryNoticeIsSettled ==
  \A key \in Keys, source \in Sources :
    (\E attempt \in 0 .. MaxRetries : inflight[key][source][attempt] > 0)
      ~> (\A attempt \in 0 .. MaxRetries : inflight[key][source][attempt] = 0)

=============================================================================
