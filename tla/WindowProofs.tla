----------------------------- MODULE WindowProofs -----------------------------
(***************************************************************************)
(* What one window promises.  VideoPresentation: full screen, detached     *)
(* videos, pop-out clicks and permission prompts, for any number of tabs   *)
(* and events.  PageTools, PageZoom, TabStrip: find bar and external       *)
(* links, zoom, widths of the tabs.  A handler maps the state of the       *)
(* window to the state of the window, so each has a lemma of its own; the  *)
(* steps are put together from those.  TabSession, at the end: bar, stack  *)
(* and session file over any number of starts.                             *)
(***************************************************************************)
EXTENDS MCWindow, TabSession, SubsequenceProofs

----------------------------------------------------------------------------
(***************************************************************************)
(* Permission prompts.  Accounted: of n requests each is decided or still  *)
(* to be decided, and never both.  From: the undecided ones are all from   *)
(* the page that one tab shows.  Asking: requests wait only behind one     *)
(* that is asked about.  None of them looks at the tool bar, which full    *)
(* screen hides and shows (SamePrompts).                                   *)
(***************************************************************************)
Accounted(p, n) ==
  /\ p \in PermissionType
  /\ p.active \notin p.queue
  /\ \A r, s \in Undecided(p) : r.id = s.id => r = s
  /\ \A r \in Undecided(p) : r.id \in 1 .. n /\ r.id \notin p.decided
  /\ p.decided \subseteq 1 .. n
  /\ \A i \in 1 .. n : i \in p.decided \/ \E r \in Undecided(p) : r.id = i

From(p, view, page) == \A r \in Undecided(p) : r.view = view /\ r.page = page[view]

Asking(p) == p.queue # {} => p.active # NoRequest

PromptsOK(p, page, n) == Accounted(p, n) /\ From(p, p.current, page) /\ Asking(p)

SamePrompts(p, q) ==
  /\ q.current = p.current /\ q.active = p.active
  /\ q.queue = p.queue /\ q.decided = p.decided

\* NoRequest is no request: it has no tab.
LEMMA NoRequestIsNone == NoRequest \notin RequestType
BY ViewsAssumption DEF NoRequest, RequestType

\* Of waiting requests there is one that came first.
LEMMA FirstWaiting ==
  ASSUME NEW S \in SUBSET RequestType, S # {}
  PROVE  \E r \in S : \A s \in S : r.id <= s.id
<1> DEFINE ids == { r.id : r \in S }
<1>1. ids \subseteq Nat /\ ids # {}
  BY WindowAssumption DEF RequestType
<1>2. PICK i \in ids : \A j \in ids : i <= j
  BY <1>1, LeastNumber
<1> QED BY <1>2

\* showNext decides or asks; what is left to decide is of the current tab.
LEMMA ShowNextKeeps ==
  ASSUME NEW p, NEW view, NEW page, NEW n \in Nat,
         Accounted(p, n), From(p, view, page),
         p.active # NoRequest => p.current = view /\ Asking(p)
  PROVE  /\ PromptsOK(ShowNext(p), page, n)
         /\ ShowNext(p).current = p.current
         /\ Undecided(ShowNext(p)) \subseteq Undecided(p)
<1> DEFINE q == ShowNext(p)
           here == { r \in p.queue : r.view = p.current }
           first == CHOOSE r \in here : \A s \in here : r.id <= s.id
           rest == { r \in p.queue : here # {} /\ r.id > first.id }
           next == IF here = {} THEN NoRequest ELSE first
<1>1. CASE p.active # NoRequest
  <2>1. q = p
    BY <1>1 DEF ShowNext
  <2> QED BY <1>1, <2>1 DEF PromptsOK
<1>2. CASE p.active = NoRequest
  <2>1. p \in PermissionType /\ p.queue \subseteq RequestType /\ here \subseteq RequestType
    BY DEF Accounted, PermissionType
  <2>2. /\ q.current = p.current /\ q.queue = rest /\ q.active = next
        /\ q.decided = p.decided \union Numbers(p.queue \ (rest \union {next}))
        /\ q.bar = (here # {})
        /\ q = [current |-> q.current, active |-> q.active, queue |-> q.queue,
                decided |-> q.decided, bar |-> q.bar]
    BY <1>2, <2>1, Zenon DEF ShowNext, Deciding, PermissionType
  <2>3. here # {} => first \in here /\ \A r \in here : first.id <= r.id
    BY <2>1, FirstWaiting
  <2>4. here = {} \/ here = p.queue
    BY DEF From, Undecided
  <2>5. Undecided(p) = p.queue
    BY <1>2 DEF Undecided
  <2>6. Undecided(q) = rest \union ({next} \ {NoRequest})
    BY <2>2 DEF Undecided
  <2>7. NoRequest \notin p.queue
    BY <2>1, NoRequestIsNone
  <2>8. here # {} => Undecided(q) = here
    <3> SUFFICES ASSUME here # {} PROVE Undecided(q) = here
      OBVIOUS
    <3>1. Undecided(q) = rest \union {first}
      BY <2>3, <2>6, <2>7
    <3>2. \A r \in here : r.id = first.id => r = first
      BY <2>3, <2>5 DEF Accounted
    <3>3. \A r \in here : r.id \in Nat
      BY <2>1 DEF RequestType
    <3> QED BY <2>3, <2>4, <3>1, <3>2, <3>3
  <2>9. here = {} => Undecided(q) = {} /\ rest = {} /\ next = NoRequest
    BY <2>6
  <2>10. p.queue \ (rest \union {next}) = IF here = {} THEN p.queue ELSE {}
    BY <2>4, <2>6, <2>7, <2>8, <2>9, <2>3
  <2>11. q.decided = IF here = {} THEN p.decided \union Numbers(p.queue) ELSE p.decided
    BY <2>2, <2>10 DEF Numbers
  <2>12. next \notin rest
    <3>1. here # {} => first.id \in Nat
      BY <2>1, <2>3 DEF RequestType
    <3> QED BY <2>7, <3>1
  <2>13. q \in PermissionType
    <3>1. q.decided \subseteq 1 .. MaxRequests
      BY <2>1, <2>11 DEF PermissionType, Numbers, RequestType
    <3>2. next \in RequestType \union {NoRequest} /\ rest \in SUBSET RequestType
      BY <2>1, <2>3
    <3> QED BY <2>1, <2>2, <3>1, <3>2 DEF PermissionType
  <2>14. Undecided(q) \subseteq Undecided(p) /\ From(q, q.current, page)
    BY <2>2, <2>5, <2>8, <2>9 DEF From
  <2>15. Asking(q)
    BY <2>2, <2>3, <2>7, <2>9 DEF Asking
  <2>16. Accounted(q, n)
    <3>1. CASE here = {}
      <4>1. q.decided = p.decided \union { r.id : r \in p.queue }
        BY <3>1, <2>11 DEF Numbers
      <4> QED BY <3>1, <4>1, <2>2, <2>5, <2>9, <2>13, SMTT(30) DEF Accounted
    <3>2. CASE here # {}
      <4>1. Undecided(q) = Undecided(p) /\ q.decided = p.decided
        BY <3>2, <2>4, <2>5, <2>8, <2>11
      <4> QED BY <4>1, <2>2, <2>12, <2>13 DEF Accounted
    <3> QED BY <3>1, <3>2
  <2> QED BY <2>2, <2>14, <2>15, <2>16 DEF PromptsOK
<1> QED BY <1>1, <1>2

\* What leaves the queue or the prompt when it is decided.
LEMMA DecidingKeeps ==
  ASSUME NEW p, NEW n \in Nat, Accounted(p, n), NEW gone \in SUBSET p.queue
  PROVE  /\ Accounted([Deciding(p, gone) EXCEPT !.queue = @ \ gone], n)
         /\ p.active # NoRequest => Accounted(Ended(Deciding(p, {p.active})), n)
<1>1. p \in PermissionType /\ NoRequest \notin p.queue
  BY NoRequestIsNone DEF Accounted, PermissionType
<1>2. Accounted([Deciding(p, gone) EXCEPT !.queue = @ \ gone], n)
  <2> DEFINE q == [Deciding(p, gone) EXCEPT !.queue = @ \ gone]
  <2>1. /\ q.queue = p.queue \ gone /\ q.active = p.active
        /\ q.decided = p.decided \union { r.id : r \in gone }
    BY <1>1 DEF Deciding, Numbers, PermissionType
  <2>2. { r.id : r \in gone } \subseteq 1 .. MaxRequests
    BY <1>1 DEF PermissionType, RequestType
  <2>3. q \in PermissionType
    BY <1>1, <2>2 DEF Deciding, Numbers, PermissionType
  <2>4. Undecided(q) = Undecided(p) \ gone /\ gone \subseteq Undecided(p)
    BY <1>1, <2>1 DEF Undecided, Accounted
  <2> HIDE DEF q
  <2>5. Accounted(q, n)
    BY <2>1, <2>3, <2>4 DEF Accounted
  <2> QED BY <2>5 DEF q
<1>3. ASSUME p.active # NoRequest PROVE Accounted(Ended(Deciding(p, {p.active})), n)
  <2> DEFINE q == Ended(Deciding(p, {p.active}))
  <2>1. /\ q.queue = p.queue /\ q.active = NoRequest
        /\ q.decided = p.decided \union {p.active.id}
    BY <1>1 DEF Deciding, Numbers, PermissionType, Ended
  <2>2. p.active.id \in 1 .. MaxRequests
    BY <1>1, <1>3 DEF PermissionType, RequestType
  <2>3. q \in PermissionType
    BY <1>1, <2>2 DEF Deciding, Numbers, PermissionType, Ended
  <2>4. Undecided(q) = Undecided(p) \ {p.active} /\ p.active \in Undecided(p)
    BY <1>1, <1>3, <2>1 DEF Undecided, Accounted
  <2> HIDE DEF q
  <2>5. Accounted(q, n)
    BY <1>1, <2>1, <2>3, <2>4 DEF Accounted
  <2> QED BY <2>5 DEF q
<1> QED BY <1>2, <1>3

\* The user's answer; denyCurrent also serves the change of tabs, where the
\* request belongs to the tab left (view).
LEMMA DenyCurrentKeeps ==
  ASSUME NEW p, NEW view, NEW page, NEW n \in Nat,
         Accounted(p, n), From(p, view, page), Asking(p)
  PROVE  /\ PromptsOK(DenyCurrent(p), page, n)
         /\ DenyCurrent(p).current = p.current
<1> DEFINE q == Ended(IF p.active = NoRequest THEN p ELSE Deciding(p, {p.active}))
<1>1. p \in PermissionType
  BY DEF Accounted
<1>2. q.current = p.current /\ q.active = NoRequest /\ q.queue = p.queue
  BY <1>1 DEF PermissionType, Ended, Deciding
<1>3. Accounted(q, n)
  <2>1. CASE p.active = NoRequest
    <3>1. q.decided = p.decided /\ q \in PermissionType
      BY <1>1, <2>1 DEF PermissionType, Ended
    <3> HIDE DEF q
    <3> QED BY <1>2, <2>1, <3>1 DEF Accounted, Undecided
  <2>2. CASE p.active # NoRequest
    BY <2>2, DecidingKeeps
  <2> QED BY <2>1, <2>2
<1>4. From(q, view, page)
  BY <1>2 DEF From, Undecided
<1> HIDE DEF q
<1>5. PromptsOK(ShowNext(q), page, n) /\ ShowNext(q).current = q.current
  BY <1>2, <1>3, <1>4, ShowNextKeeps
<1> QED BY <1>2, <1>5 DEF DenyCurrent, q

LEMMA AllowCurrentKeeps ==
  ASSUME NEW p, NEW page, NEW n \in Nat, PromptsOK(p, page, n)
  PROVE  PromptsOK(AllowCurrent(p), page, n) /\ AllowCurrent(p).current = p.current
<1>1. p.active # NoRequest => p.active.view = p.current
  BY DEF PromptsOK, From, Undecided
<1>2. AllowCurrent(p) = DenyCurrent(p)
  BY <1>1 DEF AllowCurrent, DenyCurrent
<1> QED BY <1>2, DenyCurrentKeeps DEF PromptsOK

\* currentViewChanged: what the tab left asked for is denied.
LEMMA CurrentViewChangedKeeps ==
  ASSUME NEW p, NEW view \in Views, NEW page, NEW n \in Nat, PromptsOK(p, page, n)
  PROVE  PromptsOK(CurrentViewChanged(p, view), page, n) /\ CurrentViewChanged(p, view).current = view
<1> DEFINE now == [p EXCEPT !.current = view]
           stale == p.active # NoRequest /\ p.active.view # view
<1>1. now.current = view /\ now \in PermissionType
      /\ now.active = p.active /\ now.queue = p.queue /\ now.decided = p.decided
  BY DEF PromptsOK, Accounted, PermissionType, SamePrompts
<1>2. Accounted(now, n) /\ From(now, p.current, page) /\ Asking(now)
  BY <1>1 DEF PromptsOK, Accounted, From, Asking, Undecided
<1> HIDE DEF now
<1>3. CASE stale
  <2>1. PromptsOK(DenyCurrent(now), page, n) /\ DenyCurrent(now).current = view
    BY <1>1, <1>2, DenyCurrentKeeps
  <2>2. PromptsOK(ShowNext(DenyCurrent(now)), page, n) /\ ShowNext(DenyCurrent(now)).current = view
    BY <2>1, ShowNextKeeps DEF PromptsOK
  <2> QED BY <1>3, <2>2 DEF CurrentViewChanged, now
<1>4. CASE ~ stale
  <2>1. now.active # NoRequest => now.current = p.current
    BY <1>1, <1>4 DEF PromptsOK, From, Undecided
  <2>2. PromptsOK(ShowNext(now), page, n) /\ ShowNext(now).current = view
    BY <1>1, <1>2, <2>1, ShowNextKeeps
  <2> QED BY <1>4, <2>2 DEF CurrentViewChanged, now
<1> QED BY <1>3, <1>4

\* cancelForView: nothing of the tab is left to decide.
LEMMA CancelForViewKeeps ==
  ASSUME NEW p, NEW view \in Views, NEW page, NEW n \in Nat, PromptsOK(p, page, n)
  PROVE  /\ PromptsOK(CancelForView(p, view), page, n)
         /\ CancelForView(p, view).current = p.current
         /\ \A r \in Undecided(CancelForView(p, view)) : r.view # view
<1> DEFINE mine == { r \in p.queue : r.view = view }
           cleared == [Deciding(p, mine) EXCEPT !.queue = @ \ mine]
           q == IF p.active.view = view THEN Ended(Deciding(cleared, {cleared.active})) ELSE cleared
<1>1. p \in PermissionType /\ mine \in SUBSET p.queue
  BY DEF PromptsOK, Accounted
<1>2. Accounted(cleared, n)
  BY <1>1, DecidingKeeps DEF PromptsOK
<1>3. cleared.current = p.current /\ cleared.active = p.active /\ cleared.queue = p.queue \ mine
  BY <1>1 DEF Deciding, PermissionType
<1>4. p.active.view = view => p.active # NoRequest
  BY ViewsAssumption DEF NoRequest
<1>5. CancelForView(p, view) = ShowNext(q)
  BY <1>3 DEF CancelForView
<1> HIDE DEF cleared
<1>6. Accounted(q, n)
  BY <1>2, <1>3, <1>4, DecidingKeeps
<1>7. /\ q.current = p.current /\ q.queue = cleared.queue
      /\ q.active = IF p.active.view = view THEN NoRequest ELSE p.active
  BY <1>2, <1>3 DEF Accounted, PermissionType, Ended, Deciding
<1>8. \A r \in Undecided(q) : r \in Undecided(p) /\ r.view # view
  BY <1>3, <1>7 DEF Undecided
<1>9. From(q, p.current, page)
  BY <1>8 DEF From, PromptsOK
<1>10. q.active # NoRequest => Asking(q)
  BY DEF Asking
<1> HIDE DEF q
<1>11. /\ PromptsOK(ShowNext(q), page, n) /\ ShowNext(q).current = q.current
       /\ Undecided(ShowNext(q)) \subseteq Undecided(q)
  BY <1>6, <1>7, <1>9, <1>10, ShowNextKeeps
<1> QED BY <1>5, <1>7, <1>8, <1>11

\* request: the new request is asked about, waits, or is decided.
LEMMA RequestPermissionKeeps ==
  ASSUME NEW p, NEW page, NEW n \in Nat, PromptsOK(p, page, n),
         NEW r \in RequestType, r.id = n + 1, r.page = page[r.view], NEW promptable
  PROVE  /\ PromptsOK(RequestPermission(p, r, promptable), page, n + 1)
         /\ RequestPermission(p, r, promptable).current = p.current
<1>1. /\ p \in PermissionType /\ r \notin Undecided(p) /\ n + 1 \notin p.decided
      /\ r # NoRequest /\ \A s \in Undecided(p) : s.id # r.id
  BY NoRequestIsNone DEF PromptsOK, Accounted
<1>2. CASE promptable /\ r.view = p.current
  <2> DEFINE q == [p EXCEPT !.queue = @ \union {r}]
  <2>1. /\ q.current = p.current /\ q.active = p.active /\ q.decided = p.decided
        /\ q.queue = p.queue \union {r} /\ q \in PermissionType
    BY <1>1 DEF PermissionType
  <2> HIDE DEF q
  <2>2. Undecided(q) = Undecided(p) \union {r}
    BY <2>1 DEF Undecided
  <2>3. p.active # r
    BY <1>1 DEF Undecided
  <2>4. Accounted(q, n + 1)
    BY <1>1, <2>1, <2>2, <2>3 DEF PromptsOK, Accounted
  <2>5. From(q, p.current, page)
    BY <1>2, <2>2 DEF PromptsOK, From
  <2>6. q.active # NoRequest => Asking(q)
    BY DEF Asking
  <2>7. PromptsOK(ShowNext(q), page, n + 1) /\ ShowNext(q).current = q.current
    BY <2>1, <2>4, <2>5, <2>6, ShowNextKeeps
  <2> QED BY <1>2, <2>1, <2>7 DEF RequestPermission, q
<1>3. CASE ~ (promptable /\ r.view = p.current)
  <2> DEFINE q == Deciding(p, {r})
  <2>1. /\ q.current = p.current /\ q.active = p.active /\ q.queue = p.queue
        /\ q.decided = p.decided \union {n + 1} /\ q \in PermissionType
    BY <1>1 DEF PermissionType, Deciding, Numbers, RequestType
  <2> HIDE DEF q
  <2>2. Undecided(q) = Undecided(p)
    BY <2>1 DEF Undecided
  <2>3. Accounted(q, n + 1)
    BY <1>1, <2>1, <2>2 DEF PromptsOK, Accounted
  <2>4. From(q, q.current, page) /\ Asking(q)
    BY <2>1, <2>2 DEF PromptsOK, From, Asking
  <2> QED BY <1>3, <2>1, <2>3, <2>4 DEF RequestPermission, PromptsOK, q
<1> QED BY <1>2, <1>3

----------------------------------------------------------------------------
(***************************************************************************)
(* Surfaces.  SurfacesOK: what page and window take to be in full screen   *)
(* agrees, for the open tabs (opened), after pages asked for full screen   *)
(* asked times.  Two parts are there for the induction.  A tab whose video *)
(* returns is still expected to leave, so the end of the return disowns    *)
(* nothing.  Only a full screen that was not yet asked to end can be asked *)
(* to, so there are no more exits than requests to enter (Budget).         *)
(***************************************************************************)
WindowType ==
  [ engine : [Views -> BOOLEAN],
    fs : Views \union {NoView}, savedBar : BOOLEAN,
    expected : [Views -> Nat], serial : Nat, exitTimers : SUBSET (Views \X Nat),
    session : [Views -> {"attached", "detached", "returning"}], videoExits : SUBSET Views,
    popout : [Views -> [serial : Nat, state : {"none", "live", "late"}]],
    popTimers : SUBSET (Views \X Nat),
    p : PermissionType ]

Exits(w) ==
  /\ \A v \in Views : w.expected[v] <= w.serial
  /\ \A t \in w.exitTimers : t[2] \in 1 .. w.serial
  /\ \A v \in Views : w.session[v] = "returning" => v \in w.videoExits

Backed(w) ==
  /\ \A v \in Views : Detached(w, v) => w.engine[v] /\ w.expected[v] = 0
  /\ w.fs # NoView => w.engine[w.fs] /\ ~ Detached(w, w.fs) /\ w.fs \notin w.videoExits

Owned(w, opened) ==
  \A v \in opened : w.engine[v] => w.fs = v \/ Detached(w, v) \/ Overtakes(w, v)

Budget(w, asked) ==
  /\ w.serial <= asked
  /\ w.fs # NoView /\ w.expected[w.fs] = 0 => w.serial < asked

SurfacesOK(w, opened, asked) ==
  /\ w \in WindowType
  /\ w.fs \in opened \union {NoView}
  /\ Exits(w) /\ Backed(w) /\ Owned(w, opened) /\ Budget(w, asked)

\* x is w after pages left, or were asked to: nothing enters full screen, and
\* it ends only with the page out of it.
Fewer(w, x) ==
  /\ \A v \in Views : x.engine[v] => w.engine[v]
  /\ x.fs # w.fs => x.fs = NoView /\ ~ x.engine[w.fs]
  /\ x.popout = w.popout /\ x.popTimers = w.popTimers

LEMMA FewerTransitive ==
  ASSUME NEW w \in WindowType, NEW x \in WindowType, NEW y \in WindowType, Fewer(w, x), Fewer(x, y)
  PROVE  Fewer(w, y)
BY DEF Fewer, WindowType

\* The prompt is not part of the surfaces.
LEMMA PromptsAside ==
  ASSUME NEW w, NEW opened, NEW asked, SurfacesOK(w, opened, asked), NEW q \in PermissionType
  PROVE  /\ SurfacesOK([w EXCEPT !.p = q], opened, asked)
         /\ Fewer(w, [w EXCEPT !.p = q])
         /\ [w EXCEPT !.p = q].p = q
<1> DEFINE x == [w EXCEPT !.p = q]
<1>1. /\ x.engine = w.engine /\ x.fs = w.fs /\ x.expected = w.expected /\ x.serial = w.serial
      /\ x.exitTimers = w.exitTimers /\ x.session = w.session /\ x.videoExits = w.videoExits
      /\ x.popout = w.popout /\ x.popTimers = w.popTimers /\ x.p = q /\ x \in WindowType
  BY DEF SurfacesOK, WindowType
<1> HIDE DEF x
<1>2. SurfacesOK(x, opened, asked) /\ Fewer(w, x)
  BY <1>1 DEF SurfacesOK, Exits, Backed, Owned, Budget, Detached, Overtakes, Fewer
<1> QED BY <1>1, <1>2 DEF x

\* The page leaves.
LEMMA PageLeftKeeps ==
  ASSUME NEW w, NEW opened \in SUBSET Views, NEW asked \in Nat, SurfacesOK(w, opened, asked),
         NEW v \in Views
  PROVE  /\ SurfacesOK(PageLeft(w, v), opened, asked)
         /\ Fewer(w, PageLeft(w, v))
         /\ SamePrompts(w.p, PageLeft(w, v).p)
<1> DEFINE x == PageLeft(w, v)
<1>1. CASE Detached(w, v) \/ v \in w.videoExits
  <2>1. /\ x.engine = [w.engine EXCEPT ![v] = FALSE] /\ x.videoExits = w.videoExits \ {v}
        /\ x.session = [w.session EXCEPT ![v] = "attached"]
        /\ x.fs = w.fs /\ x.expected = w.expected /\ x.serial = w.serial
        /\ x.exitTimers = w.exitTimers
        /\ x.popout = w.popout /\ x.popTimers = w.popTimers /\ x.p = w.p /\ x \in WindowType
    BY <1>1 DEF PageLeft, RestoreDetachedVideo, SurfacesOK, WindowType
  <2> HIDE DEF x
  <2>2. w \in WindowType
    BY DEF SurfacesOK
  <2>3. Exits(x) /\ Budget(x, asked) /\ x.fs \in opened \union {NoView}
    BY <2>1, <2>2, <1>1 DEF SurfacesOK, Exits, Budget, WindowType
  <2>4. Backed(x)
    BY <2>1, <2>2, <1>1, ViewsAssumption DEF SurfacesOK, Backed, Detached, WindowType
  <2>5. Owned(x, opened)
    BY <2>1, <2>2, <1>1, ViewsAssumption DEF SurfacesOK, Owned, Detached, Overtakes, WindowType
  <2>6. Fewer(w, x) /\ SamePrompts(w.p, x.p)
    BY <2>1, <2>2, ViewsAssumption DEF Fewer, SamePrompts, WindowType
  <2> QED BY <2>1, <2>3, <2>4, <2>5, <2>6 DEF SurfacesOK, x
<1>2. CASE ~ (Detached(w, v) \/ v \in w.videoExits) /\ (w.fs = v \/ w.expected[v] # 0)
  <2>1. /\ x.engine = [w.engine EXCEPT ![v] = FALSE] /\ x.videoExits = w.videoExits
        /\ x.session = w.session
        /\ x.fs = (IF w.fs = v THEN NoView ELSE w.fs)
        /\ x.expected = [w.expected EXCEPT ![v] = 0] /\ x.serial = w.serial
        /\ x.exitTimers = w.exitTimers
        /\ x.popout = w.popout /\ x.popTimers = w.popTimers /\ SamePrompts(w.p, x.p)
        /\ x \in WindowType
    BY <1>2, ZenonT(60) DEF PageLeft, ExitBrowserFullScreen, SurfacesOK, WindowType, SamePrompts, PermissionType
  <2> HIDE DEF x
  <2>2. w \in WindowType
    BY DEF SurfacesOK
  <2>3. Exits(x) /\ Budget(x, asked) /\ x.fs \in opened \union {NoView}
    BY <2>1, <2>2, <1>2 DEF SurfacesOK, Exits, Budget, WindowType
  <2>4. Backed(x)
    BY <2>1, <2>2, <1>2, ViewsAssumption DEF SurfacesOK, Backed, Detached, WindowType
  <2>5. Owned(x, opened)
    BY <2>1, <2>2, <1>2, ViewsAssumption DEF SurfacesOK, Owned, Detached, Overtakes, WindowType
  <2>6. Fewer(w, x) /\ SamePrompts(w.p, x.p)
    BY <2>1, <2>2, ViewsAssumption DEF Fewer, SamePrompts, WindowType
  <2> QED BY <2>1, <2>3, <2>4, <2>5, <2>6 DEF SurfacesOK, x
<1>3. CASE ~ (Detached(w, v) \/ v \in w.videoExits) /\ ~ (w.fs = v \/ w.expected[v] # 0)
  BY <1>3 DEF PageLeft, Fewer, SamePrompts
<1> QED BY <1>1, <1>2, <1>3

LEMMA SamePromptsKeep ==
  ASSUME NEW p, NEW q \in PermissionType, NEW page, NEW n \in Nat, PromptsOK(p, page, n), SamePrompts(p, q)
  PROVE  PromptsOK(q, page, n)
BY DEF PromptsOK, Accounted, From, Asking, Undecided, SamePrompts

LEMMA TriggerKeeps ==
  ASSUME NEW w, NEW opened \in SUBSET Views, NEW asked \in Nat, SurfacesOK(w, opened, asked),
         NEW v \in Views, NEW answers
  PROVE  /\ SurfacesOK(Trigger(w, v, answers), opened, asked)
         /\ Fewer(w, Trigger(w, v, answers))
         /\ SamePrompts(w.p, Trigger(w, v, answers).p)
<1>1. Fewer(w, w) /\ SamePrompts(w.p, w.p)
  BY DEF Fewer, SamePrompts
<1> QED BY <1>1, PageLeftKeeps DEF Trigger

\* The window asks the page that fills it to leave.
LEMMA RequestExitKeeps ==
  ASSUME NEW w, NEW opened \in SUBSET Views, NEW asked \in Nat, SurfacesOK(w, opened, asked),
         NEW v \in Views \union {NoView}, NEW answers
  PROVE  /\ SurfacesOK(RequestExit(w, v, answers), opened, asked)
         /\ Fewer(w, RequestExit(w, v, answers))
         /\ SamePrompts(w.p, RequestExit(w, v, answers).p)
<1> DEFINE n == w.serial + 1
           x == [w EXCEPT !.serial = n, !.expected[v] = n, !.exitTimers = @ \union {<<v, n>>}]
<1>1. CASE v = NoView \/ w.fs # v \/ w.expected[v] # 0
  BY <1>1 DEF RequestExit, Fewer, SamePrompts
<1>2. CASE ~ (v = NoView \/ w.fs # v \/ w.expected[v] # 0)
  <2>0. /\ v \in Views /\ w.fs = v /\ w.expected[v] = 0 /\ w \in WindowType
        /\ w.serial \in Nat /\ w.expected \in [Views -> Nat] /\ n \in Nat /\ n # 0
        /\ w.exitTimers \union {<<v, n>>} \in SUBSET (Views \X Nat)
    BY <1>2 DEF SurfacesOK, WindowType
  <2> HIDE DEF n
  <2>1. /\ x.engine = w.engine /\ x.videoExits = w.videoExits
        /\ x.session = w.session /\ x.fs = w.fs
        /\ x.expected = [w.expected EXCEPT ![v] = n] /\ x.serial = n
        /\ x.exitTimers = w.exitTimers \union {<<v, n>>}
        /\ x.popout = w.popout /\ x.popTimers = w.popTimers /\ x.p = w.p
        /\ x \in WindowType
    BY <2>0 DEF WindowType
  <2> HIDE DEF x
  <2>3. Exits(x)
    BY <2>0, <2>1 DEF SurfacesOK, Exits, WindowType, n
  <2>4. Budget(x, asked)
    BY <2>0, <2>1, ViewsAssumption DEF SurfacesOK, Budget, n
  <2>10. Backed(x)
    <3>1. ~ Detached(w, v) /\ Backed(w)
      BY <2>0, ViewsAssumption DEF SurfacesOK, Backed
    <3> QED BY <2>0, <2>1, <3>1 DEF Backed, Detached
  <2>11. Owned(x, opened)
    BY <2>0, <2>1 DEF SurfacesOK, Owned, Detached, Overtakes, WindowType
  <2>5. SurfacesOK(x, opened, asked)
    BY <2>0, <2>1, <2>3, <2>4, <2>10, <2>11 DEF SurfacesOK
  <2>6. Fewer(w, x) /\ SamePrompts(w.p, x.p)
    BY <2>1 DEF Fewer, SamePrompts
  <2> DEFINE y == Trigger(x, v, answers)
  <2>7. SurfacesOK(y, opened, asked) /\ Fewer(x, y) /\ SamePrompts(x.p, y.p)
    BY <2>0, <2>5, TriggerKeeps
  <2>8. RequestExit(w, v, answers) = y
    BY <1>2 DEF RequestExit, x, n
  <2>9. Fewer(w, y)
    BY <2>0, <2>1, <2>6, <2>7, FewerTransitive DEF SurfacesOK
  <2> QED BY <2>6, <2>7, <2>8, <2>9 DEF SamePrompts
<1> QED BY <1>1, <1>2

\* The timer of an exit ends the full screen it was asked for.
LEMMA ExitTimedOutKeeps ==
  ASSUME NEW w, NEW opened \in SUBSET Views, NEW asked \in Nat, SurfacesOK(w, opened, asked),
         NEW v \in Views, NEW n \in Nat, <<v, n>> \in w.exitTimers
  PROVE  LET x == ExitTimedOut(w, v, n)
         IN  /\ SurfacesOK(x, opened, asked)
             /\ x.engine = w.engine /\ x.popout = w.popout /\ x.popTimers = w.popTimers
             /\ SamePrompts(w.p, x.p)
             /\ x.fs # w.fs => w.expected[w.fs] # 0
<1> DEFINE x == ExitTimedOut(w, v, n)
           ends == w.expected[v] = n /\ w.fs = v
<1>1. n # 0 /\ w \in WindowType
  BY DEF SurfacesOK, Exits
<1>2. /\ x.engine = w.engine /\ x.videoExits = w.videoExits
      /\ x.session = w.session /\ x.fs = (IF ends THEN NoView ELSE w.fs)
      /\ x.expected = w.expected /\ x.serial = w.serial
      /\ x.exitTimers = w.exitTimers \ {<<v, n>>}
      /\ x.popout = w.popout /\ x.popTimers = w.popTimers /\ SamePrompts(w.p, x.p)
      /\ x \in WindowType
  <2>1. CASE ends
    <3> DEFINE fired == [w EXCEPT !.exitTimers = @ \ {<<v, n>>}]
               q == [w.p EXCEPT !.bar = w.savedBar]
    <3>1. /\ fired \in WindowType /\ fired.fs = v /\ fired.p = w.p /\ fired.savedBar = w.savedBar
      BY <1>1, <2>1 DEF WindowType
    <3>2. q \in PermissionType /\ SamePrompts(w.p, q)
      BY <1>1 DEF WindowType, PermissionType, SamePrompts
    <3>3. x = [fired EXCEPT !.fs = NoView, !.p.bar = fired.savedBar, !.savedBar = FALSE]
      BY <2>1, <3>1 DEF ExitTimedOut, ExitBrowserFullScreen
    <3>4. x = [w EXCEPT !.exitTimers = @ \ {<<v, n>>}, !.fs = NoView, !.p = q, !.savedBar = FALSE]
      BY <1>1, <3>1, <3>3 DEF WindowType
    <3> HIDE DEF fired, q, x
    <3> QED BY <1>1, <2>1, <3>2, <3>4, ZenonT(60) DEF WindowType
  <2>2. CASE ~ ends
    <3>1. x = [w EXCEPT !.exitTimers = @ \ {<<v, n>>}]
      BY <1>1, <2>2 DEF ExitTimedOut, ExitBrowserFullScreen, WindowType
    <3> QED BY <1>1, <2>2, <3>1, ZenonT(60) DEF WindowType, SamePrompts
  <2> QED BY <2>1, <2>2
<1> HIDE DEF x
<1>3. Exits(x) /\ Budget(x, asked) /\ Backed(x)
  BY <1>1, <1>2 DEF SurfacesOK, Exits, Budget, Backed, Detached, WindowType
<1>4. Owned(x, opened)
  BY <1>1, <1>2 DEF SurfacesOK, Owned, Detached, Overtakes, WindowType
<1>5. SurfacesOK(x, opened, asked)
  BY <1>2, <1>3, <1>4 DEF SurfacesOK
<1> QED BY <1>1, <1>2, <1>5 DEF x

\* The time to return is over: the window goes on as if the page had left.
LEMMA RestoreDetachedVideoKeeps ==
  ASSUME NEW w, NEW opened \in SUBSET Views, NEW asked \in Nat, SurfacesOK(w, opened, asked),
         NEW v \in Views, v \in w.videoExits \/ ~ Detached(w, v)
  PROVE  LET x == RestoreDetachedVideo(w, v)
         IN  SurfacesOK(x, opened, asked) /\ Fewer(w, x) /\ x.p = w.p
<1> DEFINE x == RestoreDetachedVideo(w, v)
<1>1. w \in WindowType
  BY DEF SurfacesOK
<1>2. /\ x.engine = w.engine /\ x.videoExits = w.videoExits
      /\ x.session = [w.session EXCEPT ![v] = "attached"] /\ x.fs = w.fs
      /\ x.expected = w.expected /\ x.serial = w.serial
      /\ x.exitTimers = w.exitTimers
      /\ x.popout = w.popout /\ x.popTimers = w.popTimers /\ x.p = w.p
      /\ x \in WindowType
  BY <1>1 DEF RestoreDetachedVideo, WindowType
<1> HIDE DEF x
<1>3. Exits(x) /\ Budget(x, asked) /\ Backed(x)
  BY <1>1, <1>2 DEF SurfacesOK, Exits, Budget, Backed, Detached, WindowType
<1>4. Owned(x, opened)
  BY <1>1, <1>2 DEF SurfacesOK, Owned, Detached, Overtakes, WindowType
<1>5. SurfacesOK(x, opened, asked) /\ Fewer(w, x)
  BY <1>2, <1>3, <1>4 DEF SurfacesOK, Fewer
<1> QED BY <1>2, <1>5 DEF x

\* A detached video is to come home: its page is expected to leave.
LEMMA ExpectVideoKeeps ==
  ASSUME NEW w, NEW opened \in SUBSET Views, NEW asked \in Nat, SurfacesOK(w, opened, asked),
         NEW v \in Views, Detached(w, v), NEW s \in {"detached", "returning"}
  PROVE  LET x == [w EXCEPT !.session[v] = s, !.videoExits = @ \union {v}]
         IN  SurfacesOK(x, opened, asked) /\ Fewer(w, x) /\ x.p = w.p
<1> DEFINE x == [w EXCEPT !.session[v] = s, !.videoExits = @ \union {v}]
<1>1. w \in WindowType
  BY DEF SurfacesOK
<1>2. /\ x.engine = w.engine /\ x.videoExits = w.videoExits \union {v}
      /\ x.session = [w.session EXCEPT ![v] = s] /\ x.fs = w.fs
      /\ x.expected = w.expected /\ x.serial = w.serial
      /\ x.exitTimers = w.exitTimers
      /\ x.popout = w.popout /\ x.popTimers = w.popTimers /\ x.p = w.p
      /\ x \in WindowType
  BY <1>1 DEF WindowType
<1> HIDE DEF x
<1>3. Exits(x) /\ Budget(x, asked)
  BY <1>1, <1>2 DEF SurfacesOK, Exits, Budget, WindowType
<1>4. Backed(x)
  BY <1>1, <1>2 DEF SurfacesOK, Backed, Detached, WindowType
<1>5. Owned(x, opened)
  BY <1>1, <1>2 DEF SurfacesOK, Owned, Detached, Overtakes, WindowType
<1>6. SurfacesOK(x, opened, asked) /\ Fewer(w, x)
  BY <1>2, <1>3, <1>4, <1>5 DEF SurfacesOK, Fewer
<1> QED BY <1>2, <1>6 DEF x

LEMMA RequestReturnKeeps ==
  ASSUME NEW w, NEW opened \in SUBSET Views, NEW asked \in Nat, SurfacesOK(w, opened, asked),
         NEW v \in Views, NEW answers
  PROVE  /\ SurfacesOK(RequestReturn(w, v, answers), opened, asked)
         /\ Fewer(w, RequestReturn(w, v, answers))
         /\ SamePrompts(w.p, RequestReturn(w, v, answers).p)
<1> DEFINE x == [w EXCEPT !.session[v] = "returning", !.videoExits = @ \union {v}]
           y == Trigger(x, v, answers)
<1>1. CASE w.session[v] # "detached"
  BY <1>1 DEF RequestReturn, Fewer, SamePrompts
<1>2. CASE w.session[v] = "detached"
  <2>1. SurfacesOK(x, opened, asked) /\ Fewer(w, x) /\ x.p = w.p
    BY <1>2, ExpectVideoKeeps DEF Detached
  <2> HIDE DEF x
  <2>2. SurfacesOK(y, opened, asked) /\ Fewer(x, y) /\ SamePrompts(x.p, y.p)
    BY <2>1, TriggerKeeps
  <2>3. Fewer(w, y)
    BY <2>1, <2>2, FewerTransitive DEF SurfacesOK
  <2> QED BY <1>2, <2>1, <2>2, <2>3 DEF RequestReturn, x
<1> QED BY <1>1, <1>2

----------------------------------------------------------------------------
(***************************************************************************)
(* Surfaces and prompts together: page gives for each tab the number of    *)
(* the page it shows, n counts the permission requests.                    *)
(***************************************************************************)
WindowOK(w, opened, asked, page, n) ==
  SurfacesOK(w, opened, asked) /\ PromptsOK(w.p, page, n)

LEMMA PromptsChange ==
  ASSUME NEW w, NEW opened, NEW asked, SurfacesOK(w, opened, asked),
         NEW page, NEW n \in Nat, NEW q, PromptsOK(q, page, n)
  PROVE  /\ WindowOK([w EXCEPT !.p = q], opened, asked, page, n)
         /\ Fewer(w, [w EXCEPT !.p = q])
         /\ [w EXCEPT !.p = q].p = q
BY PromptsAside DEF WindowOK, PromptsOK, Accounted

LEMMA TabChangedKeeps ==
  ASSUME NEW w, NEW opened \in SUBSET Views, NEW asked \in Nat, NEW page, NEW n \in Nat,
         WindowOK(w, opened, asked, page, n), NEW v \in Views, NEW answers
  PROVE  LET x == TabChanged(w, v, answers)
         IN  WindowOK(x, opened, asked, page, n) /\ Fewer(w, x) /\ x.p.current = v
<1> DEFINE left == IF w.fs = v THEN w ELSE RequestExit(w, w.fs, answers)
<1>1. w \in WindowType /\ w.fs \in Views \union {NoView}
  BY DEF WindowOK, SurfacesOK, WindowType
<1>2. SurfacesOK(left, opened, asked) /\ Fewer(w, left) /\ SamePrompts(w.p, left.p)
  <2>1. Fewer(w, w) /\ SamePrompts(w.p, w.p)
    BY DEF Fewer, SamePrompts
  <2> QED BY <1>1, <2>1, RequestExitKeeps DEF WindowOK
<1> HIDE DEF left
<1>3. left \in WindowType /\ left.p \in PermissionType
  BY <1>2 DEF SurfacesOK, WindowType
<1>4. PromptsOK(left.p, page, n)
  BY <1>2, <1>3, SamePromptsKeep DEF WindowOK
<1> DEFINE q == CurrentViewChanged(left.p, v)
           x == [left EXCEPT !.p = q]
<1>5. PromptsOK(q, page, n) /\ q.current = v
  BY <1>4, CurrentViewChangedKeeps
<1>6. TabChanged(w, v, answers) = x
  BY DEF TabChanged, left
<1> HIDE DEF q
<1>7. WindowOK(x, opened, asked, page, n) /\ Fewer(left, x) /\ x.p = q
  BY <1>2, <1>5, PromptsChange
<1>8. Fewer(w, x)
  BY <1>1, <1>2, <1>3, <1>7, FewerTransitive DEF WindowOK, SurfacesOK
<1> QED BY <1>5, <1>6, <1>7, <1>8

LEMMA ReturnForPromptKeeps ==
  ASSUME NEW w, NEW opened \in SUBSET Views, NEW asked \in Nat, NEW page, NEW n \in Nat,
         WindowOK(w, opened, asked, page, n), NEW v \in Views, Detached(w, v), NEW answers
  PROVE  LET x == ReturnForPrompt(w, v, answers)
         IN  WindowOK(x, opened, asked, page, n) /\ Fewer(w, x) /\ x.p.current = v
<1> DEFINE x == [w EXCEPT !.videoExits = @ \union {v}]
           y == Trigger(x, v, answers)
           home == RestoreDetachedVideo(y, v)
           front == IF home.p.current = v THEN home ELSE TabChanged(home, v, answers)
           q == CurrentViewChanged(front.p, v)
<1>1. w \in WindowType /\ SurfacesOK(w, opened, asked) /\ w.p \in PermissionType
  BY DEF WindowOK, SurfacesOK, WindowType
<1>2. SurfacesOK(x, opened, asked) /\ Fewer(w, x) /\ x.p = w.p /\ v \in x.videoExits
  <2> DEFINE same == [w EXCEPT !.session[v] = w.session[v], !.videoExits = @ \union {v}]
  <2>1. x = same /\ v \in x.videoExits
    BY <1>1 DEF WindowType
  <2>2. w.session[v] \in {"detached", "returning"}
    BY <1>1 DEF Detached, WindowType
  <2>3. SurfacesOK(same, opened, asked) /\ Fewer(w, same) /\ same.p = w.p
    BY <1>1, <2>2, ExpectVideoKeeps
  <2> QED BY <2>1, <2>3
<1> HIDE DEF x
<1>3. SurfacesOK(y, opened, asked) /\ Fewer(x, y) /\ SamePrompts(x.p, y.p)
  BY <1>2, TriggerKeeps
<1>4. v \in y.videoExits \/ ~ Detached(y, v)
  <2>1. CASE answers /\ x.engine[v]
    <3>1. y.session = [x.session EXCEPT ![v] = "attached"] /\ x \in WindowType
      BY <1>2, <2>1 DEF Trigger, PageLeft, RestoreDetachedVideo, SurfacesOK, WindowType
    <3> QED BY <3>1 DEF Detached, WindowType
  <2>2. CASE ~ (answers /\ x.engine[v])
    BY <1>2, <2>2 DEF Trigger
  <2> QED BY <2>1, <2>2
<1> HIDE DEF y
<1>5. SurfacesOK(home, opened, asked) /\ Fewer(y, home) /\ home.p = y.p
  BY <1>3, <1>4, RestoreDetachedVideoKeeps
<1> HIDE DEF home
<1>6. x \in WindowType /\ y \in WindowType /\ home \in WindowType /\ home.p \in PermissionType
  BY <1>2, <1>3, <1>5 DEF SurfacesOK, WindowType
<1>7. Fewer(w, home)
  BY <1>1, <1>2, <1>3, <1>5, <1>6, FewerTransitive
<1>8. WindowOK(home, opened, asked, page, n)
  BY <1>2, <1>3, <1>5, <1>6, SamePromptsKeep DEF WindowOK
<1>9. WindowOK(front, opened, asked, page, n) /\ Fewer(home, front)
  BY <1>8, TabChangedKeeps DEF Fewer
<1> HIDE DEF front
<1>10. PromptsOK(q, page, n) /\ q.current = v
  BY <1>9, CurrentViewChangedKeeps DEF WindowOK
<1> HIDE DEF q
<1>11. LET z == [front EXCEPT !.p = q]
       IN  WindowOK(z, opened, asked, page, n) /\ Fewer(front, z) /\ z.p = q
  BY <1>9, <1>10, PromptsChange DEF WindowOK
<1>12. Fewer(w, [front EXCEPT !.p = q])
  BY <1>1, <1>6, <1>7, <1>9, <1>11, FewerTransitive DEF WindowOK, SurfacesOK
<1>13. ReturnForPrompt(w, v, answers) = [front EXCEPT !.p = q]
  BY DEF ReturnForPrompt, x, y, home, front, q
<1> QED BY <1>10, <1>11, <1>12, <1>13

LEMMA PermissionRequestedKeeps ==
  ASSUME NEW w, NEW opened \in SUBSET Views, NEW asked \in Nat, NEW page, NEW n \in Nat,
         WindowOK(w, opened, asked, page, n), w.p.current \in opened,
         NEW r \in RequestType, r.id = n + 1, r.page = page[r.view], r.view \in opened,
         NEW promptable, NEW answers
  PROVE  LET x == PermissionRequested(w, r, promptable, answers)
         IN  WindowOK(x, opened, asked, page, n + 1) /\ Fewer(w, x) /\ x.p.current \in opened
<1> DEFINE home == IF Detached(w, r.view) THEN ReturnForPrompt(w, r.view, answers) ELSE w
           q == RequestPermission(home.p, r, promptable)
<1>1. WindowOK(home, opened, asked, page, n) /\ Fewer(w, home) /\ home.p.current \in opened
  <2>1. r.view \in Views
    OBVIOUS
  <2>2. CASE Detached(w, r.view)
    <3> DEFINE back == ReturnForPrompt(w, r.view, answers)
    <3>1. WindowOK(back, opened, asked, page, n) /\ Fewer(w, back) /\ back.p.current = r.view
      BY <2>1, <2>2, ReturnForPromptKeeps
    <3>2. home = back
      BY <2>2
    <3> QED BY <3>1, <3>2
  <2>3. CASE ~ Detached(w, r.view)
    BY <2>3 DEF Fewer
  <2> QED BY <2>2, <2>3
<1> HIDE DEF home
<1>2. PromptsOK(q, page, n + 1) /\ q.current = home.p.current
  BY <1>1, RequestPermissionKeeps DEF WindowOK
<1> HIDE DEF q
<1>3. LET z == [home EXCEPT !.p = q]
      IN  WindowOK(z, opened, asked, page, n + 1) /\ Fewer(home, z) /\ z.p = q
  BY <1>1, <1>2, PromptsChange DEF WindowOK
<1>4. Fewer(w, [home EXCEPT !.p = q])
  BY <1>1, <1>3, FewerTransitive DEF WindowOK, SurfacesOK
<1>5. PermissionRequested(w, r, promptable, answers) = [home EXCEPT !.p = q]
  BY DEF PermissionRequested, home, q
<1> QED BY <1>1, <1>2, <1>3, <1>4, <1>5

\* What a navigation of v does to the rest of the window: w before, x after it.
Loaded(w, x, v) ==
  /\ x.p.current = w.p.current
  /\ x.fs # w.fs => x.fs = NoView /\ ~ x.engine[w.fs]
  /\ x.popTimers = w.popTimers
  /\ x.popout[v] = [serial |-> w.popout[v].serial + 1, state |-> "none"]
  /\ \A t \in Views \ {v} : x.popout[t] = w.popout[t]

\* What the closing of v does to it; next comes to the front.
TabClosed(w, x, v, next) ==
  /\ x.p.current = IF w.p.current = v THEN next ELSE w.p.current
  /\ x.fs # w.fs => x.fs = NoView /\ ~ x.engine[w.fs]
  /\ x.popTimers \subseteq w.popTimers
  /\ x.popout[v] = [serial |-> w.popout[v].serial, state |-> "none"]
  /\ \A t \in Views \ {v} : x.popout[t] = w.popout[t]

\* A navigation: the page that asked is gone, and with it its requests.
LEMMA LoadStartedKeeps ==
  ASSUME NEW w, NEW opened \in SUBSET Views, NEW asked \in Nat, NEW page \in [Views -> Nat], NEW n \in Nat,
         WindowOK(w, opened, asked, page, n), NEW v \in Views, NEW answers,
         NEW later, later = [page EXCEPT ![v] = @ + 1]
  PROVE  /\ WindowOK(LoadStarted(w, v, answers), opened, asked, later, n)
         /\ Loaded(w, LoadStarted(w, v, answers), v)
<1> DEFINE q == CancelForView(w.p, v)
           y == [w EXCEPT !.p = q]
           z == RequestExit(y, v, answers)
           x == [z EXCEPT !.popout[v] = [serial |-> @.serial + 1, state |-> "none"]]
<1>1. w \in WindowType /\ SurfacesOK(w, opened, asked)
  BY DEF WindowOK, SurfacesOK
<1>2. PromptsOK(q, page, n) /\ q.current = w.p.current /\ \A r \in Undecided(q) : r.view # v
  BY CancelForViewKeeps DEF WindowOK
<1> HIDE DEF q
<1>3. WindowOK(y, opened, asked, page, n) /\ Fewer(w, y) /\ y.p = q
  BY <1>1, <1>2, PromptsChange
<1> HIDE DEF y
<1>4. SurfacesOK(z, opened, asked) /\ Fewer(y, z) /\ SamePrompts(y.p, z.p)
  BY <1>3, RequestExitKeeps DEF WindowOK
<1> HIDE DEF z
<1>5. y \in WindowType /\ z \in WindowType /\ z.p \in PermissionType
  BY <1>3, <1>4 DEF WindowOK, SurfacesOK, WindowType
<1>6. Fewer(w, z)
  BY <1>1, <1>3, <1>4, <1>5, FewerTransitive
<1>7. PromptsOK(z.p, page, n) /\ Undecided(z.p) = Undecided(q) /\ z.p.current = w.p.current
  BY <1>2, <1>3, <1>4, <1>5, SamePromptsKeep DEF SamePrompts, Undecided
<1>8. PromptsOK(z.p, later, n)
  <2>1. \A r \in Undecided(z.p) : r.view \in Views /\ r.view # v
    <3>1. z.p.queue \subseteq RequestType /\ z.p.active \in RequestType \union {NoRequest}
      BY <1>5 DEF PermissionType
    <3> QED BY <1>2, <1>7, <3>1 DEF Undecided, RequestType
  <2>2. \A r \in Undecided(z.p) : later[r.view] = page[r.view]
    BY <2>1
  <2> QED BY <1>7, <2>2 DEF PromptsOK, From
<1>9. /\ x.engine = z.engine /\ x.videoExits = z.videoExits
      /\ x.session = z.session /\ x.fs = z.fs
      /\ x.expected = z.expected /\ x.serial = z.serial
      /\ x.exitTimers = z.exitTimers /\ x.popTimers = z.popTimers /\ x.p = z.p
      /\ x.popout = [z.popout EXCEPT ![v] = [serial |-> z.popout[v].serial + 1, state |-> "none"]]
      /\ x \in WindowType
  <2> DEFINE cleared == [serial |-> z.popout[v].serial + 1, state |-> "none"]
  <2>1. cleared \in [serial : Nat, state : {"none", "live", "late"}]
    BY <1>5 DEF WindowType
  <2>2. x = [z EXCEPT !.popout[v] = cleared]
    BY <1>5 DEF WindowType
  <2> HIDE DEF cleared, x
  <2>3. /\ x.engine = z.engine /\ x.videoExits = z.videoExits
        /\ x.session = z.session /\ x.fs = z.fs
        /\ x.expected = z.expected /\ x.serial = z.serial
        /\ x.exitTimers = z.exitTimers /\ x.popTimers = z.popTimers /\ x.p = z.p
        /\ x.popout = [z.popout EXCEPT ![v] = cleared]
        /\ x \in WindowType
    BY <1>5, <2>1, <2>2 DEF WindowType
  <2> QED BY <2>3 DEF cleared
<1>10. LoadStarted(w, v, answers) = x
  BY DEF LoadStarted, q, y, z
<1> HIDE DEF x
<1>11. SurfacesOK(x, opened, asked)
  BY <1>4, <1>9 DEF SurfacesOK, Exits, Backed, Owned, Budget, Detached, Overtakes
<1>12. WindowOK(x, opened, asked, later, n) /\ x.p.current = w.p.current
  BY <1>7, <1>8, <1>9, <1>11 DEF WindowOK
<1>13. /\ x.fs # w.fs => x.fs = NoView /\ ~ x.engine[w.fs]
       /\ x.popTimers = w.popTimers
  BY <1>6, <1>9 DEF Fewer
<1>14. /\ x.popout[v] = [serial |-> w.popout[v].serial + 1, state |-> "none"]
       /\ \A t \in Views \ {v} : x.popout[t] = w.popout[t]
  BY <1>1, <1>5, <1>6, <1>9 DEF Fewer, WindowType
<1> QED BY <1>10, <1>12, <1>13, <1>14 DEF Loaded

\* A tab closes; another comes to the front if it was there.
LEMMA CloseTabKeeps ==
  ASSUME NEW w, NEW opened \in SUBSET Views, NEW asked \in Nat, NEW page, NEW n \in Nat,
         WindowOK(w, opened, asked, page, n), NEW v \in Views, NEW next \in Views, NEW answers
  PROVE  /\ WindowOK(CloseTab(w, v, next, answers), opened \ {v}, asked, page, n)
         /\ TabClosed(w, CloseTab(w, v, next, answers), v, next)
<1> DEFINE home == RestoreDetachedVideo([w EXCEPT !.videoExits = @ \ {v}], v)
           left == ExitBrowserFullScreen([home EXCEPT !.expected[v] = 0], v)
           dropped == DropTimers(left, v)
           q == CancelForView(dropped.p, v)
           silent == [dropped EXCEPT !.p = q, !.engine[v] = FALSE]
           x == IF w.p.current = v THEN TabChanged(silent, next, answers) ELSE silent
<1>1. w \in WindowType /\ w.p \in PermissionType
  BY DEF WindowOK, SurfacesOK, WindowType
<1>2. /\ left.engine = w.engine /\ left.videoExits = w.videoExits \ {v}
      /\ left.session = [w.session EXCEPT ![v] = "attached"]
      /\ left.fs = (IF w.fs = v THEN NoView ELSE w.fs)
      /\ left.expected = [w.expected EXCEPT ![v] = 0] /\ left.serial = w.serial
      /\ left.exitTimers = w.exitTimers /\ left.popout = w.popout
      /\ left.popTimers = w.popTimers /\ SamePrompts(w.p, left.p) /\ left \in WindowType
  <2> DEFINE reset == [w EXCEPT !.videoExits = @ \ {v}, !.session[v] = "attached", !.expected[v] = 0]
             bared == [w.p EXCEPT !.bar = w.savedBar]
  <2>1. home = [w EXCEPT !.videoExits = @ \ {v}, !.session[v] = "attached"]
    BY <1>1 DEF RestoreDetachedVideo, WindowType
  <2>2. [home EXCEPT !.expected[v] = 0] = reset
    BY <1>1, <2>1 DEF WindowType
  <2>3. /\ reset.engine = w.engine /\ reset.videoExits = w.videoExits \ {v}
        /\ reset.session = [w.session EXCEPT ![v] = "attached"] /\ reset.fs = w.fs
        /\ reset.expected = [w.expected EXCEPT ![v] = 0] /\ reset.serial = w.serial
        /\ reset.exitTimers = w.exitTimers /\ reset.popout = w.popout
        /\ reset.popTimers = w.popTimers /\ reset.p = w.p /\ reset.savedBar = w.savedBar
        /\ reset \in WindowType
    BY <1>1 DEF WindowType
  <2>4. left = ExitBrowserFullScreen(reset, v)
    BY <2>2
  <2> HIDE DEF reset, home, left
  <2>5. CASE w.fs = v
    <3>1. bared \in PermissionType /\ SamePrompts(w.p, bared)
      BY <1>1 DEF WindowType, PermissionType, SamePrompts
    <3>2. left = [reset EXCEPT !.fs = NoView, !.p = bared, !.savedBar = FALSE]
      BY <2>3, <2>4, <2>5 DEF ExitBrowserFullScreen, WindowType
    <3> HIDE DEF bared
    <3> QED BY <2>3, <2>5, <3>1, <3>2 DEF WindowType
  <2>6. CASE w.fs # v
    BY <2>3, <2>4, <2>6 DEF ExitBrowserFullScreen, SamePrompts
  <2> QED BY <2>5, <2>6
<1> HIDE DEF home, left
<1>3. /\ dropped.engine = left.engine /\ dropped.videoExits = left.videoExits
      /\ dropped.session = left.session /\ dropped.fs = left.fs
      /\ dropped.expected = left.expected /\ dropped.serial = left.serial
      /\ dropped.exitTimers \subseteq left.exitTimers
      /\ dropped.popTimers \subseteq left.popTimers
      /\ dropped.popout = [left.popout EXCEPT ![v].state = "none"]
      /\ dropped.p = left.p /\ dropped \in WindowType
  <2> DEFINE exits == { t \in left.exitTimers : t[1] # v }
             pops == { t \in left.popTimers : t[1] # v }
             ended == [left.popout EXCEPT ![v].state = "none"]
  <2>1. /\ exits \subseteq left.exitTimers /\ pops \subseteq left.popTimers
        /\ exits \in SUBSET (Views \X Nat) /\ pops \in SUBSET (Views \X Nat)
    BY <1>2 DEF WindowType
  <2>2. ended \in [Views -> [serial : Nat, state : {"none", "live", "late"}]]
    BY <1>2 DEF WindowType
  <2>3. dropped = [left EXCEPT !.exitTimers = exits, !.popTimers = pops, !.popout = ended]
    BY <1>2 DEF DropTimers, WindowType
  <2> HIDE DEF exits, pops, ended, dropped
  <2>4. /\ dropped.engine = left.engine /\ dropped.videoExits = left.videoExits
        /\ dropped.session = left.session /\ dropped.fs = left.fs
        /\ dropped.expected = left.expected /\ dropped.serial = left.serial
        /\ dropped.exitTimers = exits /\ dropped.popTimers = pops
        /\ dropped.popout = ended /\ dropped.p = left.p /\ dropped \in WindowType
    BY <1>2, <2>1, <2>2, <2>3 DEF WindowType
  <2> QED BY <2>1, <2>4 DEF ended
<1> HIDE DEF dropped
<1>4. PromptsOK(q, page, n) /\ q.current = w.p.current /\ q \in PermissionType
  <2>1. dropped.p \in PermissionType /\ PromptsOK(dropped.p, page, n)
    BY <1>2, <1>3, SamePromptsKeep DEF WindowType, WindowOK
  <2>2. dropped.p.current = w.p.current
    BY <1>2, <1>3 DEF SamePrompts
  <2>3. PromptsOK(q, page, n) /\ q.current = dropped.p.current
    BY <2>1, CancelForViewKeeps
  <2> QED BY <2>2, <2>3 DEF PromptsOK, Accounted
<1> HIDE DEF q
<1>5. /\ silent.engine = [w.engine EXCEPT ![v] = FALSE] /\ silent.videoExits = w.videoExits \ {v}
      /\ silent.session = [w.session EXCEPT ![v] = "attached"]
      /\ silent.fs = (IF w.fs = v THEN NoView ELSE w.fs)
      /\ silent.expected = [w.expected EXCEPT ![v] = 0] /\ silent.serial = w.serial
      /\ silent.exitTimers \subseteq w.exitTimers
      /\ silent.popTimers \subseteq w.popTimers
      /\ silent.popout = [w.popout EXCEPT ![v].state = "none"]
      /\ silent.p = q /\ silent \in WindowType
  BY <1>2, <1>3, <1>4 DEF WindowType
<1> HIDE DEF silent
<1>6. Exits(silent) /\ Budget(silent, asked) /\ silent.fs \in (opened \ {v}) \union {NoView}
  BY <1>1, <1>5 DEF WindowOK, SurfacesOK, Exits, Budget, WindowType
<1>7. Backed(silent) /\ Owned(silent, opened \ {v})
  BY <1>1, <1>5 DEF WindowOK, SurfacesOK, Backed, Owned, Detached, Overtakes, WindowType
<1>8. WindowOK(silent, opened \ {v}, asked, page, n)
  BY <1>4, <1>5, <1>6, <1>7 DEF WindowOK, SurfacesOK
<1>9. /\ WindowOK(x, opened \ {v}, asked, page, n) /\ Fewer(silent, x)
      /\ x.p.current = IF w.p.current = v THEN next ELSE w.p.current
  <2>1. CASE w.p.current = v
    <3> DEFINE y == TabChanged(silent, next, answers)
    <3>1. WindowOK(y, opened \ {v}, asked, page, n) /\ Fewer(silent, y) /\ y.p.current = next
      BY <1>8, TabChangedKeeps
    <3> QED BY <2>1, <3>1
  <2>2. CASE w.p.current # v
    BY <1>4, <1>5, <1>8, <2>2 DEF Fewer
  <2> QED BY <2>1, <2>2
<1>10. CloseTab(w, v, next, answers) = x
  BY DEF CloseTab, home, left, dropped, silent, q
<1> HIDE DEF x
<1>11. x.fs # w.fs => x.fs = NoView /\ ~ x.engine[w.fs]
  BY <1>1, <1>5, <1>9 DEF Fewer, WindowOK, SurfacesOK, WindowType
<1>12. /\ x.popout[v] = [serial |-> w.popout[v].serial, state |-> "none"]
       /\ \A t \in Views \ {v} : x.popout[t] = w.popout[t]
  BY <1>1, <1>5, <1>9 DEF Fewer, WindowType
<1> QED BY <1>5, <1>9, <1>10, <1>11, <1>12 DEF Fewer, TabClosed

\* The page asks for full screen, from outside it or after it was told to leave.
LEMMA PageAsksKeeps ==
  ASSUME NEW w, NEW opened \in SUBSET Views, NEW asked \in Nat, SurfacesOK(w, opened, asked),
         NEW v \in opened, ~ w.engine[v] \/ Overtakes(w, v), NEW active, NEW sameOrigin
  PROVE  LET x == PageAsks(w, v, active, sameOrigin)
         IN  /\ SurfacesOK(x, opened, asked + 1)
             /\ SamePrompts(w.p, x.p)
             /\ w.fs # NoView /\ x.fs # w.fs => ~ x.engine[w.fs]
             /\ x.popTimers = w.popTimers
             /\ x.popout = [w.popout EXCEPT ![v] = [serial |-> w.popout[v].serial, state |-> "none"]]
<1> DEFINE known == ForgetPopout(w, v)
           ended == [w.popout EXCEPT ![v].state = "none"]
           x == PageAsks(w, v, active, sameOrigin)
           Rest(y) == /\ y.serial = w.serial /\ y.exitTimers = w.exitTimers
                      /\ y.popTimers = w.popTimers /\ y.popout = ended /\ SamePrompts(w.p, y.p)
                      /\ y \in WindowType
<1>1. w \in WindowType /\ w.p \in PermissionType /\ v \in Views /\ v # NoView
  BY ViewsAssumption DEF SurfacesOK, WindowType
<1>2. /\ ended \in [Views -> [serial : Nat, state : {"none", "live", "late"}]]
      /\ ended = [w.popout EXCEPT ![v] = [serial |-> w.popout[v].serial, state |-> "none"]]
      /\ known = [w EXCEPT !.popout = ended]
  BY <1>1 DEF ForgetPopout, WindowType
<1>3. /\ known.engine = w.engine /\ known.videoExits = w.videoExits /\ known.session = w.session
      /\ known.fs = w.fs /\ known.expected = w.expected /\ known.serial = w.serial
      /\ known.exitTimers = w.exitTimers /\ known.popTimers = w.popTimers
      /\ known.popout = ended /\ known.p = w.p /\ known \in WindowType
  BY <1>1, <1>2 DEF WindowType
<1>4. SamePrompts(w.p, w.p)
  BY DEF SamePrompts
<1> HIDE DEF ended
<1>5. CASE Overtakes(w, v)
  <2> DEFINE video == IF v \in w.videoExits THEN RestoreDetachedVideo(w, v) ELSE w
             both == IF w.expected[v] # 0 THEN ExitBrowserFullScreen(video, v) ELSE video
             ends == w.expected[v] # 0 /\ w.fs = v
  <2>1. /\ video.engine = w.engine /\ video.videoExits = w.videoExits
        /\ video.session = (IF v \in w.videoExits THEN [w.session EXCEPT ![v] = "attached"] ELSE w.session)
        /\ video.fs = w.fs /\ video.expected = w.expected /\ video.serial = w.serial
        /\ video.exitTimers = w.exitTimers /\ video.popTimers = w.popTimers
        /\ video.popout = w.popout /\ video.p = w.p /\ video.savedBar = w.savedBar /\ video \in WindowType
    BY <1>1 DEF RestoreDetachedVideo, WindowType
  <2> HIDE DEF video
  <2>2. /\ both.engine = w.engine /\ both.videoExits = w.videoExits
        /\ both.session = video.session
        /\ both.fs = (IF ends THEN NoView ELSE w.fs)
        /\ both.expected = w.expected /\ both.serial = w.serial
        /\ both.exitTimers = w.exitTimers /\ both.popTimers = w.popTimers
        /\ both.popout = w.popout /\ SamePrompts(w.p, both.p) /\ both \in WindowType
    <3>1. CASE ends
      <4> DEFINE q == [w.p EXCEPT !.bar = w.savedBar]
      <4>1. q \in PermissionType /\ SamePrompts(w.p, q)
        BY <1>1 DEF PermissionType, SamePrompts, WindowType
      <4>2. both = [video EXCEPT !.fs = NoView, !.p = q, !.savedBar = FALSE]
        BY <1>1, <2>1, <3>1 DEF ExitBrowserFullScreen, WindowType
      <4> HIDE DEF q, both
      <4> QED BY <2>1, <3>1, <4>1, <4>2 DEF WindowType
    <3>2. CASE ~ ends
      BY <1>4, <2>1, <3>2 DEF ExitBrowserFullScreen
    <3> QED BY <3>1, <3>2
  <2>3. x = [ForgetPopout(both, v) EXCEPT !.engine[v] = FALSE, !.expected[v] = 0, !.videoExits = @ \ {v}]
    BY <1>5 DEF PageAsks, FinishExits, video
  <2> HIDE DEF both
  <2>4. x = [both EXCEPT !.popout = ended, !.engine[v] = FALSE, !.expected[v] = 0, !.videoExits = @ \ {v}]
    <3>1. ForgetPopout(both, v) = [both EXCEPT !.popout = ended]
      BY <1>1, <2>2 DEF ForgetPopout, WindowType, ended
    <3> QED BY <2>2, <2>3, <3>1 DEF WindowType
  <2> HIDE DEF x
  <2>5. /\ x.engine = [w.engine EXCEPT ![v] = FALSE] /\ x.videoExits = w.videoExits \ {v}
        /\ x.session = (IF v \in w.videoExits THEN [w.session EXCEPT ![v] = "attached"] ELSE w.session)
        /\ x.fs = (IF ends THEN NoView ELSE w.fs) /\ x.expected = [w.expected EXCEPT ![v] = 0] /\ Rest(x)
    BY <1>2, <2>1, <2>2, <2>4 DEF WindowType
  <2>6. w.serial \in Nat /\ w.expected \in [Views -> Nat] /\ x.serial = w.serial /\ x.exitTimers = w.exitTimers
    BY <1>1, <2>5 DEF WindowType
  <2>7. Exits(x) /\ x.fs \in opened \union {NoView}
    BY <1>1, <1>5, <2>5, <2>6 DEF SurfacesOK, Exits, Backed, Detached, WindowType
  <2>8. Budget(x, asked + 1)
    BY <1>1, <1>5, <2>5, <2>6 DEF SurfacesOK, Budget, Overtakes
  <2>9. Backed(x)
    BY <1>1, <1>5, <2>5 DEF SurfacesOK, Backed, Detached, Overtakes, WindowType
  <2>10. Owned(x, opened)
    BY <1>1, <1>5, <2>5 DEF SurfacesOK, Owned, Detached, Overtakes, WindowType
  <2>11. SurfacesOK(x, opened, asked + 1)
    BY <2>5, <2>7, <2>8, <2>9, <2>10 DEF SurfacesOK
  <2>12. w.fs # NoView /\ x.fs # w.fs => ~ x.engine[w.fs]
    BY <1>1, <1>5, <2>5 DEF WindowType
  <2> QED BY <1>2, <2>5, <2>11, <2>12 DEF x
<1>6. CASE ~ Overtakes(w, v) /\ (~ active \/ Detached(w, v) \/ w.fs # NoView)
  <2>1. x = [known EXCEPT !.engine[v] = FALSE]
    BY <1>6 DEF PageAsks
  <2> HIDE DEF x, known
  <2>2. /\ x.engine = [w.engine EXCEPT ![v] = FALSE] /\ x.videoExits = w.videoExits
        /\ x.session = w.session /\ x.fs = w.fs /\ x.expected = w.expected /\ Rest(x)
    BY <1>1, <1>3, <1>4, <2>1 DEF WindowType
  <2>3. w.serial \in Nat /\ w.expected \in [Views -> Nat] /\ x.serial = w.serial /\ x.exitTimers = w.exitTimers
    BY <1>1, <2>2 DEF WindowType
  <2>4. Exits(x) /\ x.fs \in opened \union {NoView}
    BY <1>1, <1>6, <2>2, <2>3 DEF SurfacesOK, Exits, Backed, Detached, WindowType
  <2>5. Budget(x, asked + 1)
    BY <1>1, <1>6, <2>2, <2>3 DEF SurfacesOK, Budget, Overtakes
  <2>6. Backed(x)
    BY <1>1, <1>6, <2>2 DEF SurfacesOK, Backed, Detached, Overtakes, WindowType
  <2>7. Owned(x, opened)
    BY <1>1, <1>6, <2>2 DEF SurfacesOK, Owned, Detached, Overtakes, WindowType
  <2>8. SurfacesOK(x, opened, asked + 1)
    BY <2>2, <2>4, <2>5, <2>6, <2>7 DEF SurfacesOK
  <2>9. w.fs # NoView /\ x.fs # w.fs => ~ x.engine[w.fs]
    BY <1>1, <1>6, <2>2 DEF WindowType
  <2> QED BY <1>2, <2>2, <2>8, <2>9 DEF x
<1>7. CASE ~ Overtakes(w, v) /\ active /\ ~ Detached(w, v) /\ w.fs = NoView
  <2>1. CASE w.popout[v].state = "live" /\ sameOrigin
    <3>1. x = [known EXCEPT !.engine[v] = TRUE, !.session[v] = "detached"]
      BY <1>7, <2>1 DEF PageAsks
    <3> HIDE DEF x, known
    <3>2. /\ x.engine = [w.engine EXCEPT ![v] = TRUE] /\ x.videoExits = w.videoExits
          /\ x.session = [w.session EXCEPT ![v] = "detached"] /\ x.fs = w.fs
          /\ x.expected = w.expected /\ Rest(x)
      BY <1>1, <1>3, <1>4, <3>1 DEF WindowType
    <3>3. w.serial \in Nat /\ w.expected \in [Views -> Nat] /\ x.serial = w.serial /\ x.exitTimers = w.exitTimers
      BY <1>1, <3>2 DEF WindowType
    <3>4. Exits(x) /\ x.fs \in opened \union {NoView}
      BY <1>1, <1>7, <3>2, <3>3 DEF SurfacesOK, Exits, Backed, Detached, WindowType
    <3>5. Budget(x, asked + 1)
      BY <1>1, <1>7, <3>2, <3>3 DEF SurfacesOK, Budget, Overtakes
    <3>6. Backed(x)
      BY <1>1, <1>7, <3>2 DEF SurfacesOK, Backed, Detached, Overtakes, WindowType
    <3>7. Owned(x, opened)
      BY <1>1, <1>7, <3>2 DEF SurfacesOK, Owned, Detached, Overtakes, WindowType
    <3>8. SurfacesOK(x, opened, asked + 1)
      BY <3>2, <3>4, <3>5, <3>6, <3>7 DEF SurfacesOK
    <3>9. w.fs # NoView /\ x.fs # w.fs => ~ x.engine[w.fs]
      BY <1>1, <1>7, <3>2 DEF WindowType
    <3> QED BY <1>2, <3>2, <3>8, <3>9 DEF x
  <2>2. CASE ~ (w.popout[v].state = "live" /\ sameOrigin)
    <3> DEFINE q == [w.p EXCEPT !.bar = FALSE]
    <3>1. q \in PermissionType /\ SamePrompts(w.p, q)
      BY <1>1 DEF PermissionType, SamePrompts
    <3>2. x = EnterBrowserFullScreen(known, v)
      BY <1>7, <2>2 DEF PageAsks
    <3>3. x = [known EXCEPT !.engine[v] = TRUE, !.fs = v, !.savedBar = w.p.bar, !.p = q]
      BY <1>1, <1>3, <3>2 DEF EnterBrowserFullScreen, WindowType
    <3>4. w.p.bar \in BOOLEAN
      BY <1>1 DEF PermissionType
    <3> HIDE DEF x, known, q
    <3>5. /\ x.engine = [w.engine EXCEPT ![v] = TRUE] /\ x.videoExits = w.videoExits
          /\ x.session = w.session /\ x.fs = v
          /\ x.expected = w.expected /\ Rest(x)
      BY <1>1, <1>3, <3>1, <3>3, <3>4 DEF WindowType
    <3>6. w.serial \in Nat /\ w.expected \in [Views -> Nat] /\ x.serial = w.serial /\ x.exitTimers = w.exitTimers
      BY <1>1, <3>5 DEF WindowType
    <3>7. Exits(x) /\ x.fs \in opened \union {NoView}
      BY <1>1, <1>7, <3>5, <3>6 DEF SurfacesOK, Exits, Backed, Detached, WindowType
    <3>8. Budget(x, asked + 1)
      BY <1>1, <1>7, <3>5, <3>6 DEF SurfacesOK, Budget, Overtakes
    <3>9. Backed(x)
      BY <1>1, <1>7, <3>5 DEF SurfacesOK, Backed, Detached, Overtakes, WindowType
    <3>10. Owned(x, opened)
      BY <1>1, ViewsAssumption, <1>7, <3>5 DEF SurfacesOK, Owned, Detached, Overtakes, WindowType
    <3>11. SurfacesOK(x, opened, asked + 1)
      BY <3>5, <3>7, <3>8, <3>9, <3>10 DEF SurfacesOK
    <3>12. w.fs # NoView /\ x.fs # w.fs => ~ x.engine[w.fs]
      BY <1>1, <1>7, <3>5 DEF WindowType
    <3> QED BY <1>2, <3>5, <3>11, <3>12 DEF x
  <2> QED BY <2>1, <2>2
<1> QED BY <1>5, <1>6, <1>7

----------------------------------------------------------------------------
(***************************************************************************)
(* The inductive invariant.  Each tab's pop-out serial counts clicks and   *)
(* navigations of that tab, so it stays within what the bounds count.      *)
(***************************************************************************)
Tallied ==
  /\ open \in SUBSET Views /\ load \in [Views -> Nat] /\ fresh \subseteq open
  /\ asks \in 0 .. MaxAsks /\ clicks \in 0 .. MaxClicks
  /\ loads \in 0 .. MaxLoads /\ requests \in 0 .. MaxRequests
  /\ \A v \in Views : load[v] <= loads

Popouts ==
  /\ \A v \in Views : u.popout[v].serial <= clicks + load[v]
  /\ \A t \in u.popTimers : t[2] \in 1 .. clicks + loads
  /\ PopoutFollowsClick

WindowInv ==
  /\ Tallied
  /\ WindowOK(u, open, asks, load, requests) /\ u.p.current \in open
  /\ Popouts

\* No step throws a page out of full screen: what NobodyIsThrownOut says of a step.
Leaves ==
  \A v \in Views : u.fs = v /\ u'.fs # v => u.expected[v] # 0 \/ ~ u'.engine[v] \/ v \notin open'

LEMMA InitEstablishes == Init => WindowInv
<1> SUFFICES ASSUME Init PROVE WindowInv
  OBVIOUS
<1> USE DEF Init, WindowInit
<1>1. Tallied
  BY WindowAssumption DEF Tallied
<1>2. u.p = NoPermissions(FirstView) /\ Undecided(u.p) = {} /\ u.p.current \in open
  BY WindowAssumption DEF NoPermissions, Undecided
<1>3. u.p \in PermissionType /\ PromptsOK(u.p, load, 0)
  <2>1. /\ u.p.active = NoRequest /\ u.p.queue = {} /\ u.p.decided = {}
        /\ u.p \in PermissionType
    BY <1>2, WindowAssumption DEF NoPermissions, PermissionType
  <2> QED BY <1>2, <2>1 DEF PromptsOK, Accounted, From, Asking
<1>4. u \in WindowType
  BY <1>3 DEF WindowType
<1>5. SurfacesOK(u, open, asks)
  BY <1>4, WindowAssumption DEF SurfacesOK, Exits, Backed, Owned, Budget, Detached
<1>6. Popouts
  BY WindowAssumption DEF Popouts, PopoutFollowsClick
<1> QED BY <1>1, <1>2, <1>3, <1>5, <1>6 DEF WindowInv, WindowOK

LEMMA InvTypes == WindowInv => u \in WindowType /\ u.p \in PermissionType /\ PromptsOK(u.p, load, requests)
                               /\ SurfacesOK(u, open, asks) /\ u.p.current \in Views
BY DEF WindowInv, WindowOK, SurfacesOK, WindowType, Tallied

\* Steps of which the pop-outs and the counts see nothing.
LEMMA QuietStep ==
  ASSUME WindowInv, UNCHANGED <<open, load, fresh, asks, clicks, loads, requests>>,
         SurfacesOK(u', open, asks), PromptsOK(u'.p, load, requests), u'.p.current \in open,
         Fewer(u, u')
  PROVE  WindowInv' /\ Leaves
<1>1. Tallied' /\ Popouts'
  BY DEF WindowInv, Tallied, Popouts, PopoutFollowsClick, Fewer
<1>2. Leaves
  BY DEF Leaves, Fewer
<1> QED BY <1>1, <1>2 DEF WindowInv, WindowOK

LEMMA QuietSurfaces ==
  ASSUME WindowInv, UNCHANGED <<open, load, fresh, asks, clicks, loads, requests>>,
         SurfacesOK(u', open, asks), SamePrompts(u.p, u'.p), Fewer(u, u')
  PROVE  WindowInv' /\ Leaves
<1>1. u'.p \in PermissionType
  BY DEF SurfacesOK, WindowType
<1>2. PromptsOK(u'.p, load, requests)
  BY <1>1, InvTypes, SamePromptsKeep DEF WindowInv, Tallied
<1>3. u'.p.current \in open
  BY DEF WindowInv, SamePrompts
<1> QED BY <1>2, <1>3, QuietStep

\* Steps of the pop-outs: the surfaces and the prompt stay.
LEMMA PopoutsAside ==
  ASSUME WindowInv, NEW P \in [Views -> [serial : Nat, state : {"none", "live", "late"}]],
         NEW T \in SUBSET (Views \X Nat),
         u' = [u EXCEPT !.popout = P, !.popTimers = T],
         UNCHANGED <<open, load, asks, loads, requests>>
  PROVE  /\ u'.popout = P /\ u'.popTimers = T
         /\ WindowOK(u', open, asks, load, requests) /\ u'.p.current \in open
         /\ Leaves
<1>1. u \in WindowType
  BY InvTypes
<1>2. /\ u'.engine = u.engine /\ u'.fs = u.fs /\ u'.expected = u.expected /\ u'.serial = u.serial
      /\ u'.exitTimers = u.exitTimers /\ u'.session = u.session /\ u'.videoExits = u.videoExits
      /\ u'.popout = P /\ u'.popTimers = T /\ u'.p = u.p /\ u' \in WindowType
  BY <1>1 DEF WindowType
<1>3. SurfacesOK(u', open, asks)
  BY <1>2, InvTypes DEF SurfacesOK, Exits, Backed, Owned, Budget, Detached, Overtakes
<1> QED BY <1>2, <1>3, InvTypes DEF WindowInv, WindowOK, Leaves

----------------------------------------------------------------------------
LEMMA PageAsksFullScreenStep == WindowInv /\ PageAsksFullScreen => WindowInv' /\ Leaves
<1> SUFFICES ASSUME WindowInv,
                    NEW v \in open, NEW active \in BOOLEAN, NEW sameOrigin \in BOOLEAN,
                    asks < MaxAsks, ~ u.engine[v] \/ Overtakes(u, v),
                    u' = PageAsks(u, v, active, sameOrigin), asks' = asks + 1,
                    fresh' = fresh \ {v}, UNCHANGED <<open, load, clicks, loads, requests>>
             PROVE  WindowInv' /\ Leaves
  BY DEF PageAsksFullScreen
<1>1. open \in SUBSET Views /\ asks \in Nat /\ requests \in Nat /\ u \in WindowType
  BY InvTypes, WindowAssumption DEF WindowInv, Tallied
<1>2. /\ SurfacesOK(u', open, asks + 1) /\ SamePrompts(u.p, u'.p)
      /\ u.fs # NoView /\ u'.fs # u.fs => ~ u'.engine[u.fs]
      /\ u'.popTimers = u.popTimers
      /\ u'.popout = [u.popout EXCEPT ![v] = [serial |-> u.popout[v].serial, state |-> "none"]]
  BY <1>1, InvTypes, PageAsksKeeps
<1>3. u'.p \in PermissionType
  BY <1>2 DEF SurfacesOK, WindowType
<1>4. PromptsOK(u'.p, load, requests) /\ u'.p.current \in open
  BY <1>1, <1>2, <1>3, InvTypes, SamePromptsKeep DEF WindowInv, SamePrompts
<1>5. Tallied'
  BY WindowAssumption DEF WindowInv, Tallied
<1>6. Popouts'
  BY <1>1, <1>2 DEF WindowInv, Popouts, PopoutFollowsClick, WindowType
<1>7. Leaves
  BY <1>2, ViewsAssumption DEF Leaves
<1> QED BY <1>2, <1>4, <1>5, <1>6, <1>7 DEF WindowInv, WindowOK

LEMMA PageLeavesStep == WindowInv /\ PageLeavesFullScreen => WindowInv' /\ Leaves
<1> SUFFICES ASSUME WindowInv, NEW v \in open, u' = PageLeft(u, v),
                    UNCHANGED <<open, load, fresh, asks, clicks, loads, requests>>
             PROVE  WindowInv' /\ Leaves
  BY DEF PageLeavesFullScreen
<1>1. open \in SUBSET Views /\ asks \in Nat
  BY WindowAssumption DEF WindowInv, Tallied
<1> QED BY <1>1, InvTypes, PageLeftKeeps, QuietSurfaces

LEMMA UserLeavesStep == WindowInv /\ UserLeavesFullScreen => WindowInv' /\ Leaves
<1> SUFFICES ASSUME WindowInv, NEW answers \in BOOLEAN, u' = RequestExit(u, u.fs, answers),
                    UNCHANGED <<open, load, fresh, asks, clicks, loads, requests>>
             PROVE  WindowInv' /\ Leaves
  BY DEF UserLeavesFullScreen
<1>1. open \in SUBSET Views /\ asks \in Nat /\ u.fs \in Views \union {NoView}
  BY InvTypes, WindowAssumption DEF WindowInv, Tallied, WindowType
<1> QED BY <1>1, InvTypes, RequestExitKeeps, QuietSurfaces

LEMMA ExitTimerStep == WindowInv /\ ExitTimer => WindowInv' /\ Leaves
<1> SUFFICES ASSUME WindowInv, NEW timer \in u.exitTimers, u' = ExitTimedOut(u, timer[1], timer[2]),
                    UNCHANGED <<open, load, fresh, asks, clicks, loads, requests>>
             PROVE  WindowInv' /\ Leaves
  BY DEF ExitTimer
<1>1. open \in SUBSET Views /\ asks \in Nat /\ requests \in Nat
  BY WindowAssumption DEF WindowInv, Tallied
<1>2. timer = <<timer[1], timer[2]>> /\ timer[1] \in Views /\ timer[2] \in Nat
  BY InvTypes DEF WindowType
<1>3. /\ SurfacesOK(u', open, asks)
      /\ u'.engine = u.engine /\ u'.popout = u.popout /\ u'.popTimers = u.popTimers
      /\ SamePrompts(u.p, u'.p)
      /\ u'.fs # u.fs => u.expected[u.fs] # 0
  BY <1>1, <1>2, InvTypes, ExitTimedOutKeeps
<1>4. u'.p \in PermissionType
  BY <1>3 DEF SurfacesOK, WindowType
<1>5. PromptsOK(u'.p, load, requests) /\ u'.p.current \in open
  BY <1>1, <1>3, <1>4, InvTypes, SamePromptsKeep DEF WindowInv, SamePrompts
<1>6. Tallied' /\ Popouts'
  BY <1>3 DEF WindowInv, Tallied, Popouts, PopoutFollowsClick
<1>7. Leaves
  BY <1>3 DEF Leaves
<1> QED BY <1>3, <1>5, <1>6, <1>7 DEF WindowInv, WindowOK

LEMMA UserReturnsVideoStep == WindowInv /\ UserReturnsVideo => WindowInv' /\ Leaves
<1> SUFFICES ASSUME WindowInv, NEW v \in open, NEW answers \in BOOLEAN, u' = RequestReturn(u, v, answers),
                    UNCHANGED <<open, load, fresh, asks, clicks, loads, requests>>
             PROVE  WindowInv' /\ Leaves
  BY DEF UserReturnsVideo
<1>1. open \in SUBSET Views /\ asks \in Nat
  BY WindowAssumption DEF WindowInv, Tallied
<1> QED BY <1>1, InvTypes, RequestReturnKeeps, QuietSurfaces

LEMMA ReturnTimerStep ==
  ASSUME NEW v \in Views
  PROVE  WindowInv /\ ReturnTimer(v) => WindowInv' /\ Leaves
<1> SUFFICES ASSUME WindowInv, u.session[v] = "returning", u' = RestoreDetachedVideo(u, v),
                    UNCHANGED <<open, load, fresh, asks, clicks, loads, requests>>
             PROVE  WindowInv' /\ Leaves
  BY DEF ReturnTimer
<1>1. open \in SUBSET Views /\ asks \in Nat /\ v \in u.videoExits
  BY InvTypes, WindowAssumption DEF WindowInv, Tallied, SurfacesOK, Exits
<1>2. SurfacesOK(u', open, asks) /\ Fewer(u, u') /\ u'.p = u.p
  BY <1>1, InvTypes, RestoreDetachedVideoKeeps
<1> QED BY <1>2, QuietSurfaces DEF SamePrompts

LEMMA UserClicksPopoutStep == WindowInv /\ UserClicksPopout => WindowInv' /\ Leaves
<1> SUFFICES ASSUME WindowInv, NEW v \in open, clicks < MaxClicks, u' = PopoutClicked(u, v),
                    clicks' = clicks + 1, fresh' = fresh \union {v},
                    UNCHANGED <<open, load, asks, loads, requests>>
             PROVE  WindowInv' /\ Leaves
  BY DEF UserClicksPopout
<1> DEFINE n == u.popout[v].serial + 1
           P == [u.popout EXCEPT ![v] = [serial |-> n, state |-> "live"]]
           T == u.popTimers \union {<<v, n>>}
<1>1. u \in WindowType /\ v \in Views /\ n \in Nat /\ n # 0 /\ clicks \in Nat /\ loads \in Nat
      /\ load \in [Views -> Nat] /\ load[v] <= loads /\ n <= clicks + load[v] + 1
  BY InvTypes, WindowAssumption DEF WindowInv, Tallied, Popouts, WindowType
<1>2. u' = [u EXCEPT !.popout = P, !.popTimers = T]
  BY <1>1 DEF PopoutClicked, WindowType
<1>3. P \in [Views -> [serial : Nat, state : {"none", "live", "late"}]] /\ T \in SUBSET (Views \X Nat)
  BY <1>1 DEF WindowType
<1> HIDE DEF P, T, n
<1>4. /\ u'.popout = P /\ u'.popTimers = T
      /\ WindowOK(u', open, asks, load, requests) /\ u'.p.current \in open /\ Leaves
  BY <1>2, <1>3, PopoutsAside
<1>5. Tallied'
  BY WindowAssumption DEF WindowInv, Tallied
<1>6. Popouts'
  <2>1. \A t \in u.popTimers : t[2] \in 1 .. clicks' + loads'
    BY <1>1 DEF WindowInv, Popouts
  <2>2. \A t \in T : t[2] \in 1 .. clicks' + loads'
    BY <1>1, <2>1 DEF T
  <2>3. \A x \in Views : P[x].serial <= clicks' + load'[x]
    BY <1>1 DEF WindowInv, Popouts, WindowType, P
  <2>4. \A x \in open : P[x].state = "live" <=> x \in fresh'
    BY <1>1 DEF WindowInv, Popouts, PopoutFollowsClick, WindowType, P
  <2> QED BY <1>4, <2>2, <2>3, <2>4 DEF Popouts, PopoutFollowsClick
<1> QED BY <1>4, <1>5, <1>6 DEF WindowInv, WindowOK

LEMMA PopoutDeadlineStep == WindowInv /\ PopoutDeadline => WindowInv' /\ Leaves
<1> SUFFICES ASSUME WindowInv, NEW v \in Views, u.popout[v].state = "live",
                    u' = [u EXCEPT !.popout[v].state = "late"], fresh' = fresh \ {v},
                    UNCHANGED <<open, load, asks, clicks, loads, requests>>
             PROVE  WindowInv' /\ Leaves
  BY DEF PopoutDeadline
<1> DEFINE P == [u.popout EXCEPT ![v].state = "late"]
           T == u.popTimers
<1>1. u \in WindowType
  BY InvTypes
<1>2. u' = [u EXCEPT !.popout = P, !.popTimers = T]
  BY <1>1 DEF WindowType
<1>3. P \in [Views -> [serial : Nat, state : {"none", "live", "late"}]] /\ T \in SUBSET (Views \X Nat)
  BY <1>1 DEF WindowType
<1> HIDE DEF P, T
<1>4. /\ u'.popout = P /\ u'.popTimers = T
      /\ WindowOK(u', open, asks, load, requests) /\ u'.p.current \in open /\ Leaves
  BY <1>2, <1>3, PopoutsAside
<1>5. Tallied' /\ Popouts'
  BY <1>1, <1>4 DEF WindowInv, Tallied, Popouts, PopoutFollowsClick, WindowType, P, T
<1> QED BY <1>4, <1>5 DEF WindowInv, WindowOK

LEMMA PopoutTimerStep == WindowInv /\ PopoutTimer => WindowInv' /\ Leaves
<1> SUFFICES ASSUME WindowInv, NEW timer \in u.popTimers,
                    u.popout[timer[1]] # [serial |-> timer[2], state |-> "live"],
                    u' = PopoutTimedOut(u, timer[1], timer[2]),
                    UNCHANGED <<open, load, fresh, asks, clicks, loads, requests>>
             PROVE  WindowInv' /\ Leaves
  BY DEF PopoutTimer
<1> DEFINE v == timer[1]
           over == u.popout[v].serial = timer[2]
           P == IF over THEN [u.popout EXCEPT ![v].state = "none"] ELSE u.popout
           T == u.popTimers \ {<<timer[1], timer[2]>>}
<1>1. u \in WindowType /\ v \in Views
  BY InvTypes DEF WindowType
<1>2. u' = [u EXCEPT !.popout = P, !.popTimers = T]
  BY <1>1 DEF PopoutTimedOut, ForgetPopout, WindowType
<1>3. P \in [Views -> [serial : Nat, state : {"none", "live", "late"}]] /\ T \in SUBSET (Views \X Nat)
  BY <1>1 DEF WindowType
<1>4. over => u.popout[v].state # "live"
  BY <1>1 DEF WindowType
<1> HIDE DEF P, T
<1>5. /\ u'.popout = P /\ u'.popTimers = T
      /\ WindowOK(u', open, asks, load, requests) /\ u'.p.current \in open /\ Leaves
  BY <1>2, <1>3, PopoutsAside
<1>6. Tallied' /\ Popouts'
  BY <1>1, <1>4, <1>5 DEF WindowInv, Tallied, Popouts, PopoutFollowsClick, WindowType, P, T
<1> QED BY <1>5, <1>6 DEF WindowInv, WindowOK

LEMMA PageAsksPermissionStep == WindowInv /\ PageAsksPermission => WindowInv' /\ Leaves
<1> SUFFICES ASSUME WindowInv, NEW v \in open, NEW promptable \in BOOLEAN, NEW answers \in BOOLEAN,
                    requests < MaxRequests, requests' = requests + 1,
                    u' = PermissionRequested(u, [view |-> v, page |-> load[v], id |-> requests'], promptable, answers),
                    UNCHANGED <<open, load, fresh, asks, clicks, loads>>
             PROVE  WindowInv' /\ Leaves
  BY DEF PageAsksPermission
<1> DEFINE r == [view |-> v, page |-> load[v], id |-> requests + 1]
<1>1. open \in SUBSET Views /\ asks \in Nat /\ requests \in Nat /\ v \in Views /\ load[v] \in 0 .. MaxLoads
  BY WindowAssumption DEF WindowInv, Tallied
<1>2. r \in RequestType /\ r.id = requests + 1 /\ r.view = v /\ r.page = load[r.view]
  BY <1>1, WindowAssumption DEF RequestType
<1> HIDE DEF r
<1>3. /\ WindowOK(u', open, asks, load, requests + 1) /\ Fewer(u, u') /\ u'.p.current \in open
  <2>1. u' = PermissionRequested(u, r, promptable, answers)
    BY DEF r
  <2> QED BY <1>1, <1>2, <2>1, PermissionRequestedKeeps DEF WindowInv
<1>4. Tallied' /\ Popouts'
  BY <1>1, <1>3, WindowAssumption DEF WindowInv, Tallied, Popouts, PopoutFollowsClick, Fewer
<1>5. Leaves
  BY <1>3 DEF Leaves, Fewer
<1> QED BY <1>3, <1>4, <1>5 DEF WindowInv

LEMMA UserAnswersPromptStep == WindowInv /\ UserAnswersPrompt => WindowInv' /\ Leaves
<1> SUFFICES ASSUME WindowInv,
                    \/ u' = [u EXCEPT !.p = AllowCurrent(u.p)]
                    \/ u' = [u EXCEPT !.p = DenyCurrent(u.p)],
                    UNCHANGED <<open, load, fresh, asks, clicks, loads, requests>>
             PROVE  WindowInv' /\ Leaves
  BY DEF UserAnswersPrompt
<1>1. requests \in Nat
  BY WindowAssumption DEF WindowInv, Tallied
<1>2. PICK q : /\ u' = [u EXCEPT !.p = q]
               /\ PromptsOK(q, load, requests) /\ q.current = u.p.current
  BY <1>1, InvTypes, AllowCurrentKeeps, DenyCurrentKeeps DEF PromptsOK
<1>3. WindowOK(u', open, asks, load, requests) /\ Fewer(u, u') /\ u'.p = q
  BY <1>1, <1>2, InvTypes, PromptsChange
<1>4. u'.p.current \in open
  BY <1>2, <1>3 DEF WindowInv
<1> QED BY <1>3, <1>4, QuietStep DEF WindowOK

LEMMA UserChangesTabStep == WindowInv /\ UserChangesTab => WindowInv' /\ Leaves
<1> SUFFICES ASSUME WindowInv, NEW v \in open, NEW answers \in BOOLEAN, u' = TabChanged(u, v, answers),
                    UNCHANGED <<open, load, fresh, asks, clicks, loads, requests>>
             PROVE  WindowInv' /\ Leaves
  BY DEF UserChangesTab
<1>1. open \in SUBSET Views /\ asks \in Nat /\ requests \in Nat /\ v \in Views
  BY WindowAssumption DEF WindowInv, Tallied
<1>2. WindowOK(u', open, asks, load, requests) /\ Fewer(u, u') /\ u'.p.current = v
  BY <1>1, TabChangedKeeps DEF WindowInv
<1> QED BY <1>2, QuietStep DEF WindowOK

LEMMA PageStartsLoadingStep == WindowInv /\ PageStartsLoading => WindowInv' /\ Leaves
<1> SUFFICES ASSUME WindowInv, NEW v \in open, NEW answers \in BOOLEAN,
                    loads < MaxLoads, loads' = loads + 1, load' = [load EXCEPT ![v] = @ + 1],
                    u' = LoadStarted(u, v, answers), fresh' = fresh \ {v},
                    UNCHANGED <<open, asks, clicks, requests>>
             PROVE  WindowInv' /\ Leaves
  BY DEF PageStartsLoading
<1>1. /\ open \in SUBSET Views /\ asks \in Nat /\ requests \in Nat /\ v \in Views /\ loads \in Nat
      /\ clicks \in Nat /\ load \in [Views -> Nat] /\ u \in WindowType
  BY InvTypes, WindowAssumption DEF WindowInv, Tallied
<1>2. WindowOK(u', open, asks, load', requests) /\ Loaded(u, u', v)
  BY <1>1, LoadStartedKeeps DEF WindowInv
<1>3. Tallied'
  BY <1>1, WindowAssumption DEF WindowInv, Tallied
<1>4. Popouts'
  BY <1>1, <1>2 DEF Loaded, WindowInv, Tallied, Popouts, PopoutFollowsClick, WindowType
<1>5. Leaves
  BY <1>2 DEF Leaves, Loaded
<1> QED BY <1>2, <1>3, <1>4, <1>5 DEF WindowInv, Loaded

LEMMA UserClosesTabStep == WindowInv /\ UserClosesTab => WindowInv' /\ Leaves
<1> SUFFICES ASSUME WindowInv, NEW v \in open, NEW next \in open, NEW answers \in BOOLEAN, next # v,
                    u' = CloseTab(u, v, next, answers), open' = open \ {v}, fresh' = fresh \ {v},
                    UNCHANGED <<load, asks, clicks, loads, requests>>
             PROVE  WindowInv' /\ Leaves
  BY DEF UserClosesTab
<1>1. /\ open \in SUBSET Views /\ asks \in Nat /\ requests \in Nat /\ v \in Views /\ next \in Views
      /\ u \in WindowType
  BY InvTypes, WindowAssumption DEF WindowInv, Tallied
<1>2. WindowOK(u', open', asks, load, requests) /\ TabClosed(u, u', v, next)
  BY <1>1, CloseTabKeeps DEF WindowInv
<1>3. Tallied' /\ u'.p.current \in open'
  BY <1>1, <1>2 DEF TabClosed, WindowInv, Tallied
<1>4. Popouts'
  BY <1>1, <1>2 DEF TabClosed, WindowInv, Popouts, PopoutFollowsClick, WindowType
<1>5. Leaves
  BY <1>2 DEF Leaves, TabClosed
<1> QED BY <1>2, <1>3, <1>4, <1>5 DEF WindowInv

LEMMA StepKeeps == WindowInv /\ [Next]_vars => WindowInv' /\ [Leaves]_vars
<1> SUFFICES ASSUME WindowInv, [Next]_vars PROVE WindowInv' /\ [Leaves]_vars
  OBVIOUS
<1>1. CASE Next
  BY <1>1, PageAsksFullScreenStep, PageLeavesStep, UserLeavesStep, ExitTimerStep, UserReturnsVideoStep,
     ReturnTimerStep, UserClicksPopoutStep, PopoutDeadlineStep, PopoutTimerStep, PageAsksPermissionStep,
     UserAnswersPromptStep, UserChangesTabStep, PageStartsLoadingStep, UserClosesTabStep DEF Next
<1>2. CASE UNCHANGED vars
  BY <1>2 DEF vars, WindowInv, Tallied, Popouts, PopoutFollowsClick
<1> QED BY <1>1, <1>2

----------------------------------------------------------------------------
LEMMA Invariance == Spec => []WindowInv
<1>1. WindowInv /\ [Next]_vars => WindowInv'
  BY StepKeeps
<1> QED BY <1>1, InitEstablishes, PTL DEF Spec

LEMMA InvIsTyped == WindowInv => TypeOK
<1> SUFFICES ASSUME WindowInv PROVE TypeOK
  OBVIOUS
<1>1. u \in WindowType /\ u.p \in PermissionType /\ SurfacesOK(u, open, asks) /\ u.p.current \in open
  BY InvTypes DEF WindowInv
<1>2. /\ Tallied /\ Popouts /\ clicks + loads \in 0 .. MaxClicks + MaxLoads
      /\ clicks \in Nat /\ loads \in Nat /\ load \in [Views -> Nat] /\ u.serial \in Nat
  BY <1>1, WindowAssumption DEF WindowInv, Tallied, WindowType
<1>3. u.engine \in [Views -> BOOLEAN] /\ u.fs \in open \union {NoView} /\ u.savedBar \in BOOLEAN
      /\ u.session \in [Views -> {"attached", "detached", "returning"}] /\ u.videoExits \subseteq Views
  BY <1>1 DEF SurfacesOK, WindowType
<1>4. u.serial \in 0 .. MaxAsks
  BY <1>1, <1>2, WindowAssumption DEF SurfacesOK, Budget, Tallied
<1>5. u.expected \in [Views -> 0 .. u.serial] /\ u.exitTimers \subseteq Views \X (1 .. u.serial)
  BY <1>1, <1>2 DEF SurfacesOK, Exits, WindowType
<1>6. \A v \in Views : u.popout[v].serial \in 0 .. MaxClicks + MaxLoads
  <2>1. \A v \in Views : u.popout[v].serial \in Nat /\ load[v] \in Nat
    BY <1>1, <1>2 DEF WindowType
  <2>2. \A v \in Views : u.popout[v].serial <= clicks + load[v] /\ load[v] <= loads
    BY <1>2 DEF Tallied, Popouts
  <2>3. MaxClicks + MaxLoads \in Nat /\ clicks + loads <= MaxClicks + MaxLoads
    BY <1>2, WindowAssumption
  <2> SUFFICES ASSUME NEW v \in Views PROVE u.popout[v].serial \in 0 .. MaxClicks + MaxLoads
    OBVIOUS
  <2>4. u.popout[v].serial \in Nat /\ load[v] \in Nat /\ load[v] <= loads
        /\ u.popout[v].serial <= clicks + load[v]
    BY <2>1, <2>2
  <2>5. u.popout[v].serial <= clicks + loads
    BY <1>2, <2>4
  <2> QED BY <1>2, <2>3, <2>4, <2>5
<1>7. u.popout \in [Views -> [serial : 0 .. MaxClicks + MaxLoads, state : {"none", "live", "late"}]]
  BY <1>1, <1>6 DEF WindowType
<1>8. u.popTimers \subseteq Views \X (1 .. MaxClicks + MaxLoads)
  BY <1>1, <1>2, WindowAssumption DEF WindowType, Popouts
<1>9. u.fs # NoView => ~ Detached(u, u.fs)
  BY <1>1 DEF SurfacesOK, Backed
<1>10. open \subseteq Views /\ load \in [Views -> 0 .. MaxLoads] /\ fresh \subseteq open
  BY <1>2, WindowAssumption DEF Tallied
<1> QED BY <1>1, <1>3, <1>4, <1>5, <1>7, <1>8, <1>9, <1>10 DEF TypeOK

(***************************************************************************)
(* However the answers of pages, the timers and the user's clicks come:    *)
(* what page, window and video window take to be in full screen agrees.    *)
(***************************************************************************)
THEOREM PagesAndWindowsAgree == Spec => []PageAndWindowAgree
<1>1. WindowInv => PageAndWindowAgree
  <2> SUFFICES ASSUME WindowInv PROVE FullPageIsOwned /\ SurfaceIsBacked
    BY InvIsTyped DEF PageAndWindowAgree
  <2>1. Owned(u, open) /\ Backed(u)
    BY InvTypes DEF SurfacesOK
  <2> QED BY <2>1, ViewsAssumption DEF Owned, Backed, FullPageIsOwned, SurfaceIsBacked
<1> QED BY <1>1, Invariance, PTL

(***************************************************************************)
(* Full screen ends only with the page's leave, an exit asked for, or the  *)
(* closing of the tab; the timer of an exit ends no other full screen.     *)
(***************************************************************************)
THEOREM NobodyIsEverThrownOut == Spec => NobodyIsThrownOut
<1>1. WindowInv /\ [Next]_vars => [Leaves]_vars
  BY StepKeeps
<1> QED BY <1>1, Invariance, PTL DEF Spec, NobodyIsThrownOut, Leaves

(***************************************************************************)
(* A pop-out request is live exactly while its click is neither used, nor  *)
(* expired, nor of a page that is gone.                                    *)
(***************************************************************************)
THEOREM PopoutsFollowClicks == Spec => []PopoutFollowsClick
<1>1. WindowInv => PopoutFollowsClick
  BY DEF WindowInv, Popouts
<1> QED BY <1>1, Invariance, PTL

(***************************************************************************)
(* The user is asked only about requests of the page in front.             *)
(***************************************************************************)
THEOREM AskingStaysCurrent == Spec => []AskingIsCurrent
<1>1. WindowInv => AskingIsCurrent
  BY InvTypes DEF PromptsOK, From, AskingIsCurrent
<1> QED BY <1>1, Invariance, PTL

(***************************************************************************)
(* No permission request is lost or decided and asked about at once, and   *)
(* none waits behind nothing.                                              *)
(***************************************************************************)
THEOREM RequestsAreAccountedFor == Spec => []NoRequestIsForgotten
<1>1. WindowInv => NoRequestIsForgotten
  BY InvTypes DEF PromptsOK, Accounted, Asking, NoRequestIsForgotten
<1> QED BY <1>1, Invariance, PTL

----------------------------------------------------------------------------
(***************************************************************************)
(* The find bar and the question.  Searched: an answer that is of the last *)
(* search, and of the page that is searched, was asked of what that page   *)
(* shows now.  Shows and Asks are the two parts of ToolsFollowPage.        *)
(***************************************************************************)
Searches == [tab : ToolTabs, query : Queries, load : Nat, serial : Nat]
Results == [tab : ToolTabs, query : Queries, load : Nat] \cup {NoResult}

ToolsType ==
  [open : SUBSET ToolTabs, current : ToolTabs, loads : [ToolTabs -> Nat], loading : SUBSET ToolTabs,
   detached : SUBSET ToolTabs, bar : BOOLEAN, query : Queries \cup {NoQuery}, shown : Results,
   findView : ToolTabs \cup {NoTab}, serial : Nat, answers : SUBSET Searches,
   source : ToolTabs \cup {NoTab}, asked : Nat, events : Nat]

Searched(S) ==
  \A a \in S.answers :
    a.serial <= S.serial /\ (a.serial = S.serial /\ a.tab = S.findView => a.load = S.loads[a.tab])

Shows(S) ==
  S.shown # NoResult =>
    /\ S.bar /\ S.findView = S.current
    /\ S.shown = [tab |-> S.current, query |-> S.query, load |-> S.loads[S.current]]

Asks(S) ==
  S.source # NoTab =>
    /\ S.source \in S.open /\ S.asked = S.loads[S.source]
    /\ S.source = S.current \/ S.source \in S.detached

ToolsInv(S) == S \in ToolsType /\ Searched(S) /\ Shows(S) /\ Asks(S)

\* A state in which nothing is searched yet, whatever is shown.
Unsearched(S) == S \in ToolsType /\ Searched(S) /\ (S.bar \/ S.shown = NoResult) /\ Asks(S)

\* A search forgets what is shown, and only its own answer is of the last search.
LEMMA FindKeepsTools ==
  ASSUME NEW S, Unsearched(S)
  PROVE  ToolsInv(FindInPage(S))
<1> DEFINE search == [tab |-> S.current, query |-> S.query, load |-> S.loads[S.current], serial |-> S.serial + 1]
           F == [S EXCEPT !.findView = S.current, !.serial = @ + 1, !.shown = NoResult]
           G == [F EXCEPT !.answers = @ \cup {search}]
<1>1. S \in ToolsType /\ S.serial \in Nat /\ S.answers \subseteq Searches /\ S.current \in ToolTabs
  BY DEF Unsearched, ToolsType
<1>2. F \in ToolsType
  <2>1. NoResult \in Results
    BY DEF Results
  <2>2. S.serial + 1 \in Nat
    BY <1>1
  <2> QED BY <1>1, <2>1, <2>2 DEF ToolsType
<1>3. /\ F.open = S.open /\ F.current = S.current /\ F.loads = S.loads /\ F.detached = S.detached /\ F.bar = S.bar
      /\ F.query = S.query /\ F.shown = NoResult /\ F.findView = S.current /\ F.serial = S.serial + 1
      /\ F.answers = S.answers /\ F.source = S.source /\ F.asked = S.asked
  BY <1>1 DEF ToolsType
<1>4. \A a \in S.answers : a.serial \in Nat /\ a.serial <= S.serial
  BY <1>1 DEF Unsearched, Searched, Searches
<1>5. ToolsInv(F)
  <2>1. Searched(F)
    BY <1>1, <1>3, <1>4 DEF Searched
  <2>2. Shows(F) /\ Asks(F)
    BY <1>3 DEF Shows, Asks, Unsearched
  <2> QED BY <1>2, <2>1, <2>2 DEF ToolsInv
<1>6. ASSUME S.query # NoQuery PROVE ToolsInv(G)
  <2>1. search \in Searches
    BY <1>1, <1>6 DEF Searches, ToolsType
  <2>2. G \in ToolsType /\ G.answers = S.answers \cup {search}
    BY <1>2, <1>3, <2>1 DEF ToolsType
  <2>3. /\ G.open = S.open /\ G.current = S.current /\ G.loads = S.loads /\ G.detached = S.detached /\ G.bar = S.bar
        /\ G.query = S.query /\ G.shown = NoResult /\ G.findView = S.current /\ G.serial = S.serial + 1
        /\ G.source = S.source /\ G.asked = S.asked
    BY <1>2, <1>3 DEF ToolsType
  <2>4. Searched(G)
    <3>1. search.serial = S.serial + 1 /\ search.load = S.loads[S.current] /\ search.tab = S.current
      OBVIOUS
    <3> HIDE DEF search, G
    <3> QED BY <1>1, <1>4, <2>2, <2>3, <3>1 DEF Searched
  <2>5. Shows(G) /\ Asks(G)
    BY <2>3 DEF Shows, Asks, Unsearched
  <2> QED BY <2>2, <2>4, <2>5 DEF ToolsInv
<1>7. CASE ~S.bar
  <2>1. FindInPage(S) = S
    BY <1>7 DEF FindInPage
  <2> QED BY <1>7, <2>1 DEF Unsearched, ToolsInv, Shows
<1>8. CASE S.bar /\ S.query = NoQuery
  <2>1. FindInPage(S) = F
    BY <1>8 DEF FindInPage
  <2> QED BY <1>5, <2>1
<1>9. CASE S.bar /\ S.query # NoQuery
  <2>1. FindInPage(S) = G
    BY <1>9 DEF FindInPage
  <2> QED BY <1>6, <1>9, <2>1
<1> QED BY <1>7, <1>8, <1>9

\* Counting an event changes nothing else.
LEMMA CountKeepsTools ==
  ASSUME NEW S, ToolsInv(S), Counts(S)
  PROVE  ToolsInv(pt')
<1>1. S \in ToolsType /\ pt' = [S EXCEPT !.events = @ + 1]
  BY DEF ToolsInv, Counts
<1>2. pt' \in ToolsType
  BY <1>1 DEF ToolsType
<1>3. /\ pt'.open = S.open /\ pt'.current = S.current /\ pt'.loads = S.loads /\ pt'.detached = S.detached
      /\ pt'.bar = S.bar /\ pt'.query = S.query /\ pt'.shown = S.shown /\ pt'.findView = S.findView
      /\ pt'.serial = S.serial /\ pt'.answers = S.answers /\ pt'.source = S.source /\ pt'.asked = S.asked
  BY <1>1 DEF ToolsType
<1> QED BY <1>2, <1>3 DEF ToolsInv, Searched, Shows, Asks

\* Another tab in front is searched anew, and the question goes unless its page can still be seen.
LEMMA CurrentKeepsTools ==
  ASSUME NEW S, S \in ToolsType, Searched(S), S.bar \/ S.shown = NoResult, NEW t \in S.open,
         S.source # NoTab => S.source \in S.open /\ S.asked = S.loads[S.source]
  PROVE  ToolsInv(CurrentChanged(S, t))
<1> DEFINE F == [S EXCEPT !.current = t]
           G == IF F.source \notin {NoTab, t} /\ F.source \notin F.detached THEN [F EXCEPT !.source = NoTab] ELSE F
<1>1. CurrentChanged(S, t) = FindInPage(G)
  BY DEF CurrentChanged
<1>2. F \in ToolsType /\ F.current = t
  BY DEF ToolsType
<1>3. /\ F.open = S.open /\ F.loads = S.loads /\ F.detached = S.detached /\ F.bar = S.bar
      /\ F.shown = S.shown /\ F.findView = S.findView
      /\ F.serial = S.serial /\ F.answers = S.answers /\ F.source = S.source /\ F.asked = S.asked
  BY DEF ToolsType
<1> HIDE DEF F
<1>4. G \in ToolsType /\ G.source = IF F.source \notin {NoTab, t} /\ F.source \notin F.detached THEN NoTab ELSE F.source
  BY <1>2 DEF ToolsType
<1>5. /\ G.open = S.open /\ G.loads = S.loads /\ G.detached = S.detached /\ G.bar = S.bar
      /\ G.shown = S.shown /\ G.findView = S.findView /\ G.current = t
      /\ G.serial = S.serial /\ G.answers = S.answers /\ G.asked = S.asked
  BY <1>2, <1>3 DEF ToolsType
<1> HIDE DEF G
<1>6. Unsearched(G)
  BY <1>3, <1>4, <1>5 DEF Unsearched, Searched, Asks
<1> QED BY <1>1, <1>6, FindKeepsTools

\* A question that is cancelled leaves all else as it was.
LEMMA CancelKeepsTools ==
  ASSUME NEW S, S \in ToolsType, NEW t
  PROVE  LET C == CancelExternalUrlPrompt(S, t)
         IN  /\ C \in ToolsType
             /\ C.open = S.open /\ C.current = S.current /\ C.loads = S.loads /\ C.loading = S.loading
             /\ C.detached = S.detached /\ C.bar = S.bar /\ C.query = S.query /\ C.shown = S.shown
             /\ C.findView = S.findView /\ C.serial = S.serial /\ C.answers = S.answers /\ C.asked = S.asked
             /\ C.source = IF S.source = t THEN NoTab ELSE S.source
<1>1. CASE S.source = t
  BY <1>1 DEF CancelExternalUrlPrompt, ToolsType
<1>2. CASE S.source # t
  BY <1>2 DEF CancelExternalUrlPrompt
<1> QED BY <1>1, <1>2

LEMMA FindBarSteps ==
  ASSUME ToolsInv(pt), OpenFindBar \/ CloseFindBar \/ TypeQuery \/ FindNext
  PROVE  ToolsInv(pt')
<1>1. pt \in ToolsType /\ Searched(pt) /\ Shows(pt) /\ Asks(pt)
  BY DEF ToolsInv
<1>2. ASSUME NEW S, S \in ToolsType, S.bar, S.open = pt.open, S.current = pt.current, S.loads = pt.loads,
             S.detached = pt.detached, S.findView = pt.findView, S.serial = pt.serial,
             S.answers = pt.answers, S.source = pt.source, S.asked = pt.asked
      PROVE  ToolsInv(FindInPage(S))
  <2>1. Unsearched(S)
    BY <1>1, <1>2 DEF Unsearched, Searched, Asks
  <2> QED BY <2>1, FindKeepsTools
<1>3. ASSUME OpenFindBar PROVE ToolsInv(pt')
  <2>1. PICK selected \in Queries \cup {NoQuery} :
          Counts(IF selected # NoQuery /\ selected # pt.query
                 THEN FindInPage([pt EXCEPT !.bar = TRUE, !.query = selected])
                 ELSE IF pt.bar THEN pt ELSE FindInPage([pt EXCEPT !.bar = TRUE]))
    BY <1>3, Zenon DEF OpenFindBar
  <2>2. ASSUME NEW S, S = [pt EXCEPT !.bar = TRUE, !.query = selected] PROVE ToolsInv(FindInPage(S))
    <3>1. S \in ToolsType
      BY <1>1, <2>2 DEF ToolsType
    <3>2. S.bar
      BY <1>1, <2>2, Zenon DEF ToolsType
    <3> QED BY <1>1, <1>2, <2>2, <3>1, <3>2 DEF ToolsType
  <2>3. ASSUME NEW S, S = [pt EXCEPT !.bar = TRUE] PROVE ToolsInv(FindInPage(S))
    <3>1. S \in ToolsType
      BY <1>1, <2>3 DEF ToolsType
    <3>2. S.bar
      BY <1>1, <2>3, Zenon DEF ToolsType
    <3> QED BY <1>1, <1>2, <2>3, <3>1, <3>2 DEF ToolsType
  <2>4. /\ ToolsInv(FindInPage([pt EXCEPT !.bar = TRUE, !.query = selected]))
        /\ ToolsInv(FindInPage([pt EXCEPT !.bar = TRUE]))
    BY <2>2, <2>3, Zenon
  <2> QED BY <2>1, <2>4, CountKeepsTools, Zenon
<1>4. ASSUME CloseFindBar PROVE ToolsInv(pt')
  <2>1. PICK S : S = [pt EXCEPT !.bar = FALSE, !.serial = @ + 1, !.findView = NoTab, !.shown = NoResult] /\ Counts(S)
    BY <1>4 DEF CloseFindBar
  <2>2. S \in ToolsType
    <3>1. NoResult \in Results /\ pt.serial + 1 \in Nat
      BY <1>1 DEF Results, ToolsType
    <3> QED BY <1>1, <2>1, <3>1 DEF ToolsType
  <2>3. /\ S.open = pt.open /\ S.current = pt.current /\ S.loads = pt.loads /\ S.detached = pt.detached
        /\ S.shown = NoResult /\ S.serial = pt.serial + 1
        /\ S.answers = pt.answers /\ S.source = pt.source /\ S.asked = pt.asked
    BY <1>1, <2>1 DEF ToolsType
  <2>4. \A a \in pt.answers : a.serial \in Nat /\ a.serial <= pt.serial
    BY <1>1 DEF ToolsType, Searched, Searches
  <2>5. pt.serial \in Nat
    BY <1>1 DEF ToolsType
  <2>6. ToolsInv(S)
    BY <1>1, <2>2, <2>3, <2>4, <2>5 DEF ToolsInv, Searched, Shows, Asks
  <2> QED BY <2>1, <2>6, CountKeepsTools
<1>5. ASSUME TypeQuery PROVE ToolsInv(pt')
  <2>1. PICK query \in Queries \cup {NoQuery} : pt.bar /\ Counts(FindInPage([pt EXCEPT !.query = query]))
    BY <1>5 DEF TypeQuery
  <2>2. ASSUME NEW S, S = [pt EXCEPT !.query = query] PROVE ToolsInv(FindInPage(S))
    <3>1. S \in ToolsType /\ S.bar
      BY <1>1, <2>1, <2>2 DEF ToolsType
    <3> QED BY <1>1, <1>2, <2>2, <3>1 DEF ToolsType
  <2> QED BY <2>1, <2>2, CountKeepsTools
<1>6. ASSUME FindNext PROVE ToolsInv(pt')
  <2>1. Unsearched(pt)
    BY <1>1, <1>6 DEF FindNext, Unsearched
  <2> QED BY <1>6, <2>1, FindKeepsTools, CountKeepsTools DEF FindNext
<1> QED BY <1>3, <1>4, <1>5, <1>6

LEMMA FindResultStep ==
  ASSUME ToolsInv(pt), FindResultArrives
  PROVE  ToolsInv(pt')
<1>1. pt \in ToolsType /\ Searched(pt) /\ Shows(pt) /\ Asks(pt)
  BY DEF ToolsInv
<1>2. PICK a \in pt.answers :
        pt' = IF IsCurrentSearch(a)
              THEN [[pt EXCEPT !.answers = @ \ {a}]
                       EXCEPT !.shown = [tab |-> a.tab, query |-> a.query, load |-> a.load]]
              ELSE [pt EXCEPT !.answers = @ \ {a}]
  BY Zenon DEF FindResultArrives
<1>3. PICK S : S = [pt EXCEPT !.answers = @ \ {a}]
  OBVIOUS
<1>4. S \in ToolsType /\ S.answers \subseteq pt.answers
  BY <1>1, <1>3 DEF ToolsType
<1>5. /\ S.open = pt.open /\ S.current = pt.current /\ S.loads = pt.loads /\ S.detached = pt.detached
      /\ S.bar = pt.bar /\ S.query = pt.query /\ S.shown = pt.shown /\ S.findView = pt.findView
      /\ S.serial = pt.serial /\ S.source = pt.source /\ S.asked = pt.asked
  BY <1>1, <1>3 DEF ToolsType
<1>6. Searched(S) /\ Asks(S)
  BY <1>1, <1>4, <1>5 DEF Searched, Asks
<1>7. CASE ~IsCurrentSearch(a)
  <2>1. pt' = S /\ Shows(S)
    BY <1>1, <1>2, <1>3, <1>5, <1>7 DEF Shows
  <2> QED BY <1>4, <1>6, <2>1 DEF ToolsInv
<1>8. CASE IsCurrentSearch(a)
  <2>1. PICK result : result = [tab |-> a.tab, query |-> a.query, load |-> a.load]
    OBVIOUS
  <2>2. pt' = [S EXCEPT !.shown = result]
    BY <1>2, <1>3, <1>8, <2>1
  <2>3. a.tab \in ToolTabs /\ a.query \in Queries /\ a.load \in Nat /\ a.serial \in Nat
    BY <1>1 DEF ToolsType, Searches
  <2>4. result \in Results
    BY <2>1, <2>3 DEF Results
  <2>5. pt' \in ToolsType
    BY <1>4, <2>2, <2>4 DEF ToolsType
  <2>6. /\ pt'.open = S.open /\ pt'.current = S.current /\ pt'.loads = S.loads /\ pt'.detached = S.detached
        /\ pt'.bar = S.bar /\ pt'.query = S.query /\ pt'.shown = result /\ pt'.findView = S.findView
        /\ pt'.serial = S.serial /\ pt'.answers = S.answers /\ pt'.source = S.source /\ pt'.asked = S.asked
    BY <1>4, <2>2 DEF ToolsType
  <2>7. a.load = pt.loads[pt.current]
    BY <1>1, <1>8 DEF Searched, IsCurrentSearch
  <2>8. Shows(pt')
    <3>1. pt'.bar
      BY <1>5, <1>8, <2>6, Zenon DEF IsCurrentSearch
    <3>2. /\ pt'.findView = pt'.current
          /\ pt'.shown = [tab |-> pt'.current, query |-> pt'.query, load |-> pt'.loads[pt'.current]]
      <4>1. a.tab = pt.current /\ pt.current = pt.findView /\ a.query = pt.query
        BY <1>8 DEF IsCurrentSearch
      <4>2. /\ pt'.current = pt.current /\ pt'.findView = pt.findView /\ pt'.query = pt.query
            /\ pt'.loads = pt.loads /\ pt'.shown = result
        BY <1>5, <2>6
      <4> QED BY <2>1, <2>7, <4>1, <4>2
    <3> QED BY <3>1, <3>2, Zenon DEF Shows
  <2>9. Searched(pt') /\ Asks(pt')
    BY <1>6, <2>6 DEF Searched, Asks
  <2> QED BY <2>5, <2>8, <2>9 DEF ToolsInv
<1> QED BY <1>7, <1>8

LEMMA ExternalUrlSteps ==
  ASSUME ToolsInv(pt), HandleExternalUrlRequest \/ AnswerExternalUrlPrompt \/ DetachVideo \/ RestoreVideo
  PROVE  ToolsInv(pt')
<1>1. pt \in ToolsType /\ Searched(pt) /\ Shows(pt) /\ Asks(pt)
  BY DEF ToolsInv
\* what neither the search nor its results depend on
<1>2. ASSUME NEW S \in ToolsType, S.loads = pt.loads, S.current = pt.current, S.bar = pt.bar, S.query = pt.query,
             S.shown = pt.shown, S.findView = pt.findView, S.serial = pt.serial, S.answers = pt.answers,
             Asks(S)
      PROVE  ToolsInv(S)
  BY <1>1, <1>2 DEF ToolsInv, Searched, Shows
<1>3. ASSUME HandleExternalUrlRequest PROVE ToolsInv(pt')
  <2>1. PICK t \in pt.open :
          /\ t = pt.current \/ t \in pt.detached
          /\ pt.source = NoTab
          /\ Counts([pt EXCEPT !.source = t, !.asked = pt.loads[t]])
    BY <1>3, Zenon DEF HandleExternalUrlRequest
  <2>2. PICK S : S = [pt EXCEPT !.source = t, !.asked = pt.loads[t]]
    OBVIOUS
  <2>3. t \in ToolTabs /\ pt.loads[t] \in Nat
    BY <1>1 DEF ToolsType
  <2>4. S \in ToolsType
    BY <1>1, <2>2, <2>3 DEF ToolsType
  <2>5. Asks(S)
    BY <1>1, <2>1, <2>2 DEF Asks, ToolsType
  <2>6. ToolsInv(S)
    BY <1>1, <1>2, <2>2, <2>4, <2>5 DEF ToolsType
  <2> QED BY <2>1, <2>2, <2>6, CountKeepsTools
<1>4. ASSUME AnswerExternalUrlPrompt PROVE ToolsInv(pt')
  <2>1. PICK S : S = [pt EXCEPT !.source = NoTab] /\ Counts(S)
    BY <1>4 DEF AnswerExternalUrlPrompt
  <2>2. S \in ToolsType /\ Asks(S)
    BY <1>1, <2>1 DEF ToolsType, Asks
  <2>3. ToolsInv(S)
    BY <1>1, <1>2, <2>1, <2>2 DEF ToolsType
  <2> QED BY <2>1, <2>3, CountKeepsTools
<1>5. ASSUME DetachVideo PROVE ToolsInv(pt')
  <2>1. PICK S : S = [pt EXCEPT !.detached = @ \cup {pt.current}] /\ Counts(S)
    BY <1>5 DEF DetachVideo
  <2>2. S \in ToolsType
    BY <1>1, <2>1 DEF ToolsType
  <2>3. Asks(S)
    BY <1>1, <2>1 DEF ToolsType, Asks
  <2>4. ToolsInv(S)
    BY <1>1, <1>2, <2>1, <2>2, <2>3 DEF ToolsType
  <2> QED BY <2>1, <2>4, CountKeepsTools
<1>6. ASSUME RestoreVideo PROVE ToolsInv(pt')
  <2>1. PICK t \in pt.detached : Counts([CancelExternalUrlPrompt(pt, t) EXCEPT !.detached = @ \ {t}])
    BY <1>6 DEF RestoreVideo
  <2>2. PICK C : C = CancelExternalUrlPrompt(pt, t)
    OBVIOUS
  <2>3. /\ C \in ToolsType
        /\ C.open = pt.open /\ C.current = pt.current /\ C.loads = pt.loads
        /\ C.detached = pt.detached /\ C.bar = pt.bar /\ C.query = pt.query /\ C.shown = pt.shown
        /\ C.findView = pt.findView /\ C.serial = pt.serial /\ C.answers = pt.answers /\ C.asked = pt.asked
        /\ C.source = IF pt.source = t THEN NoTab ELSE pt.source
    BY <1>1, <2>2, CancelKeepsTools
  <2>4. PICK S : S = [C EXCEPT !.detached = @ \ {t}]
    OBVIOUS
  <2>5. S \in ToolsType
    BY <2>3, <2>4 DEF ToolsType
  <2>6. /\ S.open = pt.open /\ S.current = pt.current /\ S.loads = pt.loads
        /\ S.detached = pt.detached \ {t} /\ S.bar = pt.bar /\ S.query = pt.query /\ S.shown = pt.shown
        /\ S.findView = pt.findView /\ S.serial = pt.serial /\ S.answers = pt.answers /\ S.asked = pt.asked
        /\ S.source = IF pt.source = t THEN NoTab ELSE pt.source
    BY <2>3, <2>4 DEF ToolsType
  <2>7. Asks(S)
    BY <1>1, <2>6 DEF Asks
  <2>8. ToolsInv(S)
    BY <1>2, <2>5, <2>6, <2>7
  <2> QED BY <2>1, <2>2, <2>4, <2>8, CountKeepsTools
<1> QED BY <1>3, <1>4, <1>5, <1>6

LEMMA TabSteps ==
  ASSUME ToolsInv(pt), SwitchToTab \/ LoadFinishedIn
  PROVE  ToolsInv(pt')
<1>1. pt \in ToolsType /\ Searched(pt) /\ Shows(pt) /\ Asks(pt)
  BY DEF ToolsInv
<1>2. pt.bar \/ pt.shown = NoResult
  BY <1>1 DEF Shows
<1>3. ASSUME SwitchToTab PROVE ToolsInv(pt')
  <2>1. PICK t \in pt.open : Counts(CurrentChanged(pt, t))
    BY <1>3 DEF SwitchToTab
  <2>2. ToolsInv(CurrentChanged(pt, t))
    BY <1>1, <1>2, CurrentKeepsTools DEF Asks
  <2> QED BY <2>1, <2>2, CountKeepsTools
<1>4. ASSUME LoadFinishedIn PROVE ToolsInv(pt')
  <2>1. PICK t \in pt.loading :
          pt' = IF t = pt.current /\ pt.query # NoQuery
                THEN FindInPage([pt EXCEPT !.loading = @ \ {t}]) ELSE [pt EXCEPT !.loading = @ \ {t}]
    BY <1>4, Zenon DEF LoadFinishedIn
  <2>2. PICK S : S = [pt EXCEPT !.loading = @ \ {t}]
    OBVIOUS
  <2>3. S \in ToolsType
    BY <1>1, <2>2 DEF ToolsType
  <2>4. /\ S.open = pt.open /\ S.current = pt.current /\ S.loads = pt.loads /\ S.detached = pt.detached
        /\ S.bar = pt.bar /\ S.query = pt.query /\ S.shown = pt.shown /\ S.findView = pt.findView
        /\ S.serial = pt.serial /\ S.answers = pt.answers /\ S.source = pt.source /\ S.asked = pt.asked
    BY <1>1, <2>2 DEF ToolsType
  <2>5. ToolsInv(S)
    BY <1>1, <2>3, <2>4 DEF ToolsInv, Searched, Shows, Asks
  <2>6. Unsearched(S)
    BY <2>5 DEF Unsearched, ToolsInv, Shows
  <2> QED BY <2>1, <2>2, <2>5, <2>6, FindKeepsTools
<1> QED BY <1>3, <1>4

LEMMA LoadStartedStep ==
  ASSUME ToolsInv(pt), LoadStartedIn
  PROVE  ToolsInv(pt')
<1>1. pt \in ToolsType /\ Searched(pt) /\ Shows(pt) /\ Asks(pt)
  BY DEF ToolsInv
<1> DEFINE started(t) == [CancelExternalUrlPrompt(pt, t) EXCEPT !.loads[t] = @ + 1, !.loading = @ \cup {t}]
           searching(t) == t = pt.current /\ pt.bar /\ pt.query # NoQuery
<1>2. PICK t \in pt.open :
        Counts(IF t = pt.findView
               THEN [started(t) EXCEPT !.serial = @ + 1, !.shown = IF searching(t) THEN NoResult ELSE @]
               ELSE started(t))
  BY Zenon DEF LoadStartedIn
<1>3. t \in ToolTabs
  BY <1>1 DEF ToolsType
<1>4. PICK C : C = CancelExternalUrlPrompt(pt, t)
  OBVIOUS
<1>5. /\ C \in ToolsType
      /\ C.open = pt.open /\ C.current = pt.current /\ C.loads = pt.loads
      /\ C.detached = pt.detached /\ C.bar = pt.bar /\ C.query = pt.query /\ C.shown = pt.shown
      /\ C.findView = pt.findView /\ C.serial = pt.serial /\ C.answers = pt.answers /\ C.asked = pt.asked
      /\ C.source = IF pt.source = t THEN NoTab ELSE pt.source
  BY <1>1, <1>4, CancelKeepsTools
<1>6. PICK counted : counted = [C.loads EXCEPT ![t] = @ + 1]
  OBVIOUS
<1>7. PICK S : S = started(t)
  OBVIOUS
<1>8. counted \in [ToolTabs -> Nat] /\ \A tab \in ToolTabs \ {t} : counted[tab] = pt.loads[tab]
  BY <1>1, <1>3, <1>5, <1>6 DEF ToolsType
<1>9. S = [C EXCEPT !.loads = counted, !.loading = @ \cup {t}]
  <2>1. S = [[C EXCEPT !.loads[t] = @ + 1] EXCEPT !.loading = @ \cup {t}]
    BY <1>4, <1>7
  <2>2. [C EXCEPT !.loads[t] = @ + 1] = [C EXCEPT !.loads = counted]
    BY <1>5, <1>6 DEF ToolsType
  <2> QED BY <2>1, <2>2
<1>10. S \in ToolsType
  BY <1>3, <1>5, <1>8, <1>9 DEF ToolsType
<1>11. /\ S.open = pt.open /\ S.current = pt.current /\ S.loads = counted
       /\ S.detached = pt.detached /\ S.bar = pt.bar /\ S.query = pt.query /\ S.shown = pt.shown
       /\ S.findView = pt.findView /\ S.serial = pt.serial /\ S.answers = pt.answers /\ S.asked = pt.asked
       /\ S.source = IF pt.source = t THEN NoTab ELSE pt.source
  BY <1>5, <1>9 DEF ToolsType
<1> HIDE DEF started
<1>12. Asks(S)
  <2>1. S.source # NoTab => S.source \in ToolTabs \ {t}
    BY <1>10, <1>11 DEF ToolsType
  <2> QED BY <1>1, <1>8, <1>11, <2>1 DEF Asks
<1>13. CASE t # pt.findView
  <2>1. Searched(S)
    <3>1. \A a \in pt.answers : a.tab \in ToolTabs
      BY <1>1 DEF ToolsType, Searches
    <3> QED BY <1>1, <1>8, <1>11, <1>13, <3>1 DEF Searched
  <2>2. Shows(S)
    <3>1. pt.current \in ToolTabs
      BY <1>1 DEF ToolsType
    <3> QED BY <1>1, <1>8, <1>11, <1>13, <3>1 DEF Shows
  <2>3. Counts(S)
    BY <1>2, <1>7, <1>13
  <2> QED BY <1>10, <1>12, <2>1, <2>2, <2>3, CountKeepsTools DEF ToolsInv
<1>14. CASE t = pt.findView
  <2>1. PICK shown : shown = IF searching(t) THEN NoResult ELSE S.shown
    OBVIOUS
  <2>2. PICK F : F = [S EXCEPT !.serial = @ + 1, !.shown = shown] /\ Counts(F)
    <3>1. Counts([S EXCEPT !.serial = @ + 1, !.shown = shown])
      BY <1>2, <1>7, <1>14, <2>1
    <3> QED BY <3>1
  <2>3. shown = NoResult
    <3>1. pt.shown # NoResult => searching(t)
      <4>1. SUFFICES ASSUME pt.shown # NoResult PROVE searching(t)
        OBVIOUS
      <4>2. pt.bar /\ pt.findView = pt.current /\ pt.shown.query = pt.query
        BY <1>1, <4>1 DEF Shows
      <4>3. pt.shown.query \in Queries
        BY <1>1, <4>1 DEF ToolsType, Results
      <4> QED BY <1>14, <4>2, <4>3, ToolsAssumption
    <3> QED BY <1>11, <2>1, <3>1
  <2>4. S.serial \in Nat /\ S.serial + 1 \in Nat /\ shown \in Results
    BY <1>10, <2>3 DEF ToolsType, Results
  <2>5. F \in ToolsType
    BY <1>10, <2>2, <2>4 DEF ToolsType
  <2>6. /\ F.open = S.open /\ F.current = S.current /\ F.loads = S.loads /\ F.detached = S.detached
        /\ F.shown = NoResult /\ F.serial = S.serial + 1
        /\ F.answers = S.answers /\ F.source = S.source /\ F.asked = S.asked
    BY <1>10, <2>2, <2>3 DEF ToolsType
  <2>7. \A a \in S.answers : a.serial \in Nat /\ a.serial <= S.serial
    BY <1>1, <1>11 DEF ToolsType, Searched, Searches
  <2>8. Searched(F) /\ Shows(F)
    BY <2>4, <2>6, <2>7 DEF Searched, Shows
  <2>9. Asks(F)
    BY <1>12, <2>6 DEF Asks
  <2> QED BY <2>2, <2>5, <2>8, <2>9, CountKeepsTools DEF ToolsInv
<1> QED BY <1>13, <1>14

LEMMA CloseTabStep ==
  ASSUME ToolsInv(pt), CloseTabOfTools
  PROVE  ToolsInv(pt')
<1>1. pt \in ToolsType /\ Searched(pt) /\ Shows(pt) /\ Asks(pt)
  BY DEF ToolsInv
<1> DEFINE home(t) == [CancelExternalUrlPrompt(pt, t)
                         EXCEPT !.open = @ \ {t}, !.loading = @ \ {t}, !.detached = @ \ {t}]
           silent(t) == IF t = pt.findView
                        THEN [home(t) EXCEPT !.serial = @ + 1, !.findView = NoTab, !.shown = NoResult] ELSE home(t)
<1>2. PICK t \in pt.open :
        IF t # pt.current THEN Counts(silent(t))
        ELSE \E next \in silent(t).open : Counts(CurrentChanged(silent(t), next))
  BY Zenon DEF CloseTabOfTools
<1>3. PICK C : C = CancelExternalUrlPrompt(pt, t)
  OBVIOUS
<1>4. /\ C \in ToolsType
      /\ C.open = pt.open /\ C.current = pt.current /\ C.loads = pt.loads
      /\ C.detached = pt.detached /\ C.bar = pt.bar /\ C.query = pt.query /\ C.shown = pt.shown
      /\ C.findView = pt.findView /\ C.serial = pt.serial /\ C.answers = pt.answers /\ C.asked = pt.asked
      /\ C.source = IF pt.source = t THEN NoTab ELSE pt.source
  BY <1>1, <1>3, CancelKeepsTools
<1>5. PICK H : H = home(t)
  OBVIOUS
<1>6. H = [C EXCEPT !.open = @ \ {t}, !.loading = @ \ {t}, !.detached = @ \ {t}]
  BY <1>3, <1>5
<1>7. H \in ToolsType
  BY <1>4, <1>6 DEF ToolsType
<1>8. /\ H.open = pt.open \ {t} /\ H.current = pt.current /\ H.loads = pt.loads
      /\ H.detached = pt.detached \ {t} /\ H.bar = pt.bar /\ H.query = pt.query /\ H.shown = pt.shown
      /\ H.findView = pt.findView /\ H.serial = pt.serial /\ H.answers = pt.answers /\ H.asked = pt.asked
      /\ H.source = IF pt.source = t THEN NoTab ELSE pt.source
  BY <1>4, <1>6 DEF ToolsType
<1>9. PICK Q : Q = silent(t)
  OBVIOUS
<1>10. Q = IF t = pt.findView THEN [H EXCEPT !.serial = @ + 1, !.findView = NoTab, !.shown = NoResult] ELSE H
  BY <1>5, <1>9
<1>11. IF t # pt.current THEN Counts(Q) ELSE \E next \in Q.open : Counts(CurrentChanged(Q, next))
  BY <1>2, <1>9
<1> HIDE DEF home, silent
<1>12. /\ Q \in ToolsType /\ Q.open = H.open /\ Q.current = H.current /\ Q.loads = H.loads
       /\ Q.detached = H.detached /\ Q.source = H.source /\ Q.asked = H.asked
       /\ Searched(Q) /\ Shows(Q)
  <2>1. CASE t # pt.findView
    BY <1>1, <1>7, <1>8, <1>10, <2>1 DEF Searched, Shows
  <2>2. CASE t = pt.findView
    <3>1. Q = [H EXCEPT !.serial = @ + 1, !.findView = NoTab, !.shown = NoResult]
      BY <1>10, <2>2
    <3>2. H.serial \in Nat /\ H.serial + 1 \in Nat /\ NoResult \in Results
      BY <1>7 DEF ToolsType, Results
    <3>3. Q \in ToolsType
      BY <1>7, <3>1, <3>2 DEF ToolsType
    <3>4. /\ Q.open = H.open /\ Q.current = H.current /\ Q.loads = H.loads
          /\ Q.detached = H.detached /\ Q.source = H.source /\ Q.asked = H.asked
          /\ Q.serial = H.serial + 1 /\ Q.answers = H.answers /\ Q.shown = NoResult
      BY <1>7, <3>1 DEF ToolsType
    <3>5. \A a \in H.answers : a.serial \in Nat /\ a.serial <= H.serial
      BY <1>1, <1>8 DEF ToolsType, Searched, Searches
    <3>6. Searched(Q) /\ Shows(Q)
      BY <3>2, <3>4, <3>5 DEF Searched, Shows
    <3> QED BY <3>3, <3>4, <3>6
  <2> QED BY <2>1, <2>2
<1>13. Q.source # NoTab => Q.source \in Q.open /\ Q.asked = Q.loads[Q.source]
  BY <1>1, <1>8, <1>12 DEF Asks
<1>14. CASE t # pt.current
  <2>1. Asks(Q)
    BY <1>1, <1>8, <1>12, <1>14 DEF Asks
  <2>2. ToolsInv(Q)
    BY <1>12, <2>1 DEF ToolsInv
  <2> QED BY <1>11, <1>14, <2>2, CountKeepsTools
<1>15. CASE t = pt.current
  <2>1. PICK next \in Q.open : Counts(CurrentChanged(Q, next))
    BY <1>11, <1>15
  <2>2. Q.bar \/ Q.shown = NoResult
    BY <1>12 DEF Shows
  <2>3. ToolsInv(CurrentChanged(Q, next))
    BY <1>12, <1>13, <2>2, CurrentKeepsTools
  <2> QED BY <2>1, <2>3, CountKeepsTools
<1> QED BY <1>14, <1>15

(***************************************************************************)
(* The find bar shows only what it was last asked for in the page in       *)
(* front, and a question is that of a page that is still there.            *)
(***************************************************************************)
LEMMA ToolsInvariance == PtInit /\ [][PtNext]_ptVars => []ToolsFollowPage
<1>1. PtInit => ToolsInv(pt)
  <2> SUFFICES ASSUME PtInit PROVE ToolsInv(pt)
    OBVIOUS
  <2>1. pt \in ToolsType
    <3>1. (CHOOSE t \in ToolTabs : TRUE) \in ToolTabs
      BY ToolsAssumption
    <3>2. NoResult \in Results
      BY DEF Results
    <3> QED BY <3>1, <3>2 DEF PtInit, ToolsType
  <2>2. pt.shown = NoResult /\ pt.source = NoTab /\ pt.answers = {}
    BY DEF PtInit
  <2> QED BY <2>1, <2>2 DEF ToolsInv, Searched, Shows, Asks
<1>2. ToolsInv(pt) /\ [PtNext]_ptVars => ToolsInv(pt)'
  <2>1. ToolsInv(pt) /\ PtNext => ToolsInv(pt')
    BY FindBarSteps, FindResultStep, ExternalUrlSteps, TabSteps, LoadStartedStep, CloseTabStep DEF PtNext
  <2>2. ToolsInv(pt)' <=> ToolsInv(pt')
    BY DEF ToolsInv, Searched, Shows, Asks
  <2> QED BY <2>1, <2>2 DEF ptVars
<1>3. ToolsInv(pt) => ToolsFollowPage
  BY DEF ToolsInv, Shows, Asks, ToolsFollowPage
<1> QED BY <1>1, <1>2, <1>3, PTL

----------------------------------------------------------------------------
(***************************************************************************)
(* The zoom.  Stored and Shown are the two parts of ZoomAgrees; a tab is   *)
(* in front of the window that it is in.                                   *)
(***************************************************************************)
ZoomType ==
  [window : [ZoomTabs -> ZoomWindows], front : [ZoomWindows -> ZoomTabs], site : [ZoomTabs -> Sites \cup {NoSite}],
   zoom : [ZoomTabs -> Int], stored : [Sites -> Int], failed : SUBSET Sites, active : ZoomWindows,
   command : [ZoomWindows -> Int], events : Nat]

FrontsAreThere(S) == \A w \in ZoomWindows : S.window[S.front[w]] = w

ZoomIsStored(S) == \A t \in ZoomTabs : S.site[t] \notin S.failed \cup {NoSite} => S.zoom[t] = S.stored[S.site[t]]

CommandShows(S, w) == S.command[w] \in {GreyedOut, S.zoom[S.front[w]]}

ZoomInv(S) == S \in ZoomType /\ FrontsAreThere(S) /\ ZoomIsStored(S) /\ \A w \in ZoomWindows : CommandShows(S, w)

\* The commands of the windows that are looked at are right, and those of the others untouched.
LEMMA ActionsKeepZoom ==
  ASSUME NEW S, NEW windows, S \in ZoomType, FrontsAreThere(S), ZoomIsStored(S),
         \A w \in ZoomWindows \ windows : CommandShows(S, w)
  PROVE  ZoomInv(UpdateZoomActions(S, windows))
<1> DEFINE shown(w) == IF w = S.active THEN S.zoom[S.front[w]] ELSE GreyedOut
           commands == [w \in ZoomWindows |-> IF w \in windows THEN shown(w) ELSE S.command[w]]
<1>1. PICK U : U = UpdateZoomActions(S, windows)
  OBVIOUS
<1>2. U = [S EXCEPT !.command = commands]
  BY <1>1 DEF UpdateZoomActions, ZoomType
<1>3. commands \in [ZoomWindows -> Int]
  BY DEF ZoomType, GreyedOut
<1>4. \A w \in ZoomWindows : commands[w] = IF w \in windows THEN shown(w) ELSE S.command[w]
  OBVIOUS
<1> HIDE DEF commands
<1>5. U \in ZoomType
  BY <1>2, <1>3 DEF ZoomType
<1>6. /\ U.window = S.window /\ U.front = S.front /\ U.site = S.site /\ U.zoom = S.zoom /\ U.stored = S.stored
      /\ U.failed = S.failed /\ U.command = commands
  BY <1>2 DEF ZoomType
<1>7. FrontsAreThere(U) /\ ZoomIsStored(U)
  BY <1>6 DEF FrontsAreThere, ZoomIsStored
<1>8. \A w \in ZoomWindows : CommandShows(U, w)
  BY <1>4, <1>6 DEF CommandShows
<1> QED BY <1>1, <1>5, <1>7, <1>8 DEF ZoomInv

LEMMA ZoomedKeeps ==
  ASSUME NEW S, ZoomInv(S), Zoomed(S)
  PROVE  ZoomInv(pz')
<1>1. S \in ZoomType /\ pz' = [S EXCEPT !.events = @ + 1]
  BY DEF ZoomInv, Zoomed
<1>2. pz' \in ZoomType
  BY <1>1 DEF ZoomType
<1>3. /\ pz'.window = S.window /\ pz'.front = S.front /\ pz'.site = S.site /\ pz'.zoom = S.zoom
      /\ pz'.stored = S.stored /\ pz'.failed = S.failed /\ pz'.command = S.command
  BY <1>1 DEF ZoomType
<1> QED BY <1>2, <1>3 DEF ZoomInv, FrontsAreThere, ZoomIsStored, CommandShows

LEMMA ZoomUrlStep ==
  ASSUME ZoomInv(pz), ZoomUrlChanged
  PROVE  ZoomInv(pz')
<1>1. pz \in ZoomType /\ FrontsAreThere(pz) /\ ZoomIsStored(pz) /\ \A w \in ZoomWindows : CommandShows(pz, w)
  BY DEF ZoomInv
<1> DEFINE reached(t, site) ==
             [pz EXCEPT !.site[t] = site, !.zoom[t] = IF site = NoSite THEN DefaultZoom ELSE pz.stored[site]]
<1>2. PICK t \in ZoomTabs, site \in Sites \cup {NoSite} :
        Zoomed(UpdateZoomActions(reached(t, site),
                                 IF t = reached(t, site).front[pz.window[t]] THEN {pz.window[t]} ELSE {}))
  BY Zenon DEF ZoomUrlChanged
<1>3. PICK factor : factor = IF site = NoSite THEN DefaultZoom ELSE pz.stored[site]
  OBVIOUS
<1>4. factor \in Int
  BY <1>1, <1>3 DEF ZoomType, DefaultZoom
<1>5. PICK S : S = reached(t, site)
  OBVIOUS
<1>6. PICK sites, zooms : sites = [pz.site EXCEPT ![t] = site] /\ zooms = [pz.zoom EXCEPT ![t] = factor]
  OBVIOUS
<1>7. /\ sites \in [ZoomTabs -> Sites \cup {NoSite}] /\ zooms \in [ZoomTabs -> Int]
      /\ \A tab \in ZoomTabs : sites[tab] = (IF tab = t THEN site ELSE pz.site[tab])
      /\ \A tab \in ZoomTabs : zooms[tab] = (IF tab = t THEN factor ELSE pz.zoom[tab])
  BY <1>1, <1>4, <1>6 DEF ZoomType
<1>8. S = [pz EXCEPT !.site = sites, !.zoom = zooms]
  BY <1>1, <1>3, <1>5, <1>6 DEF ZoomType
<1>9. S \in ZoomType
  BY <1>1, <1>7, <1>8 DEF ZoomType
<1>10. /\ S.window = pz.window /\ S.front = pz.front /\ S.site = sites /\ S.zoom = zooms /\ S.stored = pz.stored
       /\ S.failed = pz.failed /\ S.command = pz.command
  BY <1>1, <1>8 DEF ZoomType
<1>11. PICK windows : windows = IF t = S.front[pz.window[t]] THEN {pz.window[t]} ELSE {}
  OBVIOUS
<1>12. Zoomed(UpdateZoomActions(S, windows))
  BY <1>2, <1>5, <1>11
<1> HIDE DEF reached
<1>13. FrontsAreThere(S)
  BY <1>1, <1>10 DEF FrontsAreThere
<1>14. ZoomIsStored(S)
  BY <1>1, <1>3, <1>7, <1>10 DEF ZoomIsStored
<1>15. \A w \in ZoomWindows \ windows : CommandShows(S, w)
  <2> SUFFICES ASSUME NEW w \in ZoomWindows \ windows PROVE CommandShows(S, w)
    OBVIOUS
  <2>1. pz.front[w] \in ZoomTabs /\ pz.window[pz.front[w]] = w
    BY <1>1 DEF ZoomType, FrontsAreThere
  <2>2. pz.front[w] # t
    BY <1>10, <1>11, <2>1
  <2> QED BY <1>1, <1>7, <1>10, <2>1, <2>2 DEF CommandShows
<1> QED BY <1>9, <1>12, <1>13, <1>14, <1>15, ActionsKeepZoom, ZoomedKeeps

LEMMA FrontStep ==
  ASSUME ZoomInv(pz), FrontChanged
  PROVE  ZoomInv(pz')
<1>1. pz \in ZoomType /\ FrontsAreThere(pz) /\ ZoomIsStored(pz) /\ \A w \in ZoomWindows : CommandShows(pz, w)
  BY DEF ZoomInv
<1>2. PICK t \in ZoomTabs : Zoomed(UpdateZoomActions([pz EXCEPT !.front[pz.window[t]] = t], {pz.window[t]}))
  BY DEF FrontChanged
<1>3. PICK v : v = pz.window[t]
  OBVIOUS
<1>4. PICK fronts : fronts = [pz.front EXCEPT ![v] = t]
  OBVIOUS
<1>5. /\ v \in ZoomWindows /\ fronts \in [ZoomWindows -> ZoomTabs]
      /\ \A w \in ZoomWindows : fronts[w] = IF w = v THEN t ELSE pz.front[w]
  BY <1>1, <1>3, <1>4 DEF ZoomType
<1>6. PICK S : S = [pz EXCEPT !.front = fronts]
  OBVIOUS
<1>7. S \in ZoomType
  BY <1>1, <1>5, <1>6 DEF ZoomType
<1>8. /\ S.window = pz.window /\ S.front = fronts /\ S.site = pz.site /\ S.zoom = pz.zoom /\ S.stored = pz.stored
      /\ S.failed = pz.failed /\ S.command = pz.command
  BY <1>1, <1>6 DEF ZoomType
<1>9. Zoomed(UpdateZoomActions(S, {v}))
  <2>1. [pz EXCEPT !.front[v] = t] = S
    BY <1>1, <1>4, <1>6 DEF ZoomType
  <2> QED BY <1>2, <1>3, <2>1
<1>10. FrontsAreThere(S)
  BY <1>1, <1>3, <1>5, <1>8 DEF FrontsAreThere
<1>11. ZoomIsStored(S)
  BY <1>1, <1>8 DEF ZoomIsStored
<1>12. \A w \in ZoomWindows \ {v} : CommandShows(S, w)
  BY <1>1, <1>5, <1>8 DEF CommandShows
<1> QED BY <1>7, <1>9, <1>10, <1>11, <1>12, ActionsKeepZoom, ZoomedKeeps

\* The zoom of a site is stored for all its tabs, or the site is one that could not be stored.
LEMMA SetZoomKeeps ==
  ASSUME ZoomInv(pz), NEW t \in ZoomTabs, NEW factor \in Int, SetPageZoom(t, factor)
  PROVE  ZoomInv(pz')
<1>1. pz \in ZoomType /\ FrontsAreThere(pz) /\ ZoomIsStored(pz) /\ \A w \in ZoomWindows : CommandShows(pz, w)
  BY DEF ZoomInv
<1>2. PICK S \in Persisted(pz, pz.site[t], factor) :
        Zoomed(UpdateZoomActions(
                 [S EXCEPT !.zoom = [tab \in ZoomTabs |-> IF tab \in Affected(t) THEN factor ELSE @[tab]]],
                 IF pz.site[t] = NoSite THEN { pz.window[t] } ELSE ZoomWindows))
  BY Zenon DEF SetPageZoom
<1>3. PICK site : site = pz.site[t]
  OBVIOUS
<1>4. site \in Sites \cup {NoSite}
  BY <1>1, <1>3 DEF ZoomType
<1>5. /\ S \in ZoomType /\ S.window = pz.window /\ S.front = pz.front /\ S.site = pz.site /\ S.zoom = pz.zoom
      /\ S.command = pz.command
      /\ \A other \in Sites \ {site} :
           S.stored[other] = pz.stored[other] /\ (other \in S.failed <=> other \in pz.failed)
      /\ site # NoSite => site \in S.failed \/ S.stored[site] = factor
  <2>1. CASE site = NoSite
    BY <1>1, <1>2, <1>3, <2>1 DEF Persisted
  <2>2. CASE site # NoSite
    <3>1. PICK kept : kept = [pz.stored EXCEPT ![site] = factor]
      OBVIOUS
    <3>2. site \in Sites
      BY <1>4, <2>2
    <3>3. S \in { [pz EXCEPT !.stored[site] = factor, !.failed = @ \ {site}],
                  [pz EXCEPT !.stored[site] = factor, !.failed = @ \cup {site}],
                  [pz EXCEPT !.failed = @ \cup {site}] }
      BY <1>2, <1>3, <2>2 DEF Persisted
    <3>4. [pz EXCEPT !.stored[site] = factor] = [pz EXCEPT !.stored = kept]
      BY <1>1, <3>1 DEF ZoomType
    <3>5. /\ [pz EXCEPT !.stored[site] = factor, !.failed = @ \ {site}]
               = [pz EXCEPT !.stored = kept, !.failed = pz.failed \ {site}]
          /\ [pz EXCEPT !.stored[site] = factor, !.failed = @ \cup {site}]
               = [pz EXCEPT !.stored = kept, !.failed = pz.failed \cup {site}]
          /\ [pz EXCEPT !.failed = @ \cup {site}] = [pz EXCEPT !.stored = pz.stored, !.failed = pz.failed \cup {site}]
      BY <1>1, <3>4 DEF ZoomType
    <3>6. /\ kept \in [Sites -> Int] /\ \A other \in Sites \ {site} : kept[other] = pz.stored[other]
          /\ kept[site] = factor
      BY <1>1, <3>1, <3>2 DEF ZoomType
    <3>7. ASSUME NEW stored \in {pz.stored, kept}, NEW failed \in {pz.failed \ {site}, pz.failed \cup {site}},
                 S = [pz EXCEPT !.stored = stored, !.failed = failed], site \in failed \/ stored = kept
          PROVE  /\ S \in ZoomType /\ S.window = pz.window /\ S.front = pz.front /\ S.site = pz.site
                 /\ S.zoom = pz.zoom /\ S.command = pz.command
                 /\ \A other \in Sites \ {site} :
                      S.stored[other] = pz.stored[other] /\ (other \in S.failed <=> other \in pz.failed)
                 /\ site \in S.failed \/ S.stored[site] = factor
      <4>1. /\ stored \in [Sites -> Int] /\ failed \subseteq Sites
            /\ \A other \in Sites \ {site} : stored[other] = pz.stored[other]
            /\ \A other \in Sites \ {site} : other \in failed <=> other \in pz.failed
            /\ site \in failed \/ stored[site] = factor
        BY <1>1, <3>2, <3>6, <3>7 DEF ZoomType
      <4>2. /\ S.window = pz.window /\ S.front = pz.front /\ S.site = pz.site /\ S.zoom = pz.zoom
            /\ S.command = pz.command /\ S.stored = stored /\ S.failed = failed
        BY <1>1, <3>7 DEF ZoomType
      <4>3. S \in ZoomType
        BY <1>1, <3>7, <4>1 DEF ZoomType
      <4> QED BY <4>1, <4>2, <4>3
    <3>8. CASE S = [pz EXCEPT !.stored = kept, !.failed = pz.failed \ {site}]
      BY <3>7, <3>8
    <3>9. CASE S = [pz EXCEPT !.stored = kept, !.failed = pz.failed \cup {site}]
      BY <3>7, <3>9
    <3>10. CASE S = [pz EXCEPT !.stored = pz.stored, !.failed = pz.failed \cup {site}]
      <4>1. site \in pz.failed \cup {site}
        OBVIOUS
      <4> QED BY <3>7, <3>10, <4>1
    <3> QED BY <3>3, <3>5, <3>8, <3>9, <3>10
  <2> QED BY <2>1, <2>2
<1>6. PICK zooms : zooms = [tab \in ZoomTabs |-> IF tab \in Affected(t) THEN factor ELSE pz.zoom[tab]]
  OBVIOUS
<1>7. /\ zooms \in [ZoomTabs -> Int]
      /\ \A tab \in ZoomTabs : zooms[tab] = IF tab \in Affected(t) THEN factor ELSE pz.zoom[tab]
  BY <1>1, <1>6 DEF ZoomType
<1>8. PICK Z : Z = [S EXCEPT !.zoom = zooms]
  OBVIOUS
<1>9. Z \in ZoomType
  BY <1>5, <1>7, <1>8 DEF ZoomType
<1>10. /\ Z.window = S.window /\ Z.front = S.front /\ Z.site = S.site /\ Z.zoom = zooms /\ Z.stored = S.stored
       /\ Z.failed = S.failed /\ Z.command = S.command
  BY <1>5, <1>8 DEF ZoomType
<1>11. PICK windows : windows = IF site = NoSite THEN { pz.window[t] } ELSE ZoomWindows
  OBVIOUS
<1>12. Zoomed(UpdateZoomActions(Z, windows))
  <2>1. [S EXCEPT !.zoom = [tab \in ZoomTabs |-> IF tab \in Affected(t) THEN factor ELSE @[tab]]] = Z
    BY <1>5, <1>6, <1>8
  <2> QED BY <1>2, <1>3, <1>11, <2>1
<1>13. FrontsAreThere(Z)
  BY <1>1, <1>5, <1>10 DEF FrontsAreThere
<1>14. ZoomIsStored(Z)
  <2> SUFFICES ASSUME NEW tab \in ZoomTabs, Z.site[tab] \notin Z.failed \cup {NoSite}
               PROVE  Z.zoom[tab] = Z.stored[Z.site[tab]]
    BY DEF ZoomIsStored
  <2>1. pz.site[tab] \in Sites /\ pz.site[tab] \notin S.failed
    BY <1>1, <1>5, <1>10 DEF ZoomType
  <2>2. CASE pz.site[tab] = site
    <3>1. tab \in Affected(t)
      BY <1>3, <2>1, <2>2, ZoomAssumption DEF Affected
    <3> QED BY <1>5, <1>7, <1>10, <2>1, <2>2, <3>1, ZoomAssumption
  <2>3. CASE pz.site[tab] # site
    <3>1. tab \notin Affected(t)
      BY <1>1, <1>3, <2>1, <2>3, ZoomAssumption DEF Affected
    <3> QED BY <1>1, <1>5, <1>7, <1>10, <2>1, <2>3, <3>1 DEF ZoomIsStored
  <2> QED BY <2>2, <2>3
<1>15. \A w \in ZoomWindows \ windows : CommandShows(Z, w)
  <2> SUFFICES ASSUME NEW w \in ZoomWindows \ windows PROVE CommandShows(Z, w)
    OBVIOUS
  <2>1. site = NoSite /\ w # pz.window[t]
    BY <1>11
  <2>2. pz.front[w] \in ZoomTabs /\ pz.window[pz.front[w]] = w
    BY <1>1 DEF ZoomType, FrontsAreThere
  <2>3. pz.front[w] \notin Affected(t)
    BY <1>3, <2>1, <2>2 DEF Affected
  <2> QED BY <1>1, <1>5, <1>7, <1>10, <2>2, <2>3 DEF CommandShows
<1> QED BY <1>9, <1>12, <1>13, <1>14, <1>15, ActionsKeepZoom, ZoomedKeeps

(***************************************************************************)
(* Tabs of one site have its stored zoom, and no window shows another      *)
(* page's.                                                                 *)
(***************************************************************************)
LEMMA ZoomInvariance == PzInit /\ [][PzNext]_pzVars => []ZoomAgrees
<1>1. PzInit => ZoomInv(pz)
  <2> SUFFICES ASSUME PzInit PROVE ZoomInv(pz)
    OBVIOUS
  <2>1. PICK window \in [ZoomTabs -> ZoomWindows] :
          /\ \A w \in ZoomWindows : \E t \in ZoomTabs : window[t] = w
          /\ pz = [window |-> window, front |-> [w \in ZoomWindows |-> CHOOSE t \in ZoomTabs : window[t] = w],
                   site |-> [t \in ZoomTabs |-> NoSite], zoom |-> [t \in ZoomTabs |-> DefaultZoom],
                   stored |-> [s \in Sites |-> DefaultZoom], failed |-> {},
                   active |-> window[CHOOSE t \in ZoomTabs : TRUE],
                   command |-> [w \in ZoomWindows |-> DefaultZoom], events |-> 0]
    BY DEF PzInit
  <2>2. \A w \in ZoomWindows : LET t == CHOOSE t \in ZoomTabs : window[t] = w IN t \in ZoomTabs /\ window[t] = w
    BY <2>1
  <2>3. (CHOOSE t \in ZoomTabs : TRUE) \in ZoomTabs
    BY ZoomAssumption
  <2>4. PICK front : front = [w \in ZoomWindows |-> CHOOSE t \in ZoomTabs : window[t] = w]
    OBVIOUS
  <2>5. front \in [ZoomWindows -> ZoomTabs] /\ \A w \in ZoomWindows : window[front[w]] = w
    BY <2>2, <2>4
  <2>6. PICK active : active = window[CHOOSE t \in ZoomTabs : TRUE]
    OBVIOUS
  <2>7. active \in ZoomWindows
    BY <2>3, <2>6
  <2>8. pz = [window |-> window, front |-> front,
              site |-> [t \in ZoomTabs |-> NoSite], zoom |-> [t \in ZoomTabs |-> DefaultZoom],
              stored |-> [s \in Sites |-> DefaultZoom], failed |-> {}, active |-> active,
              command |-> [w \in ZoomWindows |-> DefaultZoom], events |-> 0]
    BY <2>1, <2>4, <2>6
  <2>9. pz \in ZoomType
    BY <2>5, <2>7, <2>8 DEF ZoomType, DefaultZoom
  <2>10. pz.window = window /\ pz.front = front
    BY <2>8
  <2>11. /\ \A t \in ZoomTabs : pz.site[t] = NoSite /\ pz.zoom[t] = DefaultZoom
         /\ \A w \in ZoomWindows : pz.command[w] = DefaultZoom
    BY <2>8
  <2>12. ZoomIsStored(pz) /\ FrontsAreThere(pz)
    BY <2>5, <2>10, <2>11 DEF ZoomIsStored, FrontsAreThere
  <2>13. \A w \in ZoomWindows : CommandShows(pz, w)
    BY <2>5, <2>10, <2>11 DEF CommandShows
  <2> QED BY <2>9, <2>12, <2>13 DEF ZoomInv
<1>2. ZoomInv(pz) /\ [PzNext]_pzVars => ZoomInv(pz)'
  <2> SUFFICES ASSUME ZoomInv(pz), [PzNext]_pzVars PROVE ZoomInv(pz')
    BY DEF ZoomInv, FrontsAreThere, ZoomIsStored, CommandShows
  <2>1. pz \in ZoomType
    BY DEF ZoomInv
  <2>2. Target \in ZoomTabs
    BY <2>1 DEF Target, ZoomType
  <2>3. ASSUME ChangePageZoomBySteps PROVE ZoomInv(pz')
    <3>1. PICK steps \in { -2, -1, 1, 2 } : SetPageZoom(Target, NextPageZoom(pz.zoom[Target], steps))
      BY <2>3 DEF ChangePageZoomBySteps
    <3>2. NextPageZoom(pz.zoom[Target], steps) \in Int
      BY <2>1, <2>2 DEF ZoomType, NextPageZoom, MinimumZoom, MaximumZoom
    <3> QED BY <2>2, <3>1, <3>2, SetZoomKeeps
  <2>4. ASSUME ResetPageZoom PROVE ZoomInv(pz')
    BY <2>2, <2>4, SetZoomKeeps DEF ResetPageZoom, DefaultZoom
  <2>5. ASSUME ActivateWindow PROVE ZoomInv(pz')
    <3>1. PICK w \in ZoomWindows : Zoomed([pz EXCEPT !.active = w])
      BY <2>5 DEF ActivateWindow
    <3>2. PICK S : S = [pz EXCEPT !.active = w]
      OBVIOUS
    <3>3. S \in ZoomType
      BY <2>1, <3>2 DEF ZoomType
    <3>4. /\ S.window = pz.window /\ S.front = pz.front /\ S.site = pz.site /\ S.zoom = pz.zoom
          /\ S.stored = pz.stored /\ S.failed = pz.failed /\ S.command = pz.command
      BY <2>1, <3>2 DEF ZoomType
    <3>5. ZoomInv(S)
      BY <3>3, <3>4 DEF ZoomInv, FrontsAreThere, ZoomIsStored, CommandShows
    <3> QED BY <3>1, <3>2, <3>5, ZoomedKeeps
  <2>6. CASE UNCHANGED pzVars
    BY <2>6 DEF pzVars
  <2> QED BY <2>3, <2>4, <2>5, <2>6, ZoomUrlStep, FrontStep DEF PzNext
<1>3. ZoomInv(pz) => ZoomAgrees
  BY DEF ZoomInv, ZoomIsStored, CommandShows, ZoomAgrees
<1> QED BY <1>1, <1>2, <1>3, PTL

----------------------------------------------------------------------------
(***************************************************************************)
(* The strip of tabs.  OneRun, a tab's width is held exactly while one     *)
(* animation of it runs; EndsAtWidth, and that one ends at the tab's       *)
(* width.  Drawn leaves out where the animations end, which                *)
(* updateTabWidths sets anew.                                              *)
(***************************************************************************)
StripType ==
  [tabs : SUBSET StripTabs, unopened : SUBSET StripTabs, pinned : SUBSET StripTabs, available : Nat, regular : Nat,
   opening : [StripTabs -> Nat], pinning : [StripTabs -> Nat], closing : SUBSET StripTabs, held : SUBSET StripTabs,
   minimum : Nat, heldMinimum : BOOLEAN, events : Nat]

TabsAreThere(S) ==
  /\ S \in StripType /\ IsFiniteSet(S.tabs)
  /\ S.pinned \subseteq S.tabs /\ S.unopened \cap S.tabs = {} /\ S.regular # 0

OneRun(S, t) ==
  /\ t \in S.held <=> S.opening[t] # 0 \/ S.pinning[t] # 0 \/ t \in S.closing
  /\ S.opening[t] = 0 \/ S.pinning[t] = 0
  /\ t \in S.closing => S.opening[t] = 0 /\ S.pinning[t] = 0
  /\ t \in S.held => t \in S.tabs

EndsAtWidth(S, t) == S.opening[t] \in {0, NaturalWidth(S, t)} /\ S.pinning[t] \in {0, NaturalWidth(S, t)}

MinimumRuns(S) == S.heldMinimum <=> S.minimum # 0

Drawn(S) == TabsAreThere(S) /\ (\A t \in StripTabs : OneRun(S, t)) /\ MinimumRuns(S)

StripInv(S) == Drawn(S) /\ (\A t \in StripTabs : EndsAtWidth(S, t)) /\ S.minimum \in {0, NaturalMinimum(S)}

\* There is a width to end at, and one to hold the bar at.
LEMMA WidthsArePositive ==
  ASSUME NEW S, TabsAreThere(S)
  PROVE  /\ NaturalMinimum(S) \in Nat \ {0}
         /\ \A t : NaturalWidth(S, t) \in Nat \ {0}
<1>1. S.tabs # {} => Cardinality(S.tabs) \in Nat \ {0}
  BY FS_EmptySet, FS_CardinalityType DEF TabsAreThere
<1>2. NaturalMinimum(S) \in Nat \ {0}
  BY <1>1 DEF NaturalMinimum, Least, BarMinimum, PinnedTabWidth
<1>3. S.regular \in Nat \ {0}
  BY DEF TabsAreThere, StripType
<1> QED BY <1>2, <1>3 DEF NaturalWidth, PinnedTabWidth

\* updateTabWidths makes every animation end where its tab belongs, and starts or ends none.
LEMMA UpdateWidths ==
  ASSUME NEW S, Drawn(S)
  PROVE  LET U == UpdateTabWidths(S)
         IN  /\ StripInv(U)
             /\ U.tabs = S.tabs /\ U.unopened = S.unopened /\ U.pinned = S.pinned /\ U.closing = S.closing
             /\ U.held = S.held /\ U.available = S.available /\ U.events = S.events
             /\ \A t \in StripTabs : (U.opening[t] = 0 <=> S.opening[t] = 0) /\ (U.pinning[t] = 0 <=> S.pinning[t] = 0)
             /\ U.minimum = 0 <=> S.minimum = 0
<1> DEFINE pinned == Cardinality(S.pinned)
           regular == Cardinality(S.tabs) - pinned
<1>1. PICK width : width = IF regular = 0 THEN RegularTabMaximumWidth
                           ELSE Clamp((S.available - Least(pinned * PinnedTabWidth, S.available)) \div regular,
                                      RegularTabMinimumWidth, RegularTabMaximumWidth)
  OBVIOUS
<1>2. S \in StripType /\ TabsAreThere(S)
  BY DEF Drawn, TabsAreThere
<1>3. width \in Nat \ {0}
  <2>1. /\ pinned \in Nat /\ Cardinality(S.tabs) \in Nat /\ pinned <= Cardinality(S.tabs)
        /\ IsFiniteSet(S.pinned)
    BY <1>2, FS_Subset, FS_CardinalityType DEF TabsAreThere
  <2>2. regular \in Nat
    BY <2>1
  <2>3. S.available - Least(pinned * PinnedTabWidth, S.available) \in Int
    <3>1. S.available \in Nat
      BY <1>2 DEF StripType
    <3> QED BY <2>1, <3>1 DEF Least, PinnedTabWidth
  <2>4. regular # 0 => (S.available - Least(pinned * PinnedTabWidth, S.available)) \div regular \in Int
    BY <2>2, <2>3
  <2> HIDE DEF regular, pinned
  <2> QED BY <1>1, <2>4 DEF Clamp, Least, RegularTabMinimumWidth, RegularTabMaximumWidth
<1>4. PICK N : N = [S EXCEPT !.regular = width]
  OBVIOUS
<1>5. N \in StripType
  BY <1>2, <1>3, <1>4 DEF StripType
<1>6. /\ N.tabs = S.tabs /\ N.unopened = S.unopened /\ N.pinned = S.pinned /\ N.closing = S.closing
      /\ N.held = S.held /\ N.available = S.available /\ N.events = S.events /\ N.regular = width
      /\ N.opening = S.opening /\ N.pinning = S.pinning /\ N.minimum = S.minimum
  BY <1>2, <1>4 DEF StripType
<1>7. N.heldMinimum <=> S.heldMinimum
  BY <1>2, <1>4, Zenon DEF StripType
<1>8. TabsAreThere(N)
  BY <1>2, <1>3, <1>5, <1>6 DEF TabsAreThere
<1>9. PICK opening, pinning : opening = Retargeted(N, N.opening) /\ pinning = Retargeted(N, N.pinning)
  OBVIOUS
<1>10. PICK minimum : minimum = IF N.minimum = 0 THEN 0 ELSE NaturalMinimum(N)
  OBVIOUS
<1>11. PICK U : U = UpdateTabWidths(S)
  OBVIOUS
<1>12. U = [N EXCEPT !.opening = opening, !.pinning = pinning, !.minimum = minimum]
  <2>1. UpdateTabWidths(S) = [N EXCEPT !.opening = Retargeted(N, @), !.pinning = Retargeted(N, @),
                                       !.minimum = IF @ = 0 THEN 0 ELSE NaturalMinimum(N)]
    BY <1>1, <1>4, Zenon DEF UpdateTabWidths
  <2>2. [N EXCEPT !.opening = Retargeted(N, @), !.pinning = Retargeted(N, @),
                  !.minimum = IF @ = 0 THEN 0 ELSE NaturalMinimum(N)]
         = [N EXCEPT !.opening = opening, !.pinning = pinning, !.minimum = minimum]
    BY <1>5, <1>9, <1>10, SMTT(30) DEF StripType
  <2> QED BY <1>11, <2>1, <2>2
<1>13. \A t : NaturalWidth(N, t) \in Nat \ {0}
  BY <1>8, WidthsArePositive
<1>14. /\ opening \in [StripTabs -> Nat] /\ pinning \in [StripTabs -> Nat] /\ minimum \in Nat
       /\ \A t \in StripTabs : opening[t] = IF S.opening[t] = 0 THEN 0 ELSE NaturalWidth(N, t)
       /\ \A t \in StripTabs : pinning[t] = IF S.pinning[t] = 0 THEN 0 ELSE NaturalWidth(N, t)
  <2>1. /\ \A t \in StripTabs : opening[t] = IF S.opening[t] = 0 THEN 0 ELSE NaturalWidth(N, t)
        /\ \A t \in StripTabs : pinning[t] = IF S.pinning[t] = 0 THEN 0 ELSE NaturalWidth(N, t)
        /\ opening = [t \in StripTabs |-> opening[t]] /\ pinning = [t \in StripTabs |-> pinning[t]]
    BY <1>6, <1>9 DEF Retargeted
  <2>2. minimum \in Nat
    BY <1>8, <1>10, WidthsArePositive
  <2> QED BY <1>13, <2>1, <2>2
<1>15. U \in StripType
  BY <1>5, <1>12, <1>14 DEF StripType
<1>16. /\ U.tabs = S.tabs /\ U.unopened = S.unopened /\ U.pinned = S.pinned /\ U.closing = S.closing
       /\ U.held = S.held /\ U.available = S.available /\ U.events = S.events /\ U.regular = width
       /\ U.opening = opening /\ U.pinning = pinning /\ U.minimum = minimum
  BY <1>5, <1>6, <1>12 DEF StripType
<1>17. U.heldMinimum <=> S.heldMinimum
  <2>1. U.heldMinimum <=> N.heldMinimum
    BY <1>5, <1>12, Zenon DEF StripType
  <2> QED BY <1>7, <2>1
<1>18. NaturalMinimum(U) = NaturalMinimum(N) /\ \A t : NaturalWidth(U, t) = NaturalWidth(N, t)
  BY <1>6, <1>16 DEF NaturalMinimum, NaturalWidth
<1>19. U.minimum \in {0, NaturalMinimum(U)} /\ (U.minimum = 0 <=> S.minimum = 0)
  BY <1>6, <1>8, <1>10, <1>16, <1>18, WidthsArePositive
<1>20. \A t \in StripTabs : (U.opening[t] = 0 <=> S.opening[t] = 0) /\ (U.pinning[t] = 0 <=> S.pinning[t] = 0)
  BY <1>13, <1>14, <1>16
<1>21. \A t \in StripTabs : EndsAtWidth(U, t)
  BY <1>14, <1>16, <1>18 DEF EndsAtWidth
<1>22. TabsAreThere(U)
  BY <1>2, <1>3, <1>15, <1>16 DEF TabsAreThere
<1>23. \A t \in StripTabs : OneRun(U, t)
  BY <1>16, <1>20 DEF OneRun, Drawn
<1>24. MinimumRuns(U)
  BY <1>17, <1>19 DEF MinimumRuns, Drawn
<1>25. StripInv(U)
  BY <1>19, <1>21, <1>22, <1>23, <1>24 DEF StripInv, Drawn
<1> QED BY <1>11, <1>16, <1>19, <1>20, <1>25

\* Of a drawn strip the run of one tab is changed, and with it the tab's hold; no width changes.
LEMMA TabRuns ==
  ASSUME NEW S \in StripType, NEW D \in StripType, Drawn(D), NEW t \in D.tabs,
         S.tabs = D.tabs, S.unopened = D.unopened, S.pinned \subseteq D.tabs, S.regular = D.regular,
         MinimumRuns(S), OneRun(S, t),
         \A tab \in StripTabs \ {t} : /\ S.opening[tab] = D.opening[tab] /\ S.pinning[tab] = D.pinning[tab]
                                    /\ (tab \in S.closing <=> tab \in D.closing) /\ (tab \in S.held <=> tab \in D.held)
  PROVE  Drawn(S)
<1>1. TabsAreThere(S)
  BY DEF Drawn, TabsAreThere
<1>2. \A tab \in StripTabs : OneRun(S, tab)
  BY DEF Drawn, OneRun
<1> QED BY <1>1, <1>2 DEF Drawn

\* A stopped animation of a tab leaves the others.
LEMMA StoppedTab ==
  ASSUME NEW S \in StripType, NEW t \in StripTabs
  PROVE  LET D == Stopped(S, t)
         IN  /\ D \in StripType
             /\ D.tabs = S.tabs /\ D.unopened = S.unopened /\ D.pinned = S.pinned /\ D.available = S.available
             /\ D.regular = S.regular /\ D.closing = S.closing /\ D.held = S.held /\ D.minimum = S.minimum
             /\ D.events = S.events /\ (D.heldMinimum <=> S.heldMinimum)
             /\ D.opening[t] = 0 /\ D.pinning[t] = 0
             /\ \A tab \in StripTabs \ {t} : D.opening[tab] = S.opening[tab] /\ D.pinning[tab] = S.pinning[tab]
<1>1. PICK opening, pinning : opening = [S.opening EXCEPT ![t] = 0] /\ pinning = [S.pinning EXCEPT ![t] = 0]
  OBVIOUS
<1>2. /\ opening \in [StripTabs -> Nat] /\ pinning \in [StripTabs -> Nat] /\ opening[t] = 0 /\ pinning[t] = 0
      /\ \A tab \in StripTabs \ {t} : opening[tab] = S.opening[tab] /\ pinning[tab] = S.pinning[tab]
  BY <1>1 DEF StripType
<1>3. PICK D : D = [S EXCEPT !.opening = opening, !.pinning = pinning]
  OBVIOUS
<1>4. Stopped(S, t) = D
  BY <1>1, <1>3 DEF Stopped, StripType
<1>5. D \in StripType
  BY <1>2, <1>3 DEF StripType
<1>6. D.heldMinimum <=> S.heldMinimum
  BY <1>3, Zenon DEF StripType
<1>7. /\ D.tabs = S.tabs /\ D.unopened = S.unopened /\ D.pinned = S.pinned /\ D.available = S.available
      /\ D.regular = S.regular /\ D.closing = S.closing /\ D.held = S.held /\ D.minimum = S.minimum
      /\ D.events = S.events /\ D.opening = opening /\ D.pinning = pinning
  BY <1>3 DEF StripType
<1> QED BY <1>2, <1>4, <1>5, <1>6, <1>7

LEMMA OpenStripStep ==
  ASSUME StripInv(sp), OpenTabInStrip
  PROVE  StripInv(sp')
<1>1. sp \in StripType /\ TabsAreThere(sp) /\ MinimumRuns(sp) /\ \A t \in StripTabs : OneRun(sp, t)
  BY DEF StripInv, Drawn, TabsAreThere
<1> DEFINE opened(t, pinned) == [sp EXCEPT !.unopened = @ \ {t}, !.tabs = @ \cup {t},
                                           !.pinned = IF pinned THEN @ \cup {t} ELSE @]
<1>2. PICK t \in sp.unopened, pinned \in BOOLEAN, animated \in BOOLEAN :
        SpIs(IF animated THEN AnimateTabOpening(UpdateTabWidths(opened(t, pinned)), t)
             ELSE UpdateTabWidths(opened(t, pinned)))
  BY Zenon DEF OpenTabInStrip
<1>3. t \in StripTabs /\ t \notin sp.tabs
  BY <1>1 DEF StripType, TabsAreThere
<1>4. PICK pins : pins = IF pinned THEN sp.pinned \cup {t} ELSE sp.pinned
  OBVIOUS
<1>5. PICK S : S = [sp EXCEPT !.unopened = @ \ {t}, !.tabs = @ \cup {t}, !.pinned = pins]
  OBVIOUS
<1>6. opened(t, pinned) = S
  BY <1>1, <1>4, <1>5 DEF StripType
<1>7. pins \subseteq sp.tabs \cup {t}
  BY <1>1, <1>4 DEF TabsAreThere
<1>8. S \in StripType
  BY <1>1, <1>3, <1>5, <1>7 DEF StripType
<1>9. /\ S.tabs = sp.tabs \cup {t} /\ S.unopened = sp.unopened \ {t} /\ S.pinned = pins /\ S.regular = sp.regular
      /\ S.opening = sp.opening /\ S.pinning = sp.pinning /\ S.closing = sp.closing /\ S.held = sp.held
      /\ S.minimum = sp.minimum
  BY <1>1, <1>5 DEF StripType
<1>10. S.heldMinimum <=> sp.heldMinimum
  BY <1>1, <1>5, Zenon DEF StripType
<1> HIDE DEF opened
<1>11. Drawn(S)
  <2>1. TabsAreThere(S)
    <3>1. IsFiniteSet(sp.tabs \cup {t})
      BY <1>1, FS_AddElement DEF TabsAreThere
    <3> QED BY <1>1, <1>7, <1>8, <1>9, <3>1 DEF TabsAreThere
  <2>2. \A tab \in StripTabs : OneRun(S, tab)
    BY <1>1, <1>9 DEF OneRun
  <2>3. MinimumRuns(S)
    BY <1>1, <1>9, <1>10 DEF MinimumRuns
  <2> QED BY <2>1, <2>2, <2>3 DEF Drawn
<1>12. PICK U : U = UpdateTabWidths(S)
  OBVIOUS
<1>13. /\ StripInv(U) /\ U.tabs = S.tabs /\ U.held = S.held /\ U.closing = S.closing
       /\ (U.opening[t] = 0 <=> S.opening[t] = 0) /\ (U.pinning[t] = 0 <=> S.pinning[t] = 0)
  BY <1>3, <1>11, <1>12, UpdateWidths
<1>14. CASE ~animated
  BY <1>2, <1>6, <1>12, <1>13, <1>14 DEF SpIs
<1>15. CASE animated
  <2>1. U \in StripType /\ Drawn(U) /\ TabsAreThere(U)
    BY <1>13 DEF StripInv, Drawn, TabsAreThere
  <2>2. PICK opening : opening = [U.opening EXCEPT ![t] = NaturalWidth(U, t)]
    OBVIOUS
  <2>3. NaturalWidth(U, t) \in Nat \ {0}
    BY <2>1, WidthsArePositive
  <2>4. /\ opening \in [StripTabs -> Nat] /\ opening[t] = NaturalWidth(U, t)
        /\ \A tab \in StripTabs \ {t} : opening[tab] = U.opening[tab]
    BY <1>3, <2>1, <2>2, <2>3 DEF StripType
  <2>5. PICK A : A = [U EXCEPT !.opening = opening, !.held = @ \cup {t}]
    OBVIOUS
  <2>6. sp' = A
    <3>1. AnimateTabOpening(U, t) = A
      BY <2>1, <2>2, <2>5 DEF AnimateTabOpening, StripType
    <3> QED BY <1>2, <1>6, <1>12, <1>15, <3>1 DEF SpIs
  <2>7. A \in StripType
    BY <1>3, <2>1, <2>4, <2>5 DEF StripType
  <2>8. /\ A.tabs = U.tabs /\ A.unopened = U.unopened /\ A.pinned = U.pinned /\ A.regular = U.regular
        /\ A.opening = opening /\ A.pinning = U.pinning /\ A.closing = U.closing /\ A.held = U.held \cup {t}
        /\ A.minimum = U.minimum
    BY <2>1, <2>5 DEF StripType
  <2>9. A.heldMinimum <=> U.heldMinimum
    BY <2>1, <2>5, Zenon DEF StripType
  <2>10. U.opening[t] = 0 /\ U.pinning[t] = 0 /\ t \notin U.closing /\ t \in U.tabs
    BY <1>1, <1>3, <1>9, <1>13 DEF OneRun
  <2>11. OneRun(A, t)
    BY <2>3, <2>4, <2>8, <2>10 DEF OneRun
  <2>12. A.pinned \subseteq U.tabs
    BY <2>1, <2>8 DEF TabsAreThere
  <2>13. Drawn(A)
    <3>1. MinimumRuns(A)
      BY <2>1, <2>8, <2>9 DEF Drawn, MinimumRuns
    <3> QED BY <3>1, <2>1, <2>4, <2>7, <2>8, <2>9, <2>10, <2>11, <2>12, TabRuns
  <2>14. NaturalMinimum(A) = NaturalMinimum(U) /\ \A tab : NaturalWidth(A, tab) = NaturalWidth(U, tab)
    BY <2>8 DEF NaturalMinimum, NaturalWidth
  <2>15. \A tab \in StripTabs : EndsAtWidth(A, tab)
    BY <1>13, <2>4, <2>8, <2>10, <2>14 DEF StripInv, EndsAtWidth
  <2> QED BY <1>13, <2>6, <2>8, <2>13, <2>14, <2>15 DEF StripInv
<1> QED BY <1>14, <1>15

\* A tab without an opening or pinning animation can go; the widths follow.
LEMMA RemovedTab ==
  ASSUME NEW S \in StripType, NEW t \in S.tabs, TabsAreThere(S), MinimumRuns(S),
         S.opening[t] = 0, S.pinning[t] = 0, \A tab \in StripTabs \ {t} : OneRun(S, tab)
  PROVE  StripInv(TabRemoved(S, t))
<1>1. PICK R : R = [S EXCEPT !.tabs = @ \ {t}, !.pinned = @ \ {t}, !.closing = @ \ {t}, !.held = @ \ {t}]
  OBVIOUS
<1>2. R \in StripType
  BY <1>1 DEF StripType
<1>3. /\ R.tabs = S.tabs \ {t} /\ R.unopened = S.unopened /\ R.pinned = S.pinned \ {t} /\ R.regular = S.regular
      /\ R.opening = S.opening /\ R.pinning = S.pinning /\ R.closing = S.closing \ {t} /\ R.held = S.held \ {t}
      /\ R.minimum = S.minimum
  BY <1>1 DEF StripType
<1>4. R.heldMinimum <=> S.heldMinimum
  BY <1>1, Zenon DEF StripType
<1>5. IsFiniteSet(S.tabs \ {t})
  BY FS_RemoveElement DEF TabsAreThere
<1>6. TabsAreThere(R)
  BY <1>2, <1>3, <1>5 DEF TabsAreThere
<1>7. \A tab \in StripTabs : OneRun(R, tab)
  BY <1>3 DEF OneRun
<1>8. MinimumRuns(R)
  BY <1>3, <1>4 DEF MinimumRuns
<1>9. TabRemoved(S, t) = UpdateTabWidths(R)
  BY <1>1 DEF TabRemoved
<1> QED BY <1>6, <1>7, <1>8, <1>9, UpdateWidths DEF Drawn

LEMMA CloseStripSteps ==
  ASSUME StripInv(sp), CloseTabInStrip \/ ClosingFinished
  PROVE  StripInv(sp')
<1>1. sp \in StripType /\ TabsAreThere(sp) /\ MinimumRuns(sp) /\ Drawn(sp) /\ \A t \in StripTabs : OneRun(sp, t)
  BY DEF StripInv, Drawn, TabsAreThere
<1>2. ASSUME ClosingFinished PROVE StripInv(sp')
  <2>1. PICK t \in sp.closing : sp' = TabRemoved(sp, t)
    BY <1>2 DEF ClosingFinished, SpIs
  <2>2. t \in StripTabs
    BY <1>1 DEF StripType
  <2>3. t \in sp.tabs /\ sp.opening[t] = 0 /\ sp.pinning[t] = 0
    BY <1>1, <2>1, <2>2 DEF OneRun
  <2> QED BY <1>1, <2>1, <2>3, RemovedTab
<1>3. ASSUME CloseTabInStrip PROVE StripInv(sp')
  <2>1. PICK t \in sp.tabs \ sp.closing, animated \in BOOLEAN :
          SpIs(IF animated THEN [Stopped(sp, t) EXCEPT !.closing = @ \cup {t}, !.held = @ \cup {t}]
               ELSE TabRemoved(Stopped(sp, t), t))
    BY <1>3, Zenon DEF CloseTabInStrip
  <2>2. t \in StripTabs
    BY <1>1 DEF StripType
  <2>3. PICK S : S = Stopped(sp, t)
    OBVIOUS
  <2>4. /\ S \in StripType
        /\ S.tabs = sp.tabs /\ S.unopened = sp.unopened /\ S.pinned = sp.pinned
        /\ S.regular = sp.regular /\ S.closing = sp.closing /\ S.held = sp.held /\ S.minimum = sp.minimum
        /\ (S.heldMinimum <=> sp.heldMinimum) /\ S.opening[t] = 0 /\ S.pinning[t] = 0
        /\ \A tab \in StripTabs \ {t} : S.opening[tab] = sp.opening[tab] /\ S.pinning[tab] = sp.pinning[tab]
    BY <1>1, <2>2, <2>3, StoppedTab
  <2>5. CASE ~animated
    <3>1. TabsAreThere(S) /\ MinimumRuns(S) /\ \A tab \in StripTabs \ {t} : OneRun(S, tab)
      BY <1>1, <2>4 DEF TabsAreThere, MinimumRuns, OneRun
    <3>2. StripInv(TabRemoved(S, t))
      BY <2>4, <3>1, RemovedTab
    <3> QED BY <2>1, <2>3, <2>5, <3>2 DEF SpIs
  <2>6. CASE animated
    <3>1. PICK C : C = [S EXCEPT !.closing = @ \cup {t}, !.held = @ \cup {t}]
      OBVIOUS
    <3>2. sp' = C
      BY <2>1, <2>3, <2>6, <3>1 DEF SpIs
    <3>3. C \in StripType
      BY <2>2, <2>4, <3>1 DEF StripType
    <3>4. /\ C.tabs = S.tabs /\ C.unopened = S.unopened /\ C.pinned = S.pinned /\ C.regular = S.regular
          /\ C.opening = S.opening /\ C.pinning = S.pinning
          /\ C.closing = S.closing \cup {t} /\ C.held = S.held \cup {t} /\ C.minimum = S.minimum
      BY <2>4, <3>1 DEF StripType
    <3>5. C.heldMinimum <=> S.heldMinimum
      BY <2>4, <3>1, Zenon DEF StripType
    <3>6. OneRun(C, t)
      BY <2>1, <2>4, <3>4 DEF OneRun
    <3>7. C.pinned \subseteq sp.tabs
      BY <1>1, <2>4, <3>4 DEF TabsAreThere
    <3>8. Drawn(C)
      <4>1. MinimumRuns(C)
        BY <1>1, <2>4, <3>4, <3>5 DEF MinimumRuns
      <4> QED BY <4>1, <1>1, <2>1, <2>4, <3>3, <3>4, <3>5, <3>6, <3>7, TabRuns
    <3>9. NaturalMinimum(C) = NaturalMinimum(sp) /\ \A tab : NaturalWidth(C, tab) = NaturalWidth(sp, tab)
      BY <2>4, <3>4 DEF NaturalMinimum, NaturalWidth
    <3>10. \A tab \in StripTabs : EndsAtWidth(C, tab)
      BY <2>4, <3>4, <3>9 DEF StripInv, EndsAtWidth
    <3>11. C.minimum \in {0, NaturalMinimum(C)}
      BY <2>4, <3>4, <3>9 DEF StripInv
    <3> QED BY <3>2, <3>8, <3>10, <3>11 DEF StripInv
  <2> QED BY <2>5, <2>6
<1> QED BY <1>2, <1>3

\* The strip with the animations of one tab at their end.
RunEnded(t, opening, pinning) == [sp EXCEPT !.opening = opening, !.pinning = pinning, !.held = @ \ {t}]

\* An animation of a tab that has ended leaves its width to the number of tabs.
LEMMA RunFinished ==
  ASSUME StripInv(sp), NEW t \in sp.tabs, t \notin sp.closing,
         NEW opening \in [StripTabs -> Nat], NEW pinning \in [StripTabs -> Nat], opening[t] = 0, pinning[t] = 0,
         \A tab \in StripTabs \ {t} : opening[tab] = sp.opening[tab] /\ pinning[tab] = sp.pinning[tab]
  PROVE  StripInv(RunEnded(t, opening, pinning))
<1> DEFINE S == RunEnded(t, opening, pinning)
<1>1. sp \in StripType /\ TabsAreThere(sp) /\ MinimumRuns(sp) /\ Drawn(sp) /\ \A tab \in StripTabs : OneRun(sp, tab)
  BY DEF StripInv, Drawn, TabsAreThere
<1>2. t \in StripTabs
  BY <1>1 DEF StripType
<1>3. S \in StripType
  BY <1>1 DEF StripType, RunEnded
<1>4. /\ S.tabs = sp.tabs /\ S.unopened = sp.unopened /\ S.pinned = sp.pinned /\ S.regular = sp.regular
      /\ S.closing = sp.closing /\ S.held = sp.held \ {t} /\ S.minimum = sp.minimum
      /\ S.opening = opening /\ S.pinning = pinning
  BY <1>1 DEF StripType, RunEnded
<1>5. S.heldMinimum <=> sp.heldMinimum
  BY <1>1, Zenon DEF StripType, RunEnded
<1> HIDE DEF S
<1>6. OneRun(S, t)
  BY <1>4 DEF OneRun
<1>7. S.pinned \subseteq sp.tabs
  BY <1>1, <1>4 DEF TabsAreThere
<1>8. Drawn(S)
  <2>1. \A tab \in StripTabs \ {t} : /\ S.opening[tab] = sp.opening[tab] /\ S.pinning[tab] = sp.pinning[tab]
                                   /\ (tab \in S.closing <=> tab \in sp.closing) /\ (tab \in S.held <=> tab \in sp.held)
    BY <1>4
  <2>2. MinimumRuns(S)
    BY <1>1, <1>4, <1>5 DEF MinimumRuns
  <2> QED BY <1>1, <1>3, <1>4, <1>6, <1>7, <2>1, <2>2, TabRuns
<1>9. NaturalMinimum(S) = NaturalMinimum(sp) /\ \A tab : NaturalWidth(S, tab) = NaturalWidth(sp, tab)
  BY <1>4 DEF NaturalMinimum, NaturalWidth
<1>10. \A tab \in StripTabs : EndsAtWidth(S, tab)
  BY <1>4, <1>9 DEF StripInv, EndsAtWidth
<1>11. StripInv(S)
  BY <1>4, <1>8, <1>9, <1>10 DEF StripInv
<1> QED BY <1>11 DEF S

LEMMA FinishSteps ==
  ASSUME StripInv(sp), OpeningFinished \/ PinningFinished
  PROVE  StripInv(sp')
<1>1. sp \in StripType /\ \A t \in StripTabs : OneRun(sp, t)
  BY DEF StripInv, Drawn, TabsAreThere
<1>2. sp.tabs \subseteq StripTabs /\ sp.opening \in [StripTabs -> Nat] /\ sp.pinning \in [StripTabs -> Nat]
  BY <1>1 DEF StripType
<1>3. CASE OpeningFinished
  <2>1. PICK t \in sp.tabs : sp.opening[t] # 0 /\ sp' = [sp EXCEPT !.opening[t] = 0, !.held = @ \ {t}]
    BY <1>3, Zenon DEF OpeningFinished, SpIs
  <2>2. PICK opening : opening = [sp.opening EXCEPT ![t] = 0]
    OBVIOUS
  <2>3. sp' = RunEnded(t, opening, sp.pinning)
    BY <1>1, <2>1, <2>2 DEF StripType, RunEnded
  <2>4. sp.pinning[t] = 0 /\ t \notin sp.closing
    BY <1>1, <1>2, <2>1 DEF OneRun
  <2>5. /\ opening \in [StripTabs -> Nat] /\ opening[t] = 0
        /\ \A tab \in StripTabs \ {t} : opening[tab] = sp.opening[tab] /\ sp.pinning[tab] = sp.pinning[tab]
    BY <1>2, <2>1, <2>2
  <2> QED BY <1>2, <2>1, <2>3, <2>4, <2>5, RunFinished
<1>4. CASE PinningFinished
  <2>1. PICK t \in sp.tabs :
          sp.pinning[t] # 0 /\ sp' = UpdateTabWidths([sp EXCEPT !.pinning[t] = 0, !.held = @ \ {t}])
    BY <1>4, Zenon DEF PinningFinished, SpIs
  <2>2. PICK pinning : pinning = [sp.pinning EXCEPT ![t] = 0]
    OBVIOUS
  <2>3. [sp EXCEPT !.pinning[t] = 0, !.held = @ \ {t}] = RunEnded(t, sp.opening, pinning)
    BY <1>1, <2>1, <2>2 DEF StripType, RunEnded
  <2>4. sp.opening[t] = 0 /\ t \notin sp.closing
    BY <1>1, <1>2, <2>1 DEF OneRun
  <2>5. /\ pinning \in [StripTabs -> Nat] /\ pinning[t] = 0
        /\ \A tab \in StripTabs \ {t} : sp.opening[tab] = sp.opening[tab] /\ pinning[tab] = sp.pinning[tab]
    BY <1>2, <2>1, <2>2
  <2>6. PICK S : S = [sp EXCEPT !.pinning[t] = 0, !.held = @ \ {t}]
    OBVIOUS
  <2>7. StripInv(S)
    BY <1>2, <2>1, <2>3, <2>4, <2>5, <2>6, RunFinished
  <2> QED BY <2>1, <2>6, <2>7, UpdateWidths DEF StripInv
<1> QED BY <1>3, <1>4

\* The minimum width of the bar is let go.
LEMMA PinningStops ==
  ASSUME NEW S \in StripType
  PROVE  LET P == PinningStopped(S)
         IN  /\ P \in StripType
             /\ P.tabs = S.tabs /\ P.unopened = S.unopened /\ P.pinned = S.pinned /\ P.available = S.available
             /\ P.regular = S.regular /\ P.opening = S.opening /\ P.pinning = S.pinning
             /\ P.closing = S.closing /\ P.held = S.held /\ P.events = S.events
             /\ P.minimum = 0 /\ MinimumRuns(P)
             /\ StripInv(S) => StripInv(P)
<1>1. PICK P : P = [S EXCEPT !.minimum = 0, !.heldMinimum = FALSE]
  OBVIOUS
<1>2. P = PinningStopped(S)
  BY <1>1, Zenon DEF PinningStopped
<1>3. P \in StripType
  BY <1>1 DEF StripType
<1>4. ~P.heldMinimum
  BY <1>1, Zenon DEF StripType
<1>5. /\ P.tabs = S.tabs /\ P.unopened = S.unopened /\ P.pinned = S.pinned /\ P.available = S.available
      /\ P.regular = S.regular /\ P.opening = S.opening /\ P.pinning = S.pinning
      /\ P.closing = S.closing /\ P.held = S.held /\ P.events = S.events /\ P.minimum = 0
  BY <1>1 DEF StripType
<1>6. MinimumRuns(P)
  BY <1>4, <1>5 DEF MinimumRuns
<1>7. ASSUME StripInv(S) PROVE StripInv(P)
  <2>1. Drawn(P)
    BY <1>3, <1>5, <1>6, <1>7 DEF StripInv, Drawn, TabsAreThere, OneRun
  <2>2. \A t \in StripTabs : EndsAtWidth(P, t)
    BY <1>5, <1>7 DEF StripInv, EndsAtWidth, NaturalWidth
  <2> QED BY <1>5, <2>1, <2>2 DEF StripInv
<1> QED BY <1>2, <1>3, <1>5, <1>6, <1>7

LEMMA StripResizeSteps ==
  ASSUME StripInv(sp), PinningMinimumFinished \/ SetAvailableWidth
  PROVE  StripInv(sp')
<1>1. sp \in StripType /\ Drawn(sp)
  BY DEF StripInv, Drawn, TabsAreThere
<1>2. CASE PinningMinimumFinished
  BY <1>1, <1>2, PinningStops DEF PinningMinimumFinished, SpIs
<1>3. CASE SetAvailableWidth
  <2>1. PICK width \in AvailableWidths : sp' = UpdateTabWidths([sp EXCEPT !.available = width, !.events = @ + 1])
    BY <1>3, Zenon DEF SetAvailableWidth, SpIs
  <2>2. PICK S : S = [sp EXCEPT !.available = width, !.events = @ + 1]
    OBVIOUS
  <2>3. S \in StripType
    <3>1. width \in Nat /\ sp.events + 1 \in Nat
      BY <1>1, <2>1, StripAssumption DEF StripType
    <3> QED BY <1>1, <2>2, <3>1 DEF StripType
  <2>4. /\ S.tabs = sp.tabs /\ S.unopened = sp.unopened /\ S.pinned = sp.pinned /\ S.regular = sp.regular
        /\ S.opening = sp.opening /\ S.pinning = sp.pinning /\ S.closing = sp.closing /\ S.held = sp.held
        /\ S.minimum = sp.minimum
    BY <1>1, <2>2 DEF StripType
  <2>5. S.heldMinimum <=> sp.heldMinimum
    BY <1>1, <2>2, Zenon DEF StripType
  <2>6. Drawn(S)
    BY <1>1, <2>3, <2>4, <2>5 DEF Drawn, TabsAreThere, OneRun, MinimumRuns
  <2> QED BY <2>1, <2>2, <2>6, UpdateWidths
<1> QED BY <1>2, <1>3

\* The strip whose tab t is pinned or unpinned, before an animation of that starts.
Flipped(t) ==
  PinningStopped([Stopped(sp, t) EXCEPT !.pinned = IF t \in @ THEN @ \ {t} ELSE @ \cup {t}, !.events = @ + 1])

\* It, with an animation that ends at n, or with none.
FlippedTo(t, n) == [Flipped(t) EXCEPT !.pinning[t] = n, !.held = IF n = 0 THEN @ \ {t} ELSE @ \cup {t}]

LEMMA FlippedRuns ==
  ASSUME StripInv(sp), NEW t \in sp.tabs \ sp.closing, NEW n \in Nat
  PROVE  /\ Flipped(t) \in StripType /\ Flipped(t).pinning[t] = 0
         /\ Drawn(FlippedTo(t, n)) /\ FlippedTo(t, n).minimum = 0 /\ FlippedTo(t, n).pinning[t] = n
<1>1. sp \in StripType /\ TabsAreThere(sp) /\ Drawn(sp) /\ \A tab \in StripTabs : OneRun(sp, tab)
  BY DEF StripInv, Drawn, TabsAreThere
<1>2. t \in StripTabs
  BY <1>1 DEF StripType
<1>3. PICK B : B = Stopped(sp, t)
  OBVIOUS
<1>4. /\ B \in StripType
      /\ B.tabs = sp.tabs /\ B.unopened = sp.unopened /\ B.pinned = sp.pinned
      /\ B.regular = sp.regular /\ B.closing = sp.closing /\ B.held = sp.held
      /\ B.opening[t] = 0 /\ B.pinning[t] = 0
      /\ \A tab \in StripTabs \ {t} : B.opening[tab] = sp.opening[tab] /\ B.pinning[tab] = sp.pinning[tab]
  BY <1>1, <1>2, <1>3, StoppedTab
<1>5. PICK pinned : pinned = IF t \in B.pinned THEN B.pinned \ {t} ELSE B.pinned \cup {t}
  OBVIOUS
<1>6. PICK C : C = [B EXCEPT !.pinned = pinned, !.events = @ + 1]
  OBVIOUS
<1>7. pinned \subseteq sp.tabs /\ pinned \subseteq StripTabs
  BY <1>1, <1>2, <1>4, <1>5 DEF TabsAreThere, StripType
<1>8. B.events \in Nat /\ B.events + 1 \in Nat
  BY <1>4 DEF StripType
<1>9. C \in StripType
  BY <1>4, <1>6, <1>7, <1>8 DEF StripType
<1>10. /\ C.tabs = B.tabs /\ C.unopened = B.unopened /\ C.pinned = pinned /\ C.regular = B.regular
       /\ C.closing = B.closing /\ C.held = B.held /\ C.opening = B.opening /\ C.pinning = B.pinning
  BY <1>4, <1>6 DEF StripType
<1>11. PICK F : F = Flipped(t)
  OBVIOUS
<1>12. F = PinningStopped(C)
  <2>1. [B EXCEPT !.pinned = IF t \in @ THEN @ \ {t} ELSE @ \cup {t}, !.events = @ + 1] = C
    BY <1>4, <1>5, <1>6 DEF StripType
  <2> QED BY <1>3, <1>11, <2>1 DEF Flipped
<1>13. /\ F \in StripType /\ F.tabs = sp.tabs /\ F.unopened = sp.unopened /\ F.pinned = pinned
       /\ F.regular = sp.regular /\ F.opening = B.opening /\ F.pinning = B.pinning
       /\ F.closing = sp.closing /\ F.held = sp.held /\ F.minimum = 0 /\ MinimumRuns(F)
  BY <1>4, <1>9, <1>10, <1>12, PinningStops
<1>14. PICK held, pinning : /\ held = IF n = 0 THEN F.held \ {t} ELSE F.held \cup {t}
                            /\ pinning = [F.pinning EXCEPT ![t] = n]
  OBVIOUS
<1> DEFINE G == [F EXCEPT !.pinning = pinning, !.held = held]
<1>15. /\ pinning \in [StripTabs -> Nat] /\ pinning[t] = n
       /\ \A tab \in StripTabs \ {t} : pinning[tab] = F.pinning[tab]
  BY <1>2, <1>13, <1>14 DEF StripType
<1>16. /\ held \subseteq StripTabs /\ (t \in held <=> n # 0)
       /\ \A tab \in StripTabs \ {t} : tab \in held <=> tab \in F.held
  BY <1>2, <1>13, <1>14 DEF StripType
<1>17. G \in StripType
  BY <1>13, <1>15, <1>16 DEF StripType
<1>18. /\ G.tabs = F.tabs /\ G.unopened = F.unopened /\ G.pinned = F.pinned /\ G.regular = F.regular
       /\ G.opening = F.opening /\ G.pinning = pinning /\ G.closing = F.closing /\ G.held = held
       /\ G.minimum = F.minimum
  BY <1>13 DEF StripType
<1>19. G.heldMinimum <=> F.heldMinimum
  BY <1>13, Zenon DEF StripType
<1> HIDE DEF G
<1>20. MinimumRuns(G)
  BY <1>13, <1>18, <1>19 DEF MinimumRuns
<1>21. OneRun(G, t)
  BY <1>4, <1>13, <1>15, <1>16, <1>18 DEF OneRun
<1>22. \A tab \in StripTabs \ {t} : /\ G.opening[tab] = sp.opening[tab] /\ G.pinning[tab] = sp.pinning[tab]
                                  /\ (tab \in G.closing <=> tab \in sp.closing) /\ (tab \in G.held <=> tab \in sp.held)
  BY <1>4, <1>13, <1>15, <1>16, <1>18
<1>23. Drawn(G)
  <2>1. /\ G.tabs = sp.tabs /\ G.unopened = sp.unopened /\ G.pinned \subseteq sp.tabs /\ G.regular = sp.regular
    BY <1>7, <1>13, <1>18
  <2> QED BY <1>1, <1>17, <1>20, <1>21, <1>22, <2>1, TabRuns
<1>24. FlippedTo(t, n) = G
  BY <1>11, <1>13, <1>14 DEF FlippedTo, G, StripType
<1> QED BY <1>4, <1>11, <1>13, <1>15, <1>18, <1>23, <1>24

LEMMA TogglePinnedStep ==
  ASSUME StripInv(sp), TogglePinned
  PROVE  StripInv(sp')
<1>1. sp \in StripType /\ TabsAreThere(sp)
  BY DEF StripInv, Drawn, TabsAreThere
<1> DEFINE started(t) == UpdateTabWidths([Flipped(t) EXCEPT !.pinning[t] = 1, !.held = @ \cup {t}])
           holding(t, inPlace) == StartPinningMinimum(started(t), inPlace)
<1>2. PICK t \in sp.tabs \ sp.closing, animated, inPlace, minimumInPlace \in BOOLEAN :
        /\ sp.events < MaxStripEvents
        /\ ~sp.heldMinimum => minimumInPlace = (NaturalMinimum(sp) = NaturalMinimum(started(t)))
        /\ SpIs(IF ~animated THEN UpdateTabWidths([Flipped(t) EXCEPT !.held = @ \ {t}])
                ELSE IF inPlace
                THEN UpdateTabWidths([holding(t, minimumInPlace) EXCEPT !.pinning[t] = 0, !.held = @ \ {t}])
                ELSE holding(t, minimumInPlace))
  BY Zenon DEF TogglePinned, Flipped
<1>3. t \in StripTabs
  BY <1>1 DEF StripType
<1>4. PICK F : F = Flipped(t)
  OBVIOUS
<1>5. F \in StripType /\ F.pinning[t] = 0
  BY <1>4, FlippedRuns
<1>6. CASE ~animated
  <2>1. [F EXCEPT !.held = @ \ {t}] = FlippedTo(t, 0)
    BY <1>4, <1>5 DEF FlippedTo, StripType
  <2>2. sp' = UpdateTabWidths(FlippedTo(t, 0))
    BY <1>2, <1>4, <1>6, <2>1 DEF SpIs
  <2> QED BY <2>2, FlippedRuns, UpdateWidths
<1>7. CASE animated
  <2>3. PICK G : G = FlippedTo(t, 1)
    OBVIOUS
  <2>4. Drawn(G) /\ G.minimum = 0 /\ G.pinning[t] = 1
    BY <2>3, FlippedRuns
  <2>5. t \in G.tabs /\ t \notin G.closing
    BY <1>3, <2>4 DEF Drawn, OneRun
  <2>6. PICK P : P = UpdateTabWidths(G)
    OBVIOUS
  <2>7. StripInv(P) /\ P.minimum = 0 /\ P.pinning[t] # 0 /\ t \in P.tabs /\ t \notin P.closing
    BY <1>3, <2>4, <2>5, <2>6, UpdateWidths
  <2>8. P = started(t)
    <3>1. [F EXCEPT !.pinning[t] = 1, !.held = @ \cup {t}] = G
      BY <1>4, <1>5, <2>3 DEF FlippedTo, StripType
    <3> QED BY <1>4, <2>6, <3>1
  <2> HIDE DEF started
  <2>9. P \in StripType /\ TabsAreThere(P)
    BY <2>7 DEF StripInv, Drawn, TabsAreThere
  <2>10. PICK M : M = StartPinningMinimum(P, minimumInPlace)
    OBVIOUS
  <2>11. StripInv(M) /\ M \in StripType /\ M.opening = P.opening /\ M.pinning = P.pinning /\ M.closing = P.closing
    <3>1. CASE minimumInPlace
      <4>1. M = PinningStopped(P)
        BY <2>10, <3>1 DEF StartPinningMinimum
      <4> QED BY <2>7, <2>9, <4>1, PinningStops
    <3>2. CASE ~minimumInPlace
      <4>1. PICK minimum : minimum = NaturalMinimum(P)
        OBVIOUS
      <4>2. M = [P EXCEPT !.minimum = minimum, !.heldMinimum = TRUE]
        BY <2>10, <3>2, <4>1, Zenon DEF StartPinningMinimum
      <4>3. minimum \in Nat \ {0}
        BY <2>9, <4>1, WidthsArePositive
      <4>4. M \in StripType
        BY <2>9, <4>2, <4>3 DEF StripType
      <4>5. /\ M.tabs = P.tabs /\ M.unopened = P.unopened /\ M.pinned = P.pinned /\ M.regular = P.regular
            /\ M.opening = P.opening /\ M.pinning = P.pinning /\ M.closing = P.closing /\ M.held = P.held
            /\ M.minimum = minimum
        BY <2>9, <4>2 DEF StripType
      <4>6. M.heldMinimum
        BY <2>9, <4>2, Zenon DEF StripType
      <4>7. MinimumRuns(M)
        BY <4>3, <4>5, <4>6 DEF MinimumRuns
      <4>8. Drawn(M)
        BY <2>7, <4>4, <4>5, <4>7 DEF StripInv, Drawn, TabsAreThere, OneRun
      <4>9. NaturalMinimum(M) = NaturalMinimum(P) /\ \A tab : NaturalWidth(M, tab) = NaturalWidth(P, tab)
        BY <4>5 DEF NaturalMinimum, NaturalWidth
      <4>10. \A tab \in StripTabs : EndsAtWidth(M, tab)
        BY <2>7, <4>5, <4>9 DEF StripInv, EndsAtWidth
      <4>11. M.minimum \in {0, NaturalMinimum(M)}
        BY <4>1, <4>5, <4>9
      <4> QED BY <4>4, <4>5, <4>8, <4>10, <4>11 DEF StripInv
    <3> QED BY <3>1, <3>2
  <2>12. M = holding(t, minimumInPlace)
    BY <2>8, <2>10
  <2> HIDE DEF holding
  <2>13. CASE ~inPlace
    BY <1>2, <1>7, <2>11, <2>12, <2>13 DEF SpIs
  <2>14. CASE inPlace
    <3>1. sp' = UpdateTabWidths([M EXCEPT !.pinning[t] = 0, !.held = @ \ {t}])
      BY <1>2, <1>7, <2>12, <2>14 DEF SpIs
    <3>2. OneRun(M, t) /\ M.pinning[t] # 0
      BY <1>3, <2>7, <2>11 DEF StripInv, Drawn
    <3>3. PICK over : over = [M.pinning EXCEPT ![t] = 0]
      OBVIOUS
    <3>4. PICK E : E = [M EXCEPT !.pinning = over, !.held = @ \ {t}]
      OBVIOUS
    <3>5. [M EXCEPT !.pinning[t] = 0, !.held = @ \ {t}] = E
      BY <2>11, <3>3, <3>4 DEF StripType
    <3>6. over \in [StripTabs -> Nat] /\ over[t] = 0 /\ \A tab \in StripTabs \ {t} : over[tab] = M.pinning[tab]
      BY <1>3, <2>11, <3>3 DEF StripType
    <3>7. E \in StripType
      BY <2>11, <3>4, <3>6 DEF StripType
    <3>8. /\ E.tabs = M.tabs /\ E.unopened = M.unopened /\ E.pinned = M.pinned /\ E.regular = M.regular
          /\ E.opening = M.opening /\ E.pinning = over /\ E.closing = M.closing /\ E.held = M.held \ {t}
          /\ E.minimum = M.minimum
      BY <2>11, <3>4 DEF StripType
    <3>9. E.heldMinimum <=> M.heldMinimum
      BY <2>11, <3>4, Zenon DEF StripType
    <3>10. \A tab \in StripTabs : OneRun(E, tab)
      BY <2>11, <3>2, <3>6, <3>8 DEF OneRun, StripInv, Drawn
    <3>11. Drawn(E)
      BY <2>11, <3>7, <3>8, <3>9, <3>10 DEF StripInv, Drawn, TabsAreThere, MinimumRuns
    <3> QED BY <3>1, <3>5, <3>11, UpdateWidths
  <2> QED BY <2>13, <2>14
<1> QED BY <1>6, <1>7

(***************************************************************************)
(* The widths of the tabs settle.                                          *)
(***************************************************************************)
LEMMA StripInvariance == SpInit /\ [][SpNext]_spVars => []WidthsSettle
<1>1. SpInit => StripInv(sp)
  <2> SUFFICES ASSUME SpInit PROVE StripInv(sp)
    OBVIOUS
  <2>1. PICK width \in AvailableWidths :
          sp = [tabs |-> {}, unopened |-> StripTabs, pinned |-> {}, available |-> width,
                regular |-> RegularTabMaximumWidth, opening |-> [t \in StripTabs |-> 0],
                pinning |-> [t \in StripTabs |-> 0], closing |-> {}, held |-> {},
                minimum |-> 0, heldMinimum |-> FALSE, events |-> 0]
    BY Zenon DEF SpInit
  <2>2. width \in Nat /\ RegularTabMaximumWidth \in Nat \ {0}
    BY StripAssumption DEF RegularTabMaximumWidth
  <2>3. sp \in StripType
    BY <2>1, <2>2 DEF StripType
  <2>4. ~sp.heldMinimum
    BY <2>1, Zenon
  <2>5. /\ sp.tabs = {} /\ sp.pinned = {} /\ sp.regular = RegularTabMaximumWidth /\ sp.closing = {} /\ sp.held = {}
        /\ sp.minimum = 0 /\ \A t \in StripTabs : sp.opening[t] = 0 /\ sp.pinning[t] = 0
    BY <2>1
  <2>6. Drawn(sp)
    BY <2>2, <2>3, <2>4, <2>5, FS_EmptySet DEF Drawn, TabsAreThere, OneRun, MinimumRuns
  <2> QED BY <2>5, <2>6 DEF StripInv, EndsAtWidth
<1>2. StripInv(sp) /\ [SpNext]_spVars => StripInv(sp)'
  <2>1. StripInv(sp) /\ SpNext => StripInv(sp')
    BY OpenStripStep, TogglePinnedStep, CloseStripSteps, FinishSteps, StripResizeSteps DEF SpNext
  <2>2. StripInv(sp)' <=> StripInv(sp')
    BY DEF StripInv, Drawn, TabsAreThere, OneRun, MinimumRuns, EndsAtWidth, NaturalMinimum, NaturalWidth
  <2> QED BY <2>1, <2>2 DEF spVars
<1>3. StripInv(sp) => WidthsSettle
  <2> SUFFICES ASSUME StripInv(sp) PROVE WidthsSettle
    OBVIOUS
  <2>1. sp \in StripType
    BY DEF StripInv, Drawn, TabsAreThere
  <2>2. sp.heldMinimum = (sp.minimum # 0)
    <3>1. sp.heldMinimum \in BOOLEAN
      BY <2>1 DEF StripType
    <3>2. sp.heldMinimum <=> sp.minimum # 0
      BY DEF StripInv, Drawn, MinimumRuns
    <3> QED BY <3>1, <3>2, Zenon
  <2>3. ASSUME NEW t \in StripTabs
        PROVE  LET runs == << sp.opening[t] # 0, sp.pinning[t] # 0, t \in sp.closing >>
                   running == { i \in 1 .. 3 : runs[i] }
               IN  /\ Cardinality(running) = IF t \in sp.held THEN 1 ELSE 0
                   /\ running # {} => t \in sp.tabs
    <3> DEFINE runs == << sp.opening[t] # 0, sp.pinning[t] # 0, t \in sp.closing >>
               running == { i \in 1 .. 3 : runs[i] }
    <3>1. OneRun(sp, t)
      BY DEF StripInv, Drawn
    <3>2. runs[1] = (sp.opening[t] # 0) /\ runs[2] = (sp.pinning[t] # 0) /\ runs[3] = (t \in sp.closing)
      OBVIOUS
    <3> HIDE DEF runs
    <3>3. running = { i \in {1, 2, 3} : runs[i] }
      OBVIOUS
    <3> HIDE DEF running
    <3>4. ASSUME t \notin sp.held PROVE running = {} /\ Cardinality(running) = 0
      <4>1. running = {}
        BY <3>1, <3>2, <3>3, <3>4 DEF OneRun
      <4> QED BY <4>1, FS_EmptySet
    <3>5. ASSUME t \in sp.held PROVE t \in sp.tabs /\ Cardinality(running) = 1
      <4>1. running = {1} \/ running = {2} \/ running = {3}
        BY <3>1, <3>2, <3>3, <3>5 DEF OneRun
      <4> QED BY <3>1, <3>5, <4>1, FS_Singleton DEF OneRun
    <3>6. Cardinality(running) = (IF t \in sp.held THEN 1 ELSE 0) /\ (running # {} => t \in sp.tabs)
      BY <3>4, <3>5
    <3> QED BY <3>6 DEF runs, running
  <2> QED BY <2>2, <2>3 DEF StripInv, EndsAtWidth, WidthsSettle
<1> QED BY <1>1, <1>2, <1>3, PTL

----------------------------------------------------------------------------
(***************************************************************************)
(* What a window shows follows its pages and tabs.  The parts share no     *)
(* state, so each keeps its invariant in the steps of the others.          *)
(***************************************************************************)
THEOREM WindowsAgree == FairParts => []WindowAgrees
<1>1. FairParts => PtInit /\ [][PtNext]_ptVars
  <2>1. InitParts => PtInit
    BY DEF InitParts
  <2>2. [NextOfPart]_windowVars => [PtNext]_ptVars
    BY DEF NextOfPart, windowVars
  <2> QED BY <2>1, <2>2, PTL DEF FairParts
<1>2. FairParts => PzInit /\ [][PzNext]_pzVars
  <2>1. InitParts => PzInit
    BY DEF InitParts
  <2>2. [NextOfPart]_windowVars => [PzNext]_pzVars
    BY DEF NextOfPart, windowVars
  <2> QED BY <2>1, <2>2, PTL DEF FairParts
<1>3. FairParts => SpInit /\ [][SpNext]_spVars
  <2>1. InitParts => SpInit
    BY DEF InitParts
  <2>2. [NextOfPart]_windowVars => [SpNext]_spVars
    BY DEF NextOfPart, windowVars
  <2> QED BY <2>1, <2>2, PTL DEF FairParts
<1>4. ToolsFollowPage /\ ZoomAgrees /\ WidthsSettle => WindowAgrees
  BY Zenon DEF WindowAgrees
<1> QED BY <1>1, <1>2, <1>3, <1>4, ToolsInvariance, ZoomInvariance, StripInvariance, PTL

----------------------------------------------------------------------------
(***************************************************************************)
(* Sequences without repetition, and what is drawn from them in their      *)
(* order.                                                                  *)
(***************************************************************************)
Once(s) == \A i, j \in 1 .. Len(s) : s[i] = s[j] => i = j

Has(s, A) == \A t : t \in A <=> \E i \in 1 .. Len(s) : s[i] = t

InOrderOf(s, z) == \A n, l \in 1 .. Len(z) : n < l => Position(s, z[n]) < Position(s, z[l])

LEMMA PositionIs ==
  ASSUME NEW R, NEW s \in Seq(R), Once(s), NEW i \in 1 .. Len(s)
  PROVE  Position(s, s[i]) = i
<1>1. i \in DOMAIN s /\ \A j \in DOMAIN s : s[j] = s[i] => j = i
  BY DEF Once
<1>2. (CHOOSE j \in DOMAIN s : s[j] = s[i]) = i
  BY <1>1
<1> QED BY <1>2 DEF Position

\* A sequence is in its own order.
LEMMA OwnOrder ==
  ASSUME NEW R, NEW s \in Seq(R), Once(s)
  PROVE  InOrderOf(s, s)
<1>1. ASSUME NEW n \in 1 .. Len(s), NEW l \in 1 .. Len(s), n < l PROVE Position(s, s[n]) < Position(s, s[l])
  <2>1. Position(s, s[n]) = n /\ Position(s, s[l]) = l
    BY PositionIs
  <2> QED BY <1>1, <2>1
<1> QED BY <1>1 DEF InOrderOf

\* What is drawn from a sequence has different elements.
LEMMA OrderedOnce ==
  ASSUME NEW R, NEW s \in Seq(R), Once(s), NEW z \in Seq(R), InOrderOf(s, z),
         \A n \in 1 .. Len(z) : \E i \in 1 .. Len(s) : s[i] = z[n]
  PROVE  Once(z)
<1>1. ASSUME NEW n \in 1 .. Len(z), NEW l \in 1 .. Len(z), z[n] = z[l] PROVE ~ (n < l)
  <2>1. PICK i \in 1 .. Len(s) : s[i] = z[n]
    OBVIOUS
  <2>2. Position(s, z[n]) = i /\ i \in Nat
    BY <2>1, PositionIs
  <2>3. Position(s, z[l]) = i
    BY <1>1, <2>2
  <2> QED BY <2>2, <2>3 DEF InOrderOf
<1>2. ASSUME NEW n \in 1 .. Len(z), NEW l \in 1 .. Len(z), z[n] = z[l] PROVE n = l
  <2>1. ~ (n < l) /\ ~ (l < n)
    BY <1>1, <1>2
  <2> QED BY <2>1
<1> QED BY <1>2 DEF Once

\* The elements in a set, drawn from what has been drawn before.
LEMMA DrawnAre ==
  ASSUME NEW R, NEW s \in Seq(R), NEW v \in Seq(R), InOrderOf(s, v), NEW A, Has(v, A), NEW B,
         NEW kept, kept = { i \in DOMAIN v : v[i] \in B }
  PROVE  /\ ElementsAt(v, kept) \in Seq(R)
         /\ InOrderOf(s, ElementsAt(v, kept))
         /\ Has(ElementsAt(v, kept), A \cap B)
<1>1. PICK K \in SUBSET (1 .. Len(v)) : K = kept
  <2>1. kept \in SUBSET (1 .. Len(v))
    OBVIOUS
  <2> QED BY <2>1, Zenon
<1>2. PICK z : z = ElementsAt(v, K)
  OBVIOUS
<1>3. /\ z \in Seq(R) /\ DOMAIN z = 1 .. Len(z)
      /\ \A n \in 1 .. Len(z) : PlaceOf(K, n) \in K /\ z[n] = v[PlaceOf(K, n)]
      /\ \A i \in K : Rank(K, i) \in 1 .. Len(z) /\ PlaceOf(K, Rank(K, i)) = i
      /\ \A n, l \in 1 .. Len(z) : n < l => PlaceOf(K, n) < PlaceOf(K, l)
  <2>1. /\ Cardinality(K) \in Nat
        /\ ElementsAt(v, K) \in Seq(R) /\ DOMAIN ElementsAt(v, K) = 1 .. Cardinality(K)
        /\ Len(ElementsAt(v, K)) = Cardinality(K)
        /\ \A n \in DOMAIN ElementsAt(v, K) :
              PlaceOf(K, n) \in K /\ ElementsAt(v, K)[n] = v[PlaceOf(K, n)]
        /\ \A i \in K :
              Rank(K, i) \in DOMAIN ElementsAt(v, K) /\ PlaceOf(K, Rank(K, i)) = i
        /\ \A n, l \in DOMAIN ElementsAt(v, K) : n < l => PlaceOf(K, n) < PlaceOf(K, l)
    BY ElementsHave, Zenon
  <2> QED BY <1>2, <2>1, Zenon
<1>4. ASSUME NEW n \in 1 .. Len(z), NEW l \in 1 .. Len(z), n < l PROVE Position(s, z[n]) < Position(s, z[l])
  <2>1. PICK i \in 1 .. Len(v), j \in 1 .. Len(v) : i < j /\ z[n] = v[i] /\ z[l] = v[j]
    <3>1. n \in DOMAIN z /\ l \in DOMAIN z
      BY <1>3
    <3>2. PICK i, j : i = PlaceOf(K, n) /\ j = PlaceOf(K, l)
      OBVIOUS
    <3>3. i \in 1 .. Len(v) /\ j \in 1 .. Len(v) /\ z[n] = v[i] /\ z[l] = v[j]
      BY <1>1, <1>3, <3>1, <3>2
    <3>4. i < j
      BY <1>3, <1>4, <3>1, <3>2, Zenon
    <3> QED BY <3>3, <3>4
  <2> QED BY <2>1 DEF InOrderOf
<1>5. ASSUME NEW t PROVE t \in A \cap B <=> \E n \in 1 .. Len(z) : z[n] = t
  <2>1. ASSUME t \in A \cap B PROVE \E n \in 1 .. Len(z) : z[n] = t
    <3>1. PICK i \in 1 .. Len(v) : v[i] = t
      BY <2>1 DEF Has
    <3>2. i \in K
      BY <1>1, <2>1, <3>1
    <3>3. PICK n \in 1 .. Len(z) : PlaceOf(K, n) = i
      BY <1>3, <3>2
    <3> QED BY <1>3, <3>1, <3>3
  <2>2. ASSUME NEW n \in 1 .. Len(z), z[n] = t PROVE t \in A \cap B
    <3>1. PICK i \in K : z[n] = v[i]
      BY <1>3
    <3> QED BY <1>1, <2>2, <3>1 DEF Has
  <2> QED BY <2>1, <2>2
<1>6. z \in Seq(R) /\ InOrderOf(s, z) /\ Has(z, A \cap B)
  BY <1>3, <1>4, <1>5, Zenon DEF InOrderOf, Has
<1> QED BY <1>1, <1>2, <1>6, Zenon

\* A sequence without repetition is as long as what it has.
LEMMA AsLong ==
  ASSUME NEW R, NEW z \in Seq(R), Once(z), NEW A, Has(z, A)
  PROVE  IsFiniteSet(A) /\ Cardinality(A) = Len(z)
<1>1. PICK n \in Nat : n = Len(z)
  OBVIOUS
<1>2. z \in [1 .. n -> A]
  BY <1>1 DEF Has
<1>3. z \in Bijection(1 .. n, A)
  <2>1. \A a, b \in DOMAIN z : z[a] = z[b] => a = b
    BY <1>1, <1>2 DEF Once
  <2>2. z \in Injection(1 .. n, A)
    BY <1>2, <2>1 DEF Injection, IsInjective
  <2>3. z \in Surjection(1 .. n, A)
    BY <1>1, <1>2 DEF Has, Surjection
  <2> QED BY <2>2, <2>3 DEF Bijection
<1>4. ExistsBijection(1 .. n, A)
  BY <1>3 DEF ExistsBijection
<1>5. IsFiniteSet(A)
  BY <1>4, FS_NatBijection
<1> QED BY <1>1, <1>4, <1>5, FS_CountingElements

\* An element that is inserted moves those behind it by one.
LEMMA InsertedAt ==
  ASSUME NEW R, NEW s \in Seq(R), NEW to \in 1 .. Len(s) + 1, NEW e \in R
  PROVE  /\ InsertAt(s, to, e) \in Seq(R) /\ Len(InsertAt(s, to, e)) = Len(s) + 1
         /\ \A k \in 1 .. Len(s) + 1 :
              InsertAt(s, to, e)[k] = IF k < to THEN s[k] ELSE IF k = to THEN e ELSE s[k - 1]
<1>1. PICK n \in Nat : n = Len(s)
  OBVIOUS
<1>2. PICK a : a = SubSeq(s, 1, to - 1)
  OBVIOUS
<1>3. PICK b : b = SubSeq(s, to, n)
  OBVIOUS
<1>4. a \in Seq(R) /\ Len(a) = to - 1 /\ \A k \in 1 .. to - 1 : a[k] = s[k]
  BY <1>1, <1>2
<1>5. b \in Seq(R) /\ Len(b) = n - to + 1 /\ \A k \in 1 .. n - to + 1 : b[k] = s[to + k - 1]
  <2>1. b \in Seq(R) /\ Len(b) = n - to + 1
    BY <1>1, <1>3
  <2>2. ASSUME NEW k \in 1 .. n - to + 1 PROVE b[k] = s[to + k - 1]
    <3>1. \A i \in to .. n : s[i] \in R
      BY <1>1
    <3> QED BY <1>1, <1>3, <3>1, SubSeqProperties
  <2> QED BY <2>1, <2>2
<1>6. InsertAt(s, to, e) = (a \o << e >>) \o b
  BY <1>1, <1>2, <1>3 DEF InsertAt
<1>7. PICK c : c = a \o << e >>
  OBVIOUS
<1>8. c \in Seq(R) /\ Len(c) = to /\ \A k \in 1 .. to : c[k] = IF k < to THEN s[k] ELSE e
  <2>1. c \in Seq(R) /\ Len(c) = to
    BY <1>4, <1>7
  <2>2. ASSUME NEW k \in 1 .. to PROVE c[k] = IF k < to THEN s[k] ELSE e
    BY <1>4, <1>7
  <2> QED BY <2>1, <2>2
<1>9. c \o b \in Seq(R) /\ Len(c \o b) = n + 1
  <2>1. c \o b \in Seq(R) /\ Len(c \o b) = Len(c) + Len(b)
    BY <1>5, <1>8, ConcatProperties
  <2> QED BY <1>1, <1>5, <1>8, <2>1
<1>10. ASSUME NEW k \in 1 .. n + 1
       PROVE  (c \o b)[k] = IF k < to THEN s[k] ELSE IF k = to THEN e ELSE s[k - 1]
  <2>1. (c \o b)[k] = IF k <= to THEN c[k] ELSE b[k - to]
    BY <1>1, <1>5, <1>8
  <2>2. CASE k <= to
    BY <1>8, <2>1, <2>2
  <2>3. CASE ~(k <= to)
    <3>1. PICK j \in 1 .. n - to + 1 : j = k - to
      BY <1>1, <2>3
    <3>2. to + j - 1 = k - 1
      BY <1>1, <3>1
    <3> QED BY <1>5, <2>1, <2>3, <3>1, <3>2
  <2> QED BY <2>2, <2>3
<1> QED BY <1>1, <1>6, <1>7, <1>9, <1>10

\* The others of a sequence, when one is left out.
LEMMA OthersAre ==
  ASSUME NEW R, NEW s \in Seq(R), Once(s), NEW A, Has(s, A), NEW t
  PROVE  /\ Others(s, t) \in Seq(R) /\ Once(Others(s, t)) /\ Has(Others(s, t), A \ {t})
         /\ t \in A => Len(Others(s, t)) = Len(s) - 1
<1>1. PICK kept : kept = { i \in DOMAIN s : s[i] # t }
  OBVIOUS
<1>2. PICK B : B = A \ {t}
  OBVIOUS
<1>3. kept = { i \in DOMAIN s : s[i] \in B }
  BY <1>1, <1>2 DEF Has
<1>4. PICK z : z = ElementsAt(s, kept)
  OBVIOUS
<1>5. InOrderOf(s, s)
  BY OwnOrder
<1>6. z \in Seq(R) /\ InOrderOf(s, z) /\ Has(z, A \cap B)
  BY <1>3, <1>4, <1>5, DrawnAre
<1>7. A \cap B = B
  BY <1>2
<1>8. \A n \in 1 .. Len(z) : \E i \in 1 .. Len(s) : s[i] = z[n]
  BY <1>2, <1>6, <1>7 DEF Has
<1>9. Once(z)
  BY <1>6, <1>8, OrderedOnce
<1>10. Others(s, t) = z
  BY <1>1, <1>4 DEF Others, ElementsWith
<1>11. ASSUME t \in A PROVE Len(z) = Len(s) - 1
  <2>1. IsFiniteSet(A) /\ Cardinality(A) = Len(s)
    BY AsLong
  <2>2. Cardinality(B) = Len(z)
    BY <1>6, <1>7, <1>9, AsLong
  <2>3. Cardinality(B) = Cardinality(A) - 1
    BY <1>2, <1>11, <2>1, FS_RemoveElement
  <2> QED BY <2>1, <2>2, <2>3
<1> QED BY <1>2, <1>6, <1>7, <1>9, <1>10, <1>11

\* A moved element is where it was moved to, and all are still there.
LEMMA PlacedAre ==
  ASSUME NEW R, NEW s \in Seq(R), Once(s), NEW A, Has(s, A), NEW t \in A, NEW to \in 1 .. Len(s)
  PROVE  /\ Placed(s, t, to) \in Seq(R) /\ Len(Placed(s, t, to)) = Len(s)
         /\ Once(Placed(s, t, to)) /\ Has(Placed(s, t, to), A)
<1>1. PICK o : o = Others(s, t)
  OBVIOUS
<1>2. o \in Seq(R) /\ Once(o) /\ Has(o, A \ {t}) /\ Len(o) = Len(s) - 1
  BY <1>1, OthersAre
<1>3. t \in R
  BY DEF Has
<1>4. PICK n \in Nat : n = Len(o)
  BY <1>2
<1>5. PICK p : p = InsertAt(o, to, t)
  OBVIOUS
<1>6. to \in 1 .. Len(o) + 1
  BY <1>2
<1>7. /\ p \in Seq(R) /\ Len(p) = n + 1
      /\ \A k \in 1 .. n + 1 : p[k] = IF k < to THEN o[k] ELSE IF k = to THEN t ELSE o[k - 1]
  <2>1. /\ p \in Seq(R) /\ Len(p) = Len(o) + 1
        /\ \A k \in 1 .. Len(o) + 1 : p[k] = IF k < to THEN o[k] ELSE IF k = to THEN t ELSE o[k - 1]
    <3>1. /\ InsertAt(o, to, t) \in Seq(R) /\ Len(InsertAt(o, to, t)) = Len(o) + 1
          /\ \A k \in 1 .. Len(o) + 1 :
               InsertAt(o, to, t)[k] = IF k < to THEN o[k] ELSE IF k = to THEN t ELSE o[k - 1]
      BY <1>2, <1>3, <1>6, InsertedAt
    <3> QED BY <1>5, <3>1, Zenon
  <2> QED BY <1>4, <2>1
<1>8. \A k \in 1 .. n : o[k] # t
  BY <1>2, <1>4 DEF Has
<1>9. Once(p)
  <2>1. ASSUME NEW i \in 1 .. n + 1, NEW j \in 1 .. n + 1, p[i] = p[j], i < j PROVE FALSE
    <3>1. CASE i = to \/ j = to
      BY <1>6, <1>7, <1>8, <2>1, <3>1
    <3>2. CASE i # to /\ j # to
      <4>1. PICK k \in 1 .. n, l \in 1 .. n : k < l /\ p[i] = o[k] /\ p[j] = o[l]
        <5>1. PICK k \in 1 .. n : k = (IF i < to THEN i ELSE i - 1)
          BY <1>4, <1>6, <2>1, <3>2
        <5>2. PICK l \in 1 .. n : l = (IF j < to THEN j ELSE j - 1)
          BY <1>4, <1>6, <2>1, <3>2
        <5>3. p[i] = o[k]
          BY <1>6, <1>7, <2>1, <3>2, <5>1
        <5>4. p[j] = o[l]
          BY <1>6, <1>7, <2>1, <3>2, <5>2
        <5>5. k < l
          BY <1>6, <2>1, <3>2, <5>1, <5>2
        <5> QED BY <5>1, <5>2, <5>3, <5>4, <5>5
      <4>2. k \in 1 .. Len(o) /\ l \in 1 .. Len(o) /\ o[k] = o[l]
        BY <1>4, <2>1, <4>1
      <4>3. k = l
        BY <1>2, <4>2, Zenon DEF Once
      <4> QED BY <4>1, <4>3
    <3> QED BY <3>1, <3>2
  <2> QED BY <1>7, <2>1 DEF Once
<1>10. ASSUME NEW e PROVE e \in A <=> \E k \in 1 .. n + 1 : p[k] = e
  <2>1. CASE e = t
    BY <1>2, <1>4, <1>6, <1>7, <2>1
  <2>2. CASE e # t
    <3>1. ASSUME e \in A PROVE \E k \in 1 .. n + 1 : p[k] = e
      <4>1. PICK k \in 1 .. n : o[k] = e
        BY <1>2, <1>4, <2>2, <3>1 DEF Has
      <4>2. CASE k < to
        BY <1>7, <4>1, <4>2
      <4>3. CASE ~(k < to)
        <5>1. k + 1 \in 1 .. n + 1 /\ p[k + 1] = o[k]
          BY <1>6, <1>7, <4>3
        <5> QED BY <4>1, <5>1
      <4> QED BY <4>2, <4>3
    <3>2. ASSUME NEW k \in 1 .. n + 1, p[k] = e PROVE e \in A
      <4>1. \E l \in 1 .. n : o[l] = e
        <5>1. PICK l \in 1 .. n : l = (IF k < to THEN k ELSE k - 1)
          BY <1>4, <1>6, <1>7, <2>2, <3>2
        <5> QED BY <1>6, <1>7, <2>2, <3>2, <5>1
      <4> QED BY <1>2, <1>4, <4>1 DEF Has
    <3> QED BY <3>1, <3>2
  <2> QED BY <2>1, <2>2
<1> QED BY <1>1, <1>2, <1>4, <1>5, <1>7, <1>9, <1>10 DEF Placed, Has

----------------------------------------------------------------------------
(***************************************************************************)
(* Tabs and their session.  The bar and the stack are one sequence without *)
(* repetition, which has the current tab, the tab dragged and those that   *)
(* close; the session file is canonical.  Before its tabs are there a      *)
(* window has nothing.                                                     *)
(***************************************************************************)
Entry == [tab : Tabs, pinned : BOOLEAN]

ClosedEntry == [tab : Tabs, pinned : BOOLEAN, web : BOOLEAN]

TabsType ==
  [bar : Seq(Tabs), stack : Seq(Tabs), current : Tabs \cup {None}, shown : Tabs \cup {None},
   drag : Tabs \cup {None}, pinned : SUBSET Tabs, web : SUBSET Tabs, lazy : SUBSET Tabs, closing : SUBSET Tabs,
   closed : Seq(ClosedEntry), timer : BOOLEAN, discard : BOOLEAN, ready : BOOLEAN, visible : BOOLEAN]

FileType ==
  [kind : { "none", "unreadable", "session" }, tabs : Seq(Entry), active : Tabs \cup {None}]

TbType ==
  [open : TabsType, running : BOOLEAN, mode : { "StartPage", "RestoreTabs" }, file : FileType,
   behind : BOOLEAN, dropped : SUBSET Tabs, events : Nat, starts : Nat]

Listing(s, t) == \E i \in 1 .. Len(s) : s[i] = t

WindowFits(w) ==
  /\ w.stack = w.bar /\ Once(w.bar) /\ w.shown = w.current
  /\ \A t \in w.closing : Listing(w.bar, t)
  /\ w.drag # None => Listing(w.bar, w.drag)
  /\ w.discard => w.bar = << >>

CurrentFits(w) == IF w.bar = << >> THEN w.current = None ELSE Listing(w.bar, w.current)

FileFits(tabs, active) ==
  /\ \A i, j \in 1 .. Len(tabs) : tabs[i].tab = tabs[j].tab => i = j
  /\ \A i, j \in 1 .. Len(tabs) : i < j /\ tabs[j].pinned => tabs[i].pinned
  /\ Len(tabs) <= MaxRestored
  /\ IF tabs = << >> THEN active = None ELSE \E i \in 1 .. Len(tabs) : tabs[i].tab = active

Live(S) == S.running /\ S.open.ready

Sound(S) ==
  /\ S \in TbType
  /\ WindowFits(S.open) /\ CurrentFits(S.open)
  /\ FileFits(S.file.tabs, S.file.active)
  /\ ~Live(S) => S.open = NoTabs

(***************************************************************************)
(* Told: what is wanted of the tabs is in the file, unless a save is due   *)
(* or the file is behind; and while the mode is to start afresh a program  *)
(* that ended without a change left pinned tabs only.                      *)
(***************************************************************************)
Wanted(bar, closing, web, pinned, mode) ==
  { t \in Tabs : Listing(bar, t) /\ t \notin closing /\ t \in web /\ (mode = "RestoreTabs" \/ t \in pinned) }

Tells(tabs, bar, wanted, pinned) ==
  /\ \A i \in 1 .. Len(tabs) : tabs[i].tab \in wanted /\ (tabs[i].pinned <=> tabs[i].tab \in pinned)
  /\ Len(tabs) = Min({Cardinality(wanted), MaxRestored})
  /\ \A i, j \in 1 .. Len(tabs) :
       i < j => \/ tabs[i].pinned /\ ~tabs[j].pinned
                \/ (tabs[i].pinned <=> tabs[j].pinned) /\ Position(bar, tabs[i].tab) < Position(bar, tabs[j].tab)
  /\ \A t \in wanted, i \in 1 .. Len(tabs) :
       t \in pinned /\ ~tabs[i].pinned => \E j \in 1 .. Len(tabs) : tabs[j].tab = t

AllPinned(tabs) == \A i \in 1 .. Len(tabs) : tabs[i].pinned

Told(S) ==
  /\ Live(S) /\ ~S.open.timer /\ ~S.behind =>
       Tells(S.file.tabs, S.open.bar, Wanted(S.open.bar, S.open.closing, S.open.web, S.open.pinned, S.mode),
             S.open.pinned)
  /\ ~Live(S) /\ ~S.behind /\ S.mode = "StartPage" => AllPinned(S.file.tabs)

TbInv(S) == Sound(S) /\ Told(S)

\* What the session file does not depend on may change.
LEMMA AlikeFits ==
  ASSUME NEW S, Sound(S), NEW T \in TbType, Live(S), Live(T),
         T.mode = S.mode, T.file = S.file, T.behind = S.behind,
         T.open.bar = S.open.bar, T.open.stack = S.open.stack, T.open.current = S.open.current,
         T.open.shown = S.open.shown, T.open.pinned = S.open.pinned, T.open.web = S.open.web,
         T.open.closing = S.open.closing, T.open.timer = S.open.timer, T.open.discard = S.open.discard,
         T.open.drag # None => Listing(T.open.bar, T.open.drag)
  PROVE  Sound(T) /\ (Told(S) => Told(T))
<1>1. WindowFits(T.open) /\ CurrentFits(T.open) /\ FileFits(T.file.tabs, T.file.active)
  BY Zenon DEF Sound, WindowFits, CurrentFits
<1>2. Sound(T)
  BY <1>1, Zenon DEF Sound
<1>3. Told(S) => Told(T)
  BY Zenon DEF Told
<1> QED BY <1>2, <1>3

\* An event that is counted.
LEMMA CountedFits ==
  ASSUME NEW S, TbInv(S), Live(S)
  PROVE  TbInv([S EXCEPT !.events = @ + 1])
<1>1. S \in TbType
  BY DEF TbInv, Sound
<1>2. PICK T : T = [S EXCEPT !.events = @ + 1]
  OBVIOUS
<1>3. T \in TbType
  BY <1>1, <1>2 DEF TbType
<1>4. T.open = S.open /\ T.mode = S.mode /\ T.file = S.file
  BY <1>1, <1>2 DEF TbType
<1>5. T.running = S.running /\ T.behind = S.behind
  BY <1>1, <1>2, Zenon DEF TbType
<1>6. S.open.drag # None => Listing(S.open.bar, S.open.drag)
  BY DEF TbInv, Sound, WindowFits
<1>7. Live(T)
  BY <1>4, <1>5 DEF Live
<1>8. Sound(T) /\ (Told(S) => Told(T))
  BY <1>3, <1>4, <1>5, <1>6, <1>7, AlikeFits, Zenon DEF TbInv
<1> QED BY <1>2, <1>8 DEF TbInv

\* A window in which no tab is wanted, and no file.
LEMMA NothingTells ==
  ASSUME NEW bar, NEW pinned
  PROVE  Tells(<< >>, bar, {}, pinned)
<1>1. Cardinality({}) = 0
  BY FS_EmptySet
<1>2. PICK m \in Nat : m = MaxRestored
  BY TabSessionAssumption
<1>3. Min({0, m}) = 0
  BY DEF Min
<1>4. Len(<< >>) = 0
  OBVIOUS
<1>5. 1 .. Len(<< >>) = {}
  BY <1>4
<1> QED BY <1>1, <1>2, <1>3, <1>4, <1>5, Zenon DEF Tells

Timed(S, due) == [S EXCEPT !.open = [S.open EXCEPT !.timer = due]]

LEMMA TimedFields ==
  ASSUME NEW S \in TbType, NEW due \in BOOLEAN
  PROVE  /\ Timed(S, due) \in TbType
         /\ Timed(S, due).open = [S.open EXCEPT !.timer = due]
         /\ Timed(S, due).mode = S.mode /\ Timed(S, due).file = S.file
         /\ Timed(S, due).running = S.running /\ Timed(S, due).behind = S.behind
         /\ Timed(S, due).open.timer = due
         /\ Timed(S, due).open.bar = S.open.bar /\ Timed(S, due).open.stack = S.open.stack
         /\ Timed(S, due).open.current = S.open.current /\ Timed(S, due).open.shown = S.open.shown
         /\ Timed(S, due).open.pinned = S.open.pinned /\ Timed(S, due).open.web = S.open.web
         /\ Timed(S, due).open.closing = S.open.closing /\ Timed(S, due).open.lazy = S.open.lazy
         /\ Timed(S, due).open.drag = S.open.drag /\ Timed(S, due).open.discard = S.open.discard
         /\ Timed(S, due).open.ready = S.open.ready /\ Timed(S, due).open.visible = S.open.visible
<1>1. PICK w : w = S.open
  OBVIOUS
<1>2. w \in TabsType
  BY <1>1 DEF TbType
<1>3. PICK v : v = [w EXCEPT !.timer = due]
  OBVIOUS
<1>4. v \in TabsType
  BY <1>2, <1>3 DEF TabsType
<1>5. /\ v.bar = w.bar /\ v.stack = w.stack /\ v.current = w.current /\ v.shown = w.shown /\ v.pinned = w.pinned
      /\ v.web = w.web /\ v.closing = w.closing /\ v.lazy = w.lazy /\ v.drag = w.drag
  BY <1>2, <1>3 DEF TabsType
<1>6. v.timer = due /\ v.discard = w.discard /\ v.ready = w.ready /\ v.visible = w.visible
  BY <1>2, <1>3, Zenon DEF TabsType
<1>7. PICK T : T = [S EXCEPT !.open = v]
  OBVIOUS
<1>8. T \in TbType
  BY <1>4, <1>7 DEF TbType
<1>9. T.open = v /\ T.mode = S.mode /\ T.file = S.file
  BY <1>7 DEF TbType
<1>10. T.running = S.running /\ T.behind = S.behind
  BY <1>7, Zenon DEF TbType
<1>11. Timed(S, due) = T
  BY <1>1, <1>3, <1>7, Zenon DEF Timed
<1> QED BY <1>1, <1>3, <1>5, <1>6, <1>8, <1>9, <1>10, <1>11, Zenon

\* A save is due unless there is nothing to save or to remove.
LEMMA ScheduleIs ==
  ASSUME NEW S \in TbType
  PROVE  \E due \in BOOLEAN :
           /\ Schedule(S) = Timed(S, due)
           /\ due \/ (S.mode = "StartPage" /\ ~HasPinned(S.open) /\ S.file = NoFile)
<1>1. PICK due : due = (S.open.timer \/ S.mode = "RestoreTabs" \/ HasPinned(S.open) \/ S.file # NoFile)
  BY Zenon
<1>2. S.open.timer \in BOOLEAN /\ S.mode \in { "StartPage", "RestoreTabs" }
  BY DEF TbType, TabsType
<1>3. due \in BOOLEAN
  BY <1>1
<1>4. Schedule(S) = Timed(S, due)
  BY <1>1, Zenon DEF Schedule, Timed
<1>5. due \/ (S.mode = "StartPage" /\ ~HasPinned(S.open) /\ S.file = NoFile)
  BY <1>1, <1>2, Zenon
<1> QED BY <1>3, <1>4, <1>5

\* After a change a save is due, or the file tells all.
LEMMA Scheduled ==
  ASSUME NEW S, Sound(S), Live(S)
  PROVE  /\ TbInv(Schedule(S)) /\ Live(Schedule(S))
         /\ Schedule(S).open.bar = S.open.bar /\ Schedule(S).open.current = S.open.current
         /\ Schedule(S).open.pinned = S.open.pinned /\ Schedule(S).open.drag = S.open.drag
         /\ Schedule(S).open.lazy = S.open.lazy /\ Schedule(S).open.web = S.open.web
         /\ Schedule(S).open.closing = S.open.closing /\ Schedule(S).mode = S.mode /\ Schedule(S).file = S.file
         /\ Schedule(S).behind = S.behind /\ Schedule(S).running = S.running
<1>1. S \in TbType
  BY DEF Sound
<1>2. PICK due \in BOOLEAN :
        /\ Schedule(S) = Timed(S, due)
        /\ due \/ (S.mode = "StartPage" /\ ~HasPinned(S.open) /\ S.file = NoFile)
  BY <1>1, ScheduleIs
<1>3. PICK T : T = Timed(S, due)
  OBVIOUS
<1>4. /\ T \in TbType /\ T.mode = S.mode /\ T.file = S.file /\ T.running = S.running /\ T.behind = S.behind
      /\ T.open.timer = due /\ T.open.bar = S.open.bar /\ T.open.stack = S.open.stack
      /\ T.open.current = S.open.current /\ T.open.shown = S.open.shown
      /\ T.open.pinned = S.open.pinned /\ T.open.web = S.open.web
      /\ T.open.closing = S.open.closing /\ T.open.lazy = S.open.lazy
      /\ T.open.drag = S.open.drag /\ T.open.discard = S.open.discard /\ T.open.ready = S.open.ready
  BY <1>1, <1>3, TimedFields, Zenon
<1>5. Live(T)
  BY <1>4 DEF Live
<1>6. Sound(T)
  <2>1. WindowFits(T.open) /\ CurrentFits(T.open) /\ FileFits(T.file.tabs, T.file.active)
    BY <1>4, Zenon DEF Sound, WindowFits, CurrentFits
  <2> QED BY <1>4, <1>5, <2>1, Zenon DEF Sound
<1>7. Told(T)
  <2>1. CASE due
    BY <1>4, <1>5, <2>1, Zenon DEF Told
  <2>2. CASE S.mode = "StartPage" /\ ~HasPinned(S.open) /\ S.file = NoFile
    <3>1. \A t \in Tabs : Listing(S.open.bar, t) => t \notin S.open.pinned
      <4>1. S.open.bar \in Seq(Tabs)
        BY <1>1 DEF TbType, TabsType
      <4>2. DOMAIN S.open.bar = 1 .. Len(S.open.bar)
        BY <4>1
      <4> QED BY <2>2, <4>2, Zenon DEF HasPinned, Listing
    <3>2. S.mode # "RestoreTabs"
      BY <2>2
    <3>3. Wanted(S.open.bar, S.open.closing, S.open.web, S.open.pinned, S.mode) = {}
      BY <3>1, <3>2 DEF Wanted
    <3>4. S.file.tabs = << >>
      BY <2>2 DEF NoFile, File
    <3>5. Tells(<< >>, S.open.bar, {}, S.open.pinned)
      BY NothingTells
    <3> QED BY <1>4, <1>5, <3>3, <3>4, <3>5, Zenon DEF Told
  <2> QED BY <1>2, <2>1, <2>2
<1> QED BY <1>2, <1>3, <1>4, <1>5, <1>6, <1>7, Zenon DEF TbInv

----------------------------------------------------------------------------
(***************************************************************************)
(* What changes a window: selecting, moving, adding a tab.                 *)
(***************************************************************************)
LEMMA LesserOf ==
  ASSUME NEW a \in Nat, NEW b \in Nat
  PROVE  Min({a, b}) = IF a <= b THEN a ELSE b
BY DEF Min

LEMMA GreaterOf ==
  ASSUME NEW a \in Nat, NEW b \in Nat
  PROVE  Max({a, b}) = IF a <= b THEN b ELSE a
BY DEF Max

Framed(S) ==
  S \in TbType /\ WindowFits(S.open) /\ FileFits(S.file.tabs, S.file.active) /\ Live(S)

\* A tab of the bar is selected, unless one is dragged.
LEMMA Selected ==
  ASSUME NEW S, Framed(S), NEW t, Listing(S.open.bar, t),
         CurrentFits(S.open) \/ (S.open.drag = None /\ S.open.current # t)
  PROVE  /\ Sound(Select(S, t)) /\ Live(Select(S, t)) /\ (Told(S) => Told(Select(S, t)))
         /\ Select(S, t).open.bar = S.open.bar /\ Select(S, t).open.pinned = S.open.pinned
         /\ Select(S, t).open.drag = S.open.drag /\ Select(S, t).open.web = S.open.web
         /\ Select(S, t).open.closing = S.open.closing
         /\ Select(S, t).mode = S.mode /\ Select(S, t).file = S.file
         /\ Select(S, t).behind = S.behind /\ Select(S, t).running = S.running
<1>1. S \in TbType
  BY DEF Framed
<1>2. CASE S.open.current = t \/ S.open.drag # None
  <2>1. Select(S, t) = S
    BY <1>2 DEF Select
  <2>2. CurrentFits(S.open)
    BY <1>2
  <2> QED BY <2>1, <2>2, Zenon DEF Sound, Framed
<1>3. CASE ~(S.open.current = t \/ S.open.drag # None)
  <2>1. PICK T : T = [S EXCEPT !.open.current = t, !.open.shown = t, !.open.lazy = @ \ {t}]
    OBVIOUS
  <2>2. t \in Tabs
    BY <1>1 DEF Listing, TbType, TabsType
  <2>3. T \in TbType
    BY <1>1, <2>1, <2>2 DEF TbType, TabsType
  <2>4. /\ T.open.bar = S.open.bar /\ T.open.stack = S.open.stack /\ T.open.current = t /\ T.open.shown = t
        /\ T.open.drag = S.open.drag /\ T.open.pinned = S.open.pinned /\ T.open.web = S.open.web
        /\ T.open.closing = S.open.closing
    BY <1>1, <2>1 DEF TbType, TabsType
  <2>5. T.file = S.file /\ T.mode = S.mode
    BY <2>1 DEF TbType
  <2>6. T.running = S.running /\ T.behind = S.behind
    BY <1>1, <2>1, Zenon DEF TbType
  <2>7. T.open.discard = S.open.discard /\ T.open.ready = S.open.ready
    BY <1>1, <2>1 DEF TbType, TabsType
  <2>8. Live(T)
    BY <2>6, <2>7 DEF Framed, Live
  <2>9. WindowFits(T.open)
    BY <2>4, <2>7, Zenon DEF Framed, WindowFits
  <2>10. CurrentFits(T.open)
    <3>1. S.open.bar # << >>
      BY DEF Listing
    <3> QED BY <2>4, <3>1 DEF CurrentFits
  <2>11. Sound(T)
    BY <2>3, <2>5, <2>8, <2>9, <2>10, Zenon DEF Sound, Framed
  <2>12. Select(S, t) = Schedule(T)
    BY <1>3, <2>1 DEF Select
  <2>13. /\ TbInv(Schedule(T)) /\ Live(Schedule(T))
         /\ Schedule(T).open.bar = T.open.bar
         /\ Schedule(T).open.pinned = T.open.pinned /\ Schedule(T).open.drag = T.open.drag
         /\ Schedule(T).mode = T.mode /\ Schedule(T).file = T.file
         /\ Schedule(T).behind = T.behind /\ Schedule(T).running = T.running
         /\ Schedule(T).open.web = T.open.web /\ Schedule(T).open.closing = T.open.closing
    BY <2>8, <2>11, Scheduled
  <2> QED BY <2>4, <2>5, <2>6, <2>12, <2>13, Zenon DEF TbInv
<1> QED BY <1>2, <1>3

\* The tabs of a bar.
TabsOf(bar) == { t \in Tabs : Listing(bar, t) }

LEMMA TabsAreHad ==
  ASSUME NEW bar \in Seq(Tabs)
  PROVE  Has(bar, TabsOf(bar))
BY DEF Has, TabsOf, Listing

\* A tab moves, and the stack follows.
LEMMA Moved ==
  ASSUME NEW S, Sound(S), Live(S), NEW t, Listing(S.open.bar, t), NEW to \in 1 .. Len(S.open.bar)
  PROVE  /\ Sound(Move(S, t, to)) /\ Live(Move(S, t, to))
         /\ Told(S) \/ S.open.bar[to] # t => Told(Move(S, t, to))
         /\ \A e : Listing(Move(S, t, to).open.bar, e) <=> Listing(S.open.bar, e)
         /\ Move(S, t, to).open.drag = S.open.drag
<1>1. S \in TbType
  BY DEF Sound
<1>2. CASE S.open.bar[to] = t
  <2>1. Move(S, t, to) = S
    BY <1>2 DEF Move
  <2> QED BY <1>2, <2>1, Zenon
<1>3. CASE S.open.bar[to] # t
  <2>1. PICK p : p = Placed(S.open.bar, t, to)
    OBVIOUS
  <2>2. S.open.bar \in Seq(Tabs) /\ S.open.current \in Tabs \cup {None}
    BY <1>1 DEF TbType, TabsType
  <2>3. t \in TabsOf(S.open.bar)
    BY <2>2 DEF TabsOf, Listing
  <2>4. Has(S.open.bar, TabsOf(S.open.bar))
    BY <2>2, TabsAreHad
  <2>5. Once(S.open.bar) /\ S.open.stack = S.open.bar /\ S.open.shown = S.open.current
    BY DEF Sound, WindowFits
  <2>6. p \in Seq(Tabs) /\ Len(p) = Len(S.open.bar) /\ Once(p) /\ Has(p, TabsOf(S.open.bar))
    BY <2>1, <2>2, <2>3, <2>4, <2>5, PlacedAre
  <2>7. \A e : Listing(p, e) <=> Listing(S.open.bar, e)
    BY <2>4, <2>6, Zenon DEF Has, Listing
  <2>8. S.open.bar # << >> /\ p # << >>
    BY <2>2, <2>6
  <2>9. PICK T : T = [S EXCEPT !.open.bar = Placed(@, t, to), !.open.stack = Placed(@, t, to),
                               !.open.shown = S.open.current]
    OBVIOUS
  <2>10. T = [S EXCEPT !.open = [S.open EXCEPT !.bar = p, !.stack = p, !.shown = S.open.current]]
    BY <1>1, <2>1, <2>5, <2>9 DEF TbType, TabsType
  <2>11. T \in TbType
    BY <1>1, <2>2, <2>6, <2>10 DEF TbType, TabsType
  <2>12. /\ T.open.bar = p /\ T.open.stack = p /\ T.open.current = S.open.current /\ T.open.shown = S.open.current
         /\ T.open.drag = S.open.drag /\ T.open.pinned = S.open.pinned /\ T.open.web = S.open.web
         /\ T.open.closing = S.open.closing
    BY <1>1, <2>10 DEF TbType, TabsType
  <2>13. T.file = S.file /\ T.mode = S.mode
    BY <2>10 DEF TbType
  <2>14. T.running = S.running
    BY <1>1, <2>10, Zenon DEF TbType
  <2>15. T.open.discard = S.open.discard /\ T.open.ready = S.open.ready
    BY <1>1, <2>10 DEF TbType, TabsType
  <2>16. Live(T)
    BY <2>14, <2>15 DEF Live
  <2>17. WindowFits(T.open)
    BY <2>6, <2>7, <2>8, <2>12, <2>15, Zenon DEF Sound, WindowFits
  <2>18. CurrentFits(T.open)
    BY <2>7, <2>8, <2>12, Zenon DEF Sound, CurrentFits
  <2>19. Sound(T)
    BY <2>11, <2>13, <2>16, <2>17, <2>18, Zenon DEF Sound
  <2>20. Move(S, t, to) = Schedule(T)
    BY <1>3, <2>9 DEF Move
  <2>21. /\ TbInv(Schedule(T)) /\ Live(Schedule(T))
         /\ Schedule(T).open.bar = T.open.bar /\ Schedule(T).open.drag = T.open.drag
    BY <2>16, <2>19, Scheduled
  <2> QED BY <2>7, <2>12, <2>20, <2>21, Zenon DEF TbInv
<1> QED BY <1>2, <1>3

LEMMA AppendFits ==
  ASSUME NEW s \in Seq(Tabs), Once(s), NEW t \in Tabs, ~Listing(s, t)
  PROVE  /\ Append(s, t) \in Seq(Tabs) /\ Once(Append(s, t)) /\ Append(s, t) # << >>
         /\ \A e : Listing(Append(s, t), e) <=> Listing(s, e) \/ e = t
         /\ Len(Append(s, t)) = Len(s) + 1 /\ \A i \in 1 .. Len(s) : Append(s, t)[i] = s[i]
<1>1. PICK z : z = Append(s, t)
  OBVIOUS
<1>2. z \in Seq(Tabs) /\ Len(z) = Len(s) + 1 /\ z[Len(s) + 1] = t /\ \A i \in 1 .. Len(s) : z[i] = s[i]
  BY <1>1
<1>3. Len(s) \in Nat
  OBVIOUS
<1>4. Once(z)
  BY <1>2, <1>3 DEF Once, Listing
<1>5. \A e : Listing(z, e) <=> Listing(s, e) \/ e = t
  BY <1>2, <1>3 DEF Listing
<1>6. z # << >>
  BY <1>2, <1>3
<1> QED BY <1>1, <1>2, <1>4, <1>5, <1>6

\* A new tab at the end of the bar.
LEMMA Created ==
  ASSUME NEW S, Sound(S), Live(S), NEW t \in Tabs, ~Listing(S.open.bar, t),
         NEW activate, NEW pinned, NEW web, NEW C, C = Create(S, t, activate, pinned, web)
  PROVE  /\ TbInv(C) /\ Live(C) /\ C.open.bar = Append(S.open.bar, t)
         /\ pinned => C.open.pinned = S.open.pinned \cup {t}
         /\ ~pinned => C.open.pinned = S.open.pinned
         /\ C.open.web \in { S.open.web, S.open.web \cup {t} }
         /\ C.open.closing = S.open.closing /\ C.mode = S.mode /\ C.file = S.file /\ C.behind = S.behind
<1>1. S \in TbType
  BY DEF Sound
<1>2. PICK A : A = [S EXCEPT !.open.bar = Append(@, t), !.open.stack = Append(@, t), !.open.discard = FALSE,
                             !.open.pinned = IF pinned THEN @ \cup {t} ELSE @,
                             !.open.web = IF web THEN @ \cup {t} ELSE @]
  OBVIOUS
<1>3. PICK bar : bar = Append(S.open.bar, t)
  OBVIOUS
<1>4. PICK pins \in SUBSET Tabs : pins = IF pinned THEN S.open.pinned \cup {t} ELSE S.open.pinned
  <2>1. S.open.pinned \in SUBSET Tabs
    BY <1>1 DEF TbType, TabsType
  <2> QED BY <2>1
<1>5. PICK webs \in SUBSET Tabs : webs = IF web THEN S.open.web \cup {t} ELSE S.open.web
  <2>1. S.open.web \in SUBSET Tabs
    BY <1>1 DEF TbType, TabsType
  <2> QED BY <2>1
<1>6. Once(S.open.bar) /\ S.open.stack = S.open.bar /\ S.open.bar \in Seq(Tabs)
  BY <1>1 DEF Sound, WindowFits, TbType, TabsType
<1>7. bar \in Seq(Tabs) /\ Once(bar) /\ bar # << >> /\ \A e : Listing(bar, e) <=> Listing(S.open.bar, e) \/ e = t
  BY <1>3, <1>6, AppendFits
<1>8. A = [S EXCEPT !.open = [S.open EXCEPT !.bar = bar, !.stack = bar, !.discard = FALSE, !.pinned = pins,
                                            !.web = webs]]
  BY <1>1, <1>2, <1>3, <1>4, <1>5, <1>6 DEF TbType, TabsType
<1>9. A \in TbType
  BY <1>1, <1>7, <1>8 DEF TbType, TabsType
<1>10. /\ A.open.bar = bar /\ A.open.stack = bar /\ A.open.current = S.open.current
       /\ A.open.shown = S.open.shown /\ A.open.drag = S.open.drag /\ A.open.pinned = pins /\ A.open.web = webs
       /\ A.open.closing = S.open.closing
  BY <1>1, <1>8 DEF TbType, TabsType
<1>11. A.file = S.file /\ A.mode = S.mode
  BY <1>8 DEF TbType
<1>12. A.running = S.running /\ A.behind = S.behind
  BY <1>1, <1>8, Zenon DEF TbType
<1>13. A.open.discard = FALSE /\ A.open.ready = S.open.ready
  BY <1>1, <1>8 DEF TbType, TabsType
<1>14. Live(A)
  BY <1>12, <1>13 DEF Live
<1>15. WindowFits(A.open)
  BY <1>7, <1>10, <1>13, Zenon DEF Sound, WindowFits
<1>16. Framed(A)
  BY <1>9, <1>11, <1>14, <1>15, Zenon DEF Sound, Framed
<1>17. PICK T : T = IF activate \/ S.open.bar = << >> THEN Select(A, t) ELSE A
  OBVIOUS
<1>18. S.open.bar # << >> => CurrentFits(A.open)
  BY <1>7, <1>10, Zenon DEF Sound, CurrentFits
<1>19. S.open.bar = << >> => A.open.drag = None /\ A.open.current # t
  BY <1>10, TabSessionAssumption DEF Sound, WindowFits, CurrentFits, Listing
<1>20. /\ Sound(T) /\ Live(T) /\ T.open.bar = bar /\ T.open.pinned = pins /\ T.open.web = webs
       /\ T.open.closing = S.open.closing /\ T.mode = S.mode /\ T.file = S.file /\ T.behind = S.behind
  <2>1. CASE activate \/ S.open.bar = << >>
    <3>1. T = Select(A, t)
      BY <1>17, <2>1
    <3>2. Listing(A.open.bar, t)
      BY <1>7, <1>10
    <3>3. /\ Sound(Select(A, t)) /\ Live(Select(A, t))
          /\ Select(A, t).open.bar = A.open.bar /\ Select(A, t).open.pinned = A.open.pinned
          /\ Select(A, t).open.web = A.open.web /\ Select(A, t).open.closing = A.open.closing
          /\ Select(A, t).mode = A.mode /\ Select(A, t).file = A.file /\ Select(A, t).behind = A.behind
      BY <1>16, <1>18, <1>19, <3>2, Selected
    <3> QED BY <1>10, <1>11, <1>12, <3>1, <3>3, Zenon
  <2>2. CASE ~(activate \/ S.open.bar = << >>)
    <3>1. T = A
      BY <1>17, <2>2
    <3>2. Sound(A)
      BY <1>14, <1>16, <1>18, <2>2, Zenon DEF Framed, Sound
    <3> QED BY <1>10, <1>11, <1>12, <1>14, <3>1, <3>2, Zenon
  <2> QED BY <2>1, <2>2
<1>21. C = Schedule(T)
  BY <1>2, <1>17 DEF Create
<1>22. /\ TbInv(Schedule(T)) /\ Live(Schedule(T)) /\ Schedule(T).open.bar = T.open.bar
       /\ Schedule(T).open.pinned = T.open.pinned /\ Schedule(T).open.web = T.open.web
       /\ Schedule(T).open.closing = T.open.closing /\ Schedule(T).mode = T.mode /\ Schedule(T).file = T.file
       /\ Schedule(T).behind = T.behind
  BY <1>20, Scheduled
<1> QED BY <1>3, <1>4, <1>5, <1>20, <1>21, <1>22

----------------------------------------------------------------------------
(***************************************************************************)
(* What is saved: the pinned tabs that are wanted, then the others, cut at *)
(* the bound, each group in the order of the bar.                          *)
(***************************************************************************)
LEMMA CutIs ==
  ASSUME NEW R, NEW s \in Seq(R)
  PROVE  /\ Cut(s) \in Seq(R)
         /\ Len(Cut(s)) = IF Len(s) <= MaxRestored THEN Len(s) ELSE MaxRestored
         /\ \A i \in 1 .. Len(Cut(s)) : i \in 1 .. Len(s) /\ Cut(s)[i] = s[i]
<1>1. MaxRestored \in Nat /\ Len(s) \in Nat
  BY TabSessionAssumption
<1>2. PICK m \in Nat : m = IF Len(s) <= MaxRestored THEN Len(s) ELSE MaxRestored
  BY <1>1
<1>3. Min({Len(s), MaxRestored}) = m
  BY <1>1, <1>2, LesserOf
<1>4. Cut(s) = SubSeq(s, 1, m)
  BY <1>3 DEF Cut
<1>5. m <= Len(s) /\ \A i \in 1 .. m : s[i] \in R
  BY <1>1, <1>2
<1>6. /\ SubSeq(s, 1, m) \in Seq(R) /\ Len(SubSeq(s, 1, m)) = m
      /\ \A i \in 1 .. m : SubSeq(s, 1, m)[i] = s[i]
  <2>1. PICK z : z = SubSeq(s, 1, m)
    OBVIOUS
  <2>2. z \in Seq(R) /\ Len(z) = IF 1 <= m THEN m - 1 + 1 ELSE 0
    BY <1>5, <2>1, SubSeqProperties
  <2>3. \A i \in 1 .. m - 1 + 1 : z[i] = s[1 + i - 1]
    BY <1>5, <2>1, SubSeqProperties
  <2>4. Len(z) = m
    BY <2>2
  <2>5. ASSUME NEW i \in 1 .. m PROVE z[i] = s[i]
    <3>1. i \in 1 .. m - 1 + 1 /\ 1 + i - 1 = i
      OBVIOUS
    <3> QED BY <2>3, <3>1
  <2> QED BY <2>1, <2>2, <2>4, <2>5
<1> QED BY <1>1, <1>2, <1>4, <1>5, <1>6

\* Pinned tabs first: what is kept of the tabs drawn from a bar.
LEMMA CanonicalIs ==
  ASSUME NEW s \in Seq(Tabs), Once(s), NEW v \in Seq(Tabs), InOrderOf(s, v),
         NEW W \in SUBSET TabsOf(s), Has(v, W), NEW pins
  PROVE  /\ Canonical(v, pins) \in Seq(Tabs) /\ Once(Canonical(v, pins))
         /\ Len(Canonical(v, pins)) = Min({Cardinality(W), MaxRestored})
         /\ Len(Canonical(v, pins)) <= MaxRestored
         /\ \A n \in 1 .. Len(Canonical(v, pins)) : Canonical(v, pins)[n] \in W
         /\ \A n, l \in 1 .. Len(Canonical(v, pins)) :
              n < l => \/ Canonical(v, pins)[n] \in pins /\ Canonical(v, pins)[l] \notin pins
                       \/ /\ Canonical(v, pins)[n] \in pins <=> Canonical(v, pins)[l] \in pins
                          /\ Position(s, Canonical(v, pins)[n]) < Position(s, Canonical(v, pins)[l])
         /\ \A t \in W, n \in 1 .. Len(Canonical(v, pins)) :
              t \in pins /\ Canonical(v, pins)[n] \notin pins => Listing(Canonical(v, pins), t)
<1>1. PICK first : first = ElementsWith(v, LAMBDA t : t \in pins)
  OBVIOUS
<1>2. PICK rest : rest = ElementsWith(v, LAMBDA t : t \notin pins)
  OBVIOUS
<1>3. first \in Seq(Tabs) /\ InOrderOf(s, first) /\ Has(first, W \cap pins)
  <2>1. PICK kept : kept = { i \in DOMAIN v : v[i] \in pins }
    OBVIOUS
  <2>2. first = ElementsAt(v, kept)
    BY <1>1, <2>1 DEF ElementsWith
  <2> QED BY <2>1, <2>2, DrawnAre
<1>4. rest \in Seq(Tabs) /\ InOrderOf(s, rest) /\ Has(rest, W \ pins)
  <2>1. PICK kept : kept = { i \in DOMAIN v : v[i] \notin pins }
    OBVIOUS
  <2>2. rest = ElementsAt(v, kept)
    BY <1>2, <2>1 DEF ElementsWith
  <2>3. PICK B : B = W \ pins
    OBVIOUS
  <2>4. kept = { i \in DOMAIN v : v[i] \in B }
    BY <2>1, <2>3 DEF Has
  <2>5. rest \in Seq(Tabs) /\ InOrderOf(s, rest) /\ Has(rest, W \cap B)
    BY <2>2, <2>4, DrawnAre
  <2>6. W \cap B = W \ pins
    BY <2>3
  <2> QED BY <2>5, <2>6
<1>5. \A t \in W : \E i \in 1 .. Len(s) : s[i] = t
  BY DEF TabsOf, Listing
<1>6. Once(first)
  <2>1. \A n \in 1 .. Len(first) : \E i \in 1 .. Len(s) : s[i] = first[n]
    BY <1>3, <1>5 DEF Has
  <2> QED BY <1>3, <2>1, OrderedOnce
<1>7. Once(rest)
  <2>1. \A n \in 1 .. Len(rest) : \E i \in 1 .. Len(s) : s[i] = rest[n]
    BY <1>4, <1>5 DEF Has
  <2> QED BY <1>4, <2>1, OrderedOnce
<1>8. PICK p \in Nat, r \in Nat, m \in Nat : p = Len(first) /\ r = Len(rest) /\ m = MaxRestored
  BY <1>3, <1>4, TabSessionAssumption
<1>9. Cardinality(W) = p + r
  <2>1. IsFiniteSet(W \cap pins) /\ Cardinality(W \cap pins) = p
    BY <1>3, <1>6, <1>8, AsLong
  <2>2. IsFiniteSet(W \ pins) /\ Cardinality(W \ pins) = r
    BY <1>4, <1>7, <1>8, AsLong
  <2>3. PICK X, Y : X = W \cap pins /\ Y = W \ pins
    OBVIOUS
  <2>4. Cardinality(X \cup Y) = Cardinality(X) + Cardinality(Y) - Cardinality(X \cap Y)
    BY <2>1, <2>2, <2>3, FS_Union
  <2>5. X \cup Y = W /\ X \cap Y = {}
    BY <2>3
  <2>6. Cardinality({}) = 0
    BY FS_EmptySet
  <2>7. Cardinality(W) = p + r - 0
    BY <2>1, <2>2, <2>3, <2>4, <2>5, <2>6, Zenon
  <2>8. p + r - 0 = p + r
    BY <1>8
  <2> QED BY <2>7, <2>8
<1>10. PICK q : q = Cut(rest)
  OBVIOUS
<1>11. /\ q \in Seq(Tabs) /\ Len(q) = IF r <= m THEN r ELSE m
       /\ \A i \in 1 .. Len(q) : i \in 1 .. r /\ q[i] = rest[i]
  BY <1>4, <1>8, <1>10, CutIs
<1>12. PICK c : c = first \o q
  OBVIOUS
<1>13. PICK k : k = Cut(c)
  OBVIOUS
<1>14. k = Canonical(v, pins)
  BY <1>1, <1>2, <1>10, <1>12, <1>13 DEF Canonical
<1>15. c \in Seq(Tabs) /\ Len(c) = p + Len(q) /\ \A i \in 1 .. Len(c) : c[i] = IF i <= p THEN first[i] ELSE q[i - p]
  <2>1. /\ c \in Seq(Tabs) /\ Len(c) = Len(first) + Len(q)
        /\ \A i \in 1 .. Len(first) + Len(q) : c[i] = IF i <= Len(first) THEN first[i] ELSE q[i - Len(first)]
    BY <1>3, <1>11, <1>12, ConcatProperties
  <2> QED BY <1>8, <2>1
<1>16. /\ k \in Seq(Tabs) /\ Len(k) = IF Len(c) <= m THEN Len(c) ELSE m
       /\ \A i \in 1 .. Len(k) : i \in 1 .. Len(c) /\ k[i] = c[i]
  BY <1>8, <1>13, <1>15, CutIs
<1>17. Len(k) = IF p + r <= m THEN p + r ELSE m
  <2>1. Len(q) = IF r <= m THEN r ELSE m
    BY <1>11
  <2>2. Len(c) = p + Len(q)
    BY <1>15
  <2>3. Len(k) = IF Len(c) <= m THEN Len(c) ELSE m
    BY <1>16
  <2>4. p \in Nat /\ r \in Nat /\ m \in Nat
    OBVIOUS
  <2>5. PICK a : a = Len(q)
    OBVIOUS
  <2>6. a = IF r <= m THEN r ELSE m
    BY <2>1, <2>5
  <2>7. PICK b : b = Len(c)
    OBVIOUS
  <2>8. b = p + a
    BY <2>2, <2>5, <2>7
  <2>9. Len(k) = IF b <= m THEN b ELSE m
    BY <2>3, <2>7
  <2> QED BY <2>4, <2>6, <2>8, <2>9
<1>18. Len(k) = Min({Cardinality(W), MaxRestored}) /\ Len(k) <= MaxRestored
  <2>1. p + r \in Nat
    BY <1>8
  <2>2. Min({p + r, m}) = IF p + r <= m THEN p + r ELSE m
    BY <1>8, <2>1, LesserOf
  <2> QED BY <1>8, <1>9, <1>17, <2>2
<1>19. ASSUME NEW n \in 1 .. Len(k)
       PROVE  /\ n <= p => n \in 1 .. p /\ k[n] = first[n] /\ k[n] \in W /\ k[n] \in pins
              /\ ~(n <= p) => n - p \in 1 .. r /\ k[n] = rest[n - p] /\ k[n] \in W /\ k[n] \notin pins
  <2>1. n \in 1 .. Len(c) /\ k[n] = c[n] /\ n \in Nat
    BY <1>16
  <2>2. ASSUME n <= p PROVE n \in 1 .. p /\ k[n] = first[n] /\ k[n] \in W /\ k[n] \in pins
    <3>1. n \in 1 .. p /\ k[n] = first[n]
      BY <1>8, <1>15, <2>1, <2>2
    <3> QED BY <1>3, <1>8, <3>1 DEF Has
  <2>3. ASSUME ~(n <= p) PROVE n - p \in 1 .. r /\ k[n] = rest[n - p] /\ k[n] \in W /\ k[n] \notin pins
    <3>1. PICK j \in 1 .. Len(q) : j = n - p
      <4>1. PICK a \in Nat : a = Len(q)
        BY <1>11
      <4>2. Len(c) = p + a
        BY <1>15, <4>1
      <4>3. n \in Nat /\ n <= p + a
        BY <2>1, <4>1, <4>2
      <4>4. n - p \in 1 .. a
        BY <2>3, <4>3
      <4> QED BY <4>1, <4>4
    <3>2. k[n] = q[j]
      BY <1>8, <1>15, <2>1, <2>3, <3>1
    <3>3. j \in 1 .. r /\ k[n] = rest[j]
      BY <1>11, <3>2
    <3> QED BY <1>4, <1>8, <3>1, <3>3 DEF Has
  <2> QED BY <2>2, <2>3
<1>20. \A n \in 1 .. Len(k) : k[n] \in W
  BY <1>19
<1>21. ASSUME NEW n \in 1 .. Len(k), NEW l \in 1 .. Len(k), n < l
       PROVE  \/ k[n] \in pins /\ k[l] \notin pins
              \/ /\ k[n] \in pins <=> k[l] \in pins
                 /\ Position(s, k[n]) < Position(s, k[l])
  <2>1. CASE l <= p
    <3>1. n <= p
      BY <1>8, <1>16, <1>21, <2>1
    <3> QED BY <1>3, <1>8, <1>19, <1>21, <2>1, <3>1 DEF InOrderOf
  <2>2. CASE n <= p /\ ~(l <= p)
    BY <1>19, <2>2
  <2>3. CASE ~(n <= p) /\ ~(l <= p)
    <3>1. PICK i \in 1 .. r, j \in 1 .. r : i = n - p /\ j = l - p
      BY <1>19, <2>3
    <3>2. i < j
      BY <1>8, <1>16, <1>21, <3>1
    <3>3. k[n] = rest[i] /\ k[l] = rest[j] /\ k[n] \notin pins /\ k[l] \notin pins
      BY <1>19, <2>3, <3>1
    <3> QED BY <1>4, <1>8, <3>2, <3>3 DEF InOrderOf
  <2> QED BY <2>1, <2>2, <2>3
<1>22. Once(k)
  <2>1. ASSUME NEW n \in 1 .. Len(k), NEW l \in 1 .. Len(k), n < l PROVE k[n] # k[l]
    <3>1. CASE k[n] \in pins /\ k[l] \notin pins
      BY <3>1
    <3>2. CASE Position(s, k[n]) < Position(s, k[l])
      <4>1. PICK i \in 1 .. Len(s) : s[i] = k[n]
        BY <1>5, <1>20
      <4>2. Position(s, k[n]) = i /\ i \in Nat
        BY <4>1, PositionIs
      <4> QED BY <3>2, <4>2
    <3> QED BY <1>21, <2>1, <3>1, <3>2
  <2>2. \A n \in 1 .. Len(k) : n \in Nat
    OBVIOUS
  <2> QED BY <2>1, <2>2 DEF Once
<1>23. ASSUME NEW t \in W, NEW n \in 1 .. Len(k), t \in pins, k[n] \notin pins PROVE Listing(k, t)
  <2>1. PICK i \in 1 .. p : first[i] = t
    BY <1>3, <1>8, <1>23 DEF Has
  <2>2. ~(n <= p)
    BY <1>19, <1>23
  <2>3. i \in 1 .. Len(k) /\ i <= p
    BY <1>8, <1>16, <2>2
  <2>4. k[i] = t
    BY <1>19, <2>1, <2>3
  <2> QED BY <2>3, <2>4 DEF Listing
<1> QED BY <1>14, <1>16, <1>18, <1>20, <1>21, <1>22, <1>23

\* The active tab is one that is kept.
LEMMA NearestIs ==
  ASSUME NEW kept \in Seq(Tabs), NEW tabs \in Seq(Tabs), NEW active \in Nat,
         \A n \in 1 .. Len(kept) : Listing(tabs, kept[n])
  PROVE  IF kept = << >> THEN Nearest(kept, tabs, active) = None ELSE Listing(kept, Nearest(kept, tabs, active))
<1>1. CASE kept = << >>
  BY <1>1 DEF Nearest
<1>2. CASE kept # << >>
  <2>1. PICK k \in Nat : k = Len(kept)
    OBVIOUS
  <2>2. k # 0 /\ 1 \in 1 .. k /\ DOMAIN kept = 1 .. k
    BY <1>2, <2>1
  <2>3. PICK g : g = [n \in 1 .. k |-> Gap(Position(tabs, kept[n]), active)]
    OBVIOUS
  <2>4. ASSUME NEW n \in 1 .. k PROVE g[n] \in Nat
    <3>1. Position(tabs, kept[n]) \in Nat
      <4>1. PICK i \in DOMAIN tabs : tabs[i] = kept[n]
        BY <2>1 DEF Listing
      <4>2. (CHOOSE j \in DOMAIN tabs : tabs[j] = kept[n]) \in DOMAIN tabs
        BY <4>1
      <4>3. DOMAIN tabs \subseteq Nat
        OBVIOUS
      <4> QED BY <4>2, <4>3 DEF Position
    <3> QED BY <2>3, <3>1 DEF Gap
  <2>5. PICK G : G = { g[n] : n \in 1 .. k }
    OBVIOUS
  <2>6. G \subseteq Nat /\ G # {}
    BY <2>2, <2>4, <2>5
  <2>7. PICK m \in G : \A y \in G : m <= y
    BY <2>6, LeastNumber
  <2>8. PICK I : I = { n \in 1 .. k : g[n] = m }
    OBVIOUS
  <2>9. I \subseteq Nat /\ I # {}
    BY <2>5, <2>8
  <2>10. PICK i \in I : \A j \in I : i <= j
    BY <2>9, LeastNumber
  <2>11. \A j \in 1 .. k : g[i] < g[j] \/ (g[i] = g[j] /\ i <= j)
    BY <2>4, <2>5, <2>6, <2>7, <2>8, <2>10
  <2>12. PICK c : c = CHOOSE n \in DOMAIN kept :
                       \A j \in DOMAIN kept :
                         \/ Gap(Position(tabs, kept[n]), active) < Gap(Position(tabs, kept[j]), active)
                         \/ /\ Gap(Position(tabs, kept[n]), active) = Gap(Position(tabs, kept[j]), active)
                            /\ n <= j
    OBVIOUS
  <2>13. c \in DOMAIN kept
    <3>1. \A j \in DOMAIN kept :
            \/ Gap(Position(tabs, kept[i]), active) < Gap(Position(tabs, kept[j]), active)
            \/ /\ Gap(Position(tabs, kept[i]), active) = Gap(Position(tabs, kept[j]), active)
               /\ i <= j
      BY <2>2, <2>3, <2>8, <2>11
    <3>2. i \in DOMAIN kept
      BY <2>2, <2>8
    <3> QED BY <2>12, <3>1, <3>2, Zenon
  <2>14. Nearest(kept, tabs, active) = kept[c]
    BY <1>2, <2>12, Zenon DEF Nearest
  <2> QED BY <1>2, <2>1, <2>2, <2>13, <2>14 DEF Listing
<1> QED BY <1>1, <1>2

\* What is listed for the session: the open tabs, or the pinned ones of them.
LEMMA ListedIs ==
  ASSUME NEW w \in TabsType, WindowFits(w), NEW mode,
         NEW A, A = { t \in Tabs : Listing(w.bar, t) /\ t \notin w.closing /\ (mode = "RestoreTabs" \/ t \in w.pinned) }
  PROVE  Listed(w, mode) \in Seq(Tabs) /\ InOrderOf(w.bar, Listed(w, mode)) /\ Has(Listed(w, mode), A)
<1>1. PICK B : B = { t \in Tabs : t \notin w.closing /\ (mode = "RestoreTabs" \/ t \in w.pinned) }
  OBVIOUS
<1>2. PICK s \in Seq(Tabs) : s = w.bar
  BY DEF TabsType
<1>3. Once(s) /\ w.stack = s
  BY <1>2 DEF WindowFits
<1>4. PICK kept : kept = { i \in DOMAIN s : s[i] \notin w.closing /\ (mode = "RestoreTabs" \/ s[i] \in w.pinned) }
  OBVIOUS
<1>5. kept = { i \in DOMAIN s : s[i] \in B }
  BY <1>1, <1>4
<1>6. InOrderOf(s, s) /\ Has(s, TabsOf(s))
  BY <1>3, OwnOrder, TabsAreHad
<1>7. PICK z : z = ElementsAt(s, kept)
  OBVIOUS
<1>8. z \in Seq(Tabs) /\ InOrderOf(s, z) /\ Has(z, TabsOf(s) \cap B)
  BY <1>5, <1>6, <1>7, DrawnAre
<1>9. TabsOf(s) \cap B = A
  BY <1>1, <1>2 DEF TabsOf
<1>10. Listed(w, mode) = z
  BY <1>3, <1>4, <1>7 DEF Listed, ElementsWith
<1> QED BY <1>2, <1>8, <1>9, <1>10

EntriesOf(kept, pins) == [i \in DOMAIN kept |-> [tab |-> kept[i], pinned |-> kept[i] \in pins]]

LEMMA EntriesAre ==
  ASSUME NEW kept \in Seq(Tabs), NEW pins
  PROVE  /\ EntriesOf(kept, pins) \in Seq(Entry) /\ Len(EntriesOf(kept, pins)) = Len(kept)
         /\ \A i \in 1 .. Len(kept) :
              EntriesOf(kept, pins)[i].tab = kept[i] /\ (EntriesOf(kept, pins)[i].pinned <=> kept[i] \in pins)
<1>1. PICK e : e = EntriesOf(kept, pins)
  OBVIOUS
<1>2. PICK n \in Nat : n = Len(kept) /\ DOMAIN kept = 1 .. n
  OBVIOUS
<1>3. e = [i \in 1 .. n |-> [tab |-> kept[i], pinned |-> kept[i] \in pins]]
  BY <1>1, <1>2 DEF EntriesOf
<1>4. ASSUME NEW i \in 1 .. n
      PROVE  e[i] \in Entry /\ e[i].tab = kept[i] /\ (e[i].pinned <=> kept[i] \in pins)
  <2>1. e[i] = [tab |-> kept[i], pinned |-> kept[i] \in pins]
    BY <1>3
  <2>2. kept[i] \in Tabs
    BY <1>2
  <2>3. PICK b \in BOOLEAN : b <=> kept[i] \in pins
    OBVIOUS
  <2>4. (kept[i] \in pins) = b
    BY <2>3
  <2>5. e[i] = [tab |-> kept[i], pinned |-> b]
    BY <2>1, <2>4
  <2>6. e[i] \in Entry /\ e[i].tab = kept[i]
    BY <2>2, <2>5 DEF Entry
  <2>7. e[i].pinned = b
    BY <2>5
  <2> QED BY <2>3, <2>6, <2>7
<1>5. e \in [1 .. n -> Entry]
  BY <1>3, <1>4
<1>6. e \in Seq(Entry) /\ Len(e) = n
  BY <1>3, <1>5
<1> QED BY <1>1, <1>2, <1>4, <1>6

\* The session that is saved has what is wanted.
LEMMA SessionFits ==
  ASSUME NEW w \in TabsType, WindowFits(w), NEW mode \in { "StartPage", "RestoreTabs" }
  PROVE  /\ SessionOf(w, mode) \in FileType
         /\ FileFits(SessionOf(w, mode).tabs, SessionOf(w, mode).active)
         /\ Tells(SessionOf(w, mode).tabs, w.bar, Wanted(w.bar, w.closing, w.web, w.pinned, mode), w.pinned)
<1>1. PICK A : A = { t \in Tabs : Listing(w.bar, t) /\ t \notin w.closing /\ (mode = "RestoreTabs" \/ t \in w.pinned) }
  OBVIOUS
<1>2. PICK listed : listed = Listed(w, mode)
  OBVIOUS
<1>3. PICK s \in Seq(Tabs) : s = w.bar
  BY DEF TabsType
<1>4. Once(s) /\ w.stack = s
  BY <1>3 DEF WindowFits
<1>5. listed \in Seq(Tabs) /\ InOrderOf(s, listed) /\ Has(listed, A)
  BY <1>1, <1>2, <1>3, ListedIs
<1>6. PICK W : W = Wanted(w.bar, w.closing, w.web, w.pinned, mode)
  OBVIOUS
<1>7. W = A \cap w.web
  BY <1>1, <1>6 DEF Wanted
<1>8. PICK F : F = SessionOf(w, mode)
  OBVIOUS
<1>9. CASE w.discard \/ listed = << >>
  <2>1. F = NoFile
    BY <1>2, <1>8, <1>9 DEF SessionOf
  <2>2. F.tabs = << >> /\ F.active = None /\ F.kind = "none"
    BY <2>1 DEF NoFile, File
  <2>3. << >> \in Seq(Entry)
    BY EmptySeq
  <2>4. F \in FileType
    BY <2>1, <2>3 DEF NoFile, File, FileType
  <2>5. A = {}
    <3>1. CASE w.discard
      <4>1. s = << >>
        BY <1>3, <3>1 DEF WindowFits
      <4>2. \A t : ~Listing(s, t)
        BY <4>1 DEF Listing
      <4> QED BY <1>1, <1>3, <4>2
    <3>2. CASE listed = << >>
      <4>1. \A t : t \notin A
        BY <1>5, <3>2 DEF Has
      <4> QED BY <4>1
    <3> QED BY <1>9, <3>1, <3>2
  <2>6. W = {}
    BY <1>7, <2>5
  <2>7. FileFits(<< >>, None)
    <3>1. MaxRestored \in Nat
      BY TabSessionAssumption
    <3> QED BY <3>1 DEF FileFits
  <2>8. Tells(<< >>, w.bar, {}, w.pinned)
    BY NothingTells
  <2> QED BY <1>6, <1>8, <2>2, <2>4, <2>6, <2>7, <2>8
<1>10. CASE ~(w.discard \/ listed = << >>)
  <2>1. PICK v : v = ElementsWith(listed, LAMBDA t : t \in w.web)
    OBVIOUS
  <2>2. v \in Seq(Tabs) /\ InOrderOf(s, v) /\ Has(v, W)
    <3>1. PICK kept : kept = { i \in DOMAIN listed : listed[i] \in w.web }
      OBVIOUS
    <3>2. v = ElementsAt(listed, kept)
      BY <2>1, <3>1 DEF ElementsWith
    <3> QED BY <1>5, <1>7, <3>1, <3>2, DrawnAre
  <2>3. W \in SUBSET TabsOf(s)
    BY <1>1, <1>3, <1>7 DEF TabsOf
  <2>4. PICK k : k = Canonical(v, w.pinned)
    OBVIOUS
  <2>5. /\ k \in Seq(Tabs) /\ Once(k) /\ Len(k) = Min({Cardinality(W), MaxRestored}) /\ Len(k) <= MaxRestored
        /\ \A n \in 1 .. Len(k) : k[n] \in W
        /\ \A n, l \in 1 .. Len(k) :
             n < l => \/ k[n] \in w.pinned /\ k[l] \notin w.pinned
                      \/ /\ k[n] \in w.pinned <=> k[l] \in w.pinned
                         /\ Position(s, k[n]) < Position(s, k[l])
        /\ \A t \in W, n \in 1 .. Len(k) : t \in w.pinned /\ k[n] \notin w.pinned => Listing(k, t)
    <3>1. PICK pins : pins = w.pinned
      OBVIOUS
    <3>2. /\ Canonical(v, pins) \in Seq(Tabs) /\ Once(Canonical(v, pins))
          /\ Len(Canonical(v, pins)) = Min({Cardinality(W), MaxRestored})
          /\ Len(Canonical(v, pins)) <= MaxRestored
          /\ \A n \in 1 .. Len(Canonical(v, pins)) : Canonical(v, pins)[n] \in W
          /\ \A n, l \in 1 .. Len(Canonical(v, pins)) :
               n < l => \/ Canonical(v, pins)[n] \in pins /\ Canonical(v, pins)[l] \notin pins
                        \/ /\ Canonical(v, pins)[n] \in pins <=> Canonical(v, pins)[l] \in pins
                           /\ Position(s, Canonical(v, pins)[n]) < Position(s, Canonical(v, pins)[l])
          /\ \A t \in W, n \in 1 .. Len(Canonical(v, pins)) :
               t \in pins /\ Canonical(v, pins)[n] \notin pins => Listing(Canonical(v, pins), t)
      BY <1>4, <2>2, <2>3, CanonicalIs, Zenon
    <3> QED BY <2>4, <3>1, <3>2, Zenon
  <2>6. PICK before : before = { i \in DOMAIN listed : w.current # None
                                   /\ Position(w.stack, listed[i]) <= Position(w.bar, w.current) }
    OBVIOUS
  <2>7. PICK active : active = IF before = {} THEN 1 ELSE Max(before)
    OBVIOUS
  <2>8. active \in Nat
    <3>1. CASE before = {}
      BY <2>7, <3>1
    <3>2. CASE before # {}
      <4>1. before \in SUBSET Nat /\ Len(listed) \in Nat /\ \A n \in before : n <= Len(listed)
        BY <1>5, <2>6
      <4>2. Max(before) \in before
        BY <3>2, <4>1, LargestOfBounded
      <4> QED BY <2>7, <3>2, <4>1, <4>2
    <3> QED BY <3>1, <3>2
  <2>9. PICK near : near = Nearest(k, listed, active)
    OBVIOUS
  <2>10. IF k = << >> THEN near = None ELSE Listing(k, near)
    <3>1. \A n \in 1 .. Len(k) : Listing(listed, k[n])
      BY <1>5, <1>7, <2>5 DEF Has, Listing
    <3> QED BY <1>5, <2>5, <2>8, <2>9, <3>1, NearestIs
  <2>11. PICK e : e = EntriesOf(k, w.pinned)
    OBVIOUS
  <2>12. /\ e \in Seq(Entry) /\ Len(e) = Len(k)
         /\ \A i \in 1 .. Len(k) : e[i].tab = k[i] /\ (e[i].pinned <=> k[i] \in w.pinned)
    BY <2>5, <2>11, EntriesAre
  <2>13. F = File("session", e, near)
    BY <1>2, <1>8, <1>10, <2>1, <2>4, <2>6, <2>7, <2>9, <2>11, Zenon DEF SessionOf, EntriesOf
  <2>14. F.tabs = e /\ F.active = near
    BY <2>13 DEF File
  <2>15. near \in Tabs \cup {None}
    <3>1. CASE k = << >>
      BY <2>10, <3>1
    <3>2. CASE k # << >>
      <4>1. PICK i \in 1 .. Len(k) : k[i] = near
        BY <2>10, <3>2 DEF Listing
      <4>2. k[i] \in Tabs
        BY <2>5
      <4> QED BY <4>1, <4>2
    <3> QED BY <3>1, <3>2
  <2>16. F \in FileType
    BY <2>12, <2>13, <2>15 DEF File, FileType
  <2>17. FileFits(e, near)
    <3>1. \A i, j \in 1 .. Len(e) : e[i].tab = e[j].tab => i = j
      <4>1. \A i, j \in 1 .. Len(k) : k[i] = k[j] => i = j
        BY <2>5, Zenon DEF Once
      <4> QED BY <2>12, <4>1
    <3>2. \A i, j \in 1 .. Len(e) : i < j /\ e[j].pinned => e[i].pinned
      BY <2>5, <2>12
    <3>3. Len(e) <= MaxRestored
      BY <2>5, <2>12
    <3>4. IF e = << >> THEN near = None ELSE \E i \in 1 .. Len(e) : e[i].tab = near
      <4>1. e = << >> <=> k = << >>
        BY <2>5, <2>12
      <4> QED BY <2>10, <2>12, <4>1 DEF Listing
    <3> QED BY <3>1, <3>2, <3>3, <3>4, Zenon DEF FileFits
  <2>18. Tells(e, s, W, w.pinned)
    <3>1. \A i \in 1 .. Len(e) : e[i].tab \in W /\ (e[i].pinned <=> e[i].tab \in w.pinned)
      BY <2>5, <2>12
    <3>2. Len(e) = Min({Cardinality(W), MaxRestored})
      BY <2>5, <2>12
    <3>3. ASSUME NEW i \in 1 .. Len(e), NEW j \in 1 .. Len(e), i < j
          PROVE  \/ e[i].pinned /\ ~e[j].pinned
                 \/ (e[i].pinned <=> e[j].pinned) /\ Position(s, e[i].tab) < Position(s, e[j].tab)
      BY <2>5, <2>12, <3>3
    <3>4. ASSUME NEW t \in W, NEW i \in 1 .. Len(e), t \in w.pinned, ~e[i].pinned
          PROVE  \E j \in 1 .. Len(e) : e[j].tab = t
      <4>1. Listing(k, t)
        BY <2>5, <2>12, <3>4
      <4> QED BY <2>12, <4>1 DEF Listing
    <3> QED BY <3>1, <3>2, <3>3, <3>4 DEF Tells
  <2> QED BY <1>3, <1>6, <1>8, <2>14, <2>16, <2>17, <2>18
<1> QED BY <1>9, <1>10

\* A save is made, or fails and leaves the file behind.
LEMMA SaveFits ==
  ASSUME NEW S, Sound(S), Live(S), NEW T \in Saved(S)
  PROVE  /\ TbInv(T) /\ Live(T) /\ T.mode = S.mode
         /\ T.open = [S.open EXCEPT !.timer = FALSE]
<1>1. S \in TbType
  BY DEF Sound
<1>2. PICK F : F = SessionOf(S.open, S.mode)
  OBVIOUS
<1>3. S.open \in TabsType /\ S.mode \in { "StartPage", "RestoreTabs" }
  BY <1>1 DEF TbType
<1>4. WindowFits(S.open)
  BY DEF Sound
<1>5. F \in FileType /\ FileFits(F.tabs, F.active)
      /\ Tells(F.tabs, S.open.bar, Wanted(S.open.bar, S.open.closing, S.open.web, S.open.pinned, S.mode), S.open.pinned)
  BY <1>2, <1>3, <1>4, SessionFits
<1>6. PICK w : w = [S.open EXCEPT !.timer = FALSE]
  OBVIOUS
<1>7. w \in TabsType
  BY <1>3, <1>6 DEF TabsType
<1>8. /\ w.bar = S.open.bar /\ w.stack = S.open.stack /\ w.current = S.open.current /\ w.shown = S.open.shown
      /\ w.pinned = S.open.pinned /\ w.web = S.open.web /\ w.closing = S.open.closing /\ w.drag = S.open.drag
  BY <1>3, <1>6 DEF TabsType
<1>9. w.ready = S.open.ready /\ w.discard = S.open.discard
  BY <1>3, <1>6, Zenon DEF TabsType
<1>10. \/ T = [S EXCEPT !.file = F, !.behind = FALSE, !.open = w]
       \/ T = [S EXCEPT !.behind = TRUE, !.open = w]
  BY <1>1, <1>2, <1>6 DEF Saved, TbType
<1>11. T \in TbType
  BY <1>1, <1>5, <1>7, <1>10 DEF TbType
<1>12. T.open = w /\ T.mode = S.mode
  BY <1>1, <1>10 DEF TbType
<1>13. T.running = S.running
  BY <1>1, <1>10, Zenon DEF TbType
<1>14. T.behind \/ T.file = F
  BY <1>1, <1>10, Zenon DEF TbType
<1>15. T.file \in { F, S.file }
  BY <1>1, <1>10, Zenon DEF TbType
<1>16. Live(T)
  BY <1>9, <1>12, <1>13 DEF Live
<1>17. Sound(T)
  <2>1. WindowFits(w)
    BY <1>4, <1>8, <1>9, Zenon DEF WindowFits
  <2>2. CurrentFits(w)
    BY <1>8, Zenon DEF Sound, CurrentFits
  <2>3. FileFits(T.file.tabs, T.file.active)
    BY <1>5, <1>15 DEF Sound
  <2> QED BY <1>11, <1>12, <1>16, <2>1, <2>2, <2>3, Zenon DEF Sound
<1>18. Told(T)
  BY <1>5, <1>8, <1>12, <1>14, <1>16, Zenon DEF Told
<1> QED BY <1>6, <1>12, <1>16, <1>17, <1>18 DEF TbInv

----------------------------------------------------------------------------
(***************************************************************************)
(* A start brings back tabs of the file.                                   *)
(***************************************************************************)
LEMMA ToSetIs ==
  ASSUME NEW s \in Seq(Tabs)
  PROVE  ToSet(s) \in SUBSET Tabs /\ \A t : t \in ToSet(s) <=> Listing(s, t)
<1>1. DOMAIN s = 1 .. Len(s)
  OBVIOUS
<1>2. \A t : t \in ToSet(s) <=> Listing(s, t)
  BY <1>1 DEF ToSet, Listing
<1> QED BY <1>2 DEF Listing

LEMMA NoTabsAre ==
  /\ NoTabs \in TabsType /\ WindowFits(NoTabs) /\ CurrentFits(NoTabs)
  /\ NoTabs.bar = << >> /\ NoTabs.ready = FALSE /\ NoTabs.timer = FALSE /\ NoTabs.closing = {}
  /\ NoTabs.visible = FALSE /\ NoTabs.drag = None
<1>1. << >> \in Seq(Tabs) /\ << >> \in Seq(ClosedEntry)
  BY EmptySeq
<1>2. NoTabs \in TabsType
  BY <1>1 DEF NoTabs, TabsType
<1>3. /\ NoTabs.bar = << >> /\ NoTabs.stack = << >> /\ NoTabs.current = None /\ NoTabs.shown = None
      /\ NoTabs.closing = {} /\ NoTabs.drag = None /\ NoTabs.ready = FALSE /\ NoTabs.timer = FALSE
      /\ NoTabs.visible = FALSE
  BY DEF NoTabs
<1>4. Once(<< >>)
  BY DEF Once
<1> QED BY <1>2, <1>3, <1>4 DEF WindowFits, CurrentFits

\* The entries of a file, which name a tab once.
NamesTabsOnce(entries) == \A i, j \in 1 .. Len(entries) : entries[i].tab = entries[j].tab => i = j

Naming(entries, t) == \E i \in 1 .. Len(entries) : entries[i].tab = t

LEMMA RestoredFits ==
  ASSUME NEW S, Sound(S), S.running, ~S.open.ready,
         NEW entries \in Seq(Entry), NamesTabsOnce(entries),
         NEW current, IF entries = << >> THEN current = None ELSE Naming(entries, current)
  PROVE  /\ Sound(Restored(S, entries, current)) /\ Live(Restored(S, entries, current))
         /\ Restored(S, entries, current).mode = S.mode /\ Restored(S, entries, current).file = S.file
         /\ Restored(S, entries, current).behind = S.behind
         /\ Len(Restored(S, entries, current).open.bar) = Len(entries)
         /\ \A i \in 1 .. Len(entries) : Restored(S, entries, current).open.bar[i] = entries[i].tab
         /\ Restored(S, entries, current).open.closing = {}
         /\ \A t : t \in Restored(S, entries, current).open.web <=> Naming(entries, t)
         /\ \A t : t \in Restored(S, entries, current).open.pinned <=>
                     \E i \in 1 .. Len(entries) : entries[i].tab = t /\ entries[i].pinned
<1>1. S \in TbType /\ S.open = NoTabs
  BY DEF Sound, Live
<1>2. PICK n \in Nat : n = Len(entries) /\ DOMAIN entries = 1 .. n
  OBVIOUS
<1>3. PICK order : order = [i \in DOMAIN entries |-> entries[i].tab]
  OBVIOUS
<1>4. \A i \in 1 .. n : entries[i].tab \in Tabs
  <2>1. ASSUME NEW i \in 1 .. n PROVE entries[i].tab \in Tabs
    <3>1. entries[i] \in Entry
      BY <1>2
    <3> QED BY <3>1 DEF Entry
  <2> QED BY <2>1
<1>5. order \in Seq(Tabs) /\ Len(order) = n /\ \A i \in 1 .. n : order[i] = entries[i].tab
  <2>1. order \in [1 .. n -> Tabs]
    BY <1>2, <1>3, <1>4
  <2> QED BY <1>2, <1>3, <2>1
<1>6. \A t : Listing(order, t) <=> Naming(entries, t)
  BY <1>2, <1>5 DEF Listing, Naming
<1>7. PICK all \in SUBSET Tabs : all = ToSet(order)
  BY <1>5, ToSetIs
<1>8. \A t : t \in all <=> Naming(entries, t)
  BY <1>5, <1>6, <1>7, ToSetIs
<1>9. PICK pins \in SUBSET Tabs : pins = { entries[i].tab : i \in { j \in DOMAIN entries : entries[j].pinned } }
  BY <1>2, <1>4
<1>10. \A t : t \in pins <=> \E i \in 1 .. n : entries[i].tab = t /\ entries[i].pinned
  BY <1>2, <1>9
<1>11. PICK gone \in SUBSET Tabs :
         gone = IF S.mode # "RestoreTabs" THEN {}
                ELSE { S.file.tabs[i].tab : i \in DOMAIN S.file.tabs } \ ToSet(order)
  <2>1. \A i \in DOMAIN S.file.tabs : S.file.tabs[i].tab \in Tabs
    <3>1. S.file.tabs \in Seq(Entry)
      BY <1>1 DEF TbType, FileType
    <3>2. ASSUME NEW i \in DOMAIN S.file.tabs PROVE S.file.tabs[i].tab \in Tabs
      <4>1. S.file.tabs[i] \in Entry
        BY <3>1
      <4> QED BY <4>1 DEF Entry
    <3> QED BY <3>2
  <2> QED BY <2>1
<1>12. PICK T : T = Restored(S, entries, current)
  OBVIOUS
<1>13. PICK w : w = [NoTabs EXCEPT !.bar = order, !.stack = order, !.web = all, !.lazy = all, !.pinned = pins,
                                   !.ready = TRUE, !.visible = TRUE, !.discard = FALSE,
                                   !.current = current, !.shown = current]
  OBVIOUS
<1>14. current \in Tabs \cup {None}
  BY <1>2, <1>4 DEF Naming
<1>15. NoTabs \in TabsType /\ NoTabs.closing = {} /\ NoTabs.drag = None
  BY NoTabsAre
<1>16. w \in TabsType
  <2>1. PICK z \in TabsType : z = [NoTabs EXCEPT !.bar = order, !.stack = order, !.web = all]
    BY <1>5, <1>15 DEF TabsType
  <2>2. PICK v \in TabsType : v = [z EXCEPT !.lazy = all, !.pinned = pins]
    <3>1. [z EXCEPT !.lazy = all, !.pinned = pins] \in TabsType
      BY <2>1 DEF TabsType
    <3> QED BY <3>1
  <2>3. w = [v EXCEPT !.ready = TRUE, !.visible = TRUE, !.discard = FALSE, !.current = current, !.shown = current]
    BY <1>13, <1>15, <2>1, <2>2 DEF TabsType
  <2> QED BY <1>14, <2>3 DEF TabsType
<1>17. /\ w.bar = order /\ w.stack = order /\ w.web = all /\ w.pinned = pins /\ w.ready = TRUE /\ w.discard = FALSE
       /\ w.current = current /\ w.shown = current /\ w.closing = {} /\ w.drag = None
  BY <1>13, <1>15 DEF TabsType
<1>18. T = [S EXCEPT !.open = w, !.dropped = gone]
  <2>1. T = [S EXCEPT !.open.bar = order, !.open.stack = order, !.open.web = all, !.open.lazy = all,
                      !.open.pinned = pins, !.open.ready = TRUE, !.open.visible = TRUE, !.open.discard = FALSE,
                      !.open.current = current, !.open.shown = current, !.dropped = gone]
    BY <1>3, <1>7, <1>9, <1>11, <1>12, Zenon DEF Restored
  <2>2. PICK T1 : T1 = [S EXCEPT !.open = [NoTabs EXCEPT !.bar = order, !.stack = order, !.web = all]]
    OBVIOUS
  <2>3. T1 = [S EXCEPT !.open.bar = order, !.open.stack = order, !.open.web = all]
    BY <1>1, <2>2 DEF TbType, TabsType
  <2>4. T1 \in TbType
    <3>1. PICK z \in TabsType : z = [NoTabs EXCEPT !.bar = order, !.stack = order, !.web = all]
      BY <1>5, <1>15 DEF TabsType
    <3>2. T1 = [S EXCEPT !.open = z]
      BY <2>2, <3>1
    <3> QED BY <1>1, <3>2 DEF TbType
  <2>5. PICK T2 : T2 = [T1 EXCEPT !.open = [T1.open EXCEPT !.lazy = all, !.pinned = pins, !.ready = TRUE]]
    OBVIOUS
  <2>6. T2 = [T1 EXCEPT !.open.lazy = all, !.open.pinned = pins, !.open.ready = TRUE]
    BY <2>4, <2>5 DEF TbType, TabsType
  <2>7. T2 \in TbType
    BY <2>4, <2>5 DEF TbType, TabsType
  <2>8. T = [T2 EXCEPT !.open.visible = TRUE, !.open.discard = FALSE, !.open.current = current,
                       !.open.shown = current, !.dropped = gone]
    BY <2>1, <2>3, <2>6
  <2>9. T = [T2 EXCEPT !.open = [T2.open EXCEPT !.visible = TRUE, !.discard = FALSE, !.current = current,
                                                !.shown = current], !.dropped = gone]
    BY <1>14, <2>7, <2>8 DEF TbType, TabsType
  <2>10. T2.open = [NoTabs EXCEPT !.bar = order, !.stack = order, !.web = all, !.lazy = all, !.pinned = pins,
                                  !.ready = TRUE]
    BY <1>1, <1>15, <2>2, <2>4, <2>5 DEF TbType, TabsType
  <2>11. w = [T2.open EXCEPT !.visible = TRUE, !.discard = FALSE, !.current = current, !.shown = current]
    BY <1>13, <1>15, <2>10 DEF TabsType
  <2>12. T = [T2 EXCEPT !.open = w, !.dropped = gone]
    BY <2>9, <2>11
  <2>13. T2 = [S EXCEPT !.open = T2.open]
    BY <1>1, <2>2, <2>4, <2>5 DEF TbType
  <2> QED BY <1>1, <2>7, <2>12, <2>13 DEF TbType
<1>19. T \in TbType
  BY <1>1, <1>16, <1>18 DEF TbType
<1>20. T.open = w /\ T.mode = S.mode /\ T.file = S.file
  BY <1>1, <1>18 DEF TbType
<1>21. T.running = S.running /\ T.behind = S.behind
  BY <1>1, <1>18, Zenon DEF TbType
<1>22. Live(T)
  BY <1>17, <1>20, <1>21 DEF Live
<1>23. WindowFits(w)
  <2>1. Once(order)
    BY <1>2, <1>5 DEF Once, NamesTabsOnce
  <2> QED BY <1>17, <2>1 DEF WindowFits
<1>24. CurrentFits(w)
  <2>1. order = << >> <=> entries = << >>
    BY <1>2, <1>5
  <2> QED BY <1>6, <1>17, <2>1 DEF CurrentFits
<1>25. Sound(T)
  BY <1>19, <1>20, <1>22, <1>23, <1>24 DEF Sound
<1> QED BY <1>2, <1>5, <1>8, <1>10, <1>12, <1>17, <1>20, <1>21, <1>22, <1>25

\* What comes back in the order of the file, in front of other tabs, is what the file tells.
LEMMA RestoredTells ==
  ASSUME NEW entries \in Seq(Entry), NEW active, FileFits(entries, active),
         NEW bar \in Seq(Tabs), Once(bar), Len(entries) <= Len(bar),
         \A i \in 1 .. Len(entries) : bar[i] = entries[i].tab,
         NEW wanted, \A t : t \in wanted <=> Naming(entries, t),
         NEW pins, \A i \in 1 .. Len(entries) : entries[i].pinned <=> entries[i].tab \in pins
  PROVE  Tells(entries, bar, wanted, pins)
<1>1. PICK n \in Nat : n = Len(entries) /\ DOMAIN entries = 1 .. n
  OBVIOUS
<1>2. \A i, j \in 1 .. n : i # j => entries[i].tab # entries[j].tab
  BY <1>1 DEF FileFits
<1>3. \A i \in 1 .. n : entries[i].tab \in wanted
  BY <1>1 DEF Naming
<1>4. n = Min({Cardinality(wanted), MaxRestored})
  <2>1. PICK order : order = [i \in 1 .. n |-> entries[i].tab]
    OBVIOUS
  <2>2. \A i \in 1 .. n : entries[i].tab \in Tabs
    BY <1>1 DEF Entry
  <2>3. order \in Seq(Tabs) /\ Len(order) = n /\ \A i \in 1 .. n : order[i] = entries[i].tab
    BY <2>1, <2>2
  <2>4. Once(order) /\ Has(order, wanted)
    BY <1>1, <1>2, <2>3 DEF Once, Has, Naming
  <2>5. Cardinality(wanted) = n
    BY <2>3, <2>4, AsLong
  <2>6. n <= MaxRestored /\ MaxRestored \in Nat
    BY <1>1, TabSessionAssumption DEF FileFits
  <2>7. Min({n, MaxRestored}) = n
    BY <2>6, LesserOf
  <2> QED BY <2>5, <2>7
<1>5. ASSUME NEW i \in 1 .. n, NEW j \in 1 .. n, i < j
      PROVE  \/ entries[i].pinned /\ ~entries[j].pinned
             \/ (entries[i].pinned <=> entries[j].pinned)
                /\ Position(bar, entries[i].tab) < Position(bar, entries[j].tab)
  <2>1. i \in 1 .. Len(bar) /\ j \in 1 .. Len(bar)
    BY <1>1
  <2>2. Position(bar, bar[i]) = i /\ Position(bar, bar[j]) = j
    BY <2>1, PositionIs
  <2>3. Position(bar, entries[i].tab) < Position(bar, entries[j].tab)
    BY <1>1, <1>5, <2>2
  <2>4. entries[j].pinned => entries[i].pinned
    BY <1>1, <1>5 DEF FileFits
  <2> QED BY <2>3, <2>4
<1>6. \A t \in wanted : \E j \in 1 .. n : entries[j].tab = t
  BY <1>1 DEF Naming
<1> QED BY <1>1, <1>3, <1>4, <1>5, <1>6 DEF Tells

LEMMA PinnedEntriesAre ==
  ASSUME NEW S \in TbType, FileFits(S.file.tabs, S.file.active)
  PROVE  /\ PinnedEntries(S) \in Seq(Entry) /\ NamesTabsOnce(PinnedEntries(S))
         /\ AllPinned(PinnedEntries(S))
         /\ IF PinnedEntries(S) = << >> THEN FirstOf(PinnedEntries(S)) = None
            ELSE Naming(PinnedEntries(S), FirstOf(PinnedEntries(S)))
         /\ AllPinned(S.file.tabs) => PinnedEntries(S) = S.file.tabs
<1>1. PICK s \in Seq(Entry) : s = S.file.tabs
  BY DEF TbType, FileType
<1>2. PICK kept \in SUBSET (1 .. Len(s)) : kept = { i \in DOMAIN s : s[i].pinned }
  <2>1. { i \in DOMAIN s : s[i].pinned } \in SUBSET (1 .. Len(s))
    OBVIOUS
  <2> QED BY <2>1
<1>3. PICK z : z = ElementsAt(s, kept)
  OBVIOUS
<1>4. z = PinnedEntries(S)
  BY <1>1, <1>2, <1>3 DEF PinnedEntries, ElementsWith
<1>5. /\ z \in Seq(Entry) /\ DOMAIN z = 1 .. Len(z) /\ Len(z) \in Nat
      /\ \A n \in 1 .. Len(z) : PlaceOf(kept, n) \in kept /\ z[n] = s[PlaceOf(kept, n)]
      /\ \A n, l \in 1 .. Len(z) : n < l => PlaceOf(kept, n) < PlaceOf(kept, l)
  <2>1. /\ z \in Seq(Entry)
        /\ \A n \in DOMAIN z : PlaceOf(kept, n) \in kept /\ z[n] = s[PlaceOf(kept, n)]
        /\ \A n, l \in DOMAIN z : n < l => PlaceOf(kept, n) < PlaceOf(kept, l)
    <3>1. /\ ElementsAt(s, kept) \in Seq(Entry)
          /\ \A n \in DOMAIN ElementsAt(s, kept) :
               PlaceOf(kept, n) \in kept /\ ElementsAt(s, kept)[n] = s[PlaceOf(kept, n)]
          /\ \A n, l \in DOMAIN ElementsAt(s, kept) : n < l => PlaceOf(kept, n) < PlaceOf(kept, l)
      BY ElementsHave, Zenon
    <3> QED BY <1>3, <3>1, Zenon
  <2>2. DOMAIN z = 1 .. Len(z) /\ Len(z) \in Nat
    BY <2>1
  <2> QED BY <2>1, <2>2, Zenon
<1>6. NamesTabsOnce(z)
  <2>1. ASSUME NEW n \in 1 .. Len(z), NEW l \in 1 .. Len(z), n < l PROVE z[n].tab # z[l].tab
    <3>1. PICK i \in 1 .. Len(s), j \in 1 .. Len(s) : i < j /\ z[n] = s[i] /\ z[l] = s[j]
      BY <1>2, <1>5, <2>1
    <3> QED BY <1>1, <3>1 DEF FileFits
  <2> QED BY <2>1, <1>5 DEF NamesTabsOnce
<1>7. AllPinned(z)
  BY <1>2, <1>5 DEF AllPinned
<1>8. IF z = << >> THEN FirstOf(z) = None ELSE Naming(z, FirstOf(z))
  <2>1. z # << >> => 1 \in 1 .. Len(z)
    BY <1>5
  <2> QED BY <2>1 DEF FirstOf, Naming
<1>9. ASSUME AllPinned(s) PROVE z = s
  <2>1. PICK n \in Nat : n = Len(s) /\ DOMAIN s = 1 .. n
    OBVIOUS
  <2>2. PICK f : f = [i \in 1 .. Len(s) |-> i]
    OBVIOUS
  <2>3. f \in [1 .. Len(s) -> 1 .. Len(s)] /\ \A i \in 1 .. Len(s) : f[i] = i
    BY <2>2
  <2>4. \A i, j \in 1 .. Len(s) : i < j => f[i] < f[j]
    BY <2>3
  <2>5. \A i \in 1 .. Len(s) : s[i] = s[f[i]]
    BY <2>3
  <2>6. ElementsAt(s, { f[i] : i \in 1 .. Len(s) }) = s
    BY <2>3, <2>4, <2>5, ElementsAre
  <2>7. { f[i] : i \in 1 .. Len(s) } = kept
    BY <1>2, <1>9, <2>1, <2>3 DEF AllPinned
  <2> QED BY <1>3, <2>6, <2>7
<1> QED BY <1>1, <1>4, <1>6, <1>5, <1>7, <1>8, <1>9

LEMMA FreshAre ==
  ASSUME NEW S \in TbType, NEW t
  PROVE  t \in Fresh(S) <=> t \in Tabs /\ ~Listing(S.open.bar, t)
<1>1. S.open.bar \in Seq(Tabs)
  BY DEF TbType, TabsType
<1>2. t \in ToSet(S.open.bar) <=> Listing(S.open.bar, t)
  BY <1>1, ToSetIs
<1> QED BY <1>2 DEF Fresh

\* The start page is a new tab.
LEMMA StartPageFits ==
  ASSUME NEW S, Sound(S), Live(S), NEW T \in StartPage(S)
  PROVE  /\ TbInv(T) /\ Live(T) /\ T.open.pinned = S.open.pinned /\ T.open.closing = S.open.closing
         /\ T.mode = S.mode /\ T.file = S.file /\ T.behind = S.behind
         /\ \E t \in Tabs : /\ ~Listing(S.open.bar, t) /\ T.open.bar = Append(S.open.bar, t)
                            /\ T.open.web \in { S.open.web, S.open.web \cup {t} }
<1>1. S \in TbType
  BY DEF Sound
<1>2. PICK t \in Fresh(S), web \in BOOLEAN : T = Create(S, t, TRUE, FALSE, web)
  BY DEF StartPage
<1>3. t \in Tabs /\ ~Listing(S.open.bar, t)
  BY <1>1, FreshAre
<1>4. /\ TbInv(T) /\ Live(T) /\ T.open.bar = Append(S.open.bar, t)
      /\ T.open.pinned = S.open.pinned
      /\ T.open.web \in { S.open.web, S.open.web \cup {t} }
      /\ T.open.closing = S.open.closing /\ T.mode = S.mode /\ T.file = S.file /\ T.behind = S.behind
  <2>1. PICK yes, no : yes = TRUE /\ no = FALSE
    OBVIOUS
  <2>2. T = Create(S, t, yes, no, web)
    BY <1>2, <2>1
  <2>3. /\ TbInv(T) /\ Live(T) /\ T.open.bar = Append(S.open.bar, t)
        /\ ~no => T.open.pinned = S.open.pinned
        /\ T.open.web \in { S.open.web, S.open.web \cup {t} }
        /\ T.open.closing = S.open.closing /\ T.mode = S.mode /\ T.file = S.file /\ T.behind = S.behind
    <3>1. TbInv(T) /\ Live(T) /\ T.open.bar = Append(S.open.bar, t)
      BY <1>3, <2>2, Created
    <3>2. ~no => T.open.pinned = S.open.pinned
      BY <1>3, <2>2, Created
    <3>3. T.open.web \in { S.open.web, S.open.web \cup {t} }
      BY <1>3, <2>2, Created, Zenon
    <3>4. T.open.closing = S.open.closing /\ T.mode = S.mode /\ T.file = S.file /\ T.behind = S.behind
      BY <1>3, <2>2, Created
    <3> QED BY <3>1, <3>2, <3>3, <3>4
  <2> QED BY <2>1, <2>3
<1> QED BY <1>3, <1>4

\* A window that has just been opened: its tabs are those of the file, and no save is due.
LEMMA RestoreInitialFits ==
  ASSUME NEW S, TbInv(S), S.running, ~S.open.ready, NEW T \in RestoreInitialTabs(S)
  PROVE  TbInv(T) /\ Live(T)
<1>1. S \in TbType /\ Sound(S) /\ ~Live(S) /\ FileFits(S.file.tabs, S.file.active)
  BY DEF TbInv, Sound, Live
<1>2. S.file.tabs \in Seq(Entry) /\ S.mode \in { "StartPage", "RestoreTabs" }
  BY <1>1 DEF TbType, FileType
<1>3. CASE S.mode = "StartPage"
  <2>1. PICK e : e = PinnedEntries(S)
    OBVIOUS
  <2>2. PICK c : c = FirstOf(PinnedEntries(S))
    OBVIOUS
  <2>3. PICK R : R = Restored(S, e, c)
    OBVIOUS
  <2>4. /\ e \in Seq(Entry) /\ NamesTabsOnce(e) /\ AllPinned(e)
        /\ IF e = << >> THEN c = None ELSE Naming(e, c)
        /\ AllPinned(S.file.tabs) => e = S.file.tabs
    BY <1>1, <2>1, <2>2, PinnedEntriesAre
  <2>5. /\ Sound(R) /\ Live(R) /\ R.mode = S.mode /\ R.file = S.file /\ R.behind = S.behind
        /\ Len(R.open.bar) = Len(e) /\ R.open.closing = {}
        /\ \A i \in 1 .. Len(e) : R.open.bar[i] = e[i].tab
        /\ \A t : t \in R.open.web <=> Naming(e, t)
        /\ \A t : t \in R.open.pinned <=> \E i \in 1 .. Len(e) : e[i].tab = t /\ e[i].pinned
    BY <1>1, <2>3, <2>4, RestoredFits
  <2>6. PICK P \in StartPage(R) : T = [P EXCEPT !.open.timer = FALSE, !.open.lazy = @ \cup ToSet(R.open.bar)]
    <3>1. T \in StartPageUnsaved(R)
      BY <1>3, <2>1, <2>2, <2>3 DEF RestoreInitialTabs
    <3> QED BY <3>1, Zenon DEF StartPageUnsaved
  <2>7. /\ TbInv(P) /\ Live(P) /\ P.open.pinned = R.open.pinned /\ P.open.closing = R.open.closing
        /\ P.mode = R.mode /\ P.file = R.file /\ P.behind = R.behind
        /\ \E t \in Tabs : /\ ~Listing(R.open.bar, t) /\ P.open.bar = Append(R.open.bar, t)
                           /\ P.open.web \in { R.open.web, R.open.web \cup {t} }
    BY <2>5, StartPageFits
  <2>8. P \in TbType /\ R \in TbType
    BY <2>5, <2>7 DEF TbInv, Sound
  <2>9. PICK lazy \in SUBSET Tabs : lazy = P.open.lazy \cup ToSet(R.open.bar)
    <3>1. R.open.bar \in Seq(Tabs) /\ P.open.lazy \in SUBSET Tabs
      BY <2>8 DEF TbType, TabsType
    <3> QED BY <3>1, ToSetIs
  <2>10. PICK w : w = [P.open EXCEPT !.timer = FALSE, !.lazy = lazy]
    OBVIOUS
  <2>11. T = [P EXCEPT !.open = w]
    BY <2>6, <2>8, <2>9, <2>10 DEF TbType, TabsType
  <2>12. w \in TabsType
    BY <2>8, <2>9, <2>10 DEF TbType, TabsType
  <2>13. T \in TbType
    BY <2>8, <2>11, <2>12 DEF TbType
  <2>14. /\ T.open.bar = P.open.bar /\ T.open.stack = P.open.stack /\ T.open.current = P.open.current
         /\ T.open.shown = P.open.shown /\ T.open.pinned = P.open.pinned /\ T.open.web = P.open.web
         /\ T.open.closing = P.open.closing /\ T.open.drag = P.open.drag
    BY <2>8, <2>10, <2>11, <2>12 DEF TbType, TabsType
  <2>15. T.open.discard = P.open.discard /\ T.open.ready = P.open.ready
    BY <2>8, <2>10, <2>11, <2>12, Zenon DEF TbType, TabsType
  <2>16. T.file = P.file /\ T.mode = P.mode
    BY <2>8, <2>11 DEF TbType
  <2>17. T.running = P.running /\ T.behind = P.behind
    BY <2>8, <2>11, Zenon DEF TbType
  <2>18. Live(T)
    BY <2>7, <2>15, <2>17, Zenon DEF Live
  <2>19. Sound(T)
    <3>1. WindowFits(T.open) /\ CurrentFits(T.open)
      BY <2>7, <2>14, <2>15, Zenon DEF TbInv, Sound, WindowFits, CurrentFits
    <3> QED BY <2>7, <2>13, <2>16, <2>18, <3>1, Zenon DEF TbInv, Sound
  <2>20. ASSUME ~T.behind
         PROVE  Tells(T.file.tabs, T.open.bar,
                      Wanted(T.open.bar, T.open.closing, T.open.web, T.open.pinned, T.mode), T.open.pinned)
    <3>1. ~S.behind
      BY <2>5, <2>7, <2>17, <2>20, Zenon
    <3>2. AllPinned(S.file.tabs)
      BY <1>1, <1>3, <3>1, Zenon DEF TbInv, Told
    <3>3. e = S.file.tabs
      BY <2>4, <3>2
    <3>4. PICK t \in Tabs : /\ ~Listing(R.open.bar, t) /\ P.open.bar = Append(R.open.bar, t)
                            /\ P.open.web \in { R.open.web, R.open.web \cup {t} }
      BY <2>7
    <3>5. PICK s \in Seq(Tabs) : s = R.open.bar /\ Once(s)
      BY <2>5, <2>8 DEF TbType, TabsType, Sound, WindowFits
    <3>6. PICK b : b = Append(s, t)
      OBVIOUS
    <3>7. /\ b \in Seq(Tabs) /\ Once(b) /\ \A z : Listing(b, z) <=> Listing(s, z) \/ z = t
          /\ Len(b) = Len(s) + 1 /\ \A i \in 1 .. Len(s) : b[i] = s[i]
      BY <3>4, <3>5, <3>6, AppendFits
    <3>8. T.open.bar = b
      BY <2>14, <3>4, <3>5, <3>6
    <3>9. Len(s) = Len(e) /\ Len(s) \in Nat /\ \A i \in 1 .. Len(e) : b[i] = e[i].tab
      BY <2>5, <3>5, <3>7
    <3>10. Len(e) <= Len(b)
      BY <3>7, <3>9
    <3>11. \A z : z \in T.open.pinned <=> Naming(e, z)
      BY <2>4, <2>5, <2>7, <2>14 DEF AllPinned, Naming
    <3>12. \A i \in 1 .. Len(e) : e[i].pinned <=> e[i].tab \in T.open.pinned
      BY <2>4, <3>11 DEF AllPinned, Naming
    <3>13. PICK W : W = Wanted(T.open.bar, T.open.closing, T.open.web, T.open.pinned, T.mode)
      OBVIOUS
    <3>14. ASSUME NEW z PROVE z \in W <=> Naming(e, z)
      <4>1. z \in W <=> z \in Tabs /\ Listing(b, z) /\ z \in T.open.web /\ z \in T.open.pinned
        BY <1>3, <2>5, <2>7, <2>14, <2>16, <3>8, <3>13 DEF Wanted
      <4>2. ASSUME Naming(e, z) PROVE z \in Tabs /\ Listing(b, z) /\ z \in T.open.web
        <5>1. z \in R.open.web
          BY <2>5, <4>2
        <5>2. z \in T.open.web
          BY <2>14, <3>4, <5>1
        <5>3. PICK i \in 1 .. Len(e) : e[i].tab = z
          BY <4>2 DEF Naming
        <5>4. i \in 1 .. Len(b) /\ b[i] = z
          BY <3>7, <3>9, <5>3
        <5>5. Listing(b, z)
          BY <5>4 DEF Listing
        <5>6. z \in Tabs
          BY <3>7, <5>4
        <5> QED BY <5>2, <5>5, <5>6
      <4> QED BY <3>11, <4>1, <4>2
    <3>15. Tells(e, b, W, T.open.pinned)
      BY <1>1, <2>4, <3>3, <3>7, <3>9, <3>10, <3>12, <3>14, RestoredTells
    <3>16. T.file.tabs = e
      BY <2>5, <2>7, <2>16, <3>3
    <3> QED BY <3>8, <3>13, <3>15, <3>16
  <2> QED BY <2>18, <2>19, <2>20, Zenon DEF TbInv, Told
<1>4. CASE S.mode # "StartPage" /\ S.file.tabs = << >>
  <2>1. PICK e : e = << >>
    OBVIOUS
  <2>2. PICK R : R = Restored(S, e, None)
    OBVIOUS
  <2>3. e \in Seq(Entry) /\ Len(e) = 0
    BY <2>1, EmptySeq
  <2>4. NamesTabsOnce(e)
    BY <2>3 DEF NamesTabsOnce
  <2>5. Sound(R) /\ Live(R)
    BY <1>1, <2>1, <2>2, <2>3, <2>4, RestoredFits
  <2>6. T \in StartPage(R)
    BY <1>2, <1>4, <2>1, <2>2 DEF RestoreInitialTabs
  <2> QED BY <2>5, <2>6, StartPageFits
<1>5. CASE S.mode # "StartPage" /\ S.file.tabs # << >>
  <2>1. PICK e \in Seq(Entry) : e = S.file.tabs
    BY <1>2
  <2>2. PICK R : R = Restored(S, e, S.file.active)
    OBVIOUS
  <2>3. NamesTabsOnce(e) /\ Naming(e, S.file.active) /\ e # << >>
    BY <1>1, <1>5, <2>1 DEF FileFits, NamesTabsOnce, Naming
  <2>4. /\ Sound(R) /\ Live(R) /\ R.mode = S.mode /\ R.file = S.file /\ R.behind = S.behind
        /\ Len(R.open.bar) = Len(e) /\ R.open.closing = {}
        /\ \A i \in 1 .. Len(e) : R.open.bar[i] = e[i].tab
        /\ \A t : t \in R.open.web <=> Naming(e, t)
        /\ \A t : t \in R.open.pinned <=> \E i \in 1 .. Len(e) : e[i].tab = t /\ e[i].pinned
    BY <1>1, <2>2, <2>3, RestoredFits
  <2>5. T = [R EXCEPT !.open.lazy = @ \ {S.file.active}]
    BY <1>2, <1>5, <2>1, <2>2 DEF RestoreInitialTabs
  <2>6. R \in TbType
    BY <2>4 DEF Sound
  <2>7. T \in TbType
    BY <2>5, <2>6 DEF TbType, TabsType
  <2>8. /\ T.open.bar = R.open.bar /\ T.open.stack = R.open.stack /\ T.open.current = R.open.current
        /\ T.open.shown = R.open.shown /\ T.open.pinned = R.open.pinned /\ T.open.web = R.open.web
        /\ T.open.closing = R.open.closing /\ T.open.drag = R.open.drag
    BY <2>5, <2>6 DEF TbType, TabsType
  <2>9. T.open.discard = R.open.discard /\ T.open.ready = R.open.ready /\ T.open.timer = R.open.timer
    BY <2>5, <2>6 DEF TbType, TabsType
  <2>10. T.file = R.file /\ T.mode = R.mode
    BY <2>5, <2>6 DEF TbType
  <2>11. T.running = R.running /\ T.behind = R.behind
    BY <2>5, <2>6, Zenon DEF TbType
  <2>12. Live(T)
    BY <2>4, <2>9, <2>11, Zenon DEF Live
  <2>13. R.open.drag # None => Listing(R.open.bar, R.open.drag)
    BY <2>4 DEF Sound, WindowFits
  <2>14. Sound(T) /\ (Told(R) => Told(T))
    BY <2>4, <2>7, <2>8, <2>9, <2>10, <2>11, <2>12, <2>13, AlikeFits, Zenon
  <2>15. Tells(R.file.tabs, R.open.bar,
               Wanted(R.open.bar, R.open.closing, R.open.web, R.open.pinned, R.mode), R.open.pinned)
    <3>1. PICK b \in Seq(Tabs) : b = R.open.bar /\ Once(b)
      BY <2>4, <2>6 DEF TbType, TabsType, Sound, WindowFits
    <3>2. PICK W : W = Wanted(R.open.bar, R.open.closing, R.open.web, R.open.pinned, R.mode)
      OBVIOUS
    <3>3. R.mode = "RestoreTabs"
      BY <1>2, <1>5, <2>4
    <3>4. ASSUME NEW z PROVE z \in W <=> Naming(e, z)
      <4>1. z \in W <=> z \in Tabs /\ Listing(b, z) /\ z \in R.open.web
        BY <2>4, <3>1, <3>2, <3>3 DEF Wanted
      <4>2. ASSUME Naming(e, z) PROVE z \in Tabs /\ Listing(b, z)
        BY <2>4, <3>1, <4>2 DEF Naming, Listing
      <4> QED BY <2>4, <4>1, <4>2
    <3>5. \A i \in 1 .. Len(e) : e[i].pinned <=> e[i].tab \in R.open.pinned
      BY <2>3, <2>4 DEF NamesTabsOnce
    <3>6. Len(e) <= Len(b) /\ \A i \in 1 .. Len(e) : b[i] = e[i].tab
      BY <2>4, <3>1
    <3>7. Tells(e, b, W, R.open.pinned)
      BY <1>1, <2>1, <3>1, <3>4, <3>5, <3>6, RestoredTells
    <3> QED BY <2>1, <2>4, <3>1, <3>2, <3>7
  <2>16. Told(R)
    BY <2>4, <2>15, Zenon DEF Told
  <2> QED BY <2>12, <2>14, <2>16 DEF TbInv
<1> QED BY <1>3, <1>4, <1>5

\* The window is activated.
LEMMA ActivatedFits ==
  ASSUME NEW S, TbInv(S), S.running, NEW T \in Activated(S)
  PROVE  TbInv(T) /\ Live(T)
<1>1. PICK I : I = (IF S.open.ready THEN {S} ELSE RestoreInitialTabs(S))
  OBVIOUS
<1>2. PICK R \in I : T \in (IF R.open.bar = << >> THEN StartPage(R) ELSE {R})
  BY <1>1 DEF Activated
<1>3. TbInv(R) /\ Live(R)
  <2>1. CASE S.open.ready
    BY <1>1, <1>2, <2>1 DEF Live
  <2>2. CASE ~S.open.ready
    <3>1. R \in RestoreInitialTabs(S)
      BY <1>1, <1>2, <2>2
    <3> QED BY <2>2, <3>1, RestoreInitialFits
  <2> QED BY <2>1, <2>2
<1>4. CASE R.open.bar = << >>
  <2>1. T \in StartPage(R)
    BY <1>2, <1>4
  <2>2. Sound(R)
    BY <1>3 DEF TbInv
  <2> QED BY <1>3, <2>1, <2>2, StartPageFits
<1>5. CASE R.open.bar # << >>
  BY <1>2, <1>3, <1>5
<1> QED BY <1>4, <1>5

LEMMA ForExternalContentFits ==
  ASSUME NEW S, Sound(S), S.running
  PROVE  Sound(ForExternalContent(S)) /\ Live(ForExternalContent(S))
<1>1. CASE S.open.ready
  BY <1>1 DEF ForExternalContent, Live
<1>2. CASE ~S.open.ready
  <2>1. S \in TbType /\ FileFits(S.file.tabs, S.file.active)
    BY DEF Sound
  <2>2. PICK e : e = PinnedEntries(S)
    OBVIOUS
  <2>3. PICK c : c = FirstOf(PinnedEntries(S))
    OBVIOUS
  <2>4. /\ e \in Seq(Entry) /\ NamesTabsOnce(e)
        /\ IF e = << >> THEN c = None ELSE Naming(e, c)
    BY <2>1, <2>2, <2>3, PinnedEntriesAre
  <2>5. Sound(Restored(S, e, c)) /\ Live(Restored(S, e, c))
    BY <1>2, <2>4, RestoredFits
  <2> QED BY <1>2, <2>2, <2>3, <2>5 DEF ForExternalContent
<1> QED BY <1>1, <1>2

\* The window shows itself.
LEMMA VisibleFits ==
  ASSUME NEW S, Sound(S), Live(S)
  PROVE  Sound(Visible(S)) /\ Live(Visible(S)) /\ (Told(S) => Told(Visible(S)))
<1>1. S \in TbType
  BY DEF Sound
<1>2. PICK T : T = [S EXCEPT !.open.visible = TRUE]
  OBVIOUS
<1>3. T \in TbType
  BY <1>1, <1>2 DEF TbType, TabsType
<1>4. /\ T.open.bar = S.open.bar /\ T.open.stack = S.open.stack /\ T.open.current = S.open.current
      /\ T.open.shown = S.open.shown /\ T.open.pinned = S.open.pinned /\ T.open.web = S.open.web
      /\ T.open.closing = S.open.closing /\ T.open.drag = S.open.drag
  BY <1>1, <1>2 DEF TbType, TabsType
<1>5. T.open.discard = S.open.discard /\ T.open.ready = S.open.ready /\ T.open.timer = S.open.timer
  BY <1>1, <1>2 DEF TbType, TabsType
<1>6. T.file = S.file /\ T.mode = S.mode
  BY <1>1, <1>2 DEF TbType
<1>7. T.running = S.running /\ T.behind = S.behind
  BY <1>1, <1>2, Zenon DEF TbType
<1>8. Live(T)
  BY <1>5, <1>7, Zenon DEF Live
<1>9. S.open.drag # None => Listing(S.open.bar, S.open.drag)
  BY DEF Sound, WindowFits
<1>10. Sound(T) /\ (Told(S) => Told(T))
  BY <1>3, <1>4, <1>5, <1>6, <1>7, <1>8, <1>9, AlikeFits, Zenon
<1> QED BY <1>2, <1>8, <1>10 DEF Visible

----------------------------------------------------------------------------
(***************************************************************************)
(* The steps.                                                              *)
(***************************************************************************)
\* A window that stays sound.
LEMMA WindowSound ==
  ASSUME NEW S, Sound(S), Live(S), NEW w \in TabsType, WindowFits(w), CurrentFits(w), w.ready = S.open.ready,
         NEW T, T = [S EXCEPT !.open = w]
  PROVE  /\ Sound(T) /\ Live(T) /\ T.open = w
         /\ T.mode = S.mode /\ T.file = S.file /\ T.behind = S.behind
<1>1. S \in TbType
  BY DEF Sound
<1>2. T \in TbType
  BY <1>1 DEF TbType
<1>3. T.open = w /\ T.mode = S.mode /\ T.file = S.file
  BY <1>1 DEF TbType
<1>4. T.running = S.running /\ T.behind = S.behind
  BY <1>1, Zenon DEF TbType
<1>5. Live(T)
  BY <1>3, <1>4, Zenon DEF Live
<1>6. Sound(T)
  BY <1>2, <1>3, <1>5, Zenon DEF Sound
<1> QED BY <1>3, <1>4, <1>5, <1>6

\* How many tabs of the bar are pinned.
LEMMA PinnedCountIs ==
  ASSUME NEW w \in TabsType, NEW t, Listing(w.bar, t)
  PROVE  /\ PinnedCount(w) \in 0 .. Len(w.bar)
         /\ t \in w.pinned => PinnedCount(w) # 0
         /\ t \notin w.pinned => PinnedCount(w) # Len(w.bar)
<1>1. PICK n \in Nat : n = Len(w.bar) /\ DOMAIN w.bar = 1 .. n
  BY DEF TabsType
<1>2. PICK P : P = { i \in DOMAIN w.bar : w.bar[i] \in w.pinned }
  OBVIOUS
<1>3. PinnedCount(w) = Cardinality(P)
  BY <1>2 DEF PinnedCount
<1>4. IsFiniteSet(1 .. n) /\ Cardinality(1 .. n) = n
  BY <1>1, FS_Interval
<1>5. P \subseteq 1 .. n
  BY <1>1, <1>2
<1>6. IsFiniteSet(P) /\ Cardinality(P) <= n /\ (Cardinality(P) = n => P = 1 .. n)
  BY <1>4, <1>5, FS_Subset
<1>7. Cardinality(P) \in Nat /\ (Cardinality(P) = 0 <=> P = {})
  BY <1>6, FS_CardinalityType, FS_EmptySet
<1>8. PICK i \in 1 .. n : w.bar[i] = t
  BY <1>1 DEF Listing
<1>9. t \in w.pinned => i \in P
  BY <1>1, <1>2, <1>8
<1>10. t \notin w.pinned => i \notin P
  BY <1>2, <1>8
<1> QED BY <1>1, <1>3, <1>6, <1>7, <1>9, <1>10

LEMMA PositionOf ==
  ASSUME NEW s \in Seq(Tabs), NEW t, Listing(s, t)
  PROVE  Position(s, t) \in 1 .. Len(s) /\ s[Position(s, t)] = t
<1>1. DOMAIN s = 1 .. Len(s)
  OBVIOUS
<1>2. PICK i \in DOMAIN s : s[i] = t
  BY <1>1 DEF Listing
<1> QED BY <1>1, <1>2 DEF Position

\* The tab that takes the place of one that closes is in the bar.
LEMMA ReplacementIs ==
  ASSUME NEW w \in TabsType, WindowFits(w), NEW t, Listing(w.bar, t)
  PROVE  Listing(w.bar, Replacement(w, t))
<1>1. PICK s \in Seq(Tabs) : s = w.bar /\ s = w.stack /\ Once(s)
  BY DEF TabsType, WindowFits
<1>2. PICK left : left = OpenTabs(w)
  OBVIOUS
<1>3. PICK kept : kept = { i \in DOMAIN s : s[i] \notin w.closing }
  OBVIOUS
<1>4. left = ElementsAt(s, kept)
  BY <1>1, <1>2, <1>3 DEF OpenTabs, ElementsWith
<1>5. PICK B : B = { z \in Tabs : z \notin w.closing }
  OBVIOUS
<1>6. kept = { i \in DOMAIN s : s[i] \in B }
  BY <1>3, <1>5
<1>7. InOrderOf(s, s) /\ Has(s, TabsOf(s))
  BY <1>1, OwnOrder, TabsAreHad
<1>8. left \in Seq(Tabs) /\ Has(left, TabsOf(s) \cap B)
  BY <1>4, <1>6, <1>7, DrawnAre
<1>9. \A n \in 1 .. Len(left) : Listing(s, left[n])
  BY <1>8 DEF Has, TabsOf
<1>10. PICK after : after = { i \in DOMAIN left : Position(w.stack, left[i]) > Position(w.stack, t) }
  OBVIOUS
<1>11. Replacement(w, t) = IF left = << >> THEN t ELSE IF after = {} THEN Last(left) ELSE left[Min(after)]
  BY <1>2, <1>10, Zenon DEF Replacement
<1>12. CASE left = << >>
  BY <1>11, <1>12
<1>13. CASE left # << >> /\ after = {}
  <2>1. Len(left) \in 1 .. Len(left)
    BY <1>8, <1>13
  <2>2. Last(left) = left[Len(left)]
    BY DEF Last
  <2> QED BY <1>1, <1>9, <1>11, <1>13, <2>1, <2>2
<1>14. CASE left # << >> /\ after # {}
  <2>1. after \subseteq 1 .. Len(left) /\ after \subseteq Nat
    BY <1>8, <1>10
  <2>2. Min(after) \in after
    <3>1. \E x \in after : \A y \in after : x <= y
      BY <1>14, <2>1, LeastNumber
    <3> QED BY <3>1, Zenon DEF Min
  <2> QED BY <1>1, <1>9, <1>11, <1>14, <2>1, <2>2
<1> QED BY <1>12, <1>13, <1>14

\* A closing tab has gone.
LEMMA WithoutFits ==
  ASSUME NEW S, Sound(S), Live(S), NEW t \in S.open.closing,
         NEW w, w = Without(S.open, t), NEW T, T = [S EXCEPT !.open = w]
  PROVE  /\ T \in TbType /\ WindowFits(T.open) /\ Live(T)
         /\ T.mode = S.mode /\ T.file = S.file /\ T.behind = S.behind
         /\ T.open.bar = << >> \/ S.open.current # t => CurrentFits(T.open)
<1>1. S \in TbType /\ S.open \in TabsType
  BY DEF Sound, TbType
<1>2. PICK s \in Seq(Tabs) : s = S.open.bar /\ s = S.open.stack /\ Once(s)
  BY <1>1 DEF Sound, WindowFits, TabsType
<1>3. Listing(s, t)
  BY <1>2 DEF Sound, WindowFits
<1>4. PICK o : o = Others(s, t)
  OBVIOUS
<1>5. Has(s, TabsOf(s))
  BY <1>2, TabsAreHad
<1>6. o \in Seq(Tabs) /\ Once(o) /\ Has(o, TabsOf(s) \ {t})
  BY <1>2, <1>4, <1>5, OthersAre
<1>7. \A z : Listing(o, z) <=> Listing(s, z) /\ z # t
  BY <1>5, <1>6, Zenon DEF Has, Listing
<1>8. w = Without(S.open, t)
  OBVIOUS
<1>9. w \in TabsType
  <2>1. PICK d \in Tabs \cup {None} : d = IF S.open.drag = t THEN None ELSE S.open.drag
    BY <1>1 DEF TabsType
  <2>2. PICK c \in Tabs \cup {None} : c = IF S.open.current = t THEN None ELSE S.open.current
    BY <1>1 DEF TabsType
  <2>3. PICK h \in Tabs \cup {None} : h = IF S.open.shown = t THEN None ELSE S.open.shown
    BY <1>1 DEF TabsType
  <2>4. PICK v \in TabsType : v = [S.open EXCEPT !.bar = o, !.stack = o, !.closing = @ \ {t}]
    BY <1>1, <1>6 DEF TabsType
  <2>5. PICK x \in TabsType : x = [v EXCEPT !.pinned = @ \ {t}, !.web = @ \ {t}, !.lazy = @ \ {t}]
    <3>1. [v EXCEPT !.pinned = @ \ {t}, !.web = @ \ {t}, !.lazy = @ \ {t}] \in TabsType
      BY DEF TabsType
    <3> QED BY <3>1
  <2>6. w = [S.open EXCEPT !.bar = o, !.stack = o, !.closing = @ \ {t}, !.pinned = @ \ {t},
                           !.web = @ \ {t}, !.lazy = @ \ {t}, !.drag = d, !.current = c, !.shown = h]
    BY <1>1, <1>2, <1>4, <1>8, <2>1, <2>2, <2>3 DEF Without, TabsType
  <2>7. w = [x EXCEPT !.drag = d, !.current = c, !.shown = h]
    BY <1>1, <2>4, <2>5, <2>6 DEF TabsType
  <2>8. [x EXCEPT !.drag = d, !.current = c, !.shown = h] \in TabsType
    BY DEF TabsType
  <2> QED BY <2>7, <2>8
<1>10. /\ w.bar = o /\ w.stack = o /\ w.closing = S.open.closing \ {t}
       /\ w.drag = IF S.open.drag = t THEN None ELSE S.open.drag
       /\ w.current = IF S.open.current = t THEN None ELSE S.open.current
       /\ w.shown = IF S.open.shown = t THEN None ELSE S.open.shown
  BY <1>1, <1>2, <1>4, <1>8 DEF Without, TabsType
<1>11. w.discard = S.open.discard /\ w.ready = S.open.ready /\ w.timer = S.open.timer
  BY <1>1, <1>8 DEF Without, TabsType
<1>12. ~S.open.discard
  BY <1>2, <1>3 DEF Sound, WindowFits, Listing
<1>13. WindowFits(w)
  <2>1. w.shown = w.current
    BY <1>10 DEF Sound, WindowFits
  <2>2. \A z \in w.closing : Listing(o, z)
    BY <1>2, <1>7, <1>10 DEF Sound, WindowFits
  <2>3. w.drag # None => Listing(o, w.drag)
    <3>1. ASSUME w.drag # None PROVE w.drag = S.open.drag /\ S.open.drag # t /\ S.open.drag # None
      BY <1>10, <3>1
    <3>2. S.open.drag # None => Listing(s, S.open.drag)
      BY <1>2 DEF Sound, WindowFits
    <3> QED BY <1>7, <3>1, <3>2, Zenon
  <2> QED BY <1>6, <1>10, <1>11, <1>12, <2>1, <2>2, <2>3, Zenon DEF WindowFits
<1>14. T = [S EXCEPT !.open = w]
  OBVIOUS
<1>15. T \in TbType
  BY <1>1, <1>9, <1>14 DEF TbType
<1>16. T.open = w /\ T.mode = S.mode /\ T.file = S.file
  BY <1>1, <1>14 DEF TbType
<1>17. T.running = S.running /\ T.behind = S.behind
  BY <1>1, <1>14, Zenon DEF TbType
<1>18. Live(T)
  BY <1>11, <1>16, <1>17, Zenon DEF Live
<1>19. ASSUME o = << >> PROVE w.current = None /\ w.drag = None
  <2>1. \A z : ~Listing(o, z)
    BY <1>19 DEF Listing
  <2>2. Listing(s, S.open.current)
    BY <1>2, <1>3 DEF Sound, CurrentFits, Listing
  <2>3. S.open.current = t
    BY <1>7, <2>1, <2>2
  <2>4. w.drag = None
    BY <1>10, <1>13, <2>1, Zenon DEF WindowFits
  <2> QED BY <1>10, <2>3, <2>4
<1>20. ASSUME o # << >>, S.open.current # t PROVE CurrentFits(w)
  <2>1. s # << >>
    BY <1>3 DEF Listing
  <2>2. Listing(s, S.open.current)
    BY <1>2, <2>1 DEF Sound, CurrentFits
  <2>3. Listing(o, S.open.current)
    BY <1>7, <1>20, <2>2
  <2> QED BY <1>10, <1>20, <2>3 DEF CurrentFits
<1>21. ASSUME o = << >> PROVE CurrentFits(w)
  BY <1>10, <1>19, <1>21, Zenon DEF CurrentFits
<1> QED BY <1>10, <1>13, <1>15, <1>16, <1>17, <1>18, <1>20, <1>21, Zenon

\* The window is closed: its session is saved.
LEMMA ClosedFits ==
  ASSUME NEW S, Sound(S), Live(S), NEW T \in Closed(S)
  PROVE  TbInv(T)
<1>1. PICK R \in Saved(S) : T = [R EXCEPT !.open.visible = FALSE, !.open.drag = None]
  BY Zenon DEF Closed
<1>2. TbInv(R) /\ Live(R)
  BY SaveFits
<1>3. R \in TbType
  BY <1>2 DEF TbInv, Sound
<1>4. T \in TbType
  BY <1>1, <1>3 DEF TbType, TabsType
<1>5. /\ T.open.bar = R.open.bar /\ T.open.stack = R.open.stack /\ T.open.current = R.open.current
      /\ T.open.shown = R.open.shown /\ T.open.pinned = R.open.pinned /\ T.open.web = R.open.web
      /\ T.open.closing = R.open.closing /\ T.open.drag = None
  BY <1>1, <1>3 DEF TbType, TabsType
<1>6. T.open.discard = R.open.discard /\ T.open.ready = R.open.ready /\ T.open.timer = R.open.timer
  BY <1>1, <1>3 DEF TbType, TabsType
<1>7. T.file = R.file /\ T.mode = R.mode
  BY <1>1, <1>3 DEF TbType
<1>8. T.running = R.running /\ T.behind = R.behind
  BY <1>1, <1>3, Zenon DEF TbType
<1>9. Live(T)
  BY <1>2, <1>6, <1>8, Zenon DEF Live
<1>10. Sound(T) /\ (Told(R) => Told(T))
  BY <1>2, <1>4, <1>5, <1>6, <1>7, <1>8, <1>9, AlikeFits, Zenon DEF TbInv
<1> QED BY <1>2, <1>10 DEF TbInv

\* The last tab has gone.
LEMMA EmptiedFits ==
  ASSUME NEW S \in TbType, WindowFits(S.open), Live(S), S.open.bar = << >>, S.open.current = None,
         FileFits(S.file.tabs, S.file.active),
         NEW T \in Emptied(S)
  PROVE  Sound(T) /\ Live(T)
<1>1. PICK w : w = [S.open EXCEPT !.discard = TRUE]
  OBVIOUS
<1>2. \/ T = [S EXCEPT !.open = w, !.file = NoFile, !.behind = FALSE]
      \/ T = [S EXCEPT !.open = w, !.behind = TRUE]
  BY <1>1 DEF Emptied, TbType
<1>3. w \in TabsType
  BY <1>1 DEF TbType, TabsType
<1>4. << >> \in Seq(Entry)
  BY EmptySeq
<1>5. NoFile \in FileType /\ NoFile.tabs = << >> /\ NoFile.active = None
  BY <1>4 DEF NoFile, File, FileType
<1>6. T \in TbType
  BY <1>2, <1>3, <1>5 DEF TbType
<1>7. T.open = w /\ T.file \in {NoFile, S.file}
  BY <1>2 DEF TbType
<1>8. T.running = S.running
  BY <1>2, Zenon DEF TbType
<1>9. /\ w.bar = << >> /\ w.stack = S.open.stack /\ w.current = None /\ w.shown = S.open.shown
      /\ w.closing = S.open.closing /\ w.drag = S.open.drag
  BY <1>1 DEF TbType, TabsType
<1>10. w.ready = S.open.ready
  BY <1>1 DEF TbType, TabsType
<1>11. Live(T)
  BY <1>7, <1>8, <1>10, Zenon DEF Live
<1>12. WindowFits(w) /\ CurrentFits(w)
  BY <1>9, Zenon DEF WindowFits, CurrentFits
<1>13. FileFits(<< >>, None)
  <2>1. MaxRestored \in Nat
    BY TabSessionAssumption
  <2> QED BY <2>1 DEF FileFits
<1>14. FileFits(T.file.tabs, T.file.active)
  BY <1>5, <1>7, <1>13, Zenon
<1> QED BY <1>6, <1>7, <1>11, <1>12, <1>14, Zenon DEF Sound

LEMMA StartFits ==
  ASSUME TbInv(tb), StartProgram
  PROVE  TbInv(tb')
<1>1. tb \in TbType /\ ~tb.running /\ tb.open = NoTabs
  BY DEF TbInv, Sound, StartProgram, Live
<1>2. tb' = [tb EXCEPT !.running = TRUE, !.starts = @ + 1, !.open = NoTabs]
  BY DEF StartProgram, Becomes
<1>3. tb' \in TbType
  <2>1. PICK w \in TabsType : w = NoTabs
    BY NoTabsAre
  <2>2. PICK n \in Nat : n = tb.starts + 1
    BY <1>1 DEF TbType
  <2>3. tb' = [tb EXCEPT !.running = TRUE, !.starts = n, !.open = w]
    BY <1>2, <2>1, <2>2
  <2> QED BY <1>1, <2>3 DEF TbType
<1>4. tb'.open = NoTabs /\ tb'.file = tb.file /\ tb'.mode = tb.mode
  BY <1>1, <1>2 DEF TbType
<1>5. tb'.behind = tb.behind
  BY <1>1, <1>2, Zenon DEF TbType
<1>6. ~Live(tb')
  BY <1>4, NoTabsAre DEF Live
<1>7. Sound(tb')
  BY <1>3, <1>4, <1>6, NoTabsAre, Zenon DEF Sound, TbInv
<1>8. ~Live(tb)
  BY <1>1 DEF Live
<1>9. Told(tb')
  BY <1>4, <1>5, <1>6, <1>8, Zenon DEF Told, TbInv
<1> QED BY <1>7, <1>9 DEF TbInv

LEMMA ExitFits ==
  ASSUME TbInv(tb), Exit
  PROVE  TbInv(tb')
<1>1. tb \in TbType /\ tb.running
  BY DEF TbInv, Sound, Exit
<1>2. tb' = [tb EXCEPT !.running = FALSE, !.open = NoTabs, !.behind = @ \/ tb.open.timer, !.dropped = {}]
  BY DEF Exit, Becomes
<1>3. PICK late \in BOOLEAN : late = (tb.behind \/ tb.open.timer)
  BY Zenon
<1>4. tb' = [tb EXCEPT !.running = FALSE, !.open = NoTabs, !.behind = late, !.dropped = {}]
  BY <1>2, <1>3, Zenon
<1>5. tb' \in TbType
  BY <1>1, <1>4, NoTabsAre DEF TbType
<1>6. tb'.open = NoTabs /\ tb'.file = tb.file /\ tb'.mode = tb.mode
  BY <1>1, <1>4 DEF TbType
<1>7. tb'.behind = late
  BY <1>1, <1>4, Zenon DEF TbType
<1>8. ~Live(tb')
  BY <1>6, NoTabsAre DEF Live
<1>9. Sound(tb')
  BY <1>5, <1>6, <1>8, NoTabsAre, Zenon DEF Sound, TbInv
<1>10. ASSUME ~late, tb.mode = "StartPage" PROVE AllPinned(tb.file.tabs)
  <2>1. ~tb.behind /\ ~tb.open.timer
    BY <1>3, <1>10, Zenon
  <2>2. CASE Live(tb)
    <3>1. Tells(tb.file.tabs, tb.open.bar,
                Wanted(tb.open.bar, tb.open.closing, tb.open.web, tb.open.pinned, tb.mode), tb.open.pinned)
      BY <2>1, <2>2, Zenon DEF Told, TbInv
    <3>2. ASSUME NEW i \in 1 .. Len(tb.file.tabs) PROVE tb.file.tabs[i].pinned
      <4>1. /\ tb.file.tabs[i].tab \in Wanted(tb.open.bar, tb.open.closing, tb.open.web, tb.open.pinned, tb.mode)
            /\ tb.file.tabs[i].pinned <=> tb.file.tabs[i].tab \in tb.open.pinned
        BY <3>1, <3>2, Zenon DEF Tells
      <4>2. PICK z : z = tb.file.tabs[i].tab
        OBVIOUS
      <4>3. z \in tb.open.pinned
        BY <1>10, <4>1, <4>2 DEF Wanted
      <4> QED BY <4>1, <4>2, <4>3
    <3> QED BY <3>2 DEF AllPinned
  <2>3. CASE ~Live(tb)
    BY <1>10, <2>1, <2>3, Zenon DEF Told, TbInv
  <2> QED BY <2>2, <2>3
<1>11. Told(tb')
  BY <1>6, <1>7, <1>8, <1>10, Zenon DEF Told
<1> QED BY <1>9, <1>11 DEF TbInv

LEMMA ActivateFits ==
  ASSUME TbInv(tb), ActivatePrimaryWindow
  PROVE  TbInv(tb')
<1>1. tb.running
  BY DEF ActivatePrimaryWindow
<1>2. PICK S \in Activated(tb) : tb' = Visible(S)
  BY DEF ActivatePrimaryWindow, Becomes
<1>3. TbInv(S) /\ Live(S)
  BY <1>1, <1>2, ActivatedFits
<1> QED BY <1>2, <1>3, VisibleFits DEF TbInv

LEMMA OpenUrlFits ==
  ASSUME TbInv(tb), OpenUrlInPrimaryWindow
  PROVE  TbInv(tb')
<1>1. tb.running /\ Sound(tb)
  BY DEF OpenUrlInPrimaryWindow, TbInv
<1>2. PICK S : S = Visible(ForExternalContent(tb))
  OBVIOUS
<1>3. Sound(S) /\ Live(S)
  BY <1>1, <1>2, ForExternalContentFits, VisibleFits
<1>4. PICK t \in Fresh(S), activate \in BOOLEAN : Counted(Create(S, t, activate, FALSE, TRUE))
  BY <1>2, Zenon DEF OpenUrlInPrimaryWindow
<1>5. t \in Tabs /\ ~Listing(S.open.bar, t)
  <2>1. S \in TbType
    BY <1>3 DEF Sound
  <2> QED BY <2>1, FreshAre
<1>6. PICK yes \in BOOLEAN, no \in BOOLEAN : yes = TRUE /\ no = FALSE
  OBVIOUS
<1>7. PICK T : T = Create(S, t, activate, no, yes)
  OBVIOUS
<1>8. TbInv(T) /\ Live(T)
  BY <1>3, <1>5, <1>7, Created
<1>9. tb' = [T EXCEPT !.events = @ + 1]
  BY <1>4, <1>6, <1>7 DEF Counted
<1> QED BY <1>8, <1>9, CountedFits

\* A window that is used is there.
LEMMA UsedIs ==
  ASSUME TbInv(tb), Using
  PROVE  Sound(tb) /\ Told(tb) /\ Live(tb) /\ tb \in TbType /\ tb.open \in TabsType /\ tb.open.bar \in Seq(Tabs)
<1>1. Sound(tb) /\ Told(tb) /\ tb \in TbType
  BY DEF TbInv, Sound
<1>2. tb.open # NoTabs
  BY NoTabsAre DEF Using
<1> QED BY <1>1, <1>2 DEF Sound, TbType, TabsType

LEMMA OpenNewTabFits ==
  ASSUME TbInv(tb), OpenNewTab
  PROVE  TbInv(tb')
<1>1. Sound(tb) /\ Live(tb)
  BY UsedIs DEF OpenNewTab
<1>2. PICK T \in StartPage(tb) : tb' = [T EXCEPT !.events = @ + 1]
  BY DEF OpenNewTab, Counted
<1>3. TbInv(T) /\ Live(T)
  BY <1>1, StartPageFits
<1> QED BY <1>2, <1>3, CountedFits

LEMMA SelectTabFits ==
  ASSUME TbInv(tb), SelectTab
  PROVE  TbInv(tb')
<1>1. Sound(tb) /\ Told(tb) /\ Live(tb) /\ tb.open.bar \in Seq(Tabs)
  BY UsedIs DEF SelectTab
<1>2. PICK t \in ToSet(tb.open.bar) : tb' = [Select(tb, t) EXCEPT !.events = @ + 1]
  BY DEF SelectTab, Counted
<1>3. Listing(tb.open.bar, t)
  BY <1>1, <1>2, ToSetIs
<1>4. Framed(tb) /\ CurrentFits(tb.open)
  BY <1>1 DEF Framed, Sound
<1>5. TbInv(Select(tb, t)) /\ Live(Select(tb, t))
  BY <1>1, <1>3, <1>4, Selected DEF TbInv
<1> QED BY <1>2, <1>5, CountedFits

LEMMA NavigateFits ==
  ASSUME TbInv(tb), Navigate
  PROVE  TbInv(tb')
<1>1. PICK t \in ToSet(tb.open.bar) \ (tb.open.closing \cup tb.open.lazy) :
        tb' = [Schedule([tb EXCEPT !.open.web = IF t \in @ THEN @ \ {t} ELSE @ \cup {t}]) EXCEPT !.events = @ + 1]
  BY DEF Navigate, Counted
<1>2. Sound(tb) /\ tb \in TbType /\ tb.open \in TabsType /\ tb.open.bar \in Seq(Tabs)
  BY DEF TbInv, Sound, TbType, TabsType
<1>3. Listing(tb.open.bar, t) /\ t \in Tabs
  BY <1>1, <1>2, ToSetIs
<1>4. Live(tb)
  BY <1>2, <1>3, NoTabsAre DEF Sound, Listing
<1>5. PICK web \in SUBSET Tabs : web = IF t \in tb.open.web THEN tb.open.web \ {t} ELSE tb.open.web \cup {t}
  BY <1>2, <1>3 DEF TabsType
<1>6. PICK w : w = [tb.open EXCEPT !.web = web]
  OBVIOUS
<1>7. w \in TabsType
  BY <1>2, <1>6 DEF TabsType
<1>8. /\ w.bar = tb.open.bar /\ w.stack = tb.open.stack /\ w.current = tb.open.current /\ w.shown = tb.open.shown
      /\ w.closing = tb.open.closing /\ w.drag = tb.open.drag
  BY <1>2, <1>6 DEF TabsType
<1>9. w.ready = tb.open.ready /\ w.discard = tb.open.discard
  BY <1>2, <1>6 DEF TabsType
<1>10. WindowFits(w) /\ CurrentFits(w)
  BY <1>2, <1>8, <1>9, Zenon DEF Sound, WindowFits, CurrentFits
<1>11. PICK T : T = [tb EXCEPT !.open = w]
  OBVIOUS
<1>12. Sound(T) /\ Live(T)
  BY <1>2, <1>4, <1>7, <1>9, <1>10, <1>11, WindowSound
<1>13. tb' = [Schedule(T) EXCEPT !.events = @ + 1]
  BY <1>1, <1>2, <1>5, <1>6, <1>11 DEF TbType, TabsType
<1>14. TbInv(Schedule(T)) /\ Live(Schedule(T))
  BY <1>12, Scheduled
<1> QED BY <1>13, <1>14, CountedFits

LEMMA SetTabPinnedFits ==
  ASSUME TbInv(tb), SetTabPinned
  PROVE  TbInv(tb')
<1>1. Sound(tb) /\ Live(tb) /\ tb \in TbType /\ tb.open \in TabsType /\ tb.open.bar \in Seq(Tabs)
  BY UsedIs DEF SetTabPinned
<1>2. PICK t \in ToSet(tb.open.bar) \ tb.open.closing :
        LET pinned == t \notin tb.open.pinned
            S == [tb EXCEPT !.open.pinned = IF pinned THEN @ \cup {t} ELSE @ \ {t}]
            to == IF pinned THEN PinnedCount(S.open) ELSE PinnedCount(S.open) + 1
        IN  Counted(IF S.open.bar[to] = t THEN Schedule(S) ELSE Move(S, t, to))
  BY Zenon DEF SetTabPinned
<1>3. Listing(tb.open.bar, t) /\ t \in Tabs
  BY <1>1, <1>2, ToSetIs
<1>4. PICK S : S = [tb EXCEPT !.open.pinned = IF t \notin tb.open.pinned THEN @ \cup {t} ELSE @ \ {t}]
  OBVIOUS
<1>5. PICK pins \in SUBSET Tabs :
        pins = IF t \notin tb.open.pinned THEN tb.open.pinned \cup {t} ELSE tb.open.pinned \ {t}
  BY <1>1, <1>3 DEF TabsType
<1>6. PICK w : w = [tb.open EXCEPT !.pinned = pins]
  OBVIOUS
<1>7. w \in TabsType
  BY <1>1, <1>6 DEF TabsType
<1>8. /\ w.bar = tb.open.bar /\ w.stack = tb.open.stack /\ w.current = tb.open.current /\ w.shown = tb.open.shown
      /\ w.closing = tb.open.closing /\ w.drag = tb.open.drag /\ w.pinned = pins
  BY <1>1, <1>6 DEF TabsType
<1>9. w.ready = tb.open.ready /\ w.discard = tb.open.discard
  BY <1>1, <1>6 DEF TabsType
<1>10. WindowFits(w) /\ CurrentFits(w)
  BY <1>1, <1>8, <1>9, Zenon DEF Sound, WindowFits, CurrentFits
<1>11. S = [tb EXCEPT !.open = w]
  BY <1>1, <1>4, <1>5, <1>6 DEF TbType, TabsType
<1>12. Sound(S) /\ Live(S) /\ S.open = w
  BY <1>1, <1>7, <1>9, <1>10, <1>11, WindowSound
<1>13. PICK to : to = IF t \notin tb.open.pinned THEN PinnedCount(S.open) ELSE PinnedCount(S.open) + 1
  OBVIOUS
<1>14. to \in 1 .. Len(w.bar)
  <2>1. /\ PinnedCount(w) \in 0 .. Len(w.bar)
        /\ t \in w.pinned => PinnedCount(w) # 0
        /\ t \notin w.pinned => PinnedCount(w) # Len(w.bar)
    BY <1>3, <1>7, <1>8, PinnedCountIs
  <2>2. t \in w.pinned <=> t \notin tb.open.pinned
    BY <1>5, <1>8
  <2>3. Len(w.bar) \in Nat
    BY <1>1, <1>8
  <2> QED BY <1>12, <1>13, <2>1, <2>2, <2>3
<1>15. PICK T : T = IF S.open.bar[to] = t THEN Schedule(S) ELSE Move(S, t, to)
  OBVIOUS
<1>16. tb' = [T EXCEPT !.events = @ + 1]
  BY <1>2, <1>4, <1>13, <1>15 DEF Counted
<1>17. TbInv(T) /\ Live(T)
  <2>1. CASE S.open.bar[to] = t
    BY <1>12, <1>15, <2>1, Scheduled
  <2>2. CASE S.open.bar[to] # t
    <3>1. /\ Sound(Move(S, t, to)) /\ Live(Move(S, t, to))
          /\ Told(S) \/ S.open.bar[to] # t => Told(Move(S, t, to))
      BY <1>3, <1>8, <1>12, <1>14, Moved
    <3> QED BY <1>15, <2>2, <3>1 DEF TbInv
  <2> QED BY <2>1, <2>2
<1> QED BY <1>16, <1>17, CountedFits

\* Which tab is dragged.
LEMMA DraggedFits ==
  ASSUME NEW S, Sound(S), Live(S), NEW t \in Tabs \cup {None}, t # None => Listing(S.open.bar, t),
         NEW T, T = [S EXCEPT !.open.drag = t]
  PROVE  /\ Sound(T) /\ Live(T) /\ (Told(S) => Told(T))
         /\ T.open.bar = S.open.bar /\ T.open.pinned = S.open.pinned
<1>1. S \in TbType
  BY DEF Sound
<1>2. T \in TbType
  BY <1>1 DEF TbType, TabsType
<1>3. /\ T.open.bar = S.open.bar /\ T.open.stack = S.open.stack /\ T.open.current = S.open.current
      /\ T.open.shown = S.open.shown /\ T.open.pinned = S.open.pinned /\ T.open.web = S.open.web
      /\ T.open.closing = S.open.closing /\ T.open.drag = t
  BY <1>1 DEF TbType, TabsType
<1>4. T.open.discard = S.open.discard /\ T.open.ready = S.open.ready /\ T.open.timer = S.open.timer
  BY <1>1 DEF TbType, TabsType
<1>5. T.file = S.file /\ T.mode = S.mode
  BY <1>1 DEF TbType
<1>6. T.running = S.running /\ T.behind = S.behind
  BY <1>1, Zenon DEF TbType
<1>7. Live(T)
  BY <1>4, <1>6, Zenon DEF Live
<1>8. Sound(T) /\ (Told(S) => Told(T))
  <2>1. T.open.drag # None => Listing(T.open.bar, T.open.drag)
    BY <1>3
  <2> QED BY <1>2, <1>3, <1>4, <1>5, <1>6, <1>7, <2>1, AlikeFits, Zenon
<1> QED BY <1>3, <1>7, <1>8

LEMMA DragFits ==
  ASSUME TbInv(tb), Drag
  PROVE  TbInv(tb')
<1>1. Sound(tb) /\ Told(tb) /\ Live(tb) /\ tb.open.bar \in Seq(Tabs)
  BY UsedIs DEF Drag
<1>2. PICK t \in ToSet(tb.open.bar), to \in DOMAIN tb.open.bar :
        /\ tb.open.bar[to] # t
        /\ Counted(LET S == Move(tb, t, to) IN [S EXCEPT !.open.drag = t])
  BY Zenon DEF Drag
<1>3. Listing(tb.open.bar, t) /\ t \in Tabs /\ to \in 1 .. Len(tb.open.bar)
  BY <1>1, <1>2, ToSetIs
<1>4. PICK S : S = Move(tb, t, to)
  OBVIOUS
<1>5. Sound(S) /\ Live(S) /\ Told(S) /\ Listing(S.open.bar, t)
  BY <1>1, <1>2, <1>3, <1>4, Moved
<1>6. PICK T : T = [S EXCEPT !.open.drag = t]
  OBVIOUS
<1>7. TbInv(T) /\ Live(T)
  BY <1>3, <1>5, <1>6, DraggedFits DEF TbInv
<1>8. tb' = [T EXCEPT !.events = @ + 1]
  BY <1>2, <1>4, <1>6, Zenon DEF Counted
<1> QED BY <1>7, <1>8, CountedFits

LEMMA DropFits ==
  ASSUME TbInv(tb), Drop
  PROVE  TbInv(tb')
<1>1. Sound(tb) /\ Told(tb) /\ Live(tb)
  BY UsedIs DEF Drop
<1>2. PICK S : S = [tb EXCEPT !.open.drag = None]
  OBVIOUS
<1>3. Sound(S) /\ Live(S) /\ Told(S)
  <2>1. None \in Tabs \cup {None}
    OBVIOUS
  <2> QED BY <1>1, <1>2, <2>1, DraggedFits
<1>4. PICK t : t = tb.open.drag
  OBVIOUS
<1>5. S.open \in TabsType /\ S.open.bar \in Seq(Tabs)
  BY <1>3 DEF Sound, TbType, TabsType
<1>6. PICK at : at = Position(S.open.bar, t)
  OBVIOUS
<1>7. PICK to : to = IF t \in S.open.pinned THEN Min({at, PinnedCount(S.open)}) ELSE Max({at, PinnedCount(S.open) + 1})
  OBVIOUS
<1>8. tb' = IF t \in ToSet(S.open.bar) THEN Move(S, t, to) ELSE S
  BY <1>2, <1>4, <1>6, <1>7 DEF Drop, Becomes
<1>9. CASE t \in ToSet(S.open.bar)
  <2>1. Listing(S.open.bar, t)
    BY <1>5, <1>9, ToSetIs
  <2>2. PICK n \in Nat : n = Len(S.open.bar)
    BY <1>5
  <2>3. at \in 1 .. n
    BY <1>5, <1>6, <2>1, <2>2, PositionOf
  <2>4. PICK c : c = PinnedCount(S.open)
    OBVIOUS
  <2>5. /\ c \in 0 .. n
        /\ t \in S.open.pinned => c # 0
        /\ t \notin S.open.pinned => c # n
    BY <1>5, <2>1, <2>2, <2>4, PinnedCountIs
  <2>6. to \in 1 .. n
    <3>1. at \in Nat /\ c \in Nat
      BY <2>3, <2>5
    <3>2. PICK d \in Nat : d = c + 1
      BY <3>1
    <3>3. Min({at, c}) = IF at <= c THEN at ELSE c
      BY <3>1, LesserOf
    <3>4. Max({at, d}) = IF at <= d THEN d ELSE at
      BY <3>1, LesserOf, GreaterOf
    <3>5. to = IF t \in S.open.pinned THEN Min({at, c}) ELSE Max({at, d})
      BY <1>7, <2>4, <3>2, Zenon
    <3> QED BY <2>3, <2>5, <3>2, <3>3, <3>4, <3>5
  <2>7. TbInv(Move(S, t, to))
    BY <1>3, <2>1, <2>2, <2>6, Moved DEF TbInv
  <2> QED BY <1>8, <1>9, <2>7
<1>10. CASE t \notin ToSet(S.open.bar)
  BY <1>3, <1>8, <1>10 DEF TbInv
<1> QED BY <1>9, <1>10

\* The entries of closed tabs.
LEMMA ClosedEntriesAre ==
  ASSUME NEW closed \in Seq(ClosedEntry), NEW entry \in ClosedEntry
  PROVE  LET s == << entry >> \o closed IN SubSeq(s, 1, Min({Len(s), MaxClosed})) \in Seq(ClosedEntry)
<1>1. PICK s : s = << entry >> \o closed
  OBVIOUS
<1>2. s \in Seq(ClosedEntry) /\ Len(s) \in Nat /\ MaxClosed \in Nat
  BY <1>1, TabSessionAssumption
<1>3. PICK m \in Nat : m = Min({Len(s), MaxClosed}) /\ m <= Len(s)
  <2>1. Min({Len(s), MaxClosed}) = IF Len(s) <= MaxClosed THEN Len(s) ELSE MaxClosed
    BY <1>2, LesserOf
  <2> QED BY <1>2, <2>1
<1>4. \A i \in 1 .. m : s[i] \in ClosedEntry
  BY <1>2, <1>3
<1>5. SubSeq(s, 1, m) \in Seq(ClosedEntry)
  BY <1>4, SubSeqProperties
<1> QED BY <1>1, <1>3, <1>5

LEMMA StartClosingFits ==
  ASSUME TbInv(tb), StartClosingTab
  PROVE  TbInv(tb')
<1>1. Sound(tb) /\ Live(tb) /\ tb \in TbType /\ tb.open \in TabsType /\ tb.open.bar \in Seq(Tabs)
  BY UsedIs DEF StartClosingTab
<1>2. PICK t \in ToSet(tb.open.bar) \ tb.open.closing :
        LET entry == [tab |-> t, pinned |-> t \in tb.open.pinned, web |-> t \in tb.open.web]
            S == [tb EXCEPT !.open.closing = @ \cup {t},
                            !.open.closed = LET s == << entry >> \o @ IN SubSeq(s, 1, Min({Len(s), MaxClosed}))]
        IN  Counted(Schedule(IF S.open.current = t THEN Select(S, Replacement(S.open, t)) ELSE S))
  BY Zenon DEF StartClosingTab
<1>3. Listing(tb.open.bar, t) /\ t \in Tabs
  BY <1>1, <1>2, ToSetIs
<1>4. PICK entry : entry = [tab |-> t, pinned |-> t \in tb.open.pinned, web |-> t \in tb.open.web]
  OBVIOUS
<1>5. entry \in ClosedEntry
  <2>1. PICK a \in BOOLEAN : a <=> t \in tb.open.pinned
    OBVIOUS
  <2>2. PICK b \in BOOLEAN : b <=> t \in tb.open.web
    OBVIOUS
  <2>3. (t \in tb.open.pinned) = a /\ (t \in tb.open.web) = b
    BY <2>1, <2>2
  <2>4. entry = [tab |-> t, pinned |-> a, web |-> b]
    BY <1>4, <2>3
  <2> QED BY <1>3, <2>4 DEF ClosedEntry
<1>6. PICK closed : closed = LET s == << entry >> \o tb.open.closed IN SubSeq(s, 1, Min({Len(s), MaxClosed}))
  OBVIOUS
<1>7. closed \in Seq(ClosedEntry)
  <2>1. tb.open.closed \in Seq(ClosedEntry)
    BY <1>1 DEF TabsType
  <2> QED BY <1>5, <1>6, <2>1, ClosedEntriesAre
<1>8. PICK S : S = [tb EXCEPT !.open.closing = @ \cup {t},
                              !.open.closed = LET s == << entry >> \o @ IN SubSeq(s, 1, Min({Len(s), MaxClosed}))]
  OBVIOUS
<1>9. PICK w : w = [tb.open EXCEPT !.closing = tb.open.closing \cup {t}, !.closed = closed]
  OBVIOUS
<1>10. S = [tb EXCEPT !.open = w]
  BY <1>1, <1>6, <1>8, <1>9 DEF TbType, TabsType
<1>11. w \in TabsType
  BY <1>1, <1>3, <1>7, <1>9 DEF TabsType
<1>12. /\ w.bar = tb.open.bar /\ w.stack = tb.open.stack /\ w.current = tb.open.current
       /\ w.shown = tb.open.shown /\ w.closing = tb.open.closing \cup {t} /\ w.drag = tb.open.drag
  BY <1>1, <1>9 DEF TabsType
<1>13. w.ready = tb.open.ready /\ w.discard = tb.open.discard
  BY <1>1, <1>9 DEF TabsType
<1>14. WindowFits(w) /\ CurrentFits(w)
  <2>1. \A z \in w.closing : Listing(w.bar, z)
    BY <1>1, <1>3, <1>12 DEF Sound, WindowFits
  <2>2. WindowFits(w)
    BY <1>1, <1>12, <1>13, <2>1, Zenon DEF Sound, WindowFits
  <2>3. CurrentFits(w)
    BY <1>1, <1>12, Zenon DEF Sound, CurrentFits
  <2> QED BY <2>2, <2>3
<1>15. Sound(S) /\ Live(S) /\ S.open = w
  BY <1>1, <1>10, <1>11, <1>13, <1>14, WindowSound
<1>16. PICK R : R = IF S.open.current = t THEN Select(S, Replacement(S.open, t)) ELSE S
  OBVIOUS
<1>17. Sound(R) /\ Live(R)
  <2>1. CASE S.open.current = t
    <3>1. PICK r : r = Replacement(S.open, t)
      OBVIOUS
    <3>2. Listing(S.open.bar, r)
      BY <1>3, <1>11, <1>12, <1>14, <1>15, <3>1, ReplacementIs
    <3>3. Framed(S) /\ CurrentFits(S.open)
      BY <1>15 DEF Framed, Sound
    <3>4. Sound(Select(S, r)) /\ Live(Select(S, r))
      BY <3>2, <3>3, Selected
    <3> QED BY <1>16, <2>1, <3>1, <3>4
  <2>2. CASE S.open.current # t
    BY <1>15, <1>16, <2>2
  <2> QED BY <2>1, <2>2
<1>18. tb' = [Schedule(R) EXCEPT !.events = @ + 1]
  BY <1>2, <1>4, <1>8, <1>16 DEF Counted
<1>19. TbInv(Schedule(R)) /\ Live(Schedule(R))
  BY <1>17, Scheduled
<1> QED BY <1>18, <1>19, CountedFits

LEMMA FinishClosingFits ==
  ASSUME TbInv(tb), FinishClosingTab
  PROVE  TbInv(tb')
<1>1. PICK t \in tb.open.closing :
        LET S == [tb EXCEPT !.open = Without(@, t)]
        IN  IF S.open.bar = << >>
            THEN \E E \in Emptied(S) : \E T \in Closed(E) : Becomes(T)
            ELSE IF tb.open.current = t
            THEN \E next \in ToSet(S.open.bar) :
                   Becomes(Schedule([S EXCEPT !.open.current = next, !.open.shown = next, !.open.lazy = @ \ {next}]))
            ELSE Becomes(Schedule(S))
  BY Zenon DEF FinishClosingTab
<1>2. Sound(tb)
  BY DEF TbInv
<1>3. Live(tb)
  <2>1. tb.open # NoTabs
    BY NoTabsAre
  <2> QED BY <1>2, <2>1 DEF Sound
<1>4. PICK S : S = [tb EXCEPT !.open = Without(@, t)]
  OBVIOUS
<1>5. /\ S \in TbType /\ WindowFits(S.open) /\ Live(S)
      /\ S.mode = tb.mode /\ S.file = tb.file /\ S.behind = tb.behind
      /\ S.open.bar = << >> \/ tb.open.current # t => CurrentFits(S.open)
  <2>1. PICK w : w = Without(tb.open, t)
    OBVIOUS
  <2>2. S = [tb EXCEPT !.open = w]
    BY <1>4, <2>1
  <2>3. S \in TbType /\ WindowFits(S.open) /\ Live(S)
    <3>1. S \in TbType
      BY <1>2, <1>3, <2>1, <2>2, WithoutFits
    <3>2. WindowFits(S.open)
      BY <1>2, <1>3, <2>1, <2>2, WithoutFits
    <3>3. Live(S)
      BY <1>2, <1>3, <2>1, <2>2, WithoutFits
    <3> QED BY <3>1, <3>2, <3>3
  <2>4. S.mode = tb.mode /\ S.file = tb.file /\ S.behind = tb.behind
    BY <1>2, <1>3, <2>1, <2>2, WithoutFits
  <2>5. S.open.bar = << >> \/ tb.open.current # t => CurrentFits(S.open)
    BY <1>2, <1>3, <2>1, <2>2, WithoutFits
  <2> QED BY <2>3, <2>4, <2>5
<1>6. FileFits(S.file.tabs, S.file.active)
  BY <1>2, <1>5 DEF Sound
<1>7. CASE S.open.bar = << >>
  <2>1. PICK E \in Emptied(S) : \E T \in Closed(E) : tb' = T
    BY <1>1, <1>4, <1>7, Zenon DEF Becomes
  <2>2. PICK T \in Closed(E) : tb' = T
    BY <2>1
  <2>3. Sound(E) /\ Live(E)
    BY <1>5, <1>6, <1>7, <2>1, EmptiedFits DEF CurrentFits
  <2> QED BY <2>2, <2>3, ClosedFits
<1>8. CASE S.open.bar # << >> /\ tb.open.current = t
  <2>1. PICK next \in ToSet(S.open.bar) :
          tb' = Schedule([S EXCEPT !.open.current = next, !.open.shown = next, !.open.lazy = @ \ {next}])
    BY <1>1, <1>4, <1>8, Zenon DEF Becomes
  <2>2. S.open \in TabsType /\ S.open.bar \in Seq(Tabs)
    BY <1>5 DEF TbType, TabsType
  <2>3. Listing(S.open.bar, next) /\ next \in Tabs
    BY <2>1, <2>2, ToSetIs
  <2>4. PICK w : w = [S.open EXCEPT !.current = next, !.shown = next, !.lazy = @ \ {next}]
    OBVIOUS
  <2>5. PICK T : T = [S EXCEPT !.open.current = next, !.open.shown = next, !.open.lazy = @ \ {next}]
    OBVIOUS
  <2>6. T = [S EXCEPT !.open = w]
    BY <1>5, <2>4, <2>5 DEF TbType, TabsType
  <2>7. w \in TabsType
    BY <2>2, <2>3, <2>4 DEF TabsType
  <2>8. /\ w.bar = S.open.bar /\ w.stack = S.open.stack /\ w.current = next /\ w.shown = next
        /\ w.closing = S.open.closing /\ w.drag = S.open.drag
    BY <2>2, <2>4 DEF TabsType
  <2>9. w.ready = S.open.ready /\ w.discard = S.open.discard
    BY <2>2, <2>4 DEF TabsType
  <2>10. WindowFits(w)
    BY <1>5, <2>8, <2>9, Zenon DEF WindowFits
  <2>11. CurrentFits(w)
    BY <1>8, <2>3, <2>8 DEF CurrentFits
  <2>12. T \in TbType
    BY <1>5, <2>6, <2>7 DEF TbType
  <2>13. T.open = w /\ T.mode = S.mode /\ T.file = S.file
    BY <1>5, <2>6 DEF TbType
  <2>14. T.running = S.running
    BY <1>5, <2>6, Zenon DEF TbType
  <2>15. Live(T)
    BY <1>5, <2>9, <2>13, <2>14, Zenon DEF Live
  <2>16. Sound(T)
    BY <1>6, <2>10, <2>11, <2>12, <2>13, <2>15, Zenon DEF Sound
  <2> QED BY <2>1, <2>5, <2>15, <2>16, Scheduled
<1>9. CASE S.open.bar # << >> /\ tb.open.current # t
  <2>1. tb' = Schedule(S)
    BY <1>1, <1>4, <1>9, Zenon DEF Becomes
  <2>2. Sound(S)
    BY <1>5, <1>6, <1>9, Zenon DEF Sound
  <2> QED BY <1>5, <2>1, <2>2, Scheduled
<1> QED BY <1>7, <1>8, <1>9

LEMMA ReopenFits ==
  ASSUME TbInv(tb), ReopenLastClosedTab
  PROVE  TbInv(tb')
<1>1. /\ Sound(tb) /\ Live(tb) /\ tb \in TbType /\ tb.open \in TabsType /\ tb.open.bar \in Seq(Tabs)
      /\ tb.open.closed # << >>
  BY UsedIs DEF ReopenLastClosedTab
<1>2. PICK entry : entry = Head(tb.open.closed)
  OBVIOUS
<1>3. PICK S : S = Create([tb EXCEPT !.open.closed = Tail(@)], entry.tab, TRUE, entry.pinned, entry.web)
  OBVIOUS
<1>4. /\ entry.tab \notin ToSet(tb.open.bar)
      /\ Counted(IF entry.pinned THEN Move(S, entry.tab, PinnedCount(S.open)) ELSE S)
  BY <1>2, <1>3, Zenon DEF ReopenLastClosedTab
<1>5. tb.open.closed \in Seq(ClosedEntry)
  BY <1>1 DEF TabsType
<1>6. PICK closed \in Seq(ClosedEntry) : closed = Tail(tb.open.closed)
  <2>1. PICK s \in Seq(ClosedEntry) : s = tb.open.closed /\ s # << >>
    BY <1>1, <1>5
  <2>2. Tail(s) \in Seq(ClosedEntry)
    BY <2>1, HeadTailProperties
  <2> QED BY <2>1, <2>2
<1>7. entry \in ClosedEntry
  BY <1>1, <1>2, <1>5
<1>8. PICK t \in Tabs, pinned \in BOOLEAN, web \in BOOLEAN :
        t = entry.tab /\ pinned = entry.pinned /\ web = entry.web
  BY <1>7, Zenon DEF ClosedEntry
<1>9. ~Listing(tb.open.bar, t)
  BY <1>1, <1>4, <1>8, ToSetIs
<1>10. PICK w : w = [tb.open EXCEPT !.closed = closed]
  OBVIOUS
<1>11. w \in TabsType
  BY <1>1, <1>10 DEF TabsType
<1>12. /\ w.bar = tb.open.bar /\ w.stack = tb.open.stack /\ w.current = tb.open.current /\ w.shown = tb.open.shown
       /\ w.closing = tb.open.closing /\ w.drag = tb.open.drag
  BY <1>1, <1>10 DEF TabsType
<1>13. w.ready = tb.open.ready /\ w.discard = tb.open.discard
  BY <1>1, <1>10 DEF TabsType
<1>14. WindowFits(w) /\ CurrentFits(w)
  BY <1>1, <1>12, <1>13, Zenon DEF Sound, WindowFits, CurrentFits
<1>15. PICK R : R = [tb EXCEPT !.open = w]
  OBVIOUS
<1>16. R = [tb EXCEPT !.open.closed = Tail(@)]
  BY <1>1, <1>6, <1>10, <1>15 DEF TbType, TabsType
<1>17. Sound(R) /\ Live(R) /\ R.open = w
  BY <1>1, <1>11, <1>13, <1>14, <1>15, WindowSound
<1>18. PICK yes \in BOOLEAN : yes = TRUE
  OBVIOUS
<1>19. S = Create(R, t, yes, pinned, web)
  BY <1>3, <1>8, <1>16, <1>18, Zenon
<1>20. /\ TbInv(S) /\ Live(S) /\ S.open.bar = Append(R.open.bar, t)
       /\ pinned => S.open.pinned = R.open.pinned \cup {t}
  BY <1>9, <1>12, <1>17, <1>19, Created
<1>21. CASE pinned
  <2>1. PICK s \in Seq(Tabs) : s = tb.open.bar /\ Once(s)
    BY <1>1 DEF Sound, WindowFits
  <2>2. PICK b : b = Append(s, t)
    OBVIOUS
  <2>3. b \in Seq(Tabs) /\ Listing(b, t)
    BY <1>9, <2>1, <2>2, AppendFits
  <2>4. S.open.bar = b /\ S.open \in TabsType /\ t \in S.open.pinned
    BY <1>12, <1>17, <1>20, <1>21, <2>1, <2>2 DEF TbInv, Sound, TbType
  <2>5. PICK to : to = PinnedCount(S.open)
    OBVIOUS
  <2>6. to \in 0 .. Len(b) /\ to # 0
    BY <2>3, <2>4, <2>5, PinnedCountIs
  <2>7. to \in 1 .. Len(S.open.bar)
    BY <2>3, <2>4, <2>6
  <2>8. TbInv(Move(S, t, to)) /\ Live(Move(S, t, to))
    BY <1>20, <2>3, <2>4, <2>7, Moved DEF TbInv
  <2>9. tb' = [Move(S, t, to) EXCEPT !.events = @ + 1]
    BY <1>4, <1>8, <1>21, <2>5, Zenon DEF Counted
  <2> QED BY <2>8, <2>9, CountedFits
<1>22. CASE ~pinned
  <2>1. tb' = [S EXCEPT !.events = @ + 1]
    BY <1>4, <1>8, <1>22, Zenon DEF Counted
  <2> QED BY <1>20, <2>1, CountedFits
<1> QED BY <1>21, <1>22

LEMMA SaveSessionFits ==
  ASSUME TbInv(tb), SaveSession
  PROVE  TbInv(tb')
<1>1. PICK T \in Saved(tb) : tb' = T
  BY DEF SaveSession, Becomes
<1>2. Sound(tb) /\ tb.open.timer /\ tb.running
  BY DEF SaveSession, TbInv
<1>3. Live(tb)
  BY <1>2, NoTabsAre, Zenon DEF Sound
<1> QED BY <1>1, <1>2, <1>3, SaveFits

LEMMA CloseWindowFits ==
  ASSUME TbInv(tb), CloseWindow
  PROVE  TbInv(tb')
<1>1. PICK T \in Closed(tb) : tb' = T
  BY DEF CloseWindow, Becomes
<1>2. Sound(tb) /\ Live(tb)
  BY UsedIs DEF CloseWindow
<1> QED BY <1>1, <1>2, ClosedFits

LEMMA SetStartupModeFits ==
  ASSUME TbInv(tb), SetStartupMode
  PROVE  TbInv(tb')
<1>1. Sound(tb) /\ Live(tb) /\ tb \in TbType
  BY UsedIs DEF SetStartupMode
<1>2. PICK mode \in { "StartPage", "RestoreTabs" } :
        mode = IF tb.mode = "StartPage" THEN "RestoreTabs" ELSE "StartPage"
  OBVIOUS
<1>3. PICK S : S = [tb EXCEPT !.mode = IF @ = "StartPage" THEN "RestoreTabs" ELSE "StartPage"]
  OBVIOUS
<1>4. S = [tb EXCEPT !.mode = mode]
  BY <1>1, <1>2, <1>3 DEF TbType
<1>5. S \in TbType
  BY <1>1, <1>4 DEF TbType
<1>6. S.open = tb.open /\ S.file = tb.file
  BY <1>1, <1>4 DEF TbType
<1>7. S.running = tb.running
  BY <1>1, <1>4, Zenon DEF TbType
<1>8. Live(S)
  BY <1>1, <1>6, <1>7, Zenon DEF Live
<1>9. Sound(S)
  BY <1>1, <1>5, <1>6, <1>8, Zenon DEF Sound
<1>10. IF S.mode = "RestoreTabs" THEN Counted(Schedule(S)) ELSE \E T \in Saved(S) : Counted(T)
  BY <1>3, Zenon DEF SetStartupMode
<1>11. CASE S.mode = "RestoreTabs"
  <2>1. tb' = [Schedule(S) EXCEPT !.events = @ + 1]
    BY <1>10, <1>11 DEF Counted
  <2>2. TbInv(Schedule(S)) /\ Live(Schedule(S))
    BY <1>8, <1>9, Scheduled
  <2> QED BY <2>1, <2>2, CountedFits
<1>12. CASE S.mode # "RestoreTabs"
  <2>1. PICK T \in Saved(S) : tb' = [T EXCEPT !.events = @ + 1]
    BY <1>10, <1>12 DEF Counted
  <2>2. TbInv(T) /\ Live(T)
    BY <1>8, <1>9, SaveFits
  <2> QED BY <2>1, <2>2, CountedFits
<1> QED BY <1>11, <1>12

LEMMA TbInitFits ==
  ASSUME TbInit
  PROVE  TbInv(tb)
<1>1. PICK mode \in { "StartPage", "RestoreTabs" }, file \in { NoFile, Unreadable } :
        tb = [open |-> NoTabs, running |-> FALSE, mode |-> mode, file |-> file, behind |-> FALSE,
              dropped |-> {}, events |-> 0, starts |-> 0]
  BY DEF TbInit
<1>2. << >> \in Seq(Entry)
  BY EmptySeq
<1>3. file \in FileType /\ file.tabs = << >> /\ file.active = None
  <2>1. CASE file = NoFile
    BY <1>2, <2>1 DEF NoFile, File, FileType
  <2>2. CASE file = Unreadable
    BY <1>2, <2>2 DEF Unreadable, File, FileType
  <2> QED BY <2>1, <2>2
<1>4. tb \in TbType
  BY <1>1, <1>3, NoTabsAre DEF TbType
<1>5. tb.open = NoTabs /\ tb.file = file
  BY <1>1
<1>6. ~Live(tb)
  BY <1>1 DEF Live
<1>7. FileFits(<< >>, None)
  <2>1. MaxRestored \in Nat
    BY TabSessionAssumption
  <2> QED BY <2>1 DEF FileFits
<1>8. Sound(tb)
  BY <1>3, <1>4, <1>5, <1>6, <1>7, NoTabsAre, Zenon DEF Sound
<1>9. AllPinned(<< >>)
  BY DEF AllPinned
<1>10. Told(tb)
  BY <1>3, <1>5, <1>6, <1>9, Zenon DEF Told
<1> QED BY <1>8, <1>10 DEF TbInv

LEMMA TabStepsFit ==
  ASSUME TbInv(tb), [TbNext]_tbVars
  PROVE  TbInv(tb')
<1>1. CASE StartProgram
  BY <1>1, StartFits
<1>2. CASE ActivatePrimaryWindow
  BY <1>2, ActivateFits
<1>3. CASE OpenUrlInPrimaryWindow
  BY <1>3, OpenUrlFits
<1>4. CASE OpenNewTab
  BY <1>4, OpenNewTabFits
<1>5. CASE SelectTab
  BY <1>5, SelectTabFits
<1>6. CASE Navigate
  BY <1>6, NavigateFits
<1>7. CASE SetTabPinned
  BY <1>7, SetTabPinnedFits
<1>8. CASE Drag
  BY <1>8, DragFits
<1>9. CASE Drop
  BY <1>9, DropFits
<1>10. CASE StartClosingTab
  BY <1>10, StartClosingFits
<1>11. CASE FinishClosingTab
  BY <1>11, FinishClosingFits
<1>12. CASE ReopenLastClosedTab
  BY <1>12, ReopenFits
<1>13. CASE SaveSession
  BY <1>13, SaveSessionFits
<1>14. CASE CloseWindow
  BY <1>14, CloseWindowFits
<1>15. CASE SetStartupMode
  BY <1>15, SetStartupModeFits
<1>16. CASE Exit
  BY <1>16, ExitFits
<1>17. CASE UNCHANGED tbVars
  BY <1>17 DEF tbVars
<1> QED BY <1>1, <1>2, <1>3, <1>4, <1>5, <1>6, <1>7, <1>8, <1>9, <1>10, <1>11, <1>12, <1>13, <1>14, <1>15,
           <1>16, <1>17, Zenon DEF TbNext

\* A session file holds what the tab bar says of its tabs, whatever was done to them since the start.
THEOREM TabsAreSound == TbSpec => []TbInv(tb)
<1>1. TbInit => TbInv(tb)
  BY TbInitFits
<1>2. TbInv(tb) /\ [TbNext]_tbVars => TbInv(tb)'
  <2>1. ASSUME TbInv(tb), [TbNext]_tbVars PROVE TbInv(tb')
    BY <2>1, TabStepsFit
  <2> QED BY <2>1
<1> QED BY <1>1, <1>2, PTL DEF TbSpec

\* The tab bar and the tab stack list the same tabs in the same order and show the same one: a click
\* on a tab brings up its own page (TabsAgree).
THEOREM BarAndStackAgree == TbSpec => []TabsAgree
<1>1. ASSUME TbInv(tb) PROVE TabsAgree
  <2>1. /\ tb.open.bar \in Seq(Tabs) /\ tb.open.current \in Tabs \cup {None}
        /\ WindowFits(tb.open) /\ CurrentFits(tb.open)
    BY <1>1 DEF TbInv, Sound, TbType, TabsType
  <2>2. PICK s \in Seq(Tabs) : s = tb.open.bar
    BY <2>1
  <2>3. IsInjective(s)
    <3>1. DOMAIN s = 1 .. Len(s)
      OBVIOUS
    <3> QED BY <2>1, <2>2, <3>1, Zenon DEF WindowFits, Once, IsInjective
  <2>4. tb.open.current = None <=> s = << >>
    <3>1. ASSUME s # << >> PROVE tb.open.current # None
      <4>1. PICK i \in 1 .. Len(s) : s[i] = tb.open.current
        BY <2>1, <2>2, <3>1 DEF CurrentFits, Listing
      <4>2. s[i] \in Tabs
        OBVIOUS
      <4> QED BY <4>1, <4>2, TabSessionAssumption
    <3> QED BY <2>1, <2>2, <3>1 DEF CurrentFits
  <2>5. tb.open.closing \subseteq ToSet(s)
    <3>1. \A t : t \in ToSet(s) <=> Listing(s, t)
      BY ToSetIs
    <3> QED BY <2>1, <2>2, <3>1 DEF WindowFits
  <2> QED BY <2>1, <2>2, <2>3, <2>4, <2>5 DEF WindowFits, TabsAgree
<1> QED BY <1>1, TabsAreSound, PTL

\* When no save is due and none has failed, the session file holds the open tabs that the next start
\* is to bring back, whatever opened, moved, pinned or closed them (SessionIsSaved).
THEOREM SavedSessionsAreTrue == TbSpec => []SessionIsSaved
<1>1. ASSUME TbInv(tb) PROVE SessionIsSaved
  <2>1. SUFFICES ASSUME tb.running, tb.open.ready, ~tb.open.timer, ~tb.behind
                 PROVE  LET w == tb.open
                            wanted == { t \in ToSet(w.bar) \ w.closing :
                                          t \in w.web /\ (tb.mode = "RestoreTabs" \/ t \in w.pinned) }
                            saved == tb.file.tabs
                        IN  /\ \A i \in DOMAIN saved :
                                 saved[i].tab \in wanted /\ (saved[i].pinned <=> saved[i].tab \in w.pinned)
                            /\ Len(saved) = Min({Cardinality(wanted), MaxRestored})
                            /\ \A i, j \in DOMAIN saved :
                                 i < j => \/ saved[i].pinned /\ ~saved[j].pinned
                                          \/ /\ saved[i].pinned <=> saved[j].pinned
                                             /\ Position(w.bar, saved[i].tab) < Position(w.bar, saved[j].tab)
                            /\ \A t \in wanted, i \in DOMAIN saved :
                                 t \in w.pinned /\ ~saved[i].pinned => \E j \in DOMAIN saved : saved[j].tab = t
    BY Zenon DEF SessionIsSaved
  <2>2. PICK wanted : wanted = { t \in ToSet(tb.open.bar) \ tb.open.closing :
                                   t \in tb.open.web /\ (tb.mode = "RestoreTabs" \/ t \in tb.open.pinned) }
    OBVIOUS
  <2>3. tb.open.bar \in Seq(Tabs) /\ tb.file.tabs \in Seq(Entry)
    BY <1>1 DEF TbInv, Sound, TbType, TabsType, FileType
  <2>4. wanted = Wanted(tb.open.bar, tb.open.closing, tb.open.web, tb.open.pinned, tb.mode)
    <3>1. PICK all \in SUBSET Tabs : all = ToSet(tb.open.bar) /\ \A t : t \in all <=> Listing(tb.open.bar, t)
      BY <2>3, ToSetIs
    <3> QED BY <2>2, <3>1 DEF Wanted
  <2>5. PICK saved \in Seq(Entry) : saved = tb.file.tabs
    BY <2>3
  <2>6. DOMAIN saved = 1 .. Len(saved)
    OBVIOUS
  <2>7. Live(tb)
    BY <2>1 DEF Live
  <2>8. Tells(saved, tb.open.bar, wanted, tb.open.pinned)
    BY <1>1, <2>1, <2>4, <2>5, <2>7, Zenon DEF TbInv, Told
  <2>9. \A i \in DOMAIN saved : saved[i].tab \in wanted /\ (saved[i].pinned <=> saved[i].tab \in tb.open.pinned)
    BY <2>6, <2>8, Zenon DEF Tells
  <2>10. Len(saved) = Min({Cardinality(wanted), MaxRestored})
    BY <2>8, Zenon DEF Tells
  <2>11. \A i, j \in DOMAIN saved :
           i < j => \/ saved[i].pinned /\ ~saved[j].pinned
                    \/ /\ saved[i].pinned <=> saved[j].pinned
                       /\ Position(tb.open.bar, saved[i].tab) < Position(tb.open.bar, saved[j].tab)
    BY <2>6, <2>8, Zenon DEF Tells
  <2>12. \A t \in wanted, i \in DOMAIN saved :
           t \in tb.open.pinned /\ ~saved[i].pinned => \E j \in DOMAIN saved : saved[j].tab = t
    <3>1. \A t \in wanted, i \in 1 .. Len(saved) :
            t \in tb.open.pinned /\ ~saved[i].pinned => \E j \in 1 .. Len(saved) : saved[j].tab = t
      BY <2>8, Zenon DEF Tells
    <3> QED BY <2>6, <3>1, Zenon
  <2> QED BY <2>2, <2>5, <2>9, <2>10, <2>11, <2>12, ZenonT(120)
<1> QED BY <1>1, TabsAreSound, PTL
=============================================================================
