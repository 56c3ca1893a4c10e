--------------------------- MODULE PermissionPrompts ---------------------------
(***************************************************************************)
(* PermissionController: the requests of pages for camera, microphone or   *)
(* location, and the one prompt of a window that asks the user about them. *)
(* A handler is a function from the controller's state to its next state;  *)
(* VideoPresentation composes them with the rest of the main window.       *)
(***************************************************************************)
EXTENDS Naturals

CONSTANTS
  Views,   \* the tabs of the window
  NoView

ASSUME ViewsAssumption == NoView \notin Views

NoRequest == [view |-> NoView, page |-> 0, id |-> 0]

(***************************************************************************)
(* current is m_currentView, active and queue hold requests: the view, the *)
(* page it showed, and a number.  Requests are numbered as they arrive, so *)
(* the order of m_queue is the order of the numbers, and queue is a set.   *)
(* bar is whether the prompt's tool bar is visible; decided are the        *)
(* numbers of the requests granted or denied.                              *)
(***************************************************************************)
NoPermissions(view) ==
  [current |-> view, active |-> NoRequest, queue |-> {},
   decided |-> {}, bar |-> FALSE]

Numbers(requests) == { r.id : r \in requests }

Deciding(p, requests) == [p EXCEPT !.decided = @ \union Numbers(requests)]

\* Mutant of ShowNext: the queue is not looked at until the next request comes.
ShowNothing(p) == IF p.active = NoRequest THEN [p EXCEPT !.bar = FALSE] ELSE p

(***************************************************************************)
(* showNext: the first queued request of the current view is shown, those  *)
(* before it are denied; without one the prompt is hidden.                 *)
(***************************************************************************)
ShowNext(p) ==
  LET here == { r \in p.queue : r.view = p.current }
      first == CHOOSE r \in here : \A s \in here : r.id <= s.id
      rest == { r \in p.queue : here # {} /\ r.id > first.id }
      next == IF here = {} THEN NoRequest ELSE first
  IN  IF p.active # NoRequest THEN p
      ELSE [Deciding(p, p.queue \ (rest \union {next})) EXCEPT
              !.queue = rest, !.active = next, !.bar = here # {}]

(***************************************************************************)
(* request.  promptable: an HTTPS page asks for a kind of permission that  *)
(* PermissionPolicy leaves to the user.                                    *)
(***************************************************************************)
RequestPermission(p, r, promptable) ==
  IF promptable /\ r.view = p.current
  THEN ShowNext([p EXCEPT !.queue = @ \union {r}])
  ELSE Deciding(p, {r})

(***************************************************************************)
(* denyCurrent and allowCurrent; the request may be none, then the click   *)
(* was on a prompt that is no longer about anything.                       *)
(***************************************************************************)
Ended(p) == [p EXCEPT !.active = NoRequest, !.bar = FALSE]

DenyCurrent(p) ==
  ShowNext(Ended(IF p.active = NoRequest THEN p ELSE Deciding(p, {p.active})))

AllowCurrent(p) ==
  LET r == p.active
  IN  ShowNext(Ended(IF r # NoRequest /\ r.view = p.current THEN Deciding(p, {r}) ELSE p))

CurrentViewChanged(p, view) ==
  LET now == [p EXCEPT !.current = view]
      stale == p.active # NoRequest /\ p.active.view # view
  IN  ShowNext(IF stale THEN DenyCurrent(now) ELSE now)

\* Mutant of CancelForView: what is queued behind the prompt is forgotten about.
CancelActiveForView(p, view) ==
  ShowNext(IF p.active.view = view THEN Ended(Deciding(p, {p.active})) ELSE p)

CancelForView(p, view) ==
  LET mine == { r \in p.queue : r.view = view }
      cleared == [Deciding(p, mine) EXCEPT !.queue = @ \ mine]
  IN  ShowNext(IF p.active.view = view
               THEN Ended(Deciding(cleared, {p.active}))
               ELSE cleared)

=============================================================================
