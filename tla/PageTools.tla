------------------------------ MODULE PageTools ------------------------------
(***************************************************************************)
(* Two tools of a window that act on the page in front while it may change *)
(* under them: the find bar (MainWindow::findInPage, FindBar), whose       *)
(* results the engine delivers later, and the question whether a link may  *)
(* open another application (handleExternalUrlRequest).                    *)
(***************************************************************************)
EXTENDS Naturals

CONSTANTS
  ToolTabs,      \* tabs of the window
  Queries,       \* what is looked for
  MaxToolEvents  \* bound: changes of tabs, loads and searches

NoTab == "none"
NoQuery == ""
NoResult == [tab |-> NoTab, query |-> NoQuery, load |-> 0]

ASSUME ToolsAssumption == ToolTabs # {} /\ NoQuery \notin Queries /\ MaxToolEvents \in Nat

VARIABLE pt

ptVars == << pt >>

(***************************************************************************)
(* open, the tabs; loads, the loads each has started; detached, those      *)
(* whose video has its own window.  The find bar: bar, it is there; query; *)
(* shown, the search whose results it shows; findView and serial, as in    *)
(* the code; answers, what the engine has yet to deliver.  source is       *)
(* m_externalUrlSource while the dialog is there, and asked the load of    *)
(* the page that asked.                                                    *)
(***************************************************************************)
PtInit ==
  pt = [open |-> ToolTabs, current |-> CHOOSE t \in ToolTabs : TRUE, loads |-> [t \in ToolTabs |-> 0],
        loading |-> {}, detached |-> {}, bar |-> FALSE, query |-> NoQuery, shown |-> NoResult, findView |-> NoTab,
        serial |-> 0, answers |-> {}, source |-> NoTab, asked |-> 0, events |-> 0]

Counts(S) == pt.events < MaxToolEvents /\ pt' = [S EXCEPT !.events = @ + 1]

(***************************************************************************)
(* The find bar.                                                           *)
(***************************************************************************)
FindInPage(S) ==
  LET search == [tab |-> S.current, query |-> S.query, load |-> S.loads[S.current], serial |-> S.serial + 1]
      F == [S EXCEPT !.findView = S.current, !.serial = @ + 1, !.shown = NoResult]
  IN  IF ~S.bar THEN S
      ELSE IF S.query = NoQuery THEN F
      ELSE [F EXCEPT !.answers = @ \cup {search}]

\* focusInput, with the text that is selected in the page, and queryChanged
OpenFindBar ==
  \E selected \in Queries \cup {NoQuery} :
    LET changes == selected # NoQuery /\ selected # pt.query
    IN  Counts(IF changes THEN FindInPage([pt EXCEPT !.bar = TRUE, !.query = selected])
               ELSE IF pt.bar THEN pt
               ELSE FindInPage([pt EXCEPT !.bar = TRUE]))

CloseFindBar ==
  pt.bar /\ Counts([pt EXCEPT !.bar = FALSE, !.serial = @ + 1, !.findView = NoTab, !.shown = NoResult])

TypeQuery ==
  \E query \in (Queries \cup {NoQuery}) \ {pt.query} : pt.bar /\ Counts(FindInPage([pt EXCEPT !.query = query]))

FindNext == pt.bar /\ Counts(FindInPage(pt))

\* Mutant of IsCurrentSearch: a late answer is recognised by its tab and its query.
IsSearchOfTab(a) == pt.bar /\ a.tab = pt.current /\ a.query = pt.query

IsCurrentSearch(a) ==
  /\ a.serial = pt.serial /\ a.tab = pt.current /\ a.tab = pt.findView
  /\ pt.bar /\ a.query = pt.query

\* The engine delivers in any order, or never.
FindResultArrives ==
  \E a \in pt.answers :
    LET S == [pt EXCEPT !.answers = @ \ {a}]
    IN  pt' = IF IsCurrentSearch(a) THEN [S EXCEPT !.shown = [tab |-> a.tab, query |-> a.query, load |-> a.load]] ELSE S

(***************************************************************************)
(* The question.  A page may ask while it is in front, or its video is.    *)
(***************************************************************************)
CancelExternalUrlPrompt(S, t) == IF S.source = t THEN [S EXCEPT !.source = NoTab] ELSE S

HandleExternalUrlRequest ==
  \E t \in pt.open :
    /\ t = pt.current \/ t \in pt.detached
    /\ pt.source = NoTab
    /\ Counts([pt EXCEPT !.source = t, !.asked = pt.loads[t]])

AnswerExternalUrlPrompt == pt.source # NoTab /\ Counts([pt EXCEPT !.source = NoTab])

(***************************************************************************)
(* What happens to the tabs.                                               *)
(***************************************************************************)
CurrentChanged(S, t) ==
  LET F == [S EXCEPT !.current = t]
  IN  FindInPage(IF F.source \notin {NoTab, t} /\ F.source \notin F.detached THEN [F EXCEPT !.source = NoTab] ELSE F)

SwitchToTab == \E t \in pt.open \ {pt.current} : Counts(CurrentChanged(pt, t))

LoadStartedIn ==
  \E t \in pt.open :
    LET S == [CancelExternalUrlPrompt(pt, t) EXCEPT !.loads[t] = @ + 1, !.loading = @ \cup {t}]
        searching == t = pt.current /\ pt.bar /\ pt.query # NoQuery
    IN  Counts(IF t = pt.findView
               THEN [S EXCEPT !.serial = @ + 1, !.shown = IF searching THEN NoResult ELSE @]
               ELSE S)

LoadFinishedIn ==
  \E t \in pt.loading :
    LET S == [pt EXCEPT !.loading = @ \ {t}]
    IN  pt' = IF t = pt.current /\ pt.query # NoQuery THEN FindInPage(S) ELSE S

\* prepareTabForClosing; another tab comes to the front.
CloseTabOfTools ==
  \E t \in pt.open :
    LET home == [CancelExternalUrlPrompt(pt, t) EXCEPT !.open = @ \ {t}, !.loading = @ \ {t}, !.detached = @ \ {t}]
        silent == IF t = pt.findView
                  THEN [home EXCEPT !.serial = @ + 1, !.findView = NoTab, !.shown = NoResult] ELSE home
    IN  /\ silent.open # {}
        /\ IF t # pt.current THEN Counts(silent)
           ELSE \E next \in silent.open : Counts(CurrentChanged(silent, next))

DetachVideo == pt.current \notin pt.detached /\ Counts([pt EXCEPT !.detached = @ \cup {pt.current}])

RestoreVideo == \E t \in pt.detached : Counts([CancelExternalUrlPrompt(pt, t) EXCEPT !.detached = @ \ {t}])

PtNext ==
  \/ OpenFindBar \/ CloseFindBar \/ TypeQuery \/ FindNext \/ FindResultArrives
  \/ HandleExternalUrlRequest \/ AnswerExternalUrlPrompt
  \/ SwitchToTab \/ LoadStartedIn \/ LoadFinishedIn \/ CloseTabOfTools \/ DetachVideo \/ RestoreVideo

(***************************************************************************)
(* Property.                                                               *)
(***************************************************************************)
\* The find bar shows the results of the query it holds in the page in front, never those of an
\* earlier query, tab or load that come late; and the question is asked only for a page that has
\* not been left, and that is in front or has its video in front (findInPage, cancelExternalUrlPrompt).
ToolsFollowPage ==
  /\ pt.shown # NoResult =>
       pt.bar /\ pt.shown = [tab |-> pt.current, query |-> pt.query, load |-> pt.loads[pt.current]]
  /\ pt.source # NoTab =>
       /\ pt.source \in pt.open /\ pt.asked = pt.loads[pt.source]
       /\ pt.source = pt.current \/ pt.source \in pt.detached
=============================================================================
