----------------------------- MODULE TabSession -----------------------------
(***************************************************************************)
(* The tabs of the primary window and the session file (MainWindow,        *)
(* BrowserTabBar, SessionStore).  Each tab is an entry of the tab bar and  *)
(* a widget of the tab stack, kept in the same order by the handlers of    *)
(* the tab bar's signals.  A closing tab stays in both until its animation *)
(* has ended.  The session is written by a timer after each change, at     *)
(* the closing of the window, and is read when the tabs are first needed.  *)
(* The program can also die at any moment, or start for a web app or for   *)
(* an address that another program hands over.                             *)
(***************************************************************************)
EXTENDS Naturals, Sequences, FiniteSets, SequencesExt, FiniteSetsExt, Subsequences

CONSTANTS
  Tabs,             \* a tab, and the page it shows
  MaxRestored,      \* maximumRestoredTabs
  MaxClosed,        \* maximumClosedTabs
  MaxTabEvents,     \* bound: changes made by the user and by pages
  MaxStarts         \* bound: starts of the program

None == "none"

ASSUME TabSessionAssumption ==
  /\ {MaxRestored, MaxClosed} \subseteq Nat \ {0} /\ {MaxTabEvents, MaxStarts} \subseteq Nat
  /\ None \notin Tabs

VARIABLE tb

tbVars == << tb >>

File(kind, tabs, active) == [kind |-> kind, tabs |-> tabs, active |-> active]
NoFile == File("none", << >>, None)
Unreadable == File("unreadable", << >>, None)

(***************************************************************************)
(* bar and stack: the tab bar and the tab stack; current and shown: their  *)
(* current index; drag: the tab dragged; web: the tabs at an HTTP address; *)
(* lazy: the tabs that still have a pendingUrl; closed: m_closedTabs; file:*)
(* session.json.  History: behind, the file misses changes because a save  *)
(* or its removal failed or the program ended before its timer did;        *)
(* restored: what the file held when it was last loaded; dropped: the tabs *)
(* of it that were not opened.                                             *)
(***************************************************************************)
NoTabs == [bar |-> << >>, stack |-> << >>, current |-> None, shown |-> None, drag |-> None, pinned |-> {},
           web |-> {}, lazy |-> {}, closing |-> {}, closed |-> << >>, timer |-> FALSE, discard |-> FALSE,
           ready |-> FALSE, visible |-> FALSE]

TbInit ==
  \E mode \in {"StartPage", "RestoreTabs"}, file \in {NoFile, Unreadable} :
    tb = [open |-> NoTabs, running |-> FALSE, mode |-> mode, file |-> file, behind |-> FALSE,
          dropped |-> {}, events |-> 0, starts |-> 0]

(***************************************************************************)
(* Sequences of tabs.                                                      *)
(***************************************************************************)
Position(order, t) == CHOOSE i \in DOMAIN order : order[i] = t

Others(order, t) == ElementsWith(order, LAMBDA u : u # t)

\* QTabBar::moveTab and the handler of tabMoved: the entry goes where to says.
Placed(order, t, to) == InsertAt(Others(order, t), to, t)

\* openTabIndices
OpenTabs(w) == ElementsWith(w.stack, LAMBDA t : t \notin w.closing)

(***************************************************************************)
(* BoundedSessionTabs::canonical and mappedActiveIndex: pinned tabs come   *)
(* first, each group and the whole are cut at the bound, and the active    *)
(* tab is the kept tab that was nearest to it.                             *)
(***************************************************************************)
Cut(s) == SubSeq(s, 1, Min({Len(s), MaxRestored}))

Canonical(tabs, pinned) ==
  Cut(ElementsWith(tabs, LAMBDA t : t \in pinned) \o Cut(ElementsWith(tabs, LAMBDA t : t \notin pinned)))

Gap(i, j) == IF i < j THEN j - i ELSE i - j

Nearest(kept, tabs, active) ==
  IF kept = << >> THEN None
  ELSE LET gap(t) == Gap(Position(tabs, t), active)
       IN  kept[CHOOSE i \in DOMAIN kept :
                  \A j \in DOMAIN kept :
                    gap(kept[i]) < gap(kept[j]) \/ (gap(kept[i]) = gap(kept[j]) /\ i <= j)]

(***************************************************************************)
(* currentSession and saveSession: what is written, or that nothing is.    *)
(***************************************************************************)
Listed(w, mode) ==
  ElementsWith(w.stack, LAMBDA t : t \notin w.closing /\ (mode = "RestoreTabs" \/ t \in w.pinned))

SessionOf(w, mode) ==
  LET listed == Listed(w, mode)
      before == { i \in DOMAIN listed : w.current # None
                    /\ Position(w.stack, listed[i]) <= Position(w.bar, w.current) }
      kept == Canonical(ElementsWith(listed, LAMBDA t : t \in w.web), w.pinned)
  IN  IF w.discard \/ listed = << >> THEN NoFile
      ELSE File("session", [i \in DOMAIN kept |-> [tab |-> kept[i], pinned |-> kept[i] \in w.pinned]],
                Nearest(kept, listed, IF before = {} THEN 1 ELSE Max(before)))

\* The file is written as a whole or stays (QSaveFile); the failure is only logged.
Saved(S) ==
  { [S EXCEPT !.file = SessionOf(S.open, S.mode), !.behind = FALSE, !.open.timer = FALSE],
    [S EXCEPT !.behind = TRUE, !.open.timer = FALSE] }

(***************************************************************************)
(* scheduleSessionSave.                                                    *)
(***************************************************************************)
HasPinned(w) == \E i \in DOMAIN w.bar : w.bar[i] \in w.pinned

\* Mutant of Schedule: the session file is not looked at.
ScheduleIfNeeded(S) == [S EXCEPT !.open.timer = @ \/ S.mode = "RestoreTabs" \/ HasPinned(S.open)]

Schedule(S) ==
  [S EXCEPT !.open.timer = @ \/ S.mode = "RestoreTabs" \/ HasPinned(S.open) \/ S.file # NoFile]

(***************************************************************************)
(* The handlers of the tab bar's signals.  QTabBar ignores a new current   *)
(* index while a tab is dragged.                                           *)
(***************************************************************************)
\* currentChanged
Select(S, t) ==
  IF S.open.current = t \/ S.open.drag # None THEN S
  ELSE Schedule([S EXCEPT !.open.current = t, !.open.shown = t, !.open.lazy = @ \ {t}])

\* Mutant of Move: the stack keeps its order.
MoveInBar(S, t, to) ==
  IF S.open.bar[to] = t THEN S
  ELSE Schedule([S EXCEPT !.open.bar = Placed(@, t, to), !.open.shown = S.open.current])

\* tabMoved
Move(S, t, to) ==
  IF S.open.bar[to] = t THEN S
  ELSE Schedule([S EXCEPT !.open.bar = Placed(@, t, to), !.open.stack = Placed(@, t, to),
                          !.open.shown = S.open.current])

PinnedCount(w) == Cardinality({ i \in DOMAIN w.bar : w.bar[i] \in w.pinned })

\* createTab: a tab at the end; QTabBar selects its first tab itself.
Create(S, t, activate, pinned, web) ==
  LET added == [S EXCEPT !.open.bar = Append(@, t), !.open.stack = Append(@, t), !.open.discard = FALSE,
                         !.open.pinned = IF pinned THEN @ \cup {t} ELSE @,
                         !.open.web = IF web THEN @ \cup {t} ELSE @]
  IN  Schedule(IF activate \/ S.open.bar = << >> THEN Select(added, t) ELSE added)

(***************************************************************************)
(* restoreInitialTabs and initializePrimaryTabsForExternalContent create   *)
(* tabs without a save; SessionStore::load rewrites a file that is not     *)
(* canonical, and one that it cannot read, or rewrite, counts as empty.    *)
(***************************************************************************)
Restored(S, entries, current) ==
  LET order == [i \in DOMAIN entries |-> entries[i].tab]
  IN  [S EXCEPT !.open.bar = order, !.open.stack = order, !.open.web = ToSet(order), !.open.lazy = ToSet(order),
                !.open.pinned = { entries[i].tab : i \in { j \in DOMAIN entries : entries[j].pinned } },
                !.open.ready = TRUE, !.open.visible = TRUE, !.open.discard = FALSE,
                !.open.current = current, !.open.shown = current,
                !.dropped = IF S.mode # "RestoreTabs" THEN {}
                            ELSE { S.file.tabs[i].tab : i \in DOMAIN S.file.tabs } \ ToSet(order)]

PinnedEntries(S) == ElementsWith(S.file.tabs, LAMBDA e : e.pinned)

FirstOf(entries) == IF entries = << >> THEN None ELSE entries[1].tab

Fresh(S) == { t \in Tabs : t \notin ToSet(S.open.bar) }

\* createTab(startPage), which need not be an HTTP address
StartPage(S) == UNION { { Create(S, t, TRUE, FALSE, web) : web \in BOOLEAN } : t \in Fresh(S) }

\* The start page of the other mode comes while m_restoringSession is set: nothing is scheduled.
StartPageUnsaved(S) ==
  { [T EXCEPT !.open.timer = FALSE, !.open.lazy = @ \cup ToSet(S.open.bar)] : T \in StartPage(S) }

RestoreInitialTabs(S) ==
  CASE S.mode = "StartPage" -> StartPageUnsaved(Restored(S, PinnedEntries(S), FirstOf(PinnedEntries(S))))
    [] S.mode = "RestoreTabs" /\ S.file.tabs = << >> -> StartPage(Restored(S, << >>, None))
    [] OTHER -> { [Restored(S, S.file.tabs, S.file.active) EXCEPT !.open.lazy = @ \ {S.file.active}] }

\* activatePrimaryWindow
Activated(S) ==
  LET initialized == IF S.open.ready THEN {S} ELSE RestoreInitialTabs(S)
  IN  UNION { IF T.open.bar = << >> THEN StartPage(T) ELSE {T} : T \in initialized }

\* openUrlInPrimaryWindow and openWindowRequestInPrimary
ForExternalContent(S) == IF S.open.ready THEN S ELSE Restored(S, PinnedEntries(S), FirstOf(PinnedEntries(S)))

(***************************************************************************)
(* The steps: the program starts, and is reactivated.                      *)
(***************************************************************************)
TabEvent == tb.events < MaxTabEvents
Becomes(S) == tb' = S
Counted(S) == TabEvent /\ tb' = [S EXCEPT !.events = @ + 1]

StartProgram ==
  /\ ~tb.running /\ tb.starts < MaxStarts
  /\ Becomes([tb EXCEPT !.running = TRUE, !.starts = @ + 1, !.open = NoTabs])

Visible(S) == [S EXCEPT !.open.visible = TRUE]

ActivatePrimaryWindow == tb.running /\ \E S \in Activated(tb) : Becomes(Visible(S))

OpenUrlInPrimaryWindow ==
  /\ tb.running
  /\ LET S == Visible(ForExternalContent(tb))
     IN  \E t \in Fresh(S), activate \in BOOLEAN : Counted(Create(S, t, activate, FALSE, TRUE))

(***************************************************************************)
(* The user in the window, and its pages.                                  *)
(***************************************************************************)
Using == tb.running /\ tb.open.visible

OpenNewTab == Using /\ \E S \in StartPage(tb) : Counted(S)

SelectTab ==
  Using /\ \E t \in ToSet(tb.open.bar) \ (tb.open.closing \cup {tb.open.current}) : Counted(Select(tb, t))

\* urlChanged; a tab with a pending address has no page that changes.
Navigate ==
  /\ tb.running
  /\ \E t \in ToSet(tb.open.bar) \ (tb.open.closing \cup tb.open.lazy) :
       Counted(Schedule([tb EXCEPT !.open.web = IF t \in @ THEN @ \ {t} ELSE @ \cup {t}]))

\* setTabPinned
SetTabPinned ==
  /\ Using /\ tb.open.drag = None
  /\ \E t \in ToSet(tb.open.bar) \ tb.open.closing :
       LET pinned == t \notin tb.open.pinned
           S == [tb EXCEPT !.open.pinned = IF pinned THEN @ \cup {t} ELSE @ \ {t}]
           to == IF pinned THEN PinnedCount(S.open) ELSE PinnedCount(S.open) + 1
       IN  Counted(IF S.open.bar[to] = t THEN Schedule(S) ELSE Move(S, t, to))

\* QTabBar moves the tab that is dragged; mouseReleaseEvent puts it back into its group.
Drag ==
  /\ Using
  /\ \E t \in ToSet(tb.open.bar), to \in DOMAIN tb.open.bar :
       /\ tb.open.drag \in {None, t} /\ (tb.open.drag = None => t \notin tb.open.closing)
       /\ tb.open.bar[to] # t
       /\ Counted(LET S == Move(tb, t, to) IN [S EXCEPT !.open.drag = t])

Drop ==
  /\ Using /\ tb.open.drag # None
  /\ LET S == [tb EXCEPT !.open.drag = None]
         t == tb.open.drag
         at == Position(S.open.bar, t)
         to == IF t \in S.open.pinned THEN Min({at, PinnedCount(S.open)}) ELSE Max({at, PinnedCount(S.open) + 1})
     IN  Becomes(IF t \in ToSet(S.open.bar) THEN Move(S, t, to) ELSE S)

(***************************************************************************)
(* closeTab, finishClosingTab and reopenLastClosedTab.                     *)
(***************************************************************************)
\* The open tab after the one closed, or the last one.
Replacement(w, t) ==
  LET open == OpenTabs(w)
      after == { i \in DOMAIN open : Position(w.stack, open[i]) > Position(w.stack, t) }
  IN  IF open = << >> THEN t ELSE IF after = {} THEN Last(open) ELSE open[Min(after)]

StartClosingTab ==
  /\ Using
  /\ \E t \in ToSet(tb.open.bar) \ tb.open.closing :
       LET entry == [tab |-> t, pinned |-> t \in tb.open.pinned, web |-> t \in tb.open.web]
           S == [tb EXCEPT !.open.closing = @ \cup {t},
                           !.open.closed = LET s == << entry >> \o @ IN SubSeq(s, 1, Min({Len(s), MaxClosed}))]
       IN  Counted(Schedule(IF S.open.current = t THEN Select(S, Replacement(S.open, t)) ELSE S))

Without(w, t) ==
  [w EXCEPT !.bar = Others(@, t), !.stack = Others(@, t), !.closing = @ \ {t}, !.pinned = @ \ {t},
            !.web = @ \ {t}, !.lazy = @ \ {t}, !.drag = IF @ = t THEN None ELSE @,
            !.current = IF @ = t THEN None ELSE @, !.shown = IF @ = t THEN None ELSE @]

\* closeEvent, once the tabs are there: the session is saved; popups and full screen are not tabs.
Closed(S) == { [T EXCEPT !.open.visible = FALSE, !.open.drag = None] : T \in Saved(S) }

\* The last tab has gone: m_discardSessionOnClose, and the file is removed, or cannot be.
Emptied(S) ==
  { [S EXCEPT !.open.discard = TRUE, !.file = NoFile, !.behind = FALSE],
    [S EXCEPT !.open.discard = TRUE, !.behind = TRUE] }

FinishClosingTab ==
  /\ tb.running
  /\ \E t \in tb.open.closing :
       LET S == [tb EXCEPT !.open = Without(@, t)]
       IN  IF S.open.bar = << >>
           THEN \E E \in Emptied(S) : \E T \in Closed(E) : Becomes(T)
           ELSE IF tb.open.current = t
           THEN \E next \in ToSet(S.open.bar) :      \* QTabBar's choice
                  Becomes(Schedule([S EXCEPT !.open.current = next, !.open.shown = next, !.open.lazy = @ \ {next}]))
           ELSE Becomes(Schedule(S))

ReopenLastClosedTab ==
  /\ Using /\ tb.open.closed # << >>
  /\ LET entry == Head(tb.open.closed)
         S == Create([tb EXCEPT !.open.closed = Tail(@)], entry.tab, TRUE, entry.pinned, entry.web)
     IN  /\ entry.tab \notin ToSet(tb.open.bar)
         /\ Counted(IF entry.pinned THEN Move(S, entry.tab, PinnedCount(S.open)) ELSE S)

(***************************************************************************)
(* The timer, the window, the settings and the end of the program.         *)
(***************************************************************************)
SaveSession == tb.running /\ tb.open.timer /\ \E S \in Saved(tb) : Becomes(S)

CloseWindow == Using /\ tb.open.drag = None /\ \E S \in Closed(tb) : Becomes(S)

\* The settings dialog's new startup mode: in mode RestoreTabs the timer starts, else the session is saved at once.
SetStartupMode ==
  /\ Using /\ tb.open.drag = None
  /\ LET S == [tb EXCEPT !.mode = IF @ = "StartPage" THEN "RestoreTabs" ELSE "StartPage"]
     IN  IF S.mode = "RestoreTabs" THEN Counted(Schedule(S)) ELSE \E T \in Saved(S) : Counted(T)

\* The last window has been closed, or the program has died.
Exit ==
  /\ tb.running
  /\ Becomes([tb EXCEPT !.running = FALSE, !.open = NoTabs, !.behind = @ \/ tb.open.timer, !.dropped = {}])

TbNext ==
  \/ StartProgram \/ ActivatePrimaryWindow \/ OpenUrlInPrimaryWindow \/ OpenNewTab \/ SelectTab \/ Navigate
  \/ SetTabPinned \/ Drag \/ Drop \/ StartClosingTab \/ FinishClosingTab \/ ReopenLastClosedTab
  \/ SaveSession \/ CloseWindow \/ SetStartupMode \/ Exit

TbSpec == TbInit /\ [][TbNext]_tbVars

(***************************************************************************)
(* Properties.                                                             *)
(***************************************************************************)
\* The tab bar and the tab stack list the same tabs in the same order and show the same one: a click
\* on a tab brings up its own page, however tabs are moved, pinned, closed and reopened meanwhile.
TabsAgree ==
  /\ tb.open.bar = tb.open.stack /\ IsInjective(tb.open.bar)
  /\ tb.open.current = tb.open.shown
  /\ tb.open.current = None <=> tb.open.bar = << >>
  /\ tb.open.closing \subseteq ToSet(tb.open.bar)

\* When no save is due and none has failed, the session file holds the open tabs that the next start
\* is to bring back: none that is closing or gone, in their order, pinned tabs first, and regular ones
\* left out before any pinned one (scheduleSessionSave, saveSession, SessionStore::save).
SessionIsSaved ==
  tb.running /\ tb.open.ready /\ ~tb.open.timer /\ ~tb.behind =>
    LET w == tb.open
        wanted == { t \in ToSet(w.bar) \ w.closing : t \in w.web /\ (tb.mode = "RestoreTabs" \/ t \in w.pinned) }
        saved == tb.file.tabs
    IN  /\ \A i \in DOMAIN saved : saved[i].tab \in wanted /\ (saved[i].pinned <=> saved[i].tab \in w.pinned)
        /\ Len(saved) = Min({Cardinality(wanted), MaxRestored})
        /\ \A i, j \in DOMAIN saved :
             i < j => \/ saved[i].pinned /\ ~saved[j].pinned
                      \/ /\ saved[i].pinned <=> saved[j].pinned
                         /\ Position(w.bar, saved[i].tab) < Position(w.bar, saved[j].tab)
        /\ \A t \in wanted, i \in DOMAIN saved :
             t \in w.pinned /\ ~saved[i].pinned => \E j \in DOMAIN saved : saved[j].tab = t

\* In the mode that continues with the previous tabs, a start brings back all of the saved session
\* (restoreInitialTabs).
SessionIsRestored == tb.dropped = {}
=============================================================================
