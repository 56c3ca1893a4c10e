------------------------------- MODULE TabStrip -------------------------------
(***************************************************************************)
(* How the tabs of a window are drawn (BrowserTabBar).  Opening, pinning   *)
(* and closing a tab are animated: a tab's width is then held in its data  *)
(* and no longer follows the number of tabs, and the same for the minimum  *)
(* width of the bar while a tab is pinned.  A tab closes when its          *)
(* animation has ended; meanwhile others open, close and are pinned, and   *)
(* each changes the width that a running animation has to end at.          *)
(***************************************************************************)
EXTENDS Integers, FiniteSets

CONSTANTS
  StripTabs,        \* tabs, each opened once
  AvailableWidths,  \* of the bar, which the window's layout sets before it is shown
  MaxStripEvents    \* bound: pinnings and changes of the width

ASSUME StripAssumption == AvailableWidths # {} /\ AvailableWidths \subseteq Nat /\ MaxStripEvents \in Nat

VARIABLE sp

spVars == << sp >>

PinnedTabWidth == 40
RegularTabMinimumWidth == 112
RegularTabMaximumWidth == 220

(***************************************************************************)
(* tabs are those in the bar; regular, m_regularTabWidth; opening and      *)
(* pinning, the end value of such an animation of a tab, or 0; closing,    *)
(* the tabs with a closing one; held, the tabs with an animatedWidth;      *)
(* minimum, the end value of the animated minimum width, or 0, and         *)
(* heldMinimum, m_animatedMinimumWidth is set.                             *)
(***************************************************************************)
SpInit ==
  \E width \in AvailableWidths :
    sp = [tabs |-> {}, unopened |-> StripTabs, pinned |-> {}, available |-> width, regular |-> RegularTabMaximumWidth,
          opening |-> [t \in StripTabs |-> 0], pinning |-> [t \in StripTabs |-> 0], closing |-> {}, held |-> {},
          minimum |-> 0, heldMinimum |-> FALSE, events |-> 0]

SpIs(S) == sp' = S
Least(a, b) == IF a < b THEN a ELSE b
Clamp(n, low, high) == IF n < low THEN low ELSE Least(n, high)

NaturalWidth(S, t) == IF t \in S.pinned THEN PinnedTabWidth ELSE S.regular

\* QTabBar's own, with scroll buttons
BarMinimum == 75

NaturalMinimum(S) ==
  IF S.tabs # {} /\ S.tabs \subseteq S.pinned THEN Least(BarMinimum, Cardinality(S.tabs) * PinnedTabWidth) ELSE BarMinimum

Retargeted(S, ends) == [t \in StripTabs |-> IF ends[t] = 0 THEN 0 ELSE NaturalWidth(S, t)]

UpdateTabWidths(S) ==
  LET pinned == Cardinality(S.pinned)
      regular == Cardinality(S.tabs) - pinned
      width == IF regular = 0 THEN RegularTabMaximumWidth
               ELSE Clamp((S.available - Least(pinned * PinnedTabWidth, S.available)) \div regular,
                          RegularTabMinimumWidth, RegularTabMaximumWidth)
      N == [S EXCEPT !.regular = width]
  IN  [N EXCEPT !.opening = Retargeted(N, @), !.pinning = Retargeted(N, @),
                !.minimum = IF @ = 0 THEN 0 ELSE NaturalMinimum(N)]

\* take, stop and deleteLater: a stopped animation does not finish.
Stopped(S, t) == [S EXCEPT !.opening[t] = 0, !.pinning[t] = 0]

(***************************************************************************)
(* createTab.  Nothing is animated while the bar is hidden, a session is   *)
(* restored, or the style has no animations.                               *)
(***************************************************************************)
AnimateTabOpening(S, t) == [S EXCEPT !.opening[t] = NaturalWidth(S, t), !.held = @ \cup {t}]

OpenTabInStrip ==
  \E t \in sp.unopened, pinned \in BOOLEAN, animated \in BOOLEAN :
    LET S == UpdateTabWidths([sp EXCEPT !.unopened = @ \ {t}, !.tabs = @ \cup {t},
                                        !.pinned = IF pinned THEN @ \cup {t} ELSE @])
    IN  SpIs(IF animated THEN AnimateTabOpening(S, t) ELSE S)

(***************************************************************************)
(* animateTabPinning.  The animation starts at the width that is drawn and *)
(* is over at once if that happens to be the one it ends at; so for the    *)
(* minimum, which is already on its way if another tab is being pinned.    *)
(***************************************************************************)
PinningStopped(S) == [S EXCEPT !.minimum = 0, !.heldMinimum = FALSE]

StartPinningMinimum(S, inPlace) ==
  IF inPlace THEN PinningStopped(S) ELSE [S EXCEPT !.minimum = NaturalMinimum(S), !.heldMinimum = TRUE]

TogglePinned ==
  \E t \in sp.tabs \ sp.closing, animated, inPlace, minimumInPlace \in BOOLEAN :
    LET S == PinningStopped([Stopped(sp, t) EXCEPT !.pinned = IF t \in @ THEN @ \ {t} ELSE @ \cup {t},
                                                   !.events = @ + 1])
        \* in the map with its start as its end, which updateTabWidths corrects
        P == UpdateTabWidths([S EXCEPT !.pinning[t] = 1, !.held = @ \cup {t}])
        M == StartPinningMinimum(P, minimumInPlace)
    IN  /\ sp.events < MaxStripEvents
        /\ ~sp.heldMinimum => minimumInPlace = (NaturalMinimum(sp) = NaturalMinimum(P))
        /\ SpIs(IF ~animated THEN UpdateTabWidths([S EXCEPT !.held = @ \ {t}])
                ELSE IF inPlace THEN UpdateTabWidths([M EXCEPT !.pinning[t] = 0, !.held = @ \ {t}])
                ELSE M)

(***************************************************************************)
(* animateTabClosing, from closeTab.                                       *)
(***************************************************************************)
\* finishClosingTab, tabRemoved
TabRemoved(S, t) ==
  UpdateTabWidths([S EXCEPT !.tabs = @ \ {t}, !.pinned = @ \ {t}, !.closing = @ \ {t}, !.held = @ \ {t}])

CloseTabInStrip ==
  \E t \in sp.tabs \ sp.closing, animated \in BOOLEAN :
    LET S == Stopped(sp, t)
    IN  SpIs(IF animated THEN [S EXCEPT !.closing = @ \cup {t}, !.held = @ \cup {t}] ELSE TabRemoved(S, t))

ClosingFinished == \E t \in sp.closing : SpIs(TabRemoved(sp, t))

OpeningFinished == \E t \in sp.tabs : sp.opening[t] # 0 /\ SpIs([sp EXCEPT !.opening[t] = 0, !.held = @ \ {t}])

PinningFinished ==
  \E t \in sp.tabs :
    sp.pinning[t] # 0 /\ SpIs(UpdateTabWidths([sp EXCEPT !.pinning[t] = 0, !.held = @ \ {t}]))

PinningMinimumFinished == sp.minimum # 0 /\ SpIs(PinningStopped(sp))

SetAvailableWidth ==
  \E width \in AvailableWidths \ {sp.available} :
    sp.events < MaxStripEvents /\ SpIs(UpdateTabWidths([sp EXCEPT !.available = width, !.events = @ + 1]))

SpNext ==
  \/ OpenTabInStrip \/ TogglePinned \/ CloseTabInStrip \/ SetAvailableWidth
  \/ ClosingFinished \/ OpeningFinished \/ PinningFinished \/ PinningMinimumFinished

(***************************************************************************)
(* Property.                                                               *)
(***************************************************************************)
\* A tab's width is held only while one animation of it runs, and that one ends at the width the tab
\* then has, whatever was opened, closed or pinned since it started; the same for the bar's minimum
\* width (animateTabOpening, animateTabPinning, animateTabClosing, updateTabWidths).
WidthsSettle ==
  /\ \A t \in StripTabs :
       LET runs == << sp.opening[t] # 0, sp.pinning[t] # 0, t \in sp.closing >>
           running == { i \in 1 .. 3 : runs[i] }
       IN  /\ Cardinality(running) = IF t \in sp.held THEN 1 ELSE 0
           /\ running # {} => t \in sp.tabs
           /\ sp.opening[t] \in {0, NaturalWidth(sp, t)} /\ sp.pinning[t] \in {0, NaturalWidth(sp, t)}
  /\ sp.heldMinimum = (sp.minimum # 0)
  /\ sp.minimum \in {0, NaturalMinimum(sp)}
=============================================================================
