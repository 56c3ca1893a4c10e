SPECIFICATION FairParts
CONSTANTS
  Views = {v1, v2}
  NoView = NoView
  FirstView = v1
  MaxAsks = 2
  MaxClicks = 2
  MaxLoads = 1
  MaxRequests = 2
  StripTabs = {t1, t2, t3}
  AvailableWidths = {300, 700}
  MaxStripEvents = 4
  ToolTabs = {t1, t2}
  Queries = {"x", "y"}
  MaxToolEvents = 4
  ZoomTabs = {t1, t2, t3}
  ZoomWindows = {w1, w2}
  Sites = {a1, a2}
  MaxZoomEvents = 4
INVARIANT PopoutFollowsClick
INVARIANT AskingIsCurrent
INVARIANT NoRequestIsForgotten
INVARIANT PageAndWindowAgree
INVARIANT WindowAgrees
PROPERTY NobodyIsThrownOut
PROPERTY ExitsComplete
CHECK_DEADLOCK FALSE
