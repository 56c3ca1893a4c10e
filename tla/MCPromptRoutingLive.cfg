CONSTANTS
  k1 = k1
  k2 = k2
  p1 = p1
  p2 = p2
  s1 = s1
  o = o
  Blank = Blank
  MainWin = MainWin
  Popups = {pop}
  v1 = v1
  v2 = v2
  v3 = v3
  Views = {v1, v2}
  NoView = NoView
  FirstView = v1
  Urls = {p1, p2, Blank}
  Matching <- MCMatching
  OriginOnly = {o}
  Keys = {k1}
  Sources = {s1, o}
  MaxSourcesPerRequest = 1
  MaxPendingSources = 4
  Policies <- MCPolicies
  MaxAffectedViews = 2
  MaxRetries = 1
  MaxBlocked = 3
  MaxMoves = 4
SPECIFICATION FairSpec
CHECK_DEADLOCK FALSE
PROPERTY EveryNoticeIsSettled
PROPERTY ImplementsLifecycle
