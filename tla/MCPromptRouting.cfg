CONSTANTS
  k1 = k1
  k2 = k2
  p1 = p1
  p2 = p2
  s1 = s1
  o = o
  Blank = Blank
  MainWin = MainWin
  Popups = {pop}
  v1 = v1
  v2 = v2
  v3 = v3
  Views = {v1, v2, v3}
  NoView = NoView
  FirstView = v1
  Urls = {p1, Blank}
  Matching <- MCMatching
  OriginOnly = {o}
  Keys = {k1, k2}
  Sources = {s1, o}
  MaxSourcesPerRequest = 2
  MaxPendingSources = 4
  Policies <- MCPolicies
  MaxAffectedViews = 2
  MaxRetries = 1
  MaxBlocked = 2
  MaxMoves = 4
SPECIFICATION Spec
SYMMETRY Symmetry
CHECK_DEADLOCK FALSE
INVARIANT PendingIsPrompted
PROPERTY ImplementsLifecycle
PROPERTY RoutesAgree
INVARIANT PromptFollowsTab
