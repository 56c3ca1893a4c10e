SPECIFICATION Spec
CONSTANTS
  Tabs = {t1, t2, t3}
  MaxRestored = 2
  MaxClosed = 1
  MaxTabEvents = 3
  MaxStarts = 2
  ReaderTabs = {t1, t2}
  Appearances = {light, dark}
  ProbeRetries = 1
  MaxReaderEvents = 3
  MaxDownloads = 3
  MaximumRecords = 2
  MaxPauses = 1
  MaxDownloadStarts = 1
  Addresses = {a1, a2}
  Times = {1, 2}
  MaximumVisits = 1
  PruneSlack = 1
  MaxVisits = 3
  Links = {a1, a2}
  Windows = {w1, w2}
  MaxBookmarkId = 4
  Views = {v1, v2}
  Manifests = {m1}
  AppIds = {i1, i2}
  MaximumApps = 2
  MaxPageLoads = 2
  MaxInstalls = 1
  Keys = {k1, k2}
  Persistable = {k1}
  Passwords = {p, q}
  AuthRequests = {q1, q2}
  MaxRemembered = 1
  MaxChanges = 1
  StoragePages = {s1, s2}
  StoredValues = {v, w}
  MaxWrites = 3
  MaxReplaced = 1
  Processes = {p1, p2, p3}
  MaxForwards = 2
  Credentials = {c1, c2}
  MaxSignIns = 1
  MaxDialogs = 2
  BuiltInEngines <- MCBuiltInEngines
  CustomIds = {"c1"}
  EngineNames = {"n1", "n2", "n3"}
  Keywords = {"k1", "k2"}
INVARIANT TabsAgree
INVARIANT SessionIsSaved
INVARIANT ReaderAgrees
INVARIANT DataAgrees
INVARIANT WebAppsAgree
INVARIANT LaunchesAreAccounted
INVARIANT StorageConverges
PROPERTY RefusedIsNotResent
CHECK_DEADLOCK FALSE
