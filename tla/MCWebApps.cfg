SPECIFICATION WaSpec
CONSTANTS
  Views = {v1, v2}
  Manifests = {m1, m2}
  AppIds = {i1, i2}
  MaximumApps = 2
  MaxPageLoads = 1
  MaxInstalls = 3
INVARIANT SavedAppsLoad
CHECK_DEADLOCK FALSE
