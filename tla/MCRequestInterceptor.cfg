CONSTANTS
  k1 = k1
  k2 = k2
  k3 = k3
  s1 = s1
  s2 = s2
  t1 = t1
  t2 = t2
  Keys = {k1, k2, k3}
  Sources = {s1, s2}
  MaxSourcesPerRequest = 1
  MaxPendingSources = 2
  Policies <- MCPolicies
  Threads = {t1, t2}
  ProxyBlocked = {k3}
  MaxRequests = 3
SPECIFICATION Spec
SYMMETRY Symmetry
INVARIANT TypeOK
INVARIANT PendingCounted
INVARIANT PendingIsUndecided
INVARIANT PendingIsAnnounced
INVARIANT VerdictInForce
