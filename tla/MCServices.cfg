SPECIFICATION FairSpec
CONSTANTS
  Ids = {a, b}
  Secrets = {s}
  MaxCalls = 2
  Pages = {p1, p2}
  Requests = {r1, r2}
  MaxConcurrent = 1
  MaxLoads = 2
  MaxApplied = 2
INVARIANT AcknowledgedIsStored
INVARIANT RequestsAgree
PROPERTY CallsReturn
PROPERTY ScriptsAreAnswered
CHECK_DEADLOCK FALSE
