SPECIFICATION FairSpec
CONSTANTS
  Pages = {p1, p2}
  Requests = {r1, r2}
  MaxConcurrent = 1
  MaxLoads = 2
  MaxApplied = 2
PROPERTY QueuedUntilReady
CHECK_DEADLOCK FALSE
