SPECIFICATION Spec
CONSTANTS
  Views = {v1, v2}
  NoView = NoView
  FirstView = v1
  MaxAsks = 1
  MaxClicks = 0
  MaxLoads = 1
  MaxRequests = 1
INVARIANT PromptIsShown
