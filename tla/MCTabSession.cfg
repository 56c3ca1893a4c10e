SPECIFICATION TbSpec
CONSTANTS
  Tabs = {t1, t2, t3}
  MaxRestored = 2
  MaxClosed = 1
  MaxTabEvents = 4
  MaxStarts = 2
INVARIANT SessionIsRestored
CHECK_DEADLOCK FALSE
