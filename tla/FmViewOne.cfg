CONSTANTS
  v1 = v1
  v2 = v2
  View = {v1, v2}
  Dir = {d1}
  NoDir = nodir
  File = {f1}
  Order = order
  Bounds <- Mixed
  Slow = FALSE
SPECIFICATION FairSpec
CHECK_DEADLOCK FALSE
INVARIANTS
  MonitorsMatchViews
  

  
