CONSTANTS
  Icon = {icon1, icon2}
  Proc = {proc1, proc2, proc3}
  MaxCalls = 3
  MaxCrashes = 1
SPECIFICATION FairSpec
CHECK_DEADLOCK FALSE
INVARIANTS
  TypeOK
  QueueOK
  QueueIsServed
  PendingMatches
PROPERTIES
  KillsIdleOnly
  QueueDrains
