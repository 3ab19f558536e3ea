CONSTANTS
  View = {v1}
  NoView = none
  MaxOps = 1
  MaxReports = 2
  MaxRenames = 1
  MaxMishaps = 2
SPECIFICATION FairSpec
CHECK_DEADLOCK FALSE
PROPERTIES
  EntryGoes
  QueueFlushed
