CONSTANTS
  View = {v1}
  NoView = none
  MaxOps = 2
  MaxReports = 1
  MaxRenames = 1
  MaxMishaps = 1
SPECIFICATION Spec
CHECK_DEADLOCK FALSE
INVARIANTS
  TypeOK
  RefsCounted
  QuestionHasOnePlace
  EntryOutlivesSlave
