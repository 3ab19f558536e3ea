CONSTANTS
  a = a
  b = b
  c = c
  d = d
  e = e
  sock = sock
  NoNode = NoNode
  NoTask = NoTask
  Node <- NestNode
  Parent <- NestParent
  Kind <- NestKind
  Size <- NestSize
  Args <- NestArgs
  Ops = {"copy", "remove"}
  ToDirs = {TRUE}
  CrossDev = {}
  Exists = {}
  Faulty = {"lstat", "opendir", "make", "open", "read", "remove"}
  MaxFaults = 2
  ErrorAnswers = {"retry", "ignore", "ignoreAll", "abort"}
  OverwriteAnswers = {"yes", "yesAll", "no", "noAll"}
  MayAbort = TRUE
SPECIFICATION FairSpec
INVARIANTS
  AllDone
  SleepsOnlyOnQuestion
