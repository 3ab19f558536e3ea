CONSTANTS
  a = a
  b = b
  c = c
  d = d
  e = e
  sock = sock
  NoNode = NoNode
  NoTask = NoTask
  Node <- NestNode
  Parent <- NestParent
  Kind <- NestKind
  Size <- NestSize
  Args <- NestArgs
  Ops = {"copy", "move", "remove", "srm", "symlink", "rename"}
  ToDirs = {TRUE, FALSE}
  CrossDev = {}
  Exists = {}
  Faulty = {}
  MaxFaults = 0
  ErrorAnswers = {"retry", "ignore", "ignoreAll", "abort"}
  OverwriteAnswers = {"yes", "yesAll", "no", "noAll"}
  MayAbort = TRUE
SPECIFICATION FairSpec

  
  
  
  
PROPERTIES
  RemovesComeLast
  AbortEnds
