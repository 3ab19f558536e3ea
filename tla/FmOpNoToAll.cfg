CONSTANTS
  a = a
  b = b
  c = c
  d = d
  e = e
  sock = sock
  NoNode = NoNode
  NoTask = NoTask
  Node <- MixedNode
  Parent <- MixedParent
  Kind <- MixedKind
  Size <- MixedSize
  Args <- MixedArgs
  Ops = {"move"}
  ToDirs = {TRUE}
  CrossDev = {}
  Exists = {b}
  Faulty = {}
  MaxFaults = 0
  ErrorAnswers = {"retry", "ignore", "ignoreAll", "abort"}
  OverwriteAnswers = {"noAll"}
  MayAbort = FALSE
SPECIFICATION Spec
INVARIANTS
  NothingLost
