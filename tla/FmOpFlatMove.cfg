CONSTANTS
  a = a
  b = b
  c = c
  d = d
  e = e
  sock = sock
  NoNode = NoNode
  NoTask = NoTask
  Node <- FlatNode
  Parent <- FlatParent
  Kind <- FlatKind
  Size <- FlatSize
  Args <- FlatArgs
  Ops = {"move", "srm", "symlink", "rename"}
  ToDirs = {TRUE}
  CrossDev = {c}
  Exists = {a, sock}
  Faulty = {"lstat", "open", "read", "write", "remove", "link", "rename"}
  MaxFaults = 2
  ErrorAnswers = {"retry", "ignore", "ignoreAll", "abort"}
  OverwriteAnswers = {"yes", "yesAll", "no", "noAll"}
  MayAbort = TRUE
SPECIFICATION Spec
INVARIANTS
  TypeOK
  NothingLost
  

  
CHECK_DEADLOCK FALSE
