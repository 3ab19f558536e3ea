SPECIFICATION FairSpec
CONSTANTS
  Listener = {l1, l2, l3}
  MaxHolds = 2
INVARIANTS
  TypeOK
  CountIsRight
  FreedUnseen
  NoStaleIdler
PROPERTIES
  Implements
  DeletedGoes
\* a freed object does nothing any more
CHECK_DEADLOCK FALSE
