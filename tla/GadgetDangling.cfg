SPECIFICATION Spec
CONSTANTS
  Shelf = {s1, s2}
  Class = {k1}
  g1 = g1
  g2 = g2
  k1 = k1
  k2 = k1
  Gadget = {g1}
  ClassOf <- ClassOfMC
  Client = {c1, c2, c3}
  MaxBatch = 2
  None = None
INVARIANTS
  DelRemoves
CHECK_DEADLOCK FALSE
