SPECIFICATION Spec
CONSTANTS
  r = r
  a = a
  b = b
  c = c
  t1 = t1
  t2 = t2
  Node <- Nodes
  Root = r
  Kids <- TreeKids
  MapValue <- TreeMapValues
  OwnSizes <- TwoSizes
  Thread <- TwoThreads
SYMMETRY SymmetricThreads
INVARIANTS
  PrefixExact
  EntryExact
  CellsSettled
PROPERTIES
  NoLostStore
