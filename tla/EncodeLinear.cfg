SPECIFICATION Spec
CONSTANTS
  r = r
  a = a
  b = b
  c = c
  t1 = t1
  t2 = t2
  Node <- ChainNodes
  Root = r
  Kids <- ChainKids
  MapValue <- ChainMapValues
  OwnSizes <- TwoSizes
  Thread <- OneThread
INVARIANTS
  PassesLinear
