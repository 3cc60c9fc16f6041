SPECIFICATION LoadSpec
CONSTANTS
  f1 = f1
  f2 = f2
  f3 = f3
  a = a
  b = b
  File <- ThreeFiles
  Name <- Names
  WellKnown <- OneWellKnown
  DepLists <- ShortLists
  Contents <- AllContents
  RootLists <- ShortRoots
INVARIANTS
  TypeOK
  LoadedOnce
  DepsPrecede
  RecursionBounded
  CycleIsReal
  TableComplete
  NoDoubleDefinition
PROPERTIES
  Terminates
  ImplementsOrder
