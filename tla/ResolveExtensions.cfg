SPECIFICATION RefSpec
CONSTANTS
  f1 = f1
  f2 = f2
  f3 = f3
  f4 = f4
  a = a
  b = b
  File <- FourFiles
  Name <- Names
  WellKnown <- NoWellKnown
  DepLists <- GraphLists
  Contents <- AllContents
  RootLists <- FirstRoot
  RefLists <- ExtensionRefs
INVARIANTS
  ExtensionsScoped
