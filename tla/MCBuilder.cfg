CONSTANTS
  lib = lib
  gen = gen
  Outside = Outside
  NoFile = NoFile
  Torn = Torn
  Name = {lib, gen}
  Build = {b1}
  Mains = {gen}
  Catalog <- MCCatalog
  Extra <- MCExtra
  MaxVersion = 2
SPECIFICATION Spec
INVARIANTS
  IInv
  InterfacesFresh
PROPERTIES
  FirstBuildFresh
  RebuildFresh
  BuildReturns
