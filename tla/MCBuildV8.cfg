CONSTANTS
  lib = lib
  gen = gen
  Outside = Outside
  NoFile = NoFile
  Torn = Torn
  Name = {lib, gen}
  Build = {b1, b2}
  Mains = {gen}
  Catalog <- MCCatalog
  Extra = {}
  MaxVersion = 1
SPECIFICATION SpecAll
INVARIANTS
  IInvAll
PROPERTIES
  ImplementsMoonC
  ImplementsBuilder
  PanicsExplained
  PoisonedForGood
