CONSTANTS
  a = a
  b = b
  c = c
  Outside = Outside
  Name = {a, b, c}
  Registries <- MCRegistries
SPECIFICATION Spec
INVARIANTS
  IInv
  PrefixRespectsDeps
  NoPackageTwice
PROPERTIES
  ImplementsBuildOrder
  Terminates
