CONSTANTS
  MaxVersion = 2
  Archives <- MCArchives
  NoFile = NoFile
  Torn = Torn
SPECIFICATION Spec
INVARIANTS
  MooncWhole
PROPERTIES
  CoreMatchesMoonc
