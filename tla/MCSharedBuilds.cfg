CONSTANTS
  Outside = Outside
  NoFile = NoFile
  Torn = Torn
  Name = {lib, gen}
  Build = {b1, b2}
  Mains = {lib, gen}
  Catalog <- MCCatalog
  Extra = {}
  MaxVersion = 1
SYMMETRY Symmetry
SPECIFICATION SpecShared
PROPERTIES
  SharedFresh
