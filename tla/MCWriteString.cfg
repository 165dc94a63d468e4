CONSTANTS
  MaxLen = 6
  Input <- MCInput
  Limit = 4
SPECIFICATION Spec
INVARIANTS
  IInv
  InOrder
  WholeIfFits
  AsciiWhole
PROPERTIES
  Ends
