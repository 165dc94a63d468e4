CONSTANTS
  Handle = {c1, c2, c3}
  Path = {p1}
  Wit = Wit
  Binding = {g1}
  Core = {k1, k2}
  None = None
SPECIFICATION Spec
INVARIANTS
  IInv
  OpenIsWhole
  NoLeftovers
PROPERTIES
  Settles
