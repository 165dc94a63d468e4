CONSTANTS
  Run = {r1, r2}
  Path = {p, q}
  Node = {n1, n2}
  Asked <- MCAsked
  MaxFd = 4
  MaxSize = 1
  None = None
  Zero = Zero
  a = a
  b = b
  nan = nan
  Name <- MCName
  Place <- MCPlace
  Root = root
  Called <- MCCalled
  Modes <- MCModes
  Fresh <- MCFresh
  Checks <- MCChecks
  Finite <- MCFinite
  Odd <- MCOdd
  Part = 2
  Million = 3
  MaxI64 = 3
SYMMETRY Symmetry
SPECIFICATION SpecAll
INVARIANTS
  IInv
  AddNeverReplaces
  NeverReused
  ByAuthor
  LooksTrue
  AccessTrue
  TimesKept
PROPERTIES
  MkdirWhole
