SPECIFICATION AssemblerSpec
CONSTANTS
  X = X
  Y = Y
  A = A
  B = B
  C = C
  D = D
  sa = sa
  sb = sb
  sc = sc
  None = None
  Elsewhere = Elsewhere
  Unused = Unused
  Names = {X, Y}
  Unnamed = Unnamed
  Ops = {"sect", "loctr", "start", "extern", "cattr"}
  Parts <- AnyParts
  MaxSections = 3
SYMMETRY Symmetry
CHECK_DEADLOCK FALSE
INVARIANT NamesAreUnique
