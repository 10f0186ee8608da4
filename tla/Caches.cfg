SPECIFICATION CachesSpec
SYMMETRY Symmetry
CONSTANTS
  m = m
  c = c
  plain = plain
  copying = copying
  Program = {p, q}
  Location = {m, c}
  Name = {m, c}
  NameOf <- MCNameOf
  Macro = {m}
  Text = {plain, copying}
  Copies <- MCCopies
  Blank = {}
  Config <- MCConfig
  None = None
  MaxEvents = 4
  Unused = Unused
  r1 = r1
  r2 = r2
  key = key
  u1 = u1
  u2 = u2
  line1 = line1
  line2 = line2
  inner = inner
CHECK_DEADLOCK FALSE
INVARIANTS
  HitAsParsed
  MembersStayOpen
  ResultsAreCurrent
  RemoteIsFresh
PROPERTIES
  StopsAsAsked
