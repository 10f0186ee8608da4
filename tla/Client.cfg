SPECIFICATION ClientSpec
CONSTANTS
  Call = {c1, c2, c3}
  Client = {x1, x2, x3}
  Limit = 2
  NoClient = NoClient
  MaxCloses = 1
  Unused = Unused
CHECK_DEADLOCK FALSE
INVARIANTS
  SlotsAreShared
  ConnectionsAreOwned
  DataIsWhole
PROPERTIES
  EverythingSettles
