SPECIFICATION Spec
CONSTANTS
  source = source
  member = member
  folder = folder
  File = {source, member}
  Folder = {folder}
  Query = {q1, q2}
  Session = {d}
  Implicit = Implicit
  Home <- MCHome
  MayUse <- MCMayUse
  Parses = {0, 1}
  MaxMessages = 4
  MaxSettings = 2
CHECK_DEADLOCK FALSE
INVARIANTS
  StaleIsMarked
  ParsesOpenedFiles
  OneResponse
  ArrivalOrder
  DrainedIsFresh
PROPERTIES
  AnsweredInTurn
